----------------------------- MODULE MCSnapshot -----------------------------
(***************************************************************************)
(* Model checking Snapshot: a device of four blocks, buffers of two, so    *)
(* that short reads leave stale tails, and fewer buffers than chunks.      *)
(***************************************************************************)
EXTENDS Snapshot
=============================================================================
