------------------------------ MODULE CopyOnce ------------------------------
(***************************************************************************)
(* What create_snapshot promises its callers, without threads, channels or *)
(* buffers: one sequential reading of a device is copied, and the copy is  *)
(* either committed or given up and, where that is possible, removed.      *)
(***************************************************************************)
EXTENDS Naturals, Sequences

CONSTANT Block

VARIABLES
    given,   \* the blocks the device has returned
    copy,    \* the blocks of the copy on the station
    status   \* "copying", "committed", "aborted" or "crashed"

vars == <<given, copy, status>>

Extends(t, s) == Len(s) < Len(t) /\ s = SubSeq(t, 1, Len(s))

Init == given = <<>> /\ copy = <<>> /\ status = "copying"

\* The device returns more blocks.  It is never read again after a commit.
Deliver ==
    /\ status \in {"copying", "aborted"}
    /\ given' \in Seq(Block)
    /\ Extends(given', given)
    /\ UNCHANGED <<copy, status>>

\* Some blocks already delivered, the next ones in order, reach the copy.
Write ==
    /\ status = "copying"
    /\ copy' \in Seq(Block)
    /\ Extends(copy', copy)
    /\ copy' = SubSeq(given, 1, Len(copy'))
    /\ UNCHANGED <<given, status>>

\* The copy is complete.
Commit ==
    /\ status = "copying"
    /\ copy = given
    /\ status' = "committed"
    /\ UNCHANGED <<given, copy>>

\* The copy is given up and removed, where it can be removed.
Abort ==
    /\ status = "copying"
    /\ status' = "aborted"
    /\ copy' \in {<<>>, copy}
    /\ UNCHANGED given

\* The station stops: whatever was copied stays behind.
Crash ==
    /\ status = "copying"
    /\ status' = "crashed"
    /\ UNCHANGED <<given, copy>>

Next == Deliver \/ Write \/ Commit \/ Abort \/ Crash

Spec == Init /\ [][Next]_vars
=============================================================================
