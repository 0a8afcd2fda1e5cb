----------------------------- MODULE MCScreens -----------------------------
(***************************************************************************)
(* A drive and an image in the list.                                       *)
(***************************************************************************)
EXTENDS Screens

CONSTANTS drive, image

DriveFirst ==
    [there \in SUBSET {drive, image} |->
        SelectSeq(<<drive, image>>, LAMBDA t : t \in there)]
=============================================================================
