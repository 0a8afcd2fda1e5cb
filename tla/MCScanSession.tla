--------------------------- MODULE MCScanSession ---------------------------
(***************************************************************************)
(* Command lines and policies for model checking ScanSession.              *)
(***************************************************************************)
EXTENDS ScanSession

\* A signed policy that judges Medium findings and is harsher on High ones.
Harsh == [on_medium |-> "Quarantine", on_high |-> "Fail", on_critical |-> "Fail"]

CommandLines(asRoot, files) ==
    [target : {"device", "image"}, disposable : BOOLEAN,
     out : {"none", "dir", "rootdir", "fresh"}, release : BOOLEAN,
     staged : BOOLEAN, tree : BOOLEAN, root : asRoot, policy : files]

\* A release directory below a --out that does not exist cannot exist, and
\* what only a release looks at is fixed when none is asked for.
Sensible(lines) ==
    {o \in lines : /\ o.staged => o.out # "fresh"
                   /\ ~o.release => ~o.staged /\ ~o.tree}

\* Run by root, as the documentation asks for, over media with directories; an
\* image may also be scanned by an unprivileged user.
ScanOptions ==
    {o \in Sensible(CommandLines(BOOLEAN, {Harsh})) :
        /\ o.release => o.tree
        /\ ~o.root => o.target = "image" /\ ~o.disposable}

\* Scans as root with a release or without, for the claim the code does not keep.
RootOptions == Sensible(CommandLines({TRUE}, {Harsh}))

OneFinding == {{}, {"High"}}
=============================================================================
