------------------------------ MODULE FileScan ------------------------------
(***************************************************************************)
(* FileScanStage::run (src/scan/mod.rs): the loop over the files that the  *)
(* walk discovered, with the inspection of archives within archives        *)
(* (src/scan/archives.rs), and then the carving of RawSpace.               *)
(*                                                                         *)
(* What a file or an archive holds is data.  An archive may hold itself,   *)
(* as a compressed one can, and members whose names do not say that they   *)
(* are archives, or that do not unpack, hold nothing.                      *)
(***************************************************************************)
EXTENDS RawSpace

CONSTANTS
    Archives,
    NoArchive,
    ArchiveOf,   \* what each of them holds
    FilesOf,     \* the files discovered on each medium
    MaxNesting,  \* max_depth, 3 in the code
    MaxUnpacked  \* max_uncompressed_size_mb

\* A member is odd for its name, for a link, for macros, for two names or for its
\* ratio; "size" is what it says that it unpacks to, for gzip what it does.
Members == [odd : BOOLEAN, size : Nat, nested : Archives \cup {NoArchive}]

\* A zip with its central directory or with local headers alone, a tar, a gzip, or
\* anything else. The directory of a broken one, or the header of 7z, makes no sense.
Holdings == [form : {"central", "local", "tar", "gzip", "other"}, broken : BOOLEAN,
             members : Seq(Members)]

\* What can be read of a file, and which of the inspections would have a finding:
\* of its name, of its first 4096 bytes, of the whole (YARA, ClamAV, PDF, OLE2).
Files == [state : {"unread", "known", "header", "whole"}, odd : SUBSET {"name", "header", "whole"},
          holds : Archives \cup {NoArchive}]

ASSUME ArchivesAssumption == NoArchive \notin Archives /\ ArchiveOf \in [Archives -> Holdings]
ASSUME OthersAssumption == \A a \in Archives : ArchiveOf[a].form = "other" => ArchiveOf[a].members = <<>>
ASSUME FilesAssumption == \A m \in Media : FilesOf[m] \in Seq(Files)
ASSUME NestingAssumption == MaxNesting \in Nat /\ MaxUnpacked \in Nat

VARIABLES
    file,       \* the file of discovered_files at hand
    stack,      \* the calls of inspect_archive_recursive, their depth is their place
    total,      \* cumulative_uncompressed
    suspects    \* the files with a finding

fileVars == <<file, stack, total, suspects>>
stageVars == <<vars, fileVars>>

files == FilesOf[medium]

StageInit ==
    /\ Init
    /\ file = 1 /\ stack = <<>> /\ total = 0 /\ suspects = {}

Suspect(found) == suspects' = IF found THEN suspects \cup {file} ELSE suspects

TooDeep(frames) == Len(frames) > MaxNesting

\* Mutant: an archive that lies too deep is passed over without a finding.
EnterSilently(a, frames, found) ==
    /\ stack' = IF a = NoArchive \/ TooDeep(frames) THEN frames
                ELSE Append(frames, [holds |-> a, at |-> 1, opened |-> FALSE])
    /\ Suspect(found \/ (a # NoArchive /\ ~TooDeep(frames) /\ ArchiveOf[a].broken))

\* inspect_archive_recursive, with a finding of the member that led here.
Enter(a, frames, found) ==
    /\ stack' = IF a = NoArchive \/ TooDeep(frames) THEN frames
                ELSE Append(frames, [holds |-> a, at |-> 1, opened |-> FALSE])
    /\ Suspect(found \/ (a # NoArchive /\ (TooDeep(frames) \/ ArchiveOf[a].broken)))

\* How much of a file is inspected: a known good one for its name only.
Inspected(state) ==
    CASE state = "whole" -> {"name", "header", "whole"}
      [] state = "header" -> {"name", "header"}
      [] OTHER -> {"name"}

TakeFile ==
    /\ file <= Len(files) /\ stack = <<>>
    /\ LET f == files[file]
           a == IF f.state = "whole" THEN f.holds ELSE NoArchive IN
         /\ Enter(a, <<>>, f.odd \cap Inspected(f.state) # {})
         /\ file' = IF a = NoArchive THEN file + 1 ELSE file
    /\ total' = 0

-----------------------------------------------------------------------------
Top == stack[Len(stack)]
Below == SubSeq(stack, 1, Len(stack) - 1)
Holding == ArchiveOf[Top.holds]
Member == Holding.members[Top.at]

AtMember(forms) ==
    stack # <<>> /\ Holding.form \in forms /\ ~Holding.broken /\ Top.at <= Len(Holding.members)

Advanced == Append(Below, [Top EXCEPT !.at = @ + 1, !.opened = FALSE])

\* An archive is left at its end, or when the limit of what it may unpack to is passed.
LeaveWith(found) ==
    /\ stack' = Below
    /\ file' = IF Below = <<>> THEN file + 1 ELSE file
    /\ Suspect(found)

\* A member of the central directory is looked into before its size is counted.
OpenMember ==
    /\ AtMember({"central"}) /\ ~Top.opened
    /\ Enter(Member.nested, Append(Below, [Top EXCEPT !.opened = TRUE]), Member.odd)
    /\ UNCHANGED <<file, total>>

CountMember ==
    /\ AtMember({"central"}) /\ Top.opened
    /\ total' = total + Member.size
    /\ IF total' > MaxUnpacked
         THEN LeaveWith(TRUE)
         ELSE stack' = Advanced /\ UNCHANGED <<file, suspects>>

\* One of the local headers, or of a tar, is counted first.
TakeMember ==
    /\ AtMember({"local", "tar"})
    /\ total' = total + Member.size
    /\ IF total' > MaxUnpacked
         THEN LeaveWith(TRUE)
         ELSE Enter(Member.nested, Advanced, Member.odd) /\ UNCHANGED file

\* What a gzip unpacks to is counted, and not compared with the limit.
Unpack ==
    /\ AtMember({"gzip"})
    /\ total' = IF Member.nested = NoArchive THEN total ELSE total + Member.size
    /\ Enter(Member.nested, Advanced, Member.odd)
    /\ UNCHANGED file

LeaveArchive ==
    /\ stack # <<>> /\ ~ AtMember({"central", "local", "tar", "gzip"})
    /\ LeaveWith(FALSE)
    /\ UNCHANGED total

FileNext == TakeFile \/ OpenMember \/ CountMember \/ TakeMember \/ Unpack \/ LeaveArchive

\* The files come before the ranges to carve.
FilesLeft == step = "ranges" /\ file <= Len(files)

StageNext ==
    \/ FilesLeft /\ FileNext /\ UNCHANGED vars
    \/ ~FilesLeft /\ Next /\ UNCHANGED fileVars

Spec == StageInit /\ [][StageNext]_stageVars

\* The stages of one command run in one thread, which the system schedules.
FairSpec == Spec /\ WF_stageVars(StageNext)

-----------------------------------------------------------------------------
Frames == [holds : Archives, at : Nat \ {0}, opened : BOOLEAN]

\* Type invariant: no more calls are open at a time than the depth allows.
StageTypeOK ==
    /\ TypeOK
    /\ file \in 1 .. Len(files) + 1
    /\ stack \in Seq(Frames) /\ Len(stack) <= MaxNesting + 1
    /\ total \in Nat
    /\ suspects \subseteq 1 .. file

\* The archives that lie n levels within an archive.
Nested(a) == {ArchiveOf[a].members[i].nested : i \in DOMAIN ArchiveOf[a].members} \ {NoArchive}
Layers(a) ==
    LET layer[n \in 0 .. MaxNesting + 1] ==
          IF n = 0 THEN {a} ELSE UNION {Nested(b) : b \in layer[n - 1]}
    IN  layer

\* What an archive says that its first members unpack to, but for what is in a gzip,
\* when "inner" is what the archives among them unpack to.
OwnSize(a, i) == IF ArchiveOf[a].form = "gzip" THEN 0 ELSE ArchiveOf[a].members[i].size
Sizes(a, inner) ==
    LET size[i \in 0 .. Len(ArchiveOf[a].members)] ==
          IF i = 0 THEN 0 ELSE size[i - 1] + OwnSize(a, i) + inner[i]
    IN  size

\* What all of it unpacks to, as often as it lies there, down to as many levels as
\* are allowed.
Unpacked(a) ==
    LET unpacked[x \in (0 .. MaxNesting + 1) \X Archives] ==
          LET members == ArchiveOf[x[2]].members
              inner == [i \in DOMAIN members |->
                          IF members[i].nested = NoArchive THEN 0
                          ELSE unpacked[<<x[1] - 1, members[i].nested>>]]
          IN  IF x[1] = 0 THEN 0 ELSE Sizes(x[2], inner)[Len(members)]
    IN  unpacked[<<MaxNesting + 1, a>>]

\* An archive that was read as a whole and has no finding has nothing odd in it at
\* any level, is not nested deeper than the policy allows, and does not say that it
\* unpacks to more than that allows, whatever the loops and the calls break off.
CleanIsHarmless ==
    \A i \in DOMAIN files \ suspects :
      LET a == files[i].holds IN
        i < file /\ files[i].state = "whole" /\ a # NoArchive =>
          /\ \A n \in 0 .. MaxNesting : \A b \in Layers(a)[n] :
               /\ ~ArchiveOf[b].broken
               /\ \A j \in DOMAIN ArchiveOf[b].members : ~ArchiveOf[b].members[j].odd
          /\ Layers(a)[MaxNesting + 1] = {}
          /\ Unpacked(a) <= MaxUnpacked
=============================================================================
