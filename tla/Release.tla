------------------------------ MODULE Release ------------------------------
(***************************************************************************)
(* release_snapshot_files (src/release/mod.rs) over the files of DirWalk.  *)
(*                                                                         *)
(* What the sanitizing of names does to a name is a constant: the          *)
(* segments it comes to.  Symbolic links that stand in the staging         *)
(* directory lead to files; links to directories are left out.             *)
(***************************************************************************)
EXTENDS DirWalk, SequencesExt

CONSTANTS
    CleanNames,
    DotDot,     \* the segment ".."
    Segments,   \* of each name: split at slashes, "." dropped, each one cleaned
    Stagings    \* what a staging directory may hold before

ASSUME SegmentsAssumption == Segments \in [Names -> Seq(CleanNames \cup {DotDot})]

Blocks == (Nat \ {0}) \X Nat
Nodes == [type : {"dir", "file", "link"}, content : Seq(Blocks)]

Ancestors(path) == {SubSeq(path, 1, n) : n \in 1 .. Len(path) - 1}

\* Below the staging directory every path leads through directories.
IsTree(tree) ==
    /\ tree \in [DOMAIN tree -> Nodes]
    /\ \A p \in DOMAIN tree :
          /\ p \in Seq(CleanNames) \ {<<>>}
          /\ \A a \in Ancestors(p) : a \in DOMAIN tree /\ tree[a].type = "dir"

ASSUME StagingsAssumption == \A tree \in Stagings : IsTree(tree)

VARIABLES
    rpc,
    turn,       \* the entry of found at hand
    before,     \* history: what the staging directory held
    staging     \* what it holds: a node for each path

releaseVars == <<rpc, turn, before, staging>>
allVars == <<vars, releaseVars>>

Directory == [type |-> "dir", content |-> <<>>]
FileOf(content) == [type |-> "file", content |-> content]

\* What a name of the medium comes to below the staging directory.
Sanitized(name) == Segments[name]

\* sanitize_relative_path, for a path without ".."
CleanPath(path) == FlattenSeq([i \in DOMAIN path |-> Sanitized(path[i])])

\* What is read for a file: its first cluster and those that come after it on the
\* medium. Without a cluster nothing is.
ReadBlocks(f) ==
    IF f.cluster = NoCluster THEN <<>> ELSE [i \in 1 .. f.size |-> <<f.part, f.cluster + i - 1>>]

Readable(block) ==
    block[2] \in Clusters \ VolumesOf[medium][block[1]].noData

Entry == found[turn]
Target == CleanPath(Entry.path)

\* create_dir_all passes through directories only.
MayMake(paths) == \A p \in paths \cap DOMAIN staging : staging[p].type = "dir"
Making(paths) == [p \in DOMAIN staging \cup paths |->
                    IF p \in DOMAIN staging THEN staging[p] ELSE Directory]

ReleaseInit ==
    /\ Init
    /\ rpc \in {"start", "browse"} /\ turn = 1
    /\ staging \in Stagings
    /\ rpc = "browse" => staging = <<>>
    /\ before = staging

\* The staging directory is made where it is missing, and the snapshot opened.
Prepare ==
    /\ rpc = "start"
    /\ rpc' \in {"walk", "failed"}
    /\ UNCHANGED <<vars, turn, before, staging>>

Walk ==
    /\ rpc \in {"walk", "browse"} /\ Advance
    /\ UNCHANGED releaseVars

\* The browser of the terminal interface walks as well, and may change its mind.
CancelBrowsing ==
    /\ rpc = "browse" /\ Cancel
    /\ UNCHANGED releaseVars

StartCopying ==
    /\ rpc = "walk" /\ pc = "done"
    /\ rpc' = "files"
    /\ UNCHANGED <<vars, turn, before, staging>>

InTurn(kind) == rpc = "files" /\ turn <= Len(found) /\ Entry.kind = kind

Refused == Target = <<>> \/ \E i \in DOMAIN Target : Target[i] = DotDot

\* The whole release ends with the first path that is refused, or empty.
RefusePath ==
    /\ \E kind \in {"file", "dir"} : InTurn(kind)
    /\ Refused
    /\ rpc' = "failed"
    /\ UNCHANGED <<vars, turn, before, staging>>

\* Whatever is already there under the name of a directory is left as it is.
MakeDirectory ==
    /\ InTurn("dir") /\ ~Refused
    /\ IF Target \in DOMAIN staging
         THEN UNCHANGED staging
         ELSE /\ MayMake(Ancestors(Target))
              /\ staging' = Making(Ancestors(Target) \cup {Target})
    /\ turn' = turn + 1
    /\ UNCHANGED <<vars, rpc, before>>

\* Mutant: what stands at the path is opened whatever it is.
CreateFileAnyway ==
    /\ InTurn("file") /\ ~Refused
    /\ MayMake(Ancestors(Target))
    /\ staging' = [Making(Ancestors(Target) \cup {Target}) EXCEPT ![Target] = FileOf(<<>>)]
    /\ rpc' = "copy"
    /\ UNCHANGED <<vars, turn, before>>

\* Mutant: only the file itself is made.
CreateFileOnly ==
    /\ InTurn("file") /\ ~Refused
    /\ MayMake(Ancestors(Target))
    /\ Target \in DOMAIN staging => staging[Target].type = "file"
    /\ staging' = [Making({Target}) EXCEPT ![Target] = FileOf(<<>>)]
    /\ rpc' = "copy"
    /\ UNCHANGED <<vars, turn, before>>

\* A file is truncated, anything else at its path ends the release.
CreateFile ==
    /\ InTurn("file") /\ ~Refused
    /\ MayMake(Ancestors(Target))
    /\ Target \in DOMAIN staging => staging[Target].type = "file"
    /\ staging' = [Making(Ancestors(Target) \cup {Target}) EXCEPT ![Target] = FileOf(<<>>)]
    /\ rpc' = "copy"
    /\ UNCHANGED <<vars, turn, before>>

\* Mutant: a block that cannot be read ends the copy and not the release.
CopyShort ==
    /\ rpc = "copy"
    /\ staging' = [staging EXCEPT ![Target] =
                     FileOf(SelectSeq(ReadBlocks(Entry), Readable))]
    /\ rpc' = "files" /\ turn' = turn + 1
    /\ UNCHANGED <<vars, before>>

Copy ==
    /\ rpc = "copy"
    /\ \A i \in DOMAIN ReadBlocks(Entry) : Readable(ReadBlocks(Entry)[i])
    /\ staging' = [staging EXCEPT ![Target] = FileOf(ReadBlocks(Entry))]
    /\ rpc' = "files" /\ turn' = turn + 1
    /\ UNCHANGED <<vars, before>>

\* A block cannot be read, or not be written: the file stays as far as it came.
CopyFails ==
    /\ rpc = "copy"
    /\ \E n \in 0 .. Len(ReadBlocks(Entry)) :
          /\ \A i \in 1 .. n : Readable(ReadBlocks(Entry)[i])
          /\ staging' = [staging EXCEPT ![Target] = FileOf(SubSeq(ReadBlocks(Entry), 1, n))]
    /\ rpc' = "failed"
    /\ UNCHANGED <<vars, turn, before>>

\* A directory or a file cannot be made: for what stands in its way, or for want of room.
MakingFails ==
    /\ \E kind \in {"file", "dir"} : InTurn(kind)
    /\ rpc' = "failed"
    /\ UNCHANGED <<vars, turn, before, staging>>

Report ==
    /\ rpc = "files" /\ turn > Len(found)
    /\ rpc' = "ok"
    /\ UNCHANGED <<vars, turn, before, staging>>

ReleaseNext ==
    \/ Prepare \/ Walk \/ CancelBrowsing \/ StartCopying
    \/ RefusePath \/ MakeDirectory \/ CreateFile \/ Copy \/ CopyFails \/ MakingFails \/ Report

ReleaseSpec == ReleaseInit /\ [][ReleaseNext]_allVars

\* The walk and the copying go on; nobody has to cancel anything.
FairReleaseSpec ==
    /\ ReleaseSpec
    /\ WF_allVars(Prepare \/ Walk \/ StartCopying \/ RefusePath \/ MakeDirectory
                   \/ CreateFile \/ Copy \/ CopyFails \/ MakingFails \/ Report)

-----------------------------------------------------------------------------
\* Type invariant: whatever is made keeps the staging directory a tree of clean names.
ReleaseTypeOK ==
    /\ TypeOK
    /\ rpc \in {"start", "browse", "walk", "files", "copy", "ok", "failed"}
    /\ turn \in 1 .. Len(found) + 1
    /\ IsTree(staging)

\* What the release reports as released is there, every file of it whole: where two
\* entries come to one path it is the later one.
OkIsComplete ==
    rpc = "ok" =>
        \A i \in DOMAIN found :
            LET path == CleanPath(found[i].path) IN
              /\ path \in DOMAIN staging
              /\ found[i].kind = "file" =>
                   \E j \in i .. Len(found) :
                      /\ found[j].kind = "file" /\ CleanPath(found[j].path) = path
                      /\ staging[path] = FileOf(ReadBlocks(found[j]))

\* The operator's files stay as they are unless a discovered file has their path, and
\* links and directories in any case, also when the release fails half-way.
StagedBeforeStays ==
    \A p \in DOMAIN before :
        /\ p \in DOMAIN staging
        /\ \/ staging[p] = before[p]
           \/ /\ before[p].type = "file"
              /\ \E i \in DOMAIN found : found[i].kind = "file" /\ CleanPath(found[i].path) = p

\* A release comes to its end on every medium, and so does the browser.
ReleaseEnds == <>(rpc \in {"ok", "failed"} \/ (rpc = "browse" /\ pc \in {"done", "cancelled"}))

\* The clusters of a file as its chain has them, NoCluster behind its end.
ChainOf(f) ==
    LET cluster[i \in 1 .. f.size] ==
          IF i = 1 THEN f.cluster
          ELSE IF cluster[i - 1] = NoCluster THEN NoCluster
          ELSE VolumesOf[medium][f.part].next[cluster[i - 1]]
    IN  [i \in 1 .. f.size |-> cluster[i]]

\* README.md:52, "verified files can be safely extracted": what a released file holds
\* is what its chain holds, if that is as long as the file.
ReleasedIsTheFile ==
    rpc = "ok" =>
        \A i \in DOMAIN found :
            /\ found[i].kind = "file" /\ found[i].cluster # NoCluster
            /\ \A n \in 1 .. found[i].size : ChainOf(found[i])[n] # NoCluster
            /\ staging[CleanPath(found[i].path)] = FileOf(ReadBlocks(found[i]))
            => \A n \in 1 .. found[i].size : ReadBlocks(found[i])[n][2] = ChainOf(found[i])[n]
=============================================================================
