------------------------------ MODULE DirWalk ------------------------------
(***************************************************************************)
(* extract_filesystem_files_with_cancel (src/fs/mod.rs): the walk over the *)
(* directories of every volume of a medium, with the cluster chains that   *)
(* hold them (src/fs/fat.rs, src/fs/exfat.rs).  The file scan, the policy  *)
(* stage, the manifest, the release and the browser all see the files that *)
(* this walk finds and no others.                                          *)
(*                                                                         *)
(* A volume is what its boot sector, its FAT and its clusters say, sound   *)
(* or not: chains may be cyclic, clusters shared, entries may lead         *)
(* anywhere.  Sizes are counted in clusters.                               *)
(***************************************************************************)
EXTENDS Naturals, Sequences

CONSTANTS
    Clusters,   \* the numbers of the data clusters, from 2
    Names,
    Media,      \* the media that may be looked at
    VolumesOf,  \* for each medium its volumes
    MaxChain,   \* clusters of a chain, 1024 in the code
    MaxData,    \* clusters of a directory that are read, 4 MiB in the code
    MaxDepth    \* 16 in the code

Kinds == {"fat32", "fat16", "exfat", "other"}
NoCluster == 0

Entries == [kind : {"file", "dir", "end", "skip"}, name : Names,
            cluster : Clusters \cup {NoCluster}, size : Nat]

Volumes == [kind    : Kinds,
            root    : Clusters \cup {NoCluster},
            fixed   : Seq(Entries),        \* the root directory of FAT12 and FAT16
            next    : [Clusters -> Clusters \cup {NoCluster}],
            data    : [Clusters -> Seq(Entries)],
            noFat   : SUBSET Clusters,     \* whose entry in the FAT cannot be read
            noData  : SUBSET Clusters]     \* that cannot be read

ASSUME ClustersAssumption == Clusters \subseteq Nat \ {0, 1}
ASSUME MediaAssumption == \A m \in Media : VolumesOf[m] \in Seq(Volumes)
ASSUME LimitsAssumption == MaxChain \in Nat \ {0} /\ MaxData \in Nat /\ MaxDepth \in Nat \ {0}

VARIABLES
    medium,     \* which of them is walked: chosen once
    pc,
    part,       \* the volume at hand, from 1
    queue,      \* dir_queue, a stack
    visited,    \* visited_clusters, those of earlier volumes included
    dir,        \* the directory at hand
    chain, taken, \* its clusters, and how many of them have been read
    data, at,   \* its entries, and the next one to look at
    found,      \* discovered
    walked,     \* history: the directories whose entries were looked at
    lost        \* history: those that were given up

vars == <<medium, pc, part, queue, visited, dir, chain, taken, data, at, found, walked, lost>>

Parts == Len(VolumesOf[medium])
Volume == VolumesOf[medium][part]
Root == [path |-> <<>>, cluster |-> Volume.root, depth |-> 0]
NoDir == [path |-> <<>>, cluster |-> NoCluster, depth |-> 0]

Init ==
    /\ medium \in Media
    /\ pc = "open" /\ part = 1
    /\ queue = <<>> /\ visited = {} /\ dir = NoDir
    /\ chain = <<>> /\ taken = 0 /\ data = <<>> /\ at = 1
    /\ found = <<>> /\ walked = {} /\ lost = {}

-----------------------------------------------------------------------------
NextVolume ==
    /\ pc = "open" /\ part <= Parts
    /\ \/ Volume.kind = "other"
       \/ Volume.kind # "fat16" /\ Volume.root = NoCluster
    /\ part' = part + 1
    /\ UNCHANGED <<medium, pc, queue, visited, dir, chain, taken, data, at, found, walked, lost>>

\* The root directory of FAT32 and exFAT is a chain. Only that of FAT32 is known
\* to the walk as visited.
OpenRoot ==
    /\ pc = "open" /\ part <= Parts
    /\ Volume.kind \in {"fat32", "exfat"} /\ Volume.root # NoCluster
    /\ pc' = "chain"
    /\ dir' = Root
    /\ chain' = <<Volume.root>> /\ taken' = 0 /\ data' = <<>> /\ at' = 1
    /\ visited' = IF Volume.kind = "fat32" THEN visited \cup {<<part, Volume.root>>} ELSE visited
    /\ UNCHANGED <<medium, part, queue, found, walked, lost>>

\* That of FAT12 and FAT16 has a place of its own.
OpenFixed ==
    /\ pc = "open" /\ part <= Parts
    /\ Volume.kind = "fat16"
    /\ pc' = "entries"
    /\ dir' = NoDir
    /\ data' = Volume.fixed /\ at' = 1
    /\ walked' = walked \cup
         {[part |-> part, cluster |-> NoCluster, path |-> <<>>, depth |-> 0, data |-> Volume.fixed]}
    /\ UNCHANGED <<medium, part, queue, visited, chain, taken, found, lost>>

Finish ==
    /\ pc = "open" /\ part > Parts
    /\ pc' = "done"
    /\ UNCHANGED <<medium, part, queue, visited, dir, chain, taken, data, at, found, walked, lost>>

\* read_cluster_chain looks up the next cluster, for the last one of the limit too.
EndOfChain == chain[Len(chain)]

Follow ==
    /\ pc = "chain" /\ EndOfChain \notin Volume.noFat
    /\ Volume.next[EndOfChain] # NoCluster
    /\ Len(chain) < MaxChain
    /\ \A i \in 1 .. Len(chain) : chain[i] # Volume.next[EndOfChain]
    /\ chain' = Append(chain, Volume.next[EndOfChain])
    /\ UNCHANGED <<medium, pc, part, queue, visited, dir, taken, data, at, found, walked, lost>>

ChainEnds ==
    /\ pc = "chain" /\ EndOfChain \notin Volume.noFat
    /\ \/ Volume.next[EndOfChain] = NoCluster
       \/ Len(chain) >= MaxChain
       \/ \E i \in 1 .. Len(chain) : chain[i] = Volume.next[EndOfChain]
    /\ pc' = "data"
    /\ UNCHANGED <<medium, part, queue, visited, dir, chain, taken, data, at, found, walked, lost>>

\* Mutant: the chain of a directory is tried again.
ChainFailsRetrying ==
    /\ pc = "chain" /\ EndOfChain \in Volume.noFat
    /\ Volume.kind = "exfat" => pc' = "data" /\ chain' = <<Volume.root>>
    /\ Volume.kind # "exfat" => UNCHANGED <<pc, chain>>
    /\ UNCHANGED <<medium, part, queue, visited, dir, taken, data, at, found, walked, lost>>

\* The FAT cannot be read: a directory of FAT is given up without a word, the root
\* of exFAT shrinks to its first cluster.
ChainFails ==
    /\ pc = "chain" /\ EndOfChain \in Volume.noFat
    /\ IF Volume.kind = "exfat"
         THEN /\ pc' = "data" /\ chain' = <<Volume.root>>
              /\ UNCHANGED lost
         ELSE /\ pc' = "pop" /\ lost' = lost \cup {<<part, dir.cluster>>}
              /\ UNCHANGED chain
    /\ UNCHANGED <<medium, part, queue, visited, dir, taken, data, at, found, walked>>

\* read_chain_data ends with the first cluster it cannot read, the loop of exFAT
\* leaves such a cluster out.
ReadCluster ==
    /\ pc = "data" /\ taken < Len(chain)
    /\ Volume.kind # "exfat" => taken < MaxData /\ chain[taken + 1] \notin Volume.noData
    /\ taken' = taken + 1
    /\ data' = IF chain[taken + 1] \in Volume.noData THEN data
                                                      ELSE data \o Volume.data[chain[taken + 1]]
    /\ UNCHANGED <<medium, pc, part, queue, visited, dir, chain, at, found, walked, lost>>

\* Mutant: the limit of the length is one lower.
DataReadShort ==
    /\ pc = "data"
    /\ \/ taken = Len(chain)
       \/ /\ taken < Len(chain) /\ Volume.kind # "exfat"
          /\ taken + 1 >= MaxData \/ chain[taken + 1] \in Volume.noData
    /\ pc' = "entries"
    /\ walked' = walked \cup
         {[part |-> part, cluster |-> dir.cluster, path |-> dir.path, depth |-> dir.depth, data |-> data]}
    /\ UNCHANGED <<medium, part, queue, visited, dir, chain, taken, data, at, found, lost>>

DataRead ==
    /\ pc = "data"
    /\ \/ taken = Len(chain)
       \/ /\ taken < Len(chain) /\ Volume.kind # "exfat"
          /\ taken >= MaxData \/ chain[taken + 1] \in Volume.noData
    /\ pc' = "entries"
    /\ walked' = walked \cup
         {[part |-> part, cluster |-> dir.cluster, path |-> dir.path, depth |-> dir.depth, data |-> data]}
    /\ UNCHANGED <<medium, part, queue, visited, dir, chain, taken, data, at, found, lost>>

\* What is discovered at an entry.
File(n, path, e) ==
    [part |-> n, path |-> Append(path, e.name), kind |-> e.kind, cluster |-> e.cluster, size |-> e.size]

\* An entry is discovered, and a directory of FAT is queued.
TakeEntry ==
    /\ pc = "entries" /\ at <= Len(data) /\ data[at].kind \in {"file", "dir"}
    /\ at' = at + 1
    /\ found' = Append(found, File(part, dir.path, data[at]))
    /\ queue' = IF /\ data[at].kind = "dir" /\ data[at].cluster # NoCluster
                   /\ Volume.kind # "exfat" /\ dir.depth < MaxDepth
                  THEN Append(queue, [path |-> Append(dir.path, data[at].name),
                                      cluster |-> data[at].cluster, depth |-> dir.depth + 1])
                  ELSE queue
    /\ UNCHANGED <<medium, pc, part, visited, dir, chain, taken, data, walked, lost>>

\* Deleted entries, labels, "." and ".." are passed over.
SkipEntry ==
    /\ pc = "entries" /\ at <= Len(data) /\ data[at].kind = "skip"
    /\ at' = at + 1
    /\ UNCHANGED <<medium, pc, part, queue, visited, dir, chain, taken, data, found, walked, lost>>

\* A zero byte ends a directory whatever comes after it.
EntriesEnd ==
    /\ pc = "entries"
    /\ at <= Len(data) => data[at].kind = "end"
    /\ pc' = "pop"
    /\ UNCHANGED <<medium, part, queue, visited, dir, chain, taken, data, at, found, walked, lost>>

Top == queue[Len(queue)]
Popped == SubSeq(queue, 1, Len(queue) - 1)

\* Mutant: a cluster seen before is walked again.
PopRevisiting ==
    /\ pc = "pop" /\ queue # <<>>
    /\ queue' = Popped
    /\ pc' = "chain" /\ dir' = Top
    /\ visited' = visited \cup {<<part, Top.cluster>>}
    /\ chain' = <<Top.cluster>> /\ taken' = 0 /\ data' = <<>> /\ at' = 1
    /\ UNCHANGED <<medium, part, found, walked, lost>>

\* The last directory queued comes first, unless its cluster was seen before.
Pop ==
    /\ pc = "pop" /\ queue # <<>>
    /\ queue' = Popped
    /\ IF Top.depth > MaxDepth \/ <<part, Top.cluster>> \in visited
         THEN UNCHANGED <<pc, dir, visited, chain, taken, data, at>>
         ELSE /\ pc' = "chain" /\ dir' = Top
              /\ visited' = visited \cup {<<part, Top.cluster>>}
              /\ chain' = <<Top.cluster>> /\ taken' = 0 /\ data' = <<>> /\ at' = 1
    /\ UNCHANGED <<medium, part, found, walked, lost>>

VolumeDone ==
    /\ pc = "pop" /\ queue = <<>>
    /\ pc' = "open" /\ part' = part + 1
    /\ UNCHANGED <<medium, queue, visited, dir, chain, taken, data, at, found, walked, lost>>

\* The browser's flag is looked at before each volume, directory and entry; what
\* was discovered is dropped.
Cancel ==
    /\ \/ pc = "open" /\ part <= Parts
       \/ pc = "entries" /\ at <= Len(data)
       \/ pc = "pop" /\ queue # <<>>
    /\ pc' = "cancelled"
    /\ found' = <<>>
    /\ UNCHANGED <<medium, part, queue, visited, dir, chain, taken, data, at, walked, lost>>

Advance ==
    \/ NextVolume \/ OpenRoot \/ OpenFixed \/ Finish
    \/ Follow \/ ChainEnds \/ ChainFails \/ ReadCluster \/ DataRead
    \/ TakeEntry \/ SkipEntry \/ EntriesEnd \/ Pop \/ VolumeDone

Next == Advance \/ Cancel

Spec == Init /\ [][Next]_vars

-----------------------------------------------------------------------------
Dirs == [path : Seq(Names), cluster : Clusters \cup {NoCluster}, depth : 0 .. MaxDepth]
Walks == [part : Nat \ {0}, cluster : Clusters \cup {NoCluster}, path : Seq(Names),
          depth : 0 .. MaxDepth, data : Seq(Entries)]
Founds == [part : Nat \ {0}, path : Seq(Names), kind : {"file", "dir"},
           cluster : Clusters \cup {NoCluster}, size : Nat]

\* Type invariant: depth and length of what is read stay within their limits.
TypeOK ==
    /\ medium \in Media
    /\ pc \in {"open", "chain", "data", "entries", "pop", "done", "cancelled"}
    /\ part \in 1 .. Parts + 1
    /\ pc \in {"chain", "data", "entries", "pop"} => part <= Parts
    /\ queue \in Seq(Dirs)
    /\ visited \subseteq (Nat \ {0}) \X Clusters
    /\ dir \in Dirs
    /\ chain \in Seq(Clusters) /\ Len(chain) <= MaxChain
    /\ taken \in 0 .. Len(chain)
    /\ data \in Seq(Entries) /\ at \in 1 .. Len(data) + 1
    /\ found \in Seq(Founds)
    /\ walked \subseteq Walks
    /\ lost \subseteq (Nat \ {0}) \X (Clusters \cup {NoCluster})

\* The entries of a directory that count: those in front of its end.
Visible(d) ==
    {i \in 1 .. Len(d) : d[i].kind \in {"file", "dir"} /\ \A j \in 1 .. i : d[j].kind # "end"}
InFront(d) == {d[i] : i \in Visible(d)}
Ends(d) == \E i \in 1 .. Len(d) : d[i].kind = "end"

\* The clusters of a directory of volume v that starts at c, as its links say, up to
\* the limit of a chain.
Links(v, c) ==
    LET link[n \in 1 .. MaxChain] ==
            IF n = 1 THEN c
            ELSE IF link[n - 1] = NoCluster THEN NoCluster ELSE v.next[link[n - 1]]
    IN  link

\* Link n is in front of the end of the chain, and of the first return to a cluster.
IsLinked(link, n) ==
    /\ \A i \in 1 .. n : link[i] # NoCluster
    /\ \A i, j \in 1 .. n : link[i] = link[j] => i = j

\* What of a chain is within reach.  A directory of FAT ends at the limit of its length
\* and at a cluster that cannot be read; the root of exFAT lacks such clusters,
\* and when its FAT cannot be read, all but the first.
IsReadable(v, link, n) ==
    /\ IsLinked(link, n)
    /\ link[n] \notin v.noData
    /\ IF v.kind = "exfat"
         THEN n = 1 \/ \A i \in 1 .. MaxChain : IsLinked(link, i) => link[i] \notin v.noFat
         ELSE n <= MaxData /\ \A i \in 1 .. n : link[i] \notin v.noData

\* What the directory of v at c lists on the medium within reach: whatever the walk did.
Listed(v, c) ==
    IF c = NoCluster THEN InFront(v.fixed)
    ELSE LET link == Links(v, c)
             Counts(n) == /\ IsReadable(v, link, n)
                          /\ \A i \in 1 .. n - 1 :
                                IsReadable(v, link, i) => ~Ends(v.data[link[i]])
         IN  UNION {InFront(v.data[link[n]]) : n \in {m \in 1 .. MaxChain : Counts(m)}}

ListedIn(w) == Listed(VolumesOf[medium][w.part], w.cluster)

IsFound(f) == \E k \in 1 .. Len(found) : found[k] = f

\* No directory is walked twice, however its cluster is reached.
EachDirectoryOnce ==
    \A v, w \in walked : v.part = w.part /\ v.cluster = w.cluster => v = w

\* No chain visits a cluster twice: what a directory lists is not listed again.
ChainsAreSimple ==
    \A i, j \in 1 .. Len(chain) : chain[i] = chain[j] => i = j

\* On a medium with cycles and shared clusters no directory is walked twice and no
\* cluster of one is listed twice.
NothingIsReadTwice == EachDirectoryOnce /\ ChainsAreSimple

\* The root directory of volume n; some volumes have none the walk knows.
RootOf(n) == IF VolumesOf[medium][n].kind = "fat16" THEN NoCluster ELSE VolumesOf[medium][n].root
HasRoot(n) ==
    \/ VolumesOf[medium][n].kind = "fat16"
    \/ VolumesOf[medium][n].kind \in {"fat32", "exfat"} /\ RootOf(n) # NoCluster

IsWalked(n, c) == \E w \in walked : w.part = n /\ w.cluster = c

\* When the walk is done the root of every volume has been walked, or its FAT cannot
\* be read.  Of each directory walked all that the medium lists for it within the
\* limits (MaxChain, MaxData, a cluster that cannot be read) has been discovered,
\* and every directory listed there that is not too deep (MaxDepth) has been
\* walked as well, under this path or another one, or given up because its chain
\* cannot be read. exFAT is the exception: only its root is walked.
NothingIsForgotten ==
    pc = "done" =>
        /\ \A n \in 1 .. Parts : HasRoot(n) => IsWalked(n, RootOf(n)) \/ <<n, RootOf(n)>> \in lost
        /\ \A w \in walked : \A e \in ListedIn(w) :
            /\ IsFound(File(w.part, w.path, e))
            /\ \/ e.kind = "file" \/ e.cluster = NoCluster
               \/ w.depth = MaxDepth \/ VolumesOf[medium][w.part].kind = "exfat"
               \/ IsWalked(w.part, e.cluster)
               \/ <<w.part, e.cluster>> \in lost

\* Nothing is discovered that the medium does not list for a directory walked.
NothingIsMadeUp ==
    LET listed == UNION {{File(w.part, w.path, e) : e \in ListedIn(w)} : w \in walked}
    IN  \A k \in 1 .. Len(found) : found[k] \in listed

\* What is discovered is what the directories within reach hold on the medium, no more
\* and no less.
FoundIsExact == NothingIsForgotten /\ NothingIsMadeUp
=============================================================================
