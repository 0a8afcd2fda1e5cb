--------------------------- MODULE ReleaseProofs ---------------------------
(***************************************************************************)
(* Proofs about the directory walk and the release, for every set of       *)
(* media, sound or broken, every staging directory and every value of the  *)
(* limits.  The walk stays within the limits, reads no directory twice,    *)
(* discovers all that the medium lists within them and nothing else; the   *)
(* release overwrites nothing of the operator's but the files that were    *)
(* discovered under the same path, and reports success only when all of    *)
(* them are there.                                                         *)
(***************************************************************************)
EXTENDS Release, SequenceTheorems, FiniteSetTheorems, TLAPS

Reading == pc \in {"chain", "data"}
InVolume == pc \in {"chain", "data", "entries", "pop"}

-----------------------------------------------------------------------------
(***************************************************************************)
(* Type correctness.                                                       *)
(***************************************************************************)

\* What is queued are clusters; a chain that is read starts with one.
Queued == [path : Seq(Names), cluster : Clusters, depth : 0 .. MaxDepth]

Shape ==
    /\ queue \in Seq(Queued)
    /\ Reading => chain # <<>> /\ dir.cluster \in Clusters
    /\ Reading => at = 1
    /\ pc = "chain" => taken = 0

\* Of exFAT only the root is read, and nothing is queued.
RootOnly ==
    /\ pc \in {"open", "done"} => queue = <<>>
    /\ InVolume /\ queue # <<>> => Volume.kind # "exfat"
    /\ Reading /\ Volume.kind = "exfat" => dir.cluster = Volume.root

\* The volume at hand is one of the medium.
LEMMA VolumeIs ==
    ASSUME TypeOK, part <= Parts
    PROVE  /\ Volume \in Volumes
           /\ Volume.root \in Clusters \cup {NoCluster}
           /\ Volume.fixed \in Seq(Entries)
           /\ \A c \in Clusters : /\ Volume.next[c] \in Clusters \cup {NoCluster}
                                  /\ Volume.data[c] \in Seq(Entries)
<1>1. VolumesOf[medium] \in Seq(Volumes) /\ part \in 1 .. Len(VolumesOf[medium])
  BY MediaAssumption DEF TypeOK, Parts
<1>2. VolumesOf[medium][part] \in Volumes
  BY <1>1
<1>3. Volume \in Volumes
  BY <1>2 DEF Volume
<1>. QED BY <1>3 DEF Volumes

\* The number of volumes is a number.
LEMMA PartsIs == ASSUME medium \in Media PROVE Parts \in Nat
BY MediaAssumption DEF Parts

\* No cluster has the number of the empty place.
LEMMA NoClusterIsNone == NoCluster \notin Clusters
BY ClustersAssumption DEF NoCluster

\* One cluster is a chain within the limit.
LEMMA ShortChain ==
    ASSUME NEW c \in Clusters
    PROVE  <<c>> \in Seq(Clusters) /\ Len(<<c>>) = 1 /\ Len(<<c>>) <= MaxChain /\ <<c>> # <<>>
BY LimitsAssumption

\* The empty sequence is one of directories, entries and files.
LEMMA EmptyIs ==
    /\ <<>> \in Seq(Queued) /\ <<>> \in Seq(Entries) /\ <<>> \in Seq(Founds)
    /\ <<>> \in Seq(Names) /\ <<>> \in Seq(Clusters)
OBVIOUS

\* What is queued is a directory.
LEMMA QueuedIsDirs == ASSUME queue \in Seq(Queued) PROVE queue \in Seq(Dirs)
<1>1. Queued \subseteq Dirs
  BY DEF Queued, Dirs
<1>. QED BY <1>1

\* An entry of a directory.
LEMMA EntryIs ==
    ASSUME TypeOK, at <= Len(data)
    PROVE  /\ data[at] \in Entries
           /\ data[at].name \in Names /\ data[at].cluster \in Clusters \cup {NoCluster}
           /\ data[at].size \in Nat
<1>1. data[at] \in Entries
  BY DEF TypeOK
<1>. QED BY <1>1 DEF Entries

\* The types hold at the start.
LEMMA TypeInit == Init => TypeOK /\ Shape
<1>. SUFFICES ASSUME Init PROVE TypeOK /\ Shape
  OBVIOUS
<1>1. NoDir \in Dirs
  BY LimitsAssumption, EmptyIs DEF NoDir, Dirs
<1>2. queue \in Seq(Queued) /\ queue \in Seq(Dirs)
  BY EmptyIs, QueuedIsDirs DEF Init
<1>3. Parts \in Nat /\ part \in 1 .. Parts + 1
  BY PartsIs DEF Init
<1>. QED BY <1>1, <1>2, <1>3, EmptyIs, LimitsAssumption DEF Init, TypeOK, Shape, Reading

\* Every step keeps the types.
LEMMA TypeStep == TypeOK /\ Shape /\ RootOnly /\ [Next]_vars => TypeOK' /\ Shape'
<1>. SUFFICES ASSUME TypeOK, Shape, RootOnly, [Next]_vars PROVE TypeOK' /\ Shape'
  OBVIOUS
<1>. USE DEF Reading
<1>0. Parts \in Nat /\ part \in Nat \ {0} /\ (UNCHANGED medium => Parts' = Parts)
  BY PartsIs DEF TypeOK, Parts
<1>1. CASE NextVolume
  BY <1>0, <1>1 DEF NextVolume, TypeOK, Shape
<1>2. CASE OpenRoot
  <2>1. Volume.root \in Clusters
    BY <1>2, VolumeIs DEF OpenRoot
  <2>2. Root \in Dirs /\ Root.cluster \in Clusters
    BY <2>1, LimitsAssumption, EmptyIs DEF Root, Dirs
  <2>3. chain' \in Seq(Clusters) /\ Len(chain') <= MaxChain /\ Len(chain') = 1 /\ chain' # <<>>
    BY <1>2, <2>1, ShortChain DEF OpenRoot
  <2>4. visited' \subseteq (Nat \ {0}) \X Clusters
    BY <1>0, <1>2, <2>1 DEF OpenRoot, TypeOK
  <2>. QED BY <1>0, <1>2, <2>2, <2>3, <2>4, EmptyIs DEF OpenRoot, TypeOK, Shape
<1>3. CASE OpenFixed
  <2>1. NoDir \in Dirs
    BY LimitsAssumption, EmptyIs DEF NoDir, Dirs
  <2>2. data' \in Seq(Entries) /\ Len(data') \in Nat
    BY <1>3, VolumeIs DEF OpenFixed
  <2>3. walked' \subseteq Walks
    <3>1. [part |-> part, cluster |-> NoCluster, path |-> <<>>, depth |-> 0,
           data |-> Volume.fixed] \in Walks
      BY <1>0, <1>3, VolumeIs, LimitsAssumption, EmptyIs DEF OpenFixed, Walks
    <3>. QED BY <1>3, <3>1 DEF OpenFixed, TypeOK
  <2>. QED BY <1>0, <1>3, <2>1, <2>2, <2>3 DEF OpenFixed, TypeOK, Shape
<1>4. CASE Finish
  BY <1>0, <1>4 DEF Finish, TypeOK, Shape
<1>5. CASE Follow
  <2>0. pc = "chain" /\ part <= Parts /\ chain \in Seq(Clusters) /\ chain # <<>>
    BY <1>5 DEF Follow, TypeOK, Shape
  <2>1. EndOfChain \in Clusters
    BY <2>0 DEF EndOfChain
  <2>2. Volume.next[EndOfChain] \in Clusters
    BY <1>5, <2>0, <2>1, VolumeIs DEF Follow
  <2>3. /\ chain' \in Seq(Clusters) /\ Len(chain') = Len(chain) + 1 /\ chain' # <<>>
        /\ Len(chain) \in Nat /\ Len(chain') <= MaxChain
    BY <1>5, <2>0, <2>2, LimitsAssumption DEF Follow
  <2>4. taken' \in 0 .. Len(chain')
    BY <1>5, <2>3 DEF Follow, TypeOK
  <2>. QED BY <1>0, <1>5, <2>3, <2>4 DEF Follow, TypeOK, Shape
<1>6. CASE ChainEnds
  BY <1>0, <1>6 DEF ChainEnds, TypeOK, Shape
<1>7. CASE ChainFails
  <2>1. CASE Volume.kind = "exfat" /\ pc' = "data" /\ chain' = <<Volume.root>> /\ UNCHANGED lost
    <3>1. chain' \in Seq(Clusters) /\ Len(chain') <= MaxChain /\ Len(chain') = 1 /\ chain' # <<>>
      BY <1>7, <2>1, ShortChain DEF ChainFails, Shape, RootOnly
    <3>. QED BY <1>0, <1>7, <2>1, <3>1 DEF ChainFails, TypeOK, Shape
  <2>2. CASE pc' = "pop" /\ lost' = lost \cup {<<part, dir.cluster>>} /\ UNCHANGED chain
    <3>1. dir.cluster \in Clusters
      BY <1>7 DEF ChainFails, Shape
    <3>. QED BY <1>0, <1>7, <2>2, <3>1 DEF ChainFails, TypeOK, Shape
  <2>. QED BY <1>7, <2>1, <2>2 DEF ChainFails
<1>8. CASE ReadCluster
  <2>0. pc = "data" /\ part <= Parts /\ taken + 1 \in 1 .. Len(chain) /\ chain \in Seq(Clusters)
    BY <1>8 DEF ReadCluster, TypeOK
  <2>1. Volume.data[chain[taken + 1]] \in Seq(Entries)
    BY <2>0, VolumeIs
  <2>2. data' \in Seq(Entries) /\ Len(data') \in Nat /\ Len(data') >= Len(data) /\ Len(data) \in Nat
    BY <1>8, <2>1, ConcatProperties DEF ReadCluster, TypeOK
  <2>3. at' \in 1 .. Len(data') + 1
    BY <1>8, <2>2 DEF ReadCluster, TypeOK
  <2>. QED BY <1>0, <1>8, <2>0, <2>2, <2>3 DEF ReadCluster, TypeOK, Shape
<1>9. CASE DataRead
  <2>1. dir \in Dirs /\ dir.cluster \in Clusters /\ dir.path \in Seq(Names)
        /\ dir.depth \in 0 .. MaxDepth
    BY <1>9 DEF DataRead, TypeOK, Shape, Dirs
  <2>2. [part |-> part, cluster |-> dir.cluster, path |-> dir.path, depth |-> dir.depth,
         data |-> data] \in Walks
    BY <1>0, <2>1 DEF Walks, TypeOK
  <2>3. walked' \subseteq Walks
    BY <1>9, <2>2 DEF DataRead, TypeOK
  <2>. QED BY <1>0, <1>9, <2>3 DEF DataRead, TypeOK, Shape
<1>10. CASE TakeEntry
  <2>1. /\ data[at].name \in Names /\ data[at].cluster \in Clusters \cup {NoCluster}
        /\ data[at].size \in Nat /\ data[at].kind \in {"file", "dir"}
        /\ dir.path \in Seq(Names) /\ dir.depth \in 0 .. MaxDepth
        /\ Append(dir.path, data[at].name) \in Seq(Names)
    BY <1>10, EntryIs DEF TakeEntry, TypeOK, Dirs
  <2>2. found' \in Seq(Founds)
    <3>1. File(part, dir.path, data[at]) \in Founds
      BY <1>0, <2>1 DEF File, Founds
    <3>. QED BY <1>10, <3>1 DEF TakeEntry, TypeOK
  <2>3. queue' \in Seq(Queued) /\ queue' \in Seq(Dirs)
    <3>1. ASSUME data[at].cluster # NoCluster, dir.depth < MaxDepth
          PROVE  [path |-> Append(dir.path, data[at].name), cluster |-> data[at].cluster,
                  depth |-> dir.depth + 1] \in Queued
      BY <2>1, <3>1, LimitsAssumption DEF Queued
    <3>2. queue' \in Seq(Queued)
      BY <1>10, <3>1 DEF TakeEntry, Shape
    <3>3. Queued \subseteq Dirs
      BY DEF Queued, Dirs
    <3>. QED BY <3>2, <3>3
  <2>4. at' \in 1 .. Len(data') + 1
    BY <1>10 DEF TakeEntry, TypeOK
  <2>. QED BY <1>0, <1>10, <2>2, <2>3, <2>4 DEF TakeEntry, TypeOK, Shape
<1>11. CASE SkipEntry
  <2>1. at' \in 1 .. Len(data') + 1
    BY <1>11 DEF SkipEntry, TypeOK
  <2>. QED BY <1>0, <1>11, <2>1 DEF SkipEntry, TypeOK, Shape
<1>12. CASE EntriesEnd
  BY <1>0, <1>12 DEF EntriesEnd, TypeOK, Shape
<1>13. CASE Pop
  <2>1. Top \in Queued /\ Popped \in Seq(Queued)
    BY <1>13 DEF Pop, Shape, Top, Popped
  <2>2. Top.cluster \in Clusters /\ Top \in Dirs
    BY <2>1 DEF Queued, Dirs
  <2>3. queue' \in Seq(Queued) /\ queue' \in Seq(Dirs)
    <3>1. Queued \subseteq Dirs
      BY DEF Queued, Dirs
    <3>. QED BY <1>13, <2>1, <3>1 DEF Pop
  <2>4. CASE UNCHANGED <<pc, dir, visited, chain, taken, data, at>>
    BY <1>0, <1>13, <2>3, <2>4 DEF Pop, TypeOK, Shape
  <2>5. CASE /\ pc' = "chain" /\ dir' = Top
             /\ visited' = visited \cup {<<part, Top.cluster>>}
             /\ chain' = <<Top.cluster>> /\ taken' = 0 /\ data' = <<>> /\ at' = 1
    <3>1. chain' \in Seq(Clusters) /\ Len(chain') <= MaxChain /\ Len(chain') = 1 /\ chain' # <<>>
      BY <2>2, <2>5, ShortChain
    <3>2. visited' \subseteq (Nat \ {0}) \X Clusters
      BY <1>0, <2>2, <2>5 DEF TypeOK
    <3>. QED BY <1>0, <1>13, <2>2, <2>3, <2>5, <3>1, <3>2, EmptyIs DEF Pop, TypeOK, Shape
  <2>. QED BY <1>13, <2>4, <2>5 DEF Pop
<1>14. CASE VolumeDone
  BY <1>0, <1>14 DEF VolumeDone, TypeOK, Shape
<1>15. CASE Cancel
  BY <1>0, <1>15, EmptyIs DEF Cancel, TypeOK, Shape
<1>16. CASE UNCHANGED vars
  BY <1>0, <1>16 DEF vars, TypeOK, Shape, Volume, Parts
<1>. QED BY <1>1, <1>2, <1>3, <1>4, <1>5, <1>6, <1>7, <1>8, <1>9, <1>10, <1>11, <1>12, <1>13,
            <1>14, <1>15, <1>16 DEF Next, Advance

\* Every step leaves exFAT with its root.
LEMMA RootOnlyStep == TypeOK /\ RootOnly /\ [Next]_vars => RootOnly'
<1>. SUFFICES ASSUME TypeOK, RootOnly, [Next]_vars PROVE RootOnly'
  OBVIOUS
<1>. USE DEF RootOnly, Reading, InVolume
<1>1. CASE NextVolume \/ Finish \/ VolumeDone \/ Cancel
  BY <1>1 DEF NextVolume, Finish, VolumeDone, Cancel
<1>2. CASE OpenRoot
  BY <1>2 DEF OpenRoot, Volume, Root
<1>3. CASE OpenFixed
  BY <1>3 DEF OpenFixed, Volume
<1>4. CASE Follow \/ ChainEnds \/ ChainFails
  BY <1>4 DEF Follow, ChainEnds, ChainFails, Volume
<1>5. CASE ReadCluster \/ DataRead
  BY <1>5 DEF ReadCluster, DataRead, Volume
<1>6. CASE TakeEntry
  BY <1>6 DEF TakeEntry, Volume
<1>7. CASE SkipEntry \/ EntriesEnd
  BY <1>7 DEF SkipEntry, EntriesEnd, Volume
<1>8. CASE Pop
  BY <1>8 DEF Pop, Volume
<1>9. CASE UNCHANGED vars
  BY <1>9 DEF vars, Volume
<1>. QED BY <1>1, <1>2, <1>3, <1>4, <1>5, <1>6, <1>7, <1>8, <1>9 DEF Next, Advance

\* The walk stays well typed and within its limits.
TypeInv == TypeOK /\ Shape /\ RootOnly

\* The invariant the other proofs start from.
LEMMA TypeInvariant == Spec => []TypeInv
<1>1. Init => TypeInv
  BY TypeInit DEF Init, TypeInv, RootOnly, Reading, InVolume
<1>2. TypeInv /\ [Next]_vars => TypeInv'
  BY TypeStep, RootOnlyStep DEF TypeInv
<1>. QED BY <1>1, <1>2, PTL DEF Spec

\* Depth, length and place of what is read stay within their limits, whatever the
\* directories and the FAT say.
THEOREM TypeCorrect == Spec => []TypeOK
<1>1. TypeInv => TypeOK
  BY DEF TypeInv
<1>. QED BY <1>1, TypeInvariant, PTL

-----------------------------------------------------------------------------
(***************************************************************************)
(* The cluster chains.                                                     *)
(***************************************************************************)

\* No chain visits a cluster twice, whatever the FAT says: a directory is read from
\* each of its clusters once.
THEOREM ChainsAreAlwaysSimple == Spec => []ChainsAreSimple
<1>1. Init => ChainsAreSimple
  BY DEF Init, ChainsAreSimple
<1>2. TypeInv /\ ChainsAreSimple /\ [Next]_vars => ChainsAreSimple'
  <2>. SUFFICES ASSUME TypeInv, ChainsAreSimple, [Next]_vars PROVE ChainsAreSimple'
    OBVIOUS
  <2>1. CASE Follow
    <3>1. /\ chain \in Seq(Clusters) /\ Len(chain) \in Nat
          /\ chain' = Append(chain, Volume.next[EndOfChain])
          /\ \A i \in 1 .. Len(chain) : chain[i] # Volume.next[EndOfChain]
      BY <2>1 DEF TypeInv, TypeOK, Follow
    <3>2. /\ Len(chain') = Len(chain) + 1
          /\ \A i \in 1 .. Len(chain) : chain'[i] = chain[i]
          /\ chain'[Len(chain) + 1] = Volume.next[EndOfChain]
      BY <3>1
    <3>. QED BY <3>1, <3>2 DEF ChainsAreSimple
  <2>2. CASE OpenRoot \/ ChainFails \/ Pop
    <3>1. chain' = chain \/ \E c : chain' = <<c>>
      BY <2>2 DEF OpenRoot, ChainFails, Pop
    <3>. QED BY <3>1 DEF ChainsAreSimple
  <2>3. CASE UNCHANGED chain
    BY <2>3 DEF ChainsAreSimple
  <2>. QED BY <2>1, <2>2, <2>3 DEF Next, Advance, vars, NextVolume, OpenFixed, Finish, ChainEnds,
              ReadCluster, DataRead, TakeEntry, SkipEntry, EntriesEnd, VolumeDone, Cancel
<1>. QED BY <1>1, <1>2, TypeInvariant, PTL DEF Spec

-----------------------------------------------------------------------------
(***************************************************************************)
(* No directory twice.                                                     *)
(***************************************************************************)

\* The directory whose entries are looked at.
Current == [part |-> part, cluster |-> dir.cluster, path |-> dir.path, depth |-> dir.depth,
            data |-> data]

\* What was walked in the volume at hand is known to be visited; what is being read
\* was not walked.
WalkedOnce ==
    /\ EachDirectoryOnce
    /\ Reading /\ Volume.kind # "exfat" => <<part, dir.cluster>> \in visited
    /\ pc # "cancelled" =>
         \A w \in walked :
            /\ w.part <= part
            /\ w.part = part =>
                 /\ InVolume
                 /\ Reading => w.cluster # dir.cluster
                 /\ Volume.kind # "exfat" /\ w.cluster # NoCluster
                      => <<part, w.cluster>> \in visited

\* A walk of a directory that was not walked before is the only one of it.
LEMMA NewWalk ==
    ASSUME EachDirectoryOnce, NEW w,
           \A v \in walked : ~(v.part = w.part /\ v.cluster = w.cluster),
           walked' = walked \cup {w}
    PROVE  EachDirectoryOnce'
BY DEF EachDirectoryOnce

\* Every step walks a directory only if it has not been walked.
LEMMA WalkedOnceStep == TypeInv /\ WalkedOnce /\ [Next]_vars => WalkedOnce'
<1>. SUFFICES ASSUME TypeInv, WalkedOnce, [Next]_vars PROVE WalkedOnce'
  OBVIOUS
<1>. USE DEF Reading, InVolume
<1>0. /\ part \in Nat \ {0}
      /\ \A w \in walked : w.part \in Nat \ {0}
      /\ UNCHANGED <<medium, part>> => Volume' = Volume
  BY DEF TypeInv, TypeOK, Walks, Volume
<1>1. CASE NextVolume
  <2>1. \A w \in walked : w.part <= part /\ w.part # part
    BY <1>1 DEF NextVolume, WalkedOnce
  <2>. QED BY <1>0, <1>1, <2>1 DEF NextVolume, WalkedOnce, EachDirectoryOnce
<1>2. CASE OpenRoot
  <2>1. \A w \in walked : w.part <= part /\ w.part # part
    BY <1>2 DEF OpenRoot, WalkedOnce
  <2>2. Volume.kind # "exfat" => <<part, dir'.cluster>> \in visited'
    BY <1>2 DEF OpenRoot, Root
  <2>. QED BY <1>0, <1>2, <2>1, <2>2 DEF OpenRoot, WalkedOnce, EachDirectoryOnce
<1>3. CASE OpenFixed
  <2>. DEFINE w == [part |-> part, cluster |-> NoCluster, path |-> <<>>, depth |-> 0,
                    data |-> Volume.fixed]
  <2>1. \A v \in walked : v.part <= part /\ v.part # part
    BY <1>3 DEF OpenFixed, WalkedOnce
  <2>2. walked' = walked \cup {w} /\ w.part = part /\ w.cluster = NoCluster
    BY <1>3 DEF OpenFixed
  <2>. HIDE DEF w
  <2>3. EachDirectoryOnce'
    BY <2>1, <2>2, NewWalk DEF WalkedOnce
  <2>. QED BY <1>0, <1>3, <2>1, <2>2, <2>3 DEF OpenFixed, WalkedOnce
<1>4. CASE Finish
  BY <1>0, <1>4 DEF Finish, WalkedOnce, EachDirectoryOnce
<1>5. CASE Follow \/ ChainEnds \/ ChainFails \/ ReadCluster
  <2>1. /\ UNCHANGED <<medium, part, walked, visited, dir>> /\ pc \in {"chain", "data"}
        /\ pc' \in {"chain", "data", "pop"}
    BY <1>5 DEF Follow, ChainEnds, ChainFails, ReadCluster
  <2>. QED BY <1>0, <2>1 DEF WalkedOnce, EachDirectoryOnce
<1>6. CASE DataRead
  <2>1. walked' = walked \cup {Current} /\ pc = "data" /\ pc' = "entries"
    BY <1>6 DEF DataRead, Current
  <2>2. Current.part = part /\ Current.cluster = dir.cluster
    BY DEF Current
  <2>3. EachDirectoryOnce'
    BY <2>1, <2>2, NewWalk DEF WalkedOnce
  <2>. QED BY <1>0, <1>6, <2>1, <2>2, <2>3 DEF DataRead, WalkedOnce
<1>7. CASE TakeEntry \/ SkipEntry \/ EntriesEnd
  <2>1. /\ UNCHANGED <<medium, part, walked, visited, dir>> /\ pc = "entries"
        /\ pc' \in {"entries", "pop"}
    BY <1>7 DEF TakeEntry, SkipEntry, EntriesEnd
  <2>. QED BY <1>0, <2>1 DEF WalkedOnce, EachDirectoryOnce
<1>8. CASE Pop
  <2>1. UNCHANGED <<medium, part, walked>> /\ pc = "pop" /\ Volume.kind # "exfat"
    BY <1>8 DEF Pop, TypeInv, RootOnly
  <2>2. CASE UNCHANGED <<pc, dir, visited>>
    BY <1>0, <2>1, <2>2 DEF WalkedOnce, EachDirectoryOnce
  <2>3. CASE /\ ~(<<part, Top.cluster>> \in visited)
             /\ pc' = "chain" /\ dir' = Top
             /\ visited' = visited \cup {<<part, Top.cluster>>}
    <3>1. Top.cluster # NoCluster
      <4>1. Top \in Queued
        BY <1>8 DEF Pop, TypeInv, Shape, Top
      <4>. QED BY <4>1, NoClusterIsNone DEF Queued
    <3>2. \A w \in walked : w.part = part => w.cluster # Top.cluster
      BY <2>1, <2>3, <3>1 DEF WalkedOnce
    <3>. QED BY <1>0, <2>1, <2>3, <3>2 DEF WalkedOnce, EachDirectoryOnce
  <2>. QED BY <1>8, <2>2, <2>3 DEF Pop
<1>9. CASE VolumeDone
  <2>1. ASSUME NEW w \in walked PROVE w.part <= part + 1 /\ w.part # part + 1
    <3>1. w.part <= part /\ w.part \in Nat
      BY <1>0, <1>9 DEF VolumeDone, WalkedOnce
    <3>. QED BY <1>0, <3>1
  <2>. QED BY <1>0, <1>9, <2>1 DEF VolumeDone, WalkedOnce, EachDirectoryOnce
<1>10. CASE Cancel
  BY <1>10 DEF Cancel, WalkedOnce, EachDirectoryOnce
<1>11. CASE UNCHANGED vars
  BY <1>0, <1>11 DEF vars, WalkedOnce, EachDirectoryOnce
<1>. QED BY <1>1, <1>2, <1>3, <1>4, <1>5, <1>6, <1>7, <1>8, <1>9, <1>10, <1>11 DEF Next, Advance

\* No directory is walked twice, however often and under whatever names it is
\* entered: a directory that contains itself ends the walk no later.
THEOREM DirectoriesOnce == Spec => []EachDirectoryOnce
<1>1. Init => WalkedOnce
  BY DEF Init, WalkedOnce, EachDirectoryOnce, Reading
<1>2. TypeInv /\ WalkedOnce /\ [Next]_vars => WalkedOnce'
  BY WalkedOnceStep
<1>3. WalkedOnce => EachDirectoryOnce
  BY DEF WalkedOnce
<1>. QED BY <1>1, <1>2, <1>3, TypeInvariant, PTL DEF Spec

-----------------------------------------------------------------------------
(***************************************************************************)
(* What is discovered is what there is.                                    *)
(***************************************************************************)

\* The directory at hand is among those walked, and its end has not been passed.
AtEntries ==
    pc = "entries" => /\ Current \in walked
                      /\ \A j \in 1 .. at - 1 : data[j].kind # "end"

\* An entry that is taken is in front of the end of its directory.
LEMMA TakenIsVisible ==
    ASSUME TypeOK, AtEntries, pc = "entries", at <= Len(data), data[at].kind \in {"file", "dir"}
    PROVE  at \in Visible(data)
<1>1. at \in 1 .. Len(data) /\ \A j \in 1 .. at : j = at \/ j \in 1 .. at - 1
  BY DEF TypeOK
<1>. QED BY <1>1 DEF AtEntries, Visible

\* Every step keeps the directory at hand.
LEMMA AtEntriesStep == TypeInv /\ AtEntries /\ [Next]_vars => AtEntries'
<1>. SUFFICES ASSUME TypeInv, AtEntries, Next, pc' = "entries" PROVE AtEntries'
  BY DEF AtEntries, Current, vars
<1>1. CASE OpenFixed
  <2>1. Current' = [part |-> part, cluster |-> NoCluster, path |-> <<>>, depth |-> 0,
                    data |-> Volume.fixed]
    BY <1>1 DEF OpenFixed, Current, NoDir
  <2>. QED BY <1>1, <2>1 DEF OpenFixed, AtEntries
<1>2. CASE DataRead
  <2>1. Current' = Current /\ Current \in walked' /\ data' = data /\ at' = at
    BY <1>2 DEF DataRead, Current
  <2>2. at = 1
    BY <1>2 DEF DataRead, TypeInv, Shape, Reading
  <2>. QED BY <2>1, <2>2 DEF AtEntries
<1>3. CASE TakeEntry \/ SkipEntry
  <2>1. /\ pc = "entries" /\ at \in Nat /\ at' = at + 1
        /\ data[at].kind \in {"file", "dir", "skip"}
        /\ UNCHANGED <<part, dir, data, walked>>
    BY <1>3 DEF TakeEntry, SkipEntry, TypeInv, TypeOK
  <2>2. Current' = Current
    BY <2>1 DEF Current
  <2>3. \A j \in 1 .. at' - 1 : j = at \/ j \in 1 .. at - 1
    BY <2>1
  <2>. QED BY <2>1, <2>2, <2>3 DEF AtEntries
<1>. QED BY <1>1, <1>2, <1>3 DEF Next, Advance, NextVolume, OpenRoot, Finish, Follow, ChainEnds,
            ChainFails, ReadCluster, EntriesEnd, Pop, VolumeDone, Cancel

\* Nothing is discovered but an entry, in front of the end, of what the walk read.
FoundWasRead ==
    \A k \in 1 .. Len(found) :
        \E w \in walked : \E i \in Visible(w.data) :
            found[k] = File(w.part, w.path, w.data[i])

\* What is discovered stays discovered, and is of what is walked.
LEMMA FoundWasReadStep ==
    TypeInv /\ AtEntries /\ FoundWasRead /\ [Next]_vars => FoundWasRead'
<1>. SUFFICES ASSUME TypeInv, AtEntries, FoundWasRead, [Next]_vars PROVE FoundWasRead'
  OBVIOUS
<1>1. CASE TakeEntry
  <2>1. /\ pc = "entries" /\ at <= Len(data) /\ data[at].kind \in {"file", "dir"}
        /\ found' = Append(found, File(part, dir.path, data[at])) /\ walked' = walked
    BY <1>1 DEF TakeEntry
  <2>2. Current \in walked /\ at \in Visible(Current.data)
        /\ File(part, dir.path, data[at]) = File(Current.part, Current.path, Current.data[at])
    BY <2>1, TakenIsVisible DEF TypeInv, AtEntries, Current
  <2>3. found \in Seq(Founds) /\ Len(found) \in Nat
    BY DEF TypeInv, TypeOK
  <2>4. ASSUME NEW k \in 1 .. Len(found')
        PROVE  \E w \in walked : \E i \in Visible(w.data) :
                   found'[k] = File(w.part, w.path, w.data[i])
    <3>1. CASE k = Len(found) + 1
      <4>1. found'[k] = File(part, dir.path, data[at])
        BY <2>1, <2>3, <3>1
      <4>. QED BY <2>2, <4>1
    <3>2. CASE k \in 1 .. Len(found)
      <4>1. found'[k] = found[k]
        BY <2>1, <2>3, <3>2
      <4>. QED BY <3>2, <4>1 DEF FoundWasRead
    <3>3. Len(found') = Len(found) + 1
      BY <2>1, <2>3
    <3>. QED BY <2>3, <3>1, <3>2, <3>3
  <2>. QED BY <2>1, <2>4 DEF FoundWasRead, File, Visible
<1>2. CASE Cancel
  BY <1>2 DEF Cancel, FoundWasRead
<1>3. CASE UNCHANGED found /\ walked \subseteq walked'
  BY <1>3 DEF FoundWasRead, File, Visible
<1>4. walked \subseteq walked' /\ (UNCHANGED found \/ TakeEntry \/ Cancel)
  BY DEF Next, Advance, vars, NextVolume, OpenRoot, OpenFixed, Finish, Follow, ChainEnds, ChainFails,
         ReadCluster, DataRead, TakeEntry, SkipEntry, EntriesEnd, Pop, VolumeDone, Cancel
<1>. QED BY <1>1, <1>2, <1>3, <1>4

\* Where in a directory the walk is.
LEMMA AtEntriesAlways == Spec => []AtEntries
<1>1. Init => AtEntries
  BY DEF Init, AtEntries
<1>. QED BY <1>1, AtEntriesStep, TypeInvariant, PTL DEF Spec

\* What is discovered was read, throughout.
LEMMA FoundWasAlwaysRead == Spec => []FoundWasRead
<1>1. Init => FoundWasRead
  BY DEF Init, FoundWasRead
<1>. QED BY <1>1, FoundWasReadStep, AtEntriesAlways, TypeInvariant, PTL DEF Spec

-----------------------------------------------------------------------------
(***************************************************************************)
(* Nothing is forgotten.                                                   *)
(***************************************************************************)

\* The directory at c of volume n was walked, was given up or is being read.
Known(n, c) ==
    \/ \E v \in walked : v.part = n /\ v.cluster = c
    \/ <<n, c>> \in lost
    \/ n = part /\ Reading /\ dir.cluster = c

\* Or it is in the queue.
Awaited(n, c) ==
    \/ Known(n, c)
    \/ n = part /\ \E k \in 1 .. Len(queue) : queue[k].cluster = c

\* Entry e of the walked directory w was discovered, and is looked into if it should be.
Settled(w, e) ==
    /\ IsFound(File(w.part, w.path, e))
    /\ \/ e.kind = "file" \/ e.cluster = NoCluster
       \/ w.depth = MaxDepth \/ VolumesOf[medium][w.part].kind = "exfat"
       \/ Awaited(w.part, e.cluster)

\* What is marked as visited is known; of each walked directory all entries are
\* settled, of the one at hand those before the place the walk has reached.
Remembered ==
    pc # "cancelled" =>
      /\ \A n, c : <<n, c>> \in visited => Known(n, c)
      /\ \A w \in walked : \A i \in Visible(w.data) :
            \/ pc = "entries" /\ w = Current /\ i >= at
            \/ Settled(w, w.data[i])

\* What is found stays found.
LEMMA FoundStays ==
    ASSUME found \in Seq(Founds), NEW f, IsFound(f),
           UNCHANGED found \/ \E g \in Founds : found' = Append(found, g)
    PROVE  IsFound(f)'
<1>1. PICK k \in 1 .. Len(found) : found[k] = f
  BY DEF IsFound
<1>2. k \in 1 .. Len(found') /\ found'[k] = found[k]
  BY <1>1
<1>. QED BY <1>1, <1>2 DEF IsFound

\* A settled entry stays settled when no directory is dropped unlooked at.
LEMMA SettledStays ==
    ASSUME UNCHANGED medium, NEW w, NEW e, Settled(w, e),
           \A f : IsFound(f) => IsFound(f)',
           \A n, c : Awaited(n, c) => Awaited(n, c)'
    PROVE  Settled(w, e)'
BY DEF Settled, File

\* A step that drops nothing unlooked at and keeps the place keeps everything remembered.
LEMMA RememberedStays ==
    ASSUME TypeInv, Remembered, pc # "cancelled", pc # "entries", UNCHANGED <<medium, found>>,
           \A n, c : Awaited(n, c) => Awaited(n, c)',
           \A n, c : <<n, c>> \in visited' => Known(n, c)',
           \A w \in walked' : w \in walked \/ (w = Current' /\ pc' = "entries" /\ at' = 1)
    PROVE  Remembered'
<1>1. \A f : IsFound(f) => IsFound(f)'
  BY DEF IsFound
<1>2. ASSUME NEW w \in walked', NEW i \in Visible(w.data)
      PROVE  \/ (pc' = "entries" /\ w = Current' /\ i >= at')
             \/ Settled(w, w.data[i])'
  <2>1. CASE w \in walked
    <3>1. Settled(w, w.data[i])
      BY <1>2, <2>1 DEF Remembered
    <3>. QED BY <1>1, <3>1, SettledStays
  <2>2. CASE w = Current' /\ pc' = "entries" /\ at' = 1
    <3>1. i >= 1
      BY <1>2 DEF Visible
    <3>. QED BY <2>2, <3>1
  <2>. QED BY <2>1, <2>2
<1>. QED BY <1>2 DEF Remembered, Visible, Settled, File

\* Every step of the walk remembers what it has yet to look at.
LEMMA RememberedStep == TypeInv /\ AtEntries /\ Remembered /\ [Next]_vars => Remembered'
<1>. SUFFICES ASSUME TypeInv, AtEntries, Remembered, [Next]_vars PROVE Remembered'
  OBVIOUS
<1>. USE DEF Reading, InVolume
<1>0. part \in Nat /\ queue \in Seq(Queued) /\ Len(queue) \in Nat /\ found \in Seq(Founds)
  BY DEF TypeInv, TypeOK, Shape
<1>1. CASE NextVolume
  <2>1. queue = <<>> /\ pc' = "open" /\ pc = "open"
    BY <1>1 DEF NextVolume, TypeInv, RootOnly
  <2>2. \A n, c : (Awaited(n, c) => Awaited(n, c)') /\ (Known(n, c) => Known(n, c)')
    BY <1>1, <2>1 DEF NextVolume, Awaited, Known
  <2>. QED BY <1>1, <2>1, <2>2, RememberedStays DEF NextVolume, Remembered
<1>2. CASE OpenRoot
  <2>1. queue = <<>> /\ pc' = "chain" /\ pc = "open" /\ dir'.cluster = Volume.root
    BY <1>2 DEF OpenRoot, TypeInv, RootOnly, Root
  <2>2. \A n, c : (Awaited(n, c) => Awaited(n, c)') /\ (Known(n, c) => Known(n, c)')
    BY <1>2, <2>1 DEF OpenRoot, Awaited, Known
  <2>3. \A n, c : <<n, c>> \in visited' => <<n, c>> \in visited \/ (n = part /\ c = Volume.root)
    BY <1>2 DEF OpenRoot
  <2>4. part' = part
    BY <1>2 DEF OpenRoot
  <2>5. \A n, c : <<n, c>> \in visited' => Known(n, c)'
    <3>1. ASSUME NEW n, NEW c, <<n, c>> \in visited' PROVE Known(n, c)'
      <4>1. CASE <<n, c>> \in visited
        BY <2>1, <2>2, <4>1 DEF Remembered
      <4>2. CASE n = part /\ c = Volume.root
        BY <2>1, <2>4, <4>2 DEF Known
      <4>. QED BY <2>3, <3>1, <4>1, <4>2
    <3>. QED BY <3>1
  <2>. QED BY <1>2, <2>1, <2>2, <2>5, RememberedStays DEF OpenRoot
<1>3. CASE OpenFixed
  <2>1. queue = <<>> /\ pc' = "entries" /\ pc = "open" /\ at' = 1
    BY <1>3 DEF OpenFixed, TypeInv, RootOnly
  <2>2. \A n, c : (Awaited(n, c) => Awaited(n, c)') /\ (Known(n, c) => Known(n, c)')
    BY <1>3, <2>1 DEF OpenFixed, Awaited, Known
  <2>3. walked' = walked \cup {Current'}
    BY <1>3 DEF OpenFixed, Current, NoDir
  <2>4. \A n, c : <<n, c>> \in visited' => Known(n, c)'
    BY <1>3, <2>1, <2>2 DEF OpenFixed, Remembered
  <2>. QED BY <1>3, <2>1, <2>2, <2>3, <2>4, RememberedStays DEF OpenFixed
<1>4. CASE Finish
  <2>2. \A n, c : (Awaited(n, c) => Awaited(n, c)') /\ (Known(n, c) => Known(n, c)')
    BY <1>4 DEF Finish, Awaited, Known
  <2>. QED BY <1>4, <2>2, RememberedStays DEF Finish, Remembered
<1>5. CASE Follow \/ ChainEnds \/ ReadCluster \/ (ChainFails /\ pc' = "data")
  <2>1. /\ pc \in {"chain", "data"} /\ pc' \in {"chain", "data"}
        /\ UNCHANGED <<medium, part, queue, visited, dir, found, walked, lost>>
    BY <1>5 DEF Follow, ChainEnds, ReadCluster, ChainFails
  <2>2. \A n, c : (Awaited(n, c) => Awaited(n, c)') /\ (Known(n, c) => Known(n, c)')
    BY <2>1 DEF Awaited, Known
  <2>. QED BY <2>1, <2>2, RememberedStays DEF Remembered
<1>6. CASE ChainFails /\ pc' = "pop"
  <2>1. /\ pc = "chain" /\ lost' = lost \cup {<<part, dir.cluster>>}
        /\ UNCHANGED <<medium, part, queue, visited, dir, found, walked>>
    BY <1>6 DEF ChainFails
  <2>2. \A n, c : Known(n, c) => Known(n, c)'
    BY <1>6, <2>1 DEF Known
  <2>3. \A n, c : Awaited(n, c) => Awaited(n, c)'
    BY <2>1, <2>2 DEF Awaited
  <2>. QED BY <1>6, <2>1, <2>2, <2>3, RememberedStays DEF Remembered
<1>7. CASE DataRead
  <2>1. /\ pc = "data" /\ pc' = "entries" /\ walked' = walked \cup {Current}
        /\ UNCHANGED <<medium, part, queue, visited, dir, data, at, found, lost>>
    BY <1>7 DEF DataRead, Current
  <2>2. Current' = Current /\ at' = 1
    BY <2>1 DEF Current, TypeInv, Shape
  <2>3. \A n, c : Known(n, c) => Known(n, c)'
    <3>1. Current.part = part /\ Current.cluster = dir.cluster
      BY DEF Current
    <3>. QED BY <2>1, <3>1 DEF Known
  <2>4. \A n, c : Awaited(n, c) => Awaited(n, c)'
    BY <2>1, <2>3 DEF Awaited
  <2>. QED BY <2>1, <2>2, <2>3, <2>4, RememberedStays DEF Remembered
<1>8. CASE TakeEntry
  <2>1. /\ pc = "entries" /\ pc' = "entries" /\ at' = at + 1 /\ at \in Nat
        /\ at <= Len(data) /\ data[at].kind \in {"file", "dir"}
        /\ found' = Append(found, File(part, dir.path, data[at]))
        /\ UNCHANGED <<medium, part, visited, dir, data, walked, lost>>
    BY <1>8 DEF TakeEntry, TypeInv, TypeOK
  <2>2. Current' = Current /\ Current \in walked /\ Current.data = data
    BY <2>1 DEF Current, AtEntries
  <2>3. File(part, dir.path, data[at]) \in Founds
    <3>1. /\ data[at].name \in Names /\ data[at].cluster \in Clusters \cup {NoCluster}
          /\ data[at].size \in Nat /\ part \in Nat \ {0} /\ dir.path \in Seq(Names)
      BY <2>1, EntryIs DEF TypeInv, TypeOK, Dirs
    <3>. QED BY <2>1, <3>1 DEF File, Founds
  <2>4. \A f : IsFound(f) => IsFound(f)'
    BY <1>0, <2>1, <2>3, FoundStays
  <2>5. \A n, c : Known(n, c) => Known(n, c)'
    BY <2>1 DEF Known
  <2>6. /\ \A k \in 1 .. Len(queue) : k \in 1 .. Len(queue') /\ queue'[k] = queue[k]
        /\ data[at].kind = "dir" /\ data[at].cluster # NoCluster /\ Volume.kind # "exfat"
             /\ dir.depth < MaxDepth
           => \E k \in 1 .. Len(queue') : queue'[k].cluster = data[at].cluster
    <3>. DEFINE q == [path |-> Append(dir.path, data[at].name), cluster |-> data[at].cluster,
                      depth |-> dir.depth + 1]
    <3>1. CASE queue' = Append(queue, q)
      <4>1. /\ Len(queue') = Len(queue) + 1 /\ queue'[Len(queue) + 1] = q
            /\ \A k \in 1 .. Len(queue) : queue'[k] = queue[k]
        BY <1>0, <3>1
      <4>2. q.cluster = data[at].cluster
        OBVIOUS
      <4>. QED BY <1>0, <4>1, <4>2
    <3>2. CASE queue' = queue /\ ~(/\ data[at].kind = "dir" /\ data[at].cluster # NoCluster
                                   /\ Volume.kind # "exfat" /\ dir.depth < MaxDepth)
      BY <3>2
    <3>. QED BY <1>8, <3>1, <3>2 DEF TakeEntry
  <2>7. \A n, c : Awaited(n, c) => Awaited(n, c)'
    BY <2>1, <2>5, <2>6 DEF Awaited
  <2>8. ASSUME NEW w, w = Current, NEW e, e = data[at] PROVE Settled(w, e)'
    <3>1. /\ w.part = part /\ w.path = dir.path /\ w.depth = dir.depth
          /\ dir.depth \in 0 .. MaxDepth /\ VolumesOf[medium][w.part].kind = Volume.kind
      BY <2>8 DEF Current, Volume, TypeInv, TypeOK, Dirs
    <3>2. IsFound(File(w.part, w.path, e))'
      <4>1. /\ found'[Len(found) + 1] = File(w.part, w.path, e)
            /\ Len(found) + 1 \in 1 .. Len(found')
        BY <1>0, <2>1, <2>3, <2>8, <3>1
      <4>. QED BY <4>1 DEF IsFound
    <3>3. CASE e.kind = "dir" /\ e.cluster # NoCluster /\ Volume.kind # "exfat"
               /\ dir.depth < MaxDepth
      <4>1. \E k \in 1 .. Len(queue') : queue'[k].cluster = e.cluster
        BY <2>6, <2>8, <3>3
      <4>2. Awaited(w.part, e.cluster)'
        BY <2>1, <3>1, <4>1 DEF Awaited
      <4>. QED BY <3>2, <4>2 DEF Settled
    <3>4. CASE e.kind = "file" \/ e.cluster = NoCluster \/ Volume.kind = "exfat"
               \/ dir.depth = MaxDepth
      BY <2>1, <3>1, <3>2, <3>4 DEF Settled
    <3>5. dir.depth < MaxDepth \/ dir.depth = MaxDepth
      BY <3>1, LimitsAssumption
    <3>. QED BY <2>1, <2>8, <3>3, <3>4, <3>5
  <2>9. ASSUME NEW w \in walked, NEW i \in Visible(w.data)
        PROVE  (w = Current /\ i >= at') \/ Settled(w, w.data[i])'
    <3>1. CASE Settled(w, w.data[i])
      BY <2>1, <2>4, <2>7, <3>1, SettledStays
    <3>2. CASE w = Current /\ i >= at
      <4>1. i \in Nat
        BY <2>9 DEF Visible
      <4>2. i = at => Settled(w, w.data[i])'
        BY <2>2, <2>8, <3>2
      <4>. QED BY <2>1, <3>2, <4>1, <4>2
    <3>. QED BY <2>1, <2>9, <3>1, <3>2 DEF Remembered
  <2>10. \A n, c : <<n, c>> \in visited' => Known(n, c)'
    BY <2>1, <2>5 DEF Remembered
  <2>. QED BY <2>1, <2>2, <2>9, <2>10 DEF Remembered, Visible, Settled, File
<1>9. CASE SkipEntry \/ EntriesEnd
  <2>1. /\ pc = "entries" /\ at \in 1 .. Len(data) + 1 /\ Len(data) \in Nat
        /\ UNCHANGED <<medium, part, queue, visited, dir, data, found, walked, lost>>
        /\ \/ pc' = "entries" /\ at' = at + 1 /\ at <= Len(data) /\ data[at].kind = "skip"
           \/ pc' = "pop" /\ (at <= Len(data) => data[at].kind = "end")
    BY <1>9 DEF SkipEntry, EntriesEnd, TypeInv, TypeOK
  <2>2. Current' = Current /\ Current.data = data
    BY <2>1 DEF Current
  <2>3. \A n, c : (Awaited(n, c) => Awaited(n, c)') /\ (Known(n, c) => Known(n, c)')
    BY <2>1 DEF Awaited, Known
  <2>4. \A f : IsFound(f) => IsFound(f)'
    BY <2>1 DEF IsFound
  <2>5. ASSUME NEW w \in walked, NEW i \in Visible(w.data)
        PROVE  (pc' = "entries" /\ w = Current /\ i >= at') \/ Settled(w, w.data[i])'
    <3>1. CASE Settled(w, w.data[i])
      BY <2>1, <2>3, <2>4, <3>1, SettledStays
    <3>2. CASE w = Current /\ i >= at
      <4>1. i \in 1 .. Len(data) /\ data[i].kind \in {"file", "dir"}
            /\ \A j \in 1 .. i : data[j].kind # "end"
        BY <2>2, <2>5, <3>2 DEF Visible
      <4>2. pc' = "entries" /\ i # at
        BY <2>1, <3>2, <4>1
      <4>. QED BY <2>1, <3>2, <4>1, <4>2
    <3>. QED BY <2>1, <2>5, <3>1, <3>2 DEF Remembered
  <2>6. \A n, c : <<n, c>> \in visited' => Known(n, c)'
    BY <2>1, <2>3 DEF Remembered
  <2>. QED BY <2>1, <2>2, <2>5, <2>6 DEF Remembered, Visible, Settled, File
<1>10. CASE Pop
  <2>1. /\ pc = "pop" /\ queue # <<>> /\ queue' = Popped
        /\ UNCHANGED <<medium, part, found, walked, lost>>
    BY <1>10 DEF Pop
  <2>2. /\ Top \in Queued
        /\ \A k \in 1 .. Len(queue) : queue[k] = Top \/ (k \in 1 .. Len(queue') /\ queue'[k] = queue[k])
    BY <1>0, <2>1 DEF Top, Popped
  <2>3. CASE (Top.depth > MaxDepth \/ <<part, Top.cluster>> \in visited)
             /\ UNCHANGED <<pc, dir, visited, at>>
    <3>1. ~(Top.depth > MaxDepth)
      BY <2>2, LimitsAssumption DEF Queued
    <3>2. \A n, c : Known(n, c) => Known(n, c)'
      BY <2>1, <2>3 DEF Known
    <3>3. Known(part, Top.cluster)
      BY <2>1, <2>3, <3>1 DEF Remembered
    <3>4. \A n, c : Awaited(n, c) => Awaited(n, c)'
      BY <2>1, <2>2, <3>2, <3>3 DEF Awaited
    <3>. QED BY <2>1, <2>3, <3>2, <3>4, RememberedStays DEF Remembered
  <2>4. CASE pc' = "chain" /\ dir' = Top /\ visited' = visited \cup {<<part, Top.cluster>>}
    <3>1. \A n, c : Known(n, c) => Known(n, c)'
      BY <2>1, <2>4 DEF Known
    <3>2. \A n, c : n = part /\ c = Top.cluster => Known(n, c)'
      BY <2>1, <2>4 DEF Known
    <3>3. \A n, c : Awaited(n, c) => Awaited(n, c)'
      BY <2>1, <2>2, <3>1, <3>2 DEF Awaited
    <3>4. \A n, c : <<n, c>> \in visited' => <<n, c>> \in visited \/ (n = part /\ c = Top.cluster)
      BY <2>4
    <3>5. \A n, c : <<n, c>> \in visited' => Known(n, c)'
      BY <2>1, <3>1, <3>2, <3>4 DEF Remembered
    <3>. QED BY <2>1, <2>4, <3>3, <3>5, RememberedStays
  <2>. QED BY <1>10, <2>3, <2>4 DEF Pop
<1>11. CASE VolumeDone
  <2>1. /\ pc = "pop" /\ pc' = "open" /\ queue = <<>>
        /\ UNCHANGED <<medium, queue, visited, dir, found, walked, lost>>
    BY <1>11 DEF VolumeDone
  <2>2. \A n, c : (Awaited(n, c) => Awaited(n, c)') /\ (Known(n, c) => Known(n, c)')
    BY <2>1 DEF Awaited, Known
  <2>. QED BY <2>1, <2>2, RememberedStays DEF Remembered
<1>12. CASE Cancel
  BY <1>12 DEF Cancel, Remembered
<1>13. CASE UNCHANGED vars
  <2>1. \A n, c : Known(n, c)' = Known(n, c) /\ Awaited(n, c)' = Awaited(n, c)
    BY <1>13 DEF vars, Known, Awaited
  <2>2. \A w, e : Settled(w, e)' = Settled(w, e)
    BY <1>13, <2>1 DEF vars, Settled, IsFound, File
  <2>3. Current' = Current
    BY <1>13 DEF vars, Current
  <2>. QED BY <1>13, <2>1, <2>2, <2>3 DEF vars, Remembered, Visible
<1>14. ChainFails => pc' = "data" \/ pc' = "pop"
  BY DEF ChainFails
<1>. QED BY <1>1, <1>2, <1>3, <1>4, <1>5, <1>6, <1>7, <1>8, <1>9, <1>10, <1>11, <1>12, <1>13,
            <1>14 DEF Next, Advance

\* When the walk is done nothing is awaited: all that was read of every directory was
\* discovered, and every directory in it within the depth was walked too or given up.
ReadIsFound ==
    pc = "done" =>
        \A w \in walked : \A i \in Visible(w.data) :
            /\ IsFound(File(w.part, w.path, w.data[i]))
            /\ \/ w.data[i].kind = "file" \/ w.data[i].cluster = NoCluster
               \/ w.depth = MaxDepth \/ VolumesOf[medium][w.part].kind = "exfat"
               \/ IsWalked(w.part, w.data[i].cluster)
               \/ <<w.part, w.data[i].cluster>> \in lost

\* What was read is discovered in the end.
LEMMA ReadIsAlwaysFound == Spec => []ReadIsFound
<1>1. Init => Remembered
  BY DEF Init, Remembered
<1>2. TypeInv /\ AtEntries /\ Remembered /\ [Next]_vars => Remembered'
  BY RememberedStep
<1>3. TypeInv /\ Remembered => ReadIsFound
  <2>. SUFFICES ASSUME TypeInv, Remembered, pc = "done", NEW w \in walked,
                       NEW i \in Visible(w.data)
                PROVE  /\ IsFound(File(w.part, w.path, w.data[i]))
                       /\ \/ w.data[i].kind = "file" \/ w.data[i].cluster = NoCluster
                          \/ w.depth = MaxDepth \/ VolumesOf[medium][w.part].kind = "exfat"
                          \/ IsWalked(w.part, w.data[i].cluster)
                          \/ <<w.part, w.data[i].cluster>> \in lost
    BY DEF ReadIsFound
  <2>1. Settled(w, w.data[i])
    BY DEF Remembered
  <2>2. queue = <<>> /\ ~Reading
    BY DEF TypeInv, RootOnly, Reading
  <2>3. Awaited(w.part, w.data[i].cluster) => Known(w.part, w.data[i].cluster)
    BY <2>2 DEF Awaited
  <2>. QED BY <2>1, <2>2, <2>3 DEF Settled, Known, IsWalked
<1>. QED BY <1>1, <1>2, <1>3, TypeInvariant, AtEntriesAlways, PTL DEF Spec

\* On any medium no directory and no cluster of one is read twice.
THEOREM NothingEverReadTwice == Spec => []NothingIsReadTwice
<1>1. EachDirectoryOnce /\ ChainsAreSimple => NothingIsReadTwice
  BY DEF NothingIsReadTwice
<1>. QED BY <1>1, DirectoriesOnce, ChainsAreAlwaysSimple, PTL

-----------------------------------------------------------------------------
(***************************************************************************)
(* Induction, for sets of numbers in place of predicates.                  *)
(***************************************************************************)

\* Every set of numbers that has one has a least one: its initial segments are
\* finite sets, which are well-founded under inclusion.
LEMMA LeastNumber ==
    ASSUME NEW T, T \subseteq Nat, T # {}
    PROVE  \E x \in T : \A y \in T : x <= y
<1>1. PICK n \in Nat : n \in T
  OBVIOUS
<1>. DEFINE S == 0 .. n
            F == {U \in FiniteSubsetsOf(S) : \E k \in T : U = 0 .. k}
<1>2. S \in F
  <2>1. IsFiniteSet(S)
    BY FS_Interval
  <2>. QED BY <1>1, <2>1 DEF FiniteSubsetsOf
<1>3. \E U \in F : \A W \in F : ~ (<<W, U>> \in StrictSubsetOrdering(S))
  <2>1. IsWellFoundedOn(StrictSubsetOrdering(S), FiniteSubsetsOf(S))
    BY FS_StrictSubsetOrderingWellFounded
  <2>2. F \subseteq FiniteSubsetsOf(S) /\ F # {}
    BY <1>2
  <2>. HIDE DEF F, S
  <2>. QED BY <2>1, <2>2, WFMin
<1>4. PICK U \in F : \A W \in F : ~ (<<W, U>> \in StrictSubsetOrdering(S))
  BY <1>3
<1>5. PICK k \in T : U = 0 .. k
  BY <1>4
<1>6. ASSUME NEW y \in T, y < k PROVE FALSE
  <2>1. 0 .. y \subseteq 0 .. k /\ 0 .. y # 0 .. k
    BY <1>6
  <2>2. 0 .. k \subseteq S
    BY <1>4, <1>5 DEF FiniteSubsetsOf
  <2>3. IsFiniteSet(0 .. y)
    <3>1. 0 \in Int /\ y \in Int
      BY <1>6
    <3>. QED BY <3>1, FS_Interval
  <2>4. 0 .. y \in F
    BY <1>6, <2>1, <2>2, <2>3 DEF FiniteSubsetsOf
  <2>5. <<0 .. y, U>> \in StrictSubsetOrdering(S)
    BY <1>5, <2>1, <2>2, <2>3 DEF StrictSubsetOrdering
  <2>. QED BY <1>4, <2>4, <2>5
<1>. QED BY <1>6

\* A set that has zero, and with a number the next one, has all up to a limit.
LEMMA Induction ==
    ASSUME NEW S, NEW max \in Nat, 0 \in S,
           \A n \in Nat : n \in S /\ n < max => n + 1 \in S
    PROVE  0 .. max \subseteq S
<1>. SUFFICES ASSUME 0 .. max \ S # {} PROVE FALSE
  OBVIOUS
<1>1. PICK x \in 0 .. max \ S : \A y \in 0 .. max \ S : x <= y
  <2>1. 0 .. max \ S \subseteq Nat
    OBVIOUS
  <2>. QED BY <2>1, LeastNumber
<1>2. x # 0 /\ x - 1 \in Nat /\ x - 1 < max
  BY <1>1
<1>3. x - 1 \in S
  BY <1>1, <1>2
<1>4. (x - 1) + 1 \in S
  BY <1>2, <1>3
<1>. QED BY <1>1, <1>2, <1>4

-----------------------------------------------------------------------------
(***************************************************************************)
(* What a directory lists on its medium, and what the walk reads of it.    *)
(***************************************************************************)

\* The links of a directory are its first cluster and one after the other what the
\* FAT says comes next.
LEMMA LinksIs ==
    ASSUME NEW v \in Volumes, NEW c \in Clusters
    PROVE  /\ Links(v, c)[1] = c
           /\ \A n \in 1 .. MaxChain : n # 1 =>
                 Links(v, c)[n] = IF Links(v, c)[n - 1] = NoCluster THEN NoCluster
                                                                    ELSE v.next[Links(v, c)[n - 1]]
<1>. DEFINE V == Clusters \cup {NoCluster}
            After(x) == IF x = NoCluster THEN NoCluster ELSE v.next[x]
            Steps(f, m) == \A i \in 1 .. m : f[i] = IF i = 1 THEN c ELSE After(f[i - 1])
            G == CHOOSE f : f = [n \in 1 .. MaxChain |->
                                    IF n = 1 THEN c
                                    ELSE IF f[n - 1] = NoCluster THEN NoCluster ELSE v.next[f[n - 1]]]
<1>1. MaxChain \in Nat \ {0} /\ c \in V
  BY LimitsAssumption
<1>2. \A x \in V : After(x) \in V
  <2>1. v.next \in [Clusters -> Clusters \cup {NoCluster}]
    BY DEF Volumes
  <2>. QED BY <2>1
<1>3. \E h \in [1 .. MaxChain -> V] : Steps(h, MaxChain)
  <2>. DEFINE Made(m) == \E h \in [1 .. m -> V] : Steps(h, m)
              T == {m \in Nat : m <= MaxChain => Made(m)}
  <2>. HIDE DEF V, After
  <2>1. 0 \in T
    <3>1. [i \in 1 .. 0 |-> c] \in [1 .. 0 -> V] /\ Steps([i \in 1 .. 0 |-> c], 0)
      OBVIOUS
    <3>. QED BY <3>1
  <2>2. ASSUME NEW m \in Nat, m \in T, m < MaxChain PROVE m + 1 \in T
    <3>1. PICK h \in [1 .. m -> V] : Steps(h, m)
      BY <1>1, <2>2
    <3>. DEFINE last == IF m + 1 = 1 THEN c ELSE After(h[m])
                g == [i \in 1 .. m + 1 |-> IF i = m + 1 THEN last ELSE h[i]]
    <3>2. last \in V
      <4>1. m + 1 # 1 => h[m] \in V
        OBVIOUS
      <4>. QED BY <1>1, <1>2, <4>1
    <3>3. g[m + 1] = last /\ \A i \in 1 .. m : g[i] = h[i]
      <4>. HIDE DEF last
      <4>1. m + 1 \in 1 .. m + 1 /\ \A i \in 1 .. m : i \in 1 .. m + 1 /\ i # m + 1
        OBVIOUS
      <4>. QED BY <4>1
    <3>4. g \in [1 .. m + 1 -> V]
      <4>. HIDE DEF last
      <4>1. \A i \in 1 .. m + 1 : i = m + 1 \/ i \in 1 .. m
        OBVIOUS
      <4>. QED BY <3>2, <4>1
    <3>. HIDE DEF g
    <3>5. Steps(g, m + 1)
      <4>1. \A i \in 1 .. m + 1 : i = m + 1 \/ (i \in 1 .. m /\ (i # 1 => i - 1 \in 1 .. m))
        OBVIOUS
      <4>2. m + 1 # 1 => g[(m + 1) - 1] = h[m]
        <5>1. m + 1 # 1 => m \in 1 .. m /\ (m + 1) - 1 = m
          OBVIOUS
        <5>. QED BY <3>3, <5>1
      <4>3. g[m + 1] = IF m + 1 = 1 THEN c ELSE After(g[(m + 1) - 1])
        BY <3>3, <4>2
      <4>4. \A i \in 1 .. m : g[i] = IF i = 1 THEN c ELSE After(g[i - 1])
        <5>1. \A i \in 1 .. m : g[i] = h[i] /\ (i # 1 => g[i - 1] = h[i - 1])
          <6>1. \A i \in 1 .. m : i # 1 => i - 1 \in 1 .. m
            OBVIOUS
          <6>. QED BY <3>3, <6>1
        <5>2. \A i \in 1 .. m : h[i] = IF i = 1 THEN c ELSE After(h[i - 1])
          BY <3>1
        <5>. QED BY <5>1, <5>2
      <4>. QED BY <4>1, <4>3, <4>4
    <3>6. Made(m + 1)
      BY <3>4, <3>5
    <3>. HIDE DEF Made
    <3>. QED BY <3>6
  <2>3. \A m \in Nat : m \in T /\ m < MaxChain => m + 1 \in T
    BY <2>2
  <2>. HIDE DEF T
  <2>4. MaxChain \in Nat /\ MaxChain \in 0 .. MaxChain
    BY <1>1
  <2>5. MaxChain \in T
    BY <2>1, <2>3, <2>4, Induction
  <2>. QED BY <2>4, <2>5 DEF T
<1>4. PICK h \in [1 .. MaxChain -> V] : Steps(h, MaxChain)
  BY <1>3
<1>5. h = [n \in 1 .. MaxChain |->
              IF n = 1 THEN c
              ELSE IF h[n - 1] = NoCluster THEN NoCluster ELSE v.next[h[n - 1]]]
  BY <1>4
<1>6. G = [n \in 1 .. MaxChain |->
              IF n = 1 THEN c
              ELSE IF G[n - 1] = NoCluster THEN NoCluster ELSE v.next[G[n - 1]]]
  BY <1>5
<1>7. Links(v, c) = G
  BY DEF Links
<1>. HIDE DEF G
<1>8. 1 \in 1 .. MaxChain
  BY <1>1
<1>. QED BY <1>6, <1>7, <1>8

\* Chain ch is the links of a directory, as far as it goes, and has no cluster twice.
Follows(ch, link) ==
    /\ ch \in Seq(Clusters) /\ Len(ch) <= MaxChain /\ ch # <<>>
    /\ \A i \in 1 .. Len(ch) : ch[i] = link[i]
    /\ \A i, j \in 1 .. Len(ch) : ch[i] = ch[j] => i = j

\* A chain is read to its end, to the limit or to the first cluster it has already.
Complete(v, ch) ==
    \/ v.next[ch[Len(ch)]] = NoCluster
    \/ Len(ch) >= MaxChain
    \/ \E i \in 1 .. Len(ch) : ch[i] = v.next[ch[Len(ch)]]

\* What of a chain can be read, said of the chain the walk has.
InReach(v, ch, n) ==
    /\ n \in 1 .. Len(ch) /\ ch[n] \notin v.noData
    /\ v.kind # "exfat" => n <= MaxData /\ \A i \in 1 .. n : ch[i] \notin v.noData

\* The chain of the walk has all that is within reach on the medium, and no more.
AllReadable(v, link, ch) == \A n \in 1 .. MaxChain : IsReadable(v, link, n) <=> InReach(v, ch, n)

\* A chain that follows the links stays in front of the first return.
LEMMA ChainIsLinked ==
    ASSUME NEW link, NEW ch, Follows(ch, link)
    PROVE  \A n \in 1 .. Len(ch) : n \in 1 .. MaxChain /\ IsLinked(link, n)
<1>1. \A i \in 1 .. Len(ch) : ch[i] \in Clusters /\ ch[i] # NoCluster
  BY NoClusterIsNone DEF Follows
<1>2. Len(ch) \in Nat /\ Len(ch) <= MaxChain
  BY DEF Follows
<1>. SUFFICES ASSUME NEW n \in 1 .. Len(ch) PROVE n \in 1 .. MaxChain /\ IsLinked(link, n)
  OBVIOUS
<1>3. n \in 1 .. MaxChain
  BY <1>2, LimitsAssumption
<1>4. \A i \in 1 .. n : i \in 1 .. Len(ch)
  BY <1>2
<1>. QED BY <1>1, <1>3, <1>4 DEF Follows, IsLinked

\* A complete chain has all of the links that are in front of the first return.
LEMMA LinkedIsInChain ==
    ASSUME NEW v \in Volumes, NEW c \in Clusters, NEW ch,
           Follows(ch, Links(v, c)), Complete(v, ch)
    PROVE  \A n \in 1 .. MaxChain : IsLinked(Links(v, c), n) => n \in 1 .. Len(ch)
<1>. DEFINE link == Links(v, c)
            m == Len(ch)
<1>1. m \in Nat \ {0} /\ m <= MaxChain /\ ch[m] \in Clusters /\ ch[m] # NoCluster /\ link[m] = ch[m]
  BY NoClusterIsNone DEF Follows
<1>. SUFFICES ASSUME NEW n \in 1 .. MaxChain, IsLinked(link, n), n > m PROVE FALSE
  BY <1>1
<1>2. m + 1 \in 1 .. MaxChain /\ m + 1 # 1 /\ (m + 1) - 1 = m /\ m + 1 \in 1 .. n
  BY <1>1, LimitsAssumption
<1>3. link[m + 1] = v.next[ch[m]]
  <2>1. link[m + 1] = IF link[(m + 1) - 1] = NoCluster THEN NoCluster ELSE v.next[link[(m + 1) - 1]]
    BY <1>2, LinksIs
  <2>. QED BY <1>1, <1>2, <2>1
<1>4. PICK i \in 1 .. m : ch[i] = v.next[ch[m]]
  <2>1. v.next[ch[m]] # NoCluster
    BY <1>2, <1>3 DEF IsLinked
  <2>2. ~(m >= MaxChain)
    BY <1>1, <1>2, LimitsAssumption
  <2>. HIDE DEF link
  <2>. QED BY <2>1, <2>2 DEF Complete
<1>5. link[i] = link[m + 1] /\ i \in 1 .. n /\ i # m + 1
  <2>1. link[i] = ch[i]
    BY DEF Follows
  <2>2. i \in 1 .. n /\ i # m + 1
    BY <1>1
  <2>. QED BY <1>3, <1>4, <2>1, <2>2
<1>. HIDE DEF link, m
<1>. QED BY <1>2, <1>5 DEF IsLinked

\* A complete chain whose FAT can be read has all that is within reach.
LEMMA WholeIsReadable ==
    ASSUME NEW v \in Volumes, NEW c \in Clusters, NEW ch,
           Follows(ch, Links(v, c)), Complete(v, ch),
           \A i \in 1 .. Len(ch) : ch[i] \notin v.noFat
    PROVE  AllReadable(v, Links(v, c), ch)
<1>. DEFINE link == Links(v, c)
<1>1. \A n \in 1 .. MaxChain : IsLinked(link, n) <=> n \in 1 .. Len(ch)
  BY ChainIsLinked, LinkedIsInChain
<1>2. \A i \in 1 .. Len(ch) : ch[i] = link[i]
  BY DEF Follows
<1>3. Len(ch) \in Nat /\ \A n \in 1 .. Len(ch) : \A i \in 1 .. n : i \in 1 .. Len(ch)
  BY DEF Follows
<1>. HIDE DEF link
<1>4. \A i \in 1 .. MaxChain : IsLinked(link, i) => link[i] \notin v.noFat
  BY <1>1, <1>2
<1>5. ASSUME NEW n \in 1 .. MaxChain PROVE IsReadable(v, link, n) <=> InReach(v, ch, n)
  <2>1. CASE ~(n \in 1 .. Len(ch))
    BY <1>1, <2>1 DEF IsReadable, InReach
  <2>2. CASE n \in 1 .. Len(ch)
    <3>1. IsLinked(link, n) /\ link[n] = ch[n] /\ \A i \in 1 .. n : link[i] = ch[i]
      BY <1>1, <1>2, <1>3, <2>2
    <3>2. CASE v.kind = "exfat"
      BY <1>4, <2>2, <3>1, <3>2 DEF IsReadable, InReach
    <3>3. CASE v.kind # "exfat"
      <4>1. (\A i \in 1 .. n : link[i] \notin v.noData) <=> (\A i \in 1 .. n : ch[i] \notin v.noData)
        BY <3>1
      <4>. QED BY <2>2, <3>1, <3>3, <4>1 DEF IsReadable, InReach
    <3>. QED BY <3>2, <3>3
  <2>. QED BY <2>1, <2>2
<1>. QED BY <1>5 DEF AllReadable, link

\* When the FAT of the root of exFAT cannot be read, its first cluster is all that is
\* within reach.
LEMMA FirstIsReadable ==
    ASSUME NEW v \in Volumes, NEW c \in Clusters, NEW ch,
           Follows(ch, Links(v, c)), v.kind = "exfat", ch[Len(ch)] \in v.noFat
    PROVE  Follows(<<c>>, Links(v, c)) /\ AllReadable(v, Links(v, c), <<c>>)
<1>. DEFINE link == Links(v, c)
<1>1. link[1] = c
  BY LinksIs
<1>2. Len(ch) \in 1 .. Len(ch) /\ link[Len(ch)] = ch[Len(ch)]
  BY DEF Follows
<1>. HIDE DEF link
<1>3. Len(<<c>>) = 1 /\ <<c>>[1] = c
  OBVIOUS
<1>4. Follows(<<c>>, link)
  <2>. DEFINE one == <<c>>
  <2>1. one \in Seq(Clusters) /\ Len(one) <= MaxChain /\ one # <<>> /\ Len(one) = 1 /\ one[1] = c
    BY <1>3, ShortChain
  <2>. HIDE DEF one
  <2>2. \A i \in 1 .. Len(one) : i = 1
    BY <2>1
  <2>3. Follows(one, link)
    BY <1>1, <2>1, <2>2 DEF Follows
  <2>. QED BY <2>3 DEF one
<1>5. IsLinked(link, 1) /\ 1 \in 1 .. MaxChain
  <2>. DEFINE one == <<c>>
  <2>1. Follows(one, link) /\ Len(one) = 1
    BY <1>3, <1>4
  <2>. HIDE DEF one
  <2>2. 1 \in 1 .. Len(one)
    BY <2>1
  <2>. QED BY <2>1, <2>2, ChainIsLinked
<1>6. Len(ch) \in 1 .. MaxChain /\ IsLinked(link, Len(ch)) /\ link[Len(ch)] \in v.noFat
  BY <1>2, ChainIsLinked DEF link
<1>7. ASSUME NEW n \in 1 .. MaxChain PROVE IsReadable(v, link, n) <=> InReach(v, <<c>>, n)
  <2>1. CASE n # 1
    <3>1. ~IsReadable(v, link, n)
      BY <1>6, <2>1 DEF IsReadable
    <3>2. ~InReach(v, <<c>>, n)
      BY <1>3, <2>1 DEF InReach
    <3>. QED BY <3>1, <3>2
  <2>2. CASE n = 1
    <3>1. IsReadable(v, link, 1) <=> c \notin v.noData
      BY <1>1, <1>5 DEF IsReadable
    <3>2. InReach(v, <<c>>, 1) <=> c \notin v.noData
      BY <1>3 DEF InReach
    <3>. QED BY <2>2, <3>1, <3>2
  <2>. QED BY <2>1, <2>2
<1>. QED BY <1>4, <1>7 DEF AllReadable, link

\* What counts of two lists one after the other: the second counts unless the first ends.
LEMMA InFrontOfBoth ==
    ASSUME NEW a \in Seq(Entries), NEW b \in Seq(Entries)
    PROVE  /\ Ends(a \o b) <=> Ends(a) \/ Ends(b)
           /\ Ends(a) => InFront(a \o b) = InFront(a)
           /\ ~Ends(a) => InFront(a \o b) = InFront(a) \cup InFront(b)
<1>. DEFINE d == a \o b
            n == Len(a)
            m == Len(b)
<1>1. /\ n \in Nat /\ m \in Nat /\ Len(d) = n + m
      /\ \A i \in 1 .. n : i \in 1 .. Len(d) /\ d[i] = a[i]
      /\ \A i \in 1 .. m : n + i \in 1 .. Len(d) /\ d[n + i] = b[i]
  <2>1. /\ Len(a) \in Nat /\ Len(b) \in Nat /\ Len(a \o b) = Len(a) + Len(b)
        /\ \A i \in 1 .. Len(a) + Len(b) :
              (a \o b)[i] = IF i <= Len(a) THEN a[i] ELSE b[i - Len(a)]
    BY ConcatProperties
  <2>. QED BY <2>1
<1>. HIDE DEF d
<1>2. \A i \in 1 .. Len(d) : i \in 1 .. n \/ (i - n \in 1 .. m /\ i = n + (i - n))
  BY <1>1
<1>. HIDE DEF n, m
<1>3. Ends(d) <=> Ends(a) \/ Ends(b)
  <2>1. ASSUME Ends(d) PROVE Ends(a) \/ Ends(b)
    <3>1. PICK i \in 1 .. Len(d) : d[i].kind = "end"
      BY <2>1 DEF Ends
    <3>2. CASE i \in 1 .. n
      BY <1>1, <3>1, <3>2 DEF Ends, n
    <3>3. CASE i - n \in 1 .. m /\ i = n + (i - n)
      <4>1. d[i] = b[i - n]
        BY <1>1, <3>3
      <4>. QED BY <3>1, <3>3, <4>1 DEF Ends, m
    <3>. QED BY <1>2, <3>2, <3>3
  <2>2. Ends(a) => Ends(d)
    BY <1>1 DEF Ends, n
  <2>3. ASSUME Ends(b) PROVE Ends(d)
    <3>1. PICK i \in 1 .. m : b[i].kind = "end"
      BY <2>3 DEF Ends, m
    <3>2. n + i \in 1 .. Len(d) /\ d[n + i] = b[i]
      BY <1>1
    <3>. QED BY <3>1, <3>2 DEF Ends
  <2>. QED BY <2>1, <2>2, <2>3
<1>4. \A i \in 1 .. n : i \in Visible(d) <=> i \in Visible(a)
  <2>. SUFFICES ASSUME NEW i \in 1 .. n PROVE i \in Visible(d) <=> i \in Visible(a)
    OBVIOUS
  <2>1. \A j \in 1 .. i : j \in 1 .. n
    BY <1>1
  <2>2. d[i] = a[i] /\ i \in 1 .. Len(d) /\ i \in 1 .. Len(a) /\ \A j \in 1 .. i : d[j] = a[j]
    BY <1>1, <2>1 DEF n
  <2>3. (\A j \in 1 .. i : d[j].kind # "end") <=> (\A j \in 1 .. i : a[j].kind # "end")
    BY <2>2
  <2>. QED BY <2>2, <2>3 DEF Visible
<1>5. \A x : x \in InFront(a) => x \in InFront(d)
  <2>. SUFFICES ASSUME NEW x, x \in InFront(a) PROVE x \in InFront(d)
    OBVIOUS
  <2>1. PICK i \in Visible(a) : x = a[i]
    BY DEF InFront
  <2>2. i \in 1 .. n
    BY DEF Visible, n
  <2>3. i \in Visible(d) /\ d[i] = a[i]
    BY <1>1, <1>4, <2>2
  <2>. QED BY <2>1, <2>3 DEF InFront
<1>6. ASSUME NEW x, x \in InFront(d)
      PROVE  x \in InFront(a) \/ (~Ends(a) /\ x \in InFront(b))
  <2>1. PICK k \in Visible(d) : x = d[k]
    BY <1>6 DEF InFront
  <2>2. k \in 1 .. Len(d) /\ d[k].kind \in {"file", "dir"} /\ \A j \in 1 .. k : d[j].kind # "end"
    BY DEF Visible
  <2>3. CASE k \in 1 .. n
    <3>1. k \in Visible(a) /\ a[k] = x
      BY <1>1, <1>4, <2>1, <2>3
    <3>. QED BY <3>1 DEF InFront
  <2>4. CASE k - n \in 1 .. m /\ k = n + (k - n)
    <3>. DEFINE i == k - n
    <3>1. i \in 1 .. m /\ k = n + i
      BY <2>4
    <3>. HIDE DEF i
    <3>2. d[k] = b[i] /\ \A j \in 1 .. i : n + j \in 1 .. k /\ j \in 1 .. m /\ d[n + j] = b[j]
      BY <1>1, <3>1
    <3>3. \A j \in 1 .. n : j \in 1 .. k /\ d[j] = a[j]
      BY <1>1, <3>1
    <3>4. ~Ends(a)
      BY <2>2, <3>3 DEF Ends, n
    <3>5. \A j \in 1 .. i : b[j].kind # "end"
      <4>. SUFFICES ASSUME NEW j \in 1 .. i PROVE b[j].kind # "end"
        OBVIOUS
      <4>1. d[n + j] = b[j] /\ n + j \in 1 .. k
        BY <3>2
      <4>. QED BY <2>2, <4>1
    <3>6. i \in Visible(b)
      BY <2>2, <3>1, <3>2, <3>5 DEF Visible, m
    <3>. QED BY <2>1, <3>2, <3>4, <3>6 DEF InFront
  <2>. QED BY <1>2, <2>2, <2>3, <2>4
<1>7. ASSUME ~Ends(a), NEW x, x \in InFront(b) PROVE x \in InFront(d)
  <2>1. PICK i \in Visible(b) : x = b[i]
    BY <1>7 DEF InFront
  <2>2. i \in 1 .. m /\ b[i].kind \in {"file", "dir"} /\ \A j \in 1 .. i : b[j].kind # "end"
    BY DEF Visible, m
  <2>3. n + i \in 1 .. Len(d) /\ d[n + i] = b[i]
    BY <1>1, <2>2
  <2>4. ASSUME NEW j \in 1 .. n + i PROVE d[j].kind # "end"
    <3>1. j \in 1 .. Len(d)
      BY <1>1, <2>2, <2>3
    <3>2. CASE j \in 1 .. n
      <4>1. a[j].kind # "end"
        BY <1>7, <3>2 DEF Ends, n
      <4>. QED BY <1>1, <3>2, <4>1
    <3>3. CASE j - n \in 1 .. m /\ j = n + (j - n)
      <4>. DEFINE h == j - n
      <4>1. h \in 1 .. m /\ j = n + h /\ h \in 1 .. i
        BY <1>1, <2>2, <3>3
      <4>. HIDE DEF h
      <4>2. d[j] = b[h]
        BY <1>1, <4>1
      <4>. QED BY <2>2, <4>1, <4>2
    <3>. QED BY <1>2, <3>1, <3>2, <3>3
  <2>5. n + i \in Visible(d)
    BY <2>2, <2>3, <2>4 DEF Visible
  <2>. QED BY <2>1, <2>3, <2>5 DEF InFront
<1>8. Ends(a) => InFront(d) = InFront(a)
  BY <1>5, <1>6
<1>9. ~Ends(a) => InFront(d) = InFront(a) \cup InFront(b)
  BY <1>5, <1>6, <1>7
<1>. QED BY <1>3, <1>8, <1>9 DEF d

\* The clusters among the first k of a chain that can be read, and those of them in
\* front of the end of the directory.
Got(v, ch, k) == {i \in 1 .. k : ch[i] \notin v.noData}
Counting(v, ch, k) ==
    {i \in Got(v, ch, k) : \A j \in Got(v, ch, k) : j < i => ~Ends(v.data[ch[j]])}

\* What d lists is what the first k clusters of a chain list.
Gathered(v, ch, k, d) ==
    /\ v.kind # "exfat" => k <= MaxData /\ \A i \in 1 .. k : ch[i] \notin v.noData
    /\ Ends(d) <=> \E i \in Got(v, ch, k) : Ends(v.data[ch[i]])
    /\ InFront(d) = UNION {InFront(v.data[ch[i]]) : i \in Counting(v, ch, k)}

\* Before the first cluster there is nothing.
LEMMA GatherNone ==
    ASSUME NEW v, NEW ch
    PROVE  Gathered(v, ch, 0, <<>>)
<1>1. Got(v, ch, 0) = {} /\ Counting(v, ch, 0) = {}
  BY DEF Got, Counting
<1>2. Len(<<>>) = 0
  OBVIOUS
<1>3. ~Ends(<<>>) /\ InFront(<<>>) = {}
  BY <1>2 DEF Ends, InFront, Visible
<1>4. UNION {InFront(v.data[ch[i]]) : i \in Counting(v, ch, 0)} = {}
  BY <1>1
<1>. QED BY <1>1, <1>3, <1>4, LimitsAssumption DEF Gathered

\* A cluster that cannot be read adds nothing.
LEMMA GatherNothing ==
    ASSUME NEW v, NEW ch, NEW k \in Nat, NEW d, Gathered(v, ch, k, d),
           v.kind = "exfat", ch[k + 1] \in v.noData
    PROVE  Gathered(v, ch, k + 1, d)
<1>1. Got(v, ch, k + 1) = Got(v, ch, k)
  <2>1. \A i \in 1 .. k + 1 : i = k + 1 \/ i \in 1 .. k
    OBVIOUS
  <2>2. \A i \in 1 .. k : i \in 1 .. k + 1
    OBVIOUS
  <2>. QED BY <2>1, <2>2 DEF Got
<1>2. Counting(v, ch, k + 1) = Counting(v, ch, k)
  BY <1>1 DEF Counting
<1>. QED BY <1>1, <1>2 DEF Gathered

\* The next cluster that can be read adds what it lists, unless an earlier one ended.
LEMMA GatherOne ==
    ASSUME NEW v \in Volumes, NEW ch \in Seq(Clusters), NEW k \in Nat, k < Len(ch),
           NEW d \in Seq(Entries), Gathered(v, ch, k, d),
           ch[k + 1] \notin v.noData, v.kind # "exfat" => k < MaxData
    PROVE  Gathered(v, ch, k + 1, d \o v.data[ch[k + 1]])
<1>. DEFINE e == v.data[ch[k + 1]]
            lists(i) == InFront(v.data[ch[i]])
<1>1. e \in Seq(Entries)
  <2>1. ch[k + 1] \in Clusters
    OBVIOUS
  <2>. QED BY <2>1 DEF Volumes
<1>. HIDE DEF e
<1>2. /\ Ends(d \o e) <=> Ends(d) \/ Ends(e)
      /\ Ends(d) => InFront(d \o e) = InFront(d)
      /\ ~Ends(d) => InFront(d \o e) = InFront(d) \cup InFront(e)
  BY <1>1, InFrontOfBoth
<1>3. \A i : i \in 1 .. k + 1 <=> i \in 1 .. k \/ i = k + 1
  OBVIOUS
<1>4. Got(v, ch, k + 1) = Got(v, ch, k) \cup {k + 1}
  BY <1>3 DEF Got
<1>5. \A i \in Got(v, ch, k) : i \in Nat /\ i < k + 1
  BY DEF Got
<1>6. Ends(d) <=> \E i \in Got(v, ch, k) : Ends(v.data[ch[i]])
  BY DEF Gathered
<1>7. Ends(d \o e) <=> \E i \in Got(v, ch, k + 1) : Ends(v.data[ch[i]])
  BY <1>2, <1>4, <1>6 DEF e
<1>8. Counting(v, ch, k + 1) = IF Ends(d) THEN Counting(v, ch, k) ELSE Counting(v, ch, k) \cup {k + 1}
  <2>1. \A i \in Got(v, ch, k) : i \in Counting(v, ch, k + 1) <=> i \in Counting(v, ch, k)
    BY <1>4, <1>5 DEF Counting
  <2>2. k + 1 \in Counting(v, ch, k + 1) <=> ~Ends(d)
    BY <1>4, <1>5, <1>6 DEF Counting
  <2>3. \A i : i \in Counting(v, ch, k + 1) => i \in Got(v, ch, k) \/ i = k + 1
    BY <1>4 DEF Counting
  <2>4. \A i : i \in Counting(v, ch, k) => i \in Got(v, ch, k)
    BY DEF Counting
  <2>5. k + 1 \notin Got(v, ch, k)
    BY <1>5
  <2>6. CASE Ends(d)
    <3>1. Counting(v, ch, k + 1) = Counting(v, ch, k)
      BY <2>1, <2>2, <2>3, <2>4, <2>6
    <3>. QED BY <2>6, <3>1
  <2>7. CASE ~Ends(d)
    <3>1. Counting(v, ch, k + 1) = Counting(v, ch, k) \cup {k + 1}
      BY <2>1, <2>2, <2>3, <2>4, <2>7
    <3>. QED BY <2>7, <3>1
  <2>. QED BY <2>6, <2>7
<1>9. InFront(d) = UNION {lists(i) : i \in Counting(v, ch, k)}
  BY DEF Gathered
<1>10. InFront(d \o e) = UNION {lists(i) : i \in Counting(v, ch, k + 1)}
  <2>. DEFINE C == Counting(v, ch, k)
              D == Counting(v, ch, k + 1)
  <2>1. lists(k + 1) = InFront(e)
    BY DEF e
  <2>. HIDE DEF lists, C, D
  <2>2. UNION {lists(i) : i \in C \cup {k + 1}} = (UNION {lists(i) : i \in C}) \cup lists(k + 1)
    <3>. DEFINE K == k + 1
                Part == {lists(i) : i \in C}
                All == {lists(i) : i \in C \cup {K}}
    <3>. HIDE DEF K
    <3>1. \A x : x \in All <=> x \in Part \/ x = lists(K)
      OBVIOUS
    <3>. HIDE DEF Part, All
    <3>2. ASSUME NEW x PROVE x \in UNION All <=> x \in (UNION Part) \cup lists(K)
      <4>1. x \in UNION All => x \in UNION Part \/ x \in lists(K)
        BY <3>1
      <4>2. x \in UNION Part => x \in UNION All
        BY <3>1
      <4>3. x \in lists(K) => x \in UNION All
        <5>1. lists(K) \in All
          BY <3>1
        <5>. QED BY <5>1
      <4>. QED BY <4>1, <4>2, <4>3
    <3>3. UNION All = (UNION Part) \cup lists(K)
      BY <3>2
    <3>. QED BY <3>3 DEF All, Part, K
  <2>3. CASE Ends(d)
    <3>1. D = C
      BY <1>8, <2>3 DEF C, D
    <3>. QED BY <1>2, <1>9, <2>3, <3>1 DEF C, D
  <2>4. CASE ~Ends(d)
    <3>1. D = C \cup {k + 1}
      BY <1>8, <2>4 DEF C, D
    <3>. QED BY <1>2, <1>9, <2>1, <2>2, <2>4, <3>1 DEF C, D
  <2>. QED BY <2>3, <2>4
<1>11. v.kind # "exfat" => k + 1 <= MaxData /\ \A i \in 1 .. k + 1 : ch[i] \notin v.noData
  BY <1>3, LimitsAssumption DEF Gathered
<1>. QED BY <1>7, <1>10, <1>11 DEF Gathered, e

\* When the walk stops reading a directory it has what the medium lists for it.
LEMMA GatheredIsListed ==
    ASSUME NEW v \in Volumes, NEW c \in Clusters, NEW ch,
           Follows(ch, Links(v, c)), AllReadable(v, Links(v, c), ch),
           NEW k \in 0 .. Len(ch), NEW d, Gathered(v, ch, k, d),
           \/ k = Len(ch)
           \/ k < Len(ch) /\ v.kind # "exfat" /\ (k >= MaxData \/ ch[k + 1] \in v.noData)
    PROVE  InFront(d) = Listed(v, c)
<1>. DEFINE link == Links(v, c)
            Counts(n) == /\ IsReadable(v, link, n)
                         /\ \A i \in 1 .. n - 1 : IsReadable(v, link, i) => ~Ends(v.data[link[i]])
<1>1. Len(ch) \in Nat /\ Len(ch) <= MaxChain /\ MaxChain \in Nat /\ k \in Nat /\ MaxData \in Nat
  BY LimitsAssumption DEF Follows
<1>2. \A i \in 1 .. Len(ch) : ch[i] = link[i]
  BY DEF Follows
<1>3. \A n \in 1 .. MaxChain : IsReadable(v, link, n) <=> InReach(v, ch, n)
  BY DEF AllReadable
<1>. HIDE DEF link
<1>4. \A n \in 1 .. MaxChain : InReach(v, ch, n) <=> n \in Got(v, ch, k)
  <2>. SUFFICES ASSUME NEW n \in 1 .. MaxChain PROVE InReach(v, ch, n) <=> n \in Got(v, ch, k)
    OBVIOUS
  <2>1. ASSUME InReach(v, ch, n) PROVE n \in Got(v, ch, k)
    <3>1. n \in 1 .. Len(ch) /\ ch[n] \notin v.noData
      BY <2>1 DEF InReach
    <3>2. CASE n <= k
      BY <3>1, <3>2 DEF Got
    <3>3. CASE ~(n <= k)
      <4>1. v.kind # "exfat" /\ (k >= MaxData \/ ch[k + 1] \in v.noData) /\ k + 1 \in 1 .. n
        BY <1>1, <3>1, <3>3
      <4>2. n <= MaxData /\ ch[k + 1] \notin v.noData
        BY <2>1, <4>1 DEF InReach
      <4>. QED BY <1>1, <3>3, <4>1, <4>2
    <3>. QED BY <3>2, <3>3
  <2>2. ASSUME n \in Got(v, ch, k) PROVE InReach(v, ch, n)
    <3>1. n \in 1 .. k /\ n \in 1 .. Len(ch) /\ ch[n] \notin v.noData
      BY <1>1, <2>2 DEF Got
    <3>2. ASSUME v.kind # "exfat" PROVE n <= MaxData /\ \A i \in 1 .. n : ch[i] \notin v.noData
      <4>1. k <= MaxData /\ \A i \in 1 .. k : ch[i] \notin v.noData
        BY <3>2 DEF Gathered
      <4>2. n <= MaxData /\ \A i \in 1 .. n : i \in 1 .. k
        BY <1>1, <3>1, <4>1
      <4>. QED BY <4>1, <4>2
    <3>. QED BY <3>1, <3>2 DEF InReach
  <2>. QED BY <2>1, <2>2
<1>5. \A i \in Got(v, ch, k) : i \in 1 .. Len(ch) /\ i \in 1 .. MaxChain /\ i \in Nat
  BY <1>1 DEF Got
<1>6. \A n \in 1 .. MaxChain : Counts(n) <=> n \in Counting(v, ch, k)
  <2>. SUFFICES ASSUME NEW n \in 1 .. MaxChain PROVE Counts(n) <=> n \in Counting(v, ch, k)
    OBVIOUS
  <2>1. \A i \in 1 .. n - 1 : i \in 1 .. MaxChain /\ i < n
    BY <1>1
  <2>2. \A i \in 1 .. MaxChain : i < n => i \in 1 .. n - 1
    BY <1>1
  <2>3. \A i \in Got(v, ch, k) : link[i] = ch[i]
    BY <1>2, <1>5
  <2>4. \A i \in 1 .. MaxChain : IsReadable(v, link, i) <=> i \in Got(v, ch, k)
    BY <1>3, <1>4
  <2>5. ASSUME n \in Got(v, ch, k)
        PROVE  (\A i \in 1 .. n - 1 : IsReadable(v, link, i) => ~Ends(v.data[link[i]]))
                 <=> \A j \in Got(v, ch, k) : j < n => ~Ends(v.data[ch[j]])
    BY <1>5, <2>1, <2>2, <2>3, <2>4
  <2>. QED BY <2>4, <2>5 DEF Counting
<1>7. {n \in 1 .. MaxChain : Counts(n)} = Counting(v, ch, k)
  <2>1. \A n \in Counting(v, ch, k) : n \in 1 .. MaxChain
    BY <1>5 DEF Counting
  <2>. HIDE DEF Counts
  <2>. QED BY <1>6, <2>1
<1>8. c # NoCluster
  BY NoClusterIsNone
<1>9. Listed(v, c) = UNION {InFront(v.data[link[n]]) : n \in {m \in 1 .. MaxChain : Counts(m)}}
  BY <1>8 DEF Listed, link
<1>10. Listed(v, c) = UNION {InFront(v.data[link[n]]) : n \in Counting(v, ch, k)}
  BY <1>7, <1>9
<1>11. \A n \in Counting(v, ch, k) : link[n] = ch[n]
  BY <1>2, <1>5 DEF Counting
<1>12. {InFront(v.data[link[n]]) : n \in Counting(v, ch, k)}
         = {InFront(v.data[ch[n]]) : n \in Counting(v, ch, k)}
  BY <1>11
<1>. QED BY <1>10, <1>12 DEF Gathered

\* The walk at hand follows the links of its directory; what it has read of it lists what
\* the clusters read so far list.
ReadSoFar ==
    /\ Reading => Follows(chain, Links(Volume, dir.cluster))
    /\ pc = "chain" => data = <<>> /\ \A i \in 1 .. Len(chain) - 1 : chain[i] \notin Volume.noFat
    /\ pc = "data" => /\ AllReadable(Volume, Links(Volume, dir.cluster), chain)
                      /\ Gathered(Volume, chain, taken, data)

\* What was read of each directory lists what the medium lists for it.
ReadIsListed == \A w \in walked : InFront(w.data) = ListedIn(w)

\* A directory starts with its first cluster.
LEMMA ReadingStarts ==
    ASSUME NEW v \in Volumes, NEW c \in Clusters
    PROVE  Follows(<<c>>, Links(v, c))
<1>. DEFINE one == <<c>>
<1>1. one \in Seq(Clusters) /\ Len(one) <= MaxChain /\ one # <<>> /\ Len(one) = 1 /\ one[1] = c
  BY ShortChain
<1>. HIDE DEF one
<1>2. Links(v, c)[1] = c /\ \A i \in 1 .. Len(one) : i = 1
  BY <1>1, LinksIs
<1>3. Follows(one, Links(v, c))
  BY <1>1, <1>2 DEF Follows
<1>. QED BY <1>3 DEF one

\* The next link is put behind a chain that does not have it.
LEMMA FollowsOn ==
    ASSUME NEW v \in Volumes, NEW c \in Clusters, NEW ch, Follows(ch, Links(v, c)),
           Len(ch) < MaxChain, v.next[ch[Len(ch)]] # NoCluster,
           \A i \in 1 .. Len(ch) : ch[i] # v.next[ch[Len(ch)]]
    PROVE  Follows(Append(ch, v.next[ch[Len(ch)]]), Links(v, c))
<1>. DEFINE m == Len(ch)
            new == v.next[ch[Len(ch)]]
            longer == Append(ch, new)
            link == Links(v, c)
<1>1. ch \in Seq(Clusters) /\ m \in Nat \ {0} /\ m < MaxChain /\ ch[m] \in Clusters /\ link[m] = ch[m]
  BY DEF Follows
<1>2. new \in Clusters
  <2>1. v.next \in [Clusters -> Clusters \cup {NoCluster}]
    BY DEF Volumes
  <2>. QED BY <1>1, <2>1
<1>3. link[m + 1] = new
  <2>1. m + 1 \in 1 .. MaxChain /\ m + 1 # 1 /\ (m + 1) - 1 = m /\ ch[m] # NoCluster
    BY <1>1, LimitsAssumption, NoClusterIsNone
  <2>2. link[m + 1] = IF link[(m + 1) - 1] = NoCluster THEN NoCluster ELSE v.next[link[(m + 1) - 1]]
    BY <2>1, LinksIs
  <2>. QED BY <1>1, <2>1, <2>2
<1>4. \A i \in 1 .. m : ch[i] = link[i] /\ ch[i] # new
  BY DEF Follows
<1>5. \A i, j \in 1 .. m : ch[i] = ch[j] => i = j
  BY DEF Follows
<1>. HIDE DEF link
<1>. HIDE DEF new, m
<1>6. /\ longer \in Seq(Clusters) /\ Len(longer) = m + 1 /\ longer # <<>>
      /\ longer[m + 1] = new /\ \A i \in 1 .. m : longer[i] = ch[i]
  BY <1>1, <1>2 DEF m
<1>. HIDE DEF longer
<1>7. \A i \in 1 .. Len(longer) : i = m + 1 \/ i \in 1 .. m
  BY <1>1, <1>6
<1>8. \A i \in 1 .. Len(longer) : longer[i] = link[i]
  BY <1>3, <1>4, <1>6, <1>7
<1>9. \A i, j \in 1 .. Len(longer) : longer[i] = longer[j] => i = j
  BY <1>4, <1>5, <1>6, <1>7
<1>10. Len(longer) <= MaxChain
  BY <1>1, <1>6, LimitsAssumption
<1>. QED BY <1>6, <1>8, <1>9, <1>10 DEF Follows, longer, link, new, m

\* Every step keeps what has been read true.
LEMMA ReadSoFarStep == TypeInv /\ ReadSoFar /\ [Next]_vars => ReadSoFar'
<1>. SUFFICES ASSUME TypeInv, ReadSoFar, [Next]_vars PROVE ReadSoFar'
  OBVIOUS
<1>. USE DEF Reading
<1>1. CASE OpenRoot \/ (Pop /\ pc' = "chain")
  <2>1. PICK c \in Clusters : chain' = <<c>> /\ dir'.cluster = c /\ data' = <<>> /\ pc' = "chain"
                              /\ UNCHANGED <<medium, part>> /\ part <= Parts
    <3>1. CASE OpenRoot
      <4>1. Volume.root \in Clusters
        BY <3>1, VolumeIs DEF OpenRoot, TypeInv
      <4>2. dir'.cluster = Volume.root
        BY <3>1 DEF OpenRoot, Root
      <4>. QED BY <3>1, <4>1, <4>2 DEF OpenRoot
    <3>2. CASE Pop /\ pc' = "chain"
      <4>1. Top \in Queued
        BY <3>2 DEF Pop, TypeInv, Shape, Top
      <4>2. dir' = Top /\ chain' = <<Top.cluster>> /\ data' = <<>> /\ UNCHANGED <<medium, part>>
        BY <3>2 DEF Pop
      <4>3. part <= Parts
        BY <3>2 DEF Pop, TypeInv, TypeOK
      <4>. QED BY <3>2, <4>1, <4>2, <4>3 DEF Queued
    <3>. QED BY <1>1, <3>1, <3>2
  <2>2. Volume \in Volumes /\ Volume' = Volume
    BY <2>1, VolumeIs DEF TypeInv, Volume
  <2>3. Follows(chain', Links(Volume, c))
    BY <2>1, <2>2, ReadingStarts
  <2>4. Len(chain') - 1 = 0
    <3>1. Len(<<c>>) = 1
      OBVIOUS
    <3>. QED BY <2>1, <3>1
  <2>. QED BY <2>1, <2>2, <2>3, <2>4 DEF ReadSoFar
<1>2. ASSUME pc \in {"chain", "data"} PROVE /\ Volume \in Volumes /\ dir.cluster \in Clusters
                                            /\ Follows(chain, Links(Volume, dir.cluster))
                                            /\ (UNCHANGED <<medium, part>> => Volume' = Volume)
  BY <1>2, VolumeIs DEF TypeInv, TypeOK, Shape, ReadSoFar, Volume
<1>3. CASE Follow
  <2>1. /\ pc = "chain" /\ UNCHANGED <<medium, part, dir, pc, data>> /\ EndOfChain \notin Volume.noFat
        /\ chain' = Append(chain, Volume.next[EndOfChain]) /\ Len(chain) < MaxChain
        /\ Volume.next[EndOfChain] # NoCluster
        /\ \A i \in 1 .. Len(chain) : chain[i] # Volume.next[EndOfChain]
    BY <1>3 DEF Follow
  <2>2. Follows(chain', Links(Volume, dir.cluster))
    BY <1>2, <2>1, FollowsOn DEF EndOfChain
  <2>3. chain \in Seq(Clusters) /\ Len(chain) \in Nat \ {0}
    BY <1>2, <2>1 DEF Follows
  <2>4. Len(chain') - 1 = Len(chain) /\ \A i \in 1 .. Len(chain) : chain'[i] = chain[i]
    BY <2>1, <2>3
  <2>5. \A i \in 1 .. Len(chain) : i = Len(chain) \/ i \in 1 .. Len(chain) - 1
    BY <2>3
  <2>6. \A i \in 1 .. Len(chain) : chain[i] \notin Volume.noFat
    BY <2>1, <2>5 DEF ReadSoFar, EndOfChain
  <2>7. \A i \in 1 .. Len(chain') - 1 : chain'[i] \notin Volume.noFat
    BY <2>4, <2>6
  <2>8. data' = <<>> /\ Volume' = Volume
    BY <1>2, <2>1 DEF ReadSoFar
  <2>. QED BY <2>1, <2>2, <2>7, <2>8 DEF ReadSoFar
<1>4. CASE ChainEnds
  <2>1. /\ pc = "chain" /\ pc' = "data" /\ UNCHANGED <<medium, part, dir, chain, taken, data>>
        /\ EndOfChain \notin Volume.noFat
    BY <1>4 DEF ChainEnds
  <2>2. Complete(Volume, chain)
    BY <1>4 DEF ChainEnds, Complete, EndOfChain
  <2>3. Len(chain) \in Nat \ {0}
    BY <1>2, <2>1 DEF Follows
  <2>4. \A i \in 1 .. Len(chain) : chain[i] \notin Volume.noFat
    <3>1. \A i \in 1 .. Len(chain) : i = Len(chain) \/ i \in 1 .. Len(chain) - 1
      BY <2>3
    <3>. QED BY <2>1, <3>1 DEF ReadSoFar, EndOfChain
  <2>5. AllReadable(Volume, Links(Volume, dir.cluster), chain)
    BY <1>2, <2>1, <2>2, <2>4, WholeIsReadable
  <2>6. Gathered(Volume, chain, taken, data)
    <3>1. taken = 0 /\ data = <<>>
      BY <2>1 DEF TypeInv, Shape, ReadSoFar
    <3>. QED BY <3>1, GatherNone
  <2>7. Volume' = Volume
    BY <1>2, <2>1
  <2>. QED BY <1>2, <2>1, <2>5, <2>6, <2>7 DEF ReadSoFar
<1>5. CASE ChainFails /\ pc' = "data"
  <2>1. /\ pc = "chain" /\ Volume.kind = "exfat" /\ EndOfChain \in Volume.noFat
        /\ chain' = <<Volume.root>> /\ UNCHANGED <<medium, part, dir, taken, data>>
    BY <1>5 DEF ChainFails
  <2>2. dir.cluster = Volume.root
    BY <2>1 DEF TypeInv, RootOnly
  <2>3. chain' = <<dir.cluster>>
    BY <2>1, <2>2
  <2>4. /\ Follows(<<dir.cluster>>, Links(Volume, dir.cluster))
        /\ AllReadable(Volume, Links(Volume, dir.cluster), <<dir.cluster>>)
    BY <1>2, <2>1, FirstIsReadable DEF EndOfChain
  <2>5. Gathered(Volume, chain', taken, data)
    <3>1. taken = 0 /\ data = <<>>
      BY <2>1 DEF TypeInv, Shape, ReadSoFar
    <3>. QED BY <3>1, GatherNone
  <2>6. Volume' = Volume
    BY <1>2, <2>1
  <2>. QED BY <1>5, <2>1, <2>3, <2>4, <2>5, <2>6 DEF ReadSoFar
<1>6. CASE ReadCluster
  <2>1. /\ pc = "data" /\ taken < Len(chain) /\ taken' = taken + 1
        /\ UNCHANGED <<medium, part, dir, pc, chain>>
        /\ Volume.kind # "exfat" => taken < MaxData /\ chain[taken + 1] \notin Volume.noData
        /\ data' = IF chain[taken + 1] \in Volume.noData THEN data
                                                         ELSE data \o Volume.data[chain[taken + 1]]
    BY <1>6 DEF ReadCluster
  <2>2. taken \in Nat /\ data \in Seq(Entries) /\ chain \in Seq(Clusters)
    BY DEF TypeInv, TypeOK
  <2>3. Gathered(Volume, chain, taken, data)
    BY <2>1 DEF ReadSoFar
  <2>4. Gathered(Volume, chain, taken + 1, data')
    <3>1. CASE chain[taken + 1] \in Volume.noData
      <4>1. data' = data /\ Volume.kind = "exfat"
        BY <2>1, <3>1
      <4>. QED BY <2>2, <2>3, <3>1, <4>1, GatherNothing
    <3>2. CASE chain[taken + 1] \notin Volume.noData
      <4>1. data' = data \o Volume.data[chain[taken + 1]] /\ (Volume.kind # "exfat" => taken < MaxData)
        BY <2>1, <3>2
      <4>2. Volume \in Volumes
        BY <1>2, <2>1
      <4>3. Gathered(Volume, chain, taken + 1, data \o Volume.data[chain[taken + 1]])
        BY <2>1, <2>2, <2>3, <3>2, <4>1, <4>2, GatherOne
      <4>. QED BY <4>1, <4>3
    <3>. QED BY <3>1, <3>2
  <2>5. Volume' = Volume
    BY <1>2, <2>1
  <2>. QED BY <1>2, <2>1, <2>4, <2>5 DEF ReadSoFar
<1>7. CASE UNCHANGED vars
  <2>1. Volume' = Volume
    BY <1>7 DEF vars, Volume
  <2>. QED BY <1>7, <2>1 DEF vars, ReadSoFar
<1>8. CASE pc' \notin {"chain", "data"}
  BY <1>8 DEF ReadSoFar
<1>9. \/ pc' \notin {"chain", "data"} \/ OpenRoot \/ (Pop /\ pc' = "chain") \/ Follow \/ ChainEnds
      \/ (ChainFails /\ pc' = "data") \/ ReadCluster \/ UNCHANGED vars
  BY DEF Next, Advance, NextVolume, OpenFixed, Finish, ChainFails, DataRead,
         TakeEntry, SkipEntry, EntriesEnd, Pop, VolumeDone, Cancel
<1>. QED BY <1>1, <1>3, <1>4, <1>5, <1>6, <1>7, <1>8, <1>9

\* What a walk reads of a directory is what the medium lists for it, from its first
\* cluster to the limits.
LEMMA ReadIsAlwaysListed == Spec => []ReadIsListed
<1>1. Init => ReadSoFar /\ ReadIsListed
  BY DEF Init, ReadSoFar, ReadIsListed, Reading
<1>2. TypeInv /\ ReadSoFar /\ ReadIsListed /\ [Next]_vars => ReadIsListed'
  <2>. SUFFICES ASSUME TypeInv, ReadSoFar, ReadIsListed, [Next]_vars PROVE ReadIsListed'
    OBVIOUS
  <2>1. medium' = medium
    BY DEF Next, Advance, vars, NextVolume, OpenRoot, OpenFixed, Finish, Follow, ChainEnds, ChainFails,
           ReadCluster, DataRead, TakeEntry, SkipEntry, EntriesEnd, Pop, VolumeDone, Cancel
  <2>2. \A w : ListedIn(w)' = ListedIn(w)
    BY <2>1 DEF ListedIn
  <2>3. CASE OpenFixed
    <3>. DEFINE w == [part |-> part, cluster |-> NoCluster, path |-> <<>>, depth |-> 0,
                      data |-> Volume.fixed]
    <3>1. walked' = walked \cup {w} /\ w.data = Volume.fixed /\ w.part = part /\ w.cluster = NoCluster
      BY <2>3 DEF OpenFixed
    <3>. HIDE DEF w
    <3>2. InFront(w.data) = ListedIn(w)
      BY <3>1 DEF ListedIn, Listed, Volume
    <3>. QED BY <2>2, <3>1, <3>2 DEF ReadIsListed
  <2>4. CASE DataRead
    <3>1. walked' = walked \cup {Current} /\ pc = "data"
      BY <2>4 DEF DataRead, Current
    <3>2. Current.part = part /\ Current.cluster = dir.cluster /\ Current.data = data
      BY DEF Current
    <3>3. Volume \in Volumes /\ dir.cluster \in Clusters /\ taken \in 0 .. Len(chain)
      BY <3>1, VolumeIs DEF TypeInv, TypeOK, Shape, Reading
    <3>4. \/ taken = Len(chain)
          \/ /\ taken < Len(chain) /\ Volume.kind # "exfat"
             /\ taken >= MaxData \/ chain[taken + 1] \in Volume.noData
      BY <2>4 DEF DataRead
    <3>5. /\ Follows(chain, Links(Volume, dir.cluster))
          /\ AllReadable(Volume, Links(Volume, dir.cluster), chain)
          /\ Gathered(Volume, chain, taken, data)
      BY <3>1 DEF ReadSoFar, Reading
    <3>6. InFront(data) = Listed(Volume, dir.cluster)
      BY <3>3, <3>4, <3>5, GatheredIsListed
    <3>7. InFront(Current.data) = ListedIn(Current)
      BY <3>2, <3>6 DEF ListedIn, Volume
    <3>. QED BY <2>2, <3>1, <3>7 DEF ReadIsListed
  <2>5. CASE UNCHANGED walked
    BY <2>2, <2>5 DEF ReadIsListed
  <2>. QED BY <2>3, <2>4, <2>5 DEF Next, Advance, vars, NextVolume, OpenRoot, Finish, Follow, ChainEnds,
              ChainFails, ReadCluster, TakeEntry, SkipEntry, EntriesEnd, Pop, VolumeDone, Cancel
<1>3. TypeInv /\ ReadSoFar /\ [Next]_vars => ReadSoFar'
  BY ReadSoFarStep
<1>. QED BY <1>1, <1>2, <1>3, TypeInvariant, PTL DEF Spec

\* What is known of a directory stays known.
LEMMA KnownStays ==
    ASSUME TypeInv, [Next]_vars
    PROVE  \A n, c : Known(n, c) => Known(n, c)'
<1>. USE DEF Reading
<1>1. walked \subseteq walked' /\ lost \subseteq lost'
  BY DEF Next, Advance, vars, NextVolume, OpenRoot, OpenFixed, Finish, Follow, ChainEnds, ChainFails,
         ReadCluster, DataRead, TakeEntry, SkipEntry, EntriesEnd, Pop, VolumeDone, Cancel
<1>2. ASSUME pc \in {"chain", "data"}
      PROVE  \/ pc' \in {"chain", "data"} /\ UNCHANGED <<part, dir>>
             \/ Current \in walked'
             \/ <<part, dir.cluster>> \in lost'
  BY <1>2 DEF Next, Advance, vars, NextVolume, OpenRoot, OpenFixed, Finish, Follow, ChainEnds, ChainFails,
         ReadCluster, DataRead, TakeEntry, SkipEntry, EntriesEnd, Pop, VolumeDone, Cancel, Current
<1>3. Current.part = part /\ Current.cluster = dir.cluster
  BY DEF Current
<1>. QED BY <1>1, <1>2, <1>3 DEF Known

\* The roots of the volumes up to the one at hand are known.
RootsKnown ==
    /\ \A n \in 1 .. Parts : HasRoot(n) /\ (n < part \/ (n = part /\ InVolume)) => Known(n, RootOf(n))
    /\ pc = "done" => part > Parts

\* No volume is left without a look at its root, unless the walk knows none.
LEMMA RootsAlwaysKnown == Spec => [](pc # "cancelled" => RootsKnown)
<1>. USE DEF InVolume
<1>1. Init => RootsKnown
  <2>. SUFFICES ASSUME Init, NEW n \in 1 .. Parts PROVE ~(n < part \/ (n = part /\ InVolume))
    BY DEF RootsKnown, Init
  <2>. QED BY PartsIs DEF Init
<1>2. TypeInv /\ (pc # "cancelled" => RootsKnown) /\ [Next]_vars => (pc # "cancelled" => RootsKnown)'
  <2>. SUFFICES ASSUME TypeInv, pc # "cancelled" => RootsKnown, [Next]_vars, pc' # "cancelled"
                PROVE  RootsKnown'
    OBVIOUS
  <2>0. pc # "cancelled"
    BY DEF Next, Advance, vars, NextVolume, OpenRoot, OpenFixed, Finish, Follow, ChainEnds, ChainFails,
           ReadCluster, DataRead, TakeEntry, SkipEntry, EntriesEnd, Pop, VolumeDone, Cancel
  <2>1. medium' = medium
    BY DEF Next, Advance, vars, NextVolume, OpenRoot, OpenFixed, Finish, Follow, ChainEnds, ChainFails,
           ReadCluster, DataRead, TakeEntry, SkipEntry, EntriesEnd, Pop, VolumeDone, Cancel
  <2>2. Parts' = Parts /\ \A n : (HasRoot(n)' <=> HasRoot(n)) /\ RootOf(n)' = RootOf(n)
    BY <2>1 DEF Parts, HasRoot, RootOf
  <2>3. \A n, c : Known(n, c) => Known(n, c)'
    BY KnownStays
  <2>4. part \in Nat /\ Parts \in Nat
    BY PartsIs DEF TypeInv, TypeOK
  <2>5. ASSUME NEW n \in 1 .. Parts, HasRoot(n), n < part \/ (n = part /\ InVolume)
        PROVE  Known(n, RootOf(n))'
    <3>1. PICK r : r = RootOf(n)
      OBVIOUS
    <3>2. Known(n, r)
      BY <2>0, <2>5, <3>1 DEF RootsKnown
    <3>3. Known(n, r)'
      BY <2>3, <3>2
    <3>4. r = RootOf(n)'
      BY <2>2, <3>1
    <3>. QED BY <3>3, <3>4 DEF Known
  <2>6. CASE NextVolume
    <3>1. ~HasRoot(part) /\ part' = part + 1 /\ pc' = "open"
      <4>1. Volume = VolumesOf[medium][part]
        BY DEF Volume
      <4>. QED BY <2>6, <4>1 DEF NextVolume, HasRoot, RootOf
    <3>2. ASSUME NEW n \in 1 .. Parts, HasRoot(n), n < part + 1 PROVE Known(n, RootOf(n))'
      <4>1. n < part
        BY <2>4, <3>1, <3>2
      <4>. QED BY <2>5, <3>2, <4>1
    <3>3. \A n \in 1 .. Parts : HasRoot(n) /\ n < part + 1 => Known(n, RootOf(n))'
      BY <3>2
    <3>. QED BY <2>2, <2>4, <3>1, <3>3 DEF RootsKnown, Known
  <2>7. CASE OpenRoot \/ OpenFixed
    <3>1. Known(part, RootOf(part))'
      <4>1. CASE OpenRoot
        <5>1. RootOf(part) = Volume.root /\ dir'.cluster = Volume.root /\ pc' = "chain" /\ part' = part
          BY <4>1 DEF OpenRoot, RootOf, Volume, Root
        <5>. QED BY <2>2, <5>1 DEF Known, Reading
      <4>2. CASE OpenFixed
        <5>. DEFINE w == [part |-> part, cluster |-> NoCluster, path |-> <<>>, depth |-> 0,
                          data |-> Volume.fixed]
        <5>1. RootOf(part) = NoCluster /\ w \in walked' /\ w.part = part /\ w.cluster = NoCluster
          BY <4>2 DEF OpenFixed, RootOf, Volume
        <5>2. part' = part
          BY <4>2 DEF OpenFixed
        <5>. HIDE DEF w
        <5>. QED BY <2>2, <5>1, <5>2 DEF Known
      <4>. QED BY <2>7, <4>1, <4>2
    <3>2. part' = part /\ pc' # "done"
      BY <2>7 DEF OpenRoot, OpenFixed
    <3>3. \A n \in 1 .. Parts : HasRoot(n) /\ (n < part \/ n = part) => Known(n, RootOf(n))'
      BY <2>5, <3>1, <3>2
    <3>. QED BY <2>2, <3>2, <3>3 DEF RootsKnown, Known
  <2>8. CASE VolumeDone
    <3>1. part' = part + 1 /\ InVolume /\ pc' = "open"
      BY <2>8 DEF VolumeDone
    <3>2. \A n \in 1 .. Parts : n < part + 1 => n < part \/ n = part
      BY <2>4
    <3>3. \A n \in 1 .. Parts : HasRoot(n) /\ n < part + 1 => Known(n, RootOf(n))'
      BY <2>5, <3>1, <3>2
    <3>. QED BY <2>2, <3>1, <3>3 DEF RootsKnown, Known
  <2>9. CASE part' = part /\ (InVolume' => InVolume) /\ (pc' = "done" => pc = "done" \/ Finish)
    <3>1. pc' = "done" => part' > Parts'
      BY <2>0, <2>2, <2>9 DEF RootsKnown, Finish
    <3>. QED BY <2>2, <2>5, <2>9, <3>1 DEF RootsKnown, Known
  <2>. QED BY <2>6, <2>7, <2>8, <2>9 DEF Next, Advance, vars, Finish, Follow, ChainEnds,
              ChainFails, ReadCluster, DataRead, TakeEntry, SkipEntry, EntriesEnd, Pop, Cancel
<1>. QED BY <1>1, <1>2, TypeInvariant, PTL DEF Spec

\* When the walk is done the roots have been walked, and all that the medium lists for
\* a directory walked was discovered.
THEOREM NothingEverForgotten == Spec => []NothingIsForgotten
<1>1. /\ TypeInv /\ ReadIsFound /\ ReadIsListed /\ (pc # "cancelled" => RootsKnown)
      => NothingIsForgotten
  <2>. SUFFICES ASSUME TypeInv, ReadIsFound, ReadIsListed, RootsKnown, pc = "done"
                PROVE  NothingIsForgotten
    BY DEF NothingIsForgotten
  <2>1. ASSUME NEW n \in 1 .. Parts, HasRoot(n)
        PROVE  IsWalked(n, RootOf(n)) \/ <<n, RootOf(n)>> \in lost
    <3>1. part > Parts
      BY DEF RootsKnown
    <3>2. n < part
      BY <3>1, PartsIs DEF TypeInv, TypeOK
    <3>3. Known(n, RootOf(n))
      BY <2>1, <3>2 DEF RootsKnown
    <3>. QED BY <3>3 DEF Known, Reading, IsWalked
  <2>2. ASSUME NEW w \in walked, NEW e \in ListedIn(w)
        PROVE  /\ IsFound(File(w.part, w.path, e))
               /\ \/ e.kind = "file" \/ e.cluster = NoCluster
                  \/ w.depth = MaxDepth \/ VolumesOf[medium][w.part].kind = "exfat"
                  \/ IsWalked(w.part, e.cluster)
                  \/ <<w.part, e.cluster>> \in lost
    <3>1. e \in InFront(w.data)
      BY DEF ReadIsListed
    <3>2. PICK i \in Visible(w.data) : e = w.data[i]
      BY <3>1 DEF InFront
    <3>. QED BY <3>2 DEF ReadIsFound
  <2>. QED BY <2>1, <2>2 DEF NothingIsForgotten
<1>. QED BY <1>1, TypeInvariant, ReadIsAlwaysFound, ReadIsAlwaysListed, RootsAlwaysKnown, PTL

\* Nothing is discovered but what the medium lists for a directory walked.
THEOREM NothingEverMadeUp == Spec => []NothingIsMadeUp
<1>1. FoundWasRead /\ ReadIsListed => NothingIsMadeUp
  <2>. SUFFICES ASSUME FoundWasRead, ReadIsListed, NEW k \in 1 .. Len(found)
                PROVE  found[k] \in UNION {{File(w.part, w.path, e) : e \in ListedIn(w)} : w \in walked}
    BY DEF NothingIsMadeUp
  <2>1. PICK w \in walked : \E i \in Visible(w.data) : found[k] = File(w.part, w.path, w.data[i])
    BY DEF FoundWasRead
  <2>2. PICK i \in Visible(w.data) : found[k] = File(w.part, w.path, w.data[i])
    BY <2>1
  <2>3. w.data[i] \in ListedIn(w)
    <3>1. w.data[i] \in InFront(w.data)
      BY DEF InFront
    <3>. QED BY <3>1 DEF ReadIsListed
  <2>4. found[k] \in {File(w.part, w.path, e) : e \in ListedIn(w)}
    BY <2>2, <2>3
  <2>. QED BY <2>4
<1>. QED BY <1>1, FoundWasAlwaysRead, ReadIsAlwaysListed, PTL

\* What is discovered is what the directories within reach list on the medium: a walk
\* that left out a cluster, a link or a directory would not do.
THEOREM FoundAlwaysExact == Spec => []FoundIsExact
<1>1. NothingIsForgotten /\ NothingIsMadeUp => FoundIsExact
  BY DEF FoundIsExact
<1>. QED BY <1>1, NothingEverForgotten, NothingEverMadeUp, PTL

-----------------------------------------------------------------------------
(***************************************************************************)
(* Paths.                                                                  *)
(***************************************************************************)

\* Sequences put one after the other are a sequence of the same kind.
LEMMA FlattenIs ==
    ASSUME NEW S, NEW seqs \in Seq(Seq(S))
    PROVE  FlattenSeq(seqs) \in Seq(S)
<1>. DEFINE max == Len(seqs)
            V == Seq(S)
            Steps(f, m) == \A i \in 1 .. m : f[i] = IF i = 1 THEN seqs[i] ELSE f[i - 1] \o seqs[i]
            G == CHOOSE f : f = [i \in 1 .. Len(seqs) |-> IF i = 1 THEN seqs[i] ELSE f[i - 1] \o seqs[i]]
<1>1. CASE Len(seqs) = 0
  <2>1. FlattenSeq(seqs) = seqs /\ seqs = <<>>
    BY <1>1 DEF FlattenSeq
  <2>. QED BY <2>1
<1>2. CASE Len(seqs) # 0
  <2>1. max \in Nat \ {0}
    BY <1>2
  <2>2. \A i \in 1 .. max : seqs[i] \in V
    OBVIOUS
  <2>3. \A s, t \in V : s \o t \in V
    BY ConcatProperties
  <2>4. \E h \in [1 .. max -> V] : Steps(h, max)
    <3>. DEFINE Made(m) == \E h \in [1 .. m -> V] : Steps(h, m)
                T == {m \in Nat : m <= max => Made(m)}
    <3>. HIDE DEF V, max
    <3>1. 0 \in T
      <4>1. [i \in 1 .. 0 |-> <<>>] \in [1 .. 0 -> V] /\ Steps([i \in 1 .. 0 |-> <<>>], 0)
        OBVIOUS
      <4>. QED BY <4>1
    <3>2. ASSUME NEW m \in Nat, m \in T, m < max PROVE m + 1 \in T
      <4>1. PICK h \in [1 .. m -> V] : Steps(h, m)
        BY <2>1, <3>2
      <4>. DEFINE last == IF m + 1 = 1 THEN seqs[m + 1] ELSE h[m] \o seqs[m + 1]
                  g == [i \in 1 .. m + 1 |-> IF i = m + 1 THEN last ELSE h[i]]
      <4>2. last \in V
        <5>1. seqs[m + 1] \in V /\ (m + 1 # 1 => h[m] \in V)
          BY <2>1, <2>2, <3>2
        <5>. QED BY <2>3, <5>1
      <4>3. g[m + 1] = last /\ \A i \in 1 .. m : g[i] = h[i]
        <5>. HIDE DEF last
        <5>1. m + 1 \in 1 .. m + 1 /\ \A i \in 1 .. m : i \in 1 .. m + 1 /\ i # m + 1
          OBVIOUS
        <5>. QED BY <5>1
      <4>4. g \in [1 .. m + 1 -> V]
        <5>. HIDE DEF last
        <5>1. \A i \in 1 .. m + 1 : i = m + 1 \/ i \in 1 .. m
          OBVIOUS
        <5>. QED BY <4>2, <5>1
      <4>. HIDE DEF g
      <4>5. Steps(g, m + 1)
        <5>1. \A i \in 1 .. m + 1 : i = m + 1 \/ (i \in 1 .. m /\ (i # 1 => i - 1 \in 1 .. m))
          OBVIOUS
        <5>2. m + 1 # 1 => g[(m + 1) - 1] = h[m]
          <6>1. m + 1 # 1 => m \in 1 .. m /\ (m + 1) - 1 = m
            OBVIOUS
          <6>. QED BY <4>3, <6>1
        <5>3. g[m + 1] = IF m + 1 = 1 THEN seqs[m + 1] ELSE g[(m + 1) - 1] \o seqs[m + 1]
          BY <4>3, <5>2
        <5>4. \A i \in 1 .. m : g[i] = IF i = 1 THEN seqs[i] ELSE g[i - 1] \o seqs[i]
          <6>1. \A i \in 1 .. m : g[i] = h[i] /\ (i # 1 => g[i - 1] = h[i - 1])
            <7>1. \A i \in 1 .. m : i # 1 => i - 1 \in 1 .. m
              OBVIOUS
            <7>. QED BY <4>3, <7>1
          <6>2. \A i \in 1 .. m : h[i] = IF i = 1 THEN seqs[i] ELSE h[i - 1] \o seqs[i]
            BY <4>1
          <6>. QED BY <6>1, <6>2
        <5>. QED BY <5>1, <5>3, <5>4
      <4>6. Made(m + 1)
        BY <4>4, <4>5
      <4>. HIDE DEF Made
      <4>. QED BY <4>6
    <3>3. \A m \in Nat : m \in T /\ m < max => m + 1 \in T
      BY <3>2
    <3>. HIDE DEF T
    <3>4. max \in Nat /\ max \in 0 .. max
      BY <2>1
    <3>5. max \in T
      BY <3>1, <3>3, <3>4, Induction
    <3>. QED BY <3>4, <3>5 DEF T
  <2>5. PICK h \in [1 .. max -> V] : Steps(h, max)
    BY <2>4
  <2>6. h = [i \in 1 .. Len(seqs) |-> IF i = 1 THEN seqs[i] ELSE h[i - 1] \o seqs[i]]
    BY <2>5
  <2>7. G = [i \in 1 .. Len(seqs) |-> IF i = 1 THEN seqs[i] ELSE G[i - 1] \o seqs[i]]
    BY <2>6
  <2>8. FlattenSeq(seqs) = G[Len(seqs)]
    BY <1>2 DEF FlattenSeq
  <2>. HIDE DEF G
  <2>9. G[max] \in V
    <3>. DEFINE T == {m \in Nat : m = 0 \/ G[m] \in V}
    <3>1. 0 \in T
      OBVIOUS
    <3>2. ASSUME NEW m \in Nat, m = 0 \/ G[m] \in V, m < max PROVE G[m + 1] \in V
      <4>1. m + 1 \in 1 .. max /\ (m + 1 # 1 => m # 0) /\ (m + 1) - 1 = m
        BY <2>1, <3>2
      <4>2. G[m + 1] = IF m + 1 = 1 THEN seqs[m + 1] ELSE G[(m + 1) - 1] \o seqs[m + 1]
        BY <2>7, <4>1
      <4>. HIDE DEF V, max
      <4>3. CASE m + 1 = 1
        BY <2>2, <4>1, <4>2, <4>3
      <4>4. CASE m + 1 # 1
        <5>1. G[m] \in V /\ seqs[m + 1] \in V
          BY <2>2, <3>2, <4>1, <4>4
        <5>. QED BY <2>3, <4>1, <4>2, <4>4, <5>1
      <4>. QED BY <4>3, <4>4
    <3>3. \A m \in Nat : m \in T /\ m < max => m + 1 \in T
      BY <3>2
    <3>. HIDE DEF T, V, max
    <3>4. max \in Nat /\ max # 0 /\ max \in 0 .. max
      BY <2>1
    <3>5. max \in T
      BY <3>1, <3>3, <3>4, Induction
    <3>. QED BY <3>4, <3>5 DEF T
  <2>. QED BY <2>8, <2>9
<1>. QED BY <1>1, <1>2

\* What a path of the medium comes to.
LEMMA CleanPathIs ==
    ASSUME NEW path \in Seq(Names)
    PROVE  CleanPath(path) \in Seq(CleanNames \cup {DotDot})
<1>. DEFINE S == CleanNames \cup {DotDot}
            seqs == [i \in DOMAIN path |-> Sanitized(path[i])]
<1>1. DOMAIN path = 1 .. Len(path) /\ Len(path) \in Nat /\ \A i \in 1 .. Len(path) : path[i] \in Names
  OBVIOUS
<1>2. \A i \in 1 .. Len(path) : Sanitized(path[i]) \in Seq(S)
  BY <1>1, SegmentsAssumption DEF Sanitized
<1>. HIDE DEF S
<1>3. seqs \in [1 .. Len(path) -> Seq(S)]
  BY <1>1, <1>2
<1>4. seqs \in Seq(Seq(S))
  <2>. HIDE DEF seqs
  <2>. QED BY <1>1, <1>3
<1>. HIDE DEF seqs
<1>5. FlattenSeq(seqs) \in Seq(S)
  BY <1>4, FlattenIs
<1>. QED BY <1>5 DEF CleanPath, seqs, S

\* A path that is not refused is one below the staging directory.
LEMMA TargetIs ==
    ASSUME found \in Seq(Founds), turn \in DOMAIN found, ~Refused
    PROVE  Target \in Seq(CleanNames) \ {<<>>}
<1>1. Entry.path \in Seq(Names)
  <2>1. Entry \in Founds
    BY DEF Entry
  <2>. QED BY <2>1 DEF Founds
<1>2. Target \in Seq(CleanNames \cup {DotDot})
  BY <1>1, CleanPathIs DEF Target
<1>3. Target # <<>> /\ \A i \in DOMAIN Target : Target[i] # DotDot
  BY DEF Refused
<1>. HIDE DEF Target
<1>4. \A i \in 1 .. Len(Target) : Target[i] \in CleanNames
  BY <1>2, <1>3
<1>. QED BY <1>2, <1>3, <1>4

\* The directories a path leads through are paths as well, and so are theirs.
LEMMA AncestorsAre ==
    ASSUME NEW S, NEW t \in Seq(S), NEW a \in Ancestors(t)
    PROVE  /\ a \in Seq(S) \ {<<>>} /\ Len(a) < Len(t)
           /\ Ancestors(a) \subseteq Ancestors(t)
<1>1. PICK n \in 1 .. Len(t) - 1 : a = SubSeq(t, 1, n)
  BY DEF Ancestors
<1>2. n \in Nat /\ 1 <= n /\ n < Len(t) /\ Len(t) \in Nat
  BY <1>1
<1>3. a \in Seq(S) /\ Len(a) = n /\ \A i \in 1 .. n : a[i] = t[i]
  BY <1>1, <1>2
<1>4. ASSUME NEW m \in 1 .. n - 1 PROVE SubSeq(a, 1, m) = SubSeq(t, 1, m)
  <2>1. m \in Nat /\ 1 <= m /\ m < n
    BY <1>2, <1>4
  <2>2. SubSeq(a, 1, m) = [i \in 1 .. m |-> a[i]] /\ SubSeq(t, 1, m) = [i \in 1 .. m |-> t[i]]
    BY <1>2, <1>3, <2>1
  <2>3. \A i \in 1 .. m : a[i] = t[i]
    BY <1>2, <1>3, <2>1
  <2>. QED BY <2>2, <2>3
<1>5. Ancestors(a) \subseteq Ancestors(t)
  <2>1. \A m \in 1 .. n - 1 : m \in 1 .. Len(t) - 1
    BY <1>2
  <2>. QED BY <1>3, <1>4, <2>1 DEF Ancestors
<1>. QED BY <1>2, <1>3, <1>5

-----------------------------------------------------------------------------
(***************************************************************************)
(* The staging directory.                                                  *)
(***************************************************************************)

\* Making a path with the directories it leads through leaves a tree, in which nothing
\* lies below it.
LEMMA TreeGrows ==
    ASSUME IsTree(staging), NEW t \in Seq(CleanNames) \ {<<>>}, MayMake(Ancestors(t)),
           t \in DOMAIN staging => staging[t].type = "file"
    PROVE  LET made == Making(Ancestors(t) \cup {t}) IN
             /\ IsTree(made) /\ DOMAIN made = DOMAIN staging \cup Ancestors(t) \cup {t}
             /\ \A p \in DOMAIN staging : made[p] = staging[p]
             /\ \A p \in DOMAIN made : t \notin Ancestors(p)
<1>. DEFINE paths == Ancestors(t) \cup {t}
            made == Making(paths)
<1>1. /\ staging \in [DOMAIN staging -> Nodes] /\ Directory \in Nodes /\ Directory.type = "dir"
      /\ \A p \in DOMAIN staging :
           /\ p \in Seq(CleanNames) \ {<<>>}
           /\ \A a \in Ancestors(p) : a \in DOMAIN staging /\ staging[a].type = "dir"
  BY DEF IsTree, Directory, Nodes
<1>2. \A a \in Ancestors(t) : /\ a \in Seq(CleanNames) \ {<<>>} /\ Len(a) < Len(t)
                              /\ Ancestors(a) \subseteq Ancestors(t)
                              /\ a \in DOMAIN staging => staging[a].type = "dir"
  BY AncestorsAre DEF MayMake
<1>3. /\ DOMAIN made = DOMAIN staging \cup paths
      /\ \A p \in DOMAIN staging : made[p] = staging[p]
      /\ \A p \in paths : p \notin DOMAIN staging => made[p] = Directory
      /\ made = [p \in DOMAIN made |-> made[p]]
  BY DEF Making
<1>. HIDE DEF made
<1>4. \A a \in Ancestors(t) : a \in DOMAIN made /\ made[a].type = "dir"
  <2>. SUFFICES ASSUME NEW a \in Ancestors(t) PROVE a \in DOMAIN made /\ made[a].type = "dir"
    OBVIOUS
  <2>1. CASE a \in DOMAIN staging
    BY <1>2, <1>3, <2>1
  <2>2. CASE a \notin DOMAIN staging
    BY <1>1, <1>3, <2>2
  <2>. QED BY <2>1, <2>2
<1>5. ASSUME NEW p \in DOMAIN made
      PROVE  /\ p \in Seq(CleanNames) \ {<<>>} /\ made[p] \in Nodes
             /\ \A a \in Ancestors(p) : a \in DOMAIN made /\ made[a].type = "dir"
             /\ t \notin Ancestors(p)
  <2>1. CASE p \in DOMAIN staging
    <3>1. \A a \in Ancestors(p) : a \in DOMAIN made /\ made[a].type = "dir"
      BY <1>1, <1>3, <2>1
    <3>2. t \notin Ancestors(p)
      BY <1>1, <2>1
    <3>. QED BY <1>1, <1>3, <2>1, <3>1, <3>2
  <2>2. CASE p \notin DOMAIN staging
    <3>1. p \in paths /\ made[p] \in Nodes
      BY <1>1, <1>3, <2>2
    <3>2. Ancestors(p) \subseteq Ancestors(t) /\ p \in Seq(CleanNames) \ {<<>>}
      BY <1>2, <3>1
    <3>3. \A a \in Ancestors(p) : Len(a) < Len(t)
      BY <1>2, <3>2
    <3>4. t \notin Ancestors(p)
      <4>1. Len(t) \in Nat
        OBVIOUS
      <4>2. ~ (Len(t) < Len(t))
        BY <4>1
      <4>. QED BY <3>3, <4>2
    <3>. QED BY <1>4, <3>1, <3>2, <3>4
  <2>. QED BY <2>1, <2>2
<1>6. IsTree(made)
  <2>1. made \in [DOMAIN made -> Nodes]
    BY <1>3, <1>5
  <2>. QED BY <1>5, <2>1 DEF IsTree
<1>. QED BY <1>3, <1>5, <1>6 DEF made

\* Writing at a path that nothing lies below leaves a tree.
LEMMA TreeStays ==
    ASSUME NEW tree, IsTree(tree), NEW t \in DOMAIN tree, NEW node \in Nodes,
           \A p \in DOMAIN tree : t \notin Ancestors(p)
    PROVE  /\ IsTree([tree EXCEPT ![t] = node])
           /\ DOMAIN [tree EXCEPT ![t] = node] = DOMAIN tree
           /\ \A p \in DOMAIN tree : p # t => [tree EXCEPT ![t] = node][p] = tree[p]
           /\ [tree EXCEPT ![t] = node][t] = node
<1>. DEFINE new == [tree EXCEPT ![t] = node]
<1>1. /\ new \in [DOMAIN tree -> Nodes] /\ DOMAIN new = DOMAIN tree /\ new[t] = node
      /\ \A p \in DOMAIN tree : p # t => new[p] = tree[p]
  BY DEF IsTree
<1>. HIDE DEF new
<1>2. \A p \in DOMAIN new : /\ p \in Seq(CleanNames) \ {<<>>}
                            /\ \A a \in Ancestors(p) : a \in DOMAIN new /\ new[a].type = "dir"
  <2>. SUFFICES ASSUME NEW p \in DOMAIN tree
                PROVE  /\ p \in Seq(CleanNames) \ {<<>>}
                       /\ \A a \in Ancestors(p) : a \in DOMAIN tree /\ new[a].type = "dir"
    BY <1>1
  <2>1. /\ p \in Seq(CleanNames) \ {<<>>}
        /\ \A a \in Ancestors(p) : a \in DOMAIN tree /\ tree[a].type = "dir" /\ a # t
    BY DEF IsTree
  <2>. QED BY <1>1, <2>1
<1>3. IsTree(new)
  BY <1>1, <1>2 DEF IsTree
<1>. QED BY <1>1, <1>3 DEF new

\* Nothing lies below a file.
LEMMA NothingBelow ==
    ASSUME NEW tree, IsTree(tree), NEW t \in DOMAIN tree, tree[t].type = "file"
    PROVE  \A p \in DOMAIN tree : t \notin Ancestors(p)
BY DEF IsTree

\* What is read of a file are blocks of its volume, and as many are written as were read.
LEMMA BlocksAre ==
    ASSUME NEW f \in Founds
    PROVE  /\ ReadBlocks(f) \in Seq(Blocks) /\ FileOf(ReadBlocks(f)) \in Nodes /\ FileOf(<<>>) \in Nodes
           /\ \A n \in 0 .. Len(ReadBlocks(f)) : FileOf(SubSeq(ReadBlocks(f), 1, n)) \in Nodes
           /\ \A content : FileOf(content).type = "file"
<1>1. f.part \in Nat \ {0} /\ f.cluster \in Nat /\ f.size \in Nat
  <2>1. f.part \in Nat \ {0} /\ f.cluster \in Clusters \cup {NoCluster} /\ f.size \in Nat
    BY DEF Founds
  <2>2. Clusters \cup {NoCluster} \subseteq Nat
    BY ClustersAssumption DEF NoCluster
  <2>. QED BY <2>1, <2>2
<1>2. ReadBlocks(f) \in Seq(Blocks)
  <2>1. <<>> \in Seq(Blocks)
    OBVIOUS
  <2>2. [i \in 1 .. f.size |-> <<f.part, f.cluster + i - 1>>] \in Seq(Blocks)
    <3>1. \A i \in 1 .. f.size : f.cluster + i - 1 \in Nat
      BY <1>1
    <3>2. \A i \in 1 .. f.size : <<f.part, f.cluster + i - 1>> \in Blocks
      BY <1>1, <3>1 DEF Blocks
    <3>. QED BY <1>1, <3>2
  <2>. QED BY <2>1, <2>2 DEF ReadBlocks
<1>3. \A content \in Seq(Blocks) : FileOf(content) \in Nodes
  BY DEF FileOf, Nodes
<1>4. \A n \in 0 .. Len(ReadBlocks(f)) : SubSeq(ReadBlocks(f), 1, n) \in Seq(Blocks)
  BY <1>2
<1>5. <<>> \in Seq(Blocks) /\ \A content : FileOf(content).type = "file"
  BY DEF FileOf
<1>. QED BY <1>2, <1>3, <1>4, <1>5

-----------------------------------------------------------------------------
(***************************************************************************)
(* The release: type correctness.                                          *)
(***************************************************************************)

\* Nothing is copied before the walk is done; what is copied is a file that was made.
ReleaseShape ==
    /\ rpc \in {"start", "browse", "walk"} => turn = 1
    /\ rpc = "copy" => /\ turn <= Len(found) /\ Entry.kind = "file" /\ ~Refused
                       /\ Target \in DOMAIN staging /\ staging[Target].type = "file"
    /\ rpc = "ok" => turn > Len(found)

ReleaseInv == TypeInv /\ ReleaseTypeOK /\ ReleaseShape

\* The release leaves the walk alone, or goes on with it.
LEMMA WalkSteps ==
    ASSUME [ReleaseNext]_allVars
    PROVE  /\ [Next]_vars
           /\ vars' = vars \/ (rpc \in {"walk", "browse"} /\ Next /\ UNCHANGED releaseVars)
BY DEF ReleaseNext, allVars, releaseVars, Prepare, Walk, CancelBrowsing, StartCopying, RefusePath,
       MakeDirectory, CreateFile, Copy, CopyFails, MakingFails, Report, Next

\* The walk behind a release is one that DirWalk specifies.
THEOREM ReleaseWalks == ReleaseSpec => Spec
<1>1. ReleaseInit => Init
  BY DEF ReleaseInit
<1>2. [ReleaseNext]_allVars => [Next]_vars
  BY WalkSteps
<1>. QED BY <1>1, <1>2, PTL DEF ReleaseSpec, Spec

\* What the file and the directory at hand are.
LEMMA EntryAtHand ==
    ASSUME TypeInv, ReleaseTypeOK, turn <= Len(found)
    PROVE  /\ turn \in DOMAIN found /\ Entry \in Founds /\ turn + 1 \in 1 .. Len(found) + 1
           /\ ~Refused => Target \in Seq(CleanNames) \ {<<>>}
<1>1. /\ found \in Seq(Founds) /\ turn \in 1 .. Len(found) + 1 /\ Len(found) \in Nat
  BY DEF TypeInv, TypeOK, ReleaseTypeOK
<1>2. turn \in 1 .. Len(found) /\ turn + 1 \in 1 .. Len(found) + 1
  BY <1>1
<1>3. turn \in DOMAIN found /\ Entry \in Founds
  BY <1>1, <1>2 DEF Entry
<1>. QED BY <1>1, <1>2, <1>3, TargetIs

\* Making a directory, making a file and writing one keep the staging directory a
\* tree, and change nothing in it but the file at the target.
LEMMA StagingStep ==
    ASSUME TypeInv, ReleaseTypeOK, ReleaseShape, MakeDirectory \/ CreateFile \/ Copy \/ CopyFails
    PROVE  /\ IsTree(staging') /\ DOMAIN staging \subseteq DOMAIN staging' /\ Target \in DOMAIN staging'
           /\ \A p \in DOMAIN staging : staging'[p] = staging[p] \/ (p = Target /\ ~MakeDirectory)
           /\ ~MakeDirectory => /\ Entry.kind = "file" /\ staging'[Target].type = "file"
                                /\ Target \in DOMAIN staging => staging[Target].type = "file"
           /\ Copy => staging'[Target] = FileOf(ReadBlocks(Entry))
           /\ turn <= Len(found) /\ ~Refused
<1>. DEFINE t == Target
            made == Making(Ancestors(t) \cup {t})
<1>1. turn <= Len(found) /\ ~Refused
  BY DEF MakeDirectory, CreateFile, Copy, CopyFails, InTurn, ReleaseShape
<1>2. Entry \in Founds /\ t \in Seq(CleanNames) \ {<<>>} /\ IsTree(staging)
  BY <1>1, EntryAtHand DEF ReleaseTypeOK
<1>. HIDE DEF t
<1>3. CASE MakeDirectory
  <2>1. CASE t \in DOMAIN staging
    <3>1. staging' = staging
      BY <1>3, <2>1 DEF MakeDirectory, t
    <3>. QED BY <1>1, <1>2, <1>3, <2>1, <3>1 DEF Copy, MakeDirectory, InTurn, t
  <2>2. CASE t \notin DOMAIN staging
    <3>1. MayMake(Ancestors(t)) /\ staging' = made
      BY <1>3, <2>2 DEF MakeDirectory, t
    <3>2. /\ IsTree(made) /\ DOMAIN made = DOMAIN staging \cup Ancestors(t) \cup {t}
          /\ \A p \in DOMAIN staging : made[p] = staging[p]
      BY <1>2, <2>2, <3>1, TreeGrows
    <3>. HIDE DEF made
    <3>. QED BY <1>1, <1>2, <1>3, <3>1, <3>2 DEF Copy, MakeDirectory, InTurn, t
  <2>. QED BY <2>1, <2>2
<1>4. ASSUME ~MakeDirectory, NEW tree, IsTree(tree), t \in DOMAIN tree, DOMAIN staging \subseteq DOMAIN tree,
             \A p \in DOMAIN staging : tree[p] = staging[p],
             \A p \in DOMAIN tree : t \notin Ancestors(p),
             t \in DOMAIN staging => staging[t].type = "file",
             Entry.kind = "file", NEW node \in Nodes, node.type = "file",
             staging' = [tree EXCEPT ![t] = node], Copy => node = FileOf(ReadBlocks(Entry))
      PROVE  /\ IsTree(staging') /\ DOMAIN staging \subseteq DOMAIN staging' /\ t \in DOMAIN staging'
             /\ \A p \in DOMAIN staging : staging'[p] = staging[p] \/ p = t
             /\ staging'[t].type = "file" /\ (t \in DOMAIN staging => staging[t].type = "file")
             /\ Copy => staging'[t] = FileOf(ReadBlocks(Entry))
  <2>1. /\ IsTree(staging') /\ DOMAIN staging' = DOMAIN tree /\ staging'[t] = node
        /\ \A p \in DOMAIN tree : p # t => staging'[p] = tree[p]
    BY <1>4, TreeStays
  <2>. QED BY <1>4, <2>1
<1>5. CASE CreateFile
  <2>1. /\ MayMake(Ancestors(t)) /\ (t \in DOMAIN staging => staging[t].type = "file")
        /\ staging' = [made EXCEPT ![t] = FileOf(<<>>)] /\ Entry.kind = "file" /\ ~MakeDirectory /\ ~Copy
    BY <1>5 DEF CreateFile, MakeDirectory, Copy, InTurn, t
  <2>2. /\ IsTree(made) /\ DOMAIN made = DOMAIN staging \cup Ancestors(t) \cup {t}
        /\ \A p \in DOMAIN staging : made[p] = staging[p]
        /\ \A p \in DOMAIN made : t \notin Ancestors(p)
    BY <1>2, <2>1, TreeGrows
  <2>3. FileOf(<<>>) \in Nodes /\ FileOf(<<>>).type = "file"
    BY <1>2, BlocksAre
  <2>4. t \in DOMAIN made /\ DOMAIN staging \subseteq DOMAIN made
    BY <2>2
  <2>. HIDE DEF made
  <2>. QED BY <1>1, <1>4, <2>1, <2>2, <2>3, <2>4 DEF t
<1>6. ASSUME ~MakeDirectory, rpc = "copy", NEW node \in Nodes, node.type = "file",
             staging' = [staging EXCEPT ![t] = node], Copy => node = FileOf(ReadBlocks(Entry))
      PROVE  /\ IsTree(staging') /\ DOMAIN staging \subseteq DOMAIN staging' /\ t \in DOMAIN staging'
             /\ \A p \in DOMAIN staging : staging'[p] = staging[p] \/ p = t
             /\ staging'[t].type = "file" /\ (t \in DOMAIN staging => staging[t].type = "file")
             /\ Copy => staging'[t] = FileOf(ReadBlocks(Entry))
             /\ Entry.kind = "file"
  <2>1. t \in DOMAIN staging /\ staging[t].type = "file" /\ Entry.kind = "file"
    BY <1>6 DEF ReleaseShape, t
  <2>2. \A p \in DOMAIN staging : t \notin Ancestors(p)
    BY <1>2, <2>1, NothingBelow
  <2>. QED BY <1>2, <1>4, <1>6, <2>1, <2>2
<1>7. CASE Copy
  <2>1. rpc = "copy" /\ staging' = [staging EXCEPT ![t] = FileOf(ReadBlocks(Entry))] /\ ~MakeDirectory
    BY <1>7 DEF Copy, MakeDirectory, InTurn, t
  <2>2. FileOf(ReadBlocks(Entry)) \in Nodes /\ FileOf(ReadBlocks(Entry)).type = "file"
    BY <1>2, BlocksAre
  <2>. QED BY <1>1, <1>6, <2>1, <2>2 DEF t
<1>8. CASE CopyFails
  <2>1. rpc = "copy" /\ ~MakeDirectory /\ ~Copy
    BY <1>8 DEF CopyFails, MakeDirectory, InTurn, Copy
  <2>2. PICK n \in 0 .. Len(ReadBlocks(Entry)) :
          staging' = [staging EXCEPT ![t] = FileOf(SubSeq(ReadBlocks(Entry), 1, n))]
    BY <1>8 DEF CopyFails, t
  <2>3. FileOf(SubSeq(ReadBlocks(Entry), 1, n)) \in Nodes /\ FileOf(SubSeq(ReadBlocks(Entry), 1, n)).type = "file"
    BY <1>2, BlocksAre
  <2>. QED BY <1>1, <1>6, <2>1, <2>2, <2>3 DEF t
<1>. QED BY <1>3, <1>5, <1>7, <1>8

\* What a step of the release does besides the walk and the staging directory.
LEMMA ReleaseSteps ==
    ASSUME [ReleaseNext]_allVars
    PROVE  \/ rpc \in {"walk", "browse"} /\ Next /\ UNCHANGED releaseVars
           \/ /\ vars' = vars /\ UNCHANGED <<before, staging>>
              /\ \/ rpc = "start" /\ rpc' \in {"walk", "failed"} /\ turn' = turn
                 \/ rpc = "walk" /\ pc = "done" /\ rpc' = "files" /\ turn' = turn
                 \/ rpc = "files" /\ rpc' = "failed" /\ turn' = turn
                 \/ rpc = "files" /\ rpc' = "ok" /\ turn' = turn /\ turn > Len(found)
                 \/ rpc' = rpc /\ turn' = turn
           \/ /\ vars' = vars /\ before' = before
              /\ \/ MakeDirectory /\ rpc = "files" /\ rpc' = "files" /\ turn' = turn + 1 /\ Entry.kind = "dir"
                 \/ CreateFile /\ rpc = "files" /\ rpc' = "copy" /\ turn' = turn
                 \/ Copy /\ rpc = "copy" /\ rpc' = "files" /\ turn' = turn + 1
                 \/ CopyFails /\ rpc = "copy" /\ rpc' = "failed" /\ turn' = turn
BY DEF ReleaseNext, allVars, releaseVars, Prepare, Walk, CancelBrowsing, StartCopying, RefusePath,
       MakeDirectory, CreateFile, Copy, CopyFails, MakingFails, Report, Next, InTurn

\* What stands for the entry at hand while the walk is left alone.
LEMMA SameWalk ==
    ASSUME vars' = vars
    PROVE  /\ found' = found /\ (turn' = turn => Entry' = Entry /\ Target' = Target /\ (Refused' <=> Refused))
           /\ TypeInv => TypeInv'
<1>1. found' = found
  BY DEF vars
<1>2. turn' = turn => Entry' = Entry
  BY <1>1 DEF Entry
<1>3. Entry' = Entry => Target' = Target
  BY DEF Target
<1>4. Target' = Target => (Refused' <=> Refused)
  BY DEF Refused
<1>5. TypeInv => TypeInv'
  BY TypeStep, RootOnlyStep DEF TypeInv
<1>. QED BY <1>1, <1>2, <1>3, <1>4, <1>5

\* Every step of the release keeps the types.
LEMMA ReleaseStep == ReleaseInv /\ [ReleaseNext]_allVars => ReleaseInv'
<1>. SUFFICES ASSUME ReleaseInv, [ReleaseNext]_allVars PROVE ReleaseInv'
  OBVIOUS
<1>. TypeInv /\ ReleaseTypeOK /\ ReleaseShape
  BY DEF ReleaseInv
<1>a. found \in Seq(Founds) /\ Len(found) \in Nat /\ turn \in 1 .. Len(found) + 1 /\ IsTree(staging)
      /\ rpc \in {"start", "browse", "walk", "files", "copy", "ok", "failed"}
  BY DEF TypeInv, TypeOK, ReleaseTypeOK
<1>b. TypeInv'
  <2>1. [Next]_vars
    BY WalkSteps
  <2>. QED BY <2>1, TypeStep, RootOnlyStep DEF TypeInv
<1>c. TypeOK' /\ found' \in Seq(Founds) /\ Len(found') \in Nat
  <2>1. TypeOK'
    BY <1>b DEF TypeInv
  <2>2. found' \in Seq(Founds)
    BY <2>1 DEF TypeOK
  <2>. QED BY <2>1, <2>2
<1>1. CASE rpc \in {"walk", "browse"} /\ UNCHANGED releaseVars
  <2>1. rpc' = rpc /\ turn' = turn /\ staging' = staging /\ turn = 1
    BY <1>1 DEF releaseVars, ReleaseShape
  <2>2. ReleaseTypeOK'
    BY <1>a, <1>c, <2>1 DEF ReleaseTypeOK, IsTree
  <2>3. ReleaseShape'
    BY <1>1, <2>1 DEF ReleaseShape
  <2>. QED BY <1>b, <2>2, <2>3 DEF ReleaseInv
<1>2. CASE /\ vars' = vars /\ UNCHANGED <<before, staging>> /\ turn' = turn
           /\ \/ rpc = "start" /\ rpc' \in {"walk", "failed"}
              \/ rpc = "walk" /\ pc = "done" /\ rpc' = "files"
              \/ rpc = "files" /\ rpc' = "failed"
              \/ rpc = "files" /\ rpc' = "ok" /\ turn > Len(found)
              \/ rpc' = rpc
  <2>1. found' = found /\ Entry' = Entry /\ Target' = Target /\ (Refused' <=> Refused)
    BY <1>2, SameWalk
  <2>2. ReleaseTypeOK'
    BY <1>2, <1>a, <1>c, <2>1 DEF ReleaseTypeOK, IsTree
  <2>3. ReleaseShape'
    BY <1>2, <2>1 DEF ReleaseShape
  <2>. QED BY <1>b, <2>2, <2>3 DEF ReleaseInv
<1>3. CASE /\ vars' = vars /\ before' = before
           /\ \/ MakeDirectory /\ rpc = "files" /\ rpc' = "files" /\ turn' = turn + 1
              \/ CreateFile /\ rpc = "files" /\ rpc' = "copy" /\ turn' = turn
              \/ Copy /\ rpc = "copy" /\ rpc' = "files" /\ turn' = turn + 1
              \/ CopyFails /\ rpc = "copy" /\ rpc' = "failed" /\ turn' = turn
  <2>1. /\ IsTree(staging') /\ Target \in DOMAIN staging'
        /\ ~MakeDirectory => Entry.kind = "file" /\ staging'[Target].type = "file"
        /\ turn <= Len(found) /\ ~Refused
    BY <1>3, StagingStep
  <2>2. found' = found /\ (turn' = turn => Entry' = Entry /\ Target' = Target /\ (Refused' <=> Refused))
    BY <1>3, SameWalk
  <2>3. turn' \in 1 .. Len(found) + 1 /\ rpc' \in {"files", "copy", "failed"}
    BY <1>3, <1>a, <2>1
  <2>4. ReleaseTypeOK'
    <3>1. IsTree(staging)'
      BY <2>1 DEF IsTree
    <3>. QED BY <1>c, <2>2, <2>3, <3>1 DEF ReleaseTypeOK
  <2>5. CASE rpc' = "copy"
    <3>1. turn' = turn /\ ~MakeDirectory
      BY <1>3, <2>5 DEF MakeDirectory
    <3>2. ReleaseShape'
      BY <2>1, <2>2, <2>5, <3>1 DEF ReleaseShape
    <3>. QED BY <1>b, <2>4, <3>2 DEF ReleaseInv
  <2>6. CASE rpc' # "copy"
    <3>1. ReleaseShape'
      BY <2>3, <2>6 DEF ReleaseShape
    <3>. QED BY <1>b, <2>4, <3>1 DEF ReleaseInv
  <2>. QED BY <2>5, <2>6
<1>. QED BY <1>1, <1>2, <1>3, ReleaseSteps

\* The types hold at the start: the staging directory is a tree.
LEMMA ReleaseTypeInit == ReleaseInit => ReleaseInv
<1>. SUFFICES ASSUME ReleaseInit PROVE ReleaseInv
  OBVIOUS
<1>1. TypeInv
  BY TypeInit DEF ReleaseInit, Init, TypeInv, RootOnly, Reading, InVolume
<1>2. found = <<>> /\ turn = 1 /\ IsTree(staging) /\ rpc \in {"start", "browse"}
  BY StagingsAssumption DEF ReleaseInit, Init
<1>3. Len(found) = 0
  BY <1>2
<1>. QED BY <1>1, <1>2, <1>3 DEF ReleaseInv, ReleaseTypeOK, ReleaseShape, TypeInv

\* The release is well typed throughout.
LEMMA ReleaseInvariant == ReleaseSpec => []ReleaseInv
<1>. QED BY ReleaseTypeInit, ReleaseStep, PTL DEF ReleaseSpec

\* Whatever the names and the directories of the medium are, everything that is made
\* below the staging directory has a path of clean names that leads through directories.
THEOREM ReleaseTypeCorrect == ReleaseSpec => []ReleaseTypeOK
<1>1. ReleaseInv => ReleaseTypeOK
  BY DEF ReleaseInv
<1>. QED BY <1>1, ReleaseInvariant, PTL

-----------------------------------------------------------------------------
(***************************************************************************)
(* What the operator had in the staging directory.                         *)
(***************************************************************************)

\* Some discovered file comes to the path.
IsDiscovered(p) == \E i \in DOMAIN found : found[i].kind = "file" /\ CleanPath(found[i].path) = p

\* Until the walk is done nothing was touched, and then only what the files come to.
BeforeInv ==
    /\ rpc \in {"start", "browse", "walk"} => staging = before
    /\ \A p \in DOMAIN before :
         /\ p \in DOMAIN staging
         /\ staging[p] = before[p] \/ (before[p].type = "file" /\ IsDiscovered(p))

\* The operator's files stay as they are unless a discovered file has their path, and
\* links and directories in any case, also when the release fails half-way.
THEOREM StagedAlwaysStays == ReleaseSpec => []StagedBeforeStays
<1>1. ReleaseInit => BeforeInv
  BY DEF ReleaseInit, BeforeInv
<1>2. ReleaseInv /\ BeforeInv /\ [ReleaseNext]_allVars => BeforeInv'
  <2>. SUFFICES ASSUME ReleaseInv, BeforeInv, [ReleaseNext]_allVars PROVE BeforeInv'
    OBVIOUS
  <2>1. CASE rpc \in {"walk", "browse"} /\ UNCHANGED releaseVars
    BY <2>1 DEF releaseVars, BeforeInv
  <2>2. CASE /\ vars' = vars /\ UNCHANGED <<before, staging>>
             /\ rpc' \in {"start", "browse", "walk"} => rpc \in {"start", "browse", "walk"}
    <3>1. found' = found
      BY <2>2, SameWalk
    <3>. QED BY <2>2, <3>1 DEF BeforeInv, IsDiscovered
  <2>3. CASE /\ vars' = vars /\ before' = before /\ rpc' \notin {"start", "browse", "walk"}
             /\ MakeDirectory \/ CreateFile \/ Copy \/ CopyFails
    <3>1. found' = found
      BY <2>3, SameWalk
    <3>2. /\ DOMAIN staging \subseteq DOMAIN staging' /\ turn <= Len(found)
          /\ \A p \in DOMAIN staging : staging'[p] = staging[p] \/ (p = Target /\ ~MakeDirectory)
          /\ ~MakeDirectory => Entry.kind = "file" /\ (Target \in DOMAIN staging => staging[Target].type = "file")
      BY <2>3, StagingStep DEF ReleaseInv
    <3>3. turn \in DOMAIN found
      BY <3>2, EntryAtHand DEF ReleaseInv
    <3>4. ~MakeDirectory => IsDiscovered(Target)
      BY <3>2, <3>3 DEF IsDiscovered, Entry, Target
    <3>5. ASSUME NEW p \in DOMAIN before
          PROVE  /\ p \in DOMAIN staging'
                 /\ staging'[p] = before[p] \/ (before[p].type = "file" /\ IsDiscovered(p))
      <4>1. p \in DOMAIN staging /\ (staging[p] = before[p] \/ (before[p].type = "file" /\ IsDiscovered(p)))
        BY <3>5 DEF BeforeInv
      <4>2. CASE staging'[p] = staging[p]
        BY <3>2, <4>1, <4>2
      <4>3. CASE p = Target /\ ~MakeDirectory
        BY <3>2, <3>4, <4>1, <4>3
      <4>. QED BY <3>2, <4>1, <4>2, <4>3
    <3>. QED BY <2>3, <3>1, <3>5 DEF BeforeInv, IsDiscovered
  <2>. QED BY <2>1, <2>2, <2>3, ReleaseSteps
<1>3. BeforeInv => StagedBeforeStays
  BY DEF BeforeInv, StagedBeforeStays, IsDiscovered
<1>. QED BY <1>1, <1>2, <1>3, ReleaseInvariant, PTL DEF ReleaseSpec

-----------------------------------------------------------------------------
(***************************************************************************)
(* What is reported as released.                                           *)
(***************************************************************************)

\* A later entry, from i on and before k, is a file of the same path and is what is there.
WrittenBy(i, k, path) ==
    \E j \in i .. k - 1 : /\ found[j].kind = "file" /\ CleanPath(found[j].path) = path
                          /\ staging[path] = FileOf(ReadBlocks(found[j]))

\* The entries behind are there, but for what is being written at the moment.
CopiedInv ==
    rpc \in {"files", "copy", "ok"} =>
      \A i \in 1 .. turn - 1 :
        LET path == CleanPath(found[i].path) IN
          /\ path \in DOMAIN staging
          /\ found[i].kind = "file" =>
               (rpc = "copy" /\ path = Target) \/ WrittenBy(i, turn, path)

\* What the release reports as released is there, every file of it whole: where two
\* entries come to one path it is the later one.
THEOREM OkIsAlwaysComplete == ReleaseSpec => []OkIsComplete
<1>1. ReleaseInit => CopiedInv
  BY DEF ReleaseInit, CopiedInv
<1>2. ReleaseInv /\ CopiedInv /\ [ReleaseNext]_allVars => CopiedInv'
  <2>. SUFFICES ASSUME ReleaseInv, CopiedInv, [ReleaseNext]_allVars, rpc' \in {"files", "copy", "ok"},
                       NEW i \in 1 .. turn' - 1, NEW path, path = CleanPath(found'[i].path)
                PROVE  /\ path \in DOMAIN staging'
                       /\ found'[i].kind = "file" =>
                            (rpc' = "copy" /\ path = Target') \/ WrittenBy(i, turn, path)'
    BY DEF CopiedInv
  <2>a. turn \in Nat \ {0} /\ Len(found) \in Nat
    BY DEF ReleaseInv, ReleaseTypeOK, TypeInv, TypeOK
  <2>1. CASE rpc \in {"walk", "browse"} /\ UNCHANGED releaseVars
    BY <2>1 DEF releaseVars
  <2>2. CASE vars' = vars /\ UNCHANGED <<staging, turn>> /\ rpc \in {"start", "walk"}
    <3>1. turn = 1 /\ turn' = 1
      BY <2>2 DEF ReleaseInv, ReleaseShape
    <3>. QED BY <3>1
  <2>3. CASE vars' = vars /\ UNCHANGED <<staging, turn>>
             /\ (rpc' = rpc \/ (rpc = "files" /\ rpc' = "ok"))
    <3>1. found' = found /\ Target' = Target
      BY <2>3, SameWalk
    <3>. QED BY <2>3, <3>1 DEF CopiedInv, WrittenBy
  \* the entries before the one at hand, when that is made or written
  <2>4. ASSUME vars' = vars, rpc \in {"files", "copy"}, rpc' \in {"files", "copy"},
               MakeDirectory \/ CreateFile \/ Copy, turn' \in {turn, turn + 1}, i < turn,
               (CreateFile /\ rpc' = "copy" /\ turn' = turn) \/ (MakeDirectory /\ rpc = "files")
                 \/ (Copy /\ turn' = turn + 1)
        PROVE  /\ path \in DOMAIN staging'
               /\ found'[i].kind = "file" =>
                    (rpc' = "copy" /\ path = Target') \/ WrittenBy(i, turn, path)'
    <3>1. found' = found /\ (turn' = turn => Target' = Target)
      BY <2>4, SameWalk
    <3>2. /\ DOMAIN staging \subseteq DOMAIN staging' /\ turn <= Len(found)
          /\ \A p \in DOMAIN staging : staging'[p] = staging[p] \/ (p = Target /\ ~MakeDirectory)
          /\ ~MakeDirectory => Entry.kind = "file"
          /\ Copy => staging'[Target] = FileOf(ReadBlocks(Entry))
      BY <2>4, StagingStep DEF ReleaseInv
    <3>3. i \in 1 .. turn - 1
      BY <2>4, <2>a
    <3>4. /\ path \in DOMAIN staging
          /\ found[i].kind = "file" => (rpc = "copy" /\ path = Target) \/ WrittenBy(i, turn, path)
      BY <2>4, <3>1, <3>3 DEF CopiedInv
    <3>5. CASE path = Target /\ ~MakeDirectory
      <4>1. CASE CreateFile /\ rpc' = "copy" /\ turn' = turn
        BY <3>1, <3>2, <3>4, <3>5, <4>1
      <4>2. CASE Copy /\ turn' = turn + 1
        <5>1. turn \in i .. turn' - 1
          BY <2>4, <2>a, <3>3, <4>2
        <5>2. /\ found'[turn].kind = "file" /\ CleanPath(found'[turn].path) = path
              /\ staging'[path] = FileOf(ReadBlocks(found'[turn]))
          BY <3>1, <3>2, <3>5, <4>2 DEF Entry, Target
        <5>3. WrittenBy(i, turn, path)'
          BY <5>1, <5>2 DEF WrittenBy
        <5>. QED BY <3>2, <3>4, <5>3
      <4>. QED BY <2>4, <3>5, <4>1, <4>2
    <3>6. CASE ~ (path = Target /\ ~MakeDirectory)
      <4>1. staging'[path] = staging[path]
        BY <3>2, <3>4, <3>6
      <4>2. ~ (rpc = "copy" /\ path = Target)
        BY <2>4, <3>6 DEF MakeDirectory, InTurn
      <4>3. \A j \in i .. turn - 1 : j \in i .. turn' - 1
        <5>1. turn' = turn \/ turn' = turn + 1
          BY <2>4
        <5>2. turn \in Nat /\ i \in Nat
          BY <2>a, <3>3
        <5>. QED BY <5>1, <5>2
      <4>4. WrittenBy(i, turn, path) => WrittenBy(i, turn, path)'
        BY <3>1, <4>1, <4>3 DEF WrittenBy
      <4>. QED BY <3>1, <3>2, <3>4, <4>2, <4>4
    <3>. QED BY <3>5, <3>6
  <2>5. CASE MakeDirectory /\ vars' = vars /\ rpc = "files" /\ rpc' = "files" /\ turn' = turn + 1
             /\ Entry.kind = "dir"
    <3>1. CASE i < turn
      BY <2>4, <2>5, <3>1
    <3>2. CASE i = turn
      <4>1. found' = found
        BY <2>5, SameWalk
      <4>2. path = Target /\ found'[i].kind = "dir"
        BY <2>5, <3>2, <4>1 DEF Entry, Target
      <4>3. Target \in DOMAIN staging'
        BY <2>5, StagingStep DEF ReleaseInv
      <4>. QED BY <4>2, <4>3
    <3>. QED BY <2>5, <2>a, <3>1, <3>2
  <2>6. CASE CreateFile /\ vars' = vars /\ rpc = "files" /\ rpc' = "copy" /\ turn' = turn
    <3>1. i < turn
      BY <2>6, <2>a
    <3>. QED BY <2>4, <2>6, <3>1
  <2>7. CASE Copy /\ vars' = vars /\ rpc = "copy" /\ rpc' = "files" /\ turn' = turn + 1
    <3>1. CASE i < turn
      BY <2>4, <2>7, <3>1
    <3>2. CASE i = turn
      <4>1. found' = found
        BY <2>7, SameWalk
      <4>2. path = Target /\ found'[i] = Entry /\ CleanPath(found'[i].path) = path
        BY <3>2, <4>1 DEF Entry, Target
      <4>3. /\ Target \in DOMAIN staging' /\ staging'[Target] = FileOf(ReadBlocks(Entry))
            /\ Entry.kind = "file"
        <5>1. ~MakeDirectory
          BY <2>7 DEF MakeDirectory, InTurn
        <5>. QED BY <2>7, <5>1, StagingStep DEF ReleaseInv
      <4>4. i \in i .. turn' - 1
        BY <2>7, <2>a, <3>2
      <4>5. WrittenBy(i, turn, path)'
        BY <4>2, <4>3, <4>4 DEF WrittenBy
      <4>. QED BY <4>2, <4>3, <4>5
    <3>. QED BY <2>7, <2>a, <3>1, <3>2
  <2>. QED BY <2>1, <2>2, <2>3, <2>5, <2>6, <2>7, ReleaseSteps
<1>3. ReleaseInv /\ CopiedInv => OkIsComplete
  <2>. SUFFICES ASSUME ReleaseInv, CopiedInv, rpc = "ok", NEW i \in DOMAIN found, NEW path,
                       path = CleanPath(found[i].path)
                PROVE  /\ path \in DOMAIN staging
                       /\ found[i].kind = "file" =>
                            \E j \in i .. Len(found) :
                               /\ found[j].kind = "file" /\ CleanPath(found[j].path) = path
                               /\ staging[path] = FileOf(ReadBlocks(found[j]))
    BY DEF OkIsComplete
  <2>1. turn = Len(found) + 1 /\ Len(found) \in Nat /\ DOMAIN found = 1 .. Len(found)
    BY DEF ReleaseInv, ReleaseShape, ReleaseTypeOK, TypeInv, TypeOK
  <2>2. i \in 1 .. turn - 1 /\ turn - 1 = Len(found)
    BY <2>1
  <2>3. path \in DOMAIN staging /\ (found[i].kind = "file" => WrittenBy(i, turn, path))
    BY <2>2 DEF CopiedInv
  <2>. QED BY <2>2, <2>3 DEF WrittenBy
<1>. QED BY <1>1, <1>2, <1>3, ReleaseInvariant, PTL DEF ReleaseSpec

\* The release reads no directory twice, and takes what it copies from exactly what the
\* directories within reach hold.
THEOREM ReleaseReadsOnce == ReleaseSpec => []NothingIsReadTwice
<1>. QED BY ReleaseWalks, NothingEverReadTwice, PTL

\* What a release copies is what the directories within reach hold.
THEOREM ReleaseFindsExactly == ReleaseSpec => []FoundIsExact
<1>. QED BY ReleaseWalks, FoundAlwaysExact, PTL
=============================================================================
