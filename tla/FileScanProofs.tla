--------------------------- MODULE FileScanProofs ---------------------------
(***************************************************************************)
(* Proofs about the layout of a medium, the space no partition claims and  *)
(* the scan of the files, for every medium of any size, sound or not, and  *)
(* every value of the limits.                                              *)
(***************************************************************************)
EXTENDS FileScan, FiniteSetTheorems, SequenceTheorems, TLAPS

-----------------------------------------------------------------------------
(***************************************************************************)
(* Induction, for sets of numbers in place of predicates.                  *)
(***************************************************************************)

\* Every set of numbers that has one has a least one: its initial segments are
\* finite sets, which are well-founded under inclusion.
LEMMA LeastNumber ==
    ASSUME NEW T, T \subseteq Nat, T # {}
    PROVE  \E x \in T : \A y \in T : x <= y
<1>1. PICK n \in Nat : n \in T
  OBVIOUS
<1>. DEFINE S == 0 .. n
            F == {U \in FiniteSubsetsOf(S) : \E k \in T : U = 0 .. k}
<1>2. S \in F
  <2>1. IsFiniteSet(S)
    BY FS_Interval
  <2>. QED BY <1>1, <2>1 DEF FiniteSubsetsOf
<1>3. \E U \in F : \A W \in F : ~ (<<W, U>> \in StrictSubsetOrdering(S))
  <2>1. IsWellFoundedOn(StrictSubsetOrdering(S), FiniteSubsetsOf(S))
    BY FS_StrictSubsetOrderingWellFounded
  <2>2. F \subseteq FiniteSubsetsOf(S) /\ F # {}
    BY <1>2
  <2>. HIDE DEF F, S
  <2>. QED BY <2>1, <2>2, WFMin
<1>4. PICK U \in F : \A W \in F : ~ (<<W, U>> \in StrictSubsetOrdering(S))
  BY <1>3
<1>5. PICK k \in T : U = 0 .. k
  BY <1>4
<1>6. ASSUME NEW y \in T, y < k PROVE FALSE
  <2>1. 0 .. y \subseteq 0 .. k /\ 0 .. y # 0 .. k
    BY <1>6
  <2>2. 0 .. k \subseteq S
    BY <1>4, <1>5 DEF FiniteSubsetsOf
  <2>3. IsFiniteSet(0 .. y)
    <3>1. 0 \in Int /\ y \in Int
      BY <1>6
    <3>. QED BY <3>1, FS_Interval
  <2>4. 0 .. y \in F
    BY <1>6, <2>1, <2>2, <2>3 DEF FiniteSubsetsOf
  <2>5. <<0 .. y, U>> \in StrictSubsetOrdering(S)
    BY <1>5, <2>1, <2>2, <2>3 DEF StrictSubsetOrdering
  <2>. QED BY <1>4, <2>4, <2>5
<1>. QED BY <1>6

\* A set that has zero, and with a number the next one, has all up to a limit.
LEMMA Induction ==
    ASSUME NEW S, NEW max \in Nat, 0 \in S,
           \A n \in Nat : n \in S /\ n < max => n + 1 \in S
    PROVE  0 .. max \subseteq S
<1>. SUFFICES ASSUME 0 .. max \ S # {} PROVE FALSE
  OBVIOUS
<1>1. PICK x \in 0 .. max \ S : \A y \in 0 .. max \ S : x <= y
  <2>1. 0 .. max \ S \subseteq Nat
    OBVIOUS
  <2>. QED BY <2>1, LeastNumber
<1>2. x # 0 /\ x - 1 \in Nat /\ x - 1 < max
  BY <1>1
<1>3. x - 1 \in S
  BY <1>1, <1>2
<1>4. (x - 1) + 1 \in S
  BY <1>2, <1>3
<1>. QED BY <1>1, <1>2, <1>4

\* Of any numbers, the n-th is one of them, and n of them are not greater.
LEMMA NthIs ==
    ASSUME NEW set \in SUBSET Nat, IsFiniteSet(set), NEW n \in 1 .. Cardinality(set)
    PROVE  Nth(set, n) \in set /\ Cardinality({j \in set : j <= Nth(set, n)}) = n
<1>. DEFINE UpTo(i) == {j \in set : j <= i}
            Good == {k \in Nat : k = 0 \/ \E i \in set : Cardinality(UpTo(i)) = k}
<1>. Cardinality(set) \in Nat
  BY FS_CardinalityType
<1>1. \A U \in SUBSET set : IsFiniteSet(U) /\ Cardinality(U) \in Nat
  BY FS_Subset, FS_CardinalityType
<1>2. ASSUME NEW k \in Nat, k \in Good, k < Cardinality(set) PROVE k + 1 \in Good
  <2>1. PICK U \in SUBSET set : Cardinality(U) = k /\ \A i \in U : \A j \in set : j <= i => j \in U
    <3>1. CASE k = 0
      <4>1. Cardinality({}) = 0
        BY FS_EmptySet
      <4>. QED BY <3>1, <4>1
    <3>2. CASE k # 0
      <4>1. PICK i \in set : Cardinality(UpTo(i)) = k
        BY <1>2, <3>2
      <4>2. \A a \in UpTo(i) : \A j \in set : j <= a => j \in UpTo(i)
        OBVIOUS
      <4>. QED BY <4>1, <4>2
    <3>. QED BY <3>1, <3>2
  <2>2. set \ U # {}
    <3>1. U # set
      BY <1>2, <2>1
    <3>. QED BY <3>1
  <2>3. PICK x \in set \ U : \A y \in set \ U : x <= y
    <3>1. set \ U \subseteq Nat
      OBVIOUS
    <3>. QED BY <2>2, <3>1, LeastNumber
  <2>4. UpTo(x) = U \cup {x}
    <3>1. \A j \in U : j <= x
      BY <2>1, <2>3
    <3>2. \A j \in set : j <= x /\ j \notin U => j = x
      BY <2>3
    <3>. QED BY <2>3, <3>1, <3>2
  <2>5. Cardinality(U \cup {x}) = k + 1
    BY <1>1, <2>1, <2>3, FS_AddElement
  <2>. QED BY <2>3, <2>4, <2>5
<1>3. n \in Good
  <2>1. 0 \in Good
    OBVIOUS
  <2>. HIDE DEF Good
  <2>2. 0 .. Cardinality(set) \subseteq Good
    BY <1>2, <2>1, Induction
  <2>. QED BY <2>2
<1>4. \E i \in set : Cardinality({j \in set : j <= i}) = n
  BY <1>3
<1>. QED BY <1>4 DEF Nth

\* Each of some numbers is the n-th of them for some n.
LEMMA IsNth ==
    ASSUME NEW set \in SUBSET Nat, IsFiniteSet(set), NEW i \in set
    PROVE  \E n \in 1 .. Cardinality(set) : Nth(set, n) = i
<1>. DEFINE UpTo(k) == {j \in set : j <= k}
            n == Cardinality(UpTo(i))
<1>1. \A k \in set : IsFiniteSet(UpTo(k)) /\ Cardinality(UpTo(k)) \in Nat
  <2>1. \A k \in set : UpTo(k) \subseteq set
    OBVIOUS
  <2>. QED BY <2>1, FS_Subset, FS_CardinalityType
<1>2. n \in 1 .. Cardinality(set)
  <2>1. UpTo(i) # {} /\ UpTo(i) \subseteq set
    OBVIOUS
  <2>2. n # 0
    BY <1>1, <2>1, FS_EmptySet
  <2>3. n <= Cardinality(set)
    BY <2>1, FS_Subset
  <2>. QED BY <1>1, <2>2, <2>3, FS_CardinalityType
<1>3. Nth(set, n) \in set /\ Cardinality(UpTo(Nth(set, n))) = n
  BY <1>2, NthIs
<1>4. ASSUME NEW a \in set, NEW b \in set, a < b PROVE Cardinality(UpTo(a)) # Cardinality(UpTo(b))
  <2>1. UpTo(a) \subseteq UpTo(b) /\ UpTo(a) # UpTo(b)
    <3>1. b \in UpTo(b) /\ b \notin UpTo(a)
      BY <1>4
    <3>2. UpTo(a) \subseteq UpTo(b)
      <4>1. \A j \in set : j \in Nat /\ a \in Nat /\ b \in Nat
        OBVIOUS
      <4>2. \A j \in set : j <= a => j <= b
        BY <1>4, <4>1
      <4>. QED BY <4>2
    <3>. QED BY <3>1, <3>2
  <2>. HIDE DEF UpTo
  <2>. QED BY <1>1, <2>1, FS_Subset
<1>5. Nth(set, n) = i
  <2>1. Nth(set, n) \in Nat /\ i \in Nat
    BY <1>3
  <2>. HIDE DEF UpTo
  <2>. QED BY <1>3, <1>4, <2>1
<1>. QED BY <1>2, <1>5

-----------------------------------------------------------------------------
(***************************************************************************)
(* The layout: type correctness.                                           *)
(***************************************************************************)

Chains == [base : Nat, size : Nat, at : Nat, visited : SUBSET Sectors, open : BOOLEAN]

\* What the assumptions say of the medium at hand.
LEMMA DiskIs ==
    ASSUME medium \in Media
    PROVE  /\ disk \in DiskSet /\ Len(disk.mbr) <= 4
           /\ \A i \in DOMAIN disk.mbr : disk.mbr[i] \in MbrEntries
           /\ \A c \in Sectors : disk.records[c] \in Records
           /\ disk.primary \in Headers /\ disk.secondary \in Headers
<1>1. disk \in DiskSet /\ Len(disk.mbr) <= 4
  BY DisksAssumption DEF disk
<1>2. \A i \in DOMAIN disk.mbr : disk.mbr[i] \in MbrEntries
  <2>1. disk.mbr \in Seq(MbrEntries)
    BY <1>1 DEF DiskSet
  <2>. QED BY <2>1
<1>. QED BY <1>1, <1>2 DEF DiskSet

\* The positions of a sequence, and those among them that meet a condition, are
\* finitely many numbers.
LEMMA SomePositions ==
    ASSUME NEW T, NEW q \in Seq(T), NEW P \in SUBSET DOMAIN q
    PROVE  P \in SUBSET Nat /\ IsFiniteSet(P) /\ Cardinality(P) \in Nat
<1>1. DOMAIN q = 1 .. Len(q) /\ Len(q) \in Nat
  OBVIOUS
<1>2. IsFiniteSet(1 .. Len(q))
  <2>1. 1 \in Int /\ Len(q) \in Int
    BY <1>1
  <2>. QED BY <2>1, FS_Interval
<1>3. IsFiniteSet(P)
  BY <1>1, <1>2, FS_Subset
<1>. QED BY <1>1, <1>3, FS_CardinalityType

\* The partitions of the MBR are its used entries, in their order.
LEMMA MbrIs ==
    ASSUME medium \in Media
    PROVE  /\ MbrPartitions \in Seq(Partitions)
           /\ DOMAIN MbrPartitions = 1 .. Cardinality(Used)
           /\ \A n \in DOMAIN MbrPartitions :
                \E i \in Used : MbrPartitions[n] = MbrPartition(i)
           /\ \A i \in Used : \E n \in DOMAIN MbrPartitions : MbrPartitions[n] = MbrPartition(i)
           /\ \A i \in Used : i \in 1 .. 4
<1>1. disk.mbr \in Seq(MbrEntries) /\ Len(disk.mbr) <= 4
  BY DiskIs DEF DiskSet
<1>2. Used \in SUBSET DOMAIN disk.mbr
  BY DEF Used
<1>3. Used \in SUBSET Nat /\ IsFiniteSet(Used) /\ Cardinality(Used) \in Nat
  BY <1>1, <1>2, SomePositions
<1>4. \A i \in Used : i \in 1 .. 4
  BY <1>1, <1>2
<1>5. \A i \in Used : MbrPartition(i) \in Partitions
  <2>. SUFFICES ASSUME NEW i \in Used PROVE MbrPartition(i) \in Partitions
    OBVIOUS
  <2>1. disk.mbr[i] \in MbrEntries /\ i \in Nat
    BY <1>2, <1>3, DiskIs
  <2>2. Last(disk.mbr[i].start, disk.mbr[i].count) \in Nat
    BY <2>1 DEF MbrEntries, Last
  <2>. QED BY <2>1, <2>2 DEF MbrPartition, MbrEntries, Partitions
<1>6. \A n \in 1 .. Cardinality(Used) : Nth(Used, n) \in Used
  BY <1>3, NthIs
<1>7. \A n \in 1 .. Cardinality(Used) :
         MbrPartitions[n] = MbrPartition(Nth(Used, n)) /\ MbrPartitions[n] \in Partitions
  BY <1>5, <1>6 DEF MbrPartitions
<1>8. MbrPartitions \in Seq(Partitions) /\ DOMAIN MbrPartitions = 1 .. Cardinality(Used)
  BY <1>3, <1>7 DEF MbrPartitions
<1>9. \A i \in Used : \E n \in 1 .. Cardinality(Used) : Nth(Used, n) = i
  BY <1>3, IsNth
<1>. QED BY <1>4, <1>6, <1>7, <1>8, <1>9

\* The partitions of a GPT are typed.
LEMMA GptIs ==
    ASSUME NEW h \in Headers
    PROVE  /\ GptPartitions(h) \in Seq(Partitions)
           /\ \A n \in DOMAIN GptPartitions(h) : GptPartitions(h)[n].type = "gpt"
<1>. DEFINE U == UsedEntries(h)
<1>1. h.entries \in Seq(GptEntries) /\ U \in SUBSET DOMAIN h.entries
  BY DEF Headers, UsedEntries
<1>2. U \in SUBSET Nat /\ IsFiniteSet(U) /\ Cardinality(U) \in Nat
  BY <1>1, SomePositions
<1>3. \A n \in 1 .. Cardinality(U) : Nth(U, n) \in U
  BY <1>2, NthIs
<1>4. \A i \in U : GptPartition(h, i) \in Partitions /\ GptPartition(h, i).type = "gpt"
  <2>. SUFFICES ASSUME NEW i \in U PROVE GptPartition(h, i) \in Partitions /\ GptPartition(h, i).type = "gpt"
    OBVIOUS
  <2>1. h.entries[i] \in GptEntries /\ i \in Nat
    BY <1>1, <1>2
  <2>. DEFINE e == h.entries[i]
              count == IF e.end >= e.start THEN (e.end - e.start) + 1 ELSE 0
  <2>2. count \in Nat
    BY <2>1 DEF GptEntries
  <2>. QED BY <2>1, <2>2 DEF GptPartition, GptEntries, Partitions
<1>5. \A n \in 1 .. Cardinality(U) :
         GptPartitions(h)[n] \in Partitions /\ GptPartitions(h)[n].type = "gpt"
  BY <1>3, <1>4 DEF GptPartitions
<1>6. DOMAIN GptPartitions(h) = 1 .. Cardinality(U)
  BY DEF GptPartitions
<1>. QED BY <1>2, <1>5, <1>6 DEF GptPartitions

\* A logical partition is typed.
LEMMA LogicalIs ==
    ASSUME LayoutTypeOK, chain.at \in Sectors
    PROVE  /\ Logical(disk.records[chain.at]) \in Partitions
           /\ Logical(disk.records[chain.at]).index >= 5
           /\ disk.records[chain.at] \in Records
<1>. DEFINE r == disk.records[chain.at]
<1>1. r \in Records
  BY DiskIs DEF LayoutTypeOK
<1>2. Cardinality(Logicals) \in Nat
  <2>1. Logicals \in SUBSET DOMAIN parts /\ parts \in Seq(Partitions)
    BY DEF Logicals, LayoutTypeOK
  <2>. QED BY <2>1, SomePositions
<1>3. Last(chain.at + r.rel, r.count) \in Nat /\ chain.at + r.rel \in Nat
  BY <1>1 DEF Records, Last, Sectors
<1>. QED BY <1>1, <1>2, <1>3 DEF Logical, Records, Partitions

\* The findings of the partition scan, but for those of the gaps.
Findings == [rule : {"FX-PART-001", "FX-PART-002", "FX-PART-003", "FX-PART-004", "FX-PART-006"},
             at : Nat]

\* Whatever the partitions are, the findings about them are typed.
LEMMA FindingsAre ==
    ASSUME NEW ps \in Seq(Partitions), NEW type
    PROVE  Overlaps(ps) \cup OutOfBounds(ps) \cup Hidden(ps) \cup Disagreement(type) \cup BackupOdd
             \subseteq Findings
<1>1. \A i \in DOMAIN ps : ps[i].index \in Nat
  <2>1. \A i \in DOMAIN ps : ps[i] \in Partitions
    OBVIOUS
  <2>. QED BY <2>1 DEF Partitions
<1>2. Overlaps(ps) \subseteq Findings /\ OutOfBounds(ps) \subseteq Findings /\ Hidden(ps) \subseteq Findings
  BY <1>1 DEF Overlaps, OutOfBounds, Hidden, Findings
<1>3. Disagreement(type) \subseteq Findings /\ BackupOdd \subseteq Findings
  BY DEF Disagreement, BackupOdd, OfTheDevice, Findings
<1>. QED BY <1>2, <1>3

\* The types hold at the start.
LEMMA LayoutTypeInit == LayoutInit => LayoutTypeOK
<1>. SUFFICES ASSUME LayoutInit PROVE LayoutTypeOK
  OBVIOUS
<1>1. parts \in Seq(Partitions) /\ queue \subseteq DOMAIN parts
  BY DEF LayoutInit
<1>2. chain \in Chains
  BY DEF LayoutInit, NoChain, Chains
<1>. QED BY <1>1, <1>2 DEF LayoutInit, LayoutTypeOK, Chains

\* Every step of the parser keeps the types.
LEMMA LayoutTypeStep ==
    ASSUME LayoutTypeOK, LayoutNext
    PROVE  LayoutTypeOK'
<1>. medium \in Media /\ medium' = medium
  BY DEF LayoutTypeOK, LayoutNext, ReadMbr, StartChain, ReadRecord, EndChain, Inspect
<1>a. chain \in Chains /\ parts \in Seq(Partitions) /\ queue \subseteq DOMAIN parts
  BY DEF LayoutTypeOK, Chains
<1>b. NoChain \in Chains
  BY DEF NoChain, Chains
<1>1. CASE ReadMbr
  <2>1. parts' \in Seq(Partitions)
    BY <1>1, MbrIs DEF ReadMbr
  <2>2. queue' \subseteq DOMAIN parts'
    BY <1>1 DEF ReadMbr
  <2>. QED BY <1>1, <2>1, <2>2 DEF ReadMbr, LayoutTypeOK
<1>2. CASE StartChain
  <2>1. PICK k \in queue :
          /\ chain' = [base |-> parts[k].start, size |-> parts[k].count,
                       at |-> parts[k].start, visited |-> {}, open |-> TRUE]
          /\ queue' = queue \ {k}
    BY <1>2 DEF StartChain
  <2>2. parts[k] \in Partitions
    BY <1>a
  <2>3. chain' \in Chains /\ queue' \subseteq DOMAIN parts
    BY <1>a, <2>1, <2>2 DEF Chains, Partitions
  <2>. QED BY <1>2, <2>3 DEF StartChain, LayoutTypeOK, Chains
<1>3. CASE ReadRecord
  <2>. DEFINE r == disk.records[chain.at]
  <2>1. chain.at \in Sectors
    BY <1>3 DEF ReadRecord, MayRead
  <2>2. Logical(r) \in Partitions /\ r \in Records
    BY <2>1, LogicalIs
  <2>3. parts' \in {parts, Append(parts, Logical(r))} /\ Follow(r)
    BY <1>3 DEF ReadRecord
  <2>4. parts' \in Seq(Partitions) /\ DOMAIN parts \subseteq DOMAIN parts'
    BY <1>a, <2>2, <2>3
  <2>5. chain' \in Chains
    <3>1. chain.base + r.next \in Nat
      BY <1>a, <2>2 DEF Chains, Records
    <3>2. [chain EXCEPT !.at = chain.base + r.next, !.visited = chain.visited \cup {chain.at}] \in Chains
      BY <1>a, <2>1, <3>1 DEF Chains
    <3>. QED BY <1>b, <2>3, <3>2 DEF Follow
  <2>. QED BY <1>3, <1>a, <2>4, <2>5 DEF ReadRecord, LayoutTypeOK, Chains
<1>4. CASE EndChain
  BY <1>4, <1>b DEF EndChain, LayoutTypeOK, Chains
<1>5. CASE Inspect
  <2>1. parts' \in Seq(Partitions)
    BY <1>5, <1>a, DiskIs, GptIs DEF Inspect
  <2>2. findings' \subseteq Findings
    BY <1>5, <2>1, FindingsAre DEF Inspect
  <2>3. table' \in {"none", "mbr", "gpt", "hybrid"}
    BY <1>5 DEF Inspect, TableType
  <2>4. queue' \subseteq DOMAIN parts'
    BY <1>5 DEF Inspect
  <2>. QED BY <1>5, <2>1, <2>2, <2>3, <2>4 DEF Inspect, LayoutTypeOK, Findings
<1>. QED BY <1>1, <1>2, <1>3, <1>4, <1>5 DEF LayoutNext

-----------------------------------------------------------------------------
(***************************************************************************)
(* Unallocated space: type correctness.                                    *)
(***************************************************************************)

\* Nothing is looked at before the layout is there; gaps lie on the medium; what is
\* carved lies in a chunk, the chunk in a range and on the medium.
RawShape ==
    /\ pc # "layout" => step = "wait"
    /\ step = "wait" => left = {} /\ gaps = {} /\ ranges = <<>> /\ carved = <<>> /\ cut = {}
    /\ step = "gaps" => pos >= StartThreshold
    /\ \A g \in gaps : g.from >= 1 /\ g.from <= g.to /\ g.to < Total
    /\ step \notin {"carve", "done"} => range = 1 /\ at = 0 /\ chunkEnd = 0
    /\ range \in 1 .. Len(ranges) + 1
    /\ step = "carve" /\ range <= Len(ranges) => at >= ranges[range].from
    /\ step = "carve" /\ at < chunkEnd =>
         range <= Len(ranges) /\ chunkEnd <= Total /\ chunkEnd <= ranges[range].to

\* Where the two loops over the gaps start and end.
LEMMA ThresholdsAre ==
    /\ StartThreshold \in Nat /\ StartThreshold >= 1
    /\ EndThreshold \in Nat /\ EndThreshold < Total
BY TotalAssumption, ReserveAssumption DEF StartThreshold, EndThreshold

\* There is a first one among the partitions that are left.
LEMMA NextPartIs ==
    ASSUME LayoutTypeOK, left \subseteq DOMAIN parts, left # {}
    PROVE  /\ NextPart \in left /\ parts[NextPart] \in Partitions
           /\ \A j \in left : Before(NextPart, j)
<1>1. \A k \in left : k \in Nat /\ parts[k] \in Partitions /\ parts[k].start \in Nat
  <2>1. \A k \in left : k \in Nat /\ parts[k] \in Partitions
    BY DEF LayoutTypeOK
  <2>. QED BY <2>1 DEF Partitions
<1>2. PICK x \in {parts[k].start : k \in left} : \A y \in {parts[k].start : k \in left} : x <= y
  <2>1. {parts[k].start : k \in left} \subseteq Nat /\ {parts[k].start : k \in left} # {}
    BY <1>1
  <2>. QED BY <2>1, LeastNumber
<1>. DEFINE K == {k \in left : parts[k].start = x}
<1>3. PICK k \in K : \A j \in K : k <= j
  <2>1. K \subseteq Nat /\ K # {}
    BY <1>1, <1>2
  <2>. QED BY <2>1, LeastNumber
<1>4. \A j \in left : Before(k, j)
  <2>. SUFFICES ASSUME NEW j \in left PROVE Before(k, j)
    OBVIOUS
  <2>1. CASE parts[j].start = x
    BY <1>3, <2>1 DEF Before
  <2>2. CASE parts[j].start # x
    <3>1. x <= parts[j].start /\ parts[j].start \in Nat /\ x \in Nat
      BY <1>1, <1>2
    <3>. QED BY <1>3, <2>2, <3>1 DEF Before
  <2>. QED BY <2>1, <2>2
<1>5. NextPart \in left /\ \A j \in left : Before(NextPart, j)
  BY <1>3, <1>4 DEF NextPart
<1>. QED BY <1>1, <1>5

\* The types hold at the start.
LEMMA RawTypeInit == LayoutInit /\ RawInit => RawTypeOK /\ RawShape
BY DEF LayoutInit, RawInit, RawTypeOK, RawShape

\* The parser leaves them alone.
LEMMA RawTypeParser ==
    ASSUME LayoutTypeOK, RawTypeOK, RawShape, LayoutNext, UNCHANGED rawVars
    PROVE  RawTypeOK' /\ RawShape'
<1>1. step = "wait"
  BY DEF RawShape, LayoutNext, ReadMbr, StartChain, ReadRecord, EndChain, Inspect
<1>. QED BY <1>1 DEF RawShape, RawTypeOK, rawVars

\* What is on a sector is known.
LEMMA ContentIs ==
    ASSUME LayoutTypeOK
    PROVE  content \in [Sectors -> Cells]
BY ContentsAssumption DEF LayoutTypeOK, content

\* What is read of a gap lies in it.
LEMMA SampledIs ==
    ASSUME NEW g, g.from \in Nat, g.to \in Nat, g.from <= g.to
    PROVE  /\ Sampled(g) \subseteq g.from .. g.to
           /\ (g.to - g.from) + 1 <= SampleWhole => Sampled(g) = g.from .. g.to
BY SampleAssumption DEF Sampled

\* The loop over the gaps keeps the types.
LEMMA RawTypeGaps ==
    ASSUME LayoutTypeOK, RawTypeOK, RawShape, Begin \/ TakeGap \/ LastGap, UNCHANGED layoutVars
    PROVE  RawTypeOK' /\ RawShape'
<1>u. pc' = pc /\ parts' = parts /\ medium' = medium /\ StartThreshold' = StartThreshold
  BY DEF layoutVars, StartThreshold, OfGpt
<1>a. /\ left \subseteq DOMAIN parts /\ pos \in Nat /\ gaps \subseteq Extents
      /\ command \in {"scan", "egress"}
  BY DEF RawTypeOK
<1>b. /\ StartThreshold \in Nat /\ StartThreshold >= 1
      /\ EndThreshold \in Nat /\ EndThreshold < Total /\ Total \in Nat \ {0} /\ Prefix \in Nat
  BY ThresholdsAre, TotalAssumption, PrefixAssumption
<1>1. CASE Begin
  <2>1. gaps' \in {gaps, {[from |-> 1, to |-> Total - 1]}} /\ (gaps' # gaps => Total > 1)
    BY <1>1 DEF Begin, RawShape
  <2>2. gaps' \subseteq Extents /\ \A g \in gaps' : g.from >= 1 /\ g.from <= g.to /\ g.to < Total
    BY <1>a, <1>b, <2>1 DEF Extents, RawShape
  <2>3. pos' \in Nat /\ (step' = "gaps" => pos' = StartThreshold)
    BY <1>1, <1>b DEF Begin
  <2>4. /\ step' \in {"gaps", "ranges", "remnants"} /\ left' = DOMAIN parts
        /\ pc = "layout" /\ step = "wait"
        /\ UNCHANGED <<command, ranges, range, at, chunkEnd, carved, odd, cut>>
    BY <1>1 DEF Begin
  <2>. QED BY <1>u, <1>b, <2>2, <2>3, <2>4 DEF RawTypeOK, RawShape
<1>2. CASE TakeGap
  <2>1. left # {} /\ left' = left \ {NextPart} /\ step = "gaps"
    BY <1>2 DEF TakeGap
  <2>2. NextPart \in left /\ parts[NextPart] \in Partitions
    BY <2>1, <1>a, NextPartIs
  <2>. DEFINE p == parts[NextPart]
              to == Smaller(p.start - 1, EndThreshold)
  <2>3. p.start \in Nat /\ p.end \in Nat
    BY <2>2 DEF Partitions
  <2>4. \/ gaps' = gaps /\ pos' \in {pos, Larger(pos, p.end + 1)}
        \/ /\ p.start > pos /\ pos <= to
           /\ gaps' = gaps \cup {[from |-> pos, to |-> to]} /\ pos' = Larger(pos, p.end + 1)
    BY <1>2 DEF TakeGap
  <2>5. pos' \in Nat /\ pos' >= StartThreshold
    BY <1>a, <1>b, <2>1, <2>3, <2>4 DEF Larger, RawShape
  <2>6. gaps' \subseteq Extents /\ \A g \in gaps' : g.from >= 1 /\ g.from <= g.to /\ g.to < Total
    <3>1. CASE gaps' = gaps
      BY <3>1, <1>a DEF RawShape
    <3>2. CASE /\ p.start > pos /\ pos <= to
               /\ gaps' = gaps \cup {[from |-> pos, to |-> to]}
      <4>1. to \in Nat /\ to < Total /\ pos >= 1
        BY <3>2, <1>a, <1>b, <2>1, <2>3 DEF Smaller, RawShape
      <4>. HIDE DEF to
      <4>. QED BY <3>2, <4>1, <1>a DEF Extents, RawShape
    <3>. QED BY <2>4, <3>1, <3>2
  <2>7. UNCHANGED <<command, step, ranges, range, at, chunkEnd, carved, odd, cut>>
    BY <1>2 DEF TakeGap
  <2>. QED BY <1>u, <1>a, <2>1, <2>5, <2>6, <2>7 DEF RawTypeOK, RawShape
<1>3. CASE LastGap
  <2>1. /\ pos' \in Nat /\ step = "gaps" /\ step' \in {"sample", "remnants"}
        /\ UNCHANGED <<command, left, ranges, range, at, chunkEnd, carved, odd, cut>>
    BY <1>3, <1>a, <1>b DEF LastGap, Larger
  <2>2. pos >= 1
    BY <2>1, <1>a, <1>b DEF RawShape
  <2>3. gaps' \subseteq Extents /\ \A g \in gaps' : g.from >= 1 /\ g.from <= g.to /\ g.to < Total
    BY <1>3, <1>a, <1>b, <2>2 DEF LastGap, Extents, RawShape
  <2>. QED BY <1>u, <2>1, <2>3 DEF RawTypeOK, RawShape
<1>. QED BY <1>1, <1>2, <1>3

\* So do the searches in the gaps.
LEMMA RawTypeSearch ==
    ASSUME LayoutTypeOK, RawTypeOK, RawShape, Sample \/ Remnants \/ VerifyWipe, UNCHANGED layoutVars
    PROVE  RawTypeOK' /\ RawShape'
<1>u. pc' = pc /\ parts' = parts /\ medium' = medium /\ StartThreshold' = StartThreshold
  BY DEF layoutVars, StartThreshold, OfGpt
<1>a. \A g \in gaps : g.from \in Nat /\ g.to \in Nat /\ g.from <= g.to /\ g.from .. g.to \subseteq Sectors
  <2>1. \A g \in gaps : g \in Extents /\ g.from >= 1 /\ g.from <= g.to /\ g.to < Total
    BY DEF RawTypeOK, RawShape
  <2>. QED BY <2>1, TotalAssumption DEF Extents, Sectors
<1>1. CASE Sample
  <2>1. \A g \in gaps : Sampled(g) \subseteq Sectors
    BY <1>a, SampledIs
  <2>2. odd' \subseteq Sectors
    BY <1>1, <2>1 DEF Sample, First
  <2>3. /\ step = "sample" /\ step' = "ranges" /\ left' = DOMAIN parts /\ pos' \in Nat
        /\ UNCHANGED <<command, gaps, ranges, range, at, chunkEnd, carved, cut>>
    BY <1>1, PrefixAssumption DEF Sample
  <2>. QED BY <1>u, <2>2, <2>3 DEF RawTypeOK, RawShape
<1>2. CASE Remnants
  BY <1>2, <1>u DEF Remnants, Signatures, RawTypeOK, RawShape
<1>3. CASE VerifyWipe
  <2>1. \A g \in gaps : WipeChunks(g) \subseteq Sectors
    BY <1>a DEF WipeChunks
  <2>2. odd' \subseteq Sectors
    BY <1>3, <2>1 DEF VerifyWipe, First, RawTypeOK
  <2>3. /\ step = "wipe" /\ step' = "done"
        /\ UNCHANGED <<command, left, pos, gaps, ranges, range, at, chunkEnd, carved, cut>>
    BY <1>3 DEF VerifyWipe
  <2>. QED BY <1>u, <2>2, <2>3 DEF RawTypeOK, RawShape
<1>. QED BY <1>1, <1>2, <1>3

\* The ranges to carve are typed as they are collected.
LEMMA RawTypeRanges ==
    ASSUME LayoutTypeOK, RawTypeOK, RawShape, LeaveUncarved \/ TakeRange \/ LastRange,
           UNCHANGED layoutVars
    PROVE  RawTypeOK' /\ RawShape'
<1>u. pc' = pc /\ parts' = parts /\ medium' = medium /\ StartThreshold' = StartThreshold
  BY DEF layoutVars, StartThreshold, OfGpt
<1>a. pos \in Nat /\ ranges \in Seq(Extents) /\ left \subseteq DOMAIN parts
  BY DEF RawTypeOK
<1>1. CASE TakeRange
  <2>1. left # {} /\ left' = left \ {NextPart} /\ step = "ranges"
    BY <1>1 DEF TakeRange
  <2>2. NextPart \in left /\ parts[NextPart] \in Partitions
    BY <2>1, <1>a, NextPartIs
  <2>. DEFINE p == parts[NextPart]
              r == [from |-> pos, to |-> p.start]
  <2>3. p.start \in Nat /\ p.end \in Nat /\ r \in Extents
    BY <1>a, <2>2 DEF Partitions, Extents
  <2>4. ranges' \in {ranges, Append(ranges, r)} /\ pos' = p.end + 1
        /\ UNCHANGED <<command, step, gaps, range, at, chunkEnd, carved, odd, cut>>
    BY <1>1 DEF TakeRange
  <2>. HIDE DEF p, r
  <2>5. ranges' \in Seq(Extents) /\ Len(ranges') \in Nat
    <3>1. Append(ranges, r) \in Seq(Extents)
      BY <1>a, <2>3
    <3>. QED BY <1>a, <2>4, <3>1
  <2>6. pos' \in Nat
    BY <2>3, <2>4
  <2>. QED BY <1>u, <1>a, <2>1, <2>4, <2>5, <2>6 DEF RawTypeOK, RawShape
<1>2. CASE LastRange
  <2>1. Total \in Nat
    BY TotalAssumption
  <2>. DEFINE all == [from |-> 0, to |-> Total]
              rest == [from |-> pos, to |-> Total]
  <2>2. all \in Extents /\ rest \in Extents
    BY <1>a, <2>1 DEF Extents
  <2>3. /\ ranges' \in {ranges, <<>>, <<all>>, Append(ranges, rest)}
        /\ step = "ranges" /\ step' = "carve"
        /\ UNCHANGED <<command, left, pos, gaps, range, carved, odd, cut>>
    BY <1>2 DEF LastRange
  <2>4. /\ at' = IF ranges' # <<>> THEN ranges'[1].from ELSE 0
        /\ chunkEnd' = at'
    BY <1>2 DEF LastRange
  <2>. HIDE DEF all, rest
  <2>5. ranges' \in Seq(Extents) /\ Len(ranges') \in Nat
    <3>1. <<all>> \in Seq(Extents) /\ Append(ranges, rest) \in Seq(Extents) /\ <<>> \in Seq(Extents)
      BY <1>a, <2>2
    <3>2. ranges' \in Seq(Extents)
      BY <1>a, <2>3, <3>1
    <3>. QED BY <3>2
  <2>6. at' \in Nat /\ chunkEnd' \in Nat
    <3>1. ranges' # <<>> => ranges'[1] \in Extents
      BY <2>5
    <3>. QED BY <2>4, <3>1 DEF Extents
  <2>7. 1 <= Len(ranges') => ranges' # <<>>
    BY <2>5
  <2>8. range = 1
    BY <2>3 DEF RawShape
  <2>. QED BY <1>u, <1>a, <2>3, <2>4, <2>5, <2>6, <2>7, <2>8 DEF RawTypeOK, RawShape
<1>3. CASE LeaveUncarved
  <2>1. /\ step' = "done"
        /\ UNCHANGED <<command, left, pos, gaps, ranges, range, at, chunkEnd, carved, odd, cut>>
    BY <1>3 DEF LeaveUncarved
  <2>2. RawTypeOK'
    BY <1>u, <2>1 DEF RawTypeOK
  <2>3. RawShape'
    BY <1>3, <1>u, <2>1 DEF RawShape, LeaveUncarved
  <2>. QED BY <2>2, <2>3
<1>. QED BY <1>1, <1>2, <1>3

\* And so does the carving.
LEMMA RawTypeCarve ==
    ASSUME LayoutTypeOK, RawTypeOK, RawShape, Carve, UNCHANGED layoutVars
    PROVE  RawTypeOK' /\ RawShape'
<1>u. pc' = pc /\ parts' = parts /\ medium' = medium /\ StartThreshold' = StartThreshold
  BY DEF layoutVars, StartThreshold, OfGpt
<1>a. /\ at \in Nat /\ chunkEnd \in Nat /\ range \in 1 .. Len(ranges) + 1 /\ Len(ranges) \in Nat
      /\ carved \in Seq([at : Sectors, size : Nat]) /\ odd \subseteq Sectors /\ cut \subseteq Sectors
      /\ ranges \in Seq(Extents)
  BY DEF RawTypeOK, RawShape
<1>b. range <= Len(ranges) => ranges[range].from \in Nat /\ ranges[range].to \in Nat
  <2>1. range <= Len(ranges) => ranges[range] \in Extents
    BY <1>a
  <2>. QED BY <2>1 DEF Extents
<1>c. Total \in Nat \ {0} /\ Chunk \in Nat \ {0}
  BY TotalAssumption, ChunkAssumption
<1>d. /\ step = "carve" /\ UNCHANGED <<command, left, pos, gaps, ranges>>
  BY DEF Carve, ReadChunk, CarveFile, PassSector, NextRange, EndCarving, GoesOn
<1>e. at < chunkEnd => /\ range <= Len(ranges) /\ chunkEnd <= ranges[range].to
                       /\ chunkEnd <= Total /\ at \in Sectors
  BY <1>a, <1>c, <1>d DEF RawShape, Sectors
<1>f. range <= Len(ranges) => at >= ranges[range].from
  BY <1>d DEF RawShape
<1>1. CASE ReadChunk
  <2>1. /\ range <= Len(ranges) /\ step' = step
        /\ chunkEnd' = Smaller(Smaller(at + Chunk, ranges[range].to), Total)
        /\ UNCHANGED <<range, at, carved, odd, cut>>
    BY <1>1 DEF ReadChunk, GoesOn
  <2>2. chunkEnd' \in Nat /\ chunkEnd' <= ranges[range].to /\ chunkEnd' <= Total
    BY <1>a, <1>b, <1>c, <2>1 DEF Smaller
  <2>. QED BY <1>u, <1>d, <2>1, <2>2 DEF RawTypeOK, RawShape
<1>2. CASE CarveFile
  <2>1. at < chunkEnd /\ step' = step /\ UNCHANGED <<range, chunkEnd, cut>>
    BY <1>2 DEF CarveFile
  <2>2. content[at] \in Cells
    BY <1>e, <2>1, ContentIs
  <2>. DEFINE size == Smaller(content[at].size, ranges[range].to - at)
  <2>3. size \in Nat
    BY <1>a, <1>b, <1>e, <2>1, <2>2 DEF Smaller, Cells
  <2>4. /\ carved' = Append(carved, [at |-> at, size |-> size]) /\ Skip(size)
        /\ odd' = odd \cup {at}
    BY <1>2 DEF CarveFile
  <2>. HIDE DEF size
  <2>5. carved' \in Seq([at : Sectors, size : Nat])
    <3>1. [at |-> at, size |-> size] \in [at : Sectors, size : Nat]
      BY <1>e, <2>1, <2>3
    <3>2. \A S, c : c \in S /\ carved \in Seq(S) => Append(carved, c) \in Seq(S)
      OBVIOUS
    <3>. QED BY <1>a, <2>4, <3>1, <3>2
  <2>6. at' \in Nat /\ at' >= at /\ odd' \subseteq Sectors
    BY <1>a, <1>e, <2>1, <2>3, <2>4 DEF Skip, Larger
  <2>7. step = "carve" /\ range <= Len(ranges) => at' >= ranges[range].from
    BY <1>a, <1>b, <1>f, <2>6
  <2>. QED BY <1>u, <1>a, <1>d, <1>e, <2>1, <2>6, <2>7, <2>5 DEF RawTypeOK, RawShape
<1>3. CASE PassSector
  <2>1. /\ at < chunkEnd /\ step' = step /\ at' = at + 1 /\ cut' \in {cut, cut \cup {at}}
        /\ UNCHANGED <<range, chunkEnd, carved, odd>>
    BY <1>3 DEF PassSector
  <2>2. cut' \subseteq Sectors
    BY <1>a, <1>e, <2>1
  <2>3. at' \in Nat /\ range <= Len(ranges) => at' >= ranges[range].from
    BY <1>a, <1>b, <1>f, <2>1
  <2>. QED BY <1>u, <1>a, <1>d, <1>e, <2>1, <2>2, <2>3 DEF RawTypeOK, RawShape
<1>4. CASE NextRange
  <2>1. /\ range <= Len(ranges) /\ range' = range + 1 /\ step' = step
        /\ at' = IF range < Len(ranges) THEN ranges[range + 1].from ELSE 0
        /\ chunkEnd' = at'
        /\ UNCHANGED <<carved, odd, cut>>
    BY <1>4 DEF NextRange, GoesOn
  <2>2. range < Len(ranges) => ranges[range + 1] \in Extents
    BY <1>a
  <2>3. at' \in Nat /\ (range' <= Len(ranges) => at' = ranges[range'].from)
    BY <1>a, <2>1, <2>2 DEF Extents
  <2>4. range' \in 1 .. Len(ranges) + 1
    BY <1>a, <2>1
  <2>5. range' <= Len(ranges) => ranges[range'].from \in Nat
    BY <1>a, <2>1, <2>2 DEF Extents
  <2>. QED BY <1>u, <1>a, <1>d, <2>1, <2>3, <2>4, <2>5 DEF RawTypeOK, RawShape
<1>5. CASE EndCarving
  <2>1. step' = "done" /\ UNCHANGED <<range, at, chunkEnd, carved, odd, cut>>
    BY <1>5 DEF EndCarving
  <2>. QED BY <1>u, <1>d, <2>1 DEF RawTypeOK, RawShape
<1>. QED BY <1>1, <1>2, <1>3, <1>4, <1>5 DEF Carve

-----------------------------------------------------------------------------
(***************************************************************************)
(* The files: type correctness.                                            *)
(***************************************************************************)

\* While calls are open there is a file they are about.
StageShape == stack # <<>> => file <= Len(files)

\* What the assumptions say of the files of a medium and of the archives.
LEMMA FilesAre ==
    ASSUME medium \in Media
    PROVE  /\ files \in Seq(Files) /\ Len(files) \in Nat
           /\ \A i \in DOMAIN files : files[i].holds \in Archives \cup {NoArchive}
<1>1. files \in Seq(Files)
  BY FilesAssumption DEF files
<1>2. \A i \in DOMAIN files : files[i] \in Files
  BY <1>1
<1>. QED BY <1>1, <1>2 DEF Files

\* Of an archive, what it holds and what its members are.
LEMMA ArchiveIs ==
    ASSUME NEW a \in Archives
    PROVE  /\ ArchiveOf[a] \in Holdings /\ ArchiveOf[a].members \in Seq(Members)
           /\ \A i \in DOMAIN ArchiveOf[a].members : ArchiveOf[a].members[i] \in Members
<1>1. ArchiveOf[a] \in Holdings
  BY ArchivesAssumption
<1>2. ArchiveOf[a].members \in Seq(Members)
  BY <1>1 DEF Holdings
<1>. QED BY <1>1, <1>2

\* The call at hand, and those below it.
LEMMA TopIs ==
    ASSUME stack \in Seq(Frames), stack # <<>>
    PROVE  /\ Top \in Frames /\ Holding \in Holdings
           /\ Below \in Seq(Frames) /\ Len(Below) = Len(stack) - 1
           /\ \A i \in 1 .. Len(Below) : Below[i] = stack[i]
           /\ Top.at <= Len(Holding.members) => Member \in Members
<1>1. Len(stack) \in Nat \ {0} /\ Top \in Frames
  BY DEF Top
<1>2. /\ Below \in Seq(Frames) /\ Len(Below) = Len(stack) - 1
      /\ \A i \in 1 .. Len(Below) : Below[i] = stack[i]
  <2>. DEFINE n == Len(stack) - 1
  <2>1. n \in Nat /\ \A i \in 1 .. n : stack[i] \in Frames
    BY <1>1
  <2>2. /\ SubSeq(stack, 1, n) \in Seq(Frames)
        /\ Len(SubSeq(stack, 1, n)) = IF 1 <= n THEN n - 1 + 1 ELSE 0
        /\ \A i \in 1 .. n - 1 + 1 : SubSeq(stack, 1, n)[i] = stack[1 + i - 1]
    BY <2>1, SubSeqProperties
  <2>3. Len(Below) = n
    <3>1. Below = SubSeq(stack, 1, n)
      BY DEF Below
    <3>. HIDE DEF n
    <3>2. CASE 1 <= n
      <4>1. Len(SubSeq(stack, 1, n)) = n - 1 + 1
        BY <2>2, <3>2
      <4>2. n - 1 + 1 = n
        BY <2>1
      <4>. QED BY <3>1, <4>1, <4>2
    <3>3. CASE ~ (1 <= n)
      <4>1. Len(SubSeq(stack, 1, n)) = 0
        BY <2>2, <3>3
      <4>2. n = 0
        BY <2>1, <3>3
      <4>. QED BY <3>1, <4>1, <4>2
    <3>. QED BY <3>2, <3>3
  <2>4. \A i \in 1 .. n : Below[i] = stack[i]
    <3>1. \A i \in 1 .. n : i \in 1 .. n - 1 + 1 /\ 1 + i - 1 = i
      BY <2>1
    <3>. QED BY <2>2, <3>1 DEF Below
  <2>. QED BY <2>2, <2>3, <2>4 DEF Below
<1>3. Top.holds \in Archives /\ Top.at \in Nat \ {0}
  BY <1>1 DEF Frames
<1>4. /\ Holding \in Holdings /\ Holding.members \in Seq(Members)
      /\ \A i \in DOMAIN Holding.members : Holding.members[i] \in Members
  BY <1>3, ArchiveIs DEF Holding
<1>5. Top.at <= Len(Holding.members) => Member \in Members
  BY <1>3, <1>4 DEF Member
<1>. QED BY <1>1, <1>2, <1>4, <1>5

\* A call opens at most one more, within the depth that is allowed.
LEMMA EnterIs ==
    ASSUME NEW a \in Archives \cup {NoArchive}, NEW frames \in Seq(Frames),
           Len(frames) <= MaxNesting + 1, NEW found, Enter(a, frames, found)
    PROVE  /\ stack' \in Seq(Frames) /\ Len(stack') <= MaxNesting + 1
           /\ a = NoArchive => stack' = frames
           /\ suspects' \in {suspects, suspects \cup {file}}
<1>. DEFINE f == [holds |-> a, at |-> 1, opened |-> FALSE]
<1>1. Len(frames) \in Nat /\ MaxNesting \in Nat
  BY NestingAssumption
<1>2. a # NoArchive => f \in Frames
  BY DEF Frames
<1>3. \/ stack' = frames
      \/ a # NoArchive /\ ~ (Len(frames) > MaxNesting) /\ stack' = Append(frames, f)
  BY DEF Enter, TooDeep
<1>. HIDE DEF f
<1>4. stack' \in Seq(Frames) /\ Len(stack') <= MaxNesting + 1
  BY <1>1, <1>2, <1>3
<1>5. (a = NoArchive => stack' = frames) /\ suspects' \in {suspects, suspects \cup {file}}
  BY DEF Enter, Suspect
<1>. QED BY <1>4, <1>5

\* The frame on top goes on to the next member, or into the one it is at.
LEMMA AdvancedIs ==
    ASSUME stack \in Seq(Frames), stack # <<>>
    PROVE  /\ Advanced \in Seq(Frames) /\ Len(Advanced) = Len(stack)
           /\ Append(Below, [Top EXCEPT !.opened = TRUE]) \in Seq(Frames)
           /\ Len(Append(Below, [Top EXCEPT !.opened = TRUE])) = Len(stack)
<1>1. Top \in Frames /\ Below \in Seq(Frames) /\ Len(Below) = Len(stack) - 1 /\ Len(stack) \in Nat
  BY TopIs
<1>2. /\ [Top EXCEPT !.at = @ + 1, !.opened = FALSE] \in Frames
      /\ [Top EXCEPT !.opened = TRUE] \in Frames
  <2>1. Top.at + 1 \in Nat \ {0}
    BY <1>1 DEF Frames
  <2>. QED BY <1>1, <2>1 DEF Frames
<1>. QED BY <1>1, <1>2 DEF Advanced

\* Leaving an archive keeps the types.
LEMMA LeaveIs ==
    ASSUME LayoutTypeOK, StageTypeOK, StageShape, stack # <<>>, NEW found, LeaveWith(found)
    PROVE  /\ file' \in 1 .. Len(files) + 1 /\ suspects' \subseteq 1 .. file'
           /\ stack' \in Seq(Frames) /\ Len(stack') <= MaxNesting + 1
           /\ stack' # <<>> => file' <= Len(files)
<1>1. /\ stack' \in Seq(Frames) /\ Len(stack') = Len(stack) - 1 /\ Len(stack) \in Nat
      /\ stack' = Below
  BY TopIs DEF LeaveWith, StageTypeOK
<1>2. /\ file \in 1 .. Len(files) /\ Len(files) \in Nat /\ MaxNesting \in Nat
      /\ Len(stack) <= MaxNesting + 1 /\ suspects \subseteq 1 .. file
  BY FilesAre, NestingAssumption DEF StageTypeOK, StageShape, LayoutTypeOK
<1>3. /\ file' \in {file, file + 1} /\ (stack' # <<>> => file' = file)
      /\ suspects' \in {suspects, suspects \cup {file}}
  BY <1>1 DEF LeaveWith, Suspect
<1>. QED BY <1>1, <1>2, <1>3

\* Every step of the file scan keeps the types.
LEMMA StageTypeStep ==
    ASSUME LayoutTypeOK, StageTypeOK, StageShape, FileNext, UNCHANGED vars
    PROVE  StageTypeOK' /\ StageShape'
<1>u. files' = files /\ TypeOK'
  <2>1. TypeOK
    BY DEF StageTypeOK
  <2>. QED BY <2>1 DEF vars, layoutVars, rawVars, files, TypeOK, LayoutTypeOK, RawTypeOK, disk,
           StartThreshold, OfGpt
<1>a. /\ stack \in Seq(Frames) /\ Len(stack) <= MaxNesting + 1 /\ total \in Nat
      /\ file \in 1 .. Len(files) + 1 /\ suspects \subseteq 1 .. file
  BY DEF StageTypeOK
<1>b. files \in Seq(Files) /\ Len(files) \in Nat /\ MaxNesting \in Nat
  BY FilesAre, NestingAssumption DEF LayoutTypeOK
<1>. DEFINE Good == /\ stack' \in Seq(Frames) /\ Len(stack') <= MaxNesting + 1 /\ total' \in Nat
                    /\ file' \in 1 .. Len(files) + 1 /\ suspects' \subseteq 1 .. file'
                    /\ stack' # <<>> => file' <= Len(files)
<1>. SUFFICES Good
  BY <1>u DEF StageTypeOK, StageShape
<1>c. stack # <<>> => /\ Top.at \in Nat \ {0} /\ Advanced \in Seq(Frames) /\ Len(Advanced) = Len(stack)
                      /\ Top.at <= Len(Holding.members) => Member \in Members
  BY <1>a, TopIs, AdvancedIs DEF Frames
<1>d. ASSUME stack # <<>>, NEW a \in Archives \cup {NoArchive}, NEW frames \in Seq(Frames),
             Len(frames) <= MaxNesting + 1, NEW found, Enter(a, frames, found), file' = file, total' \in Nat
      PROVE  Good
  <2>1. /\ stack' \in Seq(Frames) /\ Len(stack') <= MaxNesting + 1
        /\ suspects' \in {suspects, suspects \cup {file}}
    BY <1>d, EnterIs
  <2>2. file <= Len(files)
    BY <1>d DEF StageShape
  <2>. QED BY <1>a, <1>b, <1>d, <2>1, <2>2
<1>e. \A m \in Members : m.size \in Nat /\ m.nested \in Archives \cup {NoArchive}
  BY DEF Members
<1>1. CASE TakeFile
  <2>. DEFINE f == files[file]
              a == IF f.state = "whole" THEN f.holds ELSE NoArchive
  <2>1. /\ file <= Len(files) /\ total' = 0
        /\ Enter(a, <<>>, f.odd \cap Inspected(f.state) # {})
        /\ file' = IF a = NoArchive THEN file + 1 ELSE file
    BY <1>1 DEF TakeFile
  <2>2. a \in Archives \cup {NoArchive}
    BY <1>a, <1>b, <2>1, FilesAre DEF LayoutTypeOK
  <2>3. <<>> \in Seq(Frames) /\ Len(<<>>) <= MaxNesting + 1
    BY <1>b
  <2>. HIDE DEF a
  <2>4. /\ stack' \in Seq(Frames) /\ Len(stack') <= MaxNesting + 1
        /\ a = NoArchive => stack' = <<>>
        /\ suspects' \in {suspects, suspects \cup {file}}
    BY <2>1, <2>2, <2>3, EnterIs
  <2>. QED BY <1>a, <1>b, <2>1, <2>4
<1>2. CASE OpenMember
  <2>. DEFINE frames == Append(Below, [Top EXCEPT !.opened = TRUE])
  <2>1. stack # <<>> /\ Top.at <= Len(Holding.members) /\ Enter(Member.nested, frames, Member.odd)
        /\ file' = file /\ total' = total
    BY <1>2 DEF OpenMember, AtMember
  <2>2. frames \in Seq(Frames) /\ Len(frames) = Len(stack)
    BY <1>a, <2>1, AdvancedIs
  <2>3. Member.nested \in Archives \cup {NoArchive}
    BY <1>c, <1>e, <2>1
  <2>. HIDE DEF frames
  <2>. QED BY <1>a, <1>d, <2>1, <2>2, <2>3
<1>3. CASE CountMember
  <2>1. stack # <<>> /\ Top.at <= Len(Holding.members) /\ total' = total + Member.size
    BY <1>3 DEF CountMember, AtMember
  <2>2. total' \in Nat
    BY <1>a, <1>c, <1>e, <2>1
  <2>3. CASE LeaveWith(TRUE)
    BY <2>1, <2>2, <2>3, LeaveIs
  <2>4. CASE stack' = Advanced /\ UNCHANGED <<file, suspects>>
    BY <1>a, <1>c, <2>1, <2>2, <2>4 DEF StageShape
  <2>. QED BY <1>3, <2>3, <2>4 DEF CountMember
<1>4. CASE TakeMember
  <2>1. stack # <<>> /\ Top.at <= Len(Holding.members) /\ total' = total + Member.size
    BY <1>4 DEF TakeMember, AtMember
  <2>2. total' \in Nat /\ Member.nested \in Archives \cup {NoArchive}
    BY <1>a, <1>c, <1>e, <2>1
  <2>3. CASE LeaveWith(TRUE)
    BY <2>1, <2>2, <2>3, LeaveIs
  <2>4. CASE Enter(Member.nested, Advanced, Member.odd) /\ UNCHANGED file
    BY <1>a, <1>c, <1>d, <2>1, <2>2, <2>4
  <2>. QED BY <1>4, <2>3, <2>4 DEF TakeMember
<1>5. CASE Unpack
  <2>1. stack # <<>> /\ Top.at <= Len(Holding.members) /\ total' \in {total, total + Member.size}
        /\ Enter(Member.nested, Advanced, Member.odd) /\ file' = file
    BY <1>5 DEF Unpack, AtMember
  <2>2. total' \in Nat /\ Member.nested \in Archives \cup {NoArchive}
    BY <1>a, <1>c, <1>e, <2>1
  <2>. QED BY <1>a, <1>c, <1>d, <2>1, <2>2
<1>6. CASE LeaveArchive
  <2>1. stack # <<>> /\ LeaveWith(FALSE) /\ total' = total
    BY <1>6 DEF LeaveArchive
  <2>. QED BY <1>a, <2>1, LeaveIs
<1>. QED BY <1>1, <1>2, <1>3, <1>4, <1>5, <1>6 DEF FileNext

\* What every state of the scan satisfies.
TypeInv == StageTypeOK /\ RawShape /\ StageShape

\* The types hold at the start.
LEMMA TypeInit == StageInit => TypeInv
<1>. SUFFICES ASSUME StageInit PROVE TypeInv
  OBVIOUS
<1>1. LayoutTypeOK /\ RawTypeOK /\ RawShape
  BY LayoutTypeInit, RawTypeInit DEF StageInit, Init
<1>2. Len(files) \in Nat
  BY <1>1, FilesAre DEF LayoutTypeOK
<1>3. stack \in Seq(Frames) /\ Len(stack) <= MaxNesting + 1
  BY NestingAssumption DEF StageInit
<1>. QED BY <1>1, <1>2, <1>3 DEF StageInit, StageTypeOK, TypeOK, TypeInv, StageShape

\* The files do not depend on what is done with the space between partitions.
LEMMA StageTypeKept ==
    ASSUME TypeInv, LayoutTypeOK', RawTypeOK', RawShape', medium' = medium, UNCHANGED fileVars
    PROVE  TypeInv'
<1>1. files' = files
  BY DEF files
<1>2. /\ file' = file /\ stack' = stack /\ total' = total /\ suspects' = suspects
  BY DEF fileVars
<1>. QED BY <1>1, <1>2 DEF TypeInv, StageTypeOK, StageShape, TypeOK

\* A step of the parser, or one in the space between partitions, and nothing else.
LEMMA Steps ==
    ASSUME TypeInv, [StageNext]_stageVars
    PROVE  \/ FileNext /\ UNCHANGED vars
           \/ LayoutNext /\ UNCHANGED rawVars /\ UNCHANGED fileVars
           \/ RawNext /\ UNCHANGED layoutVars /\ UNCHANGED fileVars
           \/ UNCHANGED stageVars
BY DEF StageNext, Next

\* Every step keeps the types.
LEMMA TypeStep == TypeInv /\ [StageNext]_stageVars => TypeInv'
<1>. SUFFICES ASSUME TypeInv, [StageNext]_stageVars PROVE TypeInv'
  OBVIOUS
<1>. LayoutTypeOK /\ RawTypeOK /\ RawShape /\ StageTypeOK /\ StageShape
  BY DEF TypeInv, StageTypeOK, TypeOK
<1>1. CASE FileNext /\ UNCHANGED vars
  <2>1. StageTypeOK' /\ StageShape'
    BY <1>1, StageTypeStep
  <2>2. RawShape'
    BY <1>1 DEF vars, layoutVars, rawVars, RawShape, StartThreshold, OfGpt
  <2>. QED BY <2>1, <2>2 DEF TypeInv
<1>2. CASE LayoutNext /\ UNCHANGED rawVars /\ UNCHANGED fileVars
  <2>1. medium' = medium
    BY <1>2 DEF LayoutNext, ReadMbr, StartChain, ReadRecord, EndChain, Inspect
  <2>. QED BY <1>2, <2>1, LayoutTypeStep, RawTypeParser, StageTypeKept
<1>3. CASE RawNext /\ UNCHANGED layoutVars /\ UNCHANGED fileVars
  <2>1. RawTypeOK' /\ RawShape'
    BY <1>3, RawTypeGaps, RawTypeSearch, RawTypeRanges, RawTypeCarve DEF RawNext
  <2>2. LayoutTypeOK' /\ medium' = medium
    BY <1>3 DEF layoutVars, LayoutTypeOK
  <2>. QED BY <1>3, <2>1, <2>2, StageTypeKept
<1>4. CASE UNCHANGED stageVars
  <2>1. UNCHANGED vars /\ UNCHANGED fileVars
    BY <1>4 DEF stageVars
  <2>2. UNCHANGED layoutVars /\ UNCHANGED rawVars /\ medium' = medium
    BY <2>1 DEF vars, layoutVars
  <2>3. LayoutTypeOK'
    BY <2>2 DEF layoutVars, LayoutTypeOK
  <2>4. RawTypeOK'
    BY <2>2 DEF layoutVars, rawVars, RawTypeOK
  <2>5. RawShape'
    BY <2>2 DEF layoutVars, rawVars, RawShape, StartThreshold, OfGpt
  <2>. QED BY <2>1, <2>2, <2>3, <2>4, <2>5, StageTypeKept
<1>. QED BY <1>1, <1>2, <1>3, <1>4, Steps

\* The types and the shapes hold throughout.
LEMMA TypeInvariant == Spec => []TypeInv
<1>. QED BY TypeInit, TypeStep, PTL DEF Spec

\* The stages of a scan stay within their kinds and limits: no more archives are open
\* at a time than the depth allows, and nothing is carved or found off the medium.
THEOREM StageTypeCorrect == Spec => []StageTypeOK
<1>1. TypeInv => StageTypeOK
  BY DEF TypeInv
<1>. QED BY <1>1, TypeInvariant, PTL

-----------------------------------------------------------------------------
(***************************************************************************)
(* The gaps between partitions.                                            *)
(***************************************************************************)

InGap(s) == \E g \in gaps : s \in g.from .. g.to
Has(k, s) == s \in parts[k].start .. parts[k].end /\ parts[k].count > 0

\* The partitions the loop has seen.
Taken == DOMAIN parts \ left
Counts(k) == parts[k].start <= parts[k].end /\ parts[k].count > 0

\* While the loop over the gaps runs: it comes to the partitions in order; pos is
\* behind all that it saw and right behind one of them; the gaps are what the others
\* leave of the sectors up to there.
Looping ==
    /\ \A j \in Taken, k \in left : parts[j].start <= parts[k].start
    /\ pos >= StartThreshold
    /\ pos = StartThreshold \/ \E j \in Taken : Counts(j) /\ pos = parts[j].end + 1
    /\ \A j \in Taken : Counts(j) => parts[j].end < pos
    /\ \A s \in Sectors :
         InGap(s) <=> s \in StartThreshold .. EndThreshold /\ s < pos /\ \A j \in Taken : ~Has(j, s)

\* Once it has ended the gaps are all that no partition has.
GapsKnown ==
    /\ \A s \in Sectors : InGap(s) => Unallocated(s)
    /\ \A s \in Sectors : s \in StartThreshold .. EndThreshold /\ Unallocated(s) => InGap(s)
    /\ parts # <<>> => /\ \A s \in Sectors : InGap(s) => s \in StartThreshold .. EndThreshold
                       /\ pos > EndThreshold

GapsInv ==
    /\ step = "gaps" => parts # <<>> /\ Looping
    /\ step \in {"sample", "remnants", "wipe"} => GapsKnown
    /\ step = "done" /\ command = "egress" => GapsKnown
    /\ step \in {"ranges", "carve", "sample"} => command = "scan"
    /\ step \in {"remnants", "wipe"} => command = "egress"

\* The partitions as the loops use them.
LEMMA PartsAre ==
    ASSUME LayoutTypeOK, NEW k \in DOMAIN parts
    PROVE  /\ parts[k] \in Partitions
           /\ parts[k].start \in Nat /\ parts[k].end \in Nat /\ parts[k].count \in Nat
<1>1. parts[k] \in Partitions
  BY DEF LayoutTypeOK
<1>. QED BY <1>1 DEF Partitions

\* The next partition extends the gaps by what lies in front of it.
LEMMA GapsTaken ==
    ASSUME TypeInv, GapsInv, TakeGap, UNCHANGED layoutVars
    PROVE  GapsInv'
<1>. DEFINE n == NextPart
            p == parts[n]
            to == Smaller(p.start - 1, EndThreshold)
<1>a. LayoutTypeOK /\ RawTypeOK /\ RawShape
  BY DEF TypeInv, StageTypeOK, TypeOK
<1>b. /\ step = "gaps" /\ step' = "gaps" /\ left # {} /\ left' = left \ {n}
      /\ parts # <<>> /\ Looping /\ command' = command
  BY DEF TakeGap, GapsInv
<1>c. n \in left /\ left \subseteq DOMAIN parts /\ \A k \in left : parts[n].start <= parts[k].start
  <2>1. left \subseteq DOMAIN parts
    BY <1>a DEF RawTypeOK
  <2>2. n \in left /\ \A k \in left : Before(n, k)
    BY <1>a, <1>b, <2>1, NextPartIs
  <2>3. \A k \in left : Before(n, k) => parts[n].start <= parts[k].start
    <3>1. \A k \in left : parts[k].start \in Nat
      BY <1>a, <2>1, PartsAre
    <3>. QED BY <2>2, <3>1 DEF Before
  <2>. QED BY <2>1, <2>2, <2>3
<1>d. \A k \in DOMAIN parts : parts[k].start \in Nat /\ parts[k].end \in Nat /\ parts[k].count \in Nat
  BY <1>a, PartsAre
<1>e. /\ pos \in Nat /\ StartThreshold \in Nat /\ EndThreshold \in Nat
      /\ p.start \in Nat /\ p.end \in Nat /\ p.count \in Nat
  BY <1>a, <1>c, <1>d, ThresholdsAre DEF RawTypeOK
<1>u. /\ parts' = parts /\ StartThreshold' = StartThreshold /\ EndThreshold' = EndThreshold
      /\ Taken' = Taken \cup {n} /\ n \notin Taken
  BY <1>b, <1>c DEF layoutVars, StartThreshold, EndThreshold, OfGpt, Taken
<1>1. \A j \in Taken', k \in left' : parts'[j].start <= parts'[k].start
  BY <1>b, <1>c, <1>u DEF Looping
<1>. SUFFICES Looping'
  BY <1>b, <1>u DEF GapsInv
<1>2. CASE p.start > p.end \/ p.count = 0
  <2>1. gaps' = gaps /\ pos' = pos
    BY <1>2 DEF TakeGap
  <2>2. \A s \in Sectors : ~Has(n, s)
    BY <1>2, <1>e DEF Has, Sectors
  <2>3. ~Counts(n)
    BY <1>2, <1>e DEF Counts
  <2>. QED BY <1>1, <1>b, <1>u, <2>1, <2>2, <2>3 DEF Looping, InGap, Has, Counts
<1>3. CASE p.start <= p.end /\ p.count > 0
  <2>. HIDE DEF n
  <2>1. /\ gaps' = IF p.start > pos /\ pos <= to
                     THEN gaps \cup {[from |-> pos, to |-> to]} ELSE gaps
        /\ pos' = Larger(pos, p.end + 1)
    BY <1>3, <1>e DEF TakeGap, n
  <2>2. pos' >= pos /\ pos' > p.end /\ pos' \in {pos, p.end + 1} /\ pos' \in Nat
    BY <1>e, <2>1 DEF Larger
  <2>3. Counts(n)
    BY <1>3 DEF Counts
  <2>4. pos' >= StartThreshold
    BY <1>b, <1>e, <2>2 DEF Looping
  <2>5. pos' = StartThreshold \/ \E j \in Taken' : Counts(j) /\ pos' = parts[j].end + 1
    BY <1>b, <1>u, <2>2, <2>3 DEF Looping
  <2>6. \A j \in Taken' : Counts(j) => parts[j].end < pos'
    <3>1. \A j \in Taken : parts[j].end \in Nat
      BY <1>d DEF Taken
    <3>. QED BY <1>b, <1>e, <1>u, <2>2, <3>1 DEF Looping
  <2>7. ASSUME NEW s \in Sectors
        PROVE  InGap(s)' <=> InGap(s) \/ (pos <= s /\ s <= EndThreshold /\ s < p.start)
    <3>1. s \in Nat
      BY TotalAssumption DEF Sectors
    <3>2. to = IF p.start - 1 <= EndThreshold THEN p.start - 1 ELSE EndThreshold
      BY DEF Smaller
    <3>3. pos <= s /\ s <= EndThreshold /\ s < p.start => p.start > pos /\ pos <= to /\ s <= to
      BY <1>e, <3>1, <3>2
    <3>4. pos <= s /\ s <= to => s <= EndThreshold /\ s < p.start
      BY <1>e, <3>1, <3>2
    <3>5. to \in Int
      BY <1>e, <3>2
    <3>. HIDE DEF to
    <3>6. CASE p.start > pos /\ pos <= to
      <4>1. InGap(s)' <=> InGap(s) \/ s \in pos .. to
        <5>. DEFINE g == [from |-> pos, to |-> to]
        <5>1. gaps' = gaps \cup {g} /\ g.from = pos /\ g.to = to
          BY <2>1, <3>6
        <5>. HIDE DEF g
        <5>2. InGap(s)' <=> (\E h \in gaps : s \in h.from .. h.to) \/ s \in g.from .. g.to
          BY <5>1 DEF InGap
        <5>. QED BY <5>1, <5>2 DEF InGap
      <4>. QED BY <1>e, <3>1, <3>3, <3>4, <3>5, <4>1
    <3>7. CASE ~ (p.start > pos /\ pos <= to)
      <4>1. InGap(s)' <=> InGap(s)
        BY <2>1, <3>7 DEF InGap
      <4>. QED BY <3>3, <3>7, <4>1
    <3>. QED BY <3>6, <3>7
  <2>8. ASSUME NEW s \in Sectors
        PROVE  InGap(s)' <=> /\ s \in StartThreshold .. EndThreshold /\ s < pos'
                             /\ \A j \in Taken' : ~Has(j, s)
    <3>1. s \in Nat
      BY TotalAssumption DEF Sectors
    <3>2. Has(n, s) <=> p.start <= s /\ s <= p.end
      BY <1>3, <1>e, <3>1 DEF Has
    <3>3. \A j \in Taken : Has(j, s) => Counts(j) /\ parts[j].start <= s /\ s <= parts[j].end
      BY <1>d, <3>1 DEF Has, Counts, Taken
    <3>4. pos <= s => \A j \in Taken : ~Has(j, s)
      <4>1. \A j \in Taken : parts[j].end \in Nat
        BY <1>d DEF Taken
      <4>. QED BY <1>b, <1>e, <3>1, <3>3, <4>1 DEF Looping
    <3>5. p.start <= s /\ s < pos /\ StartThreshold <= s => \E j \in Taken : Has(j, s)
      <4>. SUFFICES ASSUME p.start <= s, s < pos, StartThreshold <= s PROVE \E j \in Taken : Has(j, s)
        OBVIOUS
      <4>1. PICK j \in Taken : Counts(j) /\ pos = parts[j].end + 1
        BY <1>b, <1>e, <3>1 DEF Looping
      <4>2. parts[j].start <= p.start /\ parts[j].start \in Nat /\ parts[j].end \in Nat
        BY <1>b, <1>c, <1>d DEF Looping, Taken
      <4>3. parts[j].start <= s /\ s <= parts[j].end
        BY <1>e, <3>1, <4>1, <4>2
      <4>. QED BY <3>1, <4>1, <4>2, <4>3 DEF Has, Counts
    <3>6. InGap(s) <=> s \in StartThreshold .. EndThreshold /\ s < pos /\ \A j \in Taken : ~Has(j, s)
      BY <1>b DEF Looping
    <3>7. pos >= StartThreshold
      BY <1>b DEF Looping
    <3>8. (\A j \in Taken' : ~Has(j, s)) <=> ~Has(n, s) /\ \A j \in Taken : ~Has(j, s)
      BY <1>u
    <3>9. s \in StartThreshold .. EndThreshold <=> StartThreshold <= s /\ s <= EndThreshold
      BY <1>e, <3>1
    <3>10. CASE s < pos
      <4>1. InGap(s)' <=> InGap(s)
        BY <2>7, <3>10, <3>1, <1>e
      <4>2. s < pos'
        BY <3>10, <2>2, <1>e, <3>1
      <4>3. InGap(s) => ~Has(n, s)
        BY <3>2, <3>5, <3>6, <3>9, <3>10
      <4>. QED BY <3>6, <3>8, <3>10, <4>1, <4>2, <4>3
    <3>11. CASE ~ (s < pos)
      <4>1. pos <= s
        BY <3>11, <1>e, <3>1
      <4>2. ~InGap(s) /\ (\A j \in Taken : ~Has(j, s)) /\ StartThreshold <= s
        BY <3>4, <3>6, <3>7, <3>11, <4>1, <1>e, <3>1
      <4>3. InGap(s)' <=> s <= EndThreshold /\ s < p.start
        BY <2>7, <4>1, <4>2
      <4>4. s < pos' <=> s <= p.end
        BY <2>2, <4>1, <1>e, <3>1
      <4>5. s < p.start <=> s <= p.end /\ ~Has(n, s)
        BY <1>3, <1>e, <3>1, <3>2
      <4>. QED BY <3>8, <3>9, <4>2, <4>3, <4>4, <4>5
    <3>. QED BY <3>10, <3>11
  <2>9. \A j, s : Has(j, s)' = Has(j, s) /\ Counts(j)' = Counts(j)
    BY <1>u DEF Has, Counts
  <2>. QED BY <1>1, <1>u, <2>4, <2>5, <2>6, <2>8, <2>9 DEF Looping
<1>. QED BY <1>2, <1>3, <1>e

\* The end of the loop adds what lies behind the partitions.
LEMMA GapsEnded ==
    ASSUME TypeInv, GapsInv, LastGap, UNCHANGED layoutVars
    PROVE  GapsInv'
<1>a. LayoutTypeOK /\ RawTypeOK /\ RawShape
  BY DEF TypeInv, StageTypeOK, TypeOK
<1>b. /\ step = "gaps" /\ left = {} /\ parts # <<>> /\ Looping /\ command' = command
      /\ step' = IF command = "scan" THEN "sample" ELSE "remnants"
      /\ command \in {"scan", "egress"}
  BY <1>a DEF LastGap, GapsInv, RawTypeOK
<1>c. /\ gaps' = IF pos <= EndThreshold THEN gaps \cup {[from |-> pos, to |-> EndThreshold]} ELSE gaps
      /\ pos' = Larger(pos, EndThreshold + 1)
  BY DEF LastGap
<1>d. \A k \in DOMAIN parts : parts[k].start \in Nat /\ parts[k].end \in Nat /\ parts[k].count \in Nat
  BY <1>a, PartsAre
<1>e. pos \in Nat /\ StartThreshold \in Nat /\ EndThreshold \in Nat
  BY <1>a, ThresholdsAre DEF RawTypeOK
<1>u. /\ parts' = parts /\ StartThreshold' = StartThreshold /\ EndThreshold' = EndThreshold
      /\ Taken = DOMAIN parts
  BY <1>b DEF layoutVars, StartThreshold, EndThreshold, OfGpt, Taken
<1>1. ASSUME NEW s \in Sectors
      PROVE  InGap(s)' <=> InGap(s) \/ (pos <= s /\ s <= EndThreshold)
  <2>1. s \in Nat
    BY TotalAssumption DEF Sectors
  <2>2. CASE pos <= EndThreshold
    <3>. DEFINE g == [from |-> pos, to |-> EndThreshold]
    <3>1. gaps' = gaps \cup {g} /\ g.from = pos /\ g.to = EndThreshold
      BY <1>c, <2>2
    <3>. HIDE DEF g
    <3>2. InGap(s)' <=> (\E h \in gaps : s \in h.from .. h.to) \/ s \in g.from .. g.to
      BY <3>1 DEF InGap
    <3>. QED BY <1>e, <2>1, <3>1, <3>2 DEF InGap
  <2>3. CASE ~ (pos <= EndThreshold)
    BY <1>c, <1>e, <2>1, <2>3 DEF InGap
  <2>. QED BY <2>2, <2>3
<1>2. \A s \in Sectors : Unallocated(s) <=> \A j \in Taken : ~Has(j, s)
  BY <1>u DEF Unallocated, Has
<1>3. ASSUME NEW s \in Sectors
      PROVE  /\ InGap(s)' => Unallocated(s) /\ s \in StartThreshold .. EndThreshold
             /\ s \in StartThreshold .. EndThreshold /\ Unallocated(s) => InGap(s)'
  <2>1. s \in Nat
    BY TotalAssumption DEF Sectors
  <2>2. InGap(s) <=> s \in StartThreshold .. EndThreshold /\ s < pos /\ Unallocated(s)
    BY <1>2, <1>b DEF Looping
  <2>3. pos <= s => Unallocated(s) /\ StartThreshold <= s
    <3>1. ASSUME NEW k \in DOMAIN parts, pos <= s, Has(k, s) PROVE FALSE
      <4>1. parts[k].start <= s /\ s <= parts[k].end /\ parts[k].count > 0
        BY <1>d, <2>1, <3>1 DEF Has
      <4>2. Counts(k)
        BY <1>d, <2>1, <4>1 DEF Counts
      <4>3. parts[k].end < pos
        BY <1>b, <1>u, <4>2 DEF Looping
      <4>. QED BY <1>d, <1>e, <2>1, <3>1, <4>1, <4>3
    <3>2. pos >= StartThreshold
      BY <1>b DEF Looping
    <3>. QED BY <1>2, <1>e, <1>u, <2>1, <3>1, <3>2
  <2>. QED BY <1>1, <1>e, <2>1, <2>2, <2>3
<1>4. pos' > EndThreshold
  BY <1>c, <1>e DEF Larger
<1>5. \A s : Unallocated(s)' = Unallocated(s)
  BY <1>u DEF Unallocated
<1>6. GapsKnown'
  BY <1>3, <1>4, <1>5, <1>u DEF GapsKnown
<1>. QED BY <1>6, <1>b DEF GapsInv

\* Before the loop nothing is seen; without partitions all but the first sector is a gap.
LEMMA GapsBegin ==
    ASSUME TypeInv, GapsInv, Begin, UNCHANGED layoutVars
    PROVE  GapsInv'
<1>a. LayoutTypeOK /\ RawTypeOK /\ RawShape
  BY DEF TypeInv, StageTypeOK, TypeOK
<1>b. /\ step = "wait" /\ gaps = {} /\ left' = DOMAIN parts /\ command' = command
      /\ command \in {"scan", "egress"}
  BY <1>a DEF Begin, RawShape, RawTypeOK
<1>u. /\ parts' = parts /\ StartThreshold' = StartThreshold /\ EndThreshold' = EndThreshold
  BY DEF layoutVars, StartThreshold, EndThreshold, OfGpt
<1>e. /\ StartThreshold \in Nat /\ StartThreshold >= 1 /\ EndThreshold \in Nat
      /\ EndThreshold < Total /\ Total \in Nat
  BY ThresholdsAre, TotalAssumption
<1>1. CASE parts # <<>>
  <2>1. step' = "gaps" /\ pos' = StartThreshold /\ gaps' = {} /\ Taken' = {}
    BY <1>1, <1>b, <1>u DEF Begin, Taken
  <2>2. Looping'
    <3>1. \A s \in Sectors : s \in Nat
      BY <1>e DEF Sectors
    <3>2. \A s \in Sectors : ~ (s \in StartThreshold .. EndThreshold /\ s < StartThreshold)
      BY <1>e, <3>1
    <3>. QED BY <1>e, <1>u, <2>1, <3>2 DEF Looping, InGap
  <2>. QED BY <1>1, <1>b, <1>u, <2>1, <2>2 DEF GapsInv
<1>2. CASE parts = <<>> /\ command = "scan"
  <2>1. step' = "ranges"
    BY <1>2 DEF Begin
  <2>. QED BY <1>2, <1>b, <2>1 DEF GapsInv
<1>3. CASE parts = <<>> /\ command = "egress"
  <2>1. /\ step' = "remnants"
        /\ gaps' = IF Total > 1 THEN {[from |-> 1, to |-> Total - 1]} ELSE {}
    BY <1>3 DEF Begin
  <2>2. \A s \in Sectors : Unallocated(s)'
    BY <1>3, <1>u DEF Unallocated
  <2>3. \A s \in Sectors : s \in StartThreshold .. EndThreshold => InGap(s)'
    <3>1. ASSUME NEW s \in Sectors, s \in StartThreshold .. EndThreshold
          PROVE  Total > 1 /\ s \in 1 .. Total - 1
      BY <1>e, <3>1 DEF Sectors
    <3>. DEFINE g == [from |-> 1, to |-> Total - 1]
    <3>2. Total > 1 => gaps' = {g} /\ g.from = 1 /\ g.to = Total - 1
      BY <2>1
    <3>. HIDE DEF g
    <3>. QED BY <3>1, <3>2 DEF InGap
  <2>4. GapsKnown'
    BY <1>3, <1>u, <2>2, <2>3 DEF GapsKnown
  <2>. QED BY <1>3, <1>b, <2>1, <2>4 DEF GapsInv
<1>. QED BY <1>1, <1>2, <1>3, <1>b

\* The gaps are what they are from the first sector to the last, at every step.
LEMMA GapsStep == TypeInv /\ GapsInv /\ [StageNext]_stageVars => GapsInv'
<1>. SUFFICES ASSUME TypeInv, GapsInv, [StageNext]_stageVars PROVE GapsInv'
  OBVIOUS
<1>a. LayoutTypeOK /\ RawTypeOK /\ RawShape
  BY DEF TypeInv, StageTypeOK, TypeOK
<1>. DEFINE Same == /\ parts' = parts /\ left' = left /\ gaps' = gaps /\ pos' = pos
                    /\ table' = table /\ command' = command
<1>1. ASSUME parts' = parts, gaps' = gaps, table' = table, pos' = pos
      PROVE  GapsKnown' = GapsKnown
  BY <1>1 DEF GapsKnown, InGap, Unallocated, StartThreshold, EndThreshold, OfGpt
<1>2. ASSUME Same, step' = step PROVE GapsInv'
  <2>1. Looping' = Looping /\ GapsKnown' = GapsKnown
    BY <1>2 DEF Looping, GapsKnown, Taken, Has, Counts, InGap, Unallocated, StartThreshold, EndThreshold, OfGpt
  <2>. QED BY <1>2, <2>1 DEF GapsInv
<1>3. CASE FileNext /\ UNCHANGED vars
  BY <1>2, <1>3 DEF vars, layoutVars, rawVars
<1>4. CASE LayoutNext /\ UNCHANGED rawVars
  <2>1. step = "wait" /\ step' = step
    BY <1>a, <1>4 DEF RawShape, rawVars, LayoutNext, ReadMbr, StartChain, ReadRecord, EndChain, Inspect
  <2>. QED BY <2>1 DEF GapsInv
<1>5. CASE UNCHANGED stageVars
  BY <1>2, <1>5 DEF stageVars, vars, layoutVars, rawVars
<1>6. CASE RawNext /\ UNCHANGED layoutVars
  <2>1. CASE Begin \/ TakeGap \/ LastGap
    BY <1>6, <2>1, GapsTaken, GapsEnded, GapsBegin
  <2>2. CASE Sample
    BY <2>2 DEF Sample, GapsInv
  <2>3. CASE Remnants \/ VerifyWipe
    <3>1. /\ step \in {"remnants", "wipe"} /\ step' \in {"wipe", "done"}
          /\ UNCHANGED <<command, gaps, pos>>
      BY <2>3 DEF Remnants, VerifyWipe
    <3>2. GapsKnown'
      BY <1>1, <1>6, <3>1 DEF GapsInv, layoutVars
    <3>. QED BY <3>1, <3>2 DEF GapsInv
  <2>4. CASE LeaveUncarved \/ TakeRange \/ LastRange \/ Carve
    <3>1. /\ step \in {"ranges", "carve"} /\ step' \in {"ranges", "carve", "done"} /\ command' = command
      BY <2>4 DEF LeaveUncarved, TakeRange, LastRange, Carve, ReadChunk, CarveFile, PassSector, NextRange, EndCarving, GoesOn
    <3>. QED BY <3>1 DEF GapsInv
  <2>. QED BY <1>6, <2>1, <2>2, <2>3, <2>4 DEF RawNext
<1>. QED BY <1>3, <1>4, <1>5, <1>6, Steps

\* The gaps are what they are throughout.
LEMMA GapsAlways == Spec => []GapsInv
<1>1. StageInit => GapsInv
  BY DEF StageInit, Init, RawInit, GapsInv
<1>. QED BY <1>1, GapsStep, TypeInvariant, PTL DEF Spec

\* The gaps that the partition scan and the egress scan look into are exactly the
\* sectors that no partition has, however the partitions lie.
THEOREM GapsAlwaysExact == Spec => []GapsAreExact
<1>1. ASSUME TypeInv, GapsInv PROVE GapsAreExact
  <2>. SUFFICES ASSUME parts # <<>>, step \notin {"wait", "ranges", "carve"},
                       step = "done" => command = "egress", NEW s \in Sectors
                PROVE  (\E g \in gaps : s \in g.from .. g.to)
                         <=> s \in StartThreshold .. EndThreshold /\ s < pos /\ Unallocated(s)
    BY DEF GapsAreExact
  <2>a. LayoutTypeOK /\ RawTypeOK
    BY <1>1 DEF TypeInv, StageTypeOK, TypeOK
  <2>1. s \in Nat /\ pos \in Nat /\ StartThreshold \in Nat /\ EndThreshold \in Nat
    BY <2>a, TotalAssumption, ThresholdsAre DEF Sectors, RawTypeOK
  <2>2. CASE step = "gaps"
    <3>1. Looping
      BY <1>1, <2>2 DEF GapsInv
    <3>2. InGap(s) <=> s \in StartThreshold .. EndThreshold /\ s < pos /\ \A j \in Taken : ~Has(j, s)
      BY <3>1 DEF Looping
    <3>3. Unallocated(s) => \A j \in Taken : ~Has(j, s)
      BY DEF Unallocated, Has, Taken
    <3>4. ASSUME StartThreshold <= s, s < pos, NEW k \in DOMAIN parts, k \in left, Has(k, s)
          PROVE  \E j \in Taken : Has(j, s)
      <4>1. PICK j \in Taken : Counts(j) /\ pos = parts[j].end + 1
        BY <2>1, <3>1, <3>4 DEF Looping
      <4>2. parts[j].start <= parts[k].start
        BY <3>1, <3>4 DEF Looping
      <4>3. /\ parts[j].start \in Nat /\ parts[j].end \in Nat /\ parts[k].start \in Nat
            /\ parts[k].end \in Nat
        BY <2>a, PartsAre DEF Taken
      <4>4. parts[k].start <= s
        BY <2>1, <3>4, <4>3 DEF Has
      <4>5. parts[j].start <= s /\ s <= parts[j].end
        BY <2>1, <3>4, <4>1, <4>2, <4>3, <4>4
      <4>. QED BY <2>1, <4>1, <4>3, <4>5 DEF Has, Counts
    <3>5. StartThreshold <= s /\ s < pos /\ (\A j \in Taken : ~Has(j, s)) => Unallocated(s)
      BY <3>4 DEF Unallocated, Has, Taken
    <3>. QED BY <2>1, <3>2, <3>3, <3>5 DEF InGap
  <2>3. CASE step # "gaps"
    <3>1. GapsKnown
      BY <1>1, <2>3, <2>a DEF GapsInv, RawTypeOK
    <3>2. pos > EndThreshold
      BY <3>1 DEF GapsKnown
    <3>3. s \in StartThreshold .. EndThreshold => s < pos
      BY <2>1, <3>2
    <3>. QED BY <3>1, <3>3 DEF GapsKnown, InGap
  <2>. QED BY <2>2, <2>3
<1>. QED BY <1>1, TypeInvariant, GapsAlways, PTL

-----------------------------------------------------------------------------
(***************************************************************************)
(* What is looked for in the gaps.                                         *)
(***************************************************************************)

\* Gaps are stretches of the medium.
LEMMA GapIs ==
    ASSUME TypeInv, NEW g \in gaps
    PROVE  /\ g.from \in Nat /\ g.to \in Nat /\ g.from <= g.to
           /\ g.from .. g.to \subseteq Sectors
           /\ \A s \in g.from .. g.to : InGap(s)
<1>1. g \in Extents /\ g.from >= 1 /\ g.from <= g.to /\ g.to < Total
  BY DEF TypeInv, StageTypeOK, TypeOK, RawTypeOK, RawShape
<1>. QED BY <1>1, TotalAssumption DEF Extents, Sectors, InGap

\* The samples of a short gap are all of it: the first sector with data is found.
LEMMA SampleSearches ==
    ASSUME TypeInv, GapsInv, Sample, UNCHANGED layoutVars
    PROVE  SmallGapsAreSearched'
<1>u. /\ parts' = parts /\ StartThreshold' = StartThreshold /\ EndThreshold' = EndThreshold
      /\ content' = content
  BY DEF layoutVars, StartThreshold, EndThreshold, OfGpt, content
<1>1. GapsKnown
  BY DEF Sample, GapsInv
<1>e. StartThreshold \in Nat /\ EndThreshold \in Nat /\ EndThreshold < Total /\ Total \in Nat
  BY ThresholdsAre, TotalAssumption
<1>2. ASSUME NEW s \in Sectors, parts # <<>>, InSmallGap(s), content[s].kind # "zero"
      PROVE  \E t \in odd' : t <= s /\ \A u \in t .. s : Unallocated(u)
  <2>1. PICK from \in StartThreshold .. EndThreshold, to \in StartThreshold .. EndThreshold :
          /\ s \in from .. to /\ (to - from) + 1 <= SampleWhole
          /\ \A t \in from .. to : Unallocated(t)
          /\ from > StartThreshold => ~Unallocated(from - 1)
          /\ to < EndThreshold => ~Unallocated(to + 1)
    BY <1>2 DEF InSmallGap
  <2>2. /\ s \in Nat /\ from \in Nat /\ to \in Nat /\ from <= s /\ s <= to
        /\ StartThreshold <= from /\ to <= EndThreshold
    BY <1>e, <2>1 DEF Sectors
  <2>3. InGap(s)
    <3>1. Unallocated(s) /\ s \in StartThreshold .. EndThreshold
      BY <1>e, <2>1, <2>2
    <3>. QED BY <1>1, <3>1 DEF GapsKnown
  <2>4. PICK g \in gaps : s \in g.from .. g.to
    BY <2>3 DEF InGap
  <2>5. /\ g.from \in Nat /\ g.to \in Nat /\ g.from .. g.to \subseteq Sectors
        /\ g.from <= s /\ s <= g.to /\ g.from <= g.to
    BY <2>4, GapIs
  <2>6. \A x \in g.from .. g.to : Unallocated(x) /\ x \in StartThreshold .. EndThreshold
    BY <1>1, <1>2, <2>5, GapIs DEF GapsKnown
  <2>7. from <= g.from
    <3>. SUFFICES ASSUME g.from < from PROVE FALSE
      BY <2>2, <2>5
    <3>1. from - 1 \in g.from .. g.to
      BY <2>2, <2>5
    <3>2. from > StartThreshold
      BY <1>e, <2>2, <2>6, <3>1
    <3>. QED BY <2>1, <2>6, <3>1, <3>2
  <2>8. g.to <= to
    <3>. SUFFICES ASSUME to < g.to PROVE FALSE
      BY <2>2, <2>5
    <3>1. to + 1 \in g.from .. g.to
      BY <2>2, <2>5
    <3>2. to < EndThreshold
      BY <1>e, <2>2, <2>6, <3>1
    <3>. QED BY <2>1, <2>6, <3>1, <3>2
  <2>9. Sampled(g) = g.from .. g.to
    <3>1. (g.to - g.from) + 1 <= SampleWhole
      BY <2>1, <2>2, <2>5, <2>7, <2>8, SampleAssumption
    <3>. QED BY <2>5, <3>1, SampledIs
  <2>. DEFINE N == {x \in Sampled(g) : content[x].kind # "zero"}
  <2>10. PICK t \in N : \A y \in N : t <= y
    <3>1. N \subseteq Nat
      BY <1>e, <2>5, <2>9
    <3>2. s \in N
      BY <1>2, <2>4, <2>9
    <3>. QED BY <3>1, <3>2, LeastNumber
  <2>11. t \in odd'
    <3>1. t \in First(N)
      BY <2>10 DEF First
    <3>. QED BY <3>1 DEF Sample
  <2>12. t <= s
    BY <1>2, <2>4, <2>9, <2>10
  <2>13. \A u \in t .. s : u \in g.from .. g.to
    BY <2>2, <2>5, <2>9, <2>10
  <2>. QED BY <2>6, <2>11, <2>12, <2>13
<1>3. \A s : Unallocated(s)' = Unallocated(s)
  BY <1>u DEF Unallocated
<1>4. \A s : InSmallGap(s)' = InSmallGap(s)
  BY <1>u DEF InSmallGap, Unallocated
<1>. QED BY <1>2, <1>3, <1>4, <1>u DEF SmallGapsAreSearched

\* What was found of the gaps stays while the ranges are collected.
LEMMA SearchedStep ==
    TypeInv /\ GapsInv /\ SmallGapsAreSearched /\ [StageNext]_stageVars => SmallGapsAreSearched'
<1>. SUFFICES ASSUME TypeInv, GapsInv, SmallGapsAreSearched, [StageNext]_stageVars
              PROVE  SmallGapsAreSearched'
  OBVIOUS
<1>a. RawShape
  BY DEF TypeInv
<1>1. ASSUME parts' = parts, table' = table, medium' = medium, odd' = odd, step' = "ranges" => step = "ranges"
      PROVE  SmallGapsAreSearched'
  BY <1>1 DEF SmallGapsAreSearched, InSmallGap, Unallocated, content, StartThreshold, EndThreshold, OfGpt
<1>2. CASE FileNext /\ UNCHANGED vars
  BY <1>1, <1>2 DEF vars, layoutVars, rawVars
<1>3. CASE LayoutNext /\ UNCHANGED rawVars
  <2>1. step' = "wait"
    BY <1>a, <1>3 DEF RawShape, rawVars, LayoutNext, ReadMbr, StartChain, ReadRecord, EndChain, Inspect
  <2>. QED BY <2>1 DEF SmallGapsAreSearched
<1>4. CASE UNCHANGED stageVars
  BY <1>1, <1>4 DEF stageVars, vars, layoutVars, rawVars
<1>5. CASE RawNext /\ UNCHANGED layoutVars
  <2>1. CASE Sample
    BY <1>5, <2>1, SampleSearches
  <2>2. CASE Begin
    BY <1>5, <2>2 DEF Begin, SmallGapsAreSearched, layoutVars
  <2>3. CASE TakeRange
    BY <1>1, <1>5, <2>3 DEF TakeRange, layoutVars
  <2>4. CASE TakeGap \/ LastGap \/ Remnants \/ VerifyWipe \/ LeaveUncarved \/ LastRange \/ Carve
    <3>1. step' # "ranges"
      BY <2>4 DEF LeaveUncarved, TakeGap, LastGap, Remnants, VerifyWipe, LastRange, Carve, ReadChunk, CarveFile,
         PassSector, NextRange, EndCarving, GoesOn
    <3>. QED BY <3>1 DEF SmallGapsAreSearched
  <2>. QED BY <1>5, <2>1, <2>2, <2>3, <2>4 DEF RawNext
<1>. QED BY <1>2, <1>3, <1>4, <1>5, Steps

\* The partition scan has a finding wherever a short stretch that no partition has
\* holds data.
THEOREM SmallGapsAlwaysSearched == Spec => []SmallGapsAreSearched
<1>1. StageInit => SmallGapsAreSearched
  BY DEF StageInit, Init, RawInit, SmallGapsAreSearched
<1>. QED BY <1>1, SearchedStep, TypeInvariant, GapsAlways, PTL DEF Spec

\* A multiple leaves no remainder.
LEMMA Multiple == ASSUME NEW q \in Nat, NEW w \in Nat \ {0} PROVE (w * q) % w = 0
OBVIOUS

\* What is left when a remainder is taken off is a multiple.
LEMMA Remainder ==
    ASSUME NEW d \in Nat, NEW w \in Nat \ {0}
    PROVE  (d % w) \in 0 .. w - 1 /\ (d % w) <= d /\ (d - (d % w)) % w = 0
<1>1. /\ d = (w * (d \div w)) + (d % w) /\ (d \div w) \in Nat
      /\ (d % w) \in 0 .. w - 1 /\ (d % w) <= d
  OBVIOUS
<1>2. d - (d % w) = w * (d \div w)
  BY <1>1
<1>. QED BY <1>1, <1>2, Multiple

\* Every sector of a gap lies in one of its chunks.
LEMMA InChunk ==
    ASSUME NEW g, g.from \in Nat, g.to \in Nat, NEW s \in g.from .. g.to
    PROVE  \E c \in WipeChunks(g) :
              /\ c \in Nat /\ g.from <= c /\ s \in ChunkAt(g, c)
              /\ Smaller((c + WipeChunk) - 1, g.to) \in Nat
              /\ Smaller((c + WipeChunk) - 1, g.to) - c < WipeChunk
              /\ Smaller((c + WipeChunk) - 1, g.to) <= g.to
<1>. DEFINE w == WipeChunk
            d == s - g.from
            m == d % w
            c == s - m
<1>1. d \in Nat /\ w \in Nat \ {0} /\ s \in Nat
  BY ChunkAssumption
<1>2. m \in 0 .. w - 1 /\ m <= d /\ (d - m) % w = 0
  <2>. HIDE DEF d, w
  <2>. QED BY <1>1, Remainder
<1>3. (d - m) % w = 0
  BY <1>2
<1>. HIDE DEF w, m
<1>4. c \in Nat /\ g.from <= c /\ c <= s /\ s - c < w
  BY <1>1, <1>2
<1>5. c - g.from = d - m
  BY <1>1, <1>2
<1>. HIDE DEF c
<1>6. c \in WipeChunks(g)
  BY <1>1, <1>3, <1>4, <1>5 DEF WipeChunks, w
<1>7. LET e == Smaller((c + w) - 1, g.to) IN
        e \in Nat /\ e - c < w /\ e <= g.to /\ s <= e
  BY <1>1, <1>4 DEF Smaller
<1>8. s \in ChunkAt(g, c)
  BY <1>1, <1>4, <1>7 DEF ChunkAt, w
<1>. QED BY <1>4, <1>6, <1>7, <1>8 DEF w

\* A wipe that is verified without a finding: every chunk of every gap is zero or looks
\* random.
LEMMA WipeVerified ==
    ASSUME TypeInv, GapsInv, VerifyWipe, odd' = {}, NEW s \in Sectors,
           s \in StartThreshold .. EndThreshold, Unallocated(s), content[s].kind \notin {"zero", "random"}
    PROVE  \E from, to \in Sectors :
               /\ s \in from .. to /\ to - from < WipeChunk /\ LooksRandom(from .. to)
               /\ \A t \in from .. to : Unallocated(t)
<1>1. GapsKnown
  BY DEF VerifyWipe, GapsInv
<1>2. PICK g \in gaps : s \in g.from .. g.to
  BY <1>1 DEF GapsKnown, InGap
<1>3. /\ g.from \in Nat /\ g.to \in Nat /\ g.from .. g.to \subseteq Sectors
      /\ \A t \in g.from .. g.to : Unallocated(t)
  BY <1>1, GapIs DEF GapsKnown
<1>4. PICK c \in WipeChunks(g) :
          /\ c \in Nat /\ g.from <= c /\ s \in ChunkAt(g, c)
          /\ Smaller((c + WipeChunk) - 1, g.to) \in Nat
          /\ Smaller((c + WipeChunk) - 1, g.to) - c < WipeChunk
          /\ Smaller((c + WipeChunk) - 1, g.to) <= g.to
  BY <1>2, <1>3, InChunk
<1>. DEFINE D == {x \in WipeChunks(g) : Dirty(ChunkAt(g, x))}
            to == Smaller((c + WipeChunk) - 1, g.to)
<1>5. D = {}
  <2>. SUFFICES ASSUME D # {} PROVE FALSE
    OBVIOUS
  <2>1. D \subseteq Nat
    BY <1>3 DEF WipeChunks
  <2>2. PICK x \in D : \A y \in D : x <= y
    BY <2>1, LeastNumber
  <2>3. x \in First(D)
    BY <2>2 DEF First
  <2>4. x \in odd'
    BY <2>3 DEF VerifyWipe
  <2>. QED BY <2>4
<1>6. ~Dirty(ChunkAt(g, c))
  BY <1>4, <1>5
<1>7. LooksRandom(ChunkAt(g, c))
  BY <1>4, <1>6 DEF Dirty
<1>8. ChunkAt(g, c) = c .. to
  BY DEF ChunkAt
<1>. HIDE DEF to
<1>9. to \in Nat /\ to - c < WipeChunk /\ to <= g.to
  BY <1>4 DEF to
<1>10. c \in g.from .. g.to /\ to \in g.from .. g.to /\ c .. to \subseteq g.from .. g.to
  BY <1>3, <1>4, <1>8, <1>9
<1>. QED BY <1>3, <1>4, <1>7, <1>8, <1>9, <1>10

\* An egress scan that verified the wipe and has no finding saw zeroes or what looks
\* random wherever no partition lies.
THEOREM WipeAlwaysProved == Spec => WipeIsProved
<1>1. ASSUME TypeInv, GapsInv, [StageNext]_stageVars
      PROVE  [step = "wipe" /\ odd' = {} =>
         \A s \in Sectors :
           s \in StartThreshold .. EndThreshold /\ Unallocated(s) /\ content[s].kind \notin {"zero", "random"} =>
             \E from, to \in Sectors :
               /\ s \in from .. to /\ to - from < WipeChunk /\ LooksRandom(from .. to)
               /\ \A t \in from .. to : Unallocated(t)]_vars
  <2>. SUFFICES ASSUME step = "wipe", odd' = {}, vars' # vars
                PROVE  VerifyWipe
    BY <1>1, WipeVerified
  <2>1. ~LayoutNext
    BY <1>1 DEF TypeInv, RawShape, LayoutNext, ReadMbr, StartChain, ReadRecord, EndChain, Inspect
  <2>2. RawNext
    BY <1>1, <2>1, Steps DEF stageVars
  <2>. QED BY <2>2 DEF RawNext, Begin, TakeGap, LastGap, Sample, Remnants, LeaveUncarved, TakeRange, LastRange, Carve,
         ReadChunk, CarveFile, PassSector, NextRange, EndCarving, GoesOn
<1>. QED BY <1>1, TypeInvariant, GapsAlways, PTL DEF Spec, WipeIsProved

-----------------------------------------------------------------------------
(***************************************************************************)
(* One view of the medium.                                                 *)
(***************************************************************************)

\* While the chains are followed the partitions of the MBR come first, as they are
\* there, and what comes after them are logical ones.
PartsKnown ==
    pc = "chains" =>
      /\ disk.signed => \A n \in DOMAIN MbrPartitions :
                          n \in DOMAIN parts /\ parts[n] = MbrPartitions[n]
      /\ \A k \in DOMAIN parts : \/ parts[k].index >= 5
                                 \/ disk.signed /\ k \in DOMAIN MbrPartitions

\* What goes on after the layout is there leaves it alone.
LEMMA LayoutSteps ==
    ASSUME TypeInv, [StageNext]_stageVars
    PROVE  LayoutNext \/ UNCHANGED layoutVars
BY Steps DEF stageVars, vars

\* Every step of the parser keeps what the listed partitions are known to be.
LEMMA PartsKnownStep == TypeInv /\ PartsKnown /\ [StageNext]_stageVars => PartsKnown'
<1>. SUFFICES ASSUME TypeInv, PartsKnown, [StageNext]_stageVars PROVE PartsKnown'
  OBVIOUS
<1>a. LayoutTypeOK /\ parts \in Seq(Partitions)
  BY DEF TypeInv, StageTypeOK, TypeOK, LayoutTypeOK
<1>b. ASSUME medium' = medium PROVE disk' = disk /\ MbrPartitions' = MbrPartitions
  BY <1>b DEF disk, MbrPartitions, MbrPartition, Used
<1>1. CASE ReadMbr
  <2>1. medium' = medium /\ parts' = IF disk.signed THEN MbrPartitions ELSE <<>>
    BY <1>1 DEF ReadMbr
  <2>. QED BY <1>b, <2>1 DEF PartsKnown
<1>2. CASE StartChain \/ EndChain \/ UNCHANGED layoutVars
  <2>1. medium' = medium /\ parts' = parts /\ pc' = pc
    BY <1>2 DEF StartChain, EndChain, layoutVars
  <2>. QED BY <1>b, <2>1 DEF PartsKnown
<1>3. CASE ReadRecord
  <2>. DEFINE r == disk.records[chain.at]
  <2>1. chain.at \in Sectors
    BY <1>3 DEF ReadRecord, MayRead
  <2>2. Logical(r).index >= 5
    BY <1>a, <2>1, LogicalIs
  <2>3. medium' = medium /\ pc = "chains" /\ parts' \in {parts, Append(parts, Logical(r))}
    BY <1>3 DEF ReadRecord
  <2>4. CASE parts' = parts
    BY <1>b, <2>3, <2>4 DEF PartsKnown
  <2>5. CASE parts' = Append(parts, Logical(r))
    <3>. HIDE DEF r
    <3>1. /\ DOMAIN parts' = DOMAIN parts \cup {Len(parts) + 1}
          /\ \A k \in DOMAIN parts : parts'[k] = parts[k]
          /\ parts'[Len(parts) + 1] = Logical(r)
      BY <1>a, <2>5
    <3>. QED BY <1>b, <2>2, <2>3, <3>1 DEF PartsKnown
  <2>. QED BY <2>3, <2>4, <2>5
<1>4. CASE Inspect
  BY <1>4 DEF Inspect, PartsKnown
<1>. QED BY <1>1, <1>2, <1>3, <1>4, LayoutSteps DEF LayoutNext

\* What the listed partitions are is known throughout.
LEMMA PartsAlwaysKnown == Spec => []PartsKnown
<1>1. StageInit => PartsKnown
  BY DEF StageInit, Init, LayoutInit, PartsKnown
<1>. QED BY <1>1, PartsKnownStep, TypeInvariant, PTL DEF Spec

\* Two partitions that share a sector are found to overlap.
LEMMA SharedIsFound ==
    ASSUME NEW ps \in Seq(Partitions), NEW i \in DOMAIN ps, NEW j \in DOMAIN ps, i # j,
           ~IsExtended(ps[i]), ~IsExtended(ps[j]),
           NEW s \in Nat, s \in ps[i].start .. ps[i].end, s \in ps[j].start .. ps[j].end
    PROVE  Overlaps(ps) # {}
<1>1. \A k \in DOMAIN ps : k \in Nat /\ ps[k].start \in Nat /\ ps[k].end \in Nat
  <2>1. \A k \in DOMAIN ps : k \in Nat /\ ps[k] \in Partitions
    OBVIOUS
  <2>. QED BY <2>1 DEF Partitions
<1>2. Overlap(ps[i], ps[j]) /\ Overlap(ps[j], ps[i])
  BY <1>1 DEF Overlap
<1>3. \E a, b \in DOMAIN ps : a < b /\ Overlap(ps[a], ps[b]) /\ ~IsExtended(ps[a]) /\ ~IsExtended(ps[b])
  <2>1. i < j \/ j < i
    BY <1>1
  <2>. QED BY <1>2, <2>1
<1>4. PICK a \in DOMAIN ps : \E b \in DOMAIN ps :
          a < b /\ Overlap(ps[a], ps[b]) /\ ~IsExtended(ps[a]) /\ ~IsExtended(ps[b])
  BY <1>3
<1>5. [rule |-> "FX-PART-001", at |-> ps[a].index] \in Overlaps(ps)
  BY <1>4 DEF Overlaps
<1>. QED BY <1>5

\* The scan compares the tables with each other and the partitions among themselves.
LEMMA InspectedOnce ==
    ASSUME TypeInv, PartsKnown, Inspect
    PROVE  OneView'
<1>a. /\ LayoutTypeOK /\ medium \in Media /\ medium' = medium /\ pc = "chains" /\ disk' = disk
      /\ Primary' = Primary /\ Secondary' = Secondary /\ Used' = Used
  BY DEF TypeInv, StageTypeOK, TypeOK, LayoutTypeOK, Inspect, disk, Primary, Secondary, Used, Valid
<1>c. Readable(disk.primary)' = Readable(disk.primary) /\ Readable(disk.secondary)' = Readable(disk.secondary)
      /\ GptUnseen' = GptUnseen
  BY <1>a DEF Readable, GptUnseen, Protective
<1>b. \A h : GptPartitions(h)' = GptPartitions(h)
  BY DEF GptPartitions, UsedEntries, GptPartition
<1>. SUFFICES ASSUME findings' = {}
              PROVE  /\ ~GptUnseen =>
                          /\ Readable(disk.primary) => /\ Readable(disk.secondary)
                                                       /\ GptPartitions(disk.secondary) = parts'
                                                       /\ GptPartitions(disk.primary) = parts'
                          /\ Readable(disk.secondary) => Readable(disk.primary)
                          /\ Readable(disk.primary) => \A i \in Used : disk.mbr[i].type = "protective"
                     /\ \A i, j \in DOMAIN parts' :
                          i # j /\ ~IsExtended(parts'[i]) /\ ~IsExtended(parts'[j]) =>
                            \A s \in Sectors : ~ (/\ s \in parts'[i].start .. parts'[i].end
                                                  /\ s \in parts'[j].start .. parts'[j].end)
  BY <1>a, <1>b, <1>c DEF OneView, SameTables
<1>1. /\ Overlaps(parts') = {} /\ BackupOdd = {} /\ Disagreement(table') = {}
      /\ table' = TableType
      /\ Primary => parts' = GptPartitions(disk.primary)
  BY DEF Inspect
<1>2. /\ Primary = Secondary
      /\ Primary /\ Secondary => GptPartitions(disk.primary) = GptPartitions(disk.secondary)
  BY <1>1 DEF BackupOdd, OfTheDevice
<1>3. ASSUME Primary, NEW i \in Used PROVE disk.mbr[i].type = "protective"
  <2>1. table' \in {"gpt", "hybrid"}
    BY <1>1, <1>3 DEF TableType
  <2>2. table' = "gpt" /\ Protective
    BY <1>1, <2>1 DEF Disagreement, OfTheDevice
  <2>3. \A k \in DOMAIN parts : parts[k].type = "protective"
    BY <1>1, <1>3, <2>2 DEF TableType
  <2>4. disk.signed
    BY <2>2 DEF Protective
  <2>5. PICK n \in DOMAIN MbrPartitions : MbrPartitions[n] = MbrPartition(i)
    BY <1>a, <1>3, MbrIs
  <2>6. n \in DOMAIN parts /\ parts[n] = MbrPartition(i)
    BY <1>a, <2>4, <2>5 DEF PartsKnown
  <2>. QED BY <2>3, <2>6 DEF MbrPartition
<1>4. parts' \in Seq(Partitions)
  <2>1. LayoutTypeOK'
    BY <1>a, LayoutTypeStep DEF LayoutNext
  <2>. QED BY <2>1 DEF LayoutTypeOK
<1>5. \A s \in Sectors : s \in Nat
  BY TotalAssumption DEF Sectors
<1>6. ASSUME ~GptUnseen
      PROVE  Readable(disk.primary) \/ Readable(disk.secondary) => Primary /\ Secondary
  <2>1. \A h : Readable(h) => Valid(h) \/ h.crc = Standard
    BY DEF Readable, Valid
  <2>2. Protective => Primary \/ Secondary
    BY <1>1 DEF Disagreement, OfTheDevice
  <2>. QED BY <1>2, <1>6, <2>1, <2>2 DEF GptUnseen, Primary, Secondary
<1>7. /\ Primary => Readable(disk.primary)
      /\ Secondary => Readable(disk.secondary)
  BY DEF Primary, Secondary, Valid, Readable
<1>8. \A i, j \in DOMAIN parts' :
         i # j /\ ~IsExtended(parts'[i]) /\ ~IsExtended(parts'[j]) =>
           \A s \in Sectors : ~ (/\ s \in parts'[i].start .. parts'[i].end
                                 /\ s \in parts'[j].start .. parts'[j].end)
  BY <1>1, <1>4, <1>5, SharedIsFound
<1>. QED BY <1>1, <1>2, <1>3, <1>6, <1>7, <1>8

\* Every step keeps the one view of a medium without a finding.
LEMMA OneViewStep == TypeInv /\ PartsKnown /\ OneView /\ [StageNext]_stageVars => OneView'
<1>. SUFFICES ASSUME TypeInv, PartsKnown, OneView, [StageNext]_stageVars PROVE OneView'
  OBVIOUS
<1>1. CASE Inspect
  BY <1>1, InspectedOnce
<1>2. CASE ReadMbr \/ StartChain \/ ReadRecord \/ EndChain
  <2>1. pc' # "layout"
    BY <1>2 DEF ReadMbr, StartChain, ReadRecord, EndChain
  <2>. QED BY <2>1 DEF OneView
<1>3. CASE UNCHANGED layoutVars
  <2>1. /\ pc' = pc /\ findings' = findings /\ parts' = parts /\ disk' = disk
        /\ Used' = Used /\ Readable(disk.primary)' = Readable(disk.primary)
        /\ Readable(disk.secondary)' = Readable(disk.secondary) /\ GptUnseen' = GptUnseen
    BY <1>3 DEF layoutVars, disk, Used, Readable, GptUnseen, Protective
  <2>2. \A h : GptPartitions(h)' = GptPartitions(h)
    BY DEF GptPartitions, UsedEntries, GptPartition
  <2>. QED BY <2>1, <2>2 DEF OneView, SameTables
<1>. QED BY <1>1, <1>2, <1>3, LayoutSteps DEF LayoutNext

\* A medium without a finding is the same medium to whoever reads only its MBR, only
\* its first GPT or only its second one, with a checksum of either polynomial, and no
\* sector belongs to two partitions; but for a standard GPT without a protective MBR.
THEOREM AlwaysOneView == Spec => []OneView
<1>1. StageInit => OneView
  BY DEF StageInit, Init, LayoutInit, OneView
<1>. QED BY <1>1, OneViewStep, TypeInvariant, PartsAlwaysKnown, PTL DEF Spec

-----------------------------------------------------------------------------
(***************************************************************************)
(* The chains of extended boot records.                                    *)
(***************************************************************************)

\* A function h has the first values of what "next" makes of v, step by step.
Iterated(V, v, next, max, h) ==
    /\ h \in [0 .. max -> V] /\ h[0] = v
    /\ \A n \in 1 .. max : h[n] = next[n][h[n - 1]]

\* A function can be iterated from any value as often as one likes.
LEMMA Iterates ==
    ASSUME NEW V, NEW v \in V, NEW next \in [Nat -> [V -> V]], NEW max \in Nat
    PROVE  \E h : Iterated(V, v, next, max, h)
<1>. DEFINE S == {m \in Nat : \E h : Iterated(V, v, next, m, h)}
<1>1. 0 \in S
  <2>1. Iterated(V, v, next, 0, [n \in 0 .. 0 |-> v])
    BY DEF Iterated
  <2>. QED BY <2>1
<1>2. ASSUME NEW m \in Nat, m \in S PROVE m + 1 \in S
  <2>1. PICK h : Iterated(V, v, next, m, h)
    BY <1>2
  <2>2. h \in [0 .. m -> V] /\ h[0] = v /\ \A n \in 1 .. m : h[n] = next[n][h[n - 1]]
    BY <2>1 DEF Iterated
  <2>. DEFINE g == [n \in 0 .. m + 1 |-> IF n <= m THEN h[n] ELSE next[m + 1][h[m]]]
  <2>3. g \in [0 .. m + 1 -> V]
    BY <2>2
  <2>4. \A n \in 0 .. m : g[n] = h[n]
    OBVIOUS
  <2>5. g[m + 1] = next[m + 1][h[m]]
    OBVIOUS
  <2>. HIDE DEF g
  <2>6. \A n \in 1 .. m + 1 : g[n] = next[n][g[n - 1]]
    <3>1. \A n \in 1 .. m : g[n] = next[n][g[n - 1]]
      BY <2>2, <2>4
    <3>2. g[m + 1] = next[m + 1][g[(m + 1) - 1]]
      BY <2>4, <2>5
    <3>3. \A n \in 1 .. m + 1 : n \in 1 .. m \/ n = m + 1
      OBVIOUS
    <3>. QED BY <3>1, <3>2, <3>3
  <2>7. g[0] = v
    BY <2>2, <2>4
  <2>8. Iterated(V, v, next, m + 1, g)
    BY <2>3, <2>6, <2>7 DEF Iterated
  <2>. QED BY <2>8
<1>. HIDE DEF S
<1>3. 0 .. max \subseteq S
  BY <1>1, <1>2, Induction
<1>4. max \in S
  BY <1>3
<1>. QED BY <1>4 DEF S

\* What following the links of a partition for some time arrives at.
LEMMA HopsAre ==
    ASSUME medium \in Media, NEW p \in Partitions
    PROVE  /\ Hops(p) \in [0 .. Total -> Nat] /\ Hops(p)[0] = p.start
           /\ \A n \in 1 .. Total :
                LET s == Hops(p)[n - 1] IN
                  Hops(p)[n] = IF s \in Sectors /\ Leads(p, s) THEN Step(p, s) ELSE s
<1>. DEFINE next == [n \in Nat |-> [s \in Nat |-> IF s \in Sectors /\ Leads(p, s) THEN Step(p, s) ELSE s]]
            G == CHOOSE f : f = [n \in 0 .. Total |->
                   IF n = 0 THEN p.start
                   ELSE IF f[n - 1] \in Sectors /\ Leads(p, f[n - 1]) THEN Step(p, f[n - 1]) ELSE f[n - 1]]
<1>1. next \in [Nat -> [Nat -> Nat]] /\ p.start \in Nat /\ Total \in Nat
  <2>1. \A s \in Sectors : disk.records[s] \in Records
    BY DiskIs
  <2>2. \A s \in Sectors : Step(p, s) \in Nat
    BY <2>1 DEF Step, Partitions, Records
  <2>. QED BY <2>2, TotalAssumption DEF Partitions
<1>2. PICK h : /\ h \in [0 .. Total -> Nat] /\ h[0] = p.start
               /\ \A n \in 1 .. Total : h[n] = next[n][h[n - 1]]
  <2>. HIDE DEF next, G
  <2>1. \E h : Iterated(Nat, p.start, next, Total, h)
    BY <1>1, Iterates
  <2>. QED BY <2>1 DEF Iterated
<1>3. \A n \in 1 .. Total :
         h[n] = IF h[n - 1] \in Sectors /\ Leads(p, h[n - 1]) THEN Step(p, h[n - 1]) ELSE h[n - 1]
  <2>1. \A n \in 1 .. Total : n \in Nat /\ h[n - 1] \in Nat
    BY <1>1, <1>2
  <2>2. \A n, s \in Nat : next[n][s] = IF s \in Sectors /\ Leads(p, s) THEN Step(p, s) ELSE s
    OBVIOUS
  <2>. HIDE DEF next
  <2>. QED BY <1>2, <2>1, <2>2
<1>4. h = [n \in 0 .. Total |->
             IF n = 0 THEN p.start
             ELSE IF h[n - 1] \in Sectors /\ Leads(p, h[n - 1]) THEN Step(p, h[n - 1]) ELSE h[n - 1]]
  <2>1. \A n \in 0 .. Total : n # 0 => n \in 1 .. Total
    BY <1>1
  <2>. QED BY <1>2, <1>3, <2>1
<1>5. G = [n \in 0 .. Total |->
             IF n = 0 THEN p.start
             ELSE IF G[n - 1] \in Sectors /\ Leads(p, G[n - 1]) THEN Step(p, G[n - 1]) ELSE G[n - 1]]
  BY <1>4
<1>6. Hops(p) = G
  BY DEF Hops
<1>. HIDE DEF G, next
<1>7. \A n \in 1 .. Total :
        G[n] = IF G[n - 1] \in Sectors /\ Leads(p, G[n - 1]) THEN Step(p, G[n - 1]) ELSE G[n - 1]
  <2>1. \A n \in 1 .. Total : n \in 0 .. Total /\ n # 0
    BY <1>1
  <2>. QED BY <1>5, <2>1
<1>8. G[0] = p.start /\ DOMAIN G = 0 .. Total
  BY <1>5, <1>1
<1>9. \A n \in 0 .. Total : G[n] = h[n]
  <2>. DEFINE S == {n \in Nat : G[n] = h[n]}
  <2>1. 0 \in S
    BY <1>2, <1>8
  <2>2. ASSUME NEW n \in Nat, G[n] = h[n], n < Total PROVE G[n + 1] = h[n + 1]
    <3>1. n + 1 \in 1 .. Total /\ (n + 1) - 1 = n
      BY <1>1, <2>2
    <3>. QED BY <1>3, <1>7, <2>2, <3>1
  <2>3. \A n \in Nat : n \in S /\ n < Total => n + 1 \in S
    BY <2>2
  <2>. HIDE DEF S
  <2>4. 0 .. Total \subseteq S
    BY <1>1, <2>1, <2>3, Induction
  <2>. QED BY <2>4 DEF S
<1>10. G = h
  BY <1>2, <1>5, <1>8, <1>9
<1>. QED BY <1>2, <1>3, <1>6, <1>10

\* Where the links lead depends on the medium alone.
LEMMA HopsStay ==
    ASSUME medium' = medium, NEW p
    PROVE  Hops(p)' = Hops(p)
BY DEF Hops, Leads, Step, disk

\* What is arrived at does not depend on how far the scan is.
LEMMA ArrivesStays ==
    ASSUME medium' = medium, NEW p
    PROVE  Arrives(p)' = Arrives(p) /\ \A s : Step(p, s)' = Step(p, s)
<1>1. Hops(p)' = Hops(p)
  BY HopsStay
<1>. QED BY <1>1 DEF Arrives, Step, disk

\* A set of records that has the first one, and with each one the next, has all that
\* can be arrived at.
LEMMA ClosedIsAll ==
    ASSUME medium \in Media, NEW p \in Partitions, NEW V,
           p.start \in Sectors /\ disk.records[p.start].signed => p.start \in V,
           \A s \in V : s \in Sectors /\ Leads(p, s) /\ disk.records[Step(p, s)].signed => Step(p, s) \in V
    PROVE  Arrives(p) \subseteq V
<1>. DEFINE Fine(s) == s \in Sectors /\ disk.records[s].signed => s \in V
            S == {n \in Nat : Fine(Hops(p)[n])}
<1>1. /\ Hops(p)[0] = p.start /\ Total \in Nat
      /\ \A n \in 1 .. Total :
           LET s == Hops(p)[n - 1] IN
             Hops(p)[n] = IF s \in Sectors /\ Leads(p, s) THEN Step(p, s) ELSE s
  BY HopsAre, TotalAssumption
<1>2. 0 \in S
  BY <1>1
<1>3. ASSUME NEW n \in Nat, n \in S, n < Total PROVE n + 1 \in S
  <2>. DEFINE s == Hops(p)[n]
  <2>1. Hops(p)[n + 1] = IF s \in Sectors /\ Leads(p, s) THEN Step(p, s) ELSE s
    <3>1. n + 1 \in 1 .. Total /\ (n + 1) - 1 = n
      BY <1>1, <1>3
    <3>. QED BY <1>1, <3>1
  <2>2. Fine(s)
    BY <1>3
  <2>. HIDE DEF s
  <2>3. CASE s \in Sectors /\ Leads(p, s)
    <3>1. s \in V
      BY <2>2, <2>3 DEF Leads
    <3>2. Fine(Step(p, s))
      BY <2>3, <3>1
    <3>. QED BY <2>1, <2>3, <3>2
  <2>4. CASE ~ (s \in Sectors /\ Leads(p, s))
    BY <2>1, <2>2, <2>4
  <2>. QED BY <2>3, <2>4
<1>. HIDE DEF S
<1>4. 0 .. Total \subseteq S
  BY <1>1, <1>2, <1>3, Induction
<1>5. \A n \in 0 .. Total : Fine(Hops(p)[n])
  BY <1>4 DEF S
<1>. QED BY <1>5 DEF Arrives

\* The logical partition that a record describes is in the layout.
Listed(s) ==
    LET r == disk.records[s] IN
      r.type # "none" /\ r.count > 0 =>
        \E j \in DOMAIN parts : parts[j].start = s + r.rel /\ parts[j].count = r.count

\* While the chain of p is followed: what was visited can be arrived at, leads to
\* what was visited or is visited next, and is listed.
Following(p) ==
    /\ chain.base = p.start /\ chain.size = p.count
    /\ chain.visited \subseteq Arrives(p)
    /\ Cardinality(chain.visited) <= Total
    /\ chain.at \in Sectors => Hops(p)[Cardinality(chain.visited)] = chain.at
    /\ p.start \in chain.visited \cup {chain.at}
    /\ \A s \in chain.visited : Step(p, s) \in chain.visited \cup {chain.at} /\ Listed(s)

\* The chain of p has been followed as far as the limit allows.
Followed(p) ==
    Cardinality(Arrives(p)) <= MaxLogical => \A s \in Arrives(p) : Listed(s)

ChainsInv ==
    /\ pc = "chains" =>
         \A p \in Partitions : \A k \in DOMAIN parts :
           parts[k] = p /\ p.index <= 4 /\ IsExtended(p) =>
             k \in queue \/ (chain.open /\ Following(p)) \/ Followed(p)
    /\ pc = "layout" /\ table = "mbr" =>
         \A p \in Partitions : \A k \in DOMAIN parts :
           parts[k] = p /\ p.index <= 4 /\ IsExtended(p) => Followed(p)

\* Finitely many sectors have been visited, of those there are.
LEMMA VisitedIs ==
    ASSUME LayoutTypeOK
    PROVE  /\ chain.visited \subseteq Sectors /\ IsFiniteSet(chain.visited)
           /\ Cardinality(chain.visited) \in Nat
           /\ chain.at \in Sectors \ chain.visited =>
                /\ Cardinality(chain.visited \cup {chain.at}) = Cardinality(chain.visited) + 1
                /\ Cardinality(chain.visited) + 1 <= Total
<1>1. IsFiniteSet(Sectors) /\ Cardinality(Sectors) = Total /\ Total \in Nat
  <2>1. 0 \in Int /\ Total - 1 \in Int /\ Total \in Nat \ {0}
    BY TotalAssumption
  <2>2. IsFiniteSet(0 .. Total - 1)
        /\ Cardinality(0 .. Total - 1) = IF 0 > Total - 1 THEN 0 ELSE (Total - 1) - 0 + 1
    BY <2>1, FS_Interval
  <2>. QED BY <2>1, <2>2 DEF Sectors
<1>2. chain.visited \subseteq Sectors
  BY DEF LayoutTypeOK
<1>3. IsFiniteSet(chain.visited) /\ Cardinality(chain.visited) \in Nat
  BY <1>1, <1>2, FS_Subset, FS_CardinalityType
<1>4. ASSUME chain.at \in Sectors \ chain.visited
      PROVE  /\ Cardinality(chain.visited \cup {chain.at}) = Cardinality(chain.visited) + 1
             /\ Cardinality(chain.visited) + 1 <= Total
  <2>1. Cardinality(chain.visited \cup {chain.at}) = Cardinality(chain.visited) + 1
    BY <1>3, <1>4, FS_AddElement
  <2>2. chain.visited \cup {chain.at} \subseteq Sectors
    BY <1>2, <1>4
  <2>3. Cardinality(chain.visited \cup {chain.at}) <= Total
    BY <1>1, <2>2, FS_Subset
  <2>. QED BY <2>1, <2>3
<1>. QED BY <1>2, <1>3, <1>4

\* What is listed stays listed when the layout grows.
LEMMA ListedStays ==
    ASSUME medium' = medium, DOMAIN parts \subseteq DOMAIN parts',
           \A k \in DOMAIN parts : parts'[k] = parts[k]
    PROVE  /\ \A s : Listed(s) => Listed(s)'
           /\ \A p : Followed(p) => Followed(p)'
<1>1. \A s : Listed(s) => Listed(s)'
  BY DEF Listed, disk
<1>2. ASSUME NEW p, Followed(p) PROVE Followed(p)'
  <2>1. Arrives(p)' = Arrives(p)
    BY ArrivesStays
  <2>. QED BY <1>1, <1>2, <2>1 DEF Followed
<1>. QED BY <1>1, <1>2

\* Finitely many records can be arrived at.
LEMMA ArrivesIsFinite ==
    ASSUME NEW p
    PROVE  IsFiniteSet(Arrives(p)) /\ Cardinality(Arrives(p)) \in Nat
<1>1. IsFiniteSet(Sectors)
  <2>1. 0 \in Int /\ Total - 1 \in Int
    BY TotalAssumption
  <2>. QED BY <2>1, FS_Interval DEF Sectors
<1>2. Arrives(p) \subseteq Sectors
  BY DEF Arrives
<1>. QED BY <1>1, <1>2, FS_Subset, FS_CardinalityType

\* A chain that ends before its next record has been followed as far as the limit allows.
LEMMA ChainEnded ==
    ASSUME LayoutTypeOK, NEW p \in Partitions, Following(p), ~MayRead
    PROVE  Followed(p)
<1>. DEFINE V == chain.visited
            a == chain.at
<1>a. medium \in Media /\ MaxLogical \in Nat /\ Total \in Nat
  BY TotalAssumption, LogicalAssumption DEF LayoutTypeOK
<1>b. /\ V \subseteq Sectors /\ IsFiniteSet(V) /\ Cardinality(V) \in Nat /\ Cardinality(V) <= Total
      /\ a \in Sectors \ V => Cardinality(V \cup {a}) = Cardinality(V) + 1
  BY VisitedIs DEF Following
<1>1. CASE a \in Sectors \ V /\ disk.records[a].signed
  <2>1. Cardinality(V) >= MaxLogical
    BY <1>a, <1>b, <1>1 DEF MayRead
  <2>2. a \in Arrives(p)
    BY <1>a, <1>b, <1>1 DEF Arrives, Following
  <2>3. V \cup {a} \subseteq Arrives(p)
    BY <2>2 DEF Following
  <2>4. IsFiniteSet(Arrives(p)) /\ Cardinality(Arrives(p)) \in Nat
    BY ArrivesIsFinite
  <2>5. Cardinality(V \cup {a}) <= Cardinality(Arrives(p))
    BY <2>3, <2>4, FS_Subset
  <2>6. Cardinality(Arrives(p)) > MaxLogical
    BY <1>a, <1>b, <1>1, <2>1, <2>4, <2>5
  <2>. QED BY <1>a, <2>4, <2>6 DEF Followed
<1>2. CASE ~ (a \in Sectors \ V /\ disk.records[a].signed)
  <2>1. Arrives(p) \subseteq V
    <3>1. p.start \in Sectors /\ disk.records[p.start].signed => p.start \in V
      BY <1>2 DEF Following
    <3>2. ASSUME NEW s \in V, Leads(p, s), disk.records[Step(p, s)].signed PROVE Step(p, s) \in V
      BY <1>2, <3>2 DEF Following, Leads
    <3>. HIDE DEF V
    <3>. QED BY <1>a, <3>1, <3>2, ClosedIsAll
  <2>. QED BY <2>1 DEF Followed, Following
<1>. QED BY <1>1, <1>2

\* A chain starts where its partition does.
LEMMA ChainStarted ==
    ASSUME LayoutTypeOK, NEW p \in Partitions, medium' = medium,
           chain' = [base |-> p.start, size |-> p.count, at |-> p.start, visited |-> {}, open |-> TRUE]
    PROVE  Following(p)'
<1>1. medium \in Media /\ Hops(p)' = Hops(p) /\ Arrives(p)' = Arrives(p) /\ Hops(p)[0] = p.start
  BY HopsAre, HopsStay, ArrivesStays DEF LayoutTypeOK
<1>2. Cardinality({}) = 0 /\ 0 <= Total
  BY FS_EmptySet, TotalAssumption
<1>. QED BY <1>1, <1>2 DEF Following

\* With a record that is read the chain is followed further, or to its end.
LEMMA RecordRead ==
    ASSUME LayoutTypeOK, NEW p \in Partitions, Following(p), ReadRecord,
           \A s : Listed(s) => Listed(s)'
    PROVE  (chain'.open /\ Following(p)') \/ Followed(p)'
<1>. chain.at \in Sectors
  BY DEF ReadRecord, MayRead
<1>. PICK a \in Sectors : a = chain.at
  OBVIOUS
<1>. DEFINE V == chain.visited
            r == disk.records[a]
<1>a. /\ medium \in Media /\ medium' = medium /\ Total \in Nat /\ disk' = disk
      /\ chain \in Chains
  BY TotalAssumption DEF LayoutTypeOK, ReadRecord, disk, Chains
<1>b. a \in Sectors \ V /\ r.signed /\ r \in Records /\ Follow(r) /\ chain.open
  BY <1>a, DiskIs DEF ReadRecord, MayRead
<1>c. /\ V \subseteq Sectors /\ Cardinality(V) \in Nat
      /\ Cardinality(V \cup {a}) = Cardinality(V) + 1 /\ Cardinality(V) + 1 <= Total
  BY <1>b, VisitedIs
<1>d. Hops(p)' = Hops(p) /\ Arrives(p)' = Arrives(p) /\ \A s : Step(p, s)' = Step(p, s)
  BY <1>a, HopsStay, ArrivesStays
<1>e. /\ chain.base = p.start /\ chain.size = p.count /\ V \subseteq Arrives(p)
      /\ Hops(p)[Cardinality(V)] = a /\ p.start \in V \cup {a}
      /\ \A s \in V : Step(p, s) \in V \cup {a} /\ Listed(s)
  BY <1>b DEF Following
<1>1. a \in Arrives(p)
  <2>1. Cardinality(V) \in 0 .. Total
    BY <1>a, <1>c
  <2>. QED BY <1>b, <1>e, <2>1 DEF Arrives
<1>2. Listed(a)'
  <2>1. CASE r.type # "none" /\ r.count > 0
    <3>1. parts' = Append(parts, Logical(r)) /\ parts \in Seq(Partitions)
      BY <2>1 DEF ReadRecord, LayoutTypeOK
    <3>2. Logical(r).start = a + r.rel /\ Logical(r).count = r.count
      BY DEF Logical
    <3>. HIDE DEF r
    <3>3. Len(parts) + 1 \in DOMAIN parts' /\ parts'[Len(parts) + 1] = Logical(r)
      BY <3>1
    <3>4. disk'.records[a] = r
      BY <1>a DEF r
    <3>. QED BY <3>2, <3>3, <3>4 DEF Listed
  <2>2. CASE ~ (r.type # "none" /\ r.count > 0)
    BY <1>a, <2>2 DEF Listed
  <2>. QED BY <2>1, <2>2
<1>3. \A s \in V \cup {a} : Listed(s)'
  BY <1>2, <1>e
<1>4. CASE r.next = 0 \/ p.start + r.next >= p.start + p.count
  <2>1. ~Leads(p, a)
    <3>1. Step(p, a) \in Nat /\ p.start + p.count \in Nat
      BY <1>b DEF Step, Records, Partitions
    <3>. QED BY <1>4, <3>1 DEF Leads, Step
  <2>2. Arrives(p) \subseteq V \cup {a}
    <3>1. p.start \in V \cup {a}
      BY <1>e
    <3>2. \A s \in V \cup {a} : Leads(p, s) => Step(p, s) \in V \cup {a}
      BY <1>e, <2>1
    <3>. HIDE DEF V
    <3>. QED BY <1>a, <3>1, <3>2, ClosedIsAll
  <2>3. \A s \in Arrives(p)' : Listed(s)'
    BY <1>3, <1>d, <2>2
  <2>. QED BY <2>3 DEF Followed
<1>5. CASE ~ (r.next = 0 \/ p.start + r.next >= p.start + p.count)
  <2>1. chain' = [chain EXCEPT !.at = p.start + r.next, !.visited = V \cup {a}]
    BY <1>b, <1>e, <1>5 DEF Follow
  <2>2. /\ chain'.base = p.start /\ chain'.size = p.count /\ chain'.open
        /\ chain'.at = Step(p, a) /\ chain'.visited = V \cup {a}
    BY <1>a, <1>b, <1>e, <2>1 DEF Chains, Step
  <2>3. ASSUME Step(p, a) \in Sectors PROVE Hops(p)[Cardinality(V) + 1] = Step(p, a)
    <3>1. Leads(p, a)
      <4>1. Step(p, a) \in Nat /\ p.start + p.count \in Nat
        BY <1>b DEF Step, Records, Partitions
      <4>. QED BY <1>b, <1>5, <2>3, <4>1 DEF Leads, Step
    <3>2. Cardinality(V) + 1 \in 1 .. Total /\ (Cardinality(V) + 1) - 1 = Cardinality(V)
      BY <1>a, <1>c
    <3>. QED BY <1>a, <1>b, <1>e, <3>1, <3>2, HopsAre
  <2>4. \A s \in V \cup {a} : Step(p, s)' \in V \cup {a} \cup {Step(p, a)}
    BY <1>d, <1>e
  <2>5. V \cup {a} \subseteq Arrives(p)'
    BY <1>1, <1>d, <1>e
  <2>. HIDE DEF V, r
  <2>6. Following(p)'
    BY <1>3, <1>c, <1>d, <1>e, <2>2, <2>3, <2>4, <2>5 DEF Following
  <2>. QED BY <2>2, <2>6
<1>. QED BY <1>4, <1>5

\* Every step of the stage keeps what is known of the chains.
LEMMA ChainsStep == TypeInv /\ ChainsInv /\ [StageNext]_stageVars => ChainsInv'
<1>. SUFFICES ASSUME TypeInv, ChainsInv, [StageNext]_stageVars PROVE ChainsInv'
  OBVIOUS
<1>a. LayoutTypeOK /\ parts \in Seq(Partitions)
  BY DEF TypeInv, StageTypeOK, TypeOK, LayoutTypeOK
<1>1. CASE ReadMbr
  BY <1>1 DEF ReadMbr, ChainsInv
<1>2. CASE StartChain
  <2>1. PICK k \in queue :
          /\ chain' = [base |-> parts[k].start, size |-> parts[k].count,
                       at |-> parts[k].start, visited |-> {}, open |-> TRUE]
          /\ queue' = queue \ {k}
    BY <1>2 DEF StartChain
  <2>2. medium' = medium /\ parts' = parts /\ pc = "chains" /\ pc' = "chains" /\ ~chain.open /\ chain'.open
    BY <1>2, <2>1 DEF StartChain
  <2>3. \A p : Followed(p) => Followed(p)'
    BY <2>2, ListedStays
  <2>4. parts[k] \in Partitions
    BY <1>a DEF LayoutTypeOK
  <2>5. Following(parts[k])'
    <3>1. PICK p \in Partitions : p = parts[k]
      BY <2>4
    <3>2. Following(p)'
      BY <1>a, <2>1, <2>2, <3>1, ChainStarted
    <3>. QED BY <2>2, <3>1, <3>2
  <2>6. ASSUME NEW p \in Partitions, NEW j \in DOMAIN parts, parts[j] = p, p.index <= 4, IsExtended(p)
        PROVE  j \in queue' \/ (chain'.open /\ Following(p)') \/ Followed(p)'
    BY <2>1, <2>2, <2>3, <2>5, <2>6 DEF ChainsInv
  <2>. QED BY <2>2, <2>6 DEF ChainsInv
<1>3. CASE ReadRecord
  <2>. DEFINE r == disk.records[chain.at]
  <2>1. /\ medium' = medium /\ pc = "chains" /\ pc' = "chains" /\ queue' = queue
        /\ chain.at \in Sectors /\ parts' \in {parts, Append(parts, Logical(r))}
    BY <1>3 DEF ReadRecord, MayRead
  <2>2. Logical(r).index >= 5 /\ Logical(r).index \in Nat
    BY <1>a, <2>1, LogicalIs DEF Partitions
  <2>. HIDE DEF r
  <2>3. /\ DOMAIN parts \subseteq DOMAIN parts' /\ \A k \in DOMAIN parts : parts'[k] = parts[k]
        /\ \A k \in DOMAIN parts' \ DOMAIN parts : parts'[k] = Logical(r)
    BY <1>a, <2>1
  <2>4. (\A s : Listed(s) => Listed(s)') /\ \A p : Followed(p) => Followed(p)'
    BY <2>1, <2>3, ListedStays
  <2>5. \A p \in Partitions : Following(p) => (chain'.open /\ Following(p)') \/ Followed(p)'
    BY <1>3, <1>a, <2>4, RecordRead
  <2>6. ASSUME NEW p \in Partitions, NEW k \in DOMAIN parts', parts'[k] = p, p.index <= 4, IsExtended(p)
        PROVE  k \in queue' \/ (chain'.open /\ Following(p)') \/ Followed(p)'
    <3>1. k \in DOMAIN parts /\ parts[k] = p
      BY <2>2, <2>3, <2>6
    <3>2. k \in queue \/ Following(p) \/ Followed(p)
      BY <2>1, <2>6, <3>1 DEF ChainsInv
    <3>. QED BY <2>1, <2>4, <2>5, <3>2
  <2>. QED BY <2>1, <2>6 DEF ChainsInv
<1>4. CASE EndChain
  <2>1. medium' = medium /\ parts' = parts /\ pc = "chains" /\ pc' = "chains" /\ queue' = queue /\ ~MayRead
    BY <1>4 DEF EndChain
  <2>2. \A p : Followed(p) => Followed(p)'
    BY <2>1, ListedStays
  <2>3. \A p \in Partitions : Following(p) => Followed(p)
    BY <1>a, <2>1, ChainEnded
  <2>. QED BY <2>1, <2>2, <2>3 DEF ChainsInv
<1>5. CASE Inspect
  <2>1. /\ medium' = medium /\ pc = "chains" /\ pc' = "layout" /\ queue = {} /\ ~chain.open
        /\ table' = TableType
    BY <1>5 DEF Inspect
  <2>. SUFFICES ASSUME table' = "mbr" PROVE ChainsInv'
    BY <2>1 DEF ChainsInv
  <2>2. parts' = parts
    BY <1>5, <2>1 DEF Inspect, TableType
  <2>3. \A p : Followed(p) => Followed(p)'
    BY <2>1, <2>2, ListedStays
  <2>. QED BY <2>1, <2>2, <2>3 DEF ChainsInv
<1>6. CASE UNCHANGED layoutVars
  <2>1. /\ medium' = medium /\ parts' = parts /\ pc' = pc /\ queue' = queue /\ chain' = chain
        /\ table' = table
    BY <1>6 DEF layoutVars
  <2>2. \A p : Followed(p) => Followed(p)'
    BY <2>1, ListedStays
  <2>3. \A s : Listed(s) => Listed(s)'
    BY <2>1, ListedStays
  <2>4. \A p \in Partitions : Following(p) => Following(p)'
    <3>. SUFFICES ASSUME NEW p \in Partitions, Following(p) PROVE Following(p)'
      OBVIOUS
    <3>1. Hops(p)' = Hops(p) /\ Arrives(p)' = Arrives(p) /\ \A s : Step(p, s)' = Step(p, s)
      BY <2>1, HopsStay, ArrivesStays
    <3>. QED BY <2>1, <2>3, <3>1 DEF Following
  <2>. QED BY <2>1, <2>2, <2>4 DEF ChainsInv
<1>. QED BY <1>1, <1>2, <1>3, <1>4, <1>5, <1>6, LayoutSteps DEF LayoutNext

\* Every logical partition that can be arrived at is in the layout of an MBR: over
\* records in any order and in chains that come back to themselves.
THEOREM LogicalsAlwaysFound == Spec => []LogicalsAreFound
<1>1. StageInit => ChainsInv
  BY DEF StageInit, Init, LayoutInit, ChainsInv
<1>2. TypeInv /\ ChainsInv => LogicalsAreFound
  <2>. SUFFICES ASSUME TypeInv, ChainsInv, pc = "layout", table = "mbr",
                       NEW k \in DOMAIN parts, parts[k].index <= 4, IsExtended(parts[k]),
                       Cardinality(Arrives(parts[k])) <= MaxLogical, NEW s \in Arrives(parts[k])
                PROVE  Listed(s)
    BY DEF LogicalsAreFound, Listed
  <2>1. parts[k] \in Partitions
    <3>1. parts \in Seq(Partitions)
      BY DEF TypeInv, StageTypeOK, TypeOK, LayoutTypeOK
    <3>. QED BY <3>1
  <2>2. Followed(parts[k])
    BY <2>1 DEF ChainsInv
  <2>. QED BY <2>2 DEF Followed
<1>. QED BY <1>1, <1>2, ChainsStep, TypeInvariant, PTL DEF Spec

-----------------------------------------------------------------------------
(***************************************************************************)
(* What is carved.                                                         *)
(***************************************************************************)

\* A range holds the sector.
InRange(s) == \E r \in DOMAIN ranges : ranges[r].from <= s /\ s < ranges[r].to

\* What the carving may not leave out, and what accounts for a file it came by.
ToCarve(s) ==
    Unlisted(s) /\ (parts # <<>> => s >= Prefix) /\ ~ (parts = <<>> /\ content[0].kind = "boot")
Accounted(s) ==
    \/ s \in cut
    \/ \E k \in DOMAIN carved :
         carved[k].at = s \/ (carved[k].at < s /\ s < carved[k].at + carved[k].size)

\* The carving is past the sector, in that range.
Past(s, r) == r < range \/ (r = range /\ s < at)

\* The ranges leave out nothing that lies before pos, in the end nothing at all; and
\* every file that the carving is past in its range is accounted for.
CarveInv ==
    /\ step = "ranges" => \A s \in Sectors : Unlisted(s) /\ Prefix <= s /\ s < pos => InRange(s)
    /\ step \in {"carve", "done"} /\ command = "scan" /\ carves =>
         /\ \A s \in Sectors : ToCarve(s) => InRange(s)
         /\ \A s \in Signatures, r \in DOMAIN ranges :
              ranges[r].from <= s /\ s < ranges[r].to /\ Past(s, r) => Accounted(s)
    /\ step = "done" /\ command = "scan" /\ carves /\ Len(carved) < MaxCarved => range > Len(ranges)

\* Collecting a range leaves nothing out between two neighbours.
LEMMA RangeTaken ==
    ASSUME TypeInv, CarveInv, TakeRange, UNCHANGED layoutVars
    PROVE  CarveInv'
<1>a. LayoutTypeOK /\ RawTypeOK
  BY DEF TypeInv, StageTypeOK, TypeOK
<1>1. left # {} /\ left \subseteq DOMAIN parts /\ step = "ranges" /\ step' = "ranges" /\ parts' = parts
  BY <1>a DEF TakeRange, RawTypeOK, layoutVars
<1>2. NextPart \in left
  BY <1>a, <1>1, NextPartIs
<1>. DEFINE p == parts[NextPart]
            r == [from |-> pos, to |-> p.start]
<1>3. p.start \in Nat /\ p.end \in Nat /\ pos \in Nat /\ ranges \in Seq(Extents)
  BY <1>a, <1>1, <1>2, PartsAre DEF RawTypeOK
<1>4. /\ ranges' = IF p.start > pos THEN Append(ranges, r) ELSE ranges
      /\ pos' = p.end + 1
  BY DEF TakeRange
<1>5. \A s : Unlisted(s) => ~ (p.start <= s /\ s <= p.end) \/ s \notin Int
  BY <1>1, <1>2, <1>3 DEF Unlisted
<1>6. \A s : Unlisted(s)' = Unlisted(s)
  BY <1>1 DEF Unlisted
<1>7. r.from = pos /\ r.to = p.start
  OBVIOUS
<1>. HIDE DEF p, r
<1>8. DOMAIN ranges \subseteq DOMAIN ranges' /\ \A k \in DOMAIN ranges : ranges'[k] = ranges[k]
  BY <1>3, <1>4
<1>9. \A s : InRange(s) => InRange(s)'
  BY <1>8 DEF InRange
<1>10. p.start > pos => Len(ranges) + 1 \in DOMAIN ranges' /\ ranges'[Len(ranges) + 1] = r
  BY <1>3, <1>4
<1>11. ASSUME NEW s \in Sectors, Unlisted(s)', Prefix <= s, s < pos' PROVE InRange(s)'
  <2>1. s \in Nat /\ Unlisted(s)
    BY <1>6, <1>11, TotalAssumption DEF Sectors
  <2>2. CASE s < pos
    BY <1>1, <1>9, <1>11, <2>1, <2>2 DEF CarveInv
  <2>3. CASE pos <= s
    <3>1. s < p.start
      BY <1>3, <1>4, <1>5, <1>11, <2>1
    <3>2. p.start > pos
      BY <1>3, <2>1, <2>3, <3>1
    <3>. QED BY <1>7, <1>10, <2>3, <3>1, <3>2 DEF InRange
  <2>. QED BY <1>3, <2>1, <2>2, <2>3
<1>. QED BY <1>1, <1>11 DEF CarveInv

\* With the last one the ranges leave nothing out.
LEMMA RangesEnded ==
    ASSUME TypeInv, CarveInv, LastRange, UNCHANGED layoutVars
    PROVE  CarveInv'
<1>a. RawTypeOK /\ RawShape
  BY DEF TypeInv, StageTypeOK, TypeOK
<1>1. /\ step = "ranges" /\ step' = "carve" /\ parts' = parts /\ range = 1 /\ range' = 1
      /\ content' = content
  BY <1>a DEF LastRange, RawShape, layoutVars, content
<1>. DEFINE all == [from |-> 0, to |-> Total]
            rest == [from |-> pos, to |-> Total]
<1>2. /\ parts = <<>> => ranges' = IF content[0].kind = "boot" THEN <<>> ELSE <<all>>
      /\ parts # <<>> => ranges' = IF Total > pos THEN Append(ranges, rest) ELSE ranges
      /\ at' = IF ranges' # <<>> THEN ranges'[1].from ELSE 0
  BY DEF LastRange
<1>3. all.from = 0 /\ all.to = Total /\ rest.from = pos /\ rest.to = Total
  OBVIOUS
<1>4. Total \in Nat /\ pos \in Nat /\ ranges \in Seq(Extents)
  BY <1>a, TotalAssumption DEF RawTypeOK
<1>5. ranges' \in Seq(Extents)
  <2>1. RawTypeOK'
    BY <1>a, RawTypeRanges DEF TypeInv, StageTypeOK, TypeOK
  <2>. QED BY <2>1 DEF RawTypeOK
<1>. HIDE DEF all, rest
<1>6. ASSUME NEW s \in Sectors, ToCarve(s)' PROVE InRange(s)'
  <2>1. s \in Nat /\ s < Total /\ ToCarve(s)
    BY <1>1, <1>4, <1>6 DEF Sectors, ToCarve, Unlisted
  <2>2. CASE parts = <<>>
    <3>1. ranges' = <<all>>
      BY <1>2, <2>1, <2>2 DEF ToCarve
    <3>2. 1 \in DOMAIN ranges' /\ ranges'[1] = all
      BY <3>1
    <3>. QED BY <1>3, <2>1, <3>2 DEF InRange
  <2>3. CASE parts # <<>>
    <3>1. CASE s < pos
      <4>1. InRange(s)
        BY <1>1, <2>1, <2>3, <3>1 DEF CarveInv, ToCarve
      <4>2. DOMAIN ranges \subseteq DOMAIN ranges' /\ \A k \in DOMAIN ranges : ranges'[k] = ranges[k]
        BY <1>2, <1>4, <2>3
      <4>. QED BY <4>1, <4>2 DEF InRange
    <3>2. CASE pos <= s
      <4>1. ranges' = Append(ranges, rest)
        BY <1>2, <1>4, <2>1, <2>3, <3>2
      <4>2. Len(ranges) + 1 \in DOMAIN ranges' /\ ranges'[Len(ranges) + 1] = rest
        BY <1>4, <4>1
      <4>. QED BY <1>3, <2>1, <3>2, <4>2 DEF InRange
    <3>. QED BY <1>4, <2>1, <3>1, <3>2
  <2>. QED BY <2>2, <2>3
<1>7. \A s \in Sectors, r \in DOMAIN ranges' : ranges'[r].from <= s => ~Past(s, r)'
  <2>. SUFFICES ASSUME NEW s \in Sectors, NEW r \in DOMAIN ranges', ranges'[r].from <= s, Past(s, r)'
                PROVE  FALSE
    OBVIOUS
  <2>1. r \in Nat /\ r >= 1 /\ ranges' # <<>> /\ ranges'[r].from \in Nat /\ s \in Nat
    <3>1. ranges'[r] \in Extents /\ r \in Nat /\ r >= 1 /\ ranges' # <<>>
      BY <1>5
    <3>. QED BY <3>1, <1>4 DEF Extents, Sectors
  <2>2. at' = ranges'[1].from
    BY <1>2, <2>1
  <2>. QED BY <1>1, <2>1, <2>2 DEF Past
<1>8. Signatures' \subseteq Sectors
  BY DEF Signatures
<1>. QED BY <1>1, <1>6, <1>7, <1>8 DEF CarveInv

\* The carving comes past nothing without accounting for it.
LEMMA CarveStep ==
    ASSUME TypeInv, CarveInv, Carve, UNCHANGED layoutVars, command = "scan"
    PROVE  CarveInv'
<1>. SUFFICES ASSUME carves PROVE CarveInv'
  <2>1. carves' = carves /\ step' # "ranges"
    BY DEF layoutVars, carves, Carve, ReadChunk, CarveFile, PassSector, NextRange, EndCarving, GoesOn
  <2>. QED BY <2>1 DEF CarveInv
<1>a. /\ RawTypeOK /\ RawShape /\ step = "carve" /\ command' = command
      /\ parts' = parts /\ content' = content /\ ranges' = ranges
  BY DEF TypeInv, StageTypeOK, TypeOK, Carve, ReadChunk, CarveFile, PassSector, NextRange, EndCarving,
     GoesOn, layoutVars, content
<1>b. /\ at \in Nat /\ range \in Nat /\ chunkEnd \in Nat /\ ranges \in Seq(Extents)
      /\ Total \in Nat /\ \A s \in Sectors : s \in Nat /\ s < Total
      /\ \A r \in DOMAIN ranges : r \in Nat /\ ranges[r].from \in Nat /\ ranges[r].to \in Nat
  <2>1. ranges \in Seq(Extents)
    BY <1>a DEF RawTypeOK
  <2>2. \A r \in DOMAIN ranges : r \in Nat /\ ranges[r] \in Extents
    BY <2>1
  <2>. QED BY <1>a, <2>1, <2>2, TotalAssumption DEF RawTypeOK, Extents, Sectors
<1>c. /\ \A s : ToCarve(s)' = ToCarve(s) /\ InRange(s)' = InRange(s)
      /\ Signatures' = Signatures /\ Signatures \subseteq Sectors
  BY <1>a DEF ToCarve, InRange, Unlisted, Signatures
<1>d. /\ \A s \in Sectors : ToCarve(s) => InRange(s)
      /\ \A s \in Signatures, r \in DOMAIN ranges :
           ranges[r].from <= s /\ s < ranges[r].to /\ Past(s, r) => Accounted(s)
  BY <1>a DEF CarveInv
<1>. SUFFICES /\ \A s \in Signatures, r \in DOMAIN ranges :
                   ranges[r].from <= s /\ s < ranges[r].to /\ Past(s, r)' => Accounted(s)'
              /\ step' = "done" /\ Len(carved') < MaxCarved => range' > Len(ranges)
              /\ step' \in {"carve", "done"}
  BY <1>a, <1>c, <1>d DEF CarveInv
<1>1. CASE ReadChunk \/ EndCarving
  <2>1. /\ range' = range /\ at' = at /\ carved' = carved /\ cut' = cut /\ step' \in {"carve", "done"}
        /\ step' = "done" => ~GoesOn
    BY <1>1, <1>a DEF ReadChunk, EndCarving
  <2>2. \A s, r : Past(s, r)' = Past(s, r) /\ Accounted(s)' = Accounted(s)
    BY <2>1 DEF Past, Accounted
  <2>3. step' = "done" /\ Len(carved') < MaxCarved => range' > Len(ranges)
    BY <1>a, <1>b, <2>1 DEF GoesOn
  <2>. QED BY <1>d, <2>1, <2>2, <2>3
<1>2. CASE CarveFile
  <2>. DEFINE size == Smaller(content[at].size, ranges[range].to - at)
  <2>1. /\ step' = "carve" /\ range' = range /\ cut' = cut /\ Skip(size) /\ at < chunkEnd
        /\ carved' = Append(carved, [at |-> at, size |-> size])
    BY <1>2, <1>a DEF CarveFile
  <2>2. size \in Int
    <3>1. range \in DOMAIN ranges /\ at \in Sectors
      BY <1>a, <1>b, <2>1 DEF RawShape, Sectors
    <3>2. LayoutTypeOK
      BY DEF TypeInv, StageTypeOK, TypeOK
    <3>3. content[at] \in Cells
      BY <3>1, <3>2, ContentIs
    <3>. QED BY <1>b, <3>1, <3>3 DEF Smaller, Cells
  <2>. HIDE DEF size
  <2>3. at' = at + Larger(size, 1)
    BY <2>1 DEF Skip
  <2>4. ASSUME NEW s \in Sectors, NEW r, Past(s, r)' PROVE Past(s, r) \/ (at <= s /\ s < at')
    BY <1>b, <2>1, <2>4 DEF Past
  <2>. DEFINE c == [at |-> at, size |-> size]
              last == Len(carved) + 1
  <2>5. /\ DOMAIN carved \subseteq DOMAIN carved' /\ \A k \in DOMAIN carved : carved'[k] = carved[k]
        /\ last \in DOMAIN carved' /\ carved'[last] = c
    <3>1. carved \in Seq([at : Sectors, size : Nat]) /\ carved' = Append(carved, c)
      BY <1>a, <2>1 DEF RawTypeOK
    <3>. HIDE DEF c
    <3>. QED BY <3>1
  <2>6. c.at = at /\ c.size = size
    OBVIOUS
  <2>. HIDE DEF c, last
  <2>7. \A s : Accounted(s) => Accounted(s)'
    BY <2>1, <2>5 DEF Accounted
  <2>8. ASSUME NEW s \in Sectors, at <= s, s < at' PROVE Accounted(s)'
    <3>1. c.at = s \/ (c.at < s /\ s < c.at + c.size)
      BY <1>b, <2>2, <2>3, <2>6, <2>8 DEF Larger
    <3>. QED BY <2>5, <3>1 DEF Accounted
  <2>. QED BY <1>c, <1>d, <2>1, <2>4, <2>7, <2>8
<1>3. CASE PassSector
  <2>1. /\ step' = "carve" /\ range' = range /\ carved' = carved /\ at' = at + 1
        /\ cut' = IF content[at].kind = "file" THEN cut \cup {at} ELSE cut
    BY <1>3, <1>a DEF PassSector
  <2>2. ASSUME NEW s \in Sectors, NEW r, Past(s, r)' PROVE Past(s, r) \/ s = at
    BY <1>b, <2>1, <2>2 DEF Past
  <2>3. \A s : Accounted(s) => Accounted(s)'
    BY <2>1 DEF Accounted
  <2>4. ASSUME NEW s \in Signatures, s = at PROVE Accounted(s)'
    BY <2>1, <2>4 DEF Signatures, Accounted
  <2>. QED BY <1>c, <1>d, <2>1, <2>2, <2>3, <2>4
<1>4. CASE NextRange
  <2>1. /\ step' = "carve" /\ range' = range + 1 /\ carved' = carved /\ cut' = cut /\ Ended
        /\ at' = IF range < Len(ranges) THEN ranges[range + 1].from ELSE 0
    BY <1>4, <1>a DEF NextRange
  <2>2. ASSUME NEW s \in Signatures, NEW r \in DOMAIN ranges, ranges[r].from <= s, s < ranges[r].to,
               Past(s, r)'
        PROVE  Past(s, r)
    <3>1. s \in Nat /\ s < Total
      BY <1>b, <1>c
    <3>2. CASE r = range + 1
      <4>1. at' = ranges[r].from
        BY <1>b, <2>1, <3>2
      <4>. QED BY <1>b, <2>1, <2>2, <3>1, <3>2, <4>1 DEF Past
    <3>3. CASE r = range
      BY <1>b, <2>1, <2>2, <3>1, <3>3 DEF Past, Ended
    <3>4. CASE r # range /\ r # range + 1
      BY <1>b, <2>1, <2>2, <3>4 DEF Past
    <3>. QED BY <3>2, <3>3, <3>4
  <2>3. \A s : Accounted(s)' = Accounted(s)
    BY <2>1 DEF Accounted
  <2>. QED BY <1>d, <2>1, <2>2, <2>3
<1>. QED BY <1>1, <1>2, <1>3, <1>4 DEF Carve

\* Every step keeps what is known of the ranges and of what is carved.
LEMMA CarveInvStep == TypeInv /\ GapsInv /\ CarveInv /\ [StageNext]_stageVars => CarveInv'
<1>. SUFFICES ASSUME TypeInv, GapsInv, CarveInv, [StageNext]_stageVars PROVE CarveInv'
  OBVIOUS
<1>a. RawShape
  BY DEF TypeInv
<1>1. ASSUME UNCHANGED rawVars, parts' = parts, content' = content, carves' = carves PROVE CarveInv'
  BY <1>1 DEF CarveInv, rawVars, InRange, ToCarve, Unlisted, Accounted, Past, Signatures
<1>2. CASE FileNext /\ UNCHANGED vars
  BY <1>1, <1>2 DEF vars, layoutVars, content, carves
<1>3. CASE LayoutNext /\ UNCHANGED rawVars
  <2>1. step' = "wait"
    BY <1>a, <1>3 DEF RawShape, rawVars, LayoutNext, ReadMbr, StartChain, ReadRecord, EndChain, Inspect
  <2>. QED BY <2>1 DEF CarveInv
<1>4. CASE UNCHANGED stageVars
  BY <1>1, <1>4 DEF stageVars, vars, layoutVars, content, carves
<1>5. CASE RawNext /\ UNCHANGED layoutVars
  <2>1. CASE Begin \/ Sample
    <3>1. step' \notin {"carve", "done"} /\ (step' = "ranges" => pos' = Prefix)
      BY <2>1 DEF Begin, Sample
    <3>2. \A s \in Sectors : s \in Nat
      BY TotalAssumption DEF Sectors
    <3>. QED BY <3>1, <3>2, PrefixAssumption DEF CarveInv
  <2>2. CASE TakeGap \/ LastGap
    <3>1. step' \notin {"carve", "done", "ranges"}
      BY <2>2 DEF TakeGap, LastGap
    <3>. QED BY <3>1 DEF CarveInv
  <2>3. CASE Remnants \/ VerifyWipe
    <3>1. step' \notin {"carve", "ranges"} /\ command' = "egress"
      BY <2>3 DEF Remnants, VerifyWipe, GapsInv
    <3>. QED BY <3>1 DEF CarveInv
  <2>4. CASE TakeRange \/ LastRange
    BY <1>5, <2>4, RangeTaken, RangesEnded
  <2>5. CASE Carve
    <3>1. command = "scan"
      BY <2>5 DEF GapsInv, Carve, ReadChunk, CarveFile, PassSector, NextRange, EndCarving, GoesOn, RawShape
    <3>. QED BY <1>5, <2>5, <3>1, CarveStep
  <2>6. CASE LeaveUncarved
    <3>1. step' = "done" /\ ~carves'
      BY <1>5, <2>6 DEF LeaveUncarved, layoutVars, carves
    <3>. QED BY <3>1 DEF CarveInv
  <2>. QED BY <1>5, <2>1, <2>2, <2>3, <2>4, <2>5, <2>6 DEF RawNext
<1>. QED BY <1>2, <1>3, <1>4, <1>5, Steps

\* Whatever file lies where no partition is listed is carved, if the policy has files
\* carved and the limit, which counts every carving, is not reached, unless its header
\* goes on in the next chunk or it was taken for a part of another one.
THEOREM CarvedAlwaysReported == Spec => []CarvedIsReported
<1>1. StageInit => CarveInv
  BY DEF StageInit, Init, RawInit, CarveInv
<1>2. TypeInv /\ CarveInv => CarvedIsReported
  <2>. SUFFICES ASSUME TypeInv, CarveInv, step = "done", command = "scan", carves,
                       Len(carved) < MaxCarved, NEW s \in Signatures, ToCarve(s)
                PROVE  Accounted(s)
    BY DEF CarvedIsReported, ToCarve, Accounted
  <2>1. PICK r \in DOMAIN ranges : ranges[r].from <= s /\ s < ranges[r].to
    BY DEF CarveInv, Signatures, InRange
  <2>2. ranges \in Seq(Extents) /\ range \in Nat
    BY DEF TypeInv, StageTypeOK, TypeOK, RawTypeOK
  <2>3. r < range
    BY <2>2 DEF CarveInv
  <2>. QED BY <2>1, <2>3 DEF CarveInv, Past
<1>. QED BY <1>1, <1>2, CarveInvStep, TypeInvariant, GapsAlways, PTL DEF Spec

-----------------------------------------------------------------------------
(***************************************************************************)
(* What lies in an archive.                                                *)
(***************************************************************************)

\* The layers of an archive: itself, and what lies in those of the layer above.
LEMMA LayersAre ==
    ASSUME NEW a \in Archives
    PROVE  /\ Layers(a)[0] = {a}
           /\ \A n \in 1 .. MaxNesting + 1 : Layers(a)[n] = UNION {Nested(b) : b \in Layers(a)[n - 1]}
<1>. DEFINE max == MaxNesting + 1
            V == SUBSET Archives
            next == [n \in Nat |-> [S \in V |-> UNION {Nested(b) : b \in S}]]
            G == CHOOSE f : f = [n \in 0 .. MaxNesting + 1 |->
                   IF n = 0 THEN {a} ELSE UNION {Nested(b) : b \in f[n - 1]}]
<1>1. max \in Nat
  BY NestingAssumption
<1>2. next \in [Nat -> [V -> V]] /\ {a} \in V
  <2>1. \A b \in Archives : Nested(b) \subseteq Archives
    <3>. SUFFICES ASSUME NEW b \in Archives, NEW i \in DOMAIN ArchiveOf[b].members
                  PROVE  ArchiveOf[b].members[i].nested \in Archives \cup {NoArchive}
      BY DEF Nested
    <3>1. ArchiveOf[b].members[i] \in Members
      BY ArchiveIs
    <3>. QED BY <3>1 DEF Members
  <2>2. \A S \in V : UNION {Nested(b) : b \in S} \in V
    BY <2>1
  <2>. HIDE DEF V
  <2>. QED BY <2>2 DEF V
<1>3. PICK h : /\ h \in [0 .. max -> V] /\ h[0] = {a}
               /\ \A n \in 1 .. max : h[n] = next[n][h[n - 1]]
  <2>. HIDE DEF next, G, V, max
  <2>1. \E h : Iterated(V, {a}, next, max, h)
    BY <1>1, <1>2, Iterates
  <2>. QED BY <2>1 DEF Iterated
<1>4. \A n \in 1 .. max : h[n] = UNION {Nested(b) : b \in h[n - 1]}
  <2>1. \A n \in 1 .. max : n \in Nat /\ h[n - 1] \in V
    <3>. HIDE DEF V
    <3>. QED BY <1>1, <1>3
  <2>2. \A n \in Nat, S \in V : next[n][S] = UNION {Nested(b) : b \in S}
    OBVIOUS
  <2>. HIDE DEF next, V
  <2>. QED BY <1>3, <2>1, <2>2
<1>5. h = [n \in 0 .. MaxNesting + 1 |->
             IF n = 0 THEN {a} ELSE UNION {Nested(b) : b \in h[n - 1]}]
  <2>1. \A n \in 0 .. max : n # 0 => n \in 1 .. max
    BY <1>1
  <2>. HIDE DEF next, V
  <2>. QED BY <1>3, <1>4, <2>1
<1>6. G = [n \in 0 .. MaxNesting + 1 |->
             IF n = 0 THEN {a} ELSE UNION {Nested(b) : b \in G[n - 1]}]
  BY <1>5
<1>7. Layers(a) = G
  BY DEF Layers
<1>. HIDE DEF G
<1>8. \A n \in 1 .. max : n \in 0 .. max /\ n # 0
  BY <1>1
<1>9. 0 \in 0 .. max
  BY <1>1
<1>. QED BY <1>6, <1>7, <1>8, <1>9

\* What the first members of an archive unpack to, with what lies in them.
LEMMA SizesAre ==
    ASSUME NEW a \in Archives, NEW inner \in [DOMAIN ArchiveOf[a].members -> Nat]
    PROVE  /\ Sizes(a, inner) \in [0 .. Len(ArchiveOf[a].members) -> Nat] /\ Sizes(a, inner)[0] = 0
           /\ \A i \in DOMAIN ArchiveOf[a].members :
                /\ OwnSize(a, i) \in Nat
                /\ Sizes(a, inner)[i] = Sizes(a, inner)[i - 1] + OwnSize(a, i) + inner[i]
<1>. DEFINE max == Len(ArchiveOf[a].members)
            next == [i \in Nat |-> [v \in Nat |-> IF i \in 1 .. max THEN v + OwnSize(a, i) + inner[i] ELSE v]]
            G == CHOOSE f : f = [i \in 0 .. Len(ArchiveOf[a].members) |->
                   IF i = 0 THEN 0 ELSE f[i - 1] + OwnSize(a, i) + inner[i]]
<1>1. max \in Nat /\ DOMAIN ArchiveOf[a].members = 1 .. max
  BY ArchiveIs
<1>2. \A i \in 1 .. max : OwnSize(a, i) \in Nat /\ inner[i] \in Nat
  <2>1. \A i \in 1 .. max : ArchiveOf[a].members[i] \in Members
    BY <1>1, ArchiveIs
  <2>. QED BY <1>1, <2>1 DEF OwnSize, Members
<1>3. next \in [Nat -> [Nat -> Nat]]
  <2>. HIDE DEF max
  <2>1. \A i, v \in Nat : (IF i \in 1 .. max THEN v + OwnSize(a, i) + inner[i] ELSE v) \in Nat
    BY <1>2
  <2>. QED BY <2>1
<1>4. PICK h : /\ h \in [0 .. max -> Nat] /\ h[0] = 0
               /\ \A i \in 1 .. max : h[i] = next[i][h[i - 1]]
  <2>. HIDE DEF next, G, max
  <2>1. \E h : Iterated(Nat, 0, next, max, h)
    BY <1>1, <1>3, Iterates
  <2>. QED BY <2>1 DEF Iterated
<1>5. \A i \in 1 .. max : h[i] = h[i - 1] + OwnSize(a, i) + inner[i]
  <2>. HIDE DEF max
  <2>1. \A i \in 1 .. max : i \in Nat /\ h[i - 1] \in Nat
    BY <1>1, <1>4
  <2>2. \A i \in 1 .. max, v \in Nat : i \in Nat => next[i][v] = v + OwnSize(a, i) + inner[i]
    OBVIOUS
  <2>. HIDE DEF next
  <2>. QED BY <1>4, <2>1, <2>2
<1>6. h = [i \in 0 .. Len(ArchiveOf[a].members) |->
             IF i = 0 THEN 0 ELSE h[i - 1] + OwnSize(a, i) + inner[i]]
  <2>1. \A i \in 0 .. max : i # 0 => i \in 1 .. max
    BY <1>1
  <2>. HIDE DEF next
  <2>. QED BY <1>4, <1>5, <2>1
<1>7. G = [i \in 0 .. Len(ArchiveOf[a].members) |->
             IF i = 0 THEN 0 ELSE G[i - 1] + OwnSize(a, i) + inner[i]]
  BY <1>6
<1>8. Sizes(a, inner) = G
  BY DEF Sizes
<1>. HIDE DEF G, next
<1>9. /\ \A i \in 1 .. max : G[i] = G[i - 1] + OwnSize(a, i) + inner[i]
      /\ G[0] = 0
  <2>1. 0 \in 0 .. max /\ \A i \in 1 .. max : i \in 0 .. max /\ i # 0
    BY <1>1
  <2>. QED BY <1>7, <2>1
<1>10. \A i \in 0 .. max : G[i] = h[i]
  <2>. DEFINE S == {i \in Nat : G[i] = h[i]}
  <2>. HIDE DEF max
  <2>1. 0 \in S
    BY <1>4, <1>9
  <2>2. ASSUME NEW i \in Nat, G[i] = h[i], i < max PROVE G[i + 1] = h[i + 1]
    <3>1. i + 1 \in 1 .. max /\ (i + 1) - 1 = i
      BY <1>1, <2>2
    <3>. QED BY <1>5, <1>9, <2>2, <3>1
  <2>3. \A i \in Nat : i \in S /\ i < max => i + 1 \in S
    BY <2>2
  <2>. HIDE DEF S
  <2>4. 0 .. max \subseteq S
    BY <1>1, <2>1, <2>3, Induction
  <2>. QED BY <2>4 DEF S
<1>11. G = h
  <2>. HIDE DEF max
  <2>1. G = [i \in 0 .. max |-> G[i]] /\ h = [i \in 0 .. max |-> h[i]]
    <3>1. DOMAIN G = 0 .. max /\ G = [i \in DOMAIN G |-> G[i]]
      BY <1>7 DEF max
    <3>. QED BY <1>4, <3>1
  <2>. QED BY <1>10, <2>1
<1>. QED BY <1>1, <1>2, <1>4, <1>5, <1>8, <1>11

\* What the archives within an archive unpack to, member by member, and what it
\* unpacks to itself, when w says it of every archive.
Inner(a, w) ==
    [i \in DOMAIN ArchiveOf[a].members |->
       IF ArchiveOf[a].members[i].nested = NoArchive THEN 0 ELSE w[ArchiveOf[a].members[i].nested]]
Content(a, w) == Sizes(a, Inner(a, w))[Len(ArchiveOf[a].members)]
NoContent == [a \in Archives |-> 0]
Outwards == [n \in Nat |-> [w \in [Archives -> Nat] |-> [a \in Archives |-> Content(a, w)]]]

\* What every archive unpacks to, down to as many levels.
UnpackedTo == CHOOSE h : Iterated([Archives -> Nat], NoContent, Outwards, MaxNesting + 1, h)

\* What an archive unpacks to is a number when that of the others is.
LEMMA ContentIsSize ==
    ASSUME NEW a \in Archives, NEW w \in [Archives -> Nat]
    PROVE  Inner(a, w) \in [DOMAIN ArchiveOf[a].members -> Nat] /\ Content(a, w) \in Nat
<1>1. Inner(a, w) \in [DOMAIN ArchiveOf[a].members -> Nat]
  <2>. SUFFICES ASSUME NEW i \in DOMAIN ArchiveOf[a].members
                PROVE  (IF ArchiveOf[a].members[i].nested = NoArchive THEN 0
                        ELSE w[ArchiveOf[a].members[i].nested]) \in Nat
    BY DEF Inner
  <2>1. ArchiveOf[a].members[i].nested \in Archives \cup {NoArchive}
    BY ArchiveIs DEF Members
  <2>. QED BY <2>1
<1>2. Len(ArchiveOf[a].members) \in 0 .. Len(ArchiveOf[a].members)
  BY ArchiveIs
<1>. QED BY <1>1, <1>2, SizesAre DEF Content

\* The sizes, level by level.
LEMMA UnpackedToIs ==
    /\ UnpackedTo \in [0 .. MaxNesting + 1 -> [Archives -> Nat]] /\ UnpackedTo[0] = NoContent
    /\ \A n \in 1 .. MaxNesting + 1 : \A a \in Archives : UnpackedTo[n][a] = Content(a, UnpackedTo[n - 1])
<1>. DEFINE V == [Archives -> Nat]
            max == MaxNesting + 1
<1>1. max \in Nat /\ NoContent \in V
  BY NestingAssumption DEF NoContent
<1>2. \A w \in V : [a \in Archives |-> Content(a, w)] \in V
  <2>1. \A w \in V, a \in Archives : Content(a, w) \in Nat
    BY ContentIsSize
  <2>. QED BY <2>1
<1>3. Outwards \in [Nat -> [V -> V]] /\ \A n \in Nat, w \in V : Outwards[n][w] = [a \in Archives |-> Content(a, w)]
  <2>. HIDE DEF V
  <2>. QED BY <1>2 DEF Outwards, V
<1>. HIDE DEF V, max
<1>4. \E h : Iterated(V, NoContent, Outwards, max, h)
  BY <1>1, <1>3, Iterates
<1>5. Iterated(V, NoContent, Outwards, max, UnpackedTo)
  BY <1>4 DEF UnpackedTo, V, max
<1>6. /\ UnpackedTo \in [0 .. max -> V] /\ UnpackedTo[0] = NoContent
      /\ \A n \in 1 .. max : UnpackedTo[n] = Outwards[n][UnpackedTo[n - 1]]
  BY <1>5 DEF Iterated
<1>7. \A n \in 1 .. max : n \in Nat /\ UnpackedTo[n - 1] \in V
  BY <1>1, <1>6
<1>8. \A n \in 1 .. max : UnpackedTo[n] = [a \in Archives |-> Content(a, UnpackedTo[n - 1])]
  BY <1>3, <1>6, <1>7
<1>9. \A n \in 1 .. max : \A a \in Archives : UnpackedTo[n][a] = Content(a, UnpackedTo[n - 1])
  BY <1>8
<1>. QED BY <1>6, <1>9 DEF V, max

\* Whichever way the sizes are put together, they are the same.
LEMMA UnpackedIs == ASSUME NEW c \in Archives PROVE Unpacked(c) = UnpackedTo[MaxNesting + 1][c]
<1>. DEFINE D == (0 .. MaxNesting + 1) \X Archives
            f == [x \in D |-> UnpackedTo[x[1]][x[2]]]
            G == CHOOSE g : g = [x \in (0 .. MaxNesting + 1) \X Archives |->
                   LET members == ArchiveOf[x[2]].members
                       inner == [i \in DOMAIN members |->
                                   IF members[i].nested = NoArchive THEN 0
                                   ELSE g[<<x[1] - 1, members[i].nested>>]]
                   IN  IF x[1] = 0 THEN 0 ELSE Sizes(x[2], inner)[Len(members)]]
<1>1. MaxNesting + 1 \in Nat
  BY NestingAssumption
<1>2. \A n \in 0 .. MaxNesting + 1, a \in Archives : f[<<n, a>>] = UnpackedTo[n][a]
  OBVIOUS
<1>3. ASSUME NEW n \in 1 .. MaxNesting + 1, NEW a \in Archives, NEW g,
             \A b \in Archives : g[<<n - 1, b>>] = UnpackedTo[n - 1][b]
      PROVE  UnpackedTo[n][a] =
               Sizes(a, [i \in DOMAIN ArchiveOf[a].members |->
                           IF ArchiveOf[a].members[i].nested = NoArchive THEN 0
                           ELSE g[<<n - 1, ArchiveOf[a].members[i].nested>>]])[Len(ArchiveOf[a].members)]
  <2>1. \A i \in DOMAIN ArchiveOf[a].members :
           ArchiveOf[a].members[i].nested \in Archives \cup {NoArchive}
    BY ArchiveIs DEF Members
  <2>2. Inner(a, UnpackedTo[n - 1]) =
          [i \in DOMAIN ArchiveOf[a].members |->
             IF ArchiveOf[a].members[i].nested = NoArchive THEN 0
             ELSE g[<<n - 1, ArchiveOf[a].members[i].nested>>]]
    BY <1>3, <2>1 DEF Inner
  <2>. QED BY <2>2, UnpackedToIs DEF Content
<1>4. ASSUME NEW x \in D
      PROVE  f[x] = LET members == ArchiveOf[x[2]].members
                        inner == [i \in DOMAIN members |->
                                    IF members[i].nested = NoArchive THEN 0
                                    ELSE f[<<x[1] - 1, members[i].nested>>]]
                    IN  IF x[1] = 0 THEN 0 ELSE Sizes(x[2], inner)[Len(members)]
  <2>1. PICK n \in 0 .. MaxNesting + 1, a \in Archives : x = <<n, a>>
    OBVIOUS
  <2>2. CASE n = 0
    <3>1. f[x] = 0
      BY <1>2, <2>1, <2>2, UnpackedToIs DEF NoContent
    <3>. HIDE DEF f
    <3>. QED BY <2>1, <2>2, <3>1
  <2>3. CASE n # 0
    <3>1. n \in 1 .. MaxNesting + 1 /\ n - 1 \in 0 .. MaxNesting + 1
      BY <1>1, <2>3
    <3>2. \A b \in Archives : f[<<n - 1, b>>] = UnpackedTo[n - 1][b]
      BY <1>2, <3>1
    <3>3. f[x] = UnpackedTo[n][a]
      BY <1>2, <2>1
    <3>. HIDE DEF f
    <3>4. UnpackedTo[n][a] =
            Sizes(a, [i \in DOMAIN ArchiveOf[a].members |->
                        IF ArchiveOf[a].members[i].nested = NoArchive THEN 0
                        ELSE f[<<n - 1, ArchiveOf[a].members[i].nested>>]])[Len(ArchiveOf[a].members)]
      BY <1>3, <3>1, <3>2
    <3>5. x[1] = n /\ x[2] = a
      BY <2>1
    <3>. QED BY <2>3, <3>3, <3>4, <3>5
  <2>. QED BY <2>2, <2>3
<1>5. f = [x \in (0 .. MaxNesting + 1) \X Archives |->
             LET members == ArchiveOf[x[2]].members
                 inner == [i \in DOMAIN members |->
                             IF members[i].nested = NoArchive THEN 0
                             ELSE f[<<x[1] - 1, members[i].nested>>]]
             IN  IF x[1] = 0 THEN 0 ELSE Sizes(x[2], inner)[Len(members)]]
  <2>1. f = [x \in D |-> f[x]]
    OBVIOUS
  <2>. HIDE DEF f
  <2>. QED BY <1>4, <2>1
<1>6. G = [x \in (0 .. MaxNesting + 1) \X Archives |->
             LET members == ArchiveOf[x[2]].members
                 inner == [i \in DOMAIN members |->
                             IF members[i].nested = NoArchive THEN 0
                             ELSE G[<<x[1] - 1, members[i].nested>>]]
             IN  IF x[1] = 0 THEN 0 ELSE Sizes(x[2], inner)[Len(members)]]
  <2>. HIDE DEF f
  <2>. QED BY <1>5
<1>7. Unpacked(c) = G[<<MaxNesting + 1, c>>]
  BY DEF Unpacked
<1>. HIDE DEF G, f
<1>8. \A a \in Archives : G[<<0, a>>] = 0
  <2>1. \A a \in Archives : <<0, a>> \in D /\ <<0, a>>[1] = 0
    BY <1>1
  <2>. QED BY <1>6, <2>1
<1>9. ASSUME NEW n \in 1 .. MaxNesting + 1, NEW a \in Archives
      PROVE  G[<<n, a>>] =
               Sizes(a, [i \in DOMAIN ArchiveOf[a].members |->
                           IF ArchiveOf[a].members[i].nested = NoArchive THEN 0
                           ELSE G[<<n - 1, ArchiveOf[a].members[i].nested>>]])[Len(ArchiveOf[a].members)]
  <2>1. <<n, a>> \in D /\ <<n, a>>[1] = n /\ <<n, a>>[2] = a /\ n # 0
    BY <1>1
  <2>. QED BY <1>6, <2>1
<1>10. 0 .. MaxNesting + 1 \subseteq {n \in Nat : \A a \in Archives : G[<<n, a>>] = UnpackedTo[n][a]}
  <2>. DEFINE S == {n \in Nat : \A a \in Archives : G[<<n, a>>] = UnpackedTo[n][a]}
  <2>1. 0 \in S
    BY <1>8, UnpackedToIs DEF NoContent
  <2>2. ASSUME NEW n \in Nat, \A a \in Archives : G[<<n, a>>] = UnpackedTo[n][a], n < MaxNesting + 1
        PROVE  \A a \in Archives : G[<<n + 1, a>>] = UnpackedTo[n + 1][a]
    <3>1. n + 1 \in 1 .. MaxNesting + 1 /\ (n + 1) - 1 = n
      BY <1>1, <2>2
    <3>2. \A b \in Archives : G[<<(n + 1) - 1, b>>] = UnpackedTo[(n + 1) - 1][b]
      BY <2>2, <3>1
    <3>3. ASSUME NEW a \in Archives PROVE G[<<n + 1, a>>] = UnpackedTo[n + 1][a]
      <4>1. UnpackedTo[n + 1][a] =
              Sizes(a, [i \in DOMAIN ArchiveOf[a].members |->
                          IF ArchiveOf[a].members[i].nested = NoArchive THEN 0
                          ELSE G[<<(n + 1) - 1, ArchiveOf[a].members[i].nested>>]])[Len(ArchiveOf[a].members)]
        BY <1>3, <3>1, <3>2
      <4>2. G[<<n + 1, a>>] =
              Sizes(a, [i \in DOMAIN ArchiveOf[a].members |->
                          IF ArchiveOf[a].members[i].nested = NoArchive THEN 0
                          ELSE G[<<(n + 1) - 1, ArchiveOf[a].members[i].nested>>]])[Len(ArchiveOf[a].members)]
        BY <1>9, <3>1
      <4>. QED BY <4>1, <4>2
    <3>. QED BY <3>3
  <2>3. \A n \in Nat : n \in S /\ n < MaxNesting + 1 => n + 1 \in S
    BY <2>2
  <2>. HIDE DEF S
  <2>. QED BY <1>1, <2>1, <2>3, Induction DEF S
<1>. QED BY <1>1, <1>7, <1>10

\* An archive is sound that is not broken and has no member that is odd or holds
\* one that is not in S.
CleanMember(m, S) == ~m.odd /\ m.nested \in S \cup {NoArchive}
Sound(a, S) ==
    ~ArchiveOf[a].broken /\ \A i \in DOMAIN ArchiveOf[a].members : CleanMember(ArchiveOf[a].members[i], S)
SoundOnes == [n \in Nat |-> [S \in SUBSET Archives |-> {a \in Archives : Sound(a, S)}]]

\* The archives that are sound, and whatever they hold is, down to as many levels.
HarmlessTo == CHOOSE h : Iterated(SUBSET Archives, {}, SoundOnes, MaxNesting + 1, h)

\* The harmless archives, level by level.
LEMMA HarmlessToIs ==
    /\ HarmlessTo \in [0 .. MaxNesting + 1 -> SUBSET Archives] /\ HarmlessTo[0] = {}
    /\ \A n \in 1 .. MaxNesting + 1 : HarmlessTo[n] = {a \in Archives : Sound(a, HarmlessTo[n - 1])}
<1>. DEFINE V == SUBSET Archives
            max == MaxNesting + 1
<1>1. max \in Nat /\ {} \in V
  BY NestingAssumption
<1>2. \A S \in V : {a \in Archives : Sound(a, S)} \in V
  OBVIOUS
<1>3. SoundOnes \in [Nat -> [V -> V]] /\ \A n \in Nat, S \in V : SoundOnes[n][S] = {a \in Archives : Sound(a, S)}
  <2>. HIDE DEF V
  <2>. QED BY <1>2 DEF SoundOnes, V
<1>. HIDE DEF V, max
<1>4. \E h : Iterated(V, {}, SoundOnes, max, h)
  BY <1>1, <1>3, Iterates
<1>5. Iterated(V, {}, SoundOnes, max, HarmlessTo)
  BY <1>4 DEF HarmlessTo, V, max
<1>6. /\ HarmlessTo \in [0 .. max -> V] /\ HarmlessTo[0] = {}
      /\ \A n \in 1 .. max : HarmlessTo[n] = SoundOnes[n][HarmlessTo[n - 1]]
  BY <1>5 DEF Iterated
<1>7. \A n \in 1 .. max : n \in Nat /\ HarmlessTo[n - 1] \in V
  BY <1>1, <1>6
<1>8. \A n \in 1 .. max : HarmlessTo[n] = {a \in Archives : Sound(a, HarmlessTo[n - 1])}
  BY <1>3, <1>6, <1>7
<1>. QED BY <1>6, <1>8 DEF V, max

\* What lies some levels within a harmless archive is harmless for the levels left.
LEMMA LayersAreHarmless ==
    ASSUME NEW a \in Archives, a \in HarmlessTo[MaxNesting + 1]
    PROVE  \A n \in 0 .. MaxNesting + 1 : Layers(a)[n] \subseteq HarmlessTo[(MaxNesting + 1) - n]
<1>. DEFINE max == MaxNesting + 1
            S == {n \in Nat : Layers(a)[n] \subseteq HarmlessTo[max - n]}
<1>1. max \in Nat
  BY NestingAssumption
<1>2. 0 \in S
  BY <1>1, LayersAre
<1>3. ASSUME NEW n \in Nat, Layers(a)[n] \subseteq HarmlessTo[max - n], n < max
      PROVE  Layers(a)[n + 1] \subseteq HarmlessTo[max - (n + 1)]
  <2>. DEFINE l == max - n
  <2>1. n + 1 \in 1 .. max /\ (n + 1) - 1 = n /\ l \in 1 .. max /\ max - (n + 1) = l - 1
    BY <1>1, <1>3
  <2>2. Layers(a)[n + 1] = UNION {Nested(b) : b \in Layers(a)[n]}
    BY <2>1, LayersAre
  <2>3. HarmlessTo[l] = {b \in Archives : Sound(b, HarmlessTo[l - 1])}
    BY <2>1, HarmlessToIs
  <2>. HIDE DEF l
  <2>4. ASSUME NEW b \in Layers(a)[n] PROVE Nested(b) \subseteq HarmlessTo[l - 1]
    <3>1. Sound(b, HarmlessTo[l - 1])
      BY <1>3, <2>3 DEF l
    <3>. QED BY <3>1 DEF Sound, CleanMember, Nested
  <2>. QED BY <2>1, <2>2, <2>4
<1>4. \A n \in Nat : n \in S /\ n < max => n + 1 \in S
  BY <1>3
<1>. HIDE DEF S, max
<1>5. 0 .. max \subseteq S
  BY <1>1, <1>2, <1>4, Induction
<1>. QED BY <1>5 DEF S, max

\* The sums over the first members of an archive with so many levels.
SizesTo(a, n) == Sizes(a, Inner(a, UnpackedTo[n - 1]))
InnerTo(a, n) == Inner(a, UnpackedTo[n - 1])

\* They grow member by member to what the archive unpacks to.
LEMMA SizesToAre ==
    ASSUME NEW a \in Archives, NEW n \in 1 .. MaxNesting + 1
    PROVE  /\ SizesTo(a, n)[0] = 0
           /\ \A i \in DOMAIN ArchiveOf[a].members :
                /\ OwnSize(a, i) \in Nat /\ InnerTo(a, n)[i] \in Nat
                /\ SizesTo(a, n)[i - 1] \in Nat /\ SizesTo(a, n)[i] \in Nat
                /\ SizesTo(a, n)[i] = SizesTo(a, n)[i - 1] + OwnSize(a, i) + InnerTo(a, n)[i]
                /\ InnerTo(a, n)[i] = IF ArchiveOf[a].members[i].nested = NoArchive THEN 0
                                      ELSE UnpackedTo[n - 1][ArchiveOf[a].members[i].nested]
           /\ UnpackedTo[n][a] = SizesTo(a, n)[Len(ArchiveOf[a].members)]
           /\ UnpackedTo[n][a] \in Nat
<1>1. MaxNesting + 1 \in Nat /\ n - 1 \in 0 .. MaxNesting + 1 /\ n \in 0 .. MaxNesting + 1
  BY NestingAssumption
<1>2. UnpackedTo[n - 1] \in [Archives -> Nat] /\ UnpackedTo[n] \in [Archives -> Nat]
      /\ UnpackedTo[n][a] = Content(a, UnpackedTo[n - 1])
  BY <1>1, UnpackedToIs
<1>3. InnerTo(a, n) \in [DOMAIN ArchiveOf[a].members -> Nat]
  BY <1>2, ContentIsSize DEF InnerTo
<1>4. /\ SizesTo(a, n) \in [0 .. Len(ArchiveOf[a].members) -> Nat] /\ SizesTo(a, n)[0] = 0
      /\ \A i \in DOMAIN ArchiveOf[a].members :
           /\ OwnSize(a, i) \in Nat
           /\ SizesTo(a, n)[i] = SizesTo(a, n)[i - 1] + OwnSize(a, i) + InnerTo(a, n)[i]
  BY <1>3, SizesAre DEF SizesTo, InnerTo
<1>5. \A i \in DOMAIN ArchiveOf[a].members :
        i \in 0 .. Len(ArchiveOf[a].members) /\ i - 1 \in 0 .. Len(ArchiveOf[a].members)
  BY ArchiveIs
<1>6. \A i \in DOMAIN ArchiveOf[a].members :
        InnerTo(a, n)[i] = IF ArchiveOf[a].members[i].nested = NoArchive THEN 0
                           ELSE UnpackedTo[n - 1][ArchiveOf[a].members[i].nested]
  BY DEF InnerTo, Inner
<1>7. UnpackedTo[n][a] = SizesTo(a, n)[Len(ArchiveOf[a].members)] /\ UnpackedTo[n][a] \in Nat
  BY <1>2 DEF Content, SizesTo
<1>8. \A i \in DOMAIN ArchiveOf[a].members :
        /\ InnerTo(a, n)[i] \in Nat
        /\ SizesTo(a, n)[i - 1] \in Nat /\ SizesTo(a, n)[i] \in Nat
  BY <1>3, <1>4, <1>5
<1>. QED BY <1>4, <1>6, <1>7, <1>8

-----------------------------------------------------------------------------
(***************************************************************************)
(* The calls that are open on an archive without a finding.                *)
(***************************************************************************)

\* The call f has come to the end of what lies before its member at hand: for an
\* archive of n levels it was entered at a sum of e, and the sum is x now.
Working(f, n, e, x) ==
    LET members == ArchiveOf[f.holds].members IN
      /\ f.at <= Len(members) + 1
      /\ \A i \in DOMAIN members : i < f.at => CleanMember(members[i], HarmlessTo[n - 1])
      /\ f.opened => /\ ArchiveOf[f.holds].form = "central" /\ f.at \in DOMAIN members
                     /\ CleanMember(members[f.at], HarmlessTo[n - 1])
      /\ x >= e + SizesTo(f.holds, n)[f.at - 1] + (IF f.opened THEN InnerTo(f.holds, n)[f.at] ELSE 0)

\* The member whose archive a call waits for: a central directory counts it later.
InProgress(f) == IF ArchiveOf[f.holds].form = "central" THEN f.at ELSE f.at - 1

\* The call f waits for the one on b, which was entered at a sum of x.
Waiting(f, n, e, b, x) ==
    LET members == ArchiveOf[f.holds].members
        j == InProgress(f) IN
      /\ j \in DOMAIN members /\ members[j].nested = b /\ ~members[j].odd
      /\ f.opened <=> ArchiveOf[f.holds].form = "central"
      /\ \A i \in DOMAIN members : i < j => CleanMember(members[i], HarmlessTo[n - 1])
      /\ x >= e + SizesTo(f.holds, n)[j - 1]
                + (IF ArchiveOf[f.holds].form = "central" THEN 0 ELSE OwnSize(f.holds, j))

\* A call that begins has nothing behind it.
LEMMA Begun ==
    ASSUME NEW b \in Archives, NEW n \in 1 .. MaxNesting + 1, NEW x \in Nat
    PROVE  Working([holds |-> b, at |-> 1, opened |-> FALSE], n, x, x)
<1>. DEFINE f == [holds |-> b, at |-> 1, opened |-> FALSE]
<1>1. f.holds = b /\ f.at = 1 /\ ~f.opened
  OBVIOUS
<1>. HIDE DEF f
<1>2. Len(ArchiveOf[b].members) \in Nat /\ DOMAIN ArchiveOf[b].members = 1 .. Len(ArchiveOf[b].members)
  BY ArchiveIs
<1>3. SizesTo(b, n)[0] = 0
  BY SizesToAre
<1>4. Working(f, n, x, x)
  BY <1>1, <1>2, <1>3 DEF Working
<1>. QED BY <1>4 DEF f

\* A call that is behind its last member found the archive harmless, and counted all
\* that it unpacks to.
LEMMA Finished ==
    ASSUME NEW f \in Frames, NEW n \in 1 .. MaxNesting + 1, NEW e \in Nat, NEW x \in Nat,
           Working(f, n, e, x), ~ArchiveOf[f.holds].broken, ~ (f.at <= Len(ArchiveOf[f.holds].members))
    PROVE  f.holds \in HarmlessTo[n] /\ x >= e + UnpackedTo[n][f.holds]
<1>. DEFINE a == f.holds
            members == ArchiveOf[a].members
<1>1. a \in Archives /\ f.at \in Nat
  BY DEF Frames
<1>2. Len(members) \in Nat /\ DOMAIN members = 1 .. Len(members)
  BY <1>1, ArchiveIs
<1>3. f.at = Len(members) + 1 /\ f.at \notin DOMAIN members /\ f.at - 1 = Len(members)
  <2>1. f.at <= Len(members) + 1 /\ ~ (f.at <= Len(members))
    BY DEF Working
  <2>. HIDE DEF members
  <2>. QED BY <1>1, <1>2, <2>1
<1>4. Sound(a, HarmlessTo[n - 1])
  BY <1>2, <1>3 DEF Working, Sound
<1>5. a \in HarmlessTo[n]
  BY <1>1, <1>4, HarmlessToIs
<1>6. x >= e + SizesTo(a, n)[Len(members)] + 0
  BY <1>3 DEF Working
<1>7. UnpackedTo[n][a] = SizesTo(a, n)[Len(members)] /\ UnpackedTo[n][a] \in Nat
  BY <1>1, SizesToAre
<1>. QED BY <1>5, <1>6, <1>7

\* When the call it waits for is finished, a call goes on.
LEMMA Resumed ==
    ASSUME NEW f \in Frames, NEW n \in 1 .. MaxNesting + 1, NEW e \in Nat, NEW x \in Nat, NEW y \in Nat,
           NEW b \in Archives, Waiting(f, n, e, b, x), n - 1 >= 1,
           b \in HarmlessTo[n - 1], y >= x + UnpackedTo[n - 1][b]
    PROVE  Working(f, n, e, y)
<1>. DEFINE a == f.holds
            members == ArchiveOf[a].members
            j == InProgress(f)
<1>1. a \in Archives /\ f.at \in Nat /\ NoArchive \notin Archives
  BY ArchivesAssumption DEF Frames
<1>2. Len(members) \in Nat /\ DOMAIN members = 1 .. Len(members) /\ n - 1 \in 1 .. MaxNesting + 1
  BY <1>1, ArchiveIs, NestingAssumption
<1>3. j \in DOMAIN members /\ members[j].nested = b /\ CleanMember(members[j], HarmlessTo[n - 1])
  BY DEF Waiting, CleanMember
<1>4. /\ OwnSize(a, j) \in Nat /\ InnerTo(a, n)[j] = UnpackedTo[n - 1][b] /\ SizesTo(a, n)[j - 1] \in Nat
      /\ SizesTo(a, n)[j] = SizesTo(a, n)[j - 1] + OwnSize(a, j) + InnerTo(a, n)[j]
  BY <1>1, <1>3, SizesToAre
<1>5. UnpackedTo[n - 1][b] \in Nat
  BY <1>2, SizesToAre
<1>6. \A i \in DOMAIN members : i < j => CleanMember(members[i], HarmlessTo[n - 1])
  BY DEF Waiting
<1>7. CASE ArchiveOf[a].form = "central"
  <2>1. j = f.at /\ f.opened /\ x >= e + SizesTo(a, n)[j - 1] + 0
    BY <1>7 DEF Waiting, InProgress
  <2>2. y >= e + SizesTo(a, n)[f.at - 1] + InnerTo(a, n)[f.at]
    BY <1>4, <1>5, <2>1
  <2>3. f.at <= Len(members) + 1
    BY <1>2, <1>3, <2>1
  <2>. QED BY <1>3, <1>6, <1>7, <2>1, <2>2, <2>3 DEF Working
<1>8. CASE ArchiveOf[a].form # "central"
  <2>1. j = f.at - 1 /\ ~f.opened /\ x >= e + SizesTo(a, n)[j - 1] + OwnSize(a, j)
    BY <1>8 DEF Waiting, InProgress
  <2>2. y >= e + SizesTo(a, n)[f.at - 1] + 0
    BY <1>4, <1>5, <2>1
  <2>3. f.at <= Len(members) + 1 /\ \A i \in DOMAIN members : i < f.at => i < j \/ i = j
    BY <1>1, <1>2, <1>3, <2>1
  <2>. QED BY <1>3, <1>6, <2>1, <2>2, <2>3 DEF Working
<1>. QED BY <1>7, <1>8

\* A call that is at a member that is not odd can do with it what the code does.
LEMMA Proceeds ==
    ASSUME NEW f \in Frames, NEW n \in 1 .. MaxNesting + 1, NEW e \in Nat, NEW x \in Nat,
           Working(f, n, e, x), f.at \in DOMAIN ArchiveOf[f.holds].members, NEW m,
           m = ArchiveOf[f.holds].members[f.at], ~m.odd
    PROVE  \* a central directory: into what the member holds, then counting it
           /\ ArchiveOf[f.holds].form = "central" /\ ~f.opened =>
                IF m.nested = NoArchive THEN Working([f EXCEPT !.opened = TRUE], n, e, x)
                ELSE Waiting([f EXCEPT !.opened = TRUE], n, e, m.nested, x)
           /\ f.opened => Working([f EXCEPT !.at = @ + 1, !.opened = FALSE], n, e, x + m.size)
           \* the others: counting it, then into what it holds
           /\ ArchiveOf[f.holds].form # "central" =>
                IF m.nested = NoArchive
                THEN Working([f EXCEPT !.at = @ + 1, !.opened = FALSE], n, e, x + OwnSize(f.holds, f.at))
                ELSE Waiting([f EXCEPT !.at = @ + 1, !.opened = FALSE], n, e, m.nested,
                             x + OwnSize(f.holds, f.at))
<1>. DEFINE a == f.holds
            members == ArchiveOf[a].members
            g == [f EXCEPT !.opened = TRUE]
            h == [f EXCEPT !.at = @ + 1, !.opened = FALSE]
<1>1. /\ a \in Archives /\ f.at \in Nat \ {0} /\ f.opened \in BOOLEAN
      /\ g.holds = a /\ g.at = f.at /\ g.opened
      /\ h.holds = a /\ h.at = f.at + 1 /\ ~h.opened
  BY DEF Frames
<1>. HIDE DEF g, h
<1>2. Len(members) \in Nat /\ DOMAIN members = 1 .. Len(members) /\ m \in Members
  BY <1>1, ArchiveIs
<1>3. /\ OwnSize(a, f.at) \in Nat /\ InnerTo(a, n)[f.at] \in Nat
      /\ SizesTo(a, n)[f.at - 1] \in Nat /\ SizesTo(a, n)[f.at] \in Nat
      /\ SizesTo(a, n)[f.at] = SizesTo(a, n)[f.at - 1] + OwnSize(a, f.at) + InnerTo(a, n)[f.at]
      /\ InnerTo(a, n)[f.at] = IF m.nested = NoArchive THEN 0 ELSE UnpackedTo[n - 1][m.nested]
  <2>1. f.at \in DOMAIN ArchiveOf[a].members /\ a \in Archives /\ m = ArchiveOf[a].members[f.at]
    BY <1>1
  <2>. HIDE DEF a
  <2>. QED BY <2>1, SizesToAre
<1>4. /\ \A i \in DOMAIN members : i < f.at => CleanMember(members[i], HarmlessTo[n - 1])
      /\ f.opened => ArchiveOf[a].form = "central" /\ CleanMember(m, HarmlessTo[n - 1])
      /\ x >= e + SizesTo(a, n)[f.at - 1] + (IF f.opened THEN InnerTo(a, n)[f.at] ELSE 0)
  BY DEF Working
<1>5. m.nested = NoArchive => CleanMember(m, HarmlessTo[n - 1])
  BY DEF CleanMember
<1>6. f.at <= Len(members) + 1 /\ f.at + 1 <= Len(members) + 1 /\ (f.at + 1) - 1 = f.at
      /\ \A i \in DOMAIN members : i < f.at + 1 => i < f.at \/ i = f.at
  BY <1>1, <1>2
<1>7. ArchiveOf[a].form \in {"central", "local", "tar"} => OwnSize(a, f.at) = m.size
  BY DEF OwnSize
<1>8. ASSUME ArchiveOf[a].form = "central", ~f.opened
      PROVE  IF m.nested = NoArchive THEN Working(g, n, e, x) ELSE Waiting(g, n, e, m.nested, x)
  <2>1. x >= e + SizesTo(a, n)[f.at - 1] + 0
    BY <1>4, <1>8
  <2>2. CASE m.nested = NoArchive
    <3>1. InnerTo(a, n)[f.at] = 0
      BY <1>3, <2>2
    <3>2. Working(g, n, e, x)
      BY <1>1, <1>4, <1>5, <1>6, <1>8, <2>1, <2>2, <3>1 DEF Working
    <3>. QED BY <2>2, <3>2
  <2>3. CASE m.nested # NoArchive
    <3>1. InProgress(g) = f.at
      BY <1>1, <1>8 DEF InProgress
    <3>2. Waiting(g, n, e, m.nested, x)
      BY <1>1, <1>4, <1>8, <2>1, <3>1 DEF Waiting
    <3>. QED BY <2>3, <3>2
  <2>. QED BY <2>2, <2>3
<1>9. ASSUME f.opened PROVE Working(h, n, e, x + m.size)
  <2>1. OwnSize(a, f.at) = m.size
    BY <1>4, <1>7, <1>9
  <2>2. x + m.size >= e + SizesTo(a, n)[f.at] + 0
    <3>1. x >= e + SizesTo(a, n)[f.at - 1] + InnerTo(a, n)[f.at]
      BY <1>4, <1>9
    <3>. QED BY <1>3, <2>1, <3>1
  <2>. QED BY <1>1, <1>4, <1>6, <1>9, <2>2 DEF Working
<1>10. ASSUME ArchiveOf[a].form # "central"
       PROVE  IF m.nested = NoArchive THEN Working(h, n, e, x + OwnSize(a, f.at))
              ELSE Waiting(h, n, e, m.nested, x + OwnSize(a, f.at))
  <2>1. ~f.opened /\ x >= e + SizesTo(a, n)[f.at - 1] + 0
    BY <1>4, <1>10
  <2>2. CASE m.nested = NoArchive
    <3>1. x + OwnSize(a, f.at) >= e + SizesTo(a, n)[f.at] + 0
      BY <1>3, <2>1, <2>2
    <3>2. Working(h, n, e, x + OwnSize(a, f.at))
      BY <1>1, <1>4, <1>5, <1>6, <2>2, <3>1 DEF Working
    <3>. QED BY <2>2, <3>2
  <2>3. CASE m.nested # NoArchive
    <3>1. InProgress(h) = f.at
      BY <1>1, <1>6, <1>10 DEF InProgress
    <3>2. x + OwnSize(a, f.at) >= e + SizesTo(a, n)[f.at - 1] + OwnSize(a, f.at)
      BY <1>3, <2>1
    <3>3. Waiting(h, n, e, m.nested, x + OwnSize(a, f.at))
      BY <1>1, <1>4, <1>10, <3>1, <3>2 DEF Waiting
    <3>. QED BY <2>3, <3>3
  <2>. QED BY <2>2, <2>3
<1>. QED BY <1>8, <1>9, <1>10 DEF g, h

\* How many levels a call has, itself included.
LevelsOf(k) == (MaxNesting + 2) - k

\* Each of the open calls waits for the one above it, and the one on top works. E is
\* what the sum was when they were entered, x what it is.
Fine(s, E, x) ==
    /\ \A k \in DOMAIN s : ~ArchiveOf[s[k].holds].broken /\ E[k] \in Nat
    /\ \A k \in DOMAIN s : k # Len(s) => Waiting(s[k], LevelsOf(k), E[k], s[k + 1].holds, E[k + 1])
    /\ s # <<>> => Working(s[Len(s)], LevelsOf(Len(s)), E[Len(s)], x)

\* The places of a sequence: the last one, and those that are followed by one.
LEMMA UpTo ==
    ASSUME NEW l \in Nat \ {0}
    PROVE  \A k \in 1 .. l : /\ k \in 1 .. l - 1 \/ k = l
                            /\ k # l => k \in 1 .. l - 1 /\ k + 1 \in 1 .. l
                            /\ k \in 1 .. l + 1 /\ k # l + 1
OBVIOUS

\* The call on top goes on.
LEMMA Replaced ==
    ASSUME NEW s \in Seq(Frames), s # <<>>, NEW t \in Seq(Frames), Len(t) = Len(s),
           \A k \in 1 .. Len(s) - 1 : t[k] = s[k], t[Len(s)].holds = s[Len(s)].holds,
           NEW E, NEW x, NEW y, Fine(s, E, x),
           Working(t[Len(s)], LevelsOf(Len(s)), E[Len(s)], y)
    PROVE  Fine(t, E, y) /\ t # <<>> /\ t[1].holds = s[1].holds
<1>a. Len(s) \in Nat \ {0}
  OBVIOUS
<1>1. Len(s) \in Nat \ {0} /\ DOMAIN s = 1 .. Len(s) /\ DOMAIN t = 1 .. Len(s) /\ t # <<>>
  OBVIOUS
<1>2. \A k \in 1 .. Len(s) : t[k].holds = s[k].holds
  <2>1. \A k \in 1 .. Len(s) : k \in 1 .. Len(s) - 1 \/ k = Len(s)
    BY <1>a, UpTo
  <2>. QED BY <2>1
<1>3. \A k \in 1 .. Len(s) : k # Len(s) => k \in 1 .. Len(s) - 1 /\ k + 1 \in 1 .. Len(s)
  BY <1>a, UpTo
<1>4. \A k \in 1 .. Len(s) : k # Len(s) => Waiting(t[k], LevelsOf(k), E[k], t[k + 1].holds, E[k + 1])
  BY <1>1, <1>2, <1>3 DEF Fine
<1>5. 1 \in 1 .. Len(s) /\ Len(s) \in 1 .. Len(s)
  BY <1>1
<1>6. \A k \in DOMAIN t : ~ArchiveOf[t[k].holds].broken /\ E[k] \in Nat
  BY <1>1, <1>2 DEF Fine
<1>7. Fine(t, E, y)
  BY <1>1, <1>4, <1>6 DEF Fine
<1>. QED BY <1>1, <1>2, <1>5, <1>7

\* The call on top opens another one.
LEMMA Pushed ==
    ASSUME NEW s \in Seq(Frames), s # <<>>, NEW t \in Seq(Frames), Len(t) = Len(s) + 1,
           \A k \in 1 .. Len(s) - 1 : t[k] = s[k], t[Len(s)].holds = s[Len(s)].holds,
           NEW b \in Archives, t[Len(s) + 1] = [holds |-> b, at |-> 1, opened |-> FALSE],
           ~ArchiveOf[b].broken, Len(s) <= MaxNesting,
           NEW E, NEW x, NEW y \in Nat, Fine(s, E, x),
           Waiting(t[Len(s)], LevelsOf(Len(s)), E[Len(s)], b, y)
    PROVE  (\E F : Fine(t, F, y)) /\ t # <<>> /\ t[1].holds = s[1].holds
<1>a. Len(s) \in Nat \ {0}
  OBVIOUS
<1>. DEFINE F == [k \in 1 .. Len(s) + 1 |-> IF k = Len(s) + 1 THEN y ELSE E[k]]
<1>1. /\ Len(s) \in Nat \ {0} /\ DOMAIN s = 1 .. Len(s) /\ DOMAIN t = 1 .. Len(s) + 1 /\ t # <<>>
      /\ MaxNesting \in Nat
  BY NestingAssumption
<1>2. F[Len(s) + 1] = y /\ \A k \in 1 .. Len(s) : F[k] = E[k]
  BY <1>1
<1>. HIDE DEF F
<1>3. \A k \in 1 .. Len(s) : t[k].holds = s[k].holds
  <2>1. \A k \in 1 .. Len(s) : k \in 1 .. Len(s) - 1 \/ k = Len(s)
    BY <1>a, UpTo
  <2>. QED BY <2>1
<1>4. \A k \in DOMAIN t : ~ArchiveOf[t[k].holds].broken /\ F[k] \in Nat
  <2>1. \A k \in DOMAIN t : k \in DOMAIN s \/ k = Len(s) + 1
    BY <1>1
  <2>2. t[Len(s) + 1].holds = b
    OBVIOUS
  <2>. QED BY <1>1, <1>2, <1>3, <2>1, <2>2 DEF Fine
<1>5. ASSUME NEW k \in DOMAIN t, k # Len(t)
      PROVE  Waiting(t[k], LevelsOf(k), F[k], t[k + 1].holds, F[k + 1])
  <2>1. k \in 1 .. Len(s) /\ (k # Len(s) => k \in 1 .. Len(s) - 1 /\ k + 1 \in 1 .. Len(s))
    BY <1>1, <1>5
  <2>2. CASE k = Len(s)
    BY <1>2, <2>1, <2>2
  <2>3. CASE k # Len(s)
    <3>1. Waiting(s[k], LevelsOf(k), E[k], s[k + 1].holds, E[k + 1])
      BY <1>1, <2>1, <2>3 DEF Fine
    <3>. QED BY <1>2, <1>3, <2>1, <2>3, <3>1
  <2>. QED BY <2>2, <2>3
<1>6. Working(t[Len(t)], LevelsOf(Len(t)), F[Len(t)], y)
  <2>1. LevelsOf(Len(s) + 1) \in 1 .. MaxNesting + 1
    BY <1>1 DEF LevelsOf
  <2>. QED BY <1>2, <2>1, Begun
<1>7. Fine(t, F, y)
  BY <1>4, <1>5, <1>6 DEF Fine
<1>. QED BY <1>1, <1>3, <1>7

\* The call on top is finished, and another one goes on.
LEMMA Popped ==
    ASSUME NEW s \in Seq(Frames), NEW t \in Seq(Frames), Len(t) = Len(s) - 1, t # <<>>,
           \A k \in 1 .. Len(t) : t[k] = s[k], Len(s) <= MaxNesting + 1,
           ~ (s[Len(s)].at <= Len(ArchiveOf[s[Len(s)].holds].members)),
           NEW E, NEW x \in Nat, Fine(s, E, x)
    PROVE  Fine(t, E, x) /\ t[1].holds = s[1].holds
<1>. DEFINE k == Len(t)
            n == LevelsOf(k)
            f == s[k]
            g == s[k + 1]
<1>1. /\ Len(s) = k + 1 /\ k \in Nat \ {0} /\ DOMAIN s = 1 .. k + 1 /\ DOMAIN t = 1 .. k
      /\ MaxNesting \in Nat
  BY NestingAssumption
<1>2. n \in 1 .. MaxNesting + 1 /\ n - 1 \in 1 .. MaxNesting + 1 /\ LevelsOf(k + 1) = n - 1
  BY <1>1 DEF LevelsOf
<1>3. /\ f \in Frames /\ g \in Frames /\ g.holds \in Archives /\ t[k] = f
      /\ k \in DOMAIN s /\ k + 1 \in DOMAIN s /\ k # Len(s)
  <2>1. k \in DOMAIN s /\ k + 1 \in DOMAIN s /\ k # Len(s) /\ k \in 1 .. Len(t)
    BY <1>1
  <2>2. f \in Frames /\ g \in Frames
    BY <2>1
  <2>3. g.holds \in Archives
    BY <2>2 DEF Frames
  <2>. QED BY <2>1, <2>2, <2>3
<1>. HIDE DEF n, f, g, k
<1>4. /\ Waiting(f, n, E[k], g.holds, E[k + 1])
      /\ Working(g, n - 1, E[k + 1], x)
      /\ E[k] \in Nat /\ E[k + 1] \in Nat /\ ~ArchiveOf[g.holds].broken
  BY <1>1, <1>2, <1>3 DEF Fine, f, g, n
<1>5. g.holds \in HarmlessTo[n - 1] /\ x >= E[k + 1] + UnpackedTo[n - 1][g.holds]
  BY <1>1, <1>2, <1>3, <1>4, Finished DEF g
<1>6. Working(f, n, E[k], x)
  <2>1. n - 1 >= 1
    BY <1>2
  <2>. QED BY <1>2, <1>3, <1>4, <1>5, <2>1, Resumed
<1>7. /\ \A i \in DOMAIN t : ~ArchiveOf[t[i].holds].broken /\ E[i] \in Nat
      /\ \A i \in DOMAIN t : i # Len(t) => Waiting(t[i], LevelsOf(i), E[i], t[i + 1].holds, E[i + 1])
  <2>1. \A i \in DOMAIN t : i \in DOMAIN s /\ t[i] = s[i]
    BY <1>1 DEF k
  <2>2. \A i \in DOMAIN t : i # Len(t) => i # Len(s) /\ i + 1 \in DOMAIN t
    BY <1>1 DEF k
  <2>. QED BY <2>1, <2>2 DEF Fine
<1>8. 1 \in 1 .. Len(t)
  BY <1>1 DEF k
<1>. QED BY <1>3, <1>6, <1>7, <1>8 DEF Fine, k, n

\* What a call does with its member, and with what that holds, if there is no finding.
LEMMA Entered ==
    ASSUME stack \in Seq(Frames), stack # <<>>, Len(stack) <= MaxNesting + 1,
           Top.at <= Len(Holding.members), NEW f \in Frames, f.holds = Top.holds,
           NEW E, NEW x \in Nat, NEW y \in Nat, Fine(stack, E, x),
           Enter(Member.nested, Append(Below, f), Member.odd), file \notin suspects',
           ~Member.odd => IF Member.nested = NoArchive
                          THEN Working(f, LevelsOf(Len(stack)), E[Len(stack)], y)
                          ELSE Waiting(f, LevelsOf(Len(stack)), E[Len(stack)], Member.nested, y)
    PROVE  (\E F : Fine(stack', F, y)) /\ stack' # <<>> /\ stack'[1].holds = stack[1].holds
<1>. DEFINE b == Member.nested
            frames == Append(Below, f)
            l == Len(stack)
<1>1. /\ Below \in Seq(Frames) /\ Len(Below) = l - 1
      /\ \A i \in 1 .. Len(Below) : Below[i] = stack[i]
      /\ Member \in Members /\ stack[l] = Top
  BY TopIs DEF Top
<1>2. b \in Archives \cup {NoArchive}
  BY <1>1 DEF Members
<1>3. l \in Nat \ {0}
  OBVIOUS
<1>4. /\ frames \in Seq(Frames) /\ Len(frames) = l /\ frames[l] = f
      /\ \A i \in 1 .. l - 1 : frames[i] = stack[i]
  BY <1>1, <1>3
<1>5. /\ ~Member.odd /\ (b # NoArchive => ~TooDeep(frames) /\ ~ArchiveOf[b].broken)
      /\ stack' = IF b = NoArchive \/ TooDeep(frames) THEN frames
                  ELSE Append(frames, [holds |-> b, at |-> 1, opened |-> FALSE])
  BY DEF Enter, Suspect
<1>. HIDE DEF frames, b, l
<1>6. CASE b = NoArchive
  <2>1. stack' = frames /\ Working(f, LevelsOf(l), E[l], y)
    BY <1>5, <1>6 DEF b, l
  <2>. QED BY <1>1, <1>4, <2>1, Replaced DEF l
<1>7. CASE b # NoArchive
  <2>. DEFINE g == [holds |-> b, at |-> 1, opened |-> FALSE]
  <2>1. stack' = Append(frames, g) /\ Waiting(f, LevelsOf(l), E[l], b, y)
    BY <1>5, <1>7 DEF b, l
  <2>2. b \in Archives /\ ~ArchiveOf[b].broken /\ l <= MaxNesting
    BY <1>2, <1>3, <1>4, <1>5, <1>7, NestingAssumption DEF TooDeep
  <2>3. g \in Frames
    BY <2>2 DEF Frames
  <2>4. g = [holds |-> b, at |-> 1, opened |-> FALSE]
    OBVIOUS
  <2>. HIDE DEF g
  <2>5. /\ stack' \in Seq(Frames) /\ Len(stack') = l + 1 /\ stack'[l + 1] = g /\ stack'[l] = f
        /\ \A i \in 1 .. l - 1 : stack'[i] = stack[i]
    BY <1>3, <1>4, <2>1, <2>3
  <2>. QED BY <1>1, <2>1, <2>2, <2>4, <2>5, Pushed DEF l
<1>. QED BY <1>6, <1>7

-----------------------------------------------------------------------------
(***************************************************************************)
(* The files that are passed without a finding.                            *)
(***************************************************************************)

\* Nothing is wrong with an archive that was read as a whole.
FoundHarmless(a) == a \in HarmlessTo[MaxNesting + 1] /\ UnpackedTo[MaxNesting + 1][a] <= MaxUnpacked

\* The calls s are where they can be when their members were counted up to y.
SoFarFine(s, y) == \E x \in Nat : x <= y /\ x <= MaxUnpacked /\ \E E : Fine(s, E, x)

\* The files behind have no finding only if what they hold is harmless, and the one
\* at hand only if its calls found nothing so far.
PassedFine ==
    \A i \in DOMAIN files \ suspects :
      i < file /\ files[i].state = "whole" /\ files[i].holds # NoArchive => FoundHarmless(files[i].holds)
OpenFine ==
    stack # <<>> /\ file \notin suspects =>
      /\ files[file].state = "whole" /\ stack[1].holds = files[file].holds
      /\ SoFarFine(stack, total)
ScanInv == PassedFine /\ OpenFine

\* A step within a file leaves the files behind as they are.
LEMMA PassedStays ==
    ASSUME PassedFine, files' = files, file' = file, suspects \subseteq suspects'
    PROVE  PassedFine'
<1>. SUFFICES ASSUME NEW i \in DOMAIN files \ suspects', i < file, files[i].state = "whole",
                     files[i].holds # NoArchive
              PROVE  FoundHarmless(files[i].holds)
  BY DEF PassedFine
<1>. QED BY DEF PassedFine

\* The file at hand goes on.
LEMMA OnStep ==
    ASSUME ScanInv, files' = files, file' = file, suspects \subseteq suspects', stack # <<>>,
           file \notin suspects' => SoFarFine(stack', total') /\ stack'[1].holds = stack[1].holds
    PROVE  ScanInv'
<1>1. PassedFine'
  BY PassedStays DEF ScanInv
<1>2. OpenFine'
  <2>. SUFFICES ASSUME file \notin suspects'
                PROVE  /\ files[file].state = "whole" /\ stack'[1].holds = files[file].holds
                       /\ SoFarFine(stack', total')
    BY DEF OpenFine
  <2>1. file \notin suspects
    OBVIOUS
  <2>. QED BY <2>1 DEF ScanInv, OpenFine
<1>. QED BY <1>1, <1>2 DEF ScanInv

\* An archive is left with a finding, or at its end.
LEMMA LeftStep ==
    ASSUME TypeInv, ScanInv, files' = files, stack # <<>>, NEW found, LeaveWith(found), total' >= total,
           total' \in Nat, found \/ file \in suspects \/ ~ (Top.at <= Len(Holding.members))
    PROVE  ScanInv'
<1>a. /\ stack \in Seq(Frames) /\ Len(stack) <= MaxNesting + 1 /\ total \in Nat
      /\ file \in 1 .. Len(files) + 1 /\ suspects \subseteq 1 .. file /\ medium \in Media
      /\ file <= Len(files)
  BY DEF TypeInv, StageTypeOK, TypeOK, LayoutTypeOK, StageShape
<1>b. /\ Below \in Seq(Frames) /\ Len(Below) = Len(stack) - 1
      /\ \A i \in 1 .. Len(Below) : Below[i] = stack[i]
      /\ Top \in Frames
  BY <1>a, TopIs
<1>c. Len(stack) \in Nat \ {0} /\ stack[Len(stack)] = Top
  BY <1>a DEF Top
<1>d. /\ stack' = Below /\ file' = IF Below = <<>> THEN file + 1 ELSE file
      /\ suspects' = IF found THEN suspects \cup {file} ELSE suspects
  BY DEF LeaveWith, Suspect
<1>e. files \in Seq(Files) /\ Len(files) \in Nat /\ DOMAIN files = 1 .. Len(files) /\ file \in Nat
  BY <1>a, FilesAre
<1>1. ASSUME file \notin suspects'
      PROVE  /\ ~found /\ ~ (Top.at <= Len(Holding.members))
             /\ files[file].state = "whole" /\ stack[1].holds = files[file].holds /\ SoFarFine(stack, total)
  <2>1. ~found /\ suspects' = suspects
    BY <1>1, <1>d
  <2>. QED BY <1>1, <2>1 DEF ScanInv, OpenFine
<1>2. CASE Below = <<>>
  <2>1. Len(stack) = 1 /\ stack[1] = Top /\ file' = file + 1 /\ stack' = <<>>
    <3>1. Len(Below) = 0
      BY <1>2
    <3>2. Len(stack) = 1
      BY <1>b, <1>c, <3>1
    <3>. QED BY <1>2, <1>c, <1>d, <3>2
  <2>2. ASSUME file \notin suspects' PROVE FoundHarmless(Top.holds) /\ Top.holds = files[file].holds
    <3>1. PICK x \in Nat : x <= total /\ x <= MaxUnpacked /\ \E E : Fine(stack, E, x)
      BY <1>1, <2>2 DEF SoFarFine
    <3>2. PICK E : Fine(stack, E, x)
      BY <3>1
    <3>3. 1 \in DOMAIN stack /\ LevelsOf(1) = MaxNesting + 1 /\ MaxNesting + 1 \in 1 .. MaxNesting + 1
      BY <2>1, NestingAssumption, <1>a DEF LevelsOf
    <3>4. ~ArchiveOf[Top.holds].broken /\ E[1] \in Nat /\ Working(Top, MaxNesting + 1, E[1], x)
      <4>1. ~ArchiveOf[stack[1].holds].broken /\ E[1] \in Nat
        BY <3>2, <3>3 DEF Fine
      <4>2. Working(stack[1], LevelsOf(1), E[1], x)
        <5>1. Working(stack[Len(stack)], LevelsOf(Len(stack)), E[Len(stack)], x)
          BY <3>2 DEF Fine
        <5>. QED BY <2>1, <5>1
      <4>. QED BY <2>1, <3>3, <4>1, <4>2
    <3>5. ~ (Top.at <= Len(ArchiveOf[Top.holds].members))
      BY <1>1, <2>2 DEF Holding
    <3>6. Top.holds \in HarmlessTo[MaxNesting + 1] /\ x >= E[1] + UnpackedTo[MaxNesting + 1][Top.holds]
      BY <1>b, <3>1, <3>3, <3>4, <3>5, Finished
    <3>7. UnpackedTo[MaxNesting + 1][Top.holds] \in Nat
      <4>1. Top.holds \in Archives
        BY <1>b DEF Frames
      <4>. QED BY <3>3, <4>1, SizesToAre
    <3>8. UnpackedTo[MaxNesting + 1][Top.holds] <= MaxUnpacked
      BY <3>1, <3>4, <3>6, <3>7, NestingAssumption
    <3>9. Top.holds = files[file].holds
      BY <1>1, <2>1, <2>2
    <3>. QED BY <3>6, <3>8, <3>9 DEF FoundHarmless
  <2>3. PassedFine'
    <3>. SUFFICES ASSUME NEW i \in DOMAIN files \ suspects', i < file + 1, files[i].state = "whole",
                         files[i].holds # NoArchive
                  PROVE  FoundHarmless(files[i].holds)
      BY <2>1 DEF PassedFine
    <3>1. i \notin suspects /\ (i < file \/ i = file)
      BY <1>d, <1>e
    <3>. QED BY <2>2, <3>1 DEF ScanInv, PassedFine
  <2>4. OpenFine'
    BY <2>1 DEF OpenFine
  <2>. QED BY <2>3, <2>4 DEF ScanInv
<1>3. CASE Below # <<>>
  <2>1. file' = file /\ suspects \subseteq suspects'
    BY <1>3, <1>d
  <2>2. ASSUME file \notin suspects' PROVE SoFarFine(stack', total') /\ stack'[1].holds = stack[1].holds
    <3>1. PICK x \in Nat : x <= total /\ x <= MaxUnpacked /\ \E E : Fine(stack, E, x)
      BY <1>1, <2>2 DEF SoFarFine
    <3>2. PICK E : Fine(stack, E, x)
      BY <3>1
    <3>3. ~ (stack[Len(stack)].at <= Len(ArchiveOf[stack[Len(stack)].holds].members))
      BY <1>1, <1>c, <2>2 DEF Holding
    <3>4. Fine(Below, E, x) /\ Below[1].holds = stack[1].holds
      BY <1>3, <1>a, <1>b, <3>2, <3>3, Popped
    <3>5. x <= total'
      BY <1>a, <3>1
    <3>. QED BY <1>d, <3>1, <3>4, <3>5 DEF SoFarFine
  <2>. QED BY <2>1, <2>2, OnStep
<1>. QED BY <1>2, <1>3

\* What is known of the call on top when it is at a member.
LEMMA AtWork ==
    ASSUME stack \in Seq(Frames), stack # <<>>, Len(stack) <= MaxNesting + 1,
           Top.at <= Len(Holding.members), NEW E, NEW x \in Nat, Fine(stack, E, x)
    PROVE  /\ Top \in Frames /\ LevelsOf(Len(stack)) \in 1 .. MaxNesting + 1 /\ E[Len(stack)] \in Nat
           /\ Working(Top, LevelsOf(Len(stack)), E[Len(stack)], x)
           /\ Top.at \in DOMAIN ArchiveOf[Top.holds].members
           /\ Member = ArchiveOf[Top.holds].members[Top.at] /\ Member \in Members
           /\ Holding = ArchiveOf[Top.holds]
<1>1. Top \in Frames /\ Member \in Members
  BY TopIs
<1>2. Len(stack) \in Nat \ {0}
  OBVIOUS
<1>3. LevelsOf(Len(stack)) \in 1 .. MaxNesting + 1 /\ Len(stack) \in DOMAIN stack
  BY <1>2, NestingAssumption DEF LevelsOf
<1>4. E[Len(stack)] \in Nat /\ Working(Top, LevelsOf(Len(stack)), E[Len(stack)], x)
  BY <1>3 DEF Fine, Top
<1>5. Top.holds \in Archives /\ Top.at \in Nat \ {0}
  BY <1>1 DEF Frames
<1>6. Len(ArchiveOf[Top.holds].members) \in Nat
      /\ DOMAIN ArchiveOf[Top.holds].members = 1 .. Len(ArchiveOf[Top.holds].members)
  BY <1>5, ArchiveIs
<1>. QED BY <1>1, <1>3, <1>4, <1>5, <1>6 DEF Member, Holding

\* A file is taken that has no finding at all, or the call on its archive begins.
LEMMA TakeFileStep == TypeInv /\ ScanInv /\ TakeFile /\ files' = files => ScanInv'
<1>. SUFFICES ASSUME TypeInv, ScanInv, TakeFile, files' = files PROVE ScanInv'
  OBVIOUS
<1>. DEFINE f == files[file]
            a == IF f.state = "whole" THEN f.holds ELSE NoArchive
            seen == f.odd \cap Inspected(f.state) # {}
            g == [holds |-> a, at |-> 1, opened |-> FALSE]
<1>a. /\ file \in 1 .. Len(files) /\ suspects \subseteq 1 .. file /\ medium \in Media
  BY DEF TypeInv, StageTypeOK, TypeOK, LayoutTypeOK, TakeFile
<1>b. /\ files \in Seq(Files) /\ Len(files) \in Nat /\ DOMAIN files = 1 .. Len(files) /\ file \in Nat
      /\ MaxNesting \in Nat /\ NoArchive \notin Archives
  BY <1>a, FilesAre, NestingAssumption, ArchivesAssumption
<1>c. a \in Archives \cup {NoArchive}
  BY <1>a, <1>b, FilesAre
<1>d. Enter(a, <<>>, seen) /\ file' = (IF a = NoArchive THEN file + 1 ELSE file) /\ total' = 0 /\ stack = <<>>
  BY DEF TakeFile
<1>e. ~TooDeep(<<>>)
  BY <1>b DEF TooDeep
<1>f. /\ stack' = IF a = NoArchive THEN <<>> ELSE Append(<<>>, g)
      /\ suspects' = IF seen \/ (a # NoArchive /\ ArchiveOf[a].broken)
                     THEN suspects \cup {file} ELSE suspects
  BY <1>d, <1>e DEF Enter, Suspect
<1>. HIDE DEF seen
<1>1. CASE a = NoArchive
  <2>1. file' = file + 1 /\ stack' = <<>> /\ suspects \subseteq suspects'
    BY <1>1, <1>d, <1>f
  <2>2. PassedFine'
    <3>. SUFFICES ASSUME NEW i \in DOMAIN files \ suspects', i < file + 1, files[i].state = "whole",
                         files[i].holds # NoArchive
                  PROVE  FoundHarmless(files[i].holds)
      BY <2>1 DEF PassedFine
    <3>1. i \notin suspects /\ (i < file \/ i = file)
      BY <1>b, <2>1
    <3>2. i # file
      BY <1>1
    <3>. QED BY <3>1, <3>2 DEF ScanInv, PassedFine
  <2>3. OpenFine'
    BY <2>1 DEF OpenFine
  <2>. QED BY <2>2, <2>3 DEF ScanInv
<1>2. CASE a # NoArchive
  <2>1. a \in Archives /\ f.state = "whole" /\ a = f.holds
    BY <1>2, <1>c
  <2>. HIDE DEF a, f
  <2>2. g \in Frames /\ g.holds = a
    BY <2>1 DEF Frames
  <2>3. /\ file' = file /\ suspects \subseteq suspects'
        /\ file \notin suspects' => ~ArchiveOf[a].broken
    BY <1>2, <1>d, <1>f
  <2>4. stack' \in Seq(Frames) /\ Len(stack') = 1 /\ stack'[1] = g /\ DOMAIN stack' = 1 .. 1
    BY <1>2, <1>f, <2>2
  <2>5. PassedFine'
    BY <2>3, PassedStays DEF ScanInv
  <2>6. ASSUME file \notin suspects' PROVE SoFarFine(stack', total')
    <3>. DEFINE E == [k \in {1} |-> 0]
    <3>1. E[1] = 0
      OBVIOUS
    <3>. HIDE DEF E
    <3>2. LevelsOf(1) \in 1 .. MaxNesting + 1
      BY <1>b DEF LevelsOf
    <3>3. Working(g, LevelsOf(1), 0, 0)
      BY <2>1, <3>2, Begun
    <3>4. Fine(stack', E, 0)
      <4>1. \A k \in DOMAIN stack' : k = 1
        BY <2>4
      <4>2. Working(stack'[Len(stack')], LevelsOf(Len(stack')), E[Len(stack')], 0)
        BY <2>4, <3>1, <3>3
      <4>3. \A k \in DOMAIN stack' : ~ArchiveOf[stack'[k].holds].broken /\ E[k] \in Nat
        BY <2>2, <2>3, <2>4, <2>6, <3>1, <4>1
      <4>. HIDE DEF g
      <4>. QED BY <2>4, <4>1, <4>2, <4>3 DEF Fine
    <3>. QED BY <1>d, <3>4, NestingAssumption DEF SoFarFine
  <2>7. OpenFine'
    <3>. SUFFICES ASSUME file \notin suspects'
                  PROVE  /\ files[file].state = "whole" /\ stack'[1].holds = files[file].holds
                         /\ SoFarFine(stack', total')
      BY <2>3 DEF OpenFine
    <3>. QED BY <2>1, <2>2, <2>4, <2>6 DEF f
  <2>. QED BY <2>5, <2>7 DEF ScanInv
<1>. QED BY <1>1, <1>2

\* The members are looked into, and counted.
LEMMA MemberStep ==
    ASSUME TypeInv, ScanInv, files' = files, UNCHANGED vars,
           OpenMember \/ CountMember \/ TakeMember \/ Unpack
    PROVE  ScanInv'
<1>. DEFINE l == Len(stack)
            n == LevelsOf(l)
            m == Member
            g == [Top EXCEPT !.opened = TRUE]
            h == [Top EXCEPT !.at = @ + 1, !.opened = FALSE]
<1>a. /\ stack \in Seq(Frames) /\ Len(stack) <= MaxNesting + 1 /\ total \in Nat
  BY DEF TypeInv, StageTypeOK
<1>b. stack # <<>> /\ Top.at <= Len(Holding.members) /\ Holding.form # "other"
  BY DEF OpenMember, CountMember, TakeMember, Unpack, AtMember
<1>c. Member \in Members /\ Top \in Frames /\ Member.size \in Nat
  <2>1. Member \in Members /\ Top \in Frames
    BY <1>a, <1>b, TopIs
  <2>. QED BY <2>1 DEF Members
<1>d. g \in Frames /\ h \in Frames /\ g.holds = Top.holds /\ h.holds = Top.holds
  <2>1. Top.at + 1 \in Nat \ {0}
    BY <1>c DEF Frames
  <2>. QED BY <1>c, <2>1 DEF Frames
<1>e. Advanced = Append(Below, h)
  BY DEF Advanced
\* what is known unless the file has a finding
<1>f. ASSUME file \notin suspects
      PROVE  \E x \in Nat : x <= total /\ x <= MaxUnpacked /\ \E E : Fine(stack, E, x)
  BY <1>b, <1>f DEF ScanInv, OpenFine, SoFarFine
<1>. HIDE DEF g, h
\* into what a member holds, with a sum that stays within the limit
<1>g. ASSUME NEW f \in Frames, f.holds = Top.holds, NEW E, NEW x \in Nat, NEW y \in Nat, Fine(stack, E, x),
             Enter(Member.nested, Append(Below, f), Member.odd), file \notin suspects',
             y <= total', y <= MaxUnpacked,
             ~Member.odd => IF Member.nested = NoArchive
                            THEN Working(f, LevelsOf(Len(stack)), E[Len(stack)], y)
                            ELSE Waiting(f, LevelsOf(Len(stack)), E[Len(stack)], Member.nested, y)
      PROVE  SoFarFine(stack', total') /\ stack'[1].holds = stack[1].holds
  <2>1. (\E F : Fine(stack', F, y)) /\ stack'[1].holds = stack[1].holds
    BY <1>a, <1>b, <1>g, Entered
  <2>. QED BY <1>g, <2>1 DEF SoFarFine
<1>1. CASE OpenMember
  <2>1. /\ Enter(Member.nested, Append(Below, g), Member.odd) /\ file' = file /\ total' = total
        /\ Holding.form = "central" /\ ~Top.opened
    BY <1>1 DEF OpenMember, AtMember, g
  <2>2. suspects \subseteq suspects'
    BY <2>1 DEF Enter, Suspect
  <2>3. ASSUME file \notin suspects'
        PROVE  SoFarFine(stack', total') /\ stack'[1].holds = stack[1].holds
    <3>1. PICK x \in Nat : x <= total /\ x <= MaxUnpacked /\ \E E : Fine(stack, E, x)
      BY <1>f, <2>2, <2>3
    <3>2. PICK E : Fine(stack, E, x)
      BY <3>1
    <3>3. /\ Working(Top, LevelsOf(Len(stack)), E[Len(stack)], x) /\ E[Len(stack)] \in Nat
          /\ LevelsOf(Len(stack)) \in 1 .. MaxNesting + 1
          /\ Top.at \in DOMAIN ArchiveOf[Top.holds].members
          /\ Member = ArchiveOf[Top.holds].members[Top.at] /\ ArchiveOf[Top.holds].form = "central"
      BY <1>a, <1>b, <2>1, <3>2, AtWork
    <3>4. ~Member.odd => IF Member.nested = NoArchive
                         THEN Working(g, LevelsOf(Len(stack)), E[Len(stack)], x)
                         ELSE Waiting(g, LevelsOf(Len(stack)), E[Len(stack)], Member.nested, x)
      BY <1>c, <2>1, <3>3, Proceeds DEF g
    <3>. QED BY <1>d, <1>g, <2>1, <2>3, <3>1, <3>2, <3>4
  <2>. QED BY <1>b, <2>1, <2>2, <2>3, OnStep
<1>2. CASE CountMember
  <2>1. /\ total' = total + Member.size /\ Holding.form = "central" /\ Top.opened
        /\ IF total' > MaxUnpacked THEN LeaveWith(TRUE)
           ELSE stack' = Advanced /\ file' = file /\ suspects' = suspects
    BY <1>2 DEF CountMember, AtMember
  <2>2. total' \in Nat /\ total' >= total
    BY <1>a, <1>c, <2>1
  <2>3. CASE total' > MaxUnpacked
    BY <1>b, <2>1, <2>2, <2>3, LeftStep
  <2>4. CASE ~ (total' > MaxUnpacked)
    <3>. file' = file /\ suspects' = suspects /\ stack' = Advanced
      BY <2>1, <2>4
    <3>1. ASSUME file \notin suspects'
          PROVE  SoFarFine(stack', total') /\ stack'[1].holds = stack[1].holds
      <4>1. PICK x \in Nat : x <= total /\ x <= MaxUnpacked /\ \E E : Fine(stack, E, x)
        BY <1>f, <3>1
      <4>2. PICK E : Fine(stack, E, x)
        BY <4>1
      <4>3. /\ Working(Top, LevelsOf(Len(stack)), E[Len(stack)], x) /\ E[Len(stack)] \in Nat
            /\ LevelsOf(Len(stack)) \in 1 .. MaxNesting + 1
            /\ Top.at \in DOMAIN ArchiveOf[Top.holds].members
            /\ Member = ArchiveOf[Top.holds].members[Top.at]
        BY <1>a, <1>b, <4>2, AtWork
      <4>4. ~Member.odd
        BY <2>1, <4>3 DEF Working, CleanMember
      <4>5. Working(h, LevelsOf(Len(stack)), E[Len(stack)], x + Member.size)
        BY <1>c, <2>1, <4>3, <4>4, Proceeds DEF h
      <4>6. x + Member.size \in Nat /\ x + Member.size <= total' /\ x + Member.size <= MaxUnpacked
        BY <1>a, <1>c, <2>1, <2>4, <4>1, NestingAssumption
      <4>7. /\ Below \in Seq(Frames) /\ Len(Below) = Len(stack) - 1 /\ Len(stack) \in Nat
            /\ \A i \in 1 .. Len(Below) : Below[i] = stack[i]
            /\ stack[Len(stack)].holds = Top.holds
        BY <1>a, <1>b, TopIs DEF Top
      <4>8. /\ stack' \in Seq(Frames) /\ Len(stack') = Len(stack) /\ stack'[Len(stack)] = h
            /\ \A i \in 1 .. Len(stack) - 1 : stack'[i] = stack[i]
        BY <1>d, <1>e, <4>7
      <4>9. stack'[Len(stack)].holds = stack[Len(stack)].holds
            /\ Working(stack'[Len(stack)], LevelsOf(Len(stack)), E[Len(stack)], x + Member.size)
        BY <1>d, <4>5, <4>7, <4>8
      <4>10. Fine(stack', E, x + Member.size) /\ stack'[1].holds = stack[1].holds
        <5>. DEFINE t == stack'
                    y == x + Member.size
        <5>1. /\ t \in Seq(Frames) /\ Len(t) = Len(stack) /\ \A i \in 1 .. Len(stack) - 1 : t[i] = stack[i]
              /\ t[Len(stack)].holds = stack[Len(stack)].holds
              /\ Working(t[Len(stack)], LevelsOf(Len(stack)), E[Len(stack)], y)
          BY <4>8, <4>9
        <5>. HIDE DEF t, y
        <5>2. Fine(t, E, y) /\ t[1].holds = stack[1].holds
          BY <1>a, <1>b, <4>2, <5>1, Replaced
        <5>. QED BY <5>2 DEF t, y
      <4>. QED BY <4>6, <4>10 DEF SoFarFine
    <3>. QED BY <1>b, <3>1, OnStep
  <2>. QED BY <2>3, <2>4
\* the others are counted first
<1>h. ASSUME Enter(Member.nested, Advanced, Member.odd), file' = file, Holding.form # "central",
             total' >= total, total' \in Nat, NEW own \in Nat, own = OwnSize(Top.holds, Top.at),
             own = 0 \/ (total' = total + own /\ total' <= MaxUnpacked)
      PROVE  ScanInv'
  <2>1. suspects \subseteq suspects'
    BY <1>h DEF Enter, Suspect
  <2>2. ASSUME file \notin suspects'
        PROVE  SoFarFine(stack', total') /\ stack'[1].holds = stack[1].holds
    <3>1. PICK x \in Nat : x <= total /\ x <= MaxUnpacked /\ \E E : Fine(stack, E, x)
      BY <1>f, <2>1, <2>2
    <3>2. PICK E : Fine(stack, E, x)
      BY <3>1
    <3>3. /\ Working(Top, LevelsOf(Len(stack)), E[Len(stack)], x) /\ E[Len(stack)] \in Nat
          /\ LevelsOf(Len(stack)) \in 1 .. MaxNesting + 1
          /\ Top.at \in DOMAIN ArchiveOf[Top.holds].members
          /\ Member = ArchiveOf[Top.holds].members[Top.at] /\ ArchiveOf[Top.holds].form # "central"
      BY <1>a, <1>b, <1>h, <3>2, AtWork
    <3>4. ~Member.odd => IF Member.nested = NoArchive
                         THEN Working(h, LevelsOf(Len(stack)), E[Len(stack)], x + own)
                         ELSE Waiting(h, LevelsOf(Len(stack)), E[Len(stack)], Member.nested, x + own)
      BY <1>c, <1>h, <3>3, Proceeds DEF h
    <3>5. x + own \in Nat /\ x + own <= total' /\ x + own <= MaxUnpacked
      BY <1>a, <1>h, <3>1, NestingAssumption
    <3>. QED BY <1>d, <1>e, <1>g, <1>h, <2>2, <3>1, <3>2, <3>4, <3>5
  <2>. QED BY <1>b, <1>h, <2>1, <2>2, OnStep
<1>3. CASE TakeMember
  <2>1. /\ total' = total + Member.size /\ Holding.form \in {"local", "tar"}
        /\ IF total' > MaxUnpacked THEN LeaveWith(TRUE)
           ELSE Enter(Member.nested, Advanced, Member.odd) /\ file' = file
    BY <1>3 DEF TakeMember, AtMember
  <2>2. total' \in Nat /\ total' >= total
    BY <1>a, <1>c, <2>1
  <2>3. CASE total' > MaxUnpacked
    BY <1>b, <2>1, <2>2, <2>3, LeftStep
  <2>4. CASE ~ (total' > MaxUnpacked)
    <3>1. OwnSize(Top.holds, Top.at) = Member.size
      BY <2>1 DEF OwnSize, Holding, Member
    <3>2. total' <= MaxUnpacked
      BY <2>2, <2>4, NestingAssumption
    <3>. QED BY <1>c, <1>h, <2>1, <2>2, <2>4, <3>1, <3>2
  <2>. QED BY <2>3, <2>4
<1>4. CASE Unpack
  <2>1. /\ total' \in {total, total + Member.size} /\ Holding.form = "gzip"
        /\ Enter(Member.nested, Advanced, Member.odd) /\ file' = file
    BY <1>4 DEF Unpack, AtMember
  <2>2. total' \in Nat /\ total' >= total
    BY <1>a, <1>c, <2>1
  <2>3. OwnSize(Top.holds, Top.at) = 0
    BY <2>1 DEF OwnSize, Holding
  <2>. QED BY <1>h, <2>1, <2>2, <2>3
<1>. QED BY <1>1, <1>2, <1>3, <1>4

\* Every step of the scan keeps what is known of the files passed and at hand.
LEMMA ScanStep == TypeInv /\ ScanInv /\ [StageNext]_stageVars => ScanInv'
<1>. SUFFICES ASSUME TypeInv, ScanInv, [StageNext]_stageVars PROVE ScanInv'
  OBVIOUS
<1>a. /\ stack \in Seq(Frames) /\ total \in Nat
  BY DEF TypeInv, StageTypeOK
<1>1. CASE FileNext /\ UNCHANGED vars
  <2>1. files' = files
    BY <1>1 DEF vars, layoutVars, files
  <2>2. CASE TakeFile
    BY <2>1, <2>2, TakeFileStep
  <2>3. CASE OpenMember \/ CountMember \/ TakeMember \/ Unpack
    BY <1>1, <2>1, <2>3, MemberStep
  <2>4. CASE LeaveArchive
    <3>1. /\ stack # <<>> /\ LeaveWith(FALSE) /\ total' = total
          /\ ~ AtMember({"central", "local", "tar", "gzip"})
      BY <2>4 DEF LeaveArchive
    <3>2. CASE Top.at <= Len(Holding.members) /\ file \notin suspects
      <4>1. PICK x \in Nat : \E E : Fine(stack, E, x)
        BY <3>1, <3>2 DEF ScanInv, OpenFine, SoFarFine
      <4>2. PICK E : Fine(stack, E, x)
        BY <4>1
      <4>3. Top \in Frames /\ Holding \in Holdings
        BY <1>a, <3>1, TopIs
      <4>4. Len(stack) \in Nat \ {0}
        BY <1>a, <3>1
      <4>5. Len(stack) \in DOMAIN stack
        BY <1>a, <4>4
      <4>6. ~Holding.broken
        BY <4>2, <4>5 DEF Fine, Holding, Top
      <4>7. Holding.form = "other"
        BY <3>1, <3>2, <4>3, <4>6 DEF AtMember, Holdings
      <4>8. Top.holds \in Archives /\ Top.at \in Nat \ {0}
        BY <4>3 DEF Frames
      <4>9. Holding.members = <<>>
        BY <4>7, <4>8, OthersAssumption DEF Holding
      <4>. QED BY <3>2, <4>8, <4>9
    <3>3. total' >= total /\ total' \in Nat
      BY <1>a, <3>1
    <3>4. ASSUME ~ (Top.at <= Len(Holding.members)) \/ file \in suspects PROVE ScanInv'
      <4>. DEFINE found == FALSE
      <4>1. LeaveWith(found) /\ (found \/ file \in suspects \/ ~ (Top.at <= Len(Holding.members)))
        BY <3>1, <3>4
      <4>. HIDE DEF found
      <4>. QED BY <2>1, <3>1, <3>3, <4>1, LeftStep
    <3>. QED BY <3>2, <3>4
  <2>. QED BY <1>1, <2>2, <2>3, <2>4 DEF FileNext
<1>2. CASE UNCHANGED fileVars /\ medium' = medium
  BY <1>2 DEF fileVars, files, ScanInv, PassedFine, OpenFine
<1>3. CASE LayoutNext /\ UNCHANGED rawVars /\ UNCHANGED fileVars
  <2>1. medium' = medium
    BY <1>3 DEF LayoutNext, ReadMbr, StartChain, ReadRecord, EndChain, Inspect
  <2>. QED BY <1>2, <1>3, <2>1
<1>4. CASE RawNext /\ UNCHANGED layoutVars /\ UNCHANGED fileVars
  BY <1>2, <1>4 DEF layoutVars
<1>5. CASE UNCHANGED stageVars
  BY <1>2, <1>5 DEF stageVars, vars, layoutVars
<1>. QED BY <1>1, <1>3, <1>4, <1>5, Steps

\* No call is open at the start, and no file is behind.
LEMMA ScanInit == StageInit => ScanInv
<1>. SUFFICES ASSUME StageInit PROVE ScanInv
  OBVIOUS
<1>1. medium \in Media
  BY TypeInit DEF TypeInv, StageTypeOK, TypeOK, LayoutTypeOK
<1>2. file = 1 /\ stack = <<>> /\ DOMAIN files = 1 .. Len(files) /\ Len(files) \in Nat
  BY <1>1, FilesAre DEF StageInit
<1>. QED BY <1>2 DEF ScanInv, PassedFine, OpenFine

\* An archive that was read as a whole and has no finding has nothing odd in it at any
\* level, is not nested too deep and does not unpack to more than the policy allows,
\* whatever the calls of inspect_archive_recursive break off.
THEOREM CleanAlwaysHarmless == Spec => []CleanIsHarmless
<1>1. ASSUME TypeInv, ScanInv PROVE CleanIsHarmless
  <2>. SUFFICES ASSUME NEW i \in DOMAIN files \ suspects, i < file, files[i].state = "whole",
                       files[i].holds # NoArchive
                PROVE  /\ \A n \in 0 .. MaxNesting : \A b \in Layers(files[i].holds)[n] :
                            /\ ~ArchiveOf[b].broken
                            /\ \A j \in DOMAIN ArchiveOf[b].members : ~ArchiveOf[b].members[j].odd
                       /\ Layers(files[i].holds)[MaxNesting + 1] = {}
                       /\ Unpacked(files[i].holds) <= MaxUnpacked
    BY DEF CleanIsHarmless
  <2>1. PICK a \in Archives \cup {NoArchive} : a = files[i].holds
    <3>1. medium \in Media
      BY <1>1 DEF TypeInv, StageTypeOK, TypeOK, LayoutTypeOK
    <3>. QED BY <3>1, FilesAre
  <2>2. a \in Archives /\ a \in HarmlessTo[MaxNesting + 1] /\ UnpackedTo[MaxNesting + 1][a] <= MaxUnpacked
    BY <1>1, <2>1 DEF ScanInv, PassedFine, FoundHarmless
  <2>3. Unpacked(a) <= MaxUnpacked
    BY <2>2, UnpackedIs
  <2>4. \A n \in 0 .. MaxNesting + 1 : Layers(a)[n] \subseteq HarmlessTo[(MaxNesting + 1) - n]
    BY <2>2, LayersAreHarmless
  <2>5. ASSUME NEW n \in 0 .. MaxNesting, NEW b \in Layers(a)[n]
        PROVE  ~ArchiveOf[b].broken /\ \A j \in DOMAIN ArchiveOf[b].members : ~ArchiveOf[b].members[j].odd
    <3>1. n \in 0 .. MaxNesting + 1 /\ (MaxNesting + 1) - n \in 1 .. MaxNesting + 1
      BY NestingAssumption
    <3>2. Sound(b, HarmlessTo[((MaxNesting + 1) - n) - 1])
      BY <2>4, <3>1, HarmlessToIs
    <3>. QED BY <3>2 DEF Sound, CleanMember
  <2>6. Layers(a)[MaxNesting + 1] = {}
    <3>1. MaxNesting + 1 \in 0 .. MaxNesting + 1 /\ (MaxNesting + 1) - (MaxNesting + 1) = 0
      BY NestingAssumption
    <3>. QED BY <2>4, <3>1, HarmlessToIs
  <2>. QED BY <2>1, <2>3, <2>5, <2>6
<1>. QED BY <1>1, TypeInit, ScanInit, TypeStep, ScanStep, PTL DEF Spec
=============================================================================
