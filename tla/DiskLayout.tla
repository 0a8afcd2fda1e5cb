----------------------------- MODULE DiskLayout -----------------------------
(***************************************************************************)
(* What a medium says of its partitions (src/disk/partition.rs): the MBR,  *)
(* the chains of extended boot records and the two GPTs, the layout that   *)
(* parse_disk_layout makes of them, and what the partition scan finds odd  *)
(* about it (src/disk/anomalies.rs).                                       *)
(*                                                                         *)
(* Sectors are numbers. A GPT header is its checksum, where it has its     *)
(* copy, and its entries; a checksum is the polynomial it was made with.   *)
(* u64 saturates where these numbers go on, always beyond Total.           *)
(***************************************************************************)
EXTENDS Naturals, Sequences, FiniteSets

CONSTANTS
    Total,      \* sectors of the medium
    MaxLogical, \* extended boot records of a chain, 64 in the code
    GptReserve, \* sectors a GPT takes at either end, 34 in the code
    Media,      \* the media looked at
    DiskOf      \* what is on each of them

Sectors == 0 .. Total - 1

\* Of an entry of the MBR. A hidden type is one of the eight the scan lists.
Types == {"none", "data", "hidden", "extended", "protective"}

\* crc32 divides by a polynomial of its own.
Polynomial == "EDBABC40"
Standard == "EDB88320"

MbrEntries == [type : Types, start : Nat, count : Nat]
\* "next" is 0 when the second entry is not the link to another record.
Records == [signed : BOOLEAN, type : Types, rel : Nat, count : Nat, next : Nat]
GptEntries == [used : BOOLEAN, start : Nat, end : Nat]
Headers == [crc : {Polynomial, Standard, "wrong"}, backup : Nat, entries : Seq(GptEntries)]
DiskSet == [signed : BOOLEAN, mbr : Seq(MbrEntries), records : [Sectors -> Records],
            primary : Headers, secondary : Headers]

ASSUME TotalAssumption == Total \in Nat \ {0}
ASSUME LogicalAssumption == MaxLogical \in Nat \ {0}
ASSUME ReserveAssumption == GptReserve \in Nat \ {0}
ASSUME DisksAssumption == \A m \in Media : DiskOf[m] \in DiskSet /\ Len(DiskOf[m].mbr) <= 4

VARIABLES
    medium,     \* which of them: chosen once
    pc,
    parts,      \* partitions
    queue,      \* where in parts the extended ones are whose chain is still to be followed
    chain,      \* the chain that is followed, or NoChain
    table,      \* table_type
    findings

layoutVars == <<medium, pc, parts, queue, chain, table, findings>>

Partitions == [index : Nat, start : Nat, end : Nat, count : Nat, type : Types \cup {"gpt"}]

NoChain == [base |-> 0, size |-> 0, at |-> 0, visited |-> {}, open |-> FALSE]

disk == DiskOf[medium]

LayoutInit ==
    /\ medium \in Media
    /\ pc = "mbr"
    /\ parts = <<>> /\ queue = {} /\ chain = NoChain
    /\ table = "none" /\ findings = {}

-----------------------------------------------------------------------------
\* Mutant: an entry without sectors ends before it starts.
LastUnchecked(start, count) == (start + count) - 1

Last(start, count) == IF count > 0 THEN (start + count) - 1 ELSE start

\* The entries of the MBR that are in use, under their numbers.
MbrPartition(i) ==
    LET e == disk.mbr[i] IN
      [index |-> i, start |-> e.start, end |-> Last(e.start, e.count), count |-> e.count, type |-> e.type]

Used == {i \in DOMAIN disk.mbr : disk.mbr[i].type # "none"}

\* The n-th of some numbers.
Nth(set, n) == CHOOSE i \in set : Cardinality({j \in set : j <= i}) = n

MbrPartitions == [n \in 1 .. Cardinality(Used) |-> MbrPartition(Nth(Used, n))]

IsExtended(p) == p.type = "extended"

\* The first four entries; there is nothing without the signature.
ReadMbr ==
    /\ pc = "mbr"
    /\ pc' = "chains"
    /\ parts' = IF disk.signed THEN MbrPartitions ELSE <<>>
    /\ queue' = {k \in DOMAIN parts' : IsExtended(parts'[k])}
    /\ UNCHANGED <<medium, chain, table, findings>>

StartChain ==
    /\ pc = "chains" /\ ~chain.open
    /\ \E k \in queue :
         /\ \A j \in queue : k <= j
         /\ chain' = [base |-> parts[k].start, size |-> parts[k].count,
                      at |-> parts[k].start, visited |-> {}, open |-> TRUE]
         /\ queue' = queue \ {k}
    /\ UNCHANGED <<medium, pc, parts, table, findings>>

\* Logical partitions are numbered from 5, through all the chains.
Logicals == {k \in DOMAIN parts : parts[k].index >= 5}

Logical(r) ==
    [index |-> 5 + Cardinality(Logicals), start |-> chain.at + r.rel,
     end |-> Last(chain.at + r.rel, r.count), count |-> r.count, type |-> r.type]

\* Mutant: the link counts from the record it is in.
FollowFromHere(r) ==
    LET next == chain.at + r.next IN
      chain' = IF r.next = 0 \/ next >= chain.base + chain.size THEN NoChain
               ELSE [chain EXCEPT !.at = next, !.visited = @ \cup {chain.at}]

\* Links count from the start of the extended partition and stay within it.
Follow(r) ==
    LET next == chain.base + r.next IN
      chain' = IF r.next = 0 \/ next >= chain.base + chain.size THEN NoChain
               ELSE [chain EXCEPT !.at = next, !.visited = @ \cup {chain.at}]

\* The loop goes on, and the record can be read and is one.
MayRead ==
    /\ Cardinality(chain.visited) < MaxLogical /\ chain.at \notin chain.visited
    /\ chain.at \in Sectors
    /\ disk.records[chain.at].signed

ReadRecord ==
    /\ pc = "chains" /\ chain.open /\ MayRead
    /\ LET r == disk.records[chain.at] IN
         /\ parts' = IF r.type # "none" /\ r.count > 0 THEN Append(parts, Logical(r)) ELSE parts
         /\ Follow(r)
    /\ UNCHANGED <<medium, pc, queue, table, findings>>

\* Whatever ends a chain, nothing is said of it.
EndChain ==
    /\ pc = "chains" /\ chain.open /\ ~MayRead
    /\ chain' = NoChain
    /\ UNCHANGED <<medium, pc, parts, queue, table, findings>>

-----------------------------------------------------------------------------
\* parse_gpt_header_and_entries; a medium of two sectors has no GPT.
Valid(h) == Total >= 3 /\ h.crc = Polynomial

UsedEntries(h) == {i \in DOMAIN h.entries : h.entries[i].used}

GptPartition(h, i) ==
    LET e == h.entries[i] IN
      [index |-> i, start |-> e.start, end |-> e.end, type |-> "gpt",
       count |-> IF e.end >= e.start THEN (e.end - e.start) + 1 ELSE 0]

GptPartitions(h) == [n \in 1 .. Cardinality(UsedEntries(h)) |-> GptPartition(h, Nth(UsedEntries(h), n))]

Primary == Valid(disk.primary)
Secondary == Valid(disk.secondary)

TableType ==
    IF Primary \/ Secondary
      THEN IF \E k \in DOMAIN parts : parts[k].type # "protective" THEN "hybrid" ELSE "gpt"
      ELSE IF disk.signed /\ parts # <<>> THEN "mbr" ELSE "none"

Protective == disk.signed /\ \E i \in Used : disk.mbr[i].type = "protective"

-----------------------------------------------------------------------------
(* The partition scan. A finding is its rule and what it is about.         *)

Within(p, q) == q.start <= p.start /\ p.end <= q.end
Overlap(p, q) == p.start <= q.end /\ q.start <= p.end

Overlaps(ps) ==
    {[rule |-> "FX-PART-001", at |-> ps[i].index] :
        i \in {i \in DOMAIN ps : \E j \in DOMAIN ps :
                 /\ i < j /\ Overlap(ps[i], ps[j])
                 /\ ~ (IsExtended(ps[i]) /\ Within(ps[j], ps[i]))
                 /\ ~ (IsExtended(ps[j]) /\ Within(ps[i], ps[j]))}}

OutOfBounds(ps) ==
    {[rule |-> "FX-PART-002", at |-> ps[i].index] :
        i \in {i \in DOMAIN ps : \/ ps[i].start >= Total \/ ps[i].end >= Total
                                 \/ ps[i].start > ps[i].end \/ ps[i].count = 0}}

Hidden(ps) ==
    {[rule |-> "FX-PART-006", at |-> ps[i].index] : i \in {i \in DOMAIN ps : ps[i].type = "hidden"}}

OfTheDevice(rule, condition) == IF condition THEN {[rule |-> rule, at |-> 0]} ELSE {}

Disagreement(type) ==
    OfTheDevice("FX-PART-003",
        \/ type = "gpt" /\ ~Protective
        \/ type = "hybrid"
        \/ Protective /\ ~Primary /\ ~Secondary)

\* Mutant: the entries of the two tables are not compared.
BackupOddUncompared ==
    OfTheDevice("FX-PART-004",
        \/ Primary # Secondary
        \/ Primary /\ disk.primary.backup # Total - 1)

BackupOdd ==
    OfTheDevice("FX-PART-004",
        \/ Primary # Secondary
        \/ Primary /\ Secondary /\ GptPartitions(disk.primary) # GptPartitions(disk.secondary)
        \/ Primary /\ disk.primary.backup # Total - 1)

\* parse_gpt, the choice of the table, and check_partition_anomalies but for what
\* lies in the gaps.
Inspect ==
    /\ pc = "chains" /\ ~chain.open /\ queue = {}
    /\ pc' = "layout"
    /\ table' = TableType
    /\ parts' = IF Primary THEN GptPartitions(disk.primary)
                ELSE IF Secondary THEN GptPartitions(disk.secondary)
                ELSE IF TableType = "mbr" THEN parts ELSE <<>>
    /\ findings' = Overlaps(parts') \cup OutOfBounds(parts') \cup Hidden(parts')
                     \cup Disagreement(table') \cup BackupOdd
    /\ UNCHANGED <<medium, queue, chain>>

LayoutNext == ReadMbr \/ StartChain \/ ReadRecord \/ EndChain \/ Inspect

-----------------------------------------------------------------------------
\* Every variable holds a value of its kind.
LayoutTypeOK ==
    /\ medium \in Media
    /\ pc \in {"mbr", "chains", "layout"}
    /\ parts \in Seq(Partitions) /\ queue \subseteq DOMAIN parts
    /\ chain \in [base : Nat, size : Nat, at : Nat, visited : SUBSET Sectors, open : BOOLEAN]
    /\ table \in {"none", "mbr", "gpt", "hybrid"}
    /\ findings \subseteq [rule : {"FX-PART-001", "FX-PART-002", "FX-PART-003", "FX-PART-004",
                                   "FX-PART-006"}, at : Nat]

\* The records that whoever follows the links of an extended partition arrives at.
Step(p, s) == p.start + disk.records[s].next
Leads(p, s) ==
    /\ disk.records[s].signed /\ disk.records[s].next # 0
    /\ Step(p, s) \in Sectors /\ Step(p, s) < p.start + p.count
Hops(p) ==
    LET hop[n \in 0 .. Total] ==
          IF n = 0 THEN p.start
          ELSE LET s == hop[n - 1] IN IF s \in Sectors /\ Leads(p, s) THEN Step(p, s) ELSE s
    IN  hop
Arrives(p) == {s \in Sectors : disk.records[s].signed /\ \E n \in 0 .. Total : Hops(p)[n] = s}

\* Every logical partition that can be arrived at, over records in any order and
\* in chains that come back to themselves, is in the layout of an MBR. The chains
\* of at most MaxLogical records are meant: of a longer one the rest is left out,
\* without a finding.
LogicalsAreFound ==
    pc = "layout" /\ table = "mbr" =>
      \A k \in DOMAIN parts :
        LET p == parts[k] IN
          parts[k].index <= 4 /\ IsExtended(p) /\ Cardinality(Arrives(p)) <= MaxLogical =>
            \A s \in Arrives(p) :
              LET r == disk.records[s] IN
                r.type # "none" /\ r.count > 0 =>
                  \E j \in DOMAIN parts : parts[j].start = s + r.rel /\ parts[j].count = r.count

\* A reader of GPTs that takes checksums of either polynomial.
Readable(h) == Total >= 3 /\ h.crc \in {Polynomial, Standard}

\* A GPT with the standard checksum is none to the program; only a protective MBR
\* gives it away.
GptUnseen == ~Protective /\ (disk.primary.crc = Standard \/ disk.secondary.crc = Standard)

\* What the MBR and each GPT say when they say the same.
SameTables ==
    /\ Readable(disk.primary) => /\ Readable(disk.secondary)
                                 /\ GptPartitions(disk.secondary) = parts
                                 /\ GptPartitions(disk.primary) = parts
    /\ Readable(disk.secondary) => Readable(disk.primary)
    /\ Readable(disk.primary) => \A i \in Used : disk.mbr[i].type = "protective"

\* A medium without a finding is the same medium to whoever reads only its MBR,
\* only its first GPT or only its second one, and each of its sectors belongs to
\* one partition, the extended ones and what lies in them aside
\* (docs/THREAT_MODEL.md:37). It is so for a reader that takes a GPT with either
\* checksum, and with one exception: a standard GPT beside an MBR that is not
\* protective may have no finding, and that reader alone sees it. (Whoever insists on the
\* standard checksum sees no GPT in what the program takes for one; GptIsRead.)
OneView ==
    pc = "layout" /\ findings = {} =>
      /\ GptUnseen \/ SameTables
      /\ \A i, j \in DOMAIN parts :
           i # j /\ ~IsExtended(parts[i]) /\ ~IsExtended(parts[j]) =>
             \A s \in Sectors : ~ (s \in parts[i].start .. parts[i].end /\ s \in parts[j].start .. parts[j].end)

\* A well-formed GPT, protected by the MBR and with its copy at the end, as every
\* partitioning tool writes it, is taken for one.
StandardGpt ==
    /\ Protective /\ \A i \in Used : disk.mbr[i].type = "protective"
    /\ disk.primary.crc = Standard /\ disk.secondary.crc = Standard
    /\ disk.primary.entries = disk.secondary.entries
    /\ disk.primary.backup = Total - 1 /\ Total >= 3

GptIsRead == pc = "layout" /\ StandardGpt => table = "gpt"
=============================================================================
