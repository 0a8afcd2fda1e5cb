------------------------------ MODULE RawSpace ------------------------------
(***************************************************************************)
(* The space that no partition claims: how the partition scan samples it   *)
(* (src/disk/anomalies.rs), how the file scan carves it (src/scan/mod.rs,  *)
(* src/scan/carve.rs), and how the egress scan looks for remnants in it    *)
(* and for a wipe of it (src/egress/remnants.rs).  Each of them works out  *)
(* that space anew from the layout of DiskLayout.  Every sector can be     *)
(* read.                                                                   *)
(***************************************************************************)
EXTENDS DiskLayout

CONSTANTS
    Prefix,      \* sectors that are not carved, 2048 in the code
    SampleWhole, \* sectors of a gap that is sampled as a whole, 1024 in the code
    SampleEnd,   \* sectors at each end of a longer one, 128 in the code
    Chunk,       \* sectors that are carved at a time, 128 KiB in the code
    WipeChunk,   \* sectors whose entropy is taken, 64 KiB in the code
    MaxCarved,   \* max_carved_files
    ContentOf,   \* what is on the sectors of each medium
    CarvesOf     \* carve.enabled of the policy each medium is scanned with

\* A file both lists of signatures have, told by its first "need" sectors and
\* estimated at "size" of them; "text" stands for whatever is no file, not zero
\* and not random, "boot" for a boot sector of FAT, exFAT or NTFS.
Cells == [kind : {"zero", "random", "text", "boot", "file"}, need : Nat, size : Nat]

ASSUME PrefixAssumption == Prefix \in Nat
ASSUME SampleAssumption == SampleWhole \in Nat /\ SampleEnd \in 0 .. SampleWhole
ASSUME ChunkAssumption == Chunk \in Nat \ {0} /\ WipeChunk \in Nat \ {0}
ASSUME CarvedAssumption == MaxCarved \in Nat
ASSUME ContentsAssumption == \A m \in Media : ContentOf[m] \in [Sectors -> Cells] /\ CarvesOf[m] \in BOOLEAN

VARIABLES
    command,    \* a scan, or the egress command
    step,
    left,       \* the partitions the loop at hand has not seen yet
    pos,        \* current_pos
    gaps,
    ranges,     \* unallocated_ranges
    range, at, chunkEnd, \* the range that is carved, the sector, where its chunk ends
    carved,     \* total_carved: the first sector and the length of each
    odd,        \* the sectors findings were made of
    cut         \* history: files whose header goes on in another chunk

rawVars == <<command, step, left, pos, gaps, ranges, range, at, chunkEnd, carved, odd, cut>>
vars == <<layoutVars, rawVars>>

content == ContentOf[medium]
carves == CarvesOf[medium]

RawInit ==
    /\ command \in {"scan", "egress"}
    /\ step = "wait" /\ left = {} /\ pos = 0 /\ gaps = {}
    /\ ranges = <<>> /\ range = 1 /\ at = 0 /\ chunkEnd = 0
    /\ carved = <<>> /\ odd = {} /\ cut = {}

Smaller(m, n) == IF m <= n THEN m ELSE n
Larger(m, n) == IF m >= n THEN m ELSE n

OfGpt == table \in {"gpt", "hybrid"}
StartThreshold == IF OfGpt THEN GptReserve ELSE 1
EndThreshold ==
    LET reserve == IF OfGpt THEN GptReserve ELSE 1 IN
      IF Total >= reserve THEN Total - reserve ELSE 0

\* sort_by_key is stable: the partitions are taken by their start, and by their
\* place among those that start together.
Before(j, k) ==
    \/ parts[j].start < parts[k].start
    \/ parts[j].start = parts[k].start /\ j <= k
NextPart == CHOOSE k \in left : \A j \in left : Before(k, j)

Begin ==
    /\ pc = "layout" /\ step = "wait"
    /\ left' = DOMAIN parts
    /\ IF parts # <<>> THEN /\ step' = "gaps" /\ pos' = StartThreshold
                            /\ UNCHANGED gaps
       ELSE IF command = "scan" THEN /\ step' = "ranges" /\ pos' = Prefix
                                     /\ UNCHANGED gaps
       ELSE /\ step' = "remnants" /\ pos' = Total
            /\ gaps' = IF Total > 1 THEN {[from |-> 1, to |-> Total - 1]} ELSE {}
    /\ UNCHANGED <<command, ranges, range, at, chunkEnd, carved, odd, cut>>

\* Mutant: the loop goes on from the end of the last partition, not of the longest.
TakeGapFromLast ==
    /\ step = "gaps" /\ left # {}
    /\ left' = left \ {NextPart}
    /\ LET p == parts[NextPart]
           to == Smaller(p.start - 1, EndThreshold) IN
         IF p.start > p.end \/ p.count = 0 THEN UNCHANGED <<gaps, pos>>
         ELSE /\ gaps' = IF p.start > pos /\ pos <= to
                           THEN gaps \cup {[from |-> pos, to |-> to]} ELSE gaps
              /\ pos' = p.end + 1
    /\ UNCHANGED <<command, step, ranges, range, at, chunkEnd, carved, odd, cut>>

\* check_unallocated_data and find_unallocated_gaps have the same loop.
TakeGap ==
    /\ step = "gaps" /\ left # {}
    /\ left' = left \ {NextPart}
    /\ LET p == parts[NextPart]
           to == Smaller(p.start - 1, EndThreshold) IN
         IF p.start > p.end \/ p.count = 0 THEN UNCHANGED <<gaps, pos>>
         ELSE /\ gaps' = IF p.start > pos /\ pos <= to
                           THEN gaps \cup {[from |-> pos, to |-> to]} ELSE gaps
              /\ pos' = Larger(pos, p.end + 1)
    /\ UNCHANGED <<command, step, ranges, range, at, chunkEnd, carved, odd, cut>>

LastGap ==
    /\ step = "gaps" /\ left = {}
    /\ step' = IF command = "scan" THEN "sample" ELSE "remnants"
    /\ gaps' = IF pos <= EndThreshold THEN gaps \cup {[from |-> pos, to |-> EndThreshold]} ELSE gaps
    /\ pos' = Larger(pos, EndThreshold + 1)
    /\ UNCHANGED <<command, left, ranges, range, at, chunkEnd, carved, odd, cut>>

-----------------------------------------------------------------------------
First(set) == {s \in set : \A t \in set : s <= t}

\* Mutant: of a long gap, only the start is sampled.
SampledStart(g) ==
    IF (g.to - g.from) + 1 < SampleWhole THEN g.from .. g.to
    ELSE g.from .. (g.from + SampleEnd) - 1

\* The sectors of a gap that are read.
Sampled(g) ==
    IF (g.to - g.from) + 1 <= SampleWhole THEN g.from .. g.to
    ELSE (g.from .. (g.from + SampleEnd) - 1) \cup ((g.to + 1) - SampleEnd .. g.to)

\* One finding for each gap, at the first sector that is not zero.
Sample ==
    /\ step = "sample"
    /\ odd' = UNION {First({s \in Sampled(g) : content[s].kind # "zero"}) : g \in gaps}
    /\ step' = "ranges" /\ left' = DOMAIN parts /\ pos' = Prefix
    /\ UNCHANGED <<command, gaps, ranges, range, at, chunkEnd, carved, cut>>

\* The sectors a file of the signatures starts at.
Signatures == {s \in Sectors : content[s].kind = "file"}

\* scan_unallocated_remnants
Remnants ==
    /\ step = "remnants"
    /\ odd' = {s \in Signatures : \E g \in gaps : s \in g.from .. g.to}
    /\ step' \in {"wipe", "done"}
    /\ UNCHANGED <<command, left, pos, gaps, ranges, range, at, chunkEnd, carved, cut>>

\* The entropy of a chunk is that of random bytes although a share of it is not
\* random; the share depends on what it is instead, an eighth stands for it.
LooksRandom(set) ==
    8 * Cardinality({s \in set : content[s].kind # "random"}) <= Cardinality(set)

Dirty(set) == (\E s \in set : content[s].kind # "zero") /\ ~LooksRandom(set)

\* Mutant: the chunk at the end of a gap is left out when it is not a whole one.
WholeChunks(g) ==
    {s \in g.from .. g.to : (s - g.from) % WipeChunk = 0 /\ s + WipeChunk <= g.to + 1}

\* The chunks of a gap by their first sectors.
WipeChunks(g) == {s \in g.from .. g.to : (s - g.from) % WipeChunk = 0}
ChunkAt(g, s) == s .. Smaller((s + WipeChunk) - 1, g.to)

\* verify_wipe_pattern names the first dirty chunk of each gap.
VerifyWipe ==
    /\ step = "wipe"
    /\ odd' = odd \cup UNION {First({s \in WipeChunks(g) : Dirty(ChunkAt(g, s))}) : g \in gaps}
    /\ step' = "done"
    /\ UNCHANGED <<command, left, pos, gaps, ranges, range, at, chunkEnd, carved, cut>>

-----------------------------------------------------------------------------
\* A policy may leave it at that.
LeaveUncarved ==
    /\ step = "ranges" /\ ~carves
    /\ step' = "done"
    /\ UNCHANGED <<command, left, pos, gaps, ranges, range, at, chunkEnd, carved, odd, cut>>

\* The ranges to carve, without their last sector, lie between partitions that
\* follow each other: the next one starts from the end of the last one here, so
\* they overlap when that ends before it starts.
TakeRange ==
    /\ step = "ranges" /\ carves /\ left # {}
    /\ left' = left \ {NextPart}
    /\ LET p == parts[NextPart] IN
         /\ ranges' = IF p.start > pos THEN Append(ranges, [from |-> pos, to |-> p.start]) ELSE ranges
         /\ pos' = p.end + 1
    /\ UNCHANGED <<command, step, gaps, range, at, chunkEnd, carved, odd, cut>>

\* A medium without partitions is carved as a whole, unless it is one volume.
LastRange ==
    /\ step = "ranges" /\ carves /\ left = {}
    /\ ranges' = IF parts = <<>>
                   THEN IF content[0].kind = "boot" THEN <<>> ELSE <<[from |-> 0, to |-> Total]>>
                   ELSE IF Total > pos THEN Append(ranges, [from |-> pos, to |-> Total]) ELSE ranges
    /\ step' = "carve"
    /\ at' = IF ranges' # <<>> THEN ranges'[1].from ELSE 0
    /\ chunkEnd' = at'
    /\ UNCHANGED <<command, left, pos, gaps, range, carved, odd, cut>>

\* There is more to carve, and the limit is not reached; a file in two ranges counts twice.
GoesOn == step = "carve" /\ range <= Len(ranges) /\ Len(carved) < MaxCarved

\* Mutant: the end of the medium is not an end.
EndedWithRange == at >= ranges[range].to

Ended == at >= ranges[range].to \/ at >= Total

ReadChunk ==
    /\ GoesOn /\ ~Ended /\ at >= chunkEnd
    /\ chunkEnd' = Smaller(Smaller(at + Chunk, ranges[range].to), Total)
    /\ UNCHANGED <<command, step, left, pos, gaps, ranges, range, at, carved, odd, cut>>

Recognised == content[at].kind = "file" /\ at + content[at].need <= chunkEnd

\* Mutant: the search goes on one sector after the file.
SkipOneMore(size) == at' = at + Larger(size, 1) + 1

\* The search goes on behind the file.
Skip(size) == at' = at + Larger(size, 1)

CarveFile ==
    /\ GoesOn /\ at < chunkEnd /\ Recognised
    /\ LET size == Smaller(content[at].size, ranges[range].to - at) IN
         /\ carved' = Append(carved, [at |-> at, size |-> size])
         /\ Skip(size)
    /\ odd' = odd \cup {at}
    /\ UNCHANGED <<command, step, left, pos, gaps, ranges, range, chunkEnd, cut>>

PassSector ==
    /\ GoesOn /\ at < chunkEnd /\ ~Recognised
    /\ at' = at + 1
    /\ cut' = IF content[at].kind = "file" THEN cut \cup {at} ELSE cut
    /\ UNCHANGED <<command, step, left, pos, gaps, ranges, range, chunkEnd, carved, odd>>

NextRange ==
    /\ GoesOn /\ Ended /\ at >= chunkEnd
    /\ range' = range + 1
    /\ at' = IF range < Len(ranges) THEN ranges[range + 1].from ELSE 0
    /\ chunkEnd' = at'
    /\ UNCHANGED <<command, step, left, pos, gaps, ranges, carved, odd, cut>>

EndCarving ==
    /\ step = "carve" /\ ~GoesOn
    /\ step' = "done"
    /\ UNCHANGED <<command, left, pos, gaps, ranges, range, at, chunkEnd, carved, odd, cut>>

Carve == ReadChunk \/ CarveFile \/ PassSector \/ NextRange \/ EndCarving

RawNext ==
    \/ Begin \/ TakeGap \/ LastGap \/ Sample \/ Remnants \/ VerifyWipe
    \/ LeaveUncarved \/ TakeRange \/ LastRange \/ Carve

Init == LayoutInit /\ RawInit

Next ==
    \/ LayoutNext /\ UNCHANGED rawVars
    \/ RawNext /\ UNCHANGED layoutVars

-----------------------------------------------------------------------------
Extents == [from : Nat, to : Nat]

\* Every variable holds a value of its kind.
RawTypeOK ==
    /\ command \in {"scan", "egress"}
    /\ step \in {"wait", "gaps", "sample", "remnants", "wipe", "ranges", "carve", "done"}
    /\ left \subseteq DOMAIN parts /\ pos \in Nat
    /\ gaps \subseteq Extents /\ ranges \in Seq(Extents)
    /\ range \in Nat /\ at \in Nat /\ chunkEnd \in Nat
    /\ carved \in Seq([at : Sectors, size : Nat])
    /\ odd \subseteq Sectors /\ cut \subseteq Sectors

TypeOK == LayoutTypeOK /\ RawTypeOK

\* No partition of more than no sectors has the sector.
Unallocated(s) ==
    \A k \in DOMAIN parts : ~ (s \in parts[k].start .. parts[k].end /\ parts[k].count > 0)

\* The gaps are exactly the sectors that no partition has, as far as the loop has
\* come, however the partitions lie: nested, overlapping, starting together, out of
\* bounds or empty. Both loops get this right only with the running maximum. (For
\* the egress scan a medium without partitions is one gap, an empty GPT included.)
GapsAreExact ==
    parts # <<>> /\ step \notin {"wait", "ranges", "carve"} /\ (step = "done" => command = "egress") =>
      \A s \in Sectors :
        (\E g \in gaps : s \in g.from .. g.to)
          <=> s \in StartThreshold .. EndThreshold /\ s < pos /\ Unallocated(s)

\* No partition that is listed, empty or not, starts or lies at the sector.
Unlisted(s) == \A k \in DOMAIN parts : s \notin parts[k].start .. parts[k].end

\* Whatever file lies where no partition is listed is carved: the ranges between
\* neighbours leave nothing out, and neither do the chunks. The exceptions are a
\* policy without carving, the reserved sectors at the start, a medium that is one
\* volume, what was taken for a part of another file, a header that goes on in the
\* next chunk, and the limit, which a file in ranges that overlap uses up again and again.
CarvedIsReported ==
    step = "done" /\ command = "scan" /\ carves /\ Len(carved) < MaxCarved =>
      \A s \in Signatures :
        /\ Unlisted(s) /\ (parts # <<>> => s >= Prefix)
        /\ ~ (parts = <<>> /\ content[0].kind = "boot")
        => \/ s \in cut
           \/ \E k \in DOMAIN carved :
                carved[k].at = s \/ (carved[k].at < s /\ s < carved[k].at + carved[k].size)

\* The longest stretch of unallocated sectors around one is short.
InSmallGap(s) ==
    \E from, to \in StartThreshold .. EndThreshold :
      /\ s \in from .. to /\ (to - from) + 1 <= SampleWhole
      /\ \A t \in from .. to : Unallocated(t)
      /\ from > StartThreshold => ~Unallocated(from - 1)
      /\ to < EndThreshold => ~Unallocated(to + 1)

\* The partition scan has a finding wherever a stretch of at most SampleWhole
\* unallocated sectors holds data: for one of its sectors, not behind that one.
SmallGapsAreSearched ==
    step = "ranges" =>
      \A s \in Sectors :
        parts # <<>> /\ InSmallGap(s) /\ content[s].kind # "zero" =>
          \E t \in odd : t <= s /\ \A u \in t .. s : Unallocated(u)

\* An egress scan that verified the wipe and has no finding saw zeroes or random
\* data in unallocated space, up to the share that entropy does not tell.
WipeIsProved ==
    [][step = "wipe" /\ odd' = {} =>
         \A s \in Sectors :
           s \in StartThreshold .. EndThreshold /\ Unallocated(s) /\ content[s].kind \notin {"zero", "random"} =>
             \E from, to \in Sectors :
               /\ s \in from .. to /\ to - from < WipeChunk /\ LooksRandom(from .. to)
               /\ \A t \in from .. to : Unallocated(t)]_vars

\* Every stage comes to an end, however the partitions and the files lie.
ScanEnds == <>(step = "done")
=============================================================================
