------------------------------ MODULE AuditLog ------------------------------
(***************************************************************************)
(* The hash-chained audit log of src/audit/mod.rs.  Every process appends  *)
(* one entry to the same file: open, flock, read and check all lines, seek *)
(* to the end, write the text, write the newline (writeln! makes two write *)
(* calls), unlock.  The file is not opened with O_APPEND: each write goes  *)
(* to the offset the process last sought or wrote to.                      *)
(*                                                                         *)
(* The file is a sequence of cells.  Cell <<p, k>> with k > 0 is the k-th  *)
(* piece of the text of p's entry, and <<p, 0>> is the newline p wrote.    *)
(* An entry is identified with the process that appends it, and its hash   *)
(* with the entry (BLAKE3 is taken as injective).  The read of the file is *)
(* one step.                                                               *)
(***************************************************************************)
EXTENDS Naturals, Sequences, FiniteSets

CONSTANTS
    Procs,      \* the processes that append
    Genesis,    \* GENESIS_HASH
    Sandboxed,  \* those that run under the seccomp filter, which refuses flock
    MaxText     \* the longest text of an entry, in cells

ASSUME ProcsAssumption ==
    /\ IsFiniteSet(Procs)
    /\ Genesis \notin Procs
    /\ Sandboxed \subseteq Procs
ASSUME TextAssumption == MaxText \in Nat \ {0}

VARIABLES
    file,    \* the cells of audit.jsonl
    lock,    \* who holds the flock (Genesis: nobody)
    pc,      \* where each process is in append_audit_entry
    index,   \* the index field of each process's entry
    prev,    \* the prev_entry_hash field of each process's entry
    size,    \* the length of the text of each process's entry
    offset,  \* the file offset of each process's descriptor
    raced    \* history: a process that may not lock has worked on the file beside another

vars == <<file, lock, pc, index, prev, size, offset, raced>>

Nobody == Genesis

Cell == Procs \X (0..MaxText)

Text(p)    == [k \in 1..size[p] |-> <<p, k>>]
Newline(p) == << <<p, 0>> >>

-----------------------------------------------------------------------------
(***************************************************************************)
(* Reading the file by lines; blank lines are skipped.                     *)
(***************************************************************************)

IsNewline(i) == file[i][2] = 0

\* The positions at which a line that is not blank starts.
LineStarts ==
    {i \in 1..Len(file) : ~IsNewline(i) /\ (i = 1 \/ IsNewline(i - 1))}

\* The last position of the line that starts at i; the file may end within it.
LineEnd(i) ==
    CHOOSE j \in i..Len(file) :
        /\ \A k \in i..j : ~IsNewline(k)
        /\ j = Len(file) \/ IsNewline(j + 1)

Line(i) == SubSeq(file, i, LineEnd(i))

\* serde_json parses the line, and the entry's own hash is right.
IsEntry(i) == \E p \in Procs : Line(i) = Text(p)

EntryAt(i) == CHOOSE p \in Procs : Line(i) = Text(p)

LinesBefore(i) == {j \in LineStarts : j < i}

LastOf(starts) == CHOOSE i \in starts : \A j \in starts : j <= i

\* The hash of the last entry among those lines.
HashOf(starts) == IF starts = {} THEN Genesis ELSE EntryAt(LastOf(starts))

\* verify_audit_chain returns Ok(true).
ChainVerifies ==
    \A i \in LineStarts :
        /\ IsEntry(i)
        /\ index[EntryAt(i)] = Cardinality(LinesBefore(i))
        /\ prev[EntryAt(i)] = HashOf(LinesBefore(i))

\* The file after cells are written at an offset not beyond its end.
Overwritten(at, cells) ==
    [i \in 1..(IF at + Len(cells) > Len(file) THEN at + Len(cells) ELSE Len(file)) |->
        IF i > at /\ i <= at + Len(cells) THEN cells[i - at] ELSE file[i]]

-----------------------------------------------------------------------------

Init ==
    /\ file = <<>>
    /\ lock = Nobody
    /\ pc = [p \in Procs |-> "open"]
    /\ index = [p \in Procs |-> 0]
    /\ prev = [p \in Procs |-> Genesis]
    /\ size \in [Procs -> 1..MaxText]
    /\ offset = [p \in Procs |-> 0]
    /\ raced = FALSE

Goto(p, next) == pc' = [pc EXCEPT ![p] = next]

\* Closing the descriptor, by a return or by a crash, drops the lock.
Release(p) == lock' = IF lock = p THEN Nobody ELSE lock

\* Create the directory, open or create the file.
Open(p) ==
    /\ pc[p] = "open"
    /\ Goto(p, "lock") \/ Goto(p, "failed")
    /\ UNCHANGED <<file, lock, index, prev, size, offset, raced>>

\* Between the flock and the end of its writes.
Holding == {"read", "seek", "text", "newline", "unlock"}

\* p comes to the file while another works on it, and one of the two does without the
\* lock because the filter refuses it.
Races(p) ==
    \E q \in Procs \ {p} : pc[q] \in Holding /\ (p \in Sandboxed \/ q \in Sandboxed)

\* Mutant: no lock is taken.
LockNothing(p) ==
    /\ pc[p] = "lock"
    /\ raced' = (raced \/ Races(p))
    /\ Goto(p, "read")
    /\ UNCHANGED <<file, lock, index, prev, size, offset>>

\* flock(LOCK_EX) waits; its result is not looked at, so a process that may not
\* make the call goes on without the lock.
Lock(p) ==
    /\ pc[p] = "lock"
    /\ IF p \in Sandboxed THEN UNCHANGED lock ELSE lock = Nobody /\ lock' = p
    /\ raced' = (raced \/ Races(p))
    /\ Goto(p, "read")
    /\ UNCHANGED <<file, index, prev, size, offset>>

\* Mutant: the entry is chained to the first entry.
ReadFirst(p) ==
    /\ pc[p] = "read"
    /\ index' = [index EXCEPT ![p] = Cardinality(LineStarts)]
    /\ prev' = [prev EXCEPT ![p] = IF file = <<>> THEN Genesis ELSE file[1][1]]
    /\ Goto(p, "seek")
    /\ UNCHANGED <<file, lock, size, offset, raced>>

\* A line that is no entry is an error; the new entry follows the last one.
Read(p) ==
    /\ pc[p] = "read"
    /\ \/ /\ \A i \in LineStarts : IsEntry(i)
          /\ prev' = [prev EXCEPT ![p] = HashOf(LineStarts)]
          /\ index' = [index EXCEPT ![p] =
                          IF LineStarts = {} THEN 0
                          ELSE index[EntryAt(LastOf(LineStarts))] + 1]
          /\ Goto(p, "seek")
          /\ UNCHANGED lock
       \/ /\ \E i \in LineStarts : ~IsEntry(i)
          /\ Goto(p, "failed")
          /\ Release(p)
          /\ UNCHANGED <<index, prev>>
    /\ UNCHANGED <<file, size, offset, raced>>

\* Mutant: the entry is written where the file ended when it was opened.
SeekNowhere(p) ==
    /\ pc[p] = "seek"
    /\ Goto(p, "text")
    /\ UNCHANGED <<file, lock, index, prev, size, offset, raced>>

SeekEnd(p) ==
    /\ pc[p] = "seek"
    /\ offset' = [offset EXCEPT ![p] = Len(file)]
    /\ Goto(p, "text")
    /\ UNCHANGED <<file, lock, index, prev, size, raced>>

\* The first write of writeln!: the serialized entry.
WriteText(p) ==
    /\ pc[p] = "text"
    /\ file' = Overwritten(offset[p], Text(p))
    /\ offset' = [offset EXCEPT ![p] = @ + size[p]]
    /\ Goto(p, "newline")
    /\ UNCHANGED <<lock, index, prev, size, raced>>

\* The disk is full, or the process dies: only part of the text is written.
WriteTextFails(p) ==
    /\ pc[p] = "text"
    /\ \E n \in 0..(size[p] - 1) : file' = Overwritten(offset[p], SubSeq(Text(p), 1, n))
    /\ Goto(p, "torn")
    /\ Release(p)
    /\ UNCHANGED <<index, prev, size, offset, raced>>

\* The second write of writeln!.
WriteNewline(p) ==
    /\ pc[p] = "newline"
    /\ file' = Overwritten(offset[p], Newline(p))
    /\ offset' = [offset EXCEPT ![p] = @ + 1]
    /\ Goto(p, "unlock")
    /\ UNCHANGED <<lock, index, prev, size, raced>>

\* Mutant: the lock is kept after the entry was written.
UnlockForgotten(p) ==
    /\ pc[p] = "unlock"
    /\ Goto(p, "acked")
    /\ UNCHANGED <<file, lock, index, prev, size, offset, raced>>

\* Mutant: an unlock that fails is returned as the error of an append that was made.
UnlockOrFail(p) ==
    /\ pc[p] = "unlock"
    /\ Goto(p, "acked") \/ Goto(p, "failed")
    /\ Release(p)
    /\ UNCHANGED <<file, index, prev, size, offset, raced>>

\* Unlock and return Ok(entry).
Unlock(p) ==
    /\ pc[p] = "unlock"
    /\ Goto(p, "acked")
    /\ Release(p)
    /\ UNCHANGED <<file, index, prev, size, offset, raced>>

Ended(p) == pc[p] \in {"acked", "failed", "crashed", "torn"}

\* The process dies: before its first write or after its last, or between the two.
Crash(p) ==
    /\ ~Ended(p)
    /\ Goto(p, IF pc[p] = "newline" THEN "torn" ELSE "crashed")
    /\ Release(p)
    /\ UNCHANGED <<file, index, prev, size, offset, raced>>

Step(p) ==
    \/ Open(p) \/ Lock(p) \/ Read(p) \/ SeekEnd(p) \/ WriteText(p)
    \/ WriteTextFails(p) \/ WriteNewline(p) \/ Unlock(p)

Finished == (\A p \in Procs : Ended(p)) /\ UNCHANGED vars

Next == (\E p \in Procs : Step(p) \/ Crash(p)) \/ Finished

Fairness == \A p \in Procs : WF_vars(Step(p))

Spec == Init /\ [][Next]_vars

FairSpec == Spec /\ Fairness

-----------------------------------------------------------------------------
(***************************************************************************)
(* Correctness.                                                            *)
(***************************************************************************)

TypeOK ==
    /\ file \in Seq(Cell)
    /\ lock \in Procs \cup {Nobody}
    /\ pc \in [Procs -> {"open", "lock", "read", "seek", "text", "newline",
                         "unlock", "acked", "failed", "crashed", "torn"}]
    /\ index \in [Procs -> Nat]
    /\ prev \in [Procs -> Procs \cup {Genesis}]
    /\ size \in [Procs -> 1..MaxText]
    /\ offset \in [Procs -> Nat]
    /\ raced \in BOOLEAN

\* No append ever overwrites what is in the file: with the lock held from the
\* read to the last write, the offset sought is still the end of the file.  This
\* ends when a process the filter keeps from the lock (every scan) works on the
\* file at the same time as another; one that is alone there does no harm.
OnlyGrows == Len(file') >= Len(file) /\ \A i \in 1..Len(file) : file'[i] = file[i]

AppendOnly == [][raced \/ OnlyGrows]_vars

\* A process was stopped within its writes: half a line is left, which the next
\* append refuses, or a line without its end, to which the next append adds.
Torn == \E p \in Procs : pc[p] = "torn"

\* From then on nothing can be said of what the file holds.
Damaged == Torn \/ raced

\* At every moment, also between the two writes, verify_audit_chain accepts the
\* file: all lines parse, the indexes count up and every entry is chained to
\* the one before it, until a process is stopped within its writes or one without
\* the lock works on the file beside another.
ChainAlwaysVerifies == ~Damaged => ChainVerifies

\* An entry whose append returned Ok can be read from the file ever after, until
\* a process is stopped within its writes or one without the lock works on the file
\* beside another.
AckedIsReadable ==
    ~Damaged => \A p \in Procs : pc[p] = "acked" => \E i \in LineStarts : Line(i) = Text(p)

\* What a verification reads: the entries of the lines, one after the other.
NthLine(n) == CHOOSE i \in LineStarts : Cardinality(LinesBefore(i)) = n - 1
EntryOf(i) == [by |-> EntryAt(i), index |-> index[EntryAt(i)], prev |-> prev[EntryAt(i)]]
Entries == [n \in 1..Cardinality(LineStarts) |-> EntryOf(NthLine(n))]

\* What append_audit_entry returned to each process.
Answers ==
    [p \in Procs |-> CASE pc[p] = "acked" -> "ok" [] pc[p] = "failed" -> "err" [] OTHER -> "none"]

\* The processes share a log in which every append is one step: an entry comes to its
\* end, chained to the one before it, no entry leaves it, who got Ok has an entry and
\* who got an error has none, until a process is stopped within its writes or one
\* without the lock works on the file beside another.
Atomic == INSTANCE AtomicLog WITH
              entries <- IF Damaged THEN <<>> ELSE Entries, answer <- Answers, damaged <- Damaged

ImplementsAtomicLog == Atomic!Spec

\* Every append ends: a process that dies with the lock does not keep it.
AppendsEnd == \A p \in Procs : <>Ended(p)

=============================================================================
