--------------------------- MODULE AuditLogProofs ---------------------------
(***************************************************************************)
(* Proofs about the audit log, for every set of processes and every length *)
(* of the entries.                                                         *)
(***************************************************************************)
EXTENDS AuditLog, SequenceTheorems, FiniteSetTheorems, WellFoundedInduction, TLAPS

-----------------------------------------------------------------------------
(***************************************************************************)
(* Lemmas about the cells and the writes.                                  *)
(***************************************************************************)

\* A non-empty set of positions has a last one.
LEMMA LastPosition ==
    ASSUME NEW n \in Nat, NEW S, S \subseteq 1..n, S # {}
    PROVE  \E m \in S : \A j \in S : j <= m
<1>. DEFINE Less == OpToRel(<, Nat)
            T == {k \in Nat : \E i \in S : k + i = n}
<1>1. T \subseteq Nat /\ T # {}
  <2>1. PICK i \in S : TRUE
    OBVIOUS
  <2>2. n - i \in Nat /\ (n - i) + i = n
    BY <2>1
  <2>. QED BY <2>2
<1>2. IsWellFoundedOn(Less, Nat)
  BY NatLessThanWellFounded
<1>3. \A x, y \in Nat : <<x, y>> \in Less <=> x < y
  BY DEF OpToRel
<1>. HIDE DEF Less
<1>4. PICK x \in T : \A y \in T : ~(<<y, x>> \in Less)
  <2>. HIDE DEF T
  <2>. QED BY <1>1, <1>2, WFMin, Zenon
<1>5. PICK m \in S : x + m = n
  OBVIOUS
<1>6. ASSUME NEW j \in S PROVE j <= m
  <2>1. n - j \in Nat /\ (n - j) + j = n
    OBVIOUS
  <2>2. n - j \in T
    BY <2>1
  <2>3. ~(n - j < x)
    BY <1>3, <1>4, <2>1, <2>2
  <2>. QED BY <1>5, <2>1, <2>3
<1>. QED BY <1>6

\* The text of an entry is a non-empty sequence of cells, none a newline.
LEMMA TextIs ==
    ASSUME TypeOK, NEW p \in Procs
    PROVE  /\ Text(p) \in Seq(Cell)
           /\ Len(Text(p)) = size[p]
           /\ size[p] \in Nat \ {0}
           /\ \A k \in 1..size[p] : Text(p)[k] = <<p, k>>
<1>1. size[p] \in 1..MaxText /\ size[p] \in Nat \ {0}
  BY TextAssumption DEF TypeOK
<1>2. \A k \in 1..size[p] : <<p, k>> \in Cell
  BY <1>1, TextAssumption DEF Cell
<1>. QED BY <1>1, <1>2 DEF Text

\* A newline is one cell.
LEMMA NewlineIs ==
    ASSUME NEW p \in Procs
    PROVE  /\ Newline(p) \in Seq(Cell)
           /\ Len(Newline(p)) = 1
           /\ Newline(p)[1] = <<p, 0>>
<1>1. <<p, 0>> \in Cell
  BY TextAssumption DEF Cell
<1>. QED BY <1>1 DEF Newline

\* What write_all leaves in the file when it starts within the file or at its end.
LEMMA OverwrittenIs ==
    ASSUME TypeOK, NEW at \in 0..Len(file), NEW cells \in Seq(Cell)
    PROVE  /\ Overwritten(at, cells) \in Seq(Cell)
           /\ Len(Overwritten(at, cells)) >= Len(file)
           /\ Len(Overwritten(at, cells)) >= at + Len(cells)
           /\ at = Len(file) =>
                 /\ Len(Overwritten(at, cells)) = Len(file) + Len(cells)
                 /\ \A i \in 1..Len(file) : Overwritten(at, cells)[i] = file[i]
                 /\ \A i \in 1..Len(cells) :
                        Overwritten(at, cells)[Len(file) + i] = cells[i]
<1>. DEFINE n == IF at + Len(cells) > Len(file) THEN at + Len(cells) ELSE Len(file)
<1>1. /\ file \in Seq(Cell) /\ Len(file) \in Nat /\ Len(cells) \in Nat /\ at \in Nat
      /\ \A i \in 1..Len(file) : file[i] \in Cell
      /\ \A i \in 1..Len(cells) : cells[i] \in Cell
  BY DEF TypeOK
<1>2. n \in Nat /\ n >= Len(file) /\ n >= at + Len(cells)
  BY <1>1
<1>3. \A i \in 1..n : (IF i > at /\ i <= at + Len(cells) THEN cells[i - at] ELSE file[i]) \in Cell
  BY <1>1
<1>4. Overwritten(at, cells) =
        [i \in 1..n |-> IF i > at /\ i <= at + Len(cells) THEN cells[i - at] ELSE file[i]]
  BY DEF Overwritten
<1>5. Overwritten(at, cells) \in Seq(Cell) /\ Len(Overwritten(at, cells)) = n
  <2>. HIDE DEF n
  <2>1. Overwritten(at, cells) \in [1..n -> Cell]
    BY <1>3, <1>4
  <2>. QED BY <1>2, <2>1
<1>6. ASSUME at = Len(file)
      PROVE  /\ n = Len(file) + Len(cells)
             /\ \A i \in 1..Len(file) : Overwritten(at, cells)[i] = file[i]
             /\ \A i \in 1..Len(cells) : Overwritten(at, cells)[Len(file) + i] = cells[i]
  <2>1. n = Len(file) + Len(cells)
    BY <1>1, <1>6
  <2>. HIDE DEF n
  <2>. QED BY <1>1, <1>4, <1>6, <2>1
<1>. QED BY <1>2, <1>5, <1>6

\* A prefix of a text, as a full disk leaves it.
LEMMA TornTextIs ==
    ASSUME TypeOK, NEW p \in Procs, NEW n \in 0..(size[p] - 1)
    PROVE  SubSeq(Text(p), 1, n) \in Seq(Cell)
<1>1. n \in Int /\ n <= size[p] /\ Len(Text(p)) = size[p] /\ Text(p) \in Seq(Cell)
  BY TextIs
<1>2. \A i \in 1..n : Text(p)[i] \in Cell
  BY <1>1
<1>. QED BY <1>1, <1>2, SubSeqProperties

-----------------------------------------------------------------------------
(***************************************************************************)
(* Type correctness.                                                       *)
(***************************************************************************)

Writing == {"text", "newline"}

\* Nobody writes beyond the end of the file: the file never shrinks.
WithinFile == \A p \in Procs : pc[p] \in Writing => offset[p] <= Len(file)

\* A write keeps the types and the file's length, wherever it goes.
LEMMA WriteKeeps ==
    ASSUME TypeOK, WithinFile, NEW p \in Procs, pc[p] \in Writing, NEW cells \in Seq(Cell),
           file' = Overwritten(offset[p], cells)
    PROVE  /\ file' \in Seq(Cell)
           /\ Len(file') >= Len(file)
           /\ Len(file') >= offset[p] + Len(cells)
<1>1. offset[p] \in 0..Len(file)
  BY DEF TypeOK, WithinFile
<1>. QED BY <1>1, OverwrittenIs

\* Initially the types are right.
LEMMA TypeInit == Init => TypeOK /\ WithinFile
<1>. SUFFICES ASSUME Init PROVE TypeOK /\ WithinFile
  OBVIOUS
<1>1. file \in Seq(Cell)
  BY EmptySeq DEF Init
<1>. QED BY <1>1 DEF Init, TypeOK, WithinFile, Writing, Nobody

\* What append_audit_entry takes from the lines it has read, once all parse.
LEMMA ReadIs ==
    ASSUME TypeOK, \A i \in LineStarts : IsEntry(i)
    PROVE  /\ LineStarts # {} => /\ LastOf(LineStarts) \in LineStarts
                                 /\ \A j \in LineStarts : j <= LastOf(LineStarts)
           /\ \A i \in LineStarts : EntryAt(i) \in Procs /\ Line(i) = Text(EntryAt(i))
           /\ HashOf(LineStarts) \in Procs \cup {Genesis}
<1>1. LineStarts \subseteq 1..Len(file) /\ Len(file) \in Nat
  BY DEF LineStarts, TypeOK
<1>2. ASSUME LineStarts # {}
      PROVE  /\ LastOf(LineStarts) \in LineStarts
             /\ \A j \in LineStarts : j <= LastOf(LineStarts)
  <2>1. \E m \in LineStarts : \A j \in LineStarts : j <= m
    BY <1>1, <1>2, LastPosition
  <2>. QED BY <2>1 DEF LastOf
<1>3. \A i \in LineStarts : EntryAt(i) \in Procs /\ Line(i) = Text(EntryAt(i))
  BY DEF IsEntry, EntryAt
<1>. QED BY <1>2, <1>3 DEF HashOf

\* Every step keeps the types, and the writers within the file.
LEMMA TypeStep == TypeOK /\ WithinFile /\ [Next]_vars => TypeOK' /\ WithinFile'
<1>. SUFFICES ASSUME TypeOK, WithinFile, [Next]_vars PROVE TypeOK' /\ WithinFile'
  OBVIOUS
<1>1. ASSUME NEW p \in Procs, Open(p) PROVE TypeOK' /\ WithinFile'
  BY <1>1 DEF TypeOK, WithinFile, Open, Goto, Writing
<1>2. ASSUME NEW p \in Procs, Lock(p) PROVE TypeOK' /\ WithinFile'
  BY <1>2 DEF TypeOK, WithinFile, Lock, Goto, Writing
<1>3. ASSUME NEW p \in Procs, Read(p) PROVE TypeOK' /\ WithinFile'
  <2>1. prev' \in [Procs -> Procs \cup {Genesis}] /\ index' \in [Procs -> Nat]
    <3>1. CASE UNCHANGED <<index, prev>>
      BY <3>1 DEF TypeOK
    <3>2. CASE ~UNCHANGED <<index, prev>>
      <4>1. /\ \A i \in LineStarts : IsEntry(i)
            /\ prev' = [prev EXCEPT ![p] = HashOf(LineStarts)]
            /\ index' = [index EXCEPT ![p] = IF LineStarts = {} THEN 0
                                            ELSE index[EntryAt(LastOf(LineStarts))] + 1]
        BY <1>3, <3>2 DEF Read
      <4>2. HashOf(LineStarts) \in Procs \cup {Genesis}
        BY <4>1, ReadIs
      <4>3. LineStarts # {} => EntryAt(LastOf(LineStarts)) \in Procs
        BY <4>1, ReadIs
      <4>. QED BY <4>1, <4>2, <4>3 DEF TypeOK
    <3>. QED BY <3>1, <3>2
  <2>2. /\ lock' \in Procs \cup {Nobody} /\ UNCHANGED <<file, size, offset, raced>>
        /\ pc' = [pc EXCEPT ![p] = "seek"] \/ pc' = [pc EXCEPT ![p] = "failed"]
    BY <1>3 DEF TypeOK, Read, Goto, Release
  <2>. QED BY <2>1, <2>2 DEF TypeOK, WithinFile, Writing
<1>4. ASSUME NEW p \in Procs, SeekEnd(p) PROVE TypeOK' /\ WithinFile'
  <2>1. Len(file) \in Nat
    BY DEF TypeOK
  <2>. QED BY <1>4, <2>1 DEF TypeOK, WithinFile, SeekEnd, Goto, Writing
<1>5. ASSUME NEW p \in Procs, WriteText(p) PROVE TypeOK' /\ WithinFile'
  <2>1. /\ file' \in Seq(Cell) /\ Len(file') >= Len(file)
        /\ Len(file') >= offset[p] + size[p]
    BY <1>5, TextIs, WriteKeeps DEF WriteText, Writing
  <2>2. offset' = [offset EXCEPT ![p] = @ + size[p]] /\ size[p] \in Nat
    BY <1>5, TextIs DEF WriteText
  <2>3. offset' \in [Procs -> Nat]
    BY <2>2 DEF TypeOK
  <2>4. TypeOK'
    BY <1>5, <2>1, <2>3 DEF TypeOK, WriteText, Goto
  <2>5. Len(file) \in Nat /\ Len(file') \in Nat
    BY <2>1 DEF TypeOK
  <2>. QED BY <1>5, <2>1, <2>2, <2>4, <2>5 DEF TypeOK, WithinFile, WriteText, Goto, Writing
<1>6. ASSUME NEW p \in Procs, WriteTextFails(p) PROVE TypeOK' /\ WithinFile'
  <2>1. PICK n \in 0..(size[p] - 1) : file' = Overwritten(offset[p], SubSeq(Text(p), 1, n))
    BY <1>6 DEF WriteTextFails
  <2>2. file' \in Seq(Cell) /\ Len(file') >= Len(file)
    BY <1>6, <2>1, TornTextIs, WriteKeeps DEF WriteTextFails, Writing
  <2>3. TypeOK'
    BY <1>6, <2>2 DEF TypeOK, WriteTextFails, Goto, Release
  <2>4. Len(file) \in Nat /\ Len(file') \in Nat
    BY <2>2 DEF TypeOK
  <2>5. UNCHANGED offset /\ \A q \in Procs : pc'[q] \in Writing => pc[q] \in Writing
    BY <1>6 DEF TypeOK, WriteTextFails, Goto, Writing
  <2>6. WithinFile'
    BY <2>2, <2>4, <2>5 DEF TypeOK, WithinFile
  <2>. QED BY <2>3, <2>6
<1>7. ASSUME NEW p \in Procs, WriteNewline(p) PROVE TypeOK' /\ WithinFile'
  <2>1. file' \in Seq(Cell) /\ Len(file') >= Len(file)
    BY <1>7, NewlineIs, WriteKeeps DEF WriteNewline, Writing
  <2>2. TypeOK'
    BY <1>7, <2>1 DEF TypeOK, WriteNewline, Goto
  <2>3. Len(file) \in Nat /\ Len(file') \in Nat
    BY <2>1 DEF TypeOK
  <2>. QED BY <1>7, <2>1, <2>2, <2>3 DEF TypeOK, WithinFile, WriteNewline, Goto, Writing
<1>8. ASSUME NEW p \in Procs, Unlock(p) PROVE TypeOK' /\ WithinFile'
  BY <1>8 DEF TypeOK, WithinFile, Unlock, Goto, Release, Writing
<1>9. ASSUME NEW p \in Procs, Crash(p) PROVE TypeOK' /\ WithinFile'
  BY <1>9 DEF TypeOK, WithinFile, Crash, Goto, Release, Writing
<1>10. CASE Finished \/ UNCHANGED vars
  BY <1>10 DEF TypeOK, WithinFile, Finished, vars
<1>. QED BY <1>1, <1>2, <1>3, <1>4, <1>5, <1>6, <1>7, <1>8, <1>9, <1>10 DEF Next, Step

\* The types and the bound on the offsets, locked or not.
LEMMA Typing == Spec => [](TypeOK /\ WithinFile)
BY TypeInit, TypeStep, PTL DEF Spec

\* The variables keep their types, whichever processes run without the lock.
THEOREM TypeCorrect == Spec => []TypeOK
BY Typing, PTL

-----------------------------------------------------------------------------
(***************************************************************************)
(* The lock, until a process that may not take it comes to the file while  *)
(* another works on it.                                                    *)
(***************************************************************************)

\* One process at a time is between the flock and its release; it holds the lock if
\* it may, and where it writes is the end of the file.
Locked ==
    \A p \in Procs :
        /\ pc[p] \in Holding /\ p \notin Sandboxed => lock = p
        /\ \A q \in Procs : pc[p] \in Holding /\ pc[q] \in Holding => p = q
        /\ pc[p] \in Writing => offset[p] = Len(file)

\* Initially nobody is there.
LEMMA LockedInit == Init => Locked
BY DEF Init, Locked, Holding, Writing

\* The lock has one holder.
LEMMA OneHolder ==
    ASSUME Locked, NEW p \in Procs, NEW q \in Procs, pc[p] \in Holding, pc[q] \in Holding
    PROVE  p = q
BY DEF Locked

\* What the holder writes goes to the end of the file.
LEMMA WriteAppends ==
    ASSUME TypeOK, Locked, NEW p \in Procs, pc[p] \in Writing, NEW cells \in Seq(Cell),
           file' = Overwritten(offset[p], cells)
    PROVE  /\ file' \in Seq(Cell)
           /\ Len(file) \in Nat /\ Len(file') = Len(file) + Len(cells)
           /\ \A i \in 1..Len(file) : file'[i] = file[i]
           /\ \A i \in 1..Len(cells) : file'[Len(file) + i] = cells[i]
<1>1. offset[p] = Len(file) /\ Len(file) \in Nat
  BY DEF TypeOK, Locked
<1>2. Len(file) \in 0..Len(file) /\ file' = Overwritten(Len(file), cells)
  BY <1>1
<1>. HIDE DEF Locked
<1>. QED BY <1>1, <1>2, OverwrittenIs

\* Whoever has raced has raced.
LEMMA RacedStays == TypeOK /\ [Next]_vars /\ raced => raced'
BY DEF TypeOK, Next, Step, Open, Lock, Read, SeekEnd, WriteText, WriteTextFails, WriteNewline,
       Unlock, Crash, Finished, vars

\* Every step keeps the file with the one process that works on it, unless it races.
LEMMA LockedStep == TypeOK /\ Locked /\ [Next]_vars => raced' \/ Locked'
<1>. SUFFICES ASSUME TypeOK, Locked, [Next]_vars, ~raced' PROVE Locked'
  OBVIOUS
<1>. USE DEF Goto, Holding, Writing
<1>1. ASSUME NEW p \in Procs, Open(p) PROVE Locked'
  BY <1>1 DEF TypeOK, Locked, Open
<1>2. ASSUME NEW p \in Procs, Lock(p) PROVE Locked'
  <2>1. /\ p \notin Sandboxed => lock = Nobody /\ lock' = p
        /\ p \in Sandboxed => lock' = lock
    BY <1>2 DEF Lock
  <2>2. \A q \in Procs : pc[q] \in Holding => p \notin Sandboxed /\ q \notin Sandboxed
    BY <1>2 DEF Lock, Races
  <2>3. \A q \in Procs : pc[q] \notin Holding
    BY <2>1, <2>2, ProcsAssumption DEF Locked, Nobody
  <2>. QED BY <1>2, <2>1, <2>3 DEF TypeOK, Locked, Lock
<1>3. ASSUME NEW p \in Procs, Read(p) PROVE Locked'
  <2>1. \A q \in Procs : pc[q] \in Holding => q = p
    BY <1>3, OneHolder DEF Read
  <2>. QED BY <1>3, <2>1 DEF TypeOK, Locked, Read, Release
<1>4. ASSUME NEW p \in Procs, SeekEnd(p) PROVE Locked'
  BY <1>4 DEF TypeOK, Locked, SeekEnd
<1>5. ASSUME NEW p \in Procs, WriteText(p) PROVE Locked'
  <2>1. \A q \in Procs : pc[q] \in Holding => q = p
    BY <1>5, OneHolder DEF WriteText
  <2>2. offset[p] = Len(file) /\ Len(file') = Len(file) + size[p]
    BY <1>5, TextIs, WriteAppends DEF WriteText, Locked
  <2>. QED BY <1>5, <2>1, <2>2 DEF TypeOK, Locked, WriteText
<1>6. ASSUME NEW p \in Procs, WriteTextFails(p) PROVE Locked'
  <2>1. \A q \in Procs : pc[q] \in Holding => q = p
    BY <1>6, OneHolder DEF WriteTextFails
  <2>. QED BY <1>6, <2>1 DEF TypeOK, Locked, WriteTextFails
<1>7. ASSUME NEW p \in Procs, WriteNewline(p) PROVE Locked'
  <2>1. \A q \in Procs : pc[q] \in Holding => q = p
    BY <1>7, OneHolder DEF WriteNewline
  <2>. QED BY <1>7, <2>1 DEF TypeOK, Locked, WriteNewline
<1>8. ASSUME NEW p \in Procs, Unlock(p) PROVE Locked'
  <2>1. \A q \in Procs : pc[q] \in Holding => q = p
    BY <1>8, OneHolder DEF Unlock
  <2>. QED BY <1>8, <2>1 DEF TypeOK, Locked, Unlock
<1>9. ASSUME NEW p \in Procs, Crash(p) PROVE Locked'
  BY <1>9 DEF TypeOK, Locked, Crash, Release
<1>10. CASE Finished \/ UNCHANGED vars
  BY <1>10 DEF Locked, Finished, vars
<1>. QED BY <1>1, <1>2, <1>3, <1>4, <1>5, <1>6, <1>7, <1>8, <1>9, <1>10 DEF Next, Step

\* With the lock, every step leaves what is in the file as it is.
LEMMA StepGrows == TypeOK /\ Locked /\ [Next]_vars => [OnlyGrows]_vars
<1>. SUFFICES ASSUME TypeOK, Locked, Next PROVE OnlyGrows
  OBVIOUS
<1>1. Len(file) \in Nat
  BY DEF TypeOK
<1>2. ASSUME NEW p \in Procs, NEW cells \in Seq(Cell), pc[p] \in Writing,
             file' = Overwritten(offset[p], cells)
      PROVE  OnlyGrows
  <2>1. /\ Len(file') = Len(file) + Len(cells) /\ Len(cells) \in Nat
        /\ \A i \in 1..Len(file) : file'[i] = file[i]
    BY <1>2, WriteAppends
  <2>. QED BY <1>1, <2>1 DEF OnlyGrows
<1>3. ASSUME NEW p \in Procs, WriteText(p) PROVE OnlyGrows
  BY <1>2, <1>3, TextIs DEF WriteText, Writing
<1>4. ASSUME NEW p \in Procs, WriteTextFails(p) PROVE OnlyGrows
  BY <1>2, <1>4, TornTextIs DEF WriteTextFails, Writing
<1>5. ASSUME NEW p \in Procs, WriteNewline(p) PROVE OnlyGrows
  BY <1>2, <1>5, NewlineIs DEF WriteNewline, Writing
<1>6. UNCHANGED file => OnlyGrows
  BY <1>1 DEF OnlyGrows
<1>. QED BY <1>3, <1>4, <1>5, <1>6
         DEF Next, Step, Open, Lock, Read, SeekEnd, Unlock, Crash, Finished, vars

\* The lock has one holder at a time, throughout.
LEMMA Locking == Spec => [](raced \/ Locked)
<1>1. TypeOK /\ (raced \/ Locked) /\ [Next]_vars => raced' \/ Locked'
  BY LockedStep, RacedStays
<1>. QED BY <1>1, LockedInit, TypeCorrect, PTL DEF Spec

\* No append overwrites what is in the file, torn writes and crashes included, until a
\* process that may not lock works on the file beside another.
THEOREM AppendsOnly == Spec => AppendOnly
<1>1. TypeOK /\ (raced \/ Locked) /\ [Next]_vars => [raced \/ OnlyGrows]_vars
  BY StepGrows
<1>. QED BY <1>1, Locking, TypeCorrect, PTL DEF Spec, AppendOnly

-----------------------------------------------------------------------------
(***************************************************************************)
(* The chain, until the log is damaged.                                    *)
(***************************************************************************)

Author(i) == file[i][1]

\* What an entry that follows these lines must be chained to.
Preceding(starts) == IF starts = {} THEN Genesis ELSE Author(LastOf(starts))

\* Every line is the whole text of an entry that follows the line before it, by
\* a process that will not change the entry any more.
GoodLine(i) ==
    /\ Author(i) \in Procs
    /\ pc[Author(i)] \in {"newline", "unlock", "acked", "crashed"}
    /\ i + size[Author(i)] <= Len(file) + 1
    /\ \A k \in 1..size[Author(i)] : file[i + k - 1] = <<Author(i), k>>
    /\ i + size[Author(i)] <= Len(file) => IsNewline(i + size[Author(i)])
    /\ index[Author(i)] = Cardinality(LinesBefore(i))
    /\ prev[Author(i)] = Preceding(LinesBefore(i))

\* Between appends the file ends with a newline.
Closed ==
    (\A p \in Procs : pc[p] # "newline") => file = <<>> \/ IsNewline(Len(file))

\* The entry that is about to be written follows the last line.
Fresh ==
    \A p \in Procs :
        pc[p] \in {"seek", "text"} => /\ index[p] = Cardinality(LineStarts)
                                      /\ prev[p] = Preceding(LineStarts)

\* What was written is there.
Present ==
    \A p \in Procs :
        pc[p] \in {"newline", "unlock", "acked"} =>
            \E i \in LineStarts : Author(i) = p

Chained ==
    /\ \A i \in LineStarts : GoodLine(i)
    /\ Closed
    /\ Fresh
    /\ Present

\* Some arithmetic about the lines.
LEMMA StartsAre ==
    ASSUME TypeOK
    PROVE  /\ LineStarts \subseteq 1..Len(file) /\ Len(file) \in Nat
           /\ IsFiniteSet(LineStarts)
           /\ \A i \in LineStarts : /\ LinesBefore(i) \subseteq LineStarts
                                    /\ IsFiniteSet(LinesBefore(i))
<1>1. LineStarts \subseteq 1..Len(file) /\ Len(file) \in Nat
  BY DEF LineStarts, TypeOK
<1>2. IsFiniteSet(1..Len(file))
  BY <1>1, FS_Interval
<1>3. \A S \in SUBSET (1..Len(file)) : IsFiniteSet(S)
  BY <1>2, FS_Subset
<1>4. \A i \in LineStarts : LinesBefore(i) \subseteq LineStarts
  BY DEF LinesBefore
<1>. QED BY <1>1, <1>3, <1>4

\* The last of a non-empty set of lines is one of them.
LEMMA LastIs ==
    ASSUME TypeOK, NEW S \in SUBSET LineStarts, S # {}
    PROVE  LastOf(S) \in S /\ \A j \in S : j <= LastOf(S)
<1>1. S \subseteq 1..Len(file) /\ Len(file) \in Nat
  BY StartsAre
<1>2. \E m \in S : \A j \in S : j <= m
  BY <1>1, LastPosition
<1>. QED BY <1>2 DEF LastOf

\* A good line is read back as the entry of its author.
LEMMA GoodLineIs ==
    ASSUME TypeOK, NEW i \in LineStarts, GoodLine(i)
    PROVE  /\ Line(i) = Text(Author(i))
           /\ IsEntry(i)
           /\ EntryAt(i) = Author(i)
<1>. DEFINE p == Author(i)
            e == i + size[p] - 1
<1>1. /\ i \in 1..Len(file) /\ Len(file) \in Nat /\ p \in Procs
      /\ size[p] \in Nat \ {0} /\ e \in i..Len(file) /\ e - i + 1 = size[p]
  BY StartsAre, TextIs DEF GoodLine
<1>2. \A k \in i..e : file[k] = <<p, k - i + 1>> /\ ~IsNewline(k)
  <2>. SUFFICES ASSUME NEW k \in i..e
                PROVE  file[k] = <<p, k - i + 1>> /\ ~IsNewline(k)
    OBVIOUS
  <2>1. k - i + 1 \in 1..size[p] /\ i + (k - i + 1) - 1 = k
    BY <1>1
  <2>2. file[k] = <<p, k - i + 1>>
    BY <2>1 DEF GoodLine
  <2>. QED BY <2>1, <2>2 DEF IsNewline
<1>3. e # Len(file) => IsNewline(e + 1)
  <2>1. i + size[p] = e + 1
    BY <1>1
  <2>. QED BY <1>1, <2>1 DEF GoodLine
<1>. HIDE DEF e
<1>4. LineEnd(i) = e
  <2>1. /\ \A k \in i..e : ~IsNewline(k)
        /\ e = Len(file) \/ IsNewline(e + 1)
    BY <1>2, <1>3
  <2>2. ASSUME NEW j \in i..Len(file), \A k \in i..j : ~IsNewline(k),
               j = Len(file) \/ IsNewline(j + 1)
        PROVE  j = e
    <3>1. ~(j < e)
      <4>1. j < e => j + 1 \in i..e /\ j # Len(file)
        BY <1>1
      <4>. QED BY <1>2, <2>2, <4>1
    <3>2. ~(e < j)
      <4>1. e < j => e + 1 \in i..j /\ e # Len(file)
        BY <1>1
      <4>. QED BY <1>3, <2>2, <4>1
    <3>. QED BY <1>1, <3>1, <3>2
  <2>. QED BY <1>1, <2>1, <2>2 DEF LineEnd
<1>5. Line(i) = Text(p)
  <2>1. file \in Seq(Cell)
    BY DEF TypeOK
  <2>2. /\ \A k \in i..e : file[k] \in Cell
        /\ i \in Int /\ e \in Int
    BY <1>1, <2>1
  <2>3. /\ SubSeq(file, i, e) \in Seq(Cell)
        /\ Len(SubSeq(file, i, e)) = size[p]
        /\ \A k \in 1..size[p] : SubSeq(file, i, e)[k] = file[i + k - 1]
    BY <1>1, <2>2, SubSeqProperties
  <2>4. /\ Text(p) \in Seq(Cell) /\ Len(Text(p)) = size[p]
        /\ \A k \in 1..size[p] : Text(p)[k] = <<p, k>>
    BY <1>1, TextIs
  <2>5. \A k \in 1..size[p] : SubSeq(file, i, e)[k] = Text(p)[k]
    BY <2>3, <2>4 DEF GoodLine
  <2>6. SubSeq(file, i, e) = Text(p)
    BY <2>3, <2>4, <2>5, SeqEqual
  <2>. QED BY <1>4, <2>6 DEF Line
<1>6. ASSUME NEW q \in Procs, Text(q) = Text(p) PROVE q = p
  <2>1. Text(q)[1] = <<q, 1>> /\ Text(p)[1] = <<p, 1>>
    BY <1>1, TextIs
  <2>. QED BY <1>6, <2>1
<1>. QED BY <1>1, <1>5, <1>6 DEF IsEntry, EntryAt

\* The invariant is more than what verify_audit_chain looks at.
LEMMA ChainedVerifies == TypeOK /\ Chained => ChainAlwaysVerifies /\ AckedIsReadable
<1>. SUFFICES ASSUME TypeOK, Chained PROVE ChainAlwaysVerifies /\ AckedIsReadable
  OBVIOUS
<1>1. \A i \in LineStarts : GoodLine(i) /\ IsEntry(i) /\ EntryAt(i) = Author(i)
                            /\ Line(i) = Text(Author(i))
  BY GoodLineIs DEF Chained
<1>2. ASSUME NEW i \in LineStarts PROVE HashOf(LinesBefore(i)) = Preceding(LinesBefore(i))
  <2>1. LinesBefore(i) # {} => LastOf(LinesBefore(i)) \in LineStarts
    BY LastIs, StartsAre
  <2>. QED BY <1>1, <2>1 DEF HashOf, Preceding
<1>3. ChainAlwaysVerifies
  BY <1>1, <1>2 DEF ChainAlwaysVerifies, ChainVerifies, GoodLine
<1>4. AckedIsReadable
  BY <1>1 DEF AckedIsReadable, Chained, Present
<1>. QED BY <1>3, <1>4

\* The log is empty at first.
LEMMA ChainedInit == Init => Chained
<1>. SUFFICES ASSUME Init PROVE Chained
  OBVIOUS
<1>1. LineStarts = {}
  BY DEF Init, LineStarts
<1>. QED BY <1>1 DEF Init, Chained, Closed, Fresh, Present

\* Steps that do not touch the file: what they must leave alone.
LEMMA QuietStep ==
    ASSUME TypeOK, Chained, NEW p \in Procs, NEW next, UNCHANGED <<file, size>>,
           pc' = [pc EXCEPT ![p] = next], pc[p] # "newline", next # "newline",
           \A q \in Procs :
               index'[q] # index[q] \/ prev'[q] # prev[q] =>
                   q = p /\ pc[p] \notin {"seek", "text", "unlock", "acked", "crashed"},
           pc[p] \in {"unlock", "acked", "crashed"} => next \in {"unlock", "acked", "crashed"},
           next \in {"unlock", "acked"} => pc[p] \in {"unlock", "acked"},
           next \in {"seek", "text"} => /\ index'[p] = Cardinality(LineStarts)
                                        /\ prev'[p] = Preceding(LineStarts)
    PROVE  Chained'
<1>1. /\ LineStarts' = LineStarts
      /\ \A i : LinesBefore(i)' = LinesBefore(i)
      /\ \A i : Author(i)' = Author(i)
      /\ \A i : IsNewline(i)' = IsNewline(i)
      /\ \A S : Preceding(S)' = Preceding(S)
  BY DEF LineStarts, LinesBefore, IsNewline, Author, Preceding
<1>2. \A i \in LineStarts : GoodLine(i)'
  <2>. SUFFICES ASSUME NEW i \in LineStarts PROVE GoodLine(i)'
    OBVIOUS
  <2>1. GoodLine(i) /\ Author(i) \in Procs
    BY DEF Chained, GoodLine
  <2>2. pc'[Author(i)] \in {"newline", "unlock", "acked", "crashed"}
    BY <2>1 DEF GoodLine, TypeOK
  <2>3. index'[Author(i)] = index[Author(i)] /\ prev'[Author(i)] = prev[Author(i)]
    BY <2>1 DEF GoodLine
  <2>. QED BY <1>1, <2>1, <2>2, <2>3 DEF GoodLine
<1>3. Closed'
  <2>1. (\A q \in Procs : pc'[q] # "newline") => \A q \in Procs : pc[q] # "newline"
    BY DEF TypeOK
  <2>2. IsNewline(Len(file))' = IsNewline(Len(file))
    BY DEF IsNewline
  <2>. QED BY <2>1, <2>2 DEF Chained, Closed
<1>4. Fresh'
  <2>. SUFFICES ASSUME NEW q \in Procs, pc'[q] \in {"seek", "text"}
                PROVE  index'[q] = Cardinality(LineStarts) /\ prev'[q] = Preceding(LineStarts)
    BY <1>1 DEF Fresh
  <2>1. CASE q = p
    BY <2>1 DEF TypeOK
  <2>2. CASE q # p
    BY <2>2 DEF TypeOK, Chained, Fresh
  <2>. QED BY <2>1, <2>2
<1>5. Present'
  <2>. SUFFICES ASSUME NEW q \in Procs, pc'[q] \in {"newline", "unlock", "acked"}
                PROVE  \E i \in LineStarts : Author(i) = q
    BY <1>1 DEF Present
  <2>1. pc[q] \in {"newline", "unlock", "acked"}
    BY DEF TypeOK
  <2>. QED BY <2>1 DEF Chained, Present
<1>. QED BY <1>1, <1>2, <1>3, <1>4, <1>5 DEF Chained

\* The new entry takes its index and its previous hash from the last line.
LEMMA ReadFollows ==
    ASSUME TypeOK, Chained
    PROVE  /\ HashOf(LineStarts) = Preceding(LineStarts)
           /\ (IF LineStarts = {} THEN 0 ELSE index[EntryAt(LastOf(LineStarts))] + 1)
                 = Cardinality(LineStarts)
<1>1. CASE LineStarts = {}
  BY <1>1, FS_EmptySet DEF HashOf, Preceding
<1>2. CASE LineStarts # {}
  <2>. DEFINE last == LastOf(LineStarts)
  <2>1. last \in LineStarts /\ \A j \in LineStarts : j <= last
    BY <1>2, LastIs
  <2>2. EntryAt(last) = Author(last) /\ index[Author(last)] = Cardinality(LinesBefore(last))
    BY <2>1, GoodLineIs DEF Chained, GoodLine
  <2>3. LineStarts = LinesBefore(last) \cup {last} /\ last \notin LinesBefore(last)
    <3>1. LineStarts \subseteq 1..Len(file) /\ Len(file) \in Nat
      BY StartsAre
    <3>. HIDE DEF last
    <3>2. \A j : j \in LinesBefore(last) <=> j \in LineStarts /\ j < last
      BY DEF LinesBefore
    <3>3. \A j \in LineStarts : j = last \/ j < last
      BY <2>1, <3>1
    <3>4. ~(last < last)
      BY <2>1, <3>1
    <3>. QED BY <2>1, <3>2, <3>3, <3>4
  <2>4. Cardinality(LineStarts) = Cardinality(LinesBefore(last)) + 1
    <3>1. IsFiniteSet(LinesBefore(last))
      BY <2>1, StartsAre
    <3>. HIDE DEF last
    <3>. QED BY <2>3, <3>1, FS_AddElement
  <2>. QED BY <1>2, <2>2, <2>4 DEF HashOf, Preceding
<1>. QED BY <1>1, <1>2

\* The write of the text starts a line behind the others.
LEMMA TextLines ==
    ASSUME TypeOK, Locked, Chained, NEW p \in Procs, WriteText(p)
    PROVE  \E n \in Nat :
       /\ n = Len(file)
       /\ Len(file') = n + size[p] /\ size[p] \in Nat \ {0}
       /\ \A i \in 1..n : file'[i] = file[i]
       /\ \A k \in 1..size[p] : file'[n + k] = <<p, k>>
       /\ \A q \in Procs : pc[q] \in Holding => q = p
       /\ pc[p] = "text" /\ pc' = [pc EXCEPT ![p] = "newline"]
       /\ UNCHANGED <<index, prev, size>>
       /\ n = 0 \/ IsNewline(n)
       /\ \A i \in 1..n : IsNewline(i)' <=> IsNewline(i)
       /\ \A k \in 1..size[p] : ~IsNewline(n + k)'
       /\ n + 1 \in LineStarts' /\ n + 1 \notin LineStarts
       /\ LineStarts' = LineStarts \cup {n + 1}
       /\ LineStarts \subseteq 1..n
       /\ \A i \in LineStarts : LinesBefore(i)' = LinesBefore(i)
       /\ LinesBefore(n + 1)' = LineStarts
       /\ \A i \in 1..n : Author(i)' = Author(i)
       /\ Author(n + 1)' = p
<1>1. PICK n \in Nat : n = Len(file)
  BY DEF TypeOK
<1>2. /\ Len(file') = n + size[p] /\ size[p] \in Nat \ {0}
      /\ \A i \in 1..n : file'[i] = file[i]
      /\ \A k \in 1..size[p] : file'[n + k] = <<p, k>>
  <2>1. /\ Text(p) \in Seq(Cell) /\ Len(Text(p)) = size[p] /\ size[p] \in Nat \ {0}
        /\ \A k \in 1..size[p] : Text(p)[k] = <<p, k>>
    BY TextIs
  <2>2. pc[p] \in Writing /\ file' = Overwritten(offset[p], Text(p))
    BY DEF WriteText, Writing
  <2>3. /\ Len(file') = Len(file) + Len(Text(p))
        /\ \A i \in 1..Len(file) : file'[i] = file[i]
        /\ \A i \in 1..Len(Text(p)) : file'[Len(file) + i] = Text(p)[i]
    BY <2>1, <2>2, WriteAppends
  <2>. QED BY <1>1, <2>1, <2>3
<1>3. /\ \A q \in Procs : pc[q] \in Holding => q = p
      /\ pc[p] = "text" /\ pc' = [pc EXCEPT ![p] = "newline"]
      /\ UNCHANGED <<index, prev, size>>
  BY OneHolder DEF WriteText, Holding, Goto
<1>4. n = 0 \/ IsNewline(n)
  <2>1. \A q \in Procs : pc[q] # "newline"
    BY <1>3 DEF Holding
  <2>. QED BY <1>1, <2>1 DEF Chained, Closed
<1>5. /\ \A i \in 1..n : IsNewline(i)' <=> IsNewline(i)
      /\ \A k \in 1..size[p] : ~IsNewline(n + k)'
  <2>1. ASSUME NEW i \in 1..n PROVE IsNewline(i)' <=> IsNewline(i)
    BY <1>2 DEF IsNewline
  <2>2. ASSUME NEW k \in 1..size[p] PROVE ~IsNewline(n + k)'
    <3>1. file'[n + k] = <<p, k>> /\ k # 0
      BY <1>2
    <3>. QED BY <3>1 DEF IsNewline
  <2>. QED BY <2>1, <2>2
<1>6. /\ n + 1 \in LineStarts' /\ n + 1 \notin LineStarts
      /\ LineStarts' = LineStarts \cup {n + 1}
  <2>1. LineStarts = {i \in 1..n : ~IsNewline(i) /\ (i = 1 \/ IsNewline(i - 1))}
    BY <1>1 DEF LineStarts
  <2>2. LineStarts' = {i \in 1..(n + size[p]) : ~IsNewline(i)' /\ (i = 1 \/ IsNewline(i - 1)')}
    BY <1>2 DEF LineStarts
  <2>3. ~IsNewline(n + 1)' /\ (n + 1 = 1 \/ IsNewline((n + 1) - 1)')
    BY <1>2, <1>4, <1>5
  <2>4. ASSUME NEW i \in 1..n PROVE i \in LineStarts' <=> i \in LineStarts
    BY <1>2, <1>5, <2>1, <2>2
  <2>5. ASSUME NEW i \in (n + 2)..(n + size[p]) PROVE i \notin LineStarts'
    <3>1. (i - 1) - n \in 1..size[p] /\ n + ((i - 1) - n) = i - 1 /\ i # 1
      BY <1>2
    <3>2. ~IsNewline(i - 1)'
      BY <1>5, <3>1
    <3>. QED BY <2>2, <3>1, <3>2
  <2>. QED BY <1>2, <2>1, <2>2, <2>3, <2>4, <2>5
<1>7. /\ LineStarts \subseteq 1..n
      /\ \A i \in LineStarts : LinesBefore(i)' = LinesBefore(i)
      /\ LinesBefore(n + 1)' = LineStarts
  <2>1. LineStarts \subseteq 1..n
    BY <1>1, StartsAre
  <2>2. ASSUME NEW i \in LineStarts PROVE LinesBefore(i)' = LinesBefore(i)
    <3>1. \A j \in LineStarts' : j < i => j \in LineStarts
      BY <1>6, <2>1
    <3>. QED BY <1>6, <3>1 DEF LinesBefore
  <2>3. LinesBefore(n + 1)' = LineStarts
    <3>1. \A j \in LineStarts' : j < n + 1 <=> j \in LineStarts
      BY <1>6, <2>1
    <3>. QED BY <1>6, <3>1 DEF LinesBefore
  <2>. QED BY <2>1, <2>2, <2>3
<1>8. /\ \A i \in 1..n : Author(i)' = Author(i)
      /\ Author(n + 1)' = p
  <2>1. file'[n + 1] = <<p, 1>>
    BY <1>2
  <2>. QED BY <1>2, <2>1 DEF Author
<1>. QED BY <1>1, <1>2, <1>3, <1>4, <1>5, <1>6, <1>7, <1>8

\* The write of the text adds one good line.
LEMMA TextStep ==
    ASSUME TypeOK, Locked, Chained, NEW p \in Procs, WriteText(p)
    PROVE  Chained'
<1>0. PICK n \in Nat :
       /\ n = Len(file)
       /\ Len(file') = n + size[p] /\ size[p] \in Nat \ {0}
       /\ \A i \in 1..n : file'[i] = file[i]
       /\ \A k \in 1..size[p] : file'[n + k] = <<p, k>>
       /\ \A q \in Procs : pc[q] \in Holding => q = p
       /\ pc[p] = "text" /\ pc' = [pc EXCEPT ![p] = "newline"]
       /\ UNCHANGED <<index, prev, size>>
       /\ n = 0 \/ IsNewline(n)
       /\ \A i \in 1..n : IsNewline(i)' <=> IsNewline(i)
       /\ \A k \in 1..size[p] : ~IsNewline(n + k)'
       /\ n + 1 \in LineStarts' /\ n + 1 \notin LineStarts
       /\ LineStarts' = LineStarts \cup {n + 1}
       /\ LineStarts \subseteq 1..n
       /\ \A i \in LineStarts : LinesBefore(i)' = LinesBefore(i)
       /\ LinesBefore(n + 1)' = LineStarts
       /\ \A i \in 1..n : Author(i)' = Author(i)
       /\ Author(n + 1)' = p
  BY TextLines
<1>1. n = Len(file)
  BY <1>0
<1>2. /\ Len(file') = n + size[p] /\ size[p] \in Nat \ {0}
      /\ \A i \in 1..n : file'[i] = file[i]
      /\ \A k \in 1..size[p] : file'[n + k] = <<p, k>>
  BY <1>0
<1>3. /\ \A q \in Procs : pc[q] \in Holding => q = p
      /\ pc[p] = "text" /\ pc' = [pc EXCEPT ![p] = "newline"]
      /\ UNCHANGED <<index, prev, size>>
  BY <1>0
<1>4. n = 0 \/ IsNewline(n)
  BY <1>0
<1>5. /\ \A i \in 1..n : IsNewline(i)' <=> IsNewline(i)
      /\ \A k \in 1..size[p] : ~IsNewline(n + k)'
  BY <1>0
<1>6. /\ n + 1 \in LineStarts' /\ n + 1 \notin LineStarts
      /\ LineStarts' = LineStarts \cup {n + 1}
  BY <1>0
<1>7. /\ LineStarts \subseteq 1..n
      /\ \A i \in LineStarts : LinesBefore(i)' = LinesBefore(i)
      /\ LinesBefore(n + 1)' = LineStarts
  BY <1>0
<1>8. /\ \A i \in 1..n : Author(i)' = Author(i)
      /\ Author(n + 1)' = p
  BY <1>0
<1>9. ASSUME NEW S \in SUBSET LineStarts PROVE Preceding(S)' = Preceding(S)
  <2>1. S # {} => LastOf(S) \in 1..n
    BY <1>7, LastIs
  <2>. QED BY <1>8, <2>1 DEF Preceding
<1>10. ASSUME NEW i \in LineStarts PROVE GoodLine(i)'
  <2>0. PICK q \in Procs, z \in Nat \ {0}, S \in SUBSET LineStarts :
            q = Author(i) /\ z = size[q] /\ S = LinesBefore(i)
    BY TextIs, StartsAre DEF Chained, GoodLine
  <2>1. GoodLine(i) /\ i \in 1..n
    BY <1>7 DEF Chained
  <2>2. q # p /\ i + z - 1 \in 1..n
    BY <1>1, <1>3, <2>0, <2>1 DEF GoodLine
  <2>3. i + z <= n /\ IsNewline(i + z)
    <3>1. file[i + z - 1] = <<q, z>>
      <4>1. \A k \in 1..z : file[i + k - 1] = <<q, k>>
        BY <2>0, <2>1 DEF GoodLine
      <4>. QED BY <4>1
    <3>2. ~IsNewline(i + z - 1)
      BY <3>1 DEF IsNewline
    <3>3. i + z <= n
      BY <1>4, <2>1, <2>2, <3>2
    <3>. QED BY <1>1, <2>0, <2>1, <3>3 DEF GoodLine
  <2>4. \A k \in 1..z : i + k - 1 \in 1..n
    BY <2>1, <2>2
  <2>5. /\ Author(i)' = q /\ pc'[q] = pc[q] /\ size'[q] = z
        /\ LinesBefore(i)' = S /\ Preceding(S)' = Preceding(S)
    BY <1>3, <1>7, <1>8, <1>9, <2>0, <2>1, <2>2 DEF TypeOK
  <2>6. \A k \in 1..z : file'[i + k - 1] = <<q, k>>
    BY <1>2, <2>0, <2>1, <2>4 DEF GoodLine
  <2>7. IsNewline(i + z)' /\ i + z <= Len(file') + 1
    BY <1>2, <1>5, <2>1, <2>3
  <2>8. prev[q] = Preceding(S) /\ index[q] = Cardinality(S) /\ UNCHANGED <<index, prev>>
    BY <1>3, <2>0, <2>1 DEF GoodLine
  <2>9. pc[q] \in {"newline", "unlock", "acked", "crashed"}
    BY <2>0, <2>1 DEF GoodLine
  <2>10. prev'[q] = Preceding(LinesBefore(i))'
    BY <2>5, <2>8 DEF Preceding
  <2>. QED BY <2>5, <2>6, <2>7, <2>8, <2>9, <2>10 DEF GoodLine
<1>11. GoodLine(n + 1)'
  <2>0. PICK z \in Nat \ {0}, S \in SUBSET LineStarts : z = size[p] /\ S = LineStarts
    BY <1>2
  <2>1. Author(n + 1)' = p /\ pc'[p] = "newline" /\ size'[p] = z /\ Len(file') = n + z
    BY <1>2, <1>3, <1>8, <2>0 DEF TypeOK
  <2>2. \A k \in 1..z : file'[(n + 1) + k - 1] = <<p, k>>
    BY <1>2, <2>0
  <2>3. prev[p] = Preceding(S) /\ index[p] = Cardinality(S) /\ UNCHANGED <<index, prev>>
    BY <1>3, <2>0 DEF Chained, Fresh
  <2>4. LinesBefore(n + 1)' = S /\ Preceding(S)' = Preceding(S)
    BY <1>7, <1>9, <2>0
  <2>5. prev'[p] = Preceding(LinesBefore(n + 1))'
    BY <2>3, <2>4 DEF Preceding
  <2>6. (n + 1) + z <= Len(file') + 1 /\ ~((n + 1) + z <= Len(file'))
    BY <2>1
  <2>. QED BY <2>1, <2>2, <2>3, <2>4, <2>5, <2>6 DEF GoodLine
<1>12. Closed' /\ Fresh'
  <2>1. pc'[p] = "newline" /\ \A q \in Procs : q # p => pc'[q] = pc[q] /\ pc[q] \notin Holding
    BY <1>3 DEF TypeOK
  <2>. QED BY <2>1 DEF Closed, Fresh, Holding
<1>13. Present'
  <2>. SUFFICES ASSUME NEW q \in Procs, pc'[q] \in {"newline", "unlock", "acked"}
                PROVE  \E i \in LineStarts' : Author(i)' = q
    BY DEF Present
  <2>1. CASE q = p
    BY <1>6, <1>8, <2>1
  <2>2. CASE q # p
    <3>1. PICK i \in LineStarts : Author(i) = q
      BY <1>3, <2>2 DEF TypeOK, Chained, Present
    <3>. QED BY <1>6, <1>7, <1>8, <3>1
  <2>. QED BY <2>1, <2>2
<1>. QED BY <1>6, <1>10, <1>11, <1>12, <1>13 DEF Chained

\* The write of the newline starts no line.
LEMMA NewlineLines ==
    ASSUME TypeOK, Locked, Chained, NEW p \in Procs, WriteNewline(p)
    PROVE  \E n \in Nat :
       /\ n = Len(file)
       /\ Len(file') = n + 1
       /\ \A i \in 1..n : file'[i] = file[i]
       /\ file'[n + 1] = <<p, 0>>
       /\ \A q \in Procs : pc[q] \in Holding => q = p
       /\ pc[p] = "newline" /\ pc' = [pc EXCEPT ![p] = "unlock"]
       /\ UNCHANGED <<index, prev, size>>
       /\ \A i \in 1..n : IsNewline(i)' <=> IsNewline(i)
       /\ IsNewline(n + 1)'
       /\ LineStarts' = LineStarts /\ LineStarts \subseteq 1..n
<1>1. PICK n \in Nat : n = Len(file)
  BY DEF TypeOK
<1>2. /\ Len(file') = n + 1
      /\ \A i \in 1..n : file'[i] = file[i]
      /\ file'[n + 1] = <<p, 0>>
  BY <1>1, NewlineIs, WriteAppends DEF WriteNewline, Writing
<1>3. /\ \A q \in Procs : pc[q] \in Holding => q = p
      /\ pc[p] = "newline" /\ pc' = [pc EXCEPT ![p] = "unlock"]
      /\ UNCHANGED <<index, prev, size>>
  BY OneHolder DEF WriteNewline, Holding, Goto
<1>4. /\ \A i \in 1..n : IsNewline(i)' <=> IsNewline(i)
      /\ IsNewline(n + 1)'
  BY <1>2 DEF IsNewline
<1>5. LineStarts' = LineStarts /\ LineStarts \subseteq 1..n
  <2>1. LineStarts = {i \in 1..n : ~IsNewline(i) /\ (i = 1 \/ IsNewline(i - 1))}
    BY <1>1 DEF LineStarts
  <2>2. LineStarts' = {i \in 1..(n + 1) : ~IsNewline(i)' /\ (i = 1 \/ IsNewline(i - 1)')}
    BY <1>2 DEF LineStarts
  <2>3. ASSUME NEW i \in 1..n PROVE i \in LineStarts' <=> i \in LineStarts
    BY <1>4, <2>1, <2>2
  <2>4. n + 1 \notin LineStarts'
    BY <1>4, <2>2
  <2>. QED BY <2>1, <2>2, <2>3, <2>4
<1>. QED BY <1>1, <1>2, <1>3, <1>4, <1>5

\* The write of the newline closes the last line and adds none.
LEMMA NewlineStep ==
    ASSUME TypeOK, Locked, Chained, NEW p \in Procs, WriteNewline(p)
    PROVE  Chained'
<1>0. PICK n \in Nat :
       /\ n = Len(file)
       /\ Len(file') = n + 1
       /\ \A i \in 1..n : file'[i] = file[i]
       /\ file'[n + 1] = <<p, 0>>
       /\ \A q \in Procs : pc[q] \in Holding => q = p
       /\ pc[p] = "newline" /\ pc' = [pc EXCEPT ![p] = "unlock"]
       /\ UNCHANGED <<index, prev, size>>
       /\ \A i \in 1..n : IsNewline(i)' <=> IsNewline(i)
       /\ IsNewline(n + 1)'
       /\ LineStarts' = LineStarts /\ LineStarts \subseteq 1..n
  BY NewlineLines
<1>1. n = Len(file)
  BY <1>0
<1>2. /\ Len(file') = n + 1
      /\ \A i \in 1..n : file'[i] = file[i]
      /\ file'[n + 1] = <<p, 0>>
  BY <1>0
<1>3. /\ \A q \in Procs : pc[q] \in Holding => q = p
      /\ pc[p] = "newline" /\ pc' = [pc EXCEPT ![p] = "unlock"]
      /\ UNCHANGED <<index, prev, size>>
  BY <1>0
<1>4. /\ \A i \in 1..n : IsNewline(i)' <=> IsNewline(i)
      /\ IsNewline(n + 1)'
  BY <1>0
<1>5. LineStarts' = LineStarts /\ LineStarts \subseteq 1..n
  BY <1>0
<1>6. \A i : LinesBefore(i)' = LinesBefore(i)
  BY <1>5 DEF LinesBefore
<1>7. \A i \in 1..n : Author(i)' = Author(i)
  BY <1>2 DEF Author
<1>8. ASSUME NEW S \in SUBSET LineStarts PROVE Preceding(S)' = Preceding(S)
  <2>1. S # {} => LastOf(S) \in 1..n
    BY <1>5, LastIs
  <2>. QED BY <1>7, <2>1 DEF Preceding
<1>9. ASSUME NEW i \in LineStarts PROVE GoodLine(i)'
  <2>0. PICK q \in Procs, z \in Nat \ {0}, S \in SUBSET LineStarts :
            q = Author(i) /\ z = size[q] /\ S = LinesBefore(i)
    BY TextIs, StartsAre DEF Chained, GoodLine
  <2>1. GoodLine(i) /\ i \in 1..n
    BY <1>5 DEF Chained
  <2>2. i + z <= n + 1 /\ (i + z <= n => IsNewline(i + z))
    BY <1>1, <2>0, <2>1 DEF GoodLine
  <2>3. i + z <= Len(file') + 1 /\ IsNewline(i + z)'
    <3>1. i + z \in 1..n \/ i + z = n + 1
      BY <2>1, <2>2
    <3>. QED BY <1>2, <1>4, <2>2, <3>1
  <2>4. \A k \in 1..z : file'[i + k - 1] = <<q, k>>
    <3>1. \A k \in 1..z : i + k - 1 \in 1..n
      BY <2>1, <2>2
    <3>. QED BY <1>2, <2>0, <2>1, <3>1 DEF GoodLine
  <2>5. /\ Author(i)' = q /\ size'[q] = z
        /\ LinesBefore(i)' = S /\ Preceding(S)' = Preceding(S)
    BY <1>3, <1>6, <1>7, <1>8, <2>0, <2>1
  <2>6. pc'[q] \in {"newline", "unlock", "acked", "crashed"}
    BY <1>3, <2>0, <2>1 DEF GoodLine, TypeOK
  <2>7. prev[q] = Preceding(S) /\ index[q] = Cardinality(S) /\ UNCHANGED <<index, prev>>
    BY <1>3, <2>0, <2>1 DEF GoodLine
  <2>8. prev'[q] = Preceding(LinesBefore(i))'
    BY <2>5, <2>7 DEF Preceding
  <2>. QED BY <2>3, <2>4, <2>5, <2>6, <2>7, <2>8 DEF GoodLine
<1>10. Closed'
  <2>1. IsNewline(Len(file))'
    BY <1>2, <1>4 DEF IsNewline
  <2>. QED BY <2>1 DEF Closed
<1>11. Fresh'
  <2>1. \A q \in Procs : pc'[q] \notin {"seek", "text"}
    BY <1>3 DEF TypeOK, Holding
  <2>. QED BY <2>1 DEF Fresh
<1>12. Present'
  <2>. SUFFICES ASSUME NEW q \in Procs, pc'[q] \in {"newline", "unlock", "acked"}
                PROVE  \E i \in LineStarts : Author(i)' = q
    BY <1>5 DEF Present
  <2>1. pc[q] \in {"newline", "unlock", "acked"}
    BY <1>3 DEF TypeOK
  <2>2. PICK i \in LineStarts : Author(i) = q
    BY <2>1 DEF Chained, Present
  <2>. QED BY <1>5, <1>7, <2>2
<1>. QED BY <1>5, <1>9, <1>10, <1>11, <1>12 DEF Chained

\* What was torn stays torn.
LEMMA TornStays == TypeOK /\ [Next]_vars /\ Torn => Torn'
<1>. SUFFICES ASSUME TypeOK, [Next]_vars, NEW q \in Procs, pc[q] = "torn"
              PROVE  pc'[q] = "torn"
  BY DEF Torn
<1>1. ASSUME NEW p \in Procs, Step(p) \/ Crash(p) PROVE pc'[q] = "torn"
  <2>1. pc[p] # "torn" /\ \E next : pc' = [pc EXCEPT ![p] = next]
    <3>1. CASE Open(p) \/ Lock(p) \/ Read(p) \/ SeekEnd(p)
      BY <3>1 DEF Open, Lock, Read, SeekEnd, Goto
    <3>2. CASE WriteText(p) \/ WriteTextFails(p) \/ WriteNewline(p) \/ Unlock(p)
      BY <3>2 DEF WriteText, WriteTextFails, WriteNewline, Unlock, Goto
    <3>3. CASE Crash(p)
      BY <3>3 DEF Crash, Ended, Goto
    <3>. QED BY <1>1, <3>1, <3>2, <3>3 DEF Step
  <2>. QED BY <2>1 DEF TypeOK
<1>2. CASE Finished \/ UNCHANGED vars
  BY <1>2 DEF Finished, vars
<1>. QED BY <1>1, <1>2 DEF Next

\* What is damaged stays damaged.
LEMMA DamagedStays == TypeOK /\ [Next]_vars /\ Damaged => Damaged'
BY TornStays, RacedStays DEF Damaged

\* Every step that stops no process within its writes keeps the chain.
LEMMA ChainedStep == TypeOK /\ Locked /\ Chained /\ [Next]_vars /\ ~Torn' => Chained'
<1>. SUFFICES ASSUME TypeOK, Locked, Chained, [Next]_vars, ~Torn' PROVE Chained'
  OBVIOUS
<1>1. ASSUME NEW p \in Procs, Open(p) PROVE Chained'
  BY <1>1, QuietStep DEF Open, Goto
<1>2. ASSUME NEW p \in Procs, Lock(p) PROVE Chained'
  BY <1>2, QuietStep DEF Lock, Goto
<1>3. ASSUME NEW p \in Procs, Read(p) PROVE Chained'
  <2>1. /\ pc[p] = "read" /\ UNCHANGED <<file, size>>
        /\ \/ Goto(p, "failed") /\ UNCHANGED <<index, prev>>
           \/ /\ Goto(p, "seek")
              /\ prev' = [prev EXCEPT ![p] = Preceding(LineStarts)]
              /\ index' = [index EXCEPT ![p] = Cardinality(LineStarts)]
    BY <1>3, ReadFollows DEF Read
  <2>2. CASE Goto(p, "failed") /\ UNCHANGED <<index, prev>>
    BY <2>1, <2>2, QuietStep DEF Goto
  <2>3. CASE /\ Goto(p, "seek")
             /\ prev' = [prev EXCEPT ![p] = Preceding(LineStarts)]
             /\ index' = [index EXCEPT ![p] = Cardinality(LineStarts)]
    <3>1. /\ index'[p] = Cardinality(LineStarts) /\ prev'[p] = Preceding(LineStarts)
          /\ \A q \in Procs : index'[q] # index[q] \/ prev'[q] # prev[q] => q = p
      BY <2>3 DEF TypeOK
    <3>. QED BY <2>1, <2>3, <3>1, QuietStep DEF Goto
  <2>. QED BY <2>1, <2>2, <2>3
<1>4. ASSUME NEW p \in Procs, SeekEnd(p) PROVE Chained'
  <2>1. index[p] = Cardinality(LineStarts) /\ prev[p] = Preceding(LineStarts)
    BY <1>4 DEF SeekEnd, Chained, Fresh
  <2>. QED BY <1>4, <2>1, QuietStep DEF SeekEnd, Goto
<1>5. ASSUME NEW p \in Procs, WriteText(p) PROVE Chained'
  BY <1>5, TextStep
<1>6. ASSUME NEW p \in Procs, WriteTextFails(p) PROVE Chained'
  BY <1>6 DEF TypeOK, WriteTextFails, Goto, Torn
<1>7. ASSUME NEW p \in Procs, WriteNewline(p) PROVE Chained'
  BY <1>7, NewlineStep
<1>8. ASSUME NEW p \in Procs, Unlock(p) PROVE Chained'
  BY <1>8, QuietStep DEF Unlock, Goto
<1>9. ASSUME NEW p \in Procs, Crash(p) PROVE Chained'
  <2>1. pc[p] # "newline" /\ pc[p] # "acked"
    BY <1>9 DEF TypeOK, Crash, Ended, Goto, Torn
  <2>. QED BY <1>9, <2>1, QuietStep DEF Crash, Goto
<1>10. CASE Finished \/ UNCHANGED vars
  <2>1. UNCHANGED <<file, pc, index, prev, size>>
    BY <1>10 DEF Finished, vars
  <2>2. /\ LineStarts' = LineStarts
        /\ \A i : LinesBefore(i)' = LinesBefore(i)
        /\ \A i : Author(i)' = Author(i)
        /\ \A i : IsNewline(i)' = IsNewline(i)
        /\ \A S : Preceding(S)' = Preceding(S)
    BY <2>1 DEF LineStarts, LinesBefore, IsNewline, Author, Preceding
  <2>3. \A i \in LineStarts : GoodLine(i)'
    BY <2>1, <2>2 DEF Chained, GoodLine
  <2>4. Closed' /\ Fresh' /\ Present'
    BY <2>1, <2>2 DEF Chained, Closed, Fresh, Present, IsNewline
  <2>. QED BY <2>2, <2>3, <2>4 DEF Chained
<1>. QED BY <1>1, <1>2, <1>3, <1>4, <1>5, <1>6, <1>7, <1>8, <1>9, <1>10 DEF Next, Step

\* The chain is in order as long as the log is not damaged.
LEMMA Chaining == Spec => [](ChainAlwaysVerifies /\ AckedIsReadable)
<1>. DEFINE InOrder == ~Damaged => Chained
<1>1. Init => InOrder
  BY ChainedInit
<1>2. TypeOK /\ (raced \/ Locked) /\ InOrder /\ [Next]_vars => InOrder'
  BY ChainedStep, DamagedStays DEF Damaged
<1>3. TypeOK /\ InOrder => ChainAlwaysVerifies /\ AckedIsReadable
  BY ChainedVerifies DEF ChainAlwaysVerifies, AckedIsReadable
<1>. HIDE DEF InOrder
<1>. QED BY <1>1, <1>2, <1>3, Locking, TypeCorrect, PTL DEF Spec

\* Whichever processes the filter keeps from the lock, verify_audit_chain accepts the
\* log at every moment until one is stopped within its writes or one of those works on
\* the file beside another, however many append to it and wherever else they crash.
THEOREM ChainVerifiesAlways == Spec => []ChainAlwaysVerifies
<1>1. Spec => [](ChainAlwaysVerifies /\ AckedIsReadable)
  BY Chaining
<1>. QED BY <1>1, PTL

\* Under the same conditions an entry that was acknowledged stays readable.
THEOREM AckedAlwaysReadable == Spec => []AckedIsReadable
<1>1. Spec => [](ChainAlwaysVerifies /\ AckedIsReadable)
  BY Chaining
<1>. QED BY <1>1, PTL

-----------------------------------------------------------------------------
(***************************************************************************)
(* The log as whole entries.                                               *)
(***************************************************************************)

\* Each number up to how many there are is that of a line.
Numbered == \A n \in 1..Cardinality(LineStarts) :
                \E i \in LineStarts : Cardinality(LinesBefore(i)) = n - 1

\* No two lines have the same number of lines before them.
LEMMA OneNumber ==
    ASSUME TypeOK, NEW i \in LineStarts, NEW j \in LineStarts,
           Cardinality(LinesBefore(i)) = Cardinality(LinesBefore(j))
    PROVE  i = j
<1>1. LineStarts \subseteq 1..Len(file) /\ Len(file) \in Nat
  BY StartsAre
<1>2. ASSUME NEW a \in LineStarts, NEW b \in LineStarts, a < b
      PROVE  Cardinality(LinesBefore(a)) # Cardinality(LinesBefore(b))
  <2>1. LinesBefore(a) \cup {a} \subseteq LinesBefore(b) /\ a \notin LinesBefore(a)
    <3>1. \A c \in LineStarts : c < a => c < b
      BY <1>1, <1>2
    <3>2. ~(a < a)
      BY <1>1
    <3>. QED BY <1>2, <3>1, <3>2 DEF LinesBefore
  <2>2. IsFiniteSet(LinesBefore(a)) /\ IsFiniteSet(LinesBefore(b))
    BY StartsAre
  <2>3. Cardinality(LinesBefore(a) \cup {a}) = Cardinality(LinesBefore(a)) + 1
    BY <2>1, <2>2, FS_AddElement
  <2>4. Cardinality(LinesBefore(a) \cup {a}) <= Cardinality(LinesBefore(b))
    BY <2>1, <2>2, FS_Subset
  <2>5. Cardinality(LinesBefore(a)) \in Nat /\ Cardinality(LinesBefore(b)) \in Nat
    BY <2>2, FS_CardinalityType
  <2>. QED BY <2>3, <2>4, <2>5
<1>. QED BY <1>1, <1>2

\* A line is the one with its number.
LEMMA NthLineIs ==
    ASSUME TypeOK, NEW i \in LineStarts, NEW n \in Nat, Cardinality(LinesBefore(i)) = n - 1
    PROVE  NthLine(n) = i
<1>1. \A j \in LineStarts : Cardinality(LinesBefore(j)) = n - 1 => j = i
  BY OneNumber
<1>. QED BY <1>1 DEF NthLine

\* The entry of a line has the number of the lines before it, and names the last of them.
EntriesFollow ==
    /\ Cardinality(LineStarts) \in Nat
    /\ DOMAIN Entries = 1..Cardinality(LineStarts)
    /\ \A i \in LineStarts :
         LET n == Cardinality(LinesBefore(i)) + 1 IN
           /\ n \in 1..Cardinality(LineStarts)
           /\ Entries[n] = [by |-> Author(i), index |-> n - 1,
                            prev |-> Preceding(LinesBefore(i))]

\* This is so when the chain is in order.
LEMMA EntriesAre == TypeOK /\ Chained /\ Numbered => EntriesFollow
<1>. SUFFICES ASSUME TypeOK, Chained, Numbered PROVE EntriesFollow
  OBVIOUS
<1>1. Cardinality(LineStarts) \in Nat
  BY StartsAre, FS_CardinalityType
<1>2. ASSUME NEW i \in LineStarts, NEW n, n = Cardinality(LinesBefore(i)) + 1
      PROVE  /\ n \in 1..Cardinality(LineStarts)
             /\ Entries[n] = [by |-> Author(i), index |-> n - 1,
                              prev |-> Preceding(LinesBefore(i))]
  <2>1. LinesBefore(i) \cup {i} \subseteq LineStarts /\ i \notin LinesBefore(i)
    <3>1. i \in Nat
      BY StartsAre
    <3>. QED BY <3>1, StartsAre DEF LinesBefore
  <2>2. IsFiniteSet(LinesBefore(i)) /\ IsFiniteSet(LineStarts)
    BY StartsAre
  <2>3. Cardinality(LinesBefore(i) \cup {i}) = Cardinality(LinesBefore(i)) + 1
    BY <2>1, <2>2, FS_AddElement
  <2>4. Cardinality(LinesBefore(i) \cup {i}) <= Cardinality(LineStarts)
    BY <2>1, <2>2, FS_Subset
  <2>5. Cardinality(LinesBefore(i)) \in Nat
    BY <2>2, FS_CardinalityType
  <2>6. n \in 1..Cardinality(LineStarts) /\ Cardinality(LinesBefore(i)) = n - 1
    BY <1>1, <1>2, <2>3, <2>4, <2>5
  <2>7. NthLine(n) = i
    BY <2>6, NthLineIs
  <2>8. GoodLine(i) /\ EntryAt(i) = Author(i)
    BY GoodLineIs DEF Chained
  <2>9. index[Author(i)] = n - 1 /\ prev[Author(i)] = Preceding(LinesBefore(i))
    BY <2>6, <2>8 DEF GoodLine
  <2>. QED BY <2>6, <2>7, <2>8, <2>9 DEF Entries, EntryOf
<1>3. DOMAIN Entries = 1..Cardinality(LineStarts)
  BY DEF Entries
<1>. QED BY <1>1, <1>2, <1>3 DEF EntriesFollow

\* The log is the same as long as its lines and their authors are.
LEMMA SameEntries ==
    ASSUME TypeOK, Chained, Numbered, TypeOK', Chained',
           LineStarts' = LineStarts, \A i \in LineStarts : Author(i)' = Author(i)
    PROVE  Numbered' /\ Entries' = Entries
<1>1. /\ \A i : LinesBefore(i)' = LinesBefore(i)
  BY DEF LinesBefore
<1>2. Numbered'
  BY <1>1 DEF Numbered
<1>3. \A i \in LineStarts : Preceding(LinesBefore(i))' = Preceding(LinesBefore(i))
  <2>1. \A i \in LineStarts : LinesBefore(i) # {} => LastOf(LinesBefore(i)) \in LineStarts
    BY LastIs, StartsAre
  <2>. QED BY <1>1, <2>1 DEF Preceding
<1>4. /\ DOMAIN Entries' = 1..Cardinality(LineStarts)
      /\ \A i \in LineStarts :
           Entries'[Cardinality(LinesBefore(i)) + 1]
             = [by |-> Author(i), index |-> (Cardinality(LinesBefore(i)) + 1) - 1,
                prev |-> Preceding(LinesBefore(i))]
  <2>1. (TypeOK /\ Chained /\ Numbered => EntriesFollow)'
    BY EntriesAre, PTL
  <2>. QED BY <1>1, <1>2, <1>3, <2>1 DEF EntriesFollow
<1>5. \A n \in 1..Cardinality(LineStarts) : Entries'[n] = Entries[n]
  <2>. SUFFICES ASSUME NEW n \in 1..Cardinality(LineStarts) PROVE Entries'[n] = Entries[n]
    OBVIOUS
  <2>1. PICK i \in LineStarts : Cardinality(LinesBefore(i)) = n - 1
    BY DEF Numbered
  <2>2. n = Cardinality(LinesBefore(i)) + 1
    BY <2>1, EntriesAre DEF EntriesFollow
  <2>. QED BY <1>4, <2>1, <2>2, EntriesAre DEF EntriesFollow
<1>. QED BY <1>2, <1>4, <1>5 DEF Entries

\* The write of the text is where the entry comes to the log.
LEMMA TextAppends ==
    ASSUME TypeOK, Locked, Chained, Numbered, TypeOK', Chained', NEW p \in Procs, WriteText(p)
    PROVE  /\ Numbered'
           /\ Len(Entries) = Cardinality(LineStarts)
           /\ Entries' = Append(Entries,
                [by |-> p, index |-> Len(Entries),
                 prev |-> IF Entries = <<>> THEN Genesis ELSE Entries[Len(Entries)].by])
<1>. DEFINE count == Cardinality(LineStarts)
            new == [by |-> p, index |-> count, prev |-> Preceding(LineStarts)]
<1>1. PICK n \in Nat :
        /\ n + 1 \notin LineStarts /\ LineStarts' = LineStarts \cup {n + 1}
        /\ LineStarts \subseteq 1..n
        /\ \A i \in LineStarts : LinesBefore(i)' = LinesBefore(i)
        /\ LinesBefore(n + 1)' = LineStarts
        /\ \A i \in 1..n : Author(i)' = Author(i)
        /\ Author(n + 1)' = p
  BY TextLines
<1>2. EntriesFollow
  BY EntriesAre
<1>3. count \in Nat /\ Cardinality(LineStarts)' = count + 1
  <2>1. IsFiniteSet(LineStarts)
    BY StartsAre
  <2>. QED BY <1>1, <2>1, FS_AddElement, FS_CardinalityType
<1>4. Numbered'
  <2>. SUFFICES ASSUME NEW m \in 1..(count + 1)
                PROVE  \E i \in LineStarts' : Cardinality(LinesBefore(i))' = m - 1
    BY <1>3 DEF Numbered
  <2>1. CASE m = count + 1
    BY <1>1, <1>3, <2>1
  <2>2. CASE m # count + 1
    <3>1. m \in 1..count
      BY <1>3, <2>2
    <3>2. PICK i \in LineStarts : Cardinality(LinesBefore(i)) = m - 1
      BY <3>1 DEF Numbered
    <3>. QED BY <1>1, <3>2
  <2>. QED BY <2>1, <2>2
<1>5. \A S \in SUBSET LineStarts : Preceding(S)' = Preceding(S)
  <2>1. \A S \in SUBSET LineStarts : S # {} => LastOf(S) \in 1..n
    BY <1>1, LastIs
  <2>. QED BY <1>1, <2>1 DEF Preceding
<1>6. EntriesFollow'
  <2>1. (TypeOK /\ Chained /\ Numbered => EntriesFollow)'
    BY EntriesAre, PTL
  <2>. QED BY <1>4, <2>1
<1>7. /\ DOMAIN Entries = 1..count /\ DOMAIN Entries' = 1..(count + 1)
      /\ \A m \in 1..count : Entries'[m] = Entries[m]
      /\ Entries'[count + 1] = new
  <2>1. DOMAIN Entries = 1..count /\ DOMAIN Entries' = 1..(count + 1)
    BY <1>2, <1>3, <1>6 DEF EntriesFollow
  <2>2. ASSUME NEW m \in 1..count PROVE Entries'[m] = Entries[m]
    <3>1. PICK i \in LineStarts : Cardinality(LinesBefore(i)) = m - 1
      BY DEF Numbered
    <3>2. Cardinality(LinesBefore(i)) + 1 = m /\ i \in LineStarts' /\ i \in 1..n
      BY <1>1, <1>3, <3>1
    <3>3. Entries[m] = [by |-> Author(i), index |-> m - 1, prev |-> Preceding(LinesBefore(i))]
      BY <1>2, <3>2 DEF EntriesFollow
    <3>4. /\ Entries'[m] = [by |-> Author(i)', index |-> m - 1, prev |-> Preceding(LinesBefore(i))']
      BY <1>1, <1>6, <3>2 DEF EntriesFollow
    <3>5. Preceding(LinesBefore(i))' = Preceding(LinesBefore(i))
      <4>1. LinesBefore(i) \subseteq LineStarts
        BY StartsAre
      <4>. QED BY <1>1, <1>5, <4>1 DEF Preceding
    <3>. QED BY <1>1, <3>2, <3>3, <3>4, <3>5
  <2>3. Entries'[count + 1] = new
    <3>1. n + 1 \in LineStarts' /\ Cardinality(LinesBefore(n + 1))' = count
      BY <1>1
    <3>2. Entries'[count + 1] = [by |-> Author(n + 1)', index |-> (count + 1) - 1,
                                 prev |-> Preceding(LinesBefore(n + 1))']
      BY <1>6, <3>1 DEF EntriesFollow
    <3>3. Preceding(LinesBefore(n + 1))' = Preceding(LineStarts)
      BY <1>1, <1>5 DEF Preceding
    <3>. QED BY <1>1, <1>3, <3>2, <3>3
  <2>. QED BY <2>1, <2>2, <2>3
<1>8. Preceding(LineStarts) = IF Entries = <<>> THEN Genesis ELSE Entries[count].by
  <2>1. CASE LineStarts = {}
    BY <1>7, <2>1, FS_EmptySet DEF Preceding, Entries
  <2>2. CASE LineStarts # {}
    <3>1. PICK last \in LineStarts : last = LastOf(LineStarts)
      BY <2>2, LastIs
    <3>2. EntryAt(last) = Author(last) /\ index[Author(last)] = Cardinality(LinesBefore(last))
      BY <3>1, GoodLineIs DEF Chained, GoodLine
    <3>3. Cardinality(LinesBefore(last)) + 1 = count
      BY <2>2, <3>1, <3>2, ReadFollows
    <3>4. Entries[count].by = Author(last) /\ count \in 1..count
      <4>1. /\ Cardinality(LinesBefore(last)) + 1 \in 1..Cardinality(LineStarts)
            /\ Entries[Cardinality(LinesBefore(last)) + 1]
                 = [by |-> Author(last), index |-> (Cardinality(LinesBefore(last)) + 1) - 1,
                    prev |-> Preceding(LinesBefore(last))]
        BY <1>2 DEF EntriesFollow
      <4>. QED BY <3>3, <4>1
    <3>5. Entries # <<>>
      BY <1>7, <3>4
    <3>. QED BY <2>2, <3>1, <3>4, <3>5 DEF Preceding
  <2>. QED BY <2>1, <2>2
<1>9. Entries' = Append(Entries, new) /\ Len(Entries) = count
  <2>1. Entries = [m \in 1..count |-> Entries[m]] /\ Entries' = [m \in 1..(count + 1) |-> Entries'[m]]
    BY <1>3, <1>7 DEF Entries
  <2>. HIDE DEF count, new
  <2>. DEFINE T == {Entries[m] : m \in 1..count} \cup {new}
  <2>2. Entries \in Seq(T) /\ Len(Entries) = count
    BY <1>3, <2>1
  <2>3. Entries' \in Seq(T) /\ Len(Entries') = count + 1
    <3>1. \A m \in 1..(count + 1) : Entries'[m] \in T
      <4>1. \A m \in 1..(count + 1) : m \in 1..count \/ m = count + 1
        BY <1>3
      <4>. QED BY <1>7, <4>1
    <3>. QED BY <1>3, <2>1, <3>1
  <2>4. new \in T
    OBVIOUS
  <2>. HIDE DEF T
  <2>5. /\ Append(Entries, new) \in Seq(T) /\ Len(Append(Entries, new)) = count + 1
        /\ \A m \in 1..count : Append(Entries, new)[m] = Entries[m]
        /\ Append(Entries, new)[count + 1] = new
    BY <2>2, <2>4, AppendProperties
  <2>6. \A m \in 1..(count + 1) : Entries'[m] = Append(Entries, new)[m]
    <3>1. \A m \in 1..(count + 1) : m \in 1..count \/ m = count + 1
      BY <1>3
    <3>. QED BY <1>7, <2>5, <3>1
  <2>7. Entries' = Append(Entries, new)
    BY <2>3, <2>5, <2>6, SeqEqual
  <2>. QED BY <2>2, <2>7
<1>. QED BY <1>4, <1>8, <1>9

\* Who has an entry in the log.
LEMMA WhoHas ==
    ASSUME TypeOK, Chained, Numbered, NEW p \in Procs
    PROVE  (\E n \in DOMAIN Entries : Entries[n].by = p) <=> \E i \in LineStarts : Author(i) = p
<1>1. EntriesFollow
  BY EntriesAre
<1>2. ASSUME NEW i \in LineStarts
      PROVE  /\ Cardinality(LinesBefore(i)) + 1 \in DOMAIN Entries
             /\ Entries[Cardinality(LinesBefore(i)) + 1].by = Author(i)
  <2>1. /\ Cardinality(LinesBefore(i)) + 1 \in DOMAIN Entries
        /\ Entries[Cardinality(LinesBefore(i)) + 1]
             = [by |-> Author(i), index |-> (Cardinality(LinesBefore(i)) + 1) - 1,
                prev |-> Preceding(LinesBefore(i))]
    BY <1>1 DEF EntriesFollow
  <2>. QED BY <2>1
<1>3. ASSUME NEW n \in DOMAIN Entries
      PROVE  \E i \in LineStarts : n = Cardinality(LinesBefore(i)) + 1
  <2>1. Cardinality(LineStarts) \in Nat /\ n \in 1..Cardinality(LineStarts)
    BY <1>1 DEF EntriesFollow
  <2>2. PICK i \in LineStarts : Cardinality(LinesBefore(i)) = n - 1
    BY <2>1 DEF Numbered
  <2>. QED BY <2>1, <2>2
<1>. QED BY <1>2, <1>3

\* A process that has not written the text has no entry, one that has written it has one.
LEMMA WroteIt ==
    ASSUME TypeOK, Chained, Numbered, NEW p \in Procs
    PROVE  /\ pc[p] \in {"open", "lock", "read", "seek", "text", "failed"} =>
                ~ \E n \in DOMAIN Entries : Entries[n].by = p
           /\ pc[p] \in {"newline", "unlock", "acked"} =>
                \E n \in DOMAIN Entries : Entries[n].by = p
<1>1. \A i \in LineStarts : pc[Author(i)] \in {"newline", "unlock", "acked", "crashed"}
  BY DEF Chained, GoodLine
<1>. QED BY <1>1, WhoHas DEF Chained, Present

\* What a process was told is not taken back.
LEMMA AnswersStay ==
    ASSUME TypeOK, [Next]_vars, NEW q \in Procs, Answers[q] # "none"
    PROVE  Answers'[q] = Answers[q]
<1>1. pc[q] \in {"acked", "failed"}
  BY DEF Answers
<1>2. pc'[q] = pc[q]
  <2>1. ASSUME NEW p \in Procs, Step(p) \/ Crash(p) PROVE pc'[q] = pc[q]
    <3>1. pc[p] \notin {"acked", "failed"} /\ \E next : pc' = [pc EXCEPT ![p] = next]
      <4>1. CASE Open(p) \/ Lock(p) \/ Read(p) \/ SeekEnd(p)
        BY <4>1 DEF Open, Lock, Read, SeekEnd, Goto
      <4>2. CASE WriteText(p) \/ WriteTextFails(p) \/ WriteNewline(p) \/ Unlock(p)
        BY <4>2 DEF WriteText, WriteTextFails, WriteNewline, Unlock, Goto
      <4>3. CASE Crash(p)
        BY <4>3 DEF Crash, Ended, Goto
      <4>. QED BY <2>1, <4>1, <4>2, <4>3 DEF Step
    <3>. QED BY <1>1, <3>1 DEF TypeOK
  <2>2. CASE Finished \/ UNCHANGED vars
    BY <2>2 DEF Finished, vars
  <2>. QED BY <2>1, <2>2 DEF Next
<1>. QED BY <1>2 DEF Answers

\* A step to another place answers the process if that is an end.
LEMMA AnswersAre ==
    ASSUME TypeOK, NEW p \in Procs, NEW next, pc' = [pc EXCEPT ![p] = next]
    PROVE  Answers' = [Answers EXCEPT ![p] =
               CASE next = "acked" -> "ok" [] next = "failed" -> "err" [] OTHER -> "none"]
<1>1. \A q \in Procs : pc'[q] = IF q = p THEN next ELSE pc[q]
  BY DEF TypeOK
<1>. QED BY <1>1 DEF Answers

\* A step that leaves the log as it is: a process is answered, or nothing is said.
LEMMA QuietAtomic ==
    ASSUME TypeOK, Chained, Numbered, ~Damaged, ~Damaged', NEW p \in Procs, NEW next,
           pc' = [pc EXCEPT ![p] = next], pc[p] \notin {"acked", "failed"}, Entries' = Entries,
           next = "acked" => pc[p] = "unlock",
           next = "failed" => pc[p] \in {"open", "read"}
    PROVE  [Atomic!Next]_Atomic!vars
<1>1. /\ (IF Damaged THEN <<>> ELSE Entries) = Entries
      /\ (IF Damaged THEN <<>> ELSE Entries)' = Entries
      /\ Damaged' = Damaged
  BY DEF Damaged
<1>2. Answers[p] = "none" /\ Answers = [q \in Procs |-> Answers[q]]
  BY DEF Answers
<1>3. CASE next \notin {"acked", "failed"}
  <2>1. Answers' = Answers
    BY <1>2, <1>3, AnswersAre
  <2>. QED BY <1>1, <2>1 DEF Atomic!vars
<1>4. CASE next \in {"acked", "failed"}
  <2>1. Atomic!Has(p) <=> next = "acked"
    BY <1>1, <1>4, WroteIt DEF Atomic!Has
  <2>2. Answers' = [Answers EXCEPT ![p] = IF Atomic!Has(p) THEN "ok" ELSE "err"]
    BY <1>4, <2>1, AnswersAre
  <2>3. Atomic!Answer(p)
    BY <1>1, <1>2, <2>2 DEF Atomic!Answer
  <2>. QED BY <2>3 DEF Atomic!Next
<1>. QED BY <1>3, <1>4

\* Every step of append_audit_entry is one of the atomic log, or none.
LEMMA AtomicStep ==
    ASSUME TypeOK, Locked, Chained, Numbered, TypeOK', Chained', ~Damaged, ~Damaged', [Next]_vars
    PROVE  Numbered' /\ [Atomic!Next]_Atomic!vars
<1>1. ASSUME UNCHANGED file PROVE Numbered' /\ Entries' = Entries
  <2>1. LineStarts' = LineStarts /\ \A i \in LineStarts : Author(i)' = Author(i)
    BY <1>1 DEF LineStarts, IsNewline, Author
  <2>. QED BY <2>1, SameEntries
<1>2. ASSUME NEW p \in Procs, Open(p) \/ Lock(p) \/ Read(p) \/ SeekEnd(p) \/ Unlock(p) \/ Crash(p)
      PROVE  Numbered' /\ [Atomic!Next]_Atomic!vars
  <2>1. UNCHANGED file
    BY <1>2 DEF Open, Lock, Read, SeekEnd, Unlock, Crash
  <2>2. \E next : /\ pc' = [pc EXCEPT ![p] = next] /\ pc[p] \notin {"acked", "failed"}
                  /\ next = "acked" => pc[p] = "unlock"
                  /\ next = "failed" => pc[p] \in {"open", "read"}
    <3>1. CASE Open(p) \/ Lock(p)
      BY <3>1 DEF Open, Lock, Goto
    <3>2. CASE Read(p)
      BY <3>2 DEF Read, Goto
    <3>3. CASE SeekEnd(p) \/ Unlock(p)
      BY <3>3 DEF SeekEnd, Unlock, Goto
    <3>4. CASE Crash(p)
      <4>. DEFINE next == IF pc[p] = "newline" THEN "torn" ELSE "crashed"
      <4>1. pc' = [pc EXCEPT ![p] = next] /\ pc[p] \notin {"acked", "failed"}
        BY <3>4 DEF Crash, Ended, Goto
      <4>2. next \notin {"acked", "failed"}
        OBVIOUS
      <4>. HIDE DEF next
      <4>. QED BY <4>1, <4>2
    <3>. QED BY <1>2, <3>1, <3>2, <3>3, <3>4
  <2>. QED BY <1>1, <2>1, <2>2, QuietAtomic
<1>3. ASSUME NEW p \in Procs, WriteText(p)
      PROVE  Numbered' /\ [Atomic!Next]_Atomic!vars
  <2>1. /\ (IF Damaged THEN <<>> ELSE Entries) = Entries
        /\ (IF Damaged THEN <<>> ELSE Entries)' = Entries'
        /\ Damaged' = Damaged
    BY DEF Damaged
  <2>2. pc[p] = "text" /\ pc' = [pc EXCEPT ![p] = "newline"]
    BY <1>3 DEF WriteText, Goto
  <2>3. Answers' = Answers
    <3>1. Answers' = [Answers EXCEPT ![p] =
             CASE "newline" = "acked" -> "ok" [] "newline" = "failed" -> "err" [] OTHER -> "none"]
      BY <2>2, AnswersAre
    <3>2. Answers[p] = "none" /\ Answers = [q \in Procs |-> Answers[q]]
      BY <2>2 DEF Answers
    <3>. QED BY <3>1, <3>2
  <2>4. ~Atomic!Has(p) /\ Answers[p] = "none"
    BY <2>1, <2>2, WroteIt DEF Atomic!Has, Answers
  <2>5. /\ Numbered'
        /\ Entries' = Append(Entries,
             [by |-> p, index |-> Len(Entries),
              prev |-> IF Entries = <<>> THEN Genesis ELSE Entries[Len(Entries)].by])
    BY <1>3, TextAppends
  <2>6. Atomic!Put(p)
    BY <2>1, <2>3, <2>4, <2>5 DEF Atomic!Put, Atomic!Hash
  <2>. QED BY <2>5, <2>6 DEF Atomic!Next
<1>4. ASSUME NEW p \in Procs, WriteNewline(p)
      PROVE  Numbered' /\ [Atomic!Next]_Atomic!vars
  <2>1. LineStarts' = LineStarts /\ \A i \in LineStarts : Author(i)' = Author(i)
    <3>1. PICK n \in Nat : /\ \A i \in 1..n : file'[i] = file[i]
                           /\ LineStarts' = LineStarts /\ LineStarts \subseteq 1..n
      BY <1>4, NewlineLines
    <3>. QED BY <3>1 DEF Author
  <2>2. Numbered' /\ Entries' = Entries
    BY <2>1, SameEntries
  <2>3. pc[p] = "newline" /\ pc' = [pc EXCEPT ![p] = "unlock"]
    BY <1>4 DEF WriteNewline, Goto
  <2>. QED BY <2>2, <2>3, QuietAtomic
<1>5. ASSUME NEW p \in Procs, WriteTextFails(p) PROVE FALSE
  BY <1>5 DEF TypeOK, WriteTextFails, Goto, Damaged, Torn
<1>6. CASE Finished \/ UNCHANGED vars
  <2>1. UNCHANGED <<file, pc>>
    BY <1>6 DEF Finished, vars
  <2>2. Numbered' /\ Entries' = Entries
    BY <1>1, <2>1
  <2>3. Damaged' = Damaged
    BY <1>6 DEF Damaged, Torn, Finished, vars
  <2>. QED BY <2>1, <2>2, <2>3 DEF Atomic!vars, Answers
<1>. QED BY <1>2, <1>3, <1>4, <1>5, <1>6 DEF Next, Step

\* The processes share a log to which entries are added one at a time and at once,
\* whatever system calls an append is made of, until one is stopped within its writes
\* or one that may not lock works on the file beside another.
THEOREM AppendsAreAtomic == Spec => ImplementsAtomicLog
<1>. DEFINE InOrder == ~Damaged => Chained /\ Numbered
<1>1. Init => InOrder /\ Atomic!Init
  <2>. SUFFICES ASSUME Init PROVE InOrder /\ Atomic!Init
    OBVIOUS
  <2>1. LineStarts = {} /\ Cardinality(LineStarts) = 0
    BY FS_EmptySet DEF Init, LineStarts
  <2>2. Entries = <<>> /\ Numbered
    BY <2>1 DEF Entries, Numbered
  <2>3. ~Damaged /\ Answers = [p \in Procs |-> "none"]
    BY DEF Init, Damaged, Torn, Answers
  <2>. QED BY <2>2, <2>3, ChainedInit DEF Atomic!Init
<1>2. TypeOK /\ TypeOK' /\ (raced \/ Locked) /\ InOrder /\ [Next]_vars => InOrder' /\ [Atomic!Next]_Atomic!vars
  <2>. SUFFICES ASSUME TypeOK, TypeOK', raced \/ Locked, InOrder, [Next]_vars
                PROVE  InOrder' /\ [Atomic!Next]_Atomic!vars
    OBVIOUS
  <2>1. CASE Damaged'
    <3>1. Atomic!Damage
      BY <2>1, AnswersStay DEF Atomic!Damage
    <3>. QED BY <2>1, <3>1 DEF Atomic!Next
  <2>2. CASE ~Damaged'
    <3>1. ~Damaged /\ Chained /\ Numbered
      BY <2>2, DamagedStays
    <3>2. Chained'
      BY <2>2, <3>1, ChainedStep DEF Damaged
    <3>3. Locked
      BY <3>1 DEF Damaged
    <3>. QED BY <2>2, <3>1, <3>2, <3>3, AtomicStep
  <2>. QED BY <2>1, <2>2
<1>. HIDE DEF InOrder
<1>. QED BY <1>1, <1>2, Locking, TypeCorrect, PTL DEF Spec, ImplementsAtomicLog, Atomic!Spec
=============================================================================
