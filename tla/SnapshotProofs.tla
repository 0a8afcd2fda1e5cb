--------------------------- MODULE SnapshotProofs ---------------------------
(***************************************************************************)
(* Proofs about the snapshot pipeline, for every device size, buffer size, *)
(* queue depth and set of block values.                                    *)
(***************************************************************************)
EXTENDS Snapshot, SequenceTheorems, TLAPS

-----------------------------------------------------------------------------
(***************************************************************************)
(* Lemmas about the data types.                                            *)
(***************************************************************************)

\* A fresh buffer is a buffer (vec![0u8; BUFFER_SIZE]).
LEMMA ZeroBufferIsBuffer == ZeroBuffer \in Buffer
BY ConstantsAssumption DEF ZeroBuffer, Buffer

\* So is the message the reader and the calling thread start from.
LEMMA NoMessageIsMessage == NoMessage \in Message
BY ZeroBufferIsBuffer, ConstantsAssumption DEF NoMessage, Message

\* What a message carries: its first len blocks, `&buf[..n]`.
LEMMA PayloadIs ==
    ASSUME NEW m \in Message
    PROVE  /\ Payload(m) \in Seq(Data)
           /\ Len(Payload(m)) = m.len
           /\ \A i \in 1..m.len : Payload(m)[i] = m.buf[i]
<1>1. /\ m.len \in Nat
      /\ m.len <= BufSize
      /\ \A i \in 1..m.len : m.buf[i] \in Data
  BY ConstantsAssumption DEF Message, Buffer
<1>2. /\ SubSeq(m.buf, 1, m.len) \in Seq(Data)
      /\ Len(SubSeq(m.buf, 1, m.len)) = IF 1 <= m.len THEN m.len - 1 + 1 ELSE 0
      /\ \A i \in 1..(m.len - 1 + 1) : SubSeq(m.buf, 1, m.len)[i] = m.buf[1 + i - 1]
  BY <1>1, SubSeqProperties
<1>. QED BY <1>1, <1>2 DEF Payload
-----------------------------------------------------------------------------
(***************************************************************************)
(* Type correctness.                                                       *)
(***************************************************************************)

\* The variables keep their types initially.
LEMMA TypeInit == Init => TypeOK
<1>. SUFFICES ASSUME Init PROVE TypeOK
  OBVIOUS
<1>. QED BY NoMessageIsMessage, EmptySeq DEF Init, TypeOK

\* Every step of either thread and of the environment keeps the types.
LEMMA TypeStep == TypeOK /\ [Next]_vars => TypeOK'
<1>. SUFFICES ASSUME TypeOK, [Next]_vars PROVE TypeOK'
  OBVIOUS
<1>. USE DEF TypeOK, place
<1>1. CASE OpenSource
  BY <1>1 DEF OpenSource
<1>2. CASE CheckSpace
  BY <1>2 DEF CheckSpace
<1>3. CASE RefuseLink
  BY <1>3, EmptySeq DEF RefuseLink, FailAndRemove
<1>4. CASE OpenDestFails
  BY <1>4, EmptySeq DEF OpenDestFails, FailAndRemove
<1>5. CASE OpenDest
  <2>1. [i \in 1..QueueDepth |-> ZeroBuffer] \in Seq(Buffer)
    BY ConstantsAssumption, ZeroBufferIsBuffer, SeqDef
  <2>. QED BY <1>5, <2>1 DEF OpenDest
<1>6. CASE MainReceives
  <2>1. Head(data) \in Message /\ Tail(data) \in Seq(Message)
    BY <1>6, HeadTailProperties DEF MainReceives
  <2>. QED BY <1>6, <2>1, EmptySeq DEF MainReceives, FailAndRemove
<1>7. CASE MainWrites
  BY <1>7, PayloadIs, ConcatProperties DEF MainWrites
<1>8. CASE MainWriteFails
  BY <1>8, PayloadIs, ConcatProperties, EmptySeq DEF MainWriteFails, FailAndRemove
<1>9. CASE MainRecycles
  <2>1. cur.buf \in Buffer
    BY DEF Message
  <2>2. Append(free, cur.buf) \in Seq(Buffer)
    BY <2>1, AppendProperties
  <2>. QED BY <1>9, <2>2 DEF MainRecycles
<1>10. CASE MainJoins
  BY <1>10, EmptySeq DEF MainJoins, FailAndRemove
<1>11. CASE MainSeals
  BY <1>11 DEF MainSeals
<1>12. CASE ReaderTakes
  <2>1. Head(free) \in Buffer /\ Tail(free) \in Seq(Buffer)
    BY <1>12, HeadTailProperties DEF ReaderTakes
  <2>2. held' \in Message
    BY <1>12, <2>1 DEF ReaderTakes, Message
  <2>. QED BY <1>12, <2>1, <2>2 DEF ReaderTakes
<1>13. CASE ReaderStops
  BY <1>13 DEF ReaderStops
<1>14. CASE \E n \in 1..BufSize, answer \in Buffer : ReaderReads(n, answer)
  <2>. PICK n \in 1..BufSize, answer \in Buffer : ReaderReads(n, answer)
    BY <1>14
  <2>1. held' \in Message
    <3>1. Len(stream) \in Nat
      BY LenProperties
    <3>2. [i \in 1..BufSize |-> IF i <= n THEN answer[i] ELSE held.buf[i]] \in Buffer
      BY DEF Buffer, Message
    <3>3. n \in 0..BufSize
      BY ConstantsAssumption
    <3>. QED BY <3>1, <3>2, <3>3 DEF ReaderReads, Message
  <2>2. Payload(held') \in Seq(Data)
    BY <2>1, PayloadIs
  <2>3. stream' \in Seq(Data)
    BY <2>2, ConcatProperties DEF ReaderReads
  <2>. QED BY <2>1, <2>3 DEF ReaderReads
<1>15. CASE ReaderHitsEnd
  <2>1. held' \in Message
    <3>1. Len(stream) \in Nat /\ 0 \in 0..BufSize
      BY LenProperties, ConstantsAssumption
    <3>. QED BY <1>15, <3>1 DEF ReaderHitsEnd, Message
  <2>. QED BY <1>15, <2>1 DEF ReaderHitsEnd
<1>16. CASE ReaderFails
  <2>1. held' \in Message
    <3>1. Len(stream) \in Nat /\ 0 \in 0..BufSize
      BY LenProperties, ConstantsAssumption
    <3>. QED BY <1>16, <3>1 DEF ReaderFails, Message
  <2>. QED BY <1>16, <2>1 DEF ReaderFails
<1>17. CASE ReaderSends
  <2>1. Append(data, held) \in Seq(Message)
    BY AppendProperties
  <2>. QED BY <1>17, <2>1 DEF ReaderSends
<1>18. CASE Unplug
  BY <1>18 DEF Unplug
<1>19. CASE Kill
  BY <1>19 DEF Kill
<1>20. CASE Finished \/ UNCHANGED vars
  BY <1>20 DEF Finished, vars, place
<1>. QED
  BY <1>1, <1>2, <1>3, <1>4, <1>5, <1>6, <1>7, <1>8, <1>9, <1>10, <1>11, <1>12,
     <1>13, <1>14, <1>15, <1>16, <1>17, <1>18, <1>19, <1>20 DEF Next, Main, Reader

\* The type invariant holds for every device, buffer and queue size.
THEOREM TypeCorrect == Spec => []TypeOK
BY TypeInit, TypeStep, PTL DEF Spec
-----------------------------------------------------------------------------
(***************************************************************************)
(* The inductive invariant.                                                *)
(***************************************************************************)

Copying  == mpc \in {"recv", "write", "recycle"}
Complete == mpc \in {"join", "seal", "ok"}

\* What holds around the copy: nothing exists before the destination is opened,
\* the file is ours until the call fails, and a file that was not read-only
\* before the call is sealed by a finished one only.
Phases ==
    /\ rpc = "unborn" => /\ ~Copying /\ ~Complete
                         /\ free = <<>> /\ data = <<>>
                         /\ stream = <<>> /\ image = <<>> /\ hashed = <<>>
    /\ mpc \in {"open_source", "check_space", "open_dest"} =>
           rpc = "unborn" /\ dest # "ours"
    /\ Copying \/ Complete => dest = "ours"
    /\ mpc = "err" /\ removable => dest # "ours" /\ image = <<>>
    /\ mpc = "dead" => rpc = "done"
    /\ sealed => mpc = "ok" \/ readonly

\* Every buffer is in one place: a channel, the reader's hands or main's.
ReaderHolds == IF rpc \in {"read", "send"} THEN 1 ELSE 0
MainHolds   == IF mpc \in {"write", "recycle"} THEN 1 ELSE 0

Conservation == Len(free) + Len(data) + ReaderHolds + MainHolds <= QueueDepth

\* A message starts where the one before it ends: Received is where the first
\* message of the data channel starts, Sent where the last one ends.
Extent(m) == m.at + m.len

Received == Len(image) + (IF mpc = "write" THEN cur.len ELSE 0)

Sent == IF data = <<>> THEN Received ELSE Extent(data[Len(data)])

\* The blocks a message carries are the device's, only chunks carry blocks.
Genuine(m, s) ==
    /\ Extent(m) <= Len(s)
    /\ \A i \in 1..m.len : m.buf[i] = s[m.at + i]
    /\ m.kind # "chunk" => m.len = 0

Queued ==
    \A j \in 1..Len(data) :
        /\ Genuine(data[j], stream)
        /\ data[j].at = IF j = 1 THEN Received ELSE Extent(data[j - 1])

OneFinalMessage ==
    /\ \A j \in 1..Len(data) :
          data[j].kind # "chunk" <=> (rpc = "done" /\ j = Len(data))
    /\ rpc = "done" => data # <<>>

MainsChunk == mpc = "write" => Genuine(cur, stream) /\ cur.at = Len(image)

ReadersMessage ==
    IF rpc = "send"
      THEN Genuine(held, stream) /\ held.at = Sent /\ Extent(held) = Len(stream)
      ELSE Sent = Len(stream)

\* While main copies, what is under way is exactly what the device returned
\* and the image does not hold yet, in order, with one final message at most.
Flow == Copying => Queued /\ OneFinalMessage /\ MainsChunk /\ ReadersMessage

\* Main leaves the loop when the image is whole and the reader has ended.
Whole == Complete => rpc = "done" /\ Len(image) = Len(stream)

\* What is written is hashed, and is what the device returned.
Copied ==
    /\ Prefix(image, stream)
    /\ Copying \/ Complete => hashed = image

SafeInv == Phases /\ Conservation /\ Flow /\ Whole /\ Copied
-----------------------------------------------------------------------------
(***************************************************************************)
(* The parts of the invariant hold initially and are kept by every step.   *)
(***************************************************************************)

LEMMA SafeInit == Init => SafeInv
<1>. SUFFICES ASSUME Init PROVE SafeInv
  OBVIOUS
<1>. USE DEF Init, Copying, Complete
<1>1. Phases
  BY DEF Phases
<1>2. Conservation
  BY ConstantsAssumption DEF Conservation, ReaderHolds, MainHolds
<1>3. Flow /\ Whole /\ Copied
  BY DEF Flow, Whole, Copied, Prefix
<1>. QED BY <1>1, <1>2, <1>3 DEF SafeInv

\* Sequences as the two channels use them.
LEMMA Received1 ==
    ASSUME NEW S, NEW s \in Seq(S), s # <<>>
    PROVE  /\ Head(s) = s[1]
           /\ Tail(s) \in Seq(S)
           /\ Len(Tail(s)) = Len(s) - 1
           /\ \A i \in 1..Len(Tail(s)) : Tail(s)[i] = s[i + 1]
           /\ Tail(s) = <<>> <=> Len(s) = 1
           /\ Len(s) \in Nat \ {0}
<1>1. Head(s) = s[1]
  BY Z3
<1>2. Len(s) \in Nat \ {0}
  BY EmptySeq
<1>3. /\ Tail(s) \in Seq(S)
      /\ Len(Tail(s)) = Len(s) - 1
      /\ \A i \in 1..Len(Tail(s)) : Tail(s)[i] = s[i + 1]
  BY HeadTailProperties
<1>4. Tail(s) = <<>> <=> Len(Tail(s)) = 0
  BY <1>3, EmptySeq
<1>. QED BY <1>1, <1>2, <1>3, <1>4

\* Every step of the two threads keeps their places in tune with the messages.
LEMMA PhasesStep == TypeOK /\ Phases /\ [Next]_vars => Phases'
<1>. SUFFICES ASSUME TypeOK, Phases, [Next]_vars PROVE Phases'
  OBVIOUS
<1>. USE DEF TypeOK, Phases, Copying, Complete, place
<1>1. ASSUME Main PROVE Phases'
  <2>1. CASE OpenSource \/ CheckSpace
    BY <2>1 DEF OpenSource, CheckSpace
  <2>2. CASE RefuseLink
    BY <2>2 DEF RefuseLink, FailAndRemove
  <2>3. CASE OpenDestFails \/ OpenDest
    BY <2>3 DEF OpenDestFails, OpenDest, FailAndRemove
  <2>4. CASE MainReceives
    BY <2>4 DEF MainReceives, FailAndRemove
  <2>5. CASE MainWrites \/ MainWriteFails
    BY <2>5 DEF MainWrites, MainWriteFails, FailAndRemove
  <2>6. CASE MainRecycles
    BY <2>6 DEF MainRecycles
  <2>7. CASE MainJoins
    BY <2>7 DEF MainJoins, FailAndRemove
  <2>8. CASE MainSeals
    BY <2>8 DEF MainSeals
  <2>. QED BY <1>1, <2>1, <2>2, <2>3, <2>4, <2>5, <2>6, <2>7, <2>8 DEF Main
<1>2. ASSUME Reader PROVE Phases'
  BY <1>2 DEF Reader, ReaderTakes, ReaderStops, ReaderReads, ReaderHitsEnd,
              ReaderFails, ReaderSends, MainAlive, MainDone
<1>3. CASE Unplug \/ Kill
  BY <1>3 DEF Unplug, Kill, MainAlive, MainDone
<1>4. CASE Finished \/ UNCHANGED vars
  BY <1>4 DEF Finished, vars, place
<1>. QED BY <1>1, <1>2, <1>3, <1>4 DEF Next

\* No step makes or loses a buffer while both threads run.
LEMMA ConservationStep ==
    TypeOK /\ Phases /\ Conservation /\ [Next]_vars => Conservation'
<1>. SUFFICES ASSUME TypeOK, Phases, Conservation, [Next]_vars
              PROVE Conservation'
  OBVIOUS
<1>0. Len(free) \in Nat /\ Len(data) \in Nat
  BY LenProperties DEF TypeOK
<1>. USE <1>0, ConstantsAssumption DEF Conservation, ReaderHolds, MainHolds
<1>1. CASE OpenSource \/ CheckSpace \/ RefuseLink \/ OpenDestFails
  BY <1>1 DEF OpenSource, CheckSpace, RefuseLink, OpenDestFails, FailAndRemove
<1>2. CASE OpenDest
  <2>1. data = <<>> /\ Len(data) = 0
    BY <1>2, EmptySeq DEF Phases, OpenDest
  <2>2. Len(free') = QueueDepth
    BY <1>2 DEF OpenDest
  <2>. QED BY <1>2, <2>1, <2>2 DEF OpenDest
<1>3. CASE MainReceives
  <2>1. Len(data') = Len(data) - 1
    BY <1>3, Received1 DEF MainReceives, TypeOK
  <2>. QED BY <1>3, <2>1 DEF MainReceives, FailAndRemove
<1>4. CASE MainWrites \/ MainWriteFails
  BY <1>4 DEF MainWrites, MainWriteFails, FailAndRemove
<1>5. CASE MainRecycles
  <2>1. Len(free') \in {Len(free), Len(free) + 1}
    <3>1. cur.buf \in Buffer
      BY DEF TypeOK, Message
    <3>2. Len(Append(free, cur.buf)) = Len(free) + 1
      BY <3>1, AppendProperties DEF TypeOK
    <3>. QED BY <1>5, <3>2 DEF MainRecycles
  <2>. QED BY <1>5, <2>1 DEF MainRecycles
<1>6. CASE MainJoins \/ MainSeals
  BY <1>6 DEF MainJoins, MainSeals, FailAndRemove
<1>7. CASE ReaderTakes
  <2>1. Len(free') = Len(free) - 1
    BY <1>7, Received1 DEF ReaderTakes, TypeOK
  <2>. QED BY <1>7, <2>1 DEF ReaderTakes
<1>8. CASE ReaderStops \/ ReaderHitsEnd \/ ReaderFails
  BY <1>8 DEF ReaderStops, ReaderHitsEnd, ReaderFails
<1>9. CASE \E n \in 1..BufSize, answer \in Buffer : ReaderReads(n, answer)
  BY <1>9 DEF ReaderReads
<1>10. CASE ReaderSends
  <2>1. Len(data') \in {Len(data), Len(data) + 1}
    <3>1. Len(Append(data, held)) = Len(data) + 1
      BY AppendProperties DEF TypeOK
    <3>. QED BY <1>10, <3>1 DEF ReaderSends
  <2>. QED BY <1>10, <2>1 DEF ReaderSends
<1>11. CASE Unplug \/ Kill
  BY <1>11 DEF Unplug, Kill
<1>12. CASE Finished \/ UNCHANGED vars
  BY <1>12 DEF Finished, vars, place
<1>. QED
  BY <1>1, <1>2, <1>3, <1>4, <1>5, <1>6, <1>7, <1>8, <1>9, <1>10, <1>11, <1>12
  DEF Next, Main, Reader

\* What the device returned stays what it returned.
LEMMA GenuineStays ==
    ASSUME NEW m \in Message, NEW s \in Seq(Data), NEW t \in Seq(Data),
           Prefix(s, t), Genuine(m, s)
    PROVE  Genuine(m, t)
<1>1. m.at \in Nat /\ m.len \in Nat
  BY ConstantsAssumption DEF Message
<1>2. Len(s) \in Nat /\ Len(t) \in Nat
  BY LenProperties
<1>3. \A i \in 1..m.len : m.at + i \in 1..Len(s)
  BY <1>1, <1>2 DEF Genuine, Extent
<1>. QED BY <1>1, <1>2, <1>3 DEF Genuine, Extent, Prefix

\* A successful read: the message carries the next n blocks of the stream.
LEMMA ReadIsGenuine ==
    ASSUME TypeOK, TypeOK', NEW n \in 1..BufSize, NEW answer \in Buffer,
           ReaderReads(n, answer)
    PROVE  /\ Prefix(stream, stream')
           /\ Len(stream') = Len(stream) + n
           /\ Genuine(held', stream')
           /\ held'.at = Len(stream)
           /\ Extent(held') = Len(stream')
<1>1. /\ held' \in Message /\ stream \in Seq(Data)
      /\ held'.kind = "chunk" /\ held'.len = n /\ held'.at = Len(stream)
      /\ stream' = stream \o Payload(held')
  BY DEF TypeOK, ReaderReads
<1>2. /\ Payload(held') \in Seq(Data)
      /\ Len(Payload(held')) = n
      /\ \A i \in 1..n : Payload(held')[i] = held'.buf[i]
  BY <1>1, PayloadIs
<1>3. Len(stream) \in Nat /\ n \in Nat
  BY <1>1, LenProperties
<1>4. /\ Len(stream') = Len(stream) + n
      /\ \A i \in 1..(Len(stream) + n) :
            stream'[i] = IF i <= Len(stream) THEN stream[i]
                                             ELSE Payload(held')[i - Len(stream)]
  <2>. DEFINE P == Payload(held')
  <2>1. /\ Len(stream \o P) = Len(stream) + Len(P)
        /\ \A i \in 1..(Len(stream) + Len(P)) :
              (stream \o P)[i] = IF i <= Len(stream) THEN stream[i]
                                                    ELSE P[i - Len(stream)]
    <3>. HIDE DEF P
    <3>1. P \in Seq(Data)
      BY <1>2 DEF P
    <3>. QED BY <1>1, <3>1, ConcatProperties
  <2>. QED BY <1>1, <1>2, <2>1
<1>5. Prefix(stream, stream')
  BY <1>3, <1>4 DEF Prefix
<1>6. \A i \in 1..n : held'.buf[i] = stream'[Len(stream) + i]
  BY <1>2, <1>3, <1>4
<1>. QED BY <1>1, <1>3, <1>4, <1>5, <1>6 DEF Genuine, Extent

\* Every step keeps the reads under way adjacent.
LEMMA FlowStep ==
    TypeOK /\ TypeOK' /\ Phases /\ Flow /\ [Next]_vars => Flow'
<1>. SUFFICES ASSUME TypeOK, TypeOK', Phases, Flow, [Next]_vars, Copying'
              PROVE (Queued /\ OneFinalMessage /\ MainsChunk /\ ReadersMessage)'
  BY DEF Flow
<1>0. /\ Len(data) \in Nat /\ Len(stream) \in Nat /\ Len(image) \in Nat
      /\ cur.len \in Nat /\ held.len \in Nat
      /\ \A j \in 1..Len(data) : /\ data[j] \in Message
                                 /\ data[j].at \in Nat /\ data[j].len \in Nat
  <2>1. \A m \in Message : m.at \in Nat /\ m.len \in Nat
    BY ConstantsAssumption DEF Message
  <2>. QED BY <2>1, LenProperties, ElementOfSeq DEF TypeOK
<1>1. CASE OpenDest
  <2>1. data' = <<>> /\ image' = <<>> /\ stream' = <<>> /\ mpc' = "recv" /\ rpc' = "recv"
    BY <1>1 DEF OpenDest, Phases
  <2>2. Len(data') = 0 /\ Len(image') = 0 /\ Len(stream') = 0
    BY <2>1, EmptySeq
  <2>. QED BY <2>1, <2>2 DEF Queued, OneFinalMessage, MainsChunk, ReadersMessage, Sent, Received
<1>2. CASE MainReceives
  <2>1. /\ mpc = "recv" /\ mpc' = "write" /\ data # <<>>
        /\ cur' = Head(data) /\ data' = Tail(data) /\ Head(data).kind = "chunk"
        /\ UNCHANGED <<rpc, held, stream, image>>
    BY <1>2 DEF MainReceives, Copying, FailAndRemove
  <2>2. /\ cur' = data[1]
        /\ Len(data') = Len(data) - 1
        /\ Len(data) >= 1
        /\ \A j \in 1..Len(data') : data'[j] = data[j + 1]
        /\ data' = <<>> <=> Len(data) = 1
    <3>1. data \in Seq(Message)
      BY DEF TypeOK
    <3>2. Len(data) >= 1
      BY <1>0, <2>1, <3>1, EmptySeq
    <3>. QED BY <1>0, <2>1, <3>1, <3>2, Received1
  <2>3. Queued /\ OneFinalMessage /\ MainsChunk /\ ReadersMessage
    BY <2>1 DEF Flow, Copying
  <2>4. /\ Genuine(data[1], stream) /\ data[1].at = Len(image)
        /\ Received' = Extent(data[1])
    BY <1>0, <2>1, <2>2, <2>3 DEF Queued, Received, Extent
  <2>5. Queued'
    <3>. SUFFICES ASSUME NEW j \in 1..Len(data')
                  PROVE  /\ Genuine(data'[j], stream')
                         /\ data'[j].at = IF j = 1 THEN Received' ELSE Extent(data'[j - 1])
      BY DEF Queued, Extent
    <3>1. j + 1 \in 1..Len(data) /\ data'[j] = data[j + 1]
      BY <1>0, <2>2
    <3>2. Genuine(data[j + 1], stream) /\ data[j + 1].at = Extent(data[j])
      BY <1>0, <2>3, <3>1 DEF Queued
    <3>3. j # 1 => data'[j - 1] = data[j]
      BY <1>0, <2>2
    <3>. QED BY <2>1, <2>4, <3>1, <3>2, <3>3
  <2>6. OneFinalMessage'
    <3>1. \A j \in 1..Len(data') : j + 1 \in 1..Len(data) /\ data'[j] = data[j + 1]
      BY <1>0, <2>2
    <3>2. \A j \in 1..Len(data') :
             data'[j].kind # "chunk" <=> (rpc' = "done" /\ j = Len(data'))
      <4>. TAKE j \in 1..Len(data')
      <4>1. j + 1 \in 1..Len(data) /\ data'[j] = data[j + 1]
        BY <3>1
      <4>2. data[j + 1].kind # "chunk" <=> (rpc = "done" /\ j + 1 = Len(data))
        BY <2>3, <4>1 DEF OneFinalMessage
      <4>3. j + 1 = Len(data) <=> j = Len(data')
        BY <1>0, <2>2
      <4>4. rpc' = rpc
        BY <2>1
      <4>. QED BY <4>1, <4>2, <4>3, <4>4
    <3>3. data[1].kind = "chunk" /\ 1 \in 1..Len(data)
      BY <1>0, <2>1, <2>2
    <3>4. rpc = "done" => Len(data) # 1
      BY <2>3, <3>3 DEF OneFinalMessage
    <3>. QED BY <2>1, <2>2, <3>2, <3>4 DEF OneFinalMessage
  <2>7. MainsChunk'
    BY <2>1, <2>2, <2>4 DEF MainsChunk
  <2>8. Sent' = Sent
    <3>1. CASE Len(data) = 1
      BY <2>1, <2>2, <2>4, <3>1 DEF Sent, Extent
    <3>2. CASE Len(data) # 1
      <4>1. data'[Len(data')] = data[Len(data)]
        BY <1>0, <2>2, <3>2
      <4>. QED BY <2>1, <2>2, <3>2, <4>1 DEF Sent, Extent
    <3>. QED BY <3>1, <3>2
  <2>9. ReadersMessage'
    BY <2>1, <2>3, <2>8 DEF ReadersMessage, Extent
  <2>. QED BY <2>5, <2>6, <2>7, <2>9
<1>3. CASE MainWrites \/ MainRecycles
  <2>1. /\ Copying /\ mpc' # "write"
        /\ UNCHANGED <<rpc, held, data, stream>>
    BY <1>3 DEF MainWrites, MainRecycles, Copying
  <2>2. Received' = Received
    <3>1. CASE MainWrites
      <4>1. Len(image') = Len(image) + cur.len
        <5>1. Payload(cur) \in Seq(Data) /\ Len(Payload(cur)) = cur.len
          BY PayloadIs DEF TypeOK
        <5>2. Len(image \o Payload(cur)) = Len(image) + Len(Payload(cur))
          BY <5>1, ConcatProperties DEF TypeOK
        <5>. QED BY <3>1, <5>1, <5>2 DEF MainWrites
      <4>. QED BY <3>1, <4>1, <1>0 DEF MainWrites, Received
    <3>2. CASE MainRecycles
      BY <3>2 DEF MainRecycles, Received
    <3>. QED BY <1>3, <3>1, <3>2
  <2>3. Sent' = Sent
    BY <2>1, <2>2 DEF Sent, Extent
  <2>. QED BY <2>1, <2>2, <2>3
           DEF Flow, Queued, OneFinalMessage, MainsChunk, ReadersMessage, Extent
<1>4. CASE ReaderTakes
  <2>1. /\ Copying /\ rpc = "recv" /\ rpc' = "read"
        /\ UNCHANGED <<mpc, cur, data, stream, image>>
    BY <1>4 DEF ReaderTakes, Copying
  <2>. QED BY <2>1 DEF Flow, Queued, OneFinalMessage, MainsChunk, ReadersMessage,
                      Sent, Received, Extent
<1>5. CASE \E n \in 1..BufSize, answer \in Buffer : ReaderReads(n, answer)
  <2>. PICK n \in 1..BufSize, answer \in Buffer : ReaderReads(n, answer)
    BY <1>5
  <2>1. /\ Copying /\ rpc = "read" /\ rpc' = "send"
        /\ UNCHANGED <<mpc, cur, data, image>>
    BY DEF ReaderReads, Copying
  <2>2. /\ Prefix(stream, stream')
        /\ Genuine(held', stream') /\ held'.at = Len(stream)
        /\ Extent(held') = Len(stream')
    BY ReadIsGenuine
  <2>3. Received' = Received /\ Sent' = Sent
    BY <2>1 DEF Sent, Received, Extent
  <2>4. \A m \in Message : Genuine(m, stream) => Genuine(m, stream')
    BY <2>2, GenuineStays DEF TypeOK
  <2>5. Queued'
    BY <1>0, <2>1, <2>3, <2>4 DEF Flow, Queued, Extent
  <2>6. MainsChunk'
    BY <2>1, <2>4 DEF Flow, MainsChunk, TypeOK
  <2>7. ReadersMessage'
    BY <2>1, <2>2, <2>3 DEF Flow, ReadersMessage
  <2>8. OneFinalMessage'
    BY <2>1 DEF Flow, OneFinalMessage
  <2>. QED BY <2>5, <2>6, <2>7, <2>8
<1>6. CASE ReaderHitsEnd \/ ReaderFails
  <2>1. /\ Copying /\ rpc = "read" /\ rpc' = "send"
        /\ held'.at = Len(stream) /\ held'.len = 0
        /\ UNCHANGED <<mpc, cur, data, stream, image>>
    BY <1>6 DEF ReaderHitsEnd, ReaderFails, Copying, TypeOK, Message
  <2>2. Genuine(held', stream') /\ Extent(held') = Len(stream')
    BY <1>0, <2>1 DEF Genuine, Extent
  <2>. QED BY <2>1, <2>2 DEF Flow, Queued, OneFinalMessage, MainsChunk,
                            ReadersMessage, Sent, Received, Extent
<1>7. CASE ReaderSends
  <2>1. /\ Copying /\ rpc = "send" /\ data' = Append(data, held)
        /\ rpc' = IF held.kind = "chunk" THEN "recv" ELSE "done"
        /\ UNCHANGED <<mpc, held, cur, stream, image>>
    BY <1>7 DEF ReaderSends, Copying, MainDone, MainAlive
  <2>2. /\ Len(data') = Len(data) + 1 /\ data' # <<>>
        /\ \A j \in 1..Len(data) : data'[j] = data[j]
        /\ data'[Len(data) + 1] = held
    BY <2>1, AppendProperties DEF TypeOK
  <2>3. Queued /\ OneFinalMessage /\ MainsChunk /\ ReadersMessage
    BY <2>1 DEF Flow
  <2>4. /\ Genuine(held, stream) /\ Extent(held) = Len(stream)
        /\ held.at = IF Len(data) = 0 THEN Received ELSE Extent(data[Len(data)])
    BY <2>1, <2>3, EmptySeq DEF ReadersMessage, Sent, TypeOK
  <2>5. Received' = Received
    BY <2>1 DEF Received
  <2>6. Queued'
    BY <1>0, <2>1, <2>2, <2>3, <2>4, <2>5 DEF Queued, Extent
  <2>7. OneFinalMessage'
    BY <1>0, <2>1, <2>2, <2>3 DEF OneFinalMessage
  <2>8. MainsChunk'
    BY <2>1, <2>3 DEF MainsChunk
  <2>9. ReadersMessage'
    BY <1>0, <2>1, <2>2, <2>4 DEF ReadersMessage, Sent, Extent
  <2>. QED BY <2>6, <2>7, <2>8, <2>9
<1>8. CASE Unplug \/ Finished \/ UNCHANGED vars
  <2>1. Copying /\ UNCHANGED <<mpc, rpc, held, cur, data, stream, image>>
    BY <1>8 DEF Unplug, Finished, vars, place, Copying
  <2>. QED BY <2>1 DEF Flow, Queued, OneFinalMessage, MainsChunk, ReadersMessage,
                      Sent, Received, Extent
<1>9. CASE OpenSource \/ CheckSpace \/ RefuseLink \/ OpenDestFails \/ MainWriteFails
           \/ MainJoins \/ MainSeals \/ ReaderStops \/ Kill
  BY <1>9 DEF OpenSource, CheckSpace, RefuseLink, OpenDestFails, MainWriteFails,
              MainJoins, MainSeals, ReaderStops, Kill, FailAndRemove, Copying, MainDone
<1>. QED BY <1>1, <1>2, <1>3, <1>4, <1>5, <1>6, <1>7, <1>8, <1>9
         DEF Next, Main, Reader

\* Main leaves its loop on the final message only: the reader has ended and the
\* image holds everything the device returned.
LEMMA WholeStep ==
    TypeOK /\ Phases /\ Flow /\ Whole /\ [Next]_vars => Whole'
<1>. SUFFICES ASSUME TypeOK, Phases, Flow, Whole, [Next]_vars, Complete'
              PROVE rpc' = "done" /\ Len(image') = Len(stream')
  BY DEF Whole
<1>1. CASE MainReceives
  <2>1. /\ mpc = "recv" /\ data # <<>> /\ Head(data).kind = "end"
        /\ UNCHANGED <<rpc, stream, image>>
    BY <1>1 DEF MainReceives, FailAndRemove, Complete
  <2>2. OneFinalMessage /\ Queued /\ ReadersMessage
    BY <2>1 DEF Flow, Copying
  <2>3. Head(data) = data[1] /\ 1 \in 1..Len(data)
    <3>1. Len(data) \in Nat \ {0}
      BY <2>1, Received1 DEF TypeOK
    <3>. QED BY <2>1, <3>1, Received1 DEF TypeOK
  <2>4. rpc = "done" /\ Len(data) = 1
    BY <2>1, <2>2, <2>3 DEF OneFinalMessage
  <2>5. Extent(data[1]) = Len(stream) /\ data[1].at = Len(image) /\ data[1].len = 0
    BY <2>1, <2>2, <2>3, <2>4 DEF ReadersMessage, Sent, Queued, Received, Genuine
  <2>6. Len(image) \in Nat
    BY LenProperties DEF TypeOK
  <2>. QED BY <2>1, <2>4, <2>5, <2>6 DEF Extent
<1>2. CASE MainJoins \/ MainSeals
  BY <1>2 DEF MainJoins, MainSeals, FailAndRemove, Whole, Complete
<1>3. CASE Unplug \/ Finished \/ UNCHANGED vars
  BY <1>3 DEF Unplug, Finished, vars, place, Whole, Complete
<1>4. CASE Reader
  <2>1. UNCHANGED mpc /\ rpc # "done"
    BY <1>4 DEF Reader, ReaderTakes, ReaderStops, ReaderReads, ReaderHitsEnd,
                ReaderFails, ReaderSends
  <2>. QED BY <2>1 DEF Whole, Complete
<1>5. CASE OpenSource \/ CheckSpace \/ RefuseLink \/ OpenDestFails \/ OpenDest
           \/ MainWrites \/ MainWriteFails \/ MainRecycles \/ Kill
  BY <1>5 DEF OpenSource, CheckSpace, RefuseLink, OpenDestFails, OpenDest, MainWrites,
              MainWriteFails, MainRecycles, Kill, FailAndRemove, Complete
<1>. QED BY <1>1, <1>2, <1>3, <1>4, <1>5 DEF Next, Main

\* Writing the chunk main holds extends the image by the next blocks read.
LEMMA CopiedStep ==
    TypeOK /\ TypeOK' /\ Phases /\ Flow /\ Whole /\ Copied /\ [Next]_vars => Copied'
<1>. SUFFICES ASSUME TypeOK, TypeOK', Phases, Flow, Whole, Copied, [Next]_vars
              PROVE Copied'
  OBVIOUS
<1>0. Len(image) \in Nat /\ Len(stream) \in Nat /\ cur.len \in Nat
  BY LenProperties, ConstantsAssumption DEF TypeOK, Message
<1>1. CASE MainWrites
  <2>1. /\ Copying /\ mpc = "write" /\ UNCHANGED stream
        /\ image' = image \o Payload(cur) /\ hashed' = hashed \o Payload(cur)
    BY <1>1 DEF MainWrites, Copying
  <2>2. Genuine(cur, stream) /\ cur.at = Len(image)
    BY <2>1 DEF Flow, MainsChunk
  <2>3. /\ Payload(cur) \in Seq(Data) /\ Len(Payload(cur)) = cur.len
        /\ \A i \in 1..cur.len : Payload(cur)[i] = cur.buf[i]
    BY PayloadIs DEF TypeOK
  <2>4. /\ Len(image') = Len(image) + cur.len
        /\ \A i \in 1..(Len(image) + cur.len) :
              image'[i] = IF i <= Len(image) THEN image[i]
                                             ELSE Payload(cur)[i - Len(image)]
    <3>. DEFINE P == Payload(cur)
    <3>1. /\ Len(image \o P) = Len(image) + Len(P)
          /\ \A i \in 1..(Len(image) + Len(P)) :
                (image \o P)[i] = IF i <= Len(image) THEN image[i] ELSE P[i - Len(image)]
      <4>. HIDE DEF P
      <4>1. image \in Seq(Data) /\ P \in Seq(Data)
        BY <2>3 DEF TypeOK, P
      <4>. QED BY <4>1, ConcatProperties
    <3>2. image' = image \o P /\ Len(P) = cur.len
      BY <2>1, <2>3
    <3>. HIDE DEF P
    <3>3. /\ Len(image') = Len(image) + cur.len
          /\ \A i \in 1..(Len(image) + cur.len) :
                image'[i] = IF i <= Len(image) THEN image[i] ELSE P[i - Len(image)]
      BY <3>1, <3>2
    <3>. QED BY <3>3 DEF P
  <2>5. \A i \in 1..cur.len : Payload(cur)[i] = stream[Len(image) + i]
    BY <2>2, <2>3 DEF Genuine
  <2>6. Len(image) + cur.len <= Len(stream)
    BY <2>2 DEF Genuine, Extent
  <2>7. \A i \in 1..(Len(image) + cur.len) : image'[i] = stream[i]
    <3>. TAKE i \in 1..(Len(image) + cur.len)
    <3>1. CASE i <= Len(image)
      BY <1>0, <2>4, <3>1 DEF Copied, Prefix
    <3>2. CASE ~(i <= Len(image))
      <4>1. i - Len(image) \in 1..cur.len /\ Len(image) + (i - Len(image)) = i
        BY <1>0, <3>2
      <4>. QED BY <2>4, <2>5, <3>2, <4>1
    <3>. QED BY <3>1, <3>2
  <2>8. hashed = image
    BY <2>1 DEF Copied
  <2>. QED BY <2>1, <2>4, <2>6, <2>7, <2>8 DEF Copied, Prefix
<1>2. CASE \E n \in 1..BufSize, answer \in Buffer : ReaderReads(n, answer)
  <2>. PICK n \in 1..BufSize, answer \in Buffer : ReaderReads(n, answer)
    BY <1>2
  <2>1. Prefix(stream, stream')
    BY ReadIsGenuine
  <2>2. Len(stream') \in Nat
    BY LenProperties DEF TypeOK
  <2>3. UNCHANGED <<mpc, image, hashed>>
    BY DEF ReaderReads
  <2>4. Prefix(image, stream')
    BY <1>0, <2>1, <2>2 DEF Copied, Prefix
  <2>. QED BY <2>3, <2>4 DEF Copied, Copying, Complete
<1>3. CASE OpenDest
  BY <1>3, EmptySeq DEF OpenDest, Phases, Copied
<1>4. ASSUME FailAndRemove, UNCHANGED stream PROVE Copied'
  <2>1. mpc' = "err"
    BY <1>4 DEF FailAndRemove
  <2>2. CASE removable
    <3>1. image' = <<>> /\ Len(image') = 0
      BY <1>4, <2>2, EmptySeq DEF FailAndRemove
    <3>. QED BY <1>0, <1>4, <2>1, <3>1 DEF Copied, Prefix, Copying, Complete
  <2>3. CASE ~removable
    <3>1. UNCHANGED <<image, stream>>
      BY <1>4, <2>3 DEF FailAndRemove
    <3>. QED BY <2>1, <3>1 DEF Copied, Prefix, Copying, Complete
  <2>. QED BY <2>2, <2>3
<1>5. ASSUME UNCHANGED <<image, hashed, stream>>, (Copying \/ Complete)' => Copying \/ Complete
      PROVE Copied'
  BY <1>5 DEF Copied, Prefix
<1>6. CASE MainReceives
  <2>1. \/ FailAndRemove /\ UNCHANGED stream
        \/ UNCHANGED <<image, hashed, stream>> /\ Copying
    BY <1>6 DEF MainReceives, Copying
  <2>. QED BY <1>4, <1>5, <2>1
<1>7. CASE MainJoins
  <2>1. \/ FailAndRemove /\ UNCHANGED stream
        \/ UNCHANGED <<image, hashed, stream>> /\ Complete
    BY <1>7 DEF MainJoins, Complete
  <2>. QED BY <1>4, <1>5, <2>1
<1>8. CASE RefuseLink \/ OpenDestFails \/ MainWriteFails
  BY <1>4, <1>8 DEF RefuseLink, OpenDestFails, MainWriteFails
<1>9. CASE OpenSource \/ CheckSpace \/ MainRecycles \/ MainSeals
           \/ Unplug \/ Kill \/ Finished \/ UNCHANGED vars
  <2>1. UNCHANGED <<image, hashed, stream>>
    BY <1>9 DEF OpenSource, CheckSpace, MainRecycles, MainSeals,
                Unplug, Kill, Finished, vars, place
  <2>2. (Copying \/ Complete)' => Copying \/ Complete
    BY <1>9 DEF OpenSource, CheckSpace, MainRecycles, MainSeals,
                Unplug, Kill, Finished, vars, place, Copying, Complete
  <2>. QED BY <1>5, <2>1, <2>2
<1>10. CASE ReaderTakes \/ ReaderStops \/ ReaderHitsEnd \/ ReaderFails \/ ReaderSends
  <2>1. UNCHANGED <<image, hashed, stream, mpc>>
    BY <1>10 DEF ReaderTakes, ReaderStops, ReaderHitsEnd, ReaderFails, ReaderSends
  <2>. QED BY <1>5, <2>1 DEF Copying, Complete
<1>. QED BY <1>1, <1>2, <1>3, <1>6, <1>7, <1>8, <1>9, <1>10 DEF Next, Main, Reader

-----------------------------------------------------------------------------
(***************************************************************************)
(* The safety theorems.                                                    *)
(***************************************************************************)

\* The parts of the invariant hold together in every reachable state.
THEOREM Safety == Spec => []SafeInv
<1>1. Init => TypeOK /\ SafeInv
  BY TypeInit, SafeInit
<1>2. TypeOK /\ SafeInv /\ [Next]_vars => (TypeOK /\ SafeInv)'
  BY TypeStep, PhasesStep, ConservationStep, FlowStep, WholeStep, CopiedStep
  DEF SafeInv
<1>. QED BY <1>1, <1>2, PTL DEF Spec

\* The two channels and the recycled buffers lose, repeat and reorder nothing.
THEOREM ImageAlwaysPrefix == Spec => []ImageIsPrefix
<1>1. SafeInv => ImageIsPrefix
  BY DEF SafeInv, Copied, ImageIsPrefix
<1>. QED BY <1>1, Safety, PTL

\* A returned snapshot is what was read, and its hash is the hash of it.
THEOREM OkAlwaysFaithful == Spec => []OkIsFaithful
<1>1. TypeOK /\ SafeInv => OkIsFaithful
  <2>. SUFFICES ASSUME TypeOK, SafeInv, mpc = "ok"
                PROVE dest = "ours" /\ image = stream /\ hashed = image
    BY DEF OkIsFaithful
  <2>1. dest = "ours" /\ hashed = image /\ Len(image) = Len(stream) /\ Prefix(image, stream)
    BY DEF SafeInv, Phases, Whole, Copied, Complete
  <2>2. image = stream
    BY <2>1, SeqEqual DEF Prefix, TypeOK
  <2>. QED BY <2>1, <2>2
<1>. QED BY <1>1, TypeCorrect, Safety, PTL

\* Where no read-only file was before, only a finished snapshot is read-only.
THEOREM SealedAlwaysFinished == Spec => []SealedIsFinished
<1>1. TypeOK /\ SafeInv /\ OkIsFaithful => SealedIsFinished
  BY DEF SafeInv, Phases, OkIsFaithful, SealedIsFinished
<1>. QED BY <1>1, TypeCorrect, Safety, OkAlwaysFaithful, PTL

\* No error path leaves a partial image that can be unlinked.
THEOREM ErrAlwaysLeavesNothing == Spec => []ErrLeavesNothing
<1>1. SafeInv => ErrLeavesNothing
  BY DEF SafeInv, Phases, ErrLeavesNothing
<1>. QED BY <1>1, Safety, PTL

\* What stays of a call at a path without a read-only file is a finished snapshot,
\* the unsealed file of a killed call, or a file that cannot be unlinked.
THEOREM OnlyFinishedAlwaysStays == Spec => []OnlyFinishedStays
<1>1. SealedIsFinished /\ ErrLeavesNothing => OnlyFinishedStays
  BY DEF OnlyFinishedStays
<1>. QED BY <1>1, SealedAlwaysFinished, ErrAlwaysLeavesNothing, PTL

\* Neither thread ever blocks on a full channel.
THEOREM SendsNeverBlockEver == Spec => []SendsNeverBlock
<1>1. TypeOK /\ SafeInv => SendsNeverBlock
  <2>1. TypeOK => Len(free) \in Nat /\ Len(data) \in Nat
    BY LenProperties DEF TypeOK
  <2>. QED BY <2>1, ConstantsAssumption
           DEF SafeInv, Conservation, ReaderHolds, MainHolds, SendsNeverBlock
<1>. QED BY <1>1, TypeCorrect, Safety, PTL

\* The reader always leaves main a final message.
THEOREM ReaderNeverSilent == Spec => []ReaderIsNeverSilent
<1>1. TypeOK /\ SafeInv => ReaderIsNeverSilent
  <2>. SUFFICES ASSUME TypeOK, SafeInv, rpc = "done", Copying
                PROVE data # <<>> /\ data[Len(data)].kind # "chunk"
    BY DEF ReaderIsNeverSilent, Copying
  <2>1. OneFinalMessage
    BY DEF SafeInv, Flow
  <2>2. data # <<>> /\ Len(data) \in 1..Len(data)
    BY <2>1, EmptySeq DEF OneFinalMessage, TypeOK
  <2>. QED BY <2>1, <2>2 DEF OneFinalMessage
<1>. QED BY <1>1, TypeCorrect, Safety, PTL

-----------------------------------------------------------------------------
(***************************************************************************)
(* Refinement: the pipeline implements CopyOnce.                           *)
(***************************************************************************)

\* The two ways of saying that one sequence begins another agree.
LEMMA PrefixIsSubSeq ==
    ASSUME NEW s \in Seq(Data), NEW t \in Seq(Data), Prefix(s, t)
    PROVE  s = SubSeq(t, 1, Len(s))
<1>1. Len(s) \in Nat /\ Len(t) \in Nat
  BY LenProperties
<1>2. \A i \in 1..Len(s) : t[i] \in Data
  BY <1>1, ElementOfSeq DEF Prefix
<1>3. /\ SubSeq(t, 1, Len(s)) \in Seq(Data)
      /\ Len(SubSeq(t, 1, Len(s))) = Len(s)
      /\ \A i \in 1..Len(s) : SubSeq(t, 1, Len(s))[i] = t[i]
  BY <1>1, <1>2, SubSeqProperties
<1>. QED BY <1>3, SeqEqual DEF Prefix

\* Every step of the pipeline is a step of the sequential copy, or changes
\* nothing of what the copy is about.
LEMMA CopyStep ==
    ASSUME TypeOK, TypeOK', SafeInv, SafeInv', OkIsFaithful', [Next]_vars
    PROVE  [Copy!Next]_(Copy!vars)
<1>. USE DEF Copy!Next, Copy!vars
<1>0. /\ stream \in Seq(Data) /\ stream' \in Seq(Data)
      /\ image \in Seq(Data) /\ image' \in Seq(Data)
      /\ Len(stream) \in Nat /\ Len(image) \in Nat
  BY LenProperties DEF TypeOK
<1>1. CASE MainWrites
  <2>1. /\ Status = "copying" /\ Status' = "copying" /\ UNCHANGED stream
        /\ image' = image \o Payload(cur)
    BY <1>1 DEF MainWrites, Status
  <2>2. /\ Payload(cur) \in Seq(Data) /\ Len(Payload(cur)) \in Nat
        /\ Len(Payload(cur)) = 0 => Payload(cur) = <<>>
    <3>1. Payload(cur) \in Seq(Data)
      BY PayloadIs DEF TypeOK
    <3>. QED BY <3>1, LenProperties, EmptySeq
  <2>3. CASE Len(Payload(cur)) = 0
    <3>1. image' = image
      BY <1>0, <2>1, <2>2, <2>3, ConcatEmptySeq
    <3>. QED BY <2>1, <3>1
  <2>4. CASE Len(Payload(cur)) # 0
    <3>1. Len(image') = Len(image) + Len(Payload(cur)) /\ Prefix(image, image')
      <4>1. /\ Len(image') = Len(image) + Len(Payload(cur))
            /\ \A i \in 1..(Len(image) + Len(Payload(cur))) :
                  image'[i] = IF i <= Len(image) THEN image[i]
                                                 ELSE Payload(cur)[i - Len(image)]
        BY <1>0, <2>1, <2>2, ConcatProperties
      <4>. QED BY <1>0, <2>2, <4>1 DEF Prefix
    <3>2. Copy!Extends(image', image)
      BY <1>0, <2>2, <2>4, <3>1, PrefixIsSubSeq DEF Copy!Extends
    <3>3. image' = SubSeq(stream, 1, Len(image'))
      <4>1. Prefix(image', stream)
        BY <2>1 DEF SafeInv, Copied
      <4>. QED BY <1>0, <4>1, PrefixIsSubSeq
    <3>4. Copy!Write
      BY <1>0, <2>1, <3>2, <3>3 DEF Copy!Write
    <3>. QED BY <3>4
  <2>. QED BY <2>3, <2>4
<1>2. CASE \E n \in 1..BufSize, answer \in Buffer : ReaderReads(n, answer)
  <2>. PICK n \in 1..BufSize, answer \in Buffer : ReaderReads(n, answer)
    BY <1>2
  <2>1. Prefix(stream, stream') /\ Len(stream') = Len(stream) + n
    BY ReadIsGenuine
  <2>2. Copy!Extends(stream', stream)
    BY <1>0, <2>1, PrefixIsSubSeq DEF Copy!Extends
  <2>3. Status \in {"copying", "aborted"}
    BY DEF ReaderReads, SafeInv, Phases, Whole, Complete, Status
  <2>4. UNCHANGED image /\ Status' = Status
    BY DEF ReaderReads, Status
  <2>5. Copy!Deliver
    BY <1>0, <2>2, <2>3, <2>4 DEF Copy!Deliver
  <2>. QED BY <2>5
<1>3. CASE MainSeals
  <2>1. Status = "copying" /\ Status' = "committed" /\ UNCHANGED <<stream, image>>
    BY <1>3 DEF MainSeals, Status
  <2>2. image = stream
    BY <1>3, <2>1 DEF OkIsFaithful, MainSeals
  <2>3. Copy!Commit
    BY <2>1, <2>2 DEF Copy!Commit
  <2>. QED BY <2>3
<1>4. ASSUME MainAlive, mpc' = "err", UNCHANGED stream, image' \in {<<>>, image}
      PROVE  Copy!Abort
  <2>1. Status = "copying" /\ Status' = "aborted"
    BY <1>4 DEF MainAlive, MainDone, Status
  <2>. QED BY <1>4, <2>1 DEF Copy!Abort
<1>5. ASSUME UNCHANGED <<stream, image>>, MainAlive <=> MainAlive', MainDone => UNCHANGED mpc
      PROVE UNCHANGED Copy!vars
  BY <1>5 DEF MainAlive, MainDone, Status
<1>6. CASE OpenSource \/ CheckSpace \/ RefuseLink \/ OpenDestFails \/ MainReceives
           \/ MainWriteFails \/ MainJoins
  <2>1. /\ MainAlive /\ UNCHANGED stream
        /\ \/ mpc' = "err" /\ image' \in {<<>>, image}
           \/ UNCHANGED image /\ MainAlive'
    BY <1>6 DEF OpenSource, CheckSpace, RefuseLink, OpenDestFails, MainReceives,
                MainWriteFails, MainJoins, FailAndRemove, MainAlive, MainDone
  <2>. QED BY <1>4, <1>5, <2>1 DEF MainAlive
<1>7. CASE OpenDest \/ MainRecycles
  <2>1. MainAlive /\ MainAlive' /\ UNCHANGED <<stream, image>>
    BY <1>7 DEF OpenDest, MainRecycles, MainAlive, MainDone
  <2>. QED BY <1>5, <2>1 DEF MainAlive
<1>8. CASE ReaderTakes \/ ReaderStops \/ ReaderHitsEnd \/ ReaderFails \/ ReaderSends
           \/ Unplug \/ Finished \/ UNCHANGED vars
  <2>1. UNCHANGED <<stream, image, mpc>>
    BY <1>8 DEF ReaderTakes, ReaderStops, ReaderHitsEnd, ReaderFails, ReaderSends,
                Unplug, Finished, vars, place
  <2>. QED BY <2>1 DEF Status
<1>9. CASE Kill
  <2>1. Status = "copying" /\ Status' = "crashed" /\ UNCHANGED <<stream, image>>
    BY <1>9 DEF Kill, MainAlive, MainDone, Status
  <2>. QED BY <2>1 DEF Copy!Crash
<1>. QED BY <1>1, <1>2, <1>3, <1>6, <1>7, <1>8, <1>9 DEF Next, Main, Reader

\* The two-thread pipeline with recycled buffers is a sequential copy that is
\* committed whole or removed.
THEOREM Refinement == Spec => ImplementsCopyOnce
<1>1. Init => Copy!Init
  BY DEF Init, Copy!Init, Status
<1>2. /\ TypeOK /\ TypeOK' /\ SafeInv /\ SafeInv' /\ OkIsFaithful' /\ [Next]_vars
      => [Copy!Next]_(Copy!vars)
  BY CopyStep
<1>. QED BY <1>1, <1>2, TypeCorrect, Safety, OkAlwaysFaithful, PTL
         DEF Spec, ImplementsCopyOnce, Copy!Spec
=============================================================================
