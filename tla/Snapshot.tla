------------------------------ MODULE Snapshot ------------------------------
(***************************************************************************)
(* The snapshot pipeline of src/disk/snapshot.rs: create_snapshot copies a *)
(* device into an image file with two threads.  The reader thread takes an *)
(* empty buffer from the recycle channel, reads the device into it and     *)
(* sends it down the data channel; the calling ("main") thread hashes and  *)
(* writes each chunk and returns the buffer.  Both channels are bounded    *)
(* sync_channels, the destination is protected by a PartialFileGuard, and  *)
(* the result is a path, a size and a BLAKE3 hash.                         *)
(*                                                                         *)
(* A block stands for any run of bytes.  The hash is modelled by the       *)
(* sequence of blocks fed to it (BLAKE3 is taken as injective).            *)
(***************************************************************************)
EXTENDS Naturals, Sequences

CONSTANTS
    Data,        \* the block values a device can return
    Zero,        \* the block a fresh buffer holds (vec![0u8; BUFFER_SIZE])
    TotalSize,   \* the device size, in blocks, measured before the copy
    BufSize,     \* BUFFER_SIZE, in blocks
    QueueDepth   \* QUEUE_DEPTH: capacity of both channels, number of buffers

ASSUME ConstantsAssumption ==
    /\ Zero \in Data
    /\ TotalSize \in Nat
    /\ BufSize \in Nat \ {0}
    /\ QueueDepth \in Nat \ {0}

VARIABLES
    mpc,      \* where the calling thread is in create_snapshot
    rpc,      \* where the reader thread is
    held,     \* the message the reader thread is working on
    cur,      \* the chunk the calling thread is working on
    free,     \* the recycle channel: empty buffers, oldest first
    data,     \* the data channel: messages, oldest first
    stream,   \* history: every block the device has returned, in order
    image,    \* the blocks of the destination file this call created
    hashed,   \* the blocks fed to the hasher
    dest,     \* what the destination path names
    sealed,   \* the destination file has mode 0400
    online,   \* the device is still attached
    readonly, \* the destination named a file of mode 0400 before the call
    removable \* the destination's directory lets a file be unlinked

place == <<readonly, removable>>

vars == <<mpc, rpc, held, cur, free, data, stream, image, hashed, dest,
          sealed, online, place>>

Buffer == [1..BufSize -> Data]

(***************************************************************************)
(* A message of the data channel: Ok(Some(BufferChunk)) is a "chunk", of   *)
(* which only the first len blocks count; Ok(None) is "end"; Err is        *)
(* "fail".  The field at is history: the device offset of the read that    *)
(* made the message.  No action reads it.                                  *)
(***************************************************************************)
Message == [kind : {"chunk", "end", "fail"}, buf : Buffer,
            len : 0..BufSize, at : Nat]

Payload(m) == SubSeq(m.buf, 1, m.len)

MainDone  == mpc \in {"ok", "err", "dead"}
MainAlive == ~MainDone

ZeroBuffer == [i \in 1..BufSize |-> Zero]
NoMessage  == [kind |-> "chunk", buf |-> ZeroBuffer, len |-> 0, at |-> 0]

Init ==
    /\ mpc = "open_source"
    /\ rpc = "unborn"
    /\ held = NoMessage
    /\ cur = NoMessage
    /\ free = <<>>
    /\ data = <<>>
    /\ stream = <<>>
    /\ image = <<>>
    /\ hashed = <<>>
    /\ dest \in {"absent", "file", "link"}
    /\ sealed \in BOOLEAN
    /\ sealed => dest = "file"
    /\ online = TRUE
    /\ readonly = sealed
    /\ removable \in BOOLEAN

-----------------------------------------------------------------------------
(***************************************************************************)
(* The calling thread.                                                     *)
(***************************************************************************)

\* Mutant: the guard is disarmed too early, an error leaves the file behind.
FailKeepsFile ==
    /\ mpc' = "err"
    /\ UNCHANGED <<dest, image, sealed>>

\* Return Err with the guard armed: its Drop unlinks what dest names and drops
\* the error of doing so.
FailAndRemove ==
    /\ mpc' = "err"
    /\ IF removable
         THEN dest' = "absent" /\ image' = <<>> /\ sealed' = FALSE
         ELSE UNCHANGED <<dest, image, sealed>>

\* Opening the source succeeds or not, after the retries for transient errors.
OpenSource ==
    /\ mpc = "open_source"
    /\ mpc' \in {"check_space", "err"}
    /\ UNCHANGED <<rpc, held, cur, free, data, stream, image, hashed, dest,
                   sealed, online, place>>

\* Too little room is an error before the guard exists; statvfs failing is not.
CheckSpace ==
    /\ mpc = "check_space"
    /\ mpc' \in {"open_dest", "err"}
    /\ UNCHANGED <<rpc, held, cur, free, data, stream, image, hashed, dest,
                   sealed, online, place>>

\* An existing symbolic link is refused; the guard, already armed, unlinks it.
RefuseLink ==
    /\ mpc = "open_dest"
    /\ dest = "link"
    /\ FailAndRemove
    /\ UNCHANGED <<rpc, held, cur, free, data, stream, hashed, online, place>>

\* The destination cannot be opened (an old 0400 image needs root): the guard
\* unlinks it all the same.
OpenDestFails ==
    /\ mpc = "open_dest"
    /\ dest # "link"
    /\ FailAndRemove
    /\ UNCHANGED <<rpc, held, cur, free, data, stream, hashed, online, place>>

\* Truncate or create the file, fill the recycle channel, spawn the reader.
\* The mode 0600 is for a file that is created: an existing one keeps its own.
OpenDest ==
    /\ mpc = "open_dest"
    /\ dest # "link"
    /\ mpc' = "recv"
    /\ dest' = "ours"
    /\ free' = [i \in 1..QueueDepth |-> ZeroBuffer]
    /\ rpc' = "recv"
    /\ UNCHANGED <<held, cur, data, stream, image, hashed, sealed, online, place>>

\* Mutant: the newest message is received first.
MainReceivesNewest ==
    /\ mpc = "recv"
    /\ data # <<>>
    /\ data' = SubSeq(data, 1, Len(data) - 1)
    /\ cur' = data[Len(data)]
    /\ \/ cur'.kind = "chunk" /\ mpc' = "write" /\ UNCHANGED <<image, dest, sealed>>
       \/ cur'.kind = "end" /\ mpc' = "join" /\ UNCHANGED <<image, dest, sealed>>
       \/ cur'.kind = "fail" /\ FailAndRemove
    /\ UNCHANGED <<rpc, held, free, stream, hashed, online, place>>

\* data_rx.recv() returns a chunk, the end of the stream, or an error.
MainReceives ==
    /\ mpc = "recv"
    /\ data # <<>>
    /\ data' = Tail(data)
    /\ \/ /\ Head(data).kind = "chunk"
          /\ mpc' = "write"
          /\ cur' = Head(data)
          /\ UNCHANGED <<image, dest, sealed>>
       \/ /\ Head(data).kind = "end"
          /\ mpc' = "join"
          /\ UNCHANGED <<cur, image, dest, sealed>>
       \/ /\ Head(data).kind = "fail"
          /\ FailAndRemove
          /\ UNCHANGED cur
    /\ UNCHANGED <<rpc, held, free, stream, hashed, online, place>>

\* Mutant: the whole buffer is hashed, only the read part is written.
MainHashesWholeBuffer ==
    /\ mpc = "write"
    /\ mpc' = "recycle"
    /\ hashed' = hashed \o cur.buf
    /\ image' = image \o Payload(cur)
    /\ UNCHANGED <<rpc, held, cur, free, data, stream, dest, sealed, online, place>>

\* hasher.update, then write_all, on the first len blocks of the buffer.
MainWrites ==
    /\ mpc = "write"
    /\ mpc' = "recycle"
    /\ hashed' = hashed \o Payload(cur)
    /\ image' = image \o Payload(cur)
    /\ UNCHANGED <<rpc, held, cur, free, data, stream, dest, sealed, online, place>>

\* write_all fails after the hasher was fed: return Err, the guard removes.
MainWriteFails ==
    /\ mpc = "write"
    /\ hashed' = hashed \o Payload(cur)
    /\ FailAndRemove
    /\ UNCHANGED <<rpc, held, cur, free, data, stream, online, place>>

\* recycle_tx.send: blocks while the channel is full, fails (and the failure
\* is dropped) once the reader is gone.
MainRecycles ==
    /\ mpc = "recycle"
    /\ mpc' = "recv"
    /\ \/ /\ rpc # "done"
          /\ Len(free) < QueueDepth
          /\ free' = Append(free, cur.buf)
       \/ /\ rpc = "done"
          /\ UNCHANGED free
    /\ UNCHANGED <<rpc, held, cur, data, stream, image, hashed, dest, sealed,
                   online, place>>

\* Join the reader; its error, if any, is returned.
MainJoins ==
    /\ mpc = "join"
    /\ rpc = "done"
    /\ IF held.kind = "fail"
         THEN FailAndRemove
         ELSE mpc' = "seal" /\ UNCHANGED <<dest, image, sealed>>
    /\ UNCHANGED <<rpc, held, cur, free, data, stream, hashed, online, place>>

\* chmod 0400 (failure ignored), disarm the guard, return the Snapshot.
MainSeals ==
    /\ mpc = "seal"
    /\ mpc' = "ok"
    /\ sealed' \in {sealed, TRUE}
    /\ UNCHANGED <<rpc, held, cur, free, data, stream, image, hashed, dest,
                   online, place>>

-----------------------------------------------------------------------------
(***************************************************************************)
(* The reader thread.                                                      *)
(***************************************************************************)

\* recycle_rx.recv() yields a buffer, stale contents and all.
ReaderTakes ==
    /\ rpc = "recv"
    /\ free # <<>>
    /\ free' = Tail(free)
    /\ held' = [held EXCEPT !.buf = Head(free)]
    /\ rpc' = "read"
    /\ UNCHANGED <<mpc, cur, data, stream, image, hashed, dest, sealed, online, place>>

\* Mutant: the reader keeps a sender of its own, the channel never closes.
ReaderWaitsForever ==
    /\ rpc = "recv"
    /\ free = <<>>
    /\ MainDone
    /\ UNCHANGED vars

\* The recycle channel is empty and its sender was dropped: the loop ends.
ReaderStops ==
    /\ rpc = "recv"
    /\ free = <<>>
    /\ MainDone
    /\ rpc' = "done"
    /\ UNCHANGED <<mpc, held, cur, free, data, stream, image, hashed, dest,
                   sealed, online, place>>

\* The device fills the first n blocks with whatever it likes this time.
ReaderReads(n, answer) ==
    /\ rpc = "read"
    /\ online
    /\ Len(stream) + n <= TotalSize
    /\ held' = [kind |-> "chunk",
                buf  |-> [i \in 1..BufSize |->
                             IF i <= n THEN answer[i] ELSE held.buf[i]],
                len  |-> n,
                at   |-> Len(stream)]
    /\ stream' = stream \o Payload(held')
    /\ rpc' = "send"
    /\ UNCHANGED <<mpc, cur, free, data, image, hashed, dest, sealed, online, place>>

\* read returns 0: the end of the device, or a device that has gone away
\* (the kernel sets the capacity of a removed disk to zero).
ReaderHitsEnd ==
    /\ rpc = "read"
    /\ Len(stream) = TotalSize \/ ~online
    /\ held' = [held EXCEPT !.kind = "end", !.len = 0, !.at = Len(stream)]
    /\ rpc' = "send"
    /\ UNCHANGED <<mpc, cur, free, data, stream, image, hashed, dest, sealed,
                   online, place>>

\* read returns an error: a bad sector, or the device has gone away.
ReaderFails ==
    /\ rpc = "read"
    /\ held' = [held EXCEPT !.kind = "fail", !.len = 0, !.at = Len(stream)]
    /\ rpc' = "send"
    /\ UNCHANGED <<mpc, cur, free, data, stream, image, hashed, dest, sealed,
                   online, place>>

\* data_tx.send: blocks while the channel is full, fails once data_rx is gone.
ReaderSends ==
    /\ rpc = "send"
    /\ \/ /\ MainAlive
          /\ Len(data) < QueueDepth
          /\ data' = Append(data, held)
          /\ rpc' = IF held.kind = "chunk" THEN "recv" ELSE "done"
       \/ /\ MainDone
          /\ rpc' = "done"
          /\ UNCHANGED data
    /\ UNCHANGED <<mpc, held, cur, free, stream, image, hashed, dest, sealed,
                   online, place>>

-----------------------------------------------------------------------------
(***************************************************************************)
(* The environment.                                                        *)
(***************************************************************************)

\* The device is pulled out during the copy.
Unplug ==
    /\ online
    /\ MainAlive
    /\ online' = FALSE
    /\ UNCHANGED <<mpc, rpc, held, cur, free, data, stream, image, hashed,
                   dest, sealed, place>>

\* The process is killed: no destructor runs, both threads are gone.
Kill ==
    /\ MainAlive
    /\ mpc' = "dead"
    /\ rpc' = "done"
    /\ UNCHANGED <<held, cur, free, data, stream, image, hashed, dest, sealed,
                   online, place>>

Main ==
    \/ OpenSource \/ CheckSpace \/ RefuseLink \/ OpenDestFails \/ OpenDest
    \/ MainReceives \/ MainWrites \/ MainWriteFails \/ MainRecycles
    \/ MainJoins \/ MainSeals

Reader ==
    \/ ReaderTakes \/ ReaderStops \/ ReaderHitsEnd \/ ReaderFails
    \/ ReaderSends
    \/ \E n \in 1..BufSize, answer \in Buffer : ReaderReads(n, answer)

\* The call has returned and the reader has ended.
Finished ==
    /\ MainDone
    /\ rpc \in {"unborn", "done"}
    /\ UNCHANGED vars

Next == Main \/ Reader \/ Unplug \/ Kill \/ Finished

\* Both threads are scheduled; a read of the device always returns.
Fairness == WF_vars(Main) /\ WF_vars(Reader)

Spec == Init /\ [][Next]_vars

FairSpec == Spec /\ Fairness

-----------------------------------------------------------------------------
(***************************************************************************)
(* Correctness.                                                            *)
(***************************************************************************)

TypeOK ==
    /\ mpc \in {"open_source", "check_space", "open_dest", "recv", "write",
                "recycle", "join", "seal", "ok", "err", "dead"}
    /\ rpc \in {"unborn", "recv", "read", "send", "done"}
    /\ held \in Message
    /\ cur \in Message
    /\ free \in Seq(Buffer)
    /\ data \in Seq(Message)
    /\ stream \in Seq(Data)
    /\ image \in Seq(Data)
    /\ hashed \in Seq(Data)
    /\ dest \in {"absent", "file", "link", "ours"}
    /\ sealed \in BOOLEAN
    /\ online \in BOOLEAN
    /\ readonly \in BOOLEAN
    /\ removable \in BOOLEAN

\* Prefixes of sequences, stated pointwise.
Prefix(s, t) ==
    /\ Len(s) <= Len(t)
    /\ \A i \in 1..Len(s) : s[i] = t[i]

\* The image is at every moment a prefix of what the device returned: the two
\* channels and the recycled buffers lose, repeat and reorder nothing, and no
\* stale block of a recycled buffer is ever written.
ImageIsPrefix == Prefix(image, stream)

\* A call that returns Ok returns the hash of exactly the image it wrote, and
\* the image holds every block the device returned (lines 272-308, 356-364).
OkIsFaithful ==
    mpc = "ok" => /\ dest = "ours"
                  /\ image = stream
                  /\ hashed = image

\* A file that is read-only at the destination is a finished snapshot, whatever
\* crash, error or unplugging interrupted the call; except where a read-only file
\* was there before: it is truncated and refilled under the mode it had.
SealedIsFinished ==
    sealed /\ ~readonly => dest = "ours" /\ image = stream /\ hashed = stream

\* A call that returns Err leaves no partial image behind: the PartialFileGuard
\* covers every error path after the file is created, if it can unlink at all.
ErrLeavesNothing ==
    mpc = "err" /\ removable => dest # "ours" /\ image = <<>>

\* At a path that held no read-only file, the read-only mode tells a finished
\* snapshot from what a killed call leaves; and an error leaves nothing, where
\* files can be unlinked.
OnlyFinishedStays == SealedIsFinished /\ ErrLeavesNothing

\* There are never more buffers than QUEUE_DEPTH: neither thread can ever find
\* the channel it sends to full while the other one waits for it.
SendsNeverBlock ==
    /\ (rpc = "send" /\ MainAlive) => Len(data) < QueueDepth
    /\ (mpc = "recycle" /\ rpc # "done") => Len(free) < QueueDepth

\* The reader never leaves the calling thread without a final message: while
\* main still receives, a finished reader's last message is in the channel, so
\* `while let Ok(msg) = data_rx.recv()` never ends on a disconnection, which
\* create_snapshot would take for the end of the device.
ReaderIsNeverSilent ==
    (rpc = "done" /\ mpc \in {"recv", "write", "recycle"}) =>
        data # <<>> /\ data[Len(data)].kind # "chunk"

\* The call returns and the reader thread ends, whatever fails.
Terminates == <>(MainDone /\ rpc \in {"unborn", "done"})

\* What a caller of create_snapshot can tell about the call.
Status ==
    CASE mpc = "ok"   -> "committed"
      [] mpc = "err"  -> "aborted"
      [] mpc = "dead" -> "crashed"
      [] OTHER        -> "copying"

\* The pipeline implements a plain sequential copy: blocks reach the image in
\* the order the device returned them, a returned snapshot is the whole of what
\* was read and the device is not read again, a failed call removes its copy.
Copy == INSTANCE CopyOnce WITH
            Block <- Data, given <- stream, copy <- image, status <- Status

ImplementsCopyOnce == Copy!Spec
=============================================================================
