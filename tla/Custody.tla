------------------------------ MODULE Custody ------------------------------
(***************************************************************************)
(* The verify and keygen commands (src/main.rs, src/manifest): several     *)
(* processes that check media against manifests and make new key pairs for *)
(* the station.                                                            *)
(*                                                                         *)
(* A manifest is a file in a directory and names the pair it was signed    *)
(* with; its directory holds the log of accepted nonces and may bring a    *)
(* station.pub of its own.  What a medium holds is a value, to which its   *)
(* layout and its files belong; the medium may be exchanged between two    *)
(* looks at it, and the clock may be set between two looks at the time.    *)
(***************************************************************************)
EXTENDS Naturals, Sequences

CONSTANTS
    Procs,
    Nonces,
    NL,         \* the end of a line of the log
    Keys, Own,      \* all pairs, and those only this station can make
    NoFile, NoKey,  \* no file, and one without a key in it
    Dirs, Home,     \* Home is the working directory: ./station.pub
    Brought,        \* of each other directory, the station.pub in it
    Offered,        \* the keys of other files that --pubkey may name
    Contents, Unread,
    Paths,
    Escape,     \* of each path, how a manifest writes it down
    LayoutOf, FilesOf,  \* of each content
    Manifests,
    Skew,       \* 300 seconds in the code
    MaxTime,    \* bound: the clock shows no more
    MayFail     \* errors of input and output, and the end of a process

Files == [path : Paths, hash : STRING]

ASSUME NonceAssumption == NL \notin Nonces
ASSUME KeyAssumption ==
    /\ NoKey \notin Keys /\ NoFile \notin Keys
    /\ Own \subseteq Keys
ASSUME DirAssumption ==
    /\ Home \in Dirs
    /\ Brought \in [Dirs -> Keys \cup {NoFile, NoKey}]
    /\ Offered \subseteq Keys \cup {NoFile, NoKey}
ASSUME ContentAssumption == FilesOf \in [Contents -> Seq(Files)] /\ Unread \notin Contents
ASSUME PathAssumption == Escape \in [Paths -> Paths]
ASSUME ManifestAssumption ==
    /\ Manifests # {}
    /\ \A m \in Manifests : m.dir \in Dirs /\ m.nonce \in Nonces /\ m.files \in Seq(Files)
ASSUME TimeAssumption == Skew \in Nat /\ MaxTime \in Nat
ASSUME FailAssumption == MayFail \in BOOLEAN

VARIABLES
    log,                \* accepted_nonces.log of each directory: nonces and ends of lines
    keyFile, pubFile,   \* station.key and station.pub of the station
    used,               \* the pairs made so far
    pc,
    job,                \* the manifest file that is verified
    pub,                \* the public key it is verified with, or the pair that is made
    bad,                \* mismatches
    hashed, listed,     \* history: the content that was hashed, and that whose files were read
    faulty,             \* history: the nonces the log of a directory may have failed for
    keyFault            \* history: keygen was interrupted, or two of them overlapped

vars == <<log, keyFile, pubFile, used, pc, job, pub, bad, hashed, listed, faulty, keyFault>>
keyVars == <<keyFile, pubFile, used, keyFault>>

Init ==
    /\ log = [d \in Dirs |-> <<>>] /\ faulty = {}
    /\ keyFile \in Own \cup {NoFile} /\ pubFile = keyFile
    /\ used = {keyFile} \cap Own
    /\ keyFault = FALSE
    /\ pc = [p \in Procs |-> "idle"]
    /\ job = [p \in Procs |-> CHOOSE m \in Manifests : TRUE]
    /\ pub = [p \in Procs |-> NoKey]
    /\ bad = [p \in Procs |-> {}]
    /\ hashed = [p \in Procs |-> Unread] /\ listed = [p \in Procs |-> Unread]

Goto(p, label) == pc' = [pc EXCEPT ![p] = label]

\* What a process knows is gone when it ends without a verdict.
Forget(p) ==
    /\ job' = [job EXCEPT ![p] = CHOOSE m \in Manifests : TRUE]
    /\ pub' = [pub EXCEPT ![p] = NoKey]
    /\ bad' = [bad EXCEPT ![p] = {}]
    /\ hashed' = [hashed EXCEPT ![p] = Unread] /\ listed' = [listed EXCEPT ![p] = Unread]

\* The nonces the log is searched for, line by line.
Lines(text) ==
    {n \in Nonces : \E i \in 1 .. Len(text) :
        /\ text[i] = n
        /\ i > 1 => text[i - 1] = NL
        /\ i < Len(text) => text[i + 1] = NL}

-----------------------------------------------------------------------------
(* verify *)

\* station.pub beside the manifest, and failing that the one in the working directory.
FoundKey(d) == IF d = Home \/ Brought[d] = NoFile THEN pubFile ELSE Brought[d]

\* The public keys a verification may be given: that one, or what --pubkey names.
PublicKeys(d) == {FoundKey(d), pubFile} \cup Offered

\* Without a public key there is no verification.
LoadKey(p) ==
    /\ pc[p] = "idle"
    /\ \E m \in Manifests : \E k \in PublicKeys(m.dir) :
          IF k \notin Keys
            THEN Goto(p, "error") /\ UNCHANGED <<job, pub>>
            ELSE /\ Goto(p, "window")
                 /\ pub' = [pub EXCEPT ![p] = k]
                 /\ job' = [job EXCEPT ![p] = m]
    /\ UNCHANGED <<log, keyVars, bad, hashed, listed, faulty>>

TimeMismatches(m, now) ==
    (IF m.expires > 0 /\ now > m.expires THEN {"expiration"} ELSE {})
    \cup (IF m.issued > now + Skew THEN {"issued_at"} ELSE {})
    \cup (IF m.expires > 0 /\ m.expires < m.issued THEN {"validity_window"} ELSE {})

CheckManifest(p) ==
    /\ pc[p] = "window"
    /\ \E now \in 0 .. MaxTime : bad' = [bad EXCEPT ![p] = TimeMismatches(job[p], now)
         \cup (IF job[p].key = pub[p] THEN {} ELSE {"signature"})]
    /\ Goto(p, "nonce")
    /\ UNCHANGED <<log, keyVars, job, pub, hashed, listed, faulty>>

\* Between looking up its nonce and recording it, without a mismatch so far.
Deciding(p) == pc[p] \in {"hash", "list", "open", "newline"} /\ bad[p] = {}

\* The log a manifest's nonce is looked up in, and the nonce.
Slot(m) == <<m.dir, m.nonce>>

\* Mutant: the log of the working directory is looked into.
LookUpHome(p) ==
    /\ pc[p] = "nonce"
    /\ \/ /\ bad' = IF job[p].nonce \in Lines(log[Home])
                      THEN [bad EXCEPT ![p] = @ \cup {"nonce_replay"}] ELSE bad
          /\ faulty' = IF \E q \in Procs \ {p} : Deciding(q) /\ Slot(job[q]) = Slot(job[p])
                         THEN faulty \cup {Slot(job[p])} ELSE faulty
       \/ /\ MayFail
          /\ bad' = bad /\ faulty' = faulty \cup {Slot(job[p])}
    /\ Goto(p, "hash")
    /\ UNCHANGED <<log, keyVars, job, pub, hashed, listed>>

\* The log beside the manifest; one that cannot be read counts as an empty one.
LookUp(p) ==
    /\ pc[p] = "nonce"
    /\ \/ /\ bad' = IF job[p].nonce \in Lines(log[job[p].dir])
                      THEN [bad EXCEPT ![p] = @ \cup {"nonce_replay"}] ELSE bad
          /\ faulty' = IF \E q \in Procs \ {p} : Deciding(q) /\ Slot(job[q]) = Slot(job[p])
                         THEN faulty \cup {Slot(job[p])} ELSE faulty
       \/ /\ MayFail
          /\ bad' = bad /\ faulty' = faulty \cup {Slot(job[p])}
    /\ Goto(p, "hash")
    /\ UNCHANGED <<log, keyVars, job, pub, hashed, listed>>

HashMedium(p) ==
    /\ pc[p] = "hash"
    /\ \E medium \in Contents :
          /\ hashed' = [hashed EXCEPT ![p] = medium]
          /\ bad' = IF job[p].hash = medium THEN bad
                                            ELSE [bad EXCEPT ![p] = @ \cup {"device_hash"}]
    /\ Goto(p, "list")
    /\ UNCHANGED <<log, keyVars, job, pub, listed, faulty>>

\* Mutant: the numbers of files are not compared.
FilesAgreeUncounted(expected, actual) ==
    /\ \A i \in DOMAIN expected : \E j \in DOMAIN actual :
          /\ actual[j] = expected[i]
          /\ \A k \in 1 .. j - 1 : actual[k].path # expected[i].path
    /\ \A j \in DOMAIN actual : \E i \in DOMAIN expected : expected[i].path = actual[j].path

\* A file is compared with the first one that has its path.
FilesAgree(expected, actual) ==
    /\ Len(actual) = Len(expected)
    /\ \A i \in DOMAIN expected : \E j \in DOMAIN actual :
          /\ actual[j] = expected[i]
          /\ \A k \in 1 .. j - 1 : actual[k].path # expected[i].path
    /\ \A j \in DOMAIN actual : \E i \in DOMAIN expected : expected[i].path = actual[j].path

\* The medium is opened a second time for its layout and its files.
ReadMedium(p) ==
    /\ pc[p] = "list"
    /\ \E medium \in Contents :
          /\ listed' = [listed EXCEPT ![p] = medium]
          /\ bad' = [bad EXCEPT ![p] = @
               \cup (IF LayoutOf[medium] = job[p].layout THEN {} ELSE {"partition_layout_hash"})
               \cup (IF FilesAgree(job[p].files, FilesOf[medium]) THEN {} ELSE {"files"})]
    /\ Goto(p, IF bad'[p] = {} THEN "open" ELSE "invalid")
    /\ UNCHANGED <<log, keyVars, job, pub, hashed, faulty>>

MediumFails(p) ==
    /\ MayFail
    /\ pc[p] \in {"hash", "list"}
    /\ Goto(p, "error") /\ Forget(p)
    /\ UNCHANGED <<log, keyVars, faulty>>

\* The nonce and the end of its line are two writes; the nonce comes to stand on the
\* line that somebody else has not ended.
WriteNonce(p) ==
    /\ pc[p] = "open"
    /\ LET d == job[p].dir IN
          /\ log' = [log EXCEPT ![d] = Append(@, job[p].nonce)]
          /\ faulty' = IF log[d] # <<>> /\ log[d][Len(log[d])] # NL
                         THEN faulty \cup {Slot(job[p]), <<d, log[d][Len(log[d])]>>} ELSE faulty
    /\ Goto(p, "newline")
    /\ UNCHANGED <<keyVars, job, pub, bad, hashed, listed>>

\* An error of opening or writing the log is dropped.
NotRecorded(p) ==
    /\ MayFail
    /\ pc[p] = "open"
    /\ faulty' = faulty \cup {Slot(job[p])}
    /\ Goto(p, "valid")
    /\ UNCHANGED <<log, keyVars, job, pub, bad, hashed, listed>>

WriteNewline(p) ==
    /\ pc[p] = "newline"
    /\ log' = [log EXCEPT ![job[p].dir] = Append(@, NL)]
    /\ Goto(p, "valid")
    /\ UNCHANGED <<keyVars, job, pub, bad, hashed, listed, faulty>>

NotEnded(p) ==
    /\ MayFail
    /\ pc[p] = "newline"
    /\ Goto(p, "valid")
    /\ UNCHANGED <<log, keyVars, job, pub, bad, hashed, listed, faulty>>

Verify(p) ==
    \/ LoadKey(p) \/ CheckManifest(p) \/ LookUp(p) \/ HashMedium(p) \/ ReadMedium(p)
    \/ MediumFails(p) \/ WriteNonce(p) \/ NotRecorded(p) \/ WriteNewline(p) \/ NotEnded(p)

-----------------------------------------------------------------------------
(* keygen *)

Making(p) == pc[p] \in {"openkey", "writekey", "openpub", "writepub"}

\* Existing files are kept without --force; whether they exist is only asked here.
CheckKeys(p, force) ==
    /\ pc[p] = "idle"
    /\ IF force \/ (keyFile = NoFile /\ pubFile = NoFile)
         THEN /\ \E k \in Own \ used : used' = used \cup {k} /\ pub' = [pub EXCEPT ![p] = k]
              /\ Goto(p, "openkey")
              /\ keyFault' = (keyFault \/ \E q \in Procs : Making(q))
         ELSE Goto(p, "error") /\ UNCHANGED <<used, pub, keyFault>>
    /\ UNCHANGED <<log, keyFile, pubFile, job, bad, hashed, listed, faulty>>

\* Mutant: a private key is not overwritten.
WriteKeyOnce(p) ==
    /\ \/ /\ pc[p] = "openkey" /\ keyFile' = keyFile /\ Goto(p, "writekey")
       \/ /\ pc[p] = "writekey" /\ Goto(p, "openpub")
          /\ keyFile' = IF keyFile = NoFile THEN pub[p] ELSE keyFile
    /\ UNCHANGED <<log, pubFile, used, keyFault, job, pub, bad, hashed, listed, faulty>>

WriteKey(p) ==
    /\ \/ pc[p] = "openkey" /\ keyFile' = NoKey /\ Goto(p, "writekey")
       \/ pc[p] = "writekey" /\ keyFile' = pub[p] /\ Goto(p, "openpub")
    /\ UNCHANGED <<log, pubFile, used, keyFault, job, pub, bad, hashed, listed, faulty>>

WritePub(p) ==
    /\ \/ pc[p] = "openpub" /\ pubFile' = NoKey /\ Goto(p, "writepub")
       \/ pc[p] = "writepub" /\ pubFile' = pub[p] /\ Goto(p, "made")
    /\ UNCHANGED <<log, keyFile, used, keyFault, job, pub, bad, hashed, listed, faulty>>

\* A file cannot be opened or written: the others stay as they are.
KeyFails(p) ==
    /\ MayFail
    /\ Making(p)
    /\ Goto(p, "error") /\ Forget(p)
    /\ keyFault' = (keyFault \/ pc[p] # "openkey")
    /\ UNCHANGED <<log, keyFile, pubFile, used, faulty>>

Keygen(p) ==
    \/ \E force \in BOOLEAN : CheckKeys(p, force)
    \/ WriteKey(p) \/ WritePub(p) \/ KeyFails(p)

-----------------------------------------------------------------------------
\* A process ends between two steps, whatever the reason.
Crash(p) ==
    /\ MayFail
    /\ pc[p] \notin {"idle", "valid", "invalid", "error", "made"}
    /\ Goto(p, "error") /\ Forget(p)
    /\ keyFault' = (keyFault \/ (Making(p) /\ pc[p] # "openkey"))
    /\ UNCHANGED <<log, keyFile, pubFile, used, faulty>>

Next ==
    \E p \in Procs : Verify(p) \/ Keygen(p) \/ Crash(p)

Spec == Init /\ [][Next]_vars

-----------------------------------------------------------------------------
Labels == {"idle", "window", "nonce", "hash", "list", "open", "newline", "valid", "invalid",
           "error", "openkey", "writekey", "openpub", "writepub", "made"}
Components == {"signature", "expiration", "issued_at", "validity_window", "nonce_replay",
               "device_hash", "partition_layout_hash", "files"}

\* Type invariant: a verification records or accepts only without a mismatch.
TypeOK ==
    /\ log \in [Dirs -> Seq(Nonces \cup {NL})]
    /\ keyFile \in Keys \cup {NoFile, NoKey} /\ pubFile \in Keys \cup {NoFile, NoKey}
    /\ used \subseteq Own
    /\ pc \in [Procs -> Labels]
    /\ job \in [Procs -> Manifests]
    /\ pub \in [Procs -> Keys \cup {NoKey}]
    /\ bad \in [Procs -> SUBSET Components]
    /\ \A p \in Procs : pc[p] \in {"open", "newline", "valid"} => bad[p] = {}
    /\ hashed \in [Procs -> Contents \cup {Unread}]
    /\ listed \in [Procs -> Contents \cup {Unread}]
    /\ faulty \subseteq Dirs \X Nonces
    /\ keyFault \in BOOLEAN

\* The nonce of a manifest is accepted once from each directory it is verified in,
\* unless two verifications of it there overlapped, the log there could not be read
\* or written for it, or its line was not ended before the next one was begun.
AcceptedOnce ==
    \A p, q \in Procs :
        p # q /\ pc[p] = "valid" /\ pc[q] = "valid" /\ Slot(job[p]) = Slot(job[q])
            => Slot(job[p]) \in faulty

SameFiles(a, b) == {a[i] : i \in DOMAIN a} = {b[i] : i \in DOMAIN b}
WrittenDown(files) == [i \in DOMAIN files |-> [files[i] EXCEPT !.path = Escape[@]]]
Distinct(files) == \A i, j \in DOMAIN files : files[i].path = files[j].path => i = j

\* What is accepted was signed with the pair of the key it was verified with: one this
\* station has made, unless --pubkey or the directory of the manifest brought another.
\* It was, when it was hashed, the medium of the manifest; and the files that were on
\* it when they were read are those of the manifest, although a medium may be
\* exchanged in between.
AcceptedIsGenuine ==
    \A p \in Procs : pc[p] = "valid" =>
        /\ job[p].key = pub[p] /\ pub[p] \in used \cup Offered \cup {Brought[job[p].dir]}
        /\ job[p].hash = hashed[p]
        /\ LayoutOf[listed[p]] = job[p].layout
        /\ Distinct(job[p].files) => SameFiles(job[p].files, FilesOf[listed[p]])

\* A medium that is what its manifest says is only rejected for its time or its nonce,
\* unless it holds two files of one path, or one whose path a manifest escapes.
HonestIsAccepted ==
    \A p \in Procs :
        /\ pc[p] = "invalid" /\ job[p].key = pub[p]
        /\ job[p].hash = hashed[p] /\ listed[p] = hashed[p]
        /\ LayoutOf[hashed[p]] = job[p].layout /\ WrittenDown(FilesOf[hashed[p]]) = job[p].files
        /\ Distinct(job[p].files) /\ FilesOf[hashed[p]] = job[p].files
        => bad[p] \cap {"expiration", "issued_at", "validity_window", "nonce_replay"} # {}

\* A verification tells what was signed with the pair of its key from everything else.
VerificationIsExact == AcceptedIsGenuine /\ HonestIsAccepted

\* When no keygen is at work the two key files are of one pair, unless one was
\* interrupted or two overlapped.
KeysMatch ==
    keyFault \/ (\E p \in Procs : Making(p)) \/ keyFile = pubFile
=============================================================================
