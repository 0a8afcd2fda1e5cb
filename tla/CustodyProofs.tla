--------------------------- MODULE CustodyProofs ---------------------------
(***************************************************************************)
(* Proofs about verifications and key pairs, for every number of           *)
(* processes, every manifest and every medium.                             *)
(***************************************************************************)
EXTENDS Custody, SequenceTheorems, FiniteSetTheorems, TLAPS

-----------------------------------------------------------------------------
(***************************************************************************)
(* Type correctness.                                                       *)
(***************************************************************************)

\* There is a manifest to begin with.
LEMMA SomeManifest == (CHOOSE m \in Manifests : TRUE) \in Manifests
BY ManifestAssumption

\* The mismatches of the times are named.
LEMMA TimesAre ==
    \A m, now : TimeMismatches(m, now) \subseteq {"expiration", "issued_at", "validity_window"}
BY DEF TimeMismatches

\* The types hold at the start.
LEMMA TypeInit == Init => TypeOK
<1>. SUFFICES ASSUME Init PROVE TypeOK
  OBVIOUS
<1>1. log \in [Dirs -> Seq(Nonces \cup {NL})]
  BY DEF Init
<1>2. job \in [Procs -> Manifests]
  BY SomeManifest DEF Init
<1>3. /\ pc \in [Procs -> Labels] /\ pub \in [Procs -> Keys \cup {NoKey}]
      /\ bad \in [Procs -> SUBSET Components]
      /\ \A p \in Procs : bad[p] = {}
  BY DEF Init, Labels
<1>. QED BY <1>1, <1>2, <1>3, KeyAssumption DEF Init, TypeOK

\* A process that ends keeps the types.
LEMMA ForgetType ==
    ASSUME TypeOK, NEW p \in Procs, Goto(p, "error"), Forget(p),
           UNCHANGED <<log, keyFile, pubFile, used, faulty>>, keyFault' \in BOOLEAN
    PROVE  TypeOK'
<1>1. /\ job' \in [Procs -> Manifests] /\ pub' \in [Procs -> Keys \cup {NoKey}]
      /\ hashed' \in [Procs -> Contents \cup {Unread}]
      /\ listed' \in [Procs -> Contents \cup {Unread}]
  BY SomeManifest DEF TypeOK, Forget
<1>2. /\ pc' \in [Procs -> Labels] /\ bad' \in [Procs -> SUBSET Components]
      /\ \A q \in Procs : pc'[q] \in {"open", "newline", "valid"} => bad'[q] = {}
  BY DEF TypeOK, Goto, Forget, Labels
<1>. QED BY <1>1, <1>2 DEF TypeOK

\* Every step of a verification keeps the types.
LEMMA VerifyType == ASSUME TypeOK, NEW p \in Procs, Verify(p) PROVE TypeOK'
<1>. USE DEF Goto, keyVars
<1>1. CASE LoadKey(p)
  <2>0. PICK m \in Manifests : \E k \in PublicKeys(m.dir) :
          IF k \notin Keys
            THEN Goto(p, "error") /\ UNCHANGED <<job, pub>>
            ELSE /\ Goto(p, "window")
                 /\ pub' = [pub EXCEPT ![p] = k]
                 /\ job' = [job EXCEPT ![p] = m]
    BY <1>1 DEF LoadKey
  <2>1. PICK k \in PublicKeys(m.dir) :
          IF k \notin Keys
            THEN Goto(p, "error") /\ UNCHANGED <<job, pub>>
            ELSE /\ Goto(p, "window")
                 /\ pub' = [pub EXCEPT ![p] = k]
                 /\ job' = [job EXCEPT ![p] = m]
    BY <2>0
  <2>2. /\ job' \in [Procs -> Manifests] /\ pub' \in [Procs -> Keys \cup {NoKey}]
        /\ pc' = [pc EXCEPT ![p] = "error"] \/ pc' = [pc EXCEPT ![p] = "window"]
    BY <2>1 DEF TypeOK
  <2>. QED BY <1>1, <2>2 DEF LoadKey, TypeOK, Labels
<1>2. CASE CheckManifest(p)
  <2>1. PICK b \in SUBSET Components : bad' = [bad EXCEPT ![p] = b]
    BY <1>2, TimesAre DEF CheckManifest, Components
  <2>. QED BY <1>2, <2>1 DEF CheckManifest, TypeOK, Labels
<1>3. CASE LookUp(p)
  <2>1. Slot(job[p]) \in Dirs \X Nonces
    BY ManifestAssumption DEF TypeOK, Slot
  <2>2. faulty' \subseteq Dirs \X Nonces
    BY <1>3, <2>1 DEF LookUp, TypeOK
  <2>3. bad' = bad \/ bad' = [bad EXCEPT ![p] = @ \cup {"nonce_replay"}]
    BY <1>3 DEF LookUp
  <2>4. bad' \in [Procs -> SUBSET Components] /\ \A q \in Procs \ {p} : bad'[q] = bad[q]
    BY <2>3 DEF TypeOK, Components
  <2>. QED BY <1>3, <2>2, <2>4 DEF LookUp, TypeOK, Labels
<1>4. CASE HashMedium(p)
  <2>1. PICK medium \in Contents :
            /\ hashed' = [hashed EXCEPT ![p] = medium]
            /\ bad' = bad \/ bad' = [bad EXCEPT ![p] = @ \cup {"device_hash"}]
    BY <1>4 DEF HashMedium
  <2>2. bad' \in [Procs -> SUBSET Components] /\ \A q \in Procs \ {p} : bad'[q] = bad[q]
    BY <2>1 DEF TypeOK, Components
  <2>. QED BY <1>4, <2>1, <2>2 DEF HashMedium, TypeOK, Labels
<1>5. CASE ReadMedium(p)
  <2>1. PICK medium \in Contents, b \in SUBSET {"partition_layout_hash", "files"} :
            /\ listed' = [listed EXCEPT ![p] = medium]
            /\ bad' = [bad EXCEPT ![p] = @ \cup b]
    <3>1. PICK medium \in Contents :
            /\ listed' = [listed EXCEPT ![p] = medium]
            /\ bad' = [bad EXCEPT ![p] = @
                 \cup (IF LayoutOf[medium] = job[p].layout THEN {} ELSE {"partition_layout_hash"})
                 \cup (IF FilesAgree(job[p].files, FilesOf[medium]) THEN {} ELSE {"files"})]
      BY <1>5 DEF ReadMedium
    <3>2. PICK b \in SUBSET {"partition_layout_hash", "files"} :
            b = (IF LayoutOf[medium] = job[p].layout THEN {} ELSE {"partition_layout_hash"})
                 \cup (IF FilesAgree(job[p].files, FilesOf[medium]) THEN {} ELSE {"files"})
      OBVIOUS
    <3>3. bad' = [bad EXCEPT ![p] = @ \cup b]
      BY <3>1, <3>2
    <3>. QED BY <3>1, <3>3
  <2>2. bad' \in [Procs -> SUBSET Components] /\ \A q \in Procs \ {p} : bad'[q] = bad[q]
    BY <2>1 DEF TypeOK, Components
  <2>3. pc' = [pc EXCEPT ![p] = IF bad'[p] = {} THEN "open" ELSE "invalid"]
    BY <1>5 DEF ReadMedium
  <2>. QED BY <1>5, <2>1, <2>2, <2>3 DEF ReadMedium, TypeOK, Labels
<1>6. CASE MediumFails(p)
  BY <1>6, ForgetType DEF MediumFails, TypeOK
<1>7. CASE WriteNonce(p)
  <2>1. job[p].nonce \in Nonces /\ job[p].dir \in Dirs
    BY ManifestAssumption DEF TypeOK
  <2>. DEFINE d == job[p].dir
              l == log[d]
  <2>2. l \in Seq(Nonces \cup {NL})
    BY <2>1 DEF TypeOK
  <2>3. log' \in [Dirs -> Seq(Nonces \cup {NL})]
    <3>1. Append(l, job[p].nonce) \in Seq(Nonces \cup {NL})
      BY <2>1, <2>2
    <3>. QED BY <1>7, <3>1 DEF WriteNonce, TypeOK
  <2>4. faulty' \subseteq Dirs \X Nonces
    <3>1. l # <<>> => l[Len(l)] \in Nonces \cup {NL}
      <4>. HIDE DEF l
      <4>. QED BY <2>2
    <3>2. faulty' = IF l # <<>> /\ l[Len(l)] # NL
                      THEN faulty \cup {Slot(job[p]), <<d, l[Len(l)]>>} ELSE faulty
      BY <1>7 DEF WriteNonce
    <3>. HIDE DEF l
    <3>. QED BY <2>1, <3>1, <3>2 DEF TypeOK, Slot
  <2>. QED BY <1>7, <2>3, <2>4 DEF WriteNonce, TypeOK, Labels
<1>8. CASE NotRecorded(p)
  <2>1. Slot(job[p]) \in Dirs \X Nonces
    BY ManifestAssumption DEF TypeOK, Slot
  <2>. QED BY <1>8, <2>1 DEF NotRecorded, TypeOK, Labels
<1>9. CASE WriteNewline(p)
  <2>1. log' \in [Dirs -> Seq(Nonces \cup {NL})]
    <3>1. log[job[p].dir] \in Seq(Nonces \cup {NL})
      BY ManifestAssumption DEF TypeOK
    <3>2. Append(log[job[p].dir], NL) \in Seq(Nonces \cup {NL})
      BY <3>1
    <3>. QED BY <1>9, <3>2 DEF WriteNewline, TypeOK
  <2>. QED BY <1>9, <2>1 DEF WriteNewline, TypeOK, Labels
<1>10. CASE NotEnded(p)
  BY <1>10 DEF NotEnded, TypeOK, Labels
<1>. QED BY <1>1, <1>2, <1>3, <1>4, <1>5, <1>6, <1>7, <1>8, <1>9, <1>10 DEF Verify

\* Every step of keygen keeps the types.
LEMMA KeygenType == ASSUME TypeOK, NEW p \in Procs, Keygen(p) PROVE TypeOK'
<1>. USE DEF Goto
<1>1. ASSUME NEW force \in BOOLEAN, CheckKeys(p, force) PROVE TypeOK'
  <2>1. /\ used' \subseteq Own /\ pub' \in [Procs -> Keys \cup {NoKey}]
        /\ pc' \in [Procs -> Labels] /\ keyFault' \in BOOLEAN
        /\ \A q \in Procs : pc'[q] \in {"open", "newline", "valid"} => pc[q] = pc'[q]
    <3>1. CASE Goto(p, "error") /\ UNCHANGED <<used, pub, keyFault>>
      BY <3>1 DEF TypeOK, Labels
    <3>2. CASE /\ \E k \in Own \ used : used' = used \cup {k} /\ pub' = [pub EXCEPT ![p] = k]
               /\ Goto(p, "openkey") /\ keyFault' \in BOOLEAN
      BY <3>2, KeyAssumption DEF TypeOK, Labels
    <3>3. keyFault' \in BOOLEAN
      BY <1>1 DEF CheckKeys, TypeOK
    <3>. QED BY <1>1, <3>1, <3>2, <3>3 DEF CheckKeys
  <2>. QED BY <1>1, <2>1 DEF CheckKeys, TypeOK
<1>2. CASE WriteKey(p)
  BY <1>2 DEF WriteKey, TypeOK, Labels
<1>3. CASE WritePub(p)
  BY <1>3 DEF WritePub, TypeOK, Labels
<1>4. CASE KeyFails(p)
  BY <1>4, ForgetType DEF KeyFails, TypeOK
<1>. QED BY <1>1, <1>2, <1>3, <1>4 DEF Keygen

\* Every step keeps the types.
LEMMA TypeStep == TypeOK /\ [Next]_vars => TypeOK'
<1>1. ASSUME TypeOK, NEW p \in Procs, Crash(p) PROVE TypeOK'
  BY <1>1, ForgetType DEF Crash, TypeOK
<1>2. ASSUME TypeOK, UNCHANGED vars PROVE TypeOK'
  BY <1>2 DEF TypeOK, vars
<1>. QED BY <1>1, <1>2, VerifyType, KeygenType DEF Next

\* Every state is well typed, and nothing is recorded or accepted with a mismatch.
THEOREM TypeCorrect == Spec => []TypeOK
BY TypeInit, TypeStep, PTL DEF Spec

-----------------------------------------------------------------------------
(***************************************************************************)
(* The two key files.                                                      *)
(***************************************************************************)

\* Until a fault one keygen is at work, and the files are as far as it is.
KeysInv ==
    keyFault \/
      /\ \A p, q \in Procs : Making(p) /\ Making(q) => p = q
      /\ \A p \in Procs : pc[p] \in {"openpub", "writepub"} => keyFile = pub[p]
      /\ (\E p \in Procs : pc[p] \in {"writekey", "openpub", "writepub"}) \/ keyFile = pubFile

\* A step that no keygen takes leaves them.
LEMMA KeysStay ==
    ASSUME KeysInv, UNCHANGED <<keyFile, pubFile, keyFault>>,
           \A q \in Procs : /\ Making(q)' <=> Making(q)
                            /\ Making(q) => pc'[q] = pc[q] /\ pub'[q] = pub[q]
    PROVE  KeysInv'
BY DEF KeysInv, Making

\* A keygen that ends has changed nothing, or is a fault.
LEMMA KeysEnd ==
    ASSUME TypeOK, KeysInv, NEW p \in Procs, Goto(p, "error"), Forget(p),
           UNCHANGED <<keyFile, pubFile>>,
           keyFault' = (keyFault \/ (Making(p) /\ pc[p] # "openkey"))
    PROVE  KeysInv'
<1>1. CASE keyFault \/ (Making(p) /\ pc[p] # "openkey")
  BY <1>1 DEF KeysInv
<1>2. CASE ~keyFault /\ ~(Making(p) /\ pc[p] # "openkey")
  <2>1. ~keyFault' /\ \A q \in Procs : q # p => pc'[q] = pc[q] /\ pub'[q] = pub[q]
    BY <1>2 DEF Goto, Forget, TypeOK
  <2>2. pc'[p] = "error" /\ pc[p] \notin {"writekey", "openpub", "writepub"}
    BY <1>2 DEF Goto, TypeOK, Making
  <2>. QED BY <1>2, <2>1, <2>2 DEF KeysInv, Making
<1>. QED BY <1>1, <1>2

\* Every step of keygen brings the files one step further.
LEMMA KeysStep == TypeOK /\ KeysInv /\ [Next]_vars => KeysInv'
<1>. SUFFICES ASSUME TypeOK, KeysInv, [Next]_vars PROVE KeysInv'
  OBVIOUS
<1>1. ASSUME NEW p \in Procs, Verify(p) PROVE KeysInv'
  <2>1. CASE MediumFails(p)
    <3>1. ~Making(p) /\ keyFault' = keyFault
      BY <2>1 DEF MediumFails, Making, keyVars
    <3>2. keyFault' = (keyFault \/ (Making(p) /\ pc[p] # "openkey"))
      BY <3>1 DEF TypeOK
    <3>. QED BY <2>1, <3>2, KeysEnd DEF MediumFails, keyVars
  <2>2. CASE ~MediumFails(p)
    <3>1. /\ UNCHANGED <<keyFile, pubFile, keyFault>>
          /\ \A q \in Procs \ {p} : pc'[q] = pc[q] /\ pub'[q] = pub[q]
          /\ ~Making(p) /\ ~Making(p)'
      <4>1. CASE LoadKey(p)
        BY <4>1 DEF LoadKey, Goto, keyVars, Making, TypeOK
      <4>2. CASE CheckManifest(p) \/ LookUp(p) \/ HashMedium(p)
        BY <4>2 DEF CheckManifest, LookUp, HashMedium, Goto, keyVars, Making, TypeOK
      <4>3. CASE ReadMedium(p)
        BY <4>3 DEF ReadMedium, Goto, keyVars, Making, TypeOK
      <4>4. CASE WriteNonce(p) \/ NotRecorded(p) \/ WriteNewline(p) \/ NotEnded(p)
        BY <4>4 DEF WriteNonce, NotRecorded, WriteNewline, NotEnded, Goto, keyVars, Making, TypeOK
      <4>. QED BY <1>1, <2>2, <4>1, <4>2, <4>3, <4>4 DEF Verify
    <3>2. \A q \in Procs : /\ Making(q)' <=> Making(q)
                           /\ Making(q) => pc'[q] = pc[q] /\ pub'[q] = pub[q]
      BY <3>1 DEF Making
    <3>. QED BY <3>1, <3>2, KeysStay
  <2>. QED BY <2>1, <2>2
<1>2. ASSUME NEW p \in Procs, NEW force \in BOOLEAN, CheckKeys(p, force) PROVE KeysInv'
  <2>1. pc[p] = "idle" /\ UNCHANGED <<keyFile, pubFile>>
    BY <1>2 DEF CheckKeys
  <2>2. CASE Goto(p, "error") /\ UNCHANGED <<pub, keyFault>>
    <3>1. \A q \in Procs : /\ Making(q)' <=> Making(q)
                           /\ Making(q) => pc'[q] = pc[q] /\ pub'[q] = pub[q]
      BY <2>1, <2>2 DEF Making, Goto, TypeOK
    <3>. QED BY <2>1, <2>2, <3>1, KeysStay
  <2>3. CASE /\ Goto(p, "openkey") /\ \E k : pub' = [pub EXCEPT ![p] = k]
             /\ keyFault' = (keyFault \/ \E q \in Procs : Making(q))
    <3>1. /\ pc'[p] = "openkey"
          /\ \A q \in Procs : q # p => pc'[q] = pc[q] /\ pub'[q] = pub[q]
      BY <2>3 DEF Goto, TypeOK
    <3>2. CASE keyFault \/ \E q \in Procs : Making(q)
      BY <2>3, <3>2 DEF KeysInv
    <3>3. CASE ~keyFault /\ ~\E q \in Procs : Making(q)
      BY <2>1, <2>3, <3>1, <3>3 DEF KeysInv, Making
    <3>. QED BY <3>2, <3>3
  <2>. QED BY <1>2, <2>2, <2>3 DEF CheckKeys
<1>3. ASSUME NEW p \in Procs, WriteKey(p) \/ WritePub(p) PROVE KeysInv'
  <2>1. /\ Making(p) /\ UNCHANGED <<pub, keyFault>>
        /\ \A q \in Procs : q # p => pc'[q] = pc[q]
        /\ \/ pc[p] = "openkey" /\ pc'[p] = "writekey" /\ pubFile' = pubFile
           \/ pc[p] = "writekey" /\ pc'[p] = "openpub" /\ keyFile' = pub[p] /\ pubFile' = pubFile
           \/ pc[p] = "openpub" /\ pc'[p] = "writepub" /\ keyFile' = keyFile
           \/ pc[p] = "writepub" /\ pc'[p] = "made" /\ keyFile' = keyFile /\ pubFile' = pub[p]
    BY <1>3 DEF WriteKey, WritePub, Goto, Making, TypeOK
  <2>2. CASE ~keyFault
    <3>1. \A q \in Procs : q # p => ~Making(q)
      BY <2>1, <2>2 DEF KeysInv
    <3>. QED BY <2>1, <2>2, <3>1 DEF KeysInv, Making
  <2>. QED BY <2>1, <2>2 DEF KeysInv
<1>4. ASSUME NEW p \in Procs, KeyFails(p) PROVE KeysInv'
  <2>1. keyFault' = (keyFault \/ (Making(p) /\ pc[p] # "openkey"))
    BY <1>4 DEF KeyFails
  <2>. QED BY <1>4, <2>1, KeysEnd DEF KeyFails
<1>5. ASSUME NEW p \in Procs, Crash(p) PROVE KeysInv'
  BY <1>5, KeysEnd DEF Crash
<1>6. CASE UNCHANGED vars
  BY <1>6 DEF vars, KeysInv, Making
<1>. QED BY <1>1, <1>2, <1>3, <1>4, <1>5, <1>6 DEF Next, Keygen

\* When no keygen is at work, the private and the public key of the station belong
\* together, unless one was interrupted or two overlapped.
THEOREM KeysAlwaysMatch == Spec => []KeysMatch
<1>1. Init => KeysInv
  BY DEF Init, KeysInv, Making
<1>2. KeysInv => KeysMatch
  BY DEF KeysInv, KeysMatch, Making
<1>. QED BY <1>1, <1>2, KeysStep, TypeCorrect, PTL DEF Spec

-----------------------------------------------------------------------------
(***************************************************************************)
(* One acceptance for each nonce.                                          *)
(***************************************************************************)

Accepting(p) == Deciding(p) \/ pc[p] = "valid"

\* The nonce is a line of the log beside its manifest.
InLog(text, m) == m.nonce \in Lines(text[m.dir])

\* A nonce the log has not failed for is on its way to one acceptance, and in the log
\* from the moment it is written.
NonceInv ==
    /\ \A p, q \in Procs :
          p # q /\ Accepting(p) /\ Accepting(q) /\ Slot(job[p]) = Slot(job[q])
            => Slot(job[p]) \in faulty
    /\ \A p \in Procs :
          pc[p] \in {"newline", "valid"} => Slot(job[p]) \in faulty \/ InLog(log, job[p])

\* A line stays one when something is appended, unless it is the last and not ended.
LEMMA LinesGrow ==
    ASSUME NEW text \in Seq(Nonces \cup {NL}), NEW x \in Nonces \cup {NL}, NEW n \in Lines(text),
           x # NL => text[Len(text)] # n
    PROVE  n \in Lines(Append(text, x))
<1>1. PICK i \in 1 .. Len(text) :
        /\ text[i] = n
        /\ i > 1 => text[i - 1] = NL
        /\ i < Len(text) => text[i + 1] = NL
  BY DEF Lines
<1>. DEFINE l == Append(text, x)
<1>2. /\ Len(l) = Len(text) + 1 /\ Len(text) \in Nat /\ l[Len(text) + 1] = x
      /\ \A j \in 1 .. Len(text) : l[j] = text[j]
  OBVIOUS
<1>. HIDE DEF l
<1>3. i \in 1 .. Len(l) /\ l[i] = n /\ (i > 1 => l[i - 1] = NL)
  BY <1>1, <1>2
<1>4. l[i + 1] = NL
  BY <1>1, <1>2
<1>5. n \in Nonces
  BY DEF Lines
<1>6. n \in Lines(l)
  BY <1>3, <1>4, <1>5 DEF Lines
<1>. QED BY <1>6 DEF l

\* A nonce written where a line begins is a line.
LEMMA NonceIsLine ==
    ASSUME NEW text \in Seq(Nonces \cup {NL}), NEW n \in Nonces, text = <<>> \/ text[Len(text)] = NL
    PROVE  n \in Lines(Append(text, n))
<1>. DEFINE l == Append(text, n)
<1>1. /\ Len(l) = Len(text) + 1 /\ Len(text) \in Nat /\ l[Len(text) + 1] = n
      /\ \A j \in 1 .. Len(text) : l[j] = text[j]
  OBVIOUS
<1>2. Len(text) + 1 > 1 => text[Len(text)] = NL /\ Len(text) \in 1 .. Len(text)
  BY <1>1
<1>. HIDE DEF l
<1>3. Len(text) + 1 \in 1 .. Len(l) /\ (Len(text) + 1 > 1 => l[(Len(text) + 1) - 1] = NL)
      /\ ~(Len(text) + 1 < Len(l))
  BY <1>1, <1>2
<1>4. n \in Lines(l)
  BY <1>1, <1>3 DEF Lines
<1>. QED BY <1>4 DEF l

\* A step that begins no acceptance and takes nothing from the log.
LEMMA NonceStays ==
    ASSUME TypeOK, NonceInv, faulty \subseteq faulty',
           \A m \in Manifests : InLog(log, m) => Slot(m) \in faulty' \/ InLog(log', m),
           \A q \in Procs : /\ Accepting(q)' => Accepting(q) /\ job'[q] = job[q]
                            /\ pc'[q] \in {"newline", "valid"} =>
                                 \/ pc[q] \in {"newline", "valid"} /\ job'[q] = job[q]
                                 \/ Slot(job'[q]) \in faulty' \/ InLog(log', job'[q])
    PROVE  NonceInv'
<1>1. ASSUME NEW p \in Procs, NEW q \in Procs, p # q, Accepting(p)', Accepting(q)',
             Slot(job'[p]) = Slot(job'[q])
      PROVE  Slot(job'[p]) \in faulty'
  BY <1>1 DEF NonceInv
<1>2. ASSUME NEW p \in Procs, pc'[p] \in {"newline", "valid"}
      PROVE  Slot(job'[p]) \in faulty' \/ InLog(log', job'[p])
  <2>1. CASE pc[p] \in {"newline", "valid"} /\ job'[p] = job[p]
    BY <2>1 DEF NonceInv, TypeOK
  <2>. QED BY <1>2, <2>1
<1>. QED BY <1>1, <1>2 DEF NonceInv

\* A process that ends, or makes keys, accepts nothing.
LEMMA NonceEnds ==
    ASSUME TypeOK, NonceInv, NEW p \in Procs, UNCHANGED <<log, faulty>>,
           pc'[p] \notin {"hash", "list", "open", "newline", "valid"},
           \A q \in Procs \ {p} : pc'[q] = pc[q] /\ job'[q] = job[q] /\ bad'[q] = bad[q]
    PROVE  NonceInv'
<1>1. \A q \in Procs : /\ Accepting(q)' => Accepting(q) /\ job'[q] = job[q]
                       /\ pc'[q] \in {"newline", "valid"} =>
                            pc[q] \in {"newline", "valid"} /\ job'[q] = job[q]
  BY DEF Accepting, Deciding
<1>. QED BY <1>1, NonceStays

\* Every step accepts a nonce only if it is in nobody's hands, not in the log, or the
\* log may have failed for it.
LEMMA NonceStep == TypeOK /\ NonceInv /\ [Next]_vars => NonceInv'
<1>. SUFFICES ASSUME TypeOK, NonceInv, [Next]_vars PROVE NonceInv'
  OBVIOUS
<1>. USE DEF Goto
<1>0. \A p \in Procs : /\ job[p] \in Manifests /\ job[p].dir \in Dirs
                       /\ job[p].nonce \in Nonces /\ job[p].nonce # NL
  BY ManifestAssumption, NonceAssumption DEF TypeOK
<1>1. ASSUME NEW p \in Procs, LoadKey(p) \/ CheckManifest(p) PROVE NonceInv'
  <2>1. /\ UNCHANGED <<log, faulty>> /\ pc'[p] \in {"error", "window", "nonce"}
        /\ \A q \in Procs \ {p} : pc'[q] = pc[q] /\ job'[q] = job[q] /\ bad'[q] = bad[q]
    <3>1. CASE LoadKey(p)
      BY <3>1 DEF LoadKey, TypeOK
    <3>2. CASE CheckManifest(p)
      BY <3>2 DEF CheckManifest, TypeOK
    <3>. QED BY <1>1, <3>1, <3>2
  <2>. QED BY <2>1, NonceEnds
<1>2. ASSUME NEW p \in Procs, LookUp(p) PROVE NonceInv'
  <2>1. /\ pc[p] = "nonce" /\ pc' = [pc EXCEPT ![p] = "hash"] /\ UNCHANGED <<log, job>>
        /\ \A q \in Procs \ {p} : bad'[q] = bad[q]
        /\ faulty \subseteq faulty'
    BY <1>2 DEF LookUp, TypeOK
  <2>2. ASSUME NEW q \in Procs \ {p}, Accepting(q), Slot(job[q]) = Slot(job[p]), bad'[p] = {}
        PROVE  Slot(job[p]) \in faulty'
    <3>1. CASE Deciding(q)
      BY <1>2, <2>2, <3>1 DEF LookUp
    <3>2. CASE pc[q] = "valid"
      <4>1. Slot(job[p]) \in faulty \/ InLog(log, job[p])
        BY <2>2, <3>2 DEF NonceInv, InLog, Slot
      <4>2. InLog(log, job[p]) => Slot(job[p]) \in faulty'
        <5>1. CASE InLog(log, job[p]) /\ bad' = [bad EXCEPT ![p] = @ \cup {"nonce_replay"}]
          <6>1. bad'[p] = bad[p] \cup {"nonce_replay"}
            BY <5>1 DEF TypeOK
          <6>. QED BY <2>2, <6>1
        <5>2. CASE faulty' = faulty \cup {Slot(job[p])}
          BY <5>2
        <5>. QED BY <1>2, <5>1, <5>2 DEF LookUp, InLog
      <4>. QED BY <2>1, <4>1, <4>2
    <3>. QED BY <2>2, <3>1, <3>2 DEF Accepting
  <2>3. \A q \in Procs \ {p} : Accepting(q)' <=> Accepting(q)
    BY <2>1 DEF Accepting, Deciding, TypeOK
  <2>4. Accepting(p)' => bad'[p] = {}
    BY <2>1 DEF Accepting, Deciding, TypeOK
  <2>5. ASSUME NEW q \in Procs, NEW r \in Procs, q # r, Accepting(q)', Accepting(r)',
               Slot(job[q]) = Slot(job[r])
        PROVE  Slot(job[q]) \in faulty'
    <3>1. CASE q # p /\ r # p
      BY <2>1, <2>3, <2>5, <3>1 DEF NonceInv
    <3>2. CASE q = p \/ r = p
      BY <2>2, <2>3, <2>4, <2>5, <3>2
    <3>. QED BY <3>1, <3>2
  <2>6. \A q \in Procs : pc'[q] \in {"newline", "valid"} => pc[q] \in {"newline", "valid"}
    BY <2>1 DEF TypeOK
  <2>. QED BY <2>1, <2>5, <2>6 DEF NonceInv
<1>3. ASSUME NEW p \in Procs, HashMedium(p) \/ ReadMedium(p) PROVE NonceInv'
  <2>1. /\ UNCHANGED <<log, faulty, job>> /\ pc[p] \in {"hash", "list"}
        /\ bad[p] \subseteq bad'[p]
        /\ pc'[p] \in {"list", "open", "invalid"}
        /\ \A q \in Procs \ {p} : pc'[q] = pc[q] /\ bad'[q] = bad[q]
    <3>1. CASE HashMedium(p)
      BY <3>1 DEF HashMedium, TypeOK
    <3>2. CASE ReadMedium(p)
      BY <3>2 DEF ReadMedium, TypeOK
    <3>. QED BY <1>3, <3>1, <3>2
  <2>2. \A q \in Procs : /\ Accepting(q)' => Accepting(q) /\ job'[q] = job[q]
                         /\ pc'[q] \in {"newline", "valid"} =>
                              pc[q] \in {"newline", "valid"} /\ job'[q] = job[q]
    BY <2>1 DEF Accepting, Deciding
  <2>. QED BY <2>1, <2>2, NonceStays
<1>4. ASSUME NEW p \in Procs, WriteNonce(p) PROVE NonceInv'
  <2>. DEFINE d == job[p].dir
              n == job[p].nonce
              l == log[d]
  <2>1. /\ pc[p] = "open" /\ pc' = [pc EXCEPT ![p] = "newline"] /\ UNCHANGED <<job, bad>>
        /\ log' = [log EXCEPT ![d] = Append(l, n)] /\ bad[p] = {}
        /\ faulty' = IF l # <<>> /\ l[Len(l)] # NL
                       THEN faulty \cup {<<d, n>>, <<d, l[Len(l)]>>} ELSE faulty
    BY <1>4 DEF WriteNonce, TypeOK, Slot
  <2>2. l \in Seq(Nonces \cup {NL}) /\ n \in Nonces /\ n # NL /\ d \in Dirs
    BY <1>0 DEF TypeOK
  <2>3. log'[d] = Append(l, n) /\ \A e \in Dirs \ {d} : log'[e] = log[e]
    BY <2>1, <2>2 DEF TypeOK
  <2>. HIDE DEF l, n, d
  <2>4. ASSUME NEW x \in Lines(l) PROVE <<d, x>> \in faulty' \/ x \in Lines(log'[d])
    <3>1. l # <<>> /\ x \in Nonces /\ x # NL
      BY <2>2, <2>4, NonceAssumption DEF Lines
    <3>2. CASE l[Len(l)] = x
      BY <2>1, <3>1, <3>2
    <3>3. CASE l[Len(l)] # x
      BY <2>2, <2>3, <2>4, <3>3, LinesGrow
    <3>. QED BY <3>2, <3>3
  <2>5. <<d, n>> \in faulty' \/ n \in Lines(log'[d])
    <3>1. CASE l # <<>> /\ l[Len(l)] # NL
      BY <2>1, <3>1
    <3>2. CASE l = <<>> \/ l[Len(l)] = NL
      BY <2>2, <2>3, <3>2, NonceIsLine
    <3>. QED BY <3>1, <3>2
  <2>6. ASSUME NEW m \in Manifests, InLog(log, m)
        PROVE  Slot(m) \in faulty' \/ InLog(log', m)
    <3>1. m.dir \in Dirs
      BY ManifestAssumption
    <3>2. CASE m.dir = d
      BY <2>4, <2>6, <3>2 DEF InLog, Slot, l
    <3>3. CASE m.dir # d
      BY <2>3, <2>6, <3>1, <3>3 DEF InLog
    <3>. QED BY <3>2, <3>3
  <2>7. Slot(job'[p]) \in faulty' \/ InLog(log', job'[p])
    BY <2>1, <2>5 DEF InLog, Slot, d, n
  <2>8. \A q \in Procs : /\ Accepting(q)' => Accepting(q) /\ job'[q] = job[q]
                         /\ pc'[q] \in {"newline", "valid"} =>
                              \/ pc[q] \in {"newline", "valid"} /\ job'[q] = job[q]
                              \/ Slot(job'[q]) \in faulty' \/ InLog(log', job'[q])
    BY <2>1, <2>7 DEF Accepting, Deciding, TypeOK
  <2>9. faulty \subseteq faulty'
    BY <2>1
  <2>. QED BY <2>6, <2>8, <2>9, NonceStays
<1>5. ASSUME NEW p \in Procs, NotRecorded(p) PROVE NonceInv'
  <2>1. /\ pc[p] = "open" /\ pc' = [pc EXCEPT ![p] = "valid"] /\ UNCHANGED <<job, bad, log>>
        /\ faulty' = faulty \cup {Slot(job[p])} /\ bad[p] = {}
    BY <1>5 DEF NotRecorded, TypeOK
  <2>2. \A q \in Procs : /\ Accepting(q)' => Accepting(q) /\ job'[q] = job[q]
                         /\ pc'[q] \in {"newline", "valid"} =>
                              \/ pc[q] \in {"newline", "valid"} /\ job'[q] = job[q]
                              \/ Slot(job'[q]) \in faulty' \/ InLog(log', job'[q])
    BY <2>1 DEF Accepting, Deciding, TypeOK
  <2>. QED BY <2>1, <2>2, NonceStays
<1>6. ASSUME NEW p \in Procs, WriteNewline(p) PROVE NonceInv'
  <2>. DEFINE d == job[p].dir
              l == log[d]
  <2>1. /\ pc[p] = "newline" /\ pc' = [pc EXCEPT ![p] = "valid"]
        /\ UNCHANGED <<job, bad, faulty>> /\ bad[p] = {}
        /\ log' = [log EXCEPT ![d] = Append(l, NL)]
    BY <1>6 DEF WriteNewline, TypeOK
  <2>2. l \in Seq(Nonces \cup {NL}) /\ d \in Dirs
    BY <1>0 DEF TypeOK
  <2>3. log'[d] = Append(l, NL) /\ \A e \in Dirs \ {d} : log'[e] = log[e]
    BY <2>1, <2>2 DEF TypeOK
  <2>. HIDE DEF l, d
  <2>4. \A x \in Lines(l) : x \in Lines(log'[d])
    BY <2>2, <2>3, LinesGrow
  <2>5. ASSUME NEW m \in Manifests, InLog(log, m) PROVE InLog(log', m)
    <3>1. m.dir \in Dirs
      BY ManifestAssumption
    <3>. QED BY <2>3, <2>4, <2>5, <3>1 DEF InLog, l
  <2>6. \A q \in Procs : /\ Accepting(q)' => Accepting(q) /\ job'[q] = job[q]
                         /\ pc'[q] \in {"newline", "valid"} =>
                              pc[q] \in {"newline", "valid"} /\ job'[q] = job[q]
    BY <2>1 DEF Accepting, Deciding, TypeOK
  <2>. QED BY <2>1, <2>5, <2>6, NonceStays
<1>7. ASSUME NEW p \in Procs, NotEnded(p) PROVE NonceInv'
  <2>1. /\ pc[p] = "newline" /\ pc' = [pc EXCEPT ![p] = "valid"]
        /\ UNCHANGED <<job, bad, faulty, log>> /\ bad[p] = {}
    BY <1>7 DEF NotEnded, TypeOK
  <2>2. \A q \in Procs : /\ Accepting(q)' => Accepting(q) /\ job'[q] = job[q]
                         /\ pc'[q] \in {"newline", "valid"} =>
                              pc[q] \in {"newline", "valid"} /\ job'[q] = job[q]
    BY <2>1 DEF Accepting, Deciding, TypeOK
  <2>. QED BY <2>1, <2>2, NonceStays
<1>8. ASSUME NEW p \in Procs, MediumFails(p) \/ KeyFails(p) \/ Crash(p) PROVE NonceInv'
  <2>1. Goto(p, "error") /\ Forget(p) /\ UNCHANGED <<log, faulty>>
    BY <1>8 DEF MediumFails, KeyFails, Crash
  <2>2. /\ pc'[p] = "error"
        /\ \A q \in Procs \ {p} : pc'[q] = pc[q] /\ job'[q] = job[q] /\ bad'[q] = bad[q]
    BY <2>1 DEF Forget, TypeOK
  <2>. QED BY <2>1, <2>2, NonceEnds
<1>9. ASSUME NEW p \in Procs, \/ \E force \in BOOLEAN : CheckKeys(p, force)
                              \/ WriteKey(p) \/ WritePub(p)
      PROVE  NonceInv'
  <2>1. /\ UNCHANGED <<log, faulty, job, bad>>
        /\ pc'[p] \in {"error", "openkey", "writekey", "openpub", "writepub", "made"}
        /\ \A q \in Procs \ {p} : pc'[q] = pc[q]
    <3>1. CASE \E force \in BOOLEAN : CheckKeys(p, force)
      BY <3>1 DEF CheckKeys, TypeOK
    <3>2. CASE WriteKey(p) \/ WritePub(p)
      BY <3>2 DEF WriteKey, WritePub, TypeOK
    <3>. QED BY <1>9, <3>1, <3>2
  <2>. QED BY <2>1, NonceEnds
<1>10. CASE UNCHANGED vars
  BY <1>10 DEF vars, NonceInv, Accepting, Deciding, InLog
<1>. QED BY <1>1, <1>2, <1>3, <1>4, <1>5, <1>6, <1>7, <1>8, <1>9, <1>10 DEF Next, Verify, Keygen

\* However many verifications of one manifest run, overlap or end, its nonce is accepted
\* once from each directory the manifest lies in, unless two of them overlapped there,
\* the log there could not be read or written, or a line of it was not ended.
THEOREM NonceAcceptedOnce == Spec => []AcceptedOnce
<1>1. Init => NonceInv
  BY DEF Init, NonceInv, Accepting, Deciding
<1>2. NonceInv => AcceptedOnce
  BY DEF NonceInv, AcceptedOnce, Accepting
<1>. QED BY <1>1, <1>2, NonceStep, TypeCorrect, PTL DEF Spec
-----------------------------------------------------------------------------
(***************************************************************************)
(* What a verification has found out at each of its steps.                 *)
(***************************************************************************)

\* As many files, each of them found, and no two of one path: the same files.
LEMMA AgreeIsSame ==
    ASSUME NEW a \in Seq(Files), NEW b \in Seq(Files), FilesAgree(a, b), Distinct(a)
    PROVE  SameFiles(a, b)
<1>. DEFINE n == Len(a)
            f == [i \in 1 .. n |-> CHOOSE j \in 1 .. n : b[j] = a[i]]
<1>1. n \in Nat /\ Len(b) = n /\ DOMAIN a = 1 .. n /\ DOMAIN b = 1 .. n
  BY DEF FilesAgree
<1>2. \A i \in 1 .. n : f[i] \in 1 .. n /\ b[f[i]] = a[i]
  <2>1. \A i \in 1 .. n : \E j \in 1 .. n : b[j] = a[i]
    BY <1>1 DEF FilesAgree
  <2>. QED BY <2>1
<1>3. \A i, k \in 1 .. n : f[i] = f[k] => i = k
  <2>. SUFFICES ASSUME NEW i \in 1 .. n, NEW k \in 1 .. n, f[i] = f[k] PROVE i = k
    OBVIOUS
  <2>. HIDE DEF f
  <2>1. a[i] = a[k]
    BY <1>2
  <2>. QED BY <1>1, <2>1 DEF Distinct
<1>4. f \in Injection(1 .. n, 1 .. n)
  BY <1>2, <1>3 DEF Injection, IsInjective
<1>5. IsFiniteSet(1 .. n)
  BY <1>1, FS_Interval
<1>6. f \in Surjection(1 .. n, 1 .. n)
  BY <1>4, <1>5, FS_Injection
<1>. HIDE DEF f
<1>7. \A j \in 1 .. n : \E i \in 1 .. n : f[i] = j
  BY <1>6 DEF Surjection
<1>8. \A j \in 1 .. n : \E i \in 1 .. n : b[j] = a[i]
  BY <1>2, <1>7
<1>9. \A i \in 1 .. n : \E j \in 1 .. n : b[j] = a[i]
  BY <1>2
<1>. HIDE DEF n
<1>10. \A x \in {a[i] : i \in 1 .. n} : x \in {b[j] : j \in 1 .. n}
  BY <1>9
<1>11. \A x \in {b[j] : j \in 1 .. n} : x \in {a[i] : i \in 1 .. n}
  BY <1>8
<1>12. {a[i] : i \in 1 .. n} = {b[j] : j \in 1 .. n}
  BY <1>10, <1>11
<1>. QED BY <1>1, <1>12 DEF SameFiles, n

\* Files of different paths agree with themselves.
LEMMA AgreesWithItself ==
    ASSUME NEW a \in Seq(Files), Distinct(a) PROVE FilesAgree(a, a)
<1>1. Len(a) \in Nat /\ DOMAIN a = 1 .. Len(a)
  OBVIOUS
<1>2. ASSUME NEW i \in DOMAIN a, NEW k \in 1 .. i - 1 PROVE a[k].path # a[i].path
  BY <1>1, <1>2 DEF Distinct
<1>. QED BY <1>1, <1>2 DEF FilesAgree

\* The mismatches of a manifest so far are those there are.
Judged(p) ==
    /\ pc[p] \in {"nonce", "hash", "list", "open", "newline", "valid", "invalid"} =>
         ("signature" \in bad[p] <=> job[p].key # pub[p])
    /\ pc[p] \in {"nonce", "hash"} => "device_hash" \notin bad[p]
    /\ pc[p] \in {"nonce", "hash", "list"} =>
         "partition_layout_hash" \notin bad[p] /\ "files" \notin bad[p]
    /\ pc[p] \in {"list", "open", "newline", "valid", "invalid"} =>
         ("device_hash" \in bad[p] <=> job[p].hash # hashed[p])
    /\ pc[p] \in {"open", "newline", "valid", "invalid"} =>
         /\ listed[p] \in Contents
         /\ "partition_layout_hash" \in bad[p] <=> LayoutOf[listed[p]] # job[p].layout
         /\ "files" \in bad[p] <=> ~FilesAgree(job[p].files, FilesOf[listed[p]])
    /\ pc[p] = "invalid" => bad[p] # {}

AllJudged == \A p \in Procs : Judged(p)

\* The steps of one process do not touch what another one knows.
LEMMA OthersJudged ==
    ASSUME AllJudged, NEW p \in Procs, Judged(p)',
           \A q \in Procs \ {p} : /\ pc'[q] = pc[q] /\ bad'[q] = bad[q] /\ job'[q] = job[q]
                                  /\ pub'[q] = pub[q] /\ hashed'[q] = hashed[q]
                                  /\ listed'[q] = listed[q]
    PROVE  AllJudged'
<1>1. ASSUME NEW q \in Procs \ {p} PROVE Judged(q)'
  <2>1. Judged(q)
    BY DEF AllJudged
  <2>. QED BY <2>1 DEF Judged
<1>. QED BY <1>1 DEF AllJudged

\* A process that ends without a verdict, or makes keys, has found out nothing.
LEMMA NothingJudged ==
    ASSUME NEW p \in Procs,
           pc'[p] \in {"idle", "window", "error", "openkey", "writekey", "openpub", "writepub", "made"}
    PROVE  Judged(p)'
BY DEF Judged

\* Every step finds out what its label says.
LEMMA JudgedStep == TypeOK /\ AllJudged /\ [Next]_vars => AllJudged'
<1>. SUFFICES ASSUME TypeOK, AllJudged, [Next]_vars PROVE AllJudged'
  OBVIOUS
<1>. USE DEF Goto
<1>1. ASSUME NEW p \in Procs, LoadKey(p) PROVE AllJudged'
  <2>1. /\ pc'[p] \in {"error", "window"} /\ UNCHANGED <<bad, hashed, listed>>
        /\ \A q \in Procs \ {p} : pc'[q] = pc[q] /\ pub'[q] = pub[q] /\ job'[q] = job[q]
    BY <1>1 DEF LoadKey, TypeOK
  <2>2. Judged(p)'
    BY <2>1, NothingJudged
  <2>. QED BY <2>1, <2>2, OthersJudged
<1>2. ASSUME NEW p \in Procs, CheckManifest(p) PROVE AllJudged'
  <2>1. PICK now \in 0 .. MaxTime :
          bad' = [bad EXCEPT ![p] = TimeMismatches(job[p], now)
                    \cup (IF job[p].key = pub[p] THEN {} ELSE {"signature"})]
    BY <1>2 DEF CheckManifest
  <2>2. /\ bad'[p] = TimeMismatches(job[p], now)
                       \cup (IF job[p].key = pub[p] THEN {} ELSE {"signature"})
        /\ pc'[p] = "nonce" /\ job'[p] = job[p] /\ pub'[p] = pub[p]
    BY <1>2, <2>1 DEF CheckManifest, TypeOK
  <2>3. TimeMismatches(job[p], now) \subseteq {"expiration", "issued_at", "validity_window"}
    BY TimesAre
  <2>4. Judged(p)'
    BY <2>2, <2>3 DEF Judged
  <2>. QED BY <1>2, <2>1, <2>4, OthersJudged DEF CheckManifest, TypeOK
<1>3. ASSUME NEW p \in Procs, LookUp(p) PROVE AllJudged'
  <2>1. bad' = bad \/ bad' = [bad EXCEPT ![p] = @ \cup {"nonce_replay"}]
    BY <1>3 DEF LookUp
  <2>2. /\ bad'[p] = bad[p] \/ bad'[p] = bad[p] \cup {"nonce_replay"}
        /\ \A q \in Procs \ {p} : bad'[q] = bad[q]
    BY <2>1 DEF TypeOK
  <2>3. /\ pc[p] = "nonce" /\ pc'[p] = "hash" /\ job'[p] = job[p] /\ pub'[p] = pub[p]
    BY <1>3 DEF LookUp, TypeOK
  <2>4. Judged(p)
    BY DEF AllJudged
  <2>5. Judged(p)'
    BY <2>2, <2>3, <2>4 DEF Judged
  <2>. QED BY <1>3, <2>2, <2>5, OthersJudged DEF LookUp, TypeOK
<1>4. ASSUME NEW p \in Procs, HashMedium(p) PROVE AllJudged'
  <2>1. PICK medium \in Contents :
          /\ hashed' = [hashed EXCEPT ![p] = medium]
          /\ bad' = IF job[p].hash = medium THEN bad
                                            ELSE [bad EXCEPT ![p] = @ \cup {"device_hash"}]
    BY <1>4 DEF HashMedium
  <2>2. /\ bad'[p] = IF job[p].hash = medium THEN bad[p] ELSE bad[p] \cup {"device_hash"}
        /\ \A q \in Procs \ {p} : bad'[q] = bad[q] /\ hashed'[q] = hashed[q]
        /\ hashed'[p] = medium
    BY <2>1 DEF TypeOK
  <2>3. pc[p] = "hash" /\ pc'[p] = "list" /\ job'[p] = job[p] /\ pub'[p] = pub[p]
    BY <1>4 DEF HashMedium, TypeOK
  <2>4. Judged(p)
    BY DEF AllJudged
  <2>5. Judged(p)'
    BY <2>2, <2>3, <2>4 DEF Judged
  <2>. QED BY <1>4, <2>2, <2>5, OthersJudged DEF HashMedium, TypeOK
<1>5. ASSUME NEW p \in Procs, ReadMedium(p) PROVE AllJudged'
  <2>1. PICK medium \in Contents :
          /\ listed' = [listed EXCEPT ![p] = medium]
          /\ bad' = [bad EXCEPT ![p] = @
               \cup (IF LayoutOf[medium] = job[p].layout THEN {} ELSE {"partition_layout_hash"})
               \cup (IF FilesAgree(job[p].files, FilesOf[medium]) THEN {} ELSE {"files"})]
    BY <1>5 DEF ReadMedium
  <2>2. /\ bad'[p] = bad[p]
             \cup (IF LayoutOf[medium] = job[p].layout THEN {} ELSE {"partition_layout_hash"})
             \cup (IF FilesAgree(job[p].files, FilesOf[medium]) THEN {} ELSE {"files"})
        /\ \A q \in Procs \ {p} : bad'[q] = bad[q] /\ listed'[q] = listed[q]
        /\ listed'[p] = medium
    BY <2>1 DEF TypeOK
  <2>3. /\ pc[p] = "list" /\ job'[p] = job[p] /\ pub'[p] = pub[p] /\ hashed'[p] = hashed[p]
        /\ pc'[p] = IF bad'[p] = {} THEN "open" ELSE "invalid"
    BY <1>5 DEF ReadMedium, TypeOK
  <2>4. Judged(p)
    BY DEF AllJudged
  <2>5. /\ "signature" \in bad'[p] <=> job[p].key # pub[p]
        /\ "device_hash" \in bad'[p] <=> job[p].hash # hashed[p]
        /\ "partition_layout_hash" \in bad'[p] <=> LayoutOf[medium] # job[p].layout
        /\ "files" \in bad'[p] <=> ~FilesAgree(job[p].files, FilesOf[medium])
    BY <2>2, <2>3, <2>4 DEF Judged
  <2>6. pc'[p] \in {"open", "invalid"} /\ (pc'[p] = "invalid" => bad'[p] # {})
    BY <2>3
  <2>7. Judged(p)'
    BY <2>2, <2>3, <2>5, <2>6 DEF Judged
  <2>. QED BY <1>5, <2>2, <2>7, OthersJudged DEF ReadMedium, TypeOK
<1>6. ASSUME NEW p \in Procs,
             WriteNonce(p) \/ NotRecorded(p) \/ WriteNewline(p) \/ NotEnded(p)
      PROVE  AllJudged'
  <2>1. /\ pc[p] \in {"open", "newline"} /\ UNCHANGED <<job, pub, bad, hashed, listed>>
        /\ pc'[p] \in {"newline", "valid"} /\ \A q \in Procs \ {p} : pc'[q] = pc[q]
    <3>1. CASE WriteNonce(p) \/ NotRecorded(p)
      BY <3>1 DEF WriteNonce, NotRecorded, TypeOK
    <3>2. CASE WriteNewline(p) \/ NotEnded(p)
      BY <3>2 DEF WriteNewline, NotEnded, TypeOK
    <3>. QED BY <1>6, <3>1, <3>2
  <2>2. Judged(p)
    BY DEF AllJudged
  <2>3. Judged(p)'
    BY <2>1, <2>2 DEF Judged
  <2>. QED BY <2>1, <2>3, OthersJudged
<1>7. ASSUME NEW p \in Procs, MediumFails(p) \/ KeyFails(p) \/ Crash(p) PROVE AllJudged'
  <2>1. Goto(p, "error") /\ Forget(p)
    BY <1>7 DEF MediumFails, KeyFails, Crash
  <2>2. Judged(p)'
    BY <2>1, NothingJudged DEF TypeOK
  <2>. QED BY <2>1, <2>2, OthersJudged DEF Forget, TypeOK
<1>8. ASSUME NEW p \in Procs, \/ \E force \in BOOLEAN : CheckKeys(p, force)
                              \/ WriteKey(p) \/ WritePub(p)
      PROVE  AllJudged'
  <2>1. /\ UNCHANGED <<job, bad, hashed, listed>>
        /\ pc'[p] \in {"error", "openkey", "writekey", "openpub", "writepub", "made"}
        /\ \A q \in Procs \ {p} : pc'[q] = pc[q] /\ pub'[q] = pub[q]
    <3>1. CASE \E force \in BOOLEAN : CheckKeys(p, force)
      BY <3>1 DEF CheckKeys, TypeOK
    <3>2. CASE WriteKey(p) \/ WritePub(p)
      BY <3>2 DEF WriteKey, WritePub, TypeOK
    <3>. QED BY <1>8, <3>1, <3>2
  <2>2. Judged(p)'
    BY <2>1, NothingJudged
  <2>. QED BY <2>1, <2>2, OthersJudged
<1>9. CASE UNCHANGED vars
  BY <1>9 DEF vars, AllJudged, Judged
<1>. QED BY <1>1, <1>2, <1>3, <1>4, <1>5, <1>6, <1>7, <1>8, <1>9 DEF Next, Verify, Keygen

\* At the start nothing has been found out.
LEMMA JudgedInit == Init => AllJudged
BY DEF Init, AllJudged, Judged

\* The keys at work: keygen makes and leaves the station's own pairs only, and a
\* verification has the key of one of them, an offered one or the one it found.
Verifying(p) == pc[p] \in {"window", "nonce", "hash", "list", "open", "newline", "valid", "invalid"}

KeyKnown(p) ==
    /\ Making(p) => pub[p] \in used
    /\ Verifying(p) => pub[p] \in used \cup Offered \cup {Brought[job[p].dir]}

KeySource == pubFile \in used \cup {NoFile, NoKey} /\ \A p \in Procs : KeyKnown(p)

\* Every step takes a key from where keys are.
LEMMA KeySourceStep == TypeOK /\ KeySource /\ [Next]_vars => KeySource'
<1>. SUFFICES ASSUME TypeOK, KeySource, [Next]_vars PROVE KeySource'
  OBVIOUS
<1>. USE DEF Goto
<1>1. ASSUME NEW p \in Procs, LoadKey(p) PROVE KeySource'
  <2>0. PICK m \in Manifests : \E k \in PublicKeys(m.dir) :
          IF k \notin Keys
            THEN Goto(p, "error") /\ UNCHANGED <<job, pub>>
            ELSE /\ Goto(p, "window")
                 /\ pub' = [pub EXCEPT ![p] = k]
                 /\ job' = [job EXCEPT ![p] = m]
    BY <1>1 DEF LoadKey
  <2>1. PICK k \in PublicKeys(m.dir) :
          IF k \notin Keys
            THEN Goto(p, "error") /\ UNCHANGED <<job, pub>>
            ELSE /\ Goto(p, "window")
                 /\ pub' = [pub EXCEPT ![p] = k]
                 /\ job' = [job EXCEPT ![p] = m]
    BY <2>0
  <2>2. UNCHANGED <<pubFile, used>>
    BY <1>1 DEF LoadKey, keyVars
  <2>3. CASE k \notin Keys
    <3>1. /\ UNCHANGED <<job, pub>> /\ pc'[p] = "error"
          /\ \A q \in Procs \ {p} : pc'[q] = pc[q]
      BY <2>1, <2>3 DEF TypeOK
    <3>. QED BY <2>2, <3>1 DEF KeySource, KeyKnown, Making, Verifying
  <2>4. CASE k \in Keys
    <3>1. /\ pub'[p] = k /\ job'[p] = m /\ pc'[p] = "window"
          /\ \A q \in Procs \ {p} : pc'[q] = pc[q] /\ pub'[q] = pub[q] /\ job'[q] = job[q]
      BY <2>1, <2>4 DEF TypeOK
    <3>2. k \in used \cup Offered \cup {Brought[m.dir]}
      BY <2>4, KeyAssumption DEF PublicKeys, FoundKey, KeySource
    <3>. QED BY <2>2, <3>1, <3>2 DEF KeySource, KeyKnown, Making, Verifying
  <2>. QED BY <2>3, <2>4
<1>2. ASSUME NEW p \in Procs, UNCHANGED <<pubFile, used, job, pub>>,
             Making(p)' => Making(p), Verifying(p)' => Verifying(p),
             \A q \in Procs \ {p} : pc'[q] = pc[q]
      PROVE  KeySource'
  BY <1>2 DEF KeySource, KeyKnown, Making, Verifying
<1>3. ASSUME NEW p \in Procs,
             \/ CheckManifest(p) \/ LookUp(p) \/ HashMedium(p)
             \/ WriteNonce(p) \/ NotRecorded(p) \/ WriteNewline(p) \/ NotEnded(p)
      PROVE  KeySource'
  <2>1. /\ UNCHANGED <<pubFile, used, job, pub>> /\ Verifying(p) /\ ~Making(p)'
        /\ \A q \in Procs \ {p} : pc'[q] = pc[q]
    <3>1. CASE CheckManifest(p) \/ LookUp(p) \/ HashMedium(p)
      BY <3>1 DEF CheckManifest, LookUp, HashMedium, keyVars, TypeOK, Verifying, Making
    <3>2. CASE WriteNonce(p) \/ NotRecorded(p) \/ WriteNewline(p) \/ NotEnded(p)
      BY <3>2 DEF WriteNonce, NotRecorded, WriteNewline, NotEnded, keyVars, TypeOK, Verifying, Making
    <3>. QED BY <1>3, <3>1, <3>2
  <2>. QED BY <1>2, <2>1
<1>4. ASSUME NEW p \in Procs, ReadMedium(p) PROVE KeySource'
  <2>1. /\ UNCHANGED <<pubFile, used, job, pub>> /\ Verifying(p) /\ ~Making(p)'
        /\ \A q \in Procs \ {p} : pc'[q] = pc[q]
    BY <1>4 DEF ReadMedium, keyVars, TypeOK, Verifying, Making
  <2>. QED BY <1>2, <2>1
<1>5. ASSUME NEW p \in Procs, MediumFails(p) \/ KeyFails(p) \/ Crash(p) PROVE KeySource'
  <2>1. /\ UNCHANGED <<pubFile, used>> /\ pc'[p] = "error"
        /\ \A q \in Procs \ {p} : pc'[q] = pc[q] /\ pub'[q] = pub[q] /\ job'[q] = job[q]
    BY <1>5 DEF MediumFails, KeyFails, Crash, Forget, keyVars, TypeOK
  <2>. QED BY <2>1 DEF KeySource, KeyKnown, Making, Verifying
<1>6. ASSUME NEW p \in Procs, NEW force \in BOOLEAN, CheckKeys(p, force) PROVE KeySource'
  <2>1. UNCHANGED <<pubFile, job>>
    BY <1>6 DEF CheckKeys
  <2>2. CASE Goto(p, "error") /\ UNCHANGED <<used, pub>>
    <3>1. pc'[p] = "error" /\ \A q \in Procs \ {p} : pc'[q] = pc[q]
      BY <2>2 DEF TypeOK
    <3>. QED BY <2>1, <2>2, <3>1 DEF KeySource, KeyKnown, Making, Verifying
  <2>3. CASE /\ \E k \in Own \ used : used' = used \cup {k} /\ pub' = [pub EXCEPT ![p] = k]
             /\ Goto(p, "openkey")
    <3>1. PICK k \in Own \ used : used' = used \cup {k} /\ pub' = [pub EXCEPT ![p] = k]
      BY <2>3
    <3>2. /\ pc'[p] = "openkey" /\ pub'[p] = k
          /\ \A q \in Procs \ {p} : pc'[q] = pc[q] /\ pub'[q] = pub[q]
      BY <2>3, <3>1 DEF TypeOK
    <3>. QED BY <2>1, <3>1, <3>2 DEF KeySource, KeyKnown, Making, Verifying
  <2>. QED BY <1>6, <2>2, <2>3 DEF CheckKeys
<1>7. ASSUME NEW p \in Procs, WriteKey(p) \/ WritePub(p) PROVE KeySource'
  <2>1. /\ UNCHANGED <<used, job, pub>> /\ Making(p) /\ ~Verifying(p)'
        /\ pubFile' \in {pubFile, NoKey, pub[p]}
        /\ \A q \in Procs \ {p} : pc'[q] = pc[q]
    BY <1>7 DEF WriteKey, WritePub, TypeOK, Making, Verifying
  <2>. QED BY <2>1 DEF KeySource, KeyKnown, Making, Verifying
<1>8. CASE UNCHANGED vars
  BY <1>8 DEF vars, KeySource, KeyKnown, Making, Verifying
<1>. QED BY <1>1, <1>3, <1>4, <1>5, <1>6, <1>7, <1>8 DEF Next, Verify, Keygen

\* At the start the public key is the station's, and nobody has loaded one.
LEMMA KeySourceInit == Init => KeySource
BY DEF Init, KeySource, KeyKnown, Making, Verifying

\* Whatever the media become meanwhile, what is accepted has a signature of the pair
\* it was verified with, which is the station's, an offered or the manifest's own one,
\* the hash and the layout of its manifest, and exactly its files.
THEOREM AcceptedAlwaysGenuine == Spec => []AcceptedIsGenuine
<1>1. ASSUME TypeOK, AllJudged, KeySource PROVE AcceptedIsGenuine
  <2>. SUFFICES ASSUME NEW p \in Procs, pc[p] = "valid"
       PROVE  /\ job[p].key = pub[p] /\ pub[p] \in used \cup Offered \cup {Brought[job[p].dir]}
              /\ job[p].hash = hashed[p]
              /\ LayoutOf[listed[p]] = job[p].layout
              /\ Distinct(job[p].files) => SameFiles(job[p].files, FilesOf[listed[p]])
    BY DEF AcceptedIsGenuine
  <2>1. bad[p] = {} /\ Judged(p)
    BY <1>1 DEF TypeOK, AllJudged
  <2>2. /\ job[p].key = pub[p] /\ job[p].hash = hashed[p] /\ listed[p] \in Contents
        /\ LayoutOf[listed[p]] = job[p].layout
        /\ FilesAgree(job[p].files, FilesOf[listed[p]])
    BY <2>1 DEF Judged
  <2>3. job[p].files \in Seq(Files) /\ FilesOf[listed[p]] \in Seq(Files)
    BY <1>1, <2>2, ManifestAssumption, ContentAssumption DEF TypeOK
  <2>4. pub[p] \in used \cup Offered \cup {Brought[job[p].dir]}
    BY <1>1 DEF KeySource, KeyKnown, Verifying
  <2>. QED BY <2>2, <2>3, <2>4, AgreeIsSame
<1>. QED BY <1>1, JudgedInit, JudgedStep, KeySourceInit, KeySourceStep, TypeCorrect, PTL DEF Spec

\* A medium that is what its manifest says is rejected for its time or its nonce only,
\* unless its files cannot be told apart.
THEOREM HonestAlwaysAccepted == Spec => []HonestIsAccepted
<1>1. ASSUME TypeOK, AllJudged PROVE HonestIsAccepted
  <2>. SUFFICES ASSUME NEW p \in Procs, pc[p] = "invalid", job[p].key = pub[p],
                       job[p].hash = hashed[p], listed[p] = hashed[p],
                       LayoutOf[hashed[p]] = job[p].layout,
                       Distinct(job[p].files), FilesOf[hashed[p]] = job[p].files
       PROVE  bad[p] \cap {"expiration", "issued_at", "validity_window", "nonce_replay"} # {}
    BY DEF HonestIsAccepted
  <2>1. Judged(p) /\ bad[p] \subseteq Components
    BY <1>1 DEF TypeOK, AllJudged
  <2>2. job[p].files \in Seq(Files)
    BY <1>1, ManifestAssumption DEF TypeOK
  <2>3. FilesAgree(job[p].files, FilesOf[listed[p]])
    BY <2>2, AgreesWithItself
  <2>4. /\ "signature" \notin bad[p] /\ "device_hash" \notin bad[p]
        /\ "partition_layout_hash" \notin bad[p] /\ "files" \notin bad[p] /\ bad[p] # {}
    BY <2>1, <2>3 DEF Judged
  <2>. QED BY <2>1, <2>4 DEF Components
<1>. QED BY <1>1, JudgedInit, JudgedStep, TypeCorrect, PTL DEF Spec

\* What is accepted is genuine, and what is honest is accepted.
THEOREM VerificationAlwaysExact == Spec => []VerificationIsExact
<1>1. AcceptedIsGenuine /\ HonestIsAccepted => VerificationIsExact
  BY DEF VerificationIsExact
<1>. QED BY <1>1, AcceptedAlwaysGenuine, HonestAlwaysAccepted, PTL
=============================================================================
