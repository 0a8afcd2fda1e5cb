---------------------------- MODULE TriageStore ----------------------------
(***************************************************************************)
(* suppressions.json (src/triage/mod.rs), which the triage command and the *)
(* terminal interface load, extend and rewrite, each in its own process    *)
(* and without a lock; what a suppression is accepted for and what it      *)
(* matches.                                                                *)
(*                                                                         *)
(* Texts are sequences of characters as far as patterns look at them.      *)
(***************************************************************************)
EXTENDS Naturals, Sequences

CONSTANTS
    Procs,
    Old,        \* suppressions that were stored before
    Requests,   \* what the operators ask for
    Texts,      \* the texts in question
    NoText,     \* a finding at another location than a path, or a scope that is not given
    MayFail     \* errors of input and output, and the end of a process

Findings == [id : STRING, severity : STRING, plain : BOOLEAN, path : Texts \cup {NoText}]
Scopes == [rule : STRING, pattern : Texts \cup {NoText}]

ASSUME RequestAssumption ==
    Requests \subseteq [by : {"cli", "tui"}, reason : BOOLEAN, days : Nat,
                        finding : Findings, scope : Scopes]
ASSUME TextAssumption == Texts \subseteq Seq(STRING) /\ NoText \notin Texts
ASSUME OldAssumption == Old \cap Procs = {}
ASSUME FailAssumption == MayFail \in BOOLEAN

VARIABLES
    file,       \* the store on disk
    pc,
    asked,      \* the request of each process
    loaded,     \* the suppressions it has in memory
    logged,     \* those the audit log has
    risk        \* history: what a fault may have cost

storeVars == <<file, pc, asked, loaded, logged, risk>>

Ids == Procs \cup Old

StoreInit ==
    /\ \/ file = [state |-> "absent", sups |-> {}] /\ Old = {}
       \/ file = [state |-> "whole", sups |-> Old]
    /\ pc = [p \in Procs |-> "idle"]
    /\ asked \in [Procs -> Requests]
    /\ loaded = [p \in Procs |-> {}]
    /\ logged = {}
    /\ risk = {}

Goto(p, label) == pc' = [pc EXCEPT ![p] = label]

-----------------------------------------------------------------------------
Blank == " "
Star == "*"

Trim(text) ==
    LET Inner == {i \in 1 .. Len(text) : text[i] # Blank} IN
      IF Inner = {} THEN <<>>
      ELSE SubSeq(text, CHOOSE i \in Inner : \A j \in Inner : i <= j,
                        CHOOSE i \in Inner : \A j \in Inner : i >= j)

StartsWith(text, part) == \E n \in 0 .. Len(text) : SubSeq(text, 1, n) = part
EndsWith(text, part) == \E n \in 1 .. Len(text) + 1 : SubSeq(text, n, Len(text)) = part
Contains(text, part) == \E n \in 1 .. Len(text) + 1 : StartsWith(SubSeq(text, n, Len(text)), part)

\* Mutant: the star stays in the part that is looked for.
PathMatchesStar(path, pattern) ==
    LET pat == Trim(pattern) IN
      /\ path # NoText
      /\ IF Len(pat) > 0 /\ pat[1] = Star THEN EndsWith(path, Tail(pat))
         ELSE StartsWith(path, pat) /\ Len(path) > Len(pat)

\* path_matches
PathMatches(path, pattern) ==
    LET pat == Trim(pattern) IN
      /\ path # NoText
      /\ IF Len(pat) > 0 /\ pat[1] = Star THEN EndsWith(path, Tail(pat))
         ELSE IF Len(pat) > 0 /\ pat[Len(pat)] = Star
           THEN StartsWith(path, SubSeq(pat, 1, Len(pat) - 1))
         ELSE Contains(path, pat)

Wildcards == {<<>>, <<Star>>, <<Star, Star>>, <<"/", Star>>}

\* A path is written down with its control characters escaped; one character stands
\* for an escape sequence.
Control == "bel"
Escape(text) == [i \in DOMAIN text |-> IF text[i] = Control THEN "x" ELSE text[i]]

\* What the terminal interface files for a finding. The location of one without a path
\* is put into words.
Words == <<"l", "o", "c">>
ScopeOf(r) ==
    IF r.by = "cli" THEN r.scope
    ELSE [rule |-> r.finding.id,
          pattern |-> IF r.finding.path = NoText THEN Words ELSE Escape(r.finding.path)]

\* Before the store is loaded, or for the command after.
Refused(r) ==
    \/ ~r.reason
    \/ r.by = "tui" /\ r.finding.severity = "Critical"
    \/ r.by = "cli" /\ (r.scope.pattern = NoText \/ r.scope.rule = "FX-DEV-001")

\* add_suppression
AddRefused(r) ==
    \/ r.days = 0
    \/ ScopeOf(r).rule = ""
    \/ Trim(ScopeOf(r).pattern) \in Wildcards

\* is_suppressible
Structural == {"FX-PART-001", "FX-PART-004", "FX-FS-001", "FX-FS-004"}
IsSuppressible(f) == f.severity # "Critical" /\ f.id \notin Structural /\ f.plain

\* check_finding, for one suppression that has not expired
Suppresses(r, f) ==
    /\ IsSuppressible(f)
    /\ f.id = ScopeOf(r).rule /\ PathMatches(f.path, ScopeOf(r).pattern)

-----------------------------------------------------------------------------
Pending(p) == pc[p] \in {"loaded", "save", "write"}
Writing(p) == pc[p] = "write"

\* What is in the store or about to be written to it.
Stored == file.sups \cup UNION {loaded[p] \cup {p} : p \in {q \in Procs : Writing(q)}}

Overlapping(p) == {q \in Procs : Pending(q)} \cup (IF \E q \in Procs : Pending(q) THEN {p} ELSE {})

\* Mutant: what is in the store is not read.
LoadEmpty(p) ==
    /\ pc[p] = "idle"
    /\ asked[p].by = "tui" => ~Refused(asked[p])
    /\ file.state \in {"absent", "whole"}
    /\ loaded' = [loaded EXCEPT ![p] = {}]
    /\ risk' = risk \cup Overlapping(p)
    /\ Goto(p, "loaded")
    /\ UNCHANGED <<file, asked, logged>>

Load(p) ==
    /\ pc[p] = "idle"
    /\ asked[p].by = "tui" => ~Refused(asked[p])
    /\ file.state \in {"absent", "whole"}
    /\ loaded' = [loaded EXCEPT ![p] = file.sups]
    /\ risk' = risk \cup Overlapping(p)
    /\ Goto(p, "loaded")
    /\ UNCHANGED <<file, asked, logged>>

\* A store that cannot be read or parsed ends the command; the terminal interface
\* takes it for an empty one.
LoadFails(p) ==
    /\ pc[p] = "idle"
    /\ asked[p].by = "tui" => ~Refused(asked[p])
    /\ file.state \in {"empty", "torn"} \/ (MayFail /\ file.state = "whole")
    /\ IF asked[p].by = "cli"
         THEN Goto(p, "error") /\ UNCHANGED <<loaded, risk>>
         ELSE /\ Goto(p, "loaded")
              /\ loaded' = [loaded EXCEPT ![p] = {}]
              /\ risk' = risk \cup Overlapping(p) \cup Stored
    /\ UNCHANGED <<file, asked, logged>>

Refuse(p) ==
    /\ \/ pc[p] = "idle" /\ asked[p].by = "tui" /\ Refused(asked[p])
       \/ pc[p] = "loaded" /\ (Refused(asked[p]) \/ AddRefused(asked[p]))
    /\ Goto(p, "error")
    /\ UNCHANGED <<file, asked, loaded, logged, risk>>

Add(p) ==
    /\ pc[p] = "loaded" /\ ~Refused(asked[p]) /\ ~AddRefused(asked[p])
    /\ Goto(p, "save")
    /\ UNCHANGED <<file, asked, loaded, logged, risk>>

\* fs::write empties the file, and fills it with a second call.
OpenStore(p) ==
    /\ pc[p] = "save"
    /\ file' = [state |-> "empty", sups |-> {}]
    /\ risk' = IF \E q \in Procs : Writing(q) THEN risk \cup Stored \cup loaded[p] \cup {p} ELSE risk
    /\ Goto(p, "write")
    /\ UNCHANGED <<asked, loaded, logged>>

\* Another process may have filled it in between; if its text was longer, the end of
\* it is left behind the new text.
WriteStore(p) ==
    /\ pc[p] = "write"
    /\ \/ file' = [state |-> "whole", sups |-> loaded[p] \cup {p}]
       \/ file.state # "empty" /\ file' = [state |-> "torn", sups |-> {}]
    /\ Goto(p, IF asked[p].by = "cli" THEN "log" ELSE "added")
    /\ UNCHANGED <<asked, loaded, logged, risk>>

SaveFails(p) ==
    /\ MayFail
    /\ pc[p] \in {"save", "write"}
    /\ risk' = IF Writing(p) THEN risk \cup loaded[p] \cup {p} ELSE risk
    /\ Goto(p, "error")
    /\ UNCHANGED <<file, asked, loaded, logged>>

\* An error of the audit log is dropped. The terminal interface writes no entry.
Log(p) ==
    /\ pc[p] = "log"
    /\ logged' \in {logged \cup {p}} \cup (IF MayFail THEN {logged} ELSE {})
    /\ Goto(p, "added")
    /\ UNCHANGED <<file, asked, loaded, risk>>

\* A process ends between two steps.
Crash(p) ==
    /\ MayFail
    /\ Pending(p) \/ pc[p] = "log"
    /\ risk' = IF Writing(p) THEN risk \cup loaded[p] \cup {p} ELSE risk
    /\ Goto(p, "error")
    /\ UNCHANGED <<file, asked, loaded, logged>>

StoreNext ==
    \E p \in Procs :
        \/ Load(p) \/ LoadFails(p) \/ Refuse(p) \/ Add(p)
        \/ OpenStore(p) \/ WriteStore(p) \/ SaveFails(p) \/ Log(p) \/ Crash(p)

StoreSpec == StoreInit /\ [][StoreNext]_storeVars

-----------------------------------------------------------------------------
States == {"absent", "empty", "torn", "whole"}

\* Type invariant: only a whole store holds anything.
StoreTypeOK ==
    /\ file \in [state : States, sups : SUBSET Ids]
    /\ file.state # "whole" => file.sups = {}
    /\ pc \in [Procs -> {"idle", "loaded", "save", "write", "log", "added", "error"}]
    /\ asked \in [Procs -> Requests]
    /\ loaded \in [Procs -> SUBSET Ids]
    /\ logged \subseteq Procs
    /\ risk \subseteq Ids

Acknowledged == {p \in Procs : pc[p] \in {"log", "added"}} \cup Old

\* A suppression that was acknowledged is in the store, or on its way back to it, unless
\* its process overlapped another one that was rewriting the store, a process that
\* had it in hand ended while the store was open, or the terminal interface could
\* not load the store.
AddedIsKept ==
    \A s \in Acknowledged \ risk :
        \/ s \in file.sups
        \/ \E p \in Procs : Writing(p) /\ s \in loaded[p]

\* A suppression filed for a finding at a path does suppress that finding, whatever
\* blanks and stars its path has in it. The exceptions are a path with a control
\* character, which is escaped in the pattern and not in the path, and one with a
\* blank at an end, if a star at the other end makes a pattern of it.
SuppressedAsMeant ==
    \A p \in Procs \cap file.sups :
        /\ asked[p].by = "tui" /\ asked[p].finding.path # NoText
        /\ Escape(asked[p].finding.path) = asked[p].finding.path
        /\ Trim(asked[p].finding.path) = asked[p].finding.path
        /\ IsSuppressible(asked[p].finding)
        => Suppresses(asked[p], asked[p].finding)

=============================================================================
