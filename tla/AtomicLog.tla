------------------------------ MODULE AtomicLog ------------------------------
(***************************************************************************)
(* What append_audit_entry promises those who share a log: an entry is     *)
(* there at once or not at all, chained to the entry before it, and is     *)
(* never lost.  A process that is stopped within its writes, or writes     *)
(* without the lock beside another, ends this for all of them.             *)
(***************************************************************************)
EXTENDS Naturals, Sequences

CONSTANTS Procs, Genesis

VARIABLES
    entries,  \* the log, as whoever verifies it reads it
    answer,   \* what each process was told: "none" yet, "ok" or "err"
    damaged   \* somebody was stopped within its writes, or wrote beside another

vars == <<entries, answer, damaged>>

Init == entries = <<>> /\ answer = [p \in Procs |-> "none"] /\ damaged = FALSE

Has(p) == \E i \in DOMAIN entries : entries[i].by = p

Hash == IF entries = <<>> THEN Genesis ELSE entries[Len(entries)].by

\* The entry of p becomes the last one, once.
Put(p) ==
    /\ ~damaged /\ ~Has(p) /\ answer[p] = "none"
    /\ entries' = Append(entries, [by |-> p, index |-> Len(entries), prev |-> Hash])
    /\ UNCHANGED <<answer, damaged>>

\* Who is told that it was appended has its entry in the log, and who is told that it
\* was not has none.
Answer(p) ==
    /\ ~damaged /\ answer[p] = "none"
    /\ answer' = [answer EXCEPT ![p] = IF Has(p) THEN "ok" ELSE "err"]
    /\ UNCHANGED <<entries, damaged>>

\* From now on nothing is said of the log; but what was answered was answered.
Damage ==
    /\ damaged'
    /\ \A p \in Procs : answer[p] # "none" => answer'[p] = answer[p]

Next == (\E p \in Procs : Put(p) \/ Answer(p)) \/ Damage

Spec == Init /\ [][Next]_vars
=============================================================================
