------------------------------ MODULE Verdict ------------------------------
(***************************************************************************)
(* How the stage results and the findings of an ingress scan become a      *)
(* verdict: resolve_verdict_with_policy of src/policy/mod.rs.              *)
(*                                                                         *)
(* results maps the stages that completed to their status; findings is the *)
(* set of severities found, which is all that the function looks at.       *)
(***************************************************************************)

Verdicts   == {"Pass", "Quarantine", "Fail"}
Severities == {"Info", "Low", "Medium", "High", "Critical"}

\* The three verdict actions of a policy, one per severity that has one.
Policy == [on_medium : Verdicts, on_high : Verdicts, on_critical : Verdicts]

StrictDefault ==
    [on_medium |-> "Pass", on_high |-> "Quarantine", on_critical |-> "Fail"]

\* Every required stage completed, and every completed stage is Ok.
AllStagesOk(required, results) ==
    /\ required \subseteq DOMAIN results
    /\ \A s \in DOMAIN results : results[s] = "Ok"

\* Mutant: a stage that did not complete Ok is ignored.
ResolveIgnoringStages(required, results, findings, policy) ==
    IF "Critical" \in findings THEN policy.on_critical
    ELSE IF "High" \in findings THEN policy.on_high
    ELSE "Pass"

\* resolve_verdict_with_policy: a failed stage is judged before any finding,
\* then the highest severity that has an action decides.
ResolveVerdictWithPolicy(required, results, findings, policy) ==
    IF ~AllStagesOk(required, results) THEN policy.on_high
    ELSE IF "Critical" \in findings    THEN policy.on_critical
    ELSE IF "High" \in findings        THEN policy.on_high
    ELSE IF "Medium" \in findings      THEN policy.on_medium
    ELSE "Pass"
=============================================================================
