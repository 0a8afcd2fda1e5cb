------------------------- MODULE ScanSessionProofs -------------------------
(***************************************************************************)
(* Proofs about the scan session, for every set of command lines, every    *)
(* policy, every set of findings and every number of changes of the medium.*)
(***************************************************************************)
EXTENDS ScanSession, TLAPS

-----------------------------------------------------------------------------
(***************************************************************************)
(* Lemmas about the verdict.                                               *)
(***************************************************************************)

\* Whatever the results and the policy, a verdict comes out.
LEMMA VerdictIsVerdict ==
    ASSUME NEW required, NEW stages, NEW found, NEW pol \in Policy
    PROVE  ResolveVerdictWithPolicy(required, stages, found, pol) \in Verdicts
<1>1. /\ pol.on_medium \in Verdicts
      /\ pol.on_high \in Verdicts
      /\ pol.on_critical \in Verdicts
  BY DEF Policy
<1>. QED BY <1>1 DEF ResolveVerdictWithPolicy, Verdicts

\* Under the strict default a PASS needs every stage and tolerates no finding
\* of severity High or Critical.
LEMMA StrictPassIsVetted ==
    ASSUME NEW stages \in [Stages -> {"Pending", "Ok", "Error"}], NEW found,
           ResolveVerdictWithPolicy(Stages, stages, found, StrictDefault) = "Pass"
    PROVE  /\ \A s \in Stages : stages[s] = "Ok"
           /\ found \cap {"High", "Critical"} = {}
<1>1. AllStagesOk(Stages, stages) /\ "Critical" \notin found /\ "High" \notin found
  BY DEF ResolveVerdictWithPolicy, StrictDefault
<1>. QED BY <1>1 DEF AllStagesOk

\* The strict default is one of the policies.
LEMMA StrictIsPolicy == StrictDefault \in Policy
BY DEF StrictDefault, Policy, Verdicts

\* Each verdict has its exit code, and only PASS has 0.
LEMMA ExitCodes ==
    ASSUME NEW v \in Verdicts
    PROVE  ExitCode(v) \in {0, 10, 20} /\ (ExitCode(v) = 0 => v = "Pass")
BY DEF Verdicts, ExitCode

\* Where the stages that parse the content start, and where they lead.
LEMMA StagePlaces ==
    ASSUME NEW s \in ParseStages
    PROVE  /\ s \in Stages
           /\ StageAt[s] \in {"partition", "filesystem", "file", "policy_scan"}
           /\ AfterStage[s] \in {"filesystem", "file", "policy_scan", "close"}
<1>1. s \in {"partition", "filesystem", "file", "policy"}
  BY DEF ParseStages, Stages
<1>2. CASE s = "partition"
  BY <1>2 DEF StageAt, AfterStage, Stages
<1>3. CASE s = "filesystem"
  BY <1>3 DEF StageAt, AfterStage, Stages
<1>4. CASE s = "file"
  BY <1>4 DEF StageAt, AfterStage, Stages
<1>5. CASE s = "policy"
  BY <1>5 DEF StageAt, AfterStage, Stages
<1>. QED BY <1>1, <1>2, <1>3, <1>4, <1>5

-----------------------------------------------------------------------------
(***************************************************************************)
(* The inductive invariant.                                                *)
(***************************************************************************)

Early     == {"exists", "policy", "target", "snapshot"}
Unboxed   == Early \cup {"prepare", "device", "sandbox"}
Parsing   == {"partition", "filesystem", "file", "policy_scan"}
Unjudged  == Unboxed \cup Parsing \cup {"close", "join"}
Judged    == {"report", "release", "remove"}
Boxed     == Parsing \cup {"close", "join"} \cup Judged

\* A snapshot that was taken is somewhere, if only among what was removed, and
\* only a device or a disposable session has one.
SnapKnown == snapAt = "none" <=> snap = 0

\* Nothing is there before the step that makes it.
NothingYet ==
    /\ pc \in Early => snap = 0
    /\ pc \in Unboxed => reads = {}
    /\ pc \in Unjudged => /\ verdict = "none"
                          /\ manifest = NoManifest
                          /\ released = 0
    /\ pc \in Unjudged \cup Judged => code = 255
    /\ pc \in Judged => verdict \in Verdicts

\* Behind the sandbox the process is never root again.
Unprivileged == pc \in Boxed => uid = "user"

\* A snapshot that can still be opened was what every stage so far has read.
ReadsTheSnapshot ==
    (snap # 0 /\ snapAt # "gone" /\ pc \in Boxed \ {"partition"}) => reads = {snap}

\* A verdict of PASS, and the exit code that says so.
PassMeans ==
    /\ verdict = "Pass" /\ policy = StrictDefault => Vetted
    /\ code = 0 => verdict = "Pass"

\* What was released, and what of.
ReleasedMeans ==
    released # 0 => verdict = "Pass" /\ (snap # 0 => reads = {released})

IInv ==
    /\ TypeOK
    /\ SnapKnown
    /\ NothingYet
    /\ Unprivileged
    /\ NeverParsesAsRoot
    /\ OneVersion
    /\ ReadsTheSnapshot
    /\ PassMeans
    /\ ReleasedMeans

-----------------------------------------------------------------------------

\* The invariant holds initially.
LEMMA InvInit == Init => IInv
<1>. SUFFICES ASSUME Init PROVE IInv
  OBVIOUS
<1>1. TypeOK
  <2>1. 1 \in Versions /\ 0 \in 0..MaxVersion
    BY VersionAssumption DEF Versions
  <2>2. manifest \in [verdict : Verdicts \cup {"none"}, hash : 0..MaxVersion]
    BY <2>1 DEF Init, NoManifest
  <2>3. status \in [Stages -> {"Pending", "Ok", "Error"}] /\ findings \subseteq Severities
    BY DEF Init
  <2>4. outAt \in {"absent", "dir", "rootdir", "file"}
    BY DEF Init
  <2>. QED BY <2>1, <2>2, <2>3, <2>4, StrictIsPolicy DEF Init, TypeOK
<1>2. SnapKnown /\ NothingYet /\ Unprivileged /\ NeverParsesAsRoot
  BY DEF Init, SnapKnown, NothingYet, Unprivileged, NeverParsesAsRoot, Early,
         Unboxed, Unjudged, Parsing, Judged, Boxed, NoManifest
<1>3. OneVersion /\ ReadsTheSnapshot /\ PassMeans /\ ReleasedMeans
  BY DEF Init, OneVersion, ReadsTheSnapshot, PassMeans, ReleasedMeans, Boxed,
         Parsing, Judged
<1>. QED BY <1>1, <1>2, <1>3 DEF IInv

\* What the stages, the hash and the release open is a version of the medium.
LEMMA ContentIsVersion ==
    ASSUME TypeOK, SnapKnown
    PROVE  Content \in Versions /\ Content # 0
<1>1. media \in Versions /\ 0 \notin Versions
  BY VersionAssumption DEF TypeOK, Versions
<1>2. snapAt # "none" => snap \in Versions
  BY VersionAssumption DEF TypeOK, SnapKnown, Versions
<1>. QED BY <1>1, <1>2 DEF Content

\* The steps before the sandbox keep the invariant.
LEMMA StepUnboxed ==
    ASSUME IInv,
           CheckExists \/ LoadPolicy \/ OpenTarget \/ SkipSnapshot \/ PrepareOut
    PROVE  IInv'
<1>. USE DEF Leave, Go, Created, setup, sandbox, results, outputs, thread
<1>1. TypeOK'
  BY StrictIsPolicy, OptionsAssumption
     DEF IInv, TypeOK, CheckExists, LoadPolicy, OpenTarget, SkipSnapshot, PrepareOut
<1>2. SnapKnown' /\ NothingYet' /\ Unprivileged' /\ NeverParsesAsRoot'
  BY DEF IInv, CheckExists, LoadPolicy, OpenTarget, SkipSnapshot, PrepareOut, SnapKnown,
         NothingYet, Unprivileged, NeverParsesAsRoot, Early, Unboxed, Unjudged, Judged,
         Parsing, Boxed
<1>3. OneVersion' /\ ReadsTheSnapshot' /\ PassMeans' /\ ReleasedMeans'
  BY DEF IInv, CheckExists, LoadPolicy, OpenTarget, SkipSnapshot, PrepareOut, NothingYet,
         OneVersion, ReadsTheSnapshot, PassMeans, ReleasedMeans, Vetted, Early, Unboxed,
         Unjudged, Judged, Parsing, Boxed
<1>. QED BY <1>1, <1>2, <1>3 DEF IInv

\* The snapshot is taken while nothing has been read.
LEMMA StepSnapshot ==
    ASSUME IInv,
           TakeSnapshot
    PROVE  IInv'
<1>. USE DEF Leave, Go, setup, sandbox, results, outputs, thread
<1>1. TypeOK'
  <2>1. \A place \in SnapshotPlaces : place \in {"workspace", "temp", "out", "outfile"}
    BY OptionsAssumption DEF IInv, TypeOK, SnapshotPlaces
  <2>. QED BY <2>1, VersionAssumption DEF IInv, TypeOK, TakeSnapshot, Versions
<1>2. \/ snapAt' = snapAt /\ snap' = snap
      \/ snapAt' # "none" /\ snap' # 0
  <2>1. \A place \in SnapshotPlaces : place # "none"
    BY OptionsAssumption DEF IInv, TypeOK, SnapshotPlaces
  <2>2. media # 0
    BY VersionAssumption DEF IInv, TypeOK, Versions
  <2>. QED BY <2>1, <2>2 DEF TakeSnapshot
<1>3. SnapKnown' /\ NothingYet' /\ Unprivileged' /\ NeverParsesAsRoot'
  <2>1. SnapKnown'
    BY <1>2 DEF IInv, SnapKnown
  <2>2. NothingYet'
    BY DEF IInv, TakeSnapshot, NothingYet, Early, Unboxed, Unjudged, Judged, Parsing
  <2>3. Unprivileged' /\ NeverParsesAsRoot'
    BY DEF IInv, TakeSnapshot, Unprivileged, NeverParsesAsRoot, Judged, Parsing, Boxed
  <2>. QED BY <2>1, <2>2, <2>3
<1>4. OneVersion' /\ ReadsTheSnapshot' /\ PassMeans' /\ ReleasedMeans'
  BY <1>2 DEF IInv, TakeSnapshot, SnapKnown, NothingYet, NoManifest,
         OneVersion, ReadsTheSnapshot, PassMeans, ReleasedMeans, Vetted, Early,
         Unboxed, Unjudged, Judged, Parsing, Boxed
<1>. QED BY <1>1, <1>3, <1>4 DEF IInv

\* The device stage changes its own status and adds its findings.
LEMMA StepDevice ==
    ASSUME IInv,
           DeviceStage
    PROVE  IInv'
<1>. USE DEF Leave, Go, setup, sandbox, results, outputs, thread
<1>1. TypeOK'
  BY FindingAssumption DEF IInv, TypeOK, DeviceStage, Stages
<1>2. SnapKnown' /\ NothingYet' /\ Unprivileged' /\ NeverParsesAsRoot'
  BY DEF IInv, DeviceStage, SnapKnown, NothingYet,
         Unprivileged, NeverParsesAsRoot, Early, Unboxed, Unjudged, Judged,
         Parsing, Boxed
<1>3. OneVersion' /\ ReadsTheSnapshot' /\ PassMeans' /\ ReleasedMeans'
  BY DEF IInv, DeviceStage, SnapKnown, NothingYet,
         OneVersion, ReadsTheSnapshot, PassMeans, ReleasedMeans, Vetted, Early,
         Unboxed, Unjudged, Judged, Parsing, Boxed
<1>. QED BY <1>1, <1>2, <1>3 DEF IInv

\* The sandbox is entered by a process that is not root afterwards, or not at all.
LEMMA StepSandbox ==
    ASSUME IInv,
           EnterSandbox
    PROVE  IInv'
<1>. USE DEF Leave, Go, setup, sandbox, results, outputs, thread
<1>1. TypeOK'
  BY DEF IInv, TypeOK, EnterSandbox, Created
<1>2. SnapKnown' /\ NothingYet' /\ Unprivileged' /\ NeverParsesAsRoot'
  BY DEF IInv, EnterSandbox, SnapKnown, NothingYet,
         Unprivileged, NeverParsesAsRoot, Early, Unboxed, Unjudged, Judged,
         Parsing, Boxed
<1>3. OneVersion' /\ ReadsTheSnapshot' /\ PassMeans' /\ ReleasedMeans'
  BY DEF IInv, EnterSandbox, SnapKnown, NothingYet,
         OneVersion, ReadsTheSnapshot, PassMeans, ReleasedMeans, Vetted, Early,
         Unboxed, Unjudged, Judged, Parsing, Boxed
<1>. QED BY <1>1, <1>2, <1>3 DEF IInv

\* A stage that parses reads the snapshot, if there is one to be read.
LEMMA StepParse ==
    ASSUME IInv,
           NEW s \in ParseStages, ParseStage(s)
    PROVE  IInv'
<1>. USE DEF Leave, Go, setup, sandbox, results, outputs, thread
<1>1. /\ s \in Stages
      /\ StageAt[s] \in {"partition", "filesystem", "file", "policy_scan"}
      /\ AfterStage[s] \in {"filesystem", "file", "policy_scan", "close"}
  BY StagePlaces
<1>2. TypeOK'
  <2>1. reads' \subseteq Versions
    BY ContentIsVersion DEF IInv, TypeOK, ParseStage
  <2>. QED BY <1>1, <2>1, FindingAssumption DEF IInv, TypeOK, ParseStage
<1>3. snap # 0 /\ Readable => Content = snap
  BY DEF IInv, SnapKnown, Content
<1>4. SnapKnown' /\ NothingYet' /\ Unprivileged' /\ NeverParsesAsRoot'
  BY <1>1 DEF IInv, ParseStage, SnapKnown, NothingYet,
         Unprivileged, NeverParsesAsRoot, Early, Unboxed, Unjudged, Judged,
         Parsing, Boxed
<1>5. OneVersion' /\ ReadsTheSnapshot' /\ PassMeans' /\ ReleasedMeans'
  BY <1>1, <1>3 DEF IInv, ParseStage, SnapKnown, NothingYet, Readable,
         OneVersion, ReadsTheSnapshot, PassMeans, ReleasedMeans, Vetted, Early,
         Unboxed, Unjudged, Judged, Parsing, Boxed
<1>. QED BY <1>2, <1>4, <1>5 DEF IInv

\* The verdict is resolved over all five stages, once the progress thread ended.
LEMMA StepVerdict ==
    ASSUME IInv,
           CloseSink \/ ResolveTheVerdict
    PROVE  IInv'
<1>. USE DEF Leave, Go, setup, sandbox, results, outputs, thread
<1>1. TypeOK' /\ (ResolveTheVerdict => verdict' \in Verdicts)
  <2>1. ResolveVerdictWithPolicy(Stages, status, findings, policy) \in Verdicts
    BY VerdictIsVerdict DEF IInv, TypeOK
  <2>2. CASE CloseSink
    <3>1. sink' \in BOOLEAN
      BY <2>2, Zenon DEF CloseSink
    <3>. QED BY <2>2, <3>1 DEF IInv, TypeOK, CloseSink, ResolveTheVerdict
  <2>3. CASE ResolveTheVerdict
    BY <2>1, <2>3 DEF IInv, TypeOK, ResolveTheVerdict
  <2>. QED BY <2>2, <2>3
<1>2. ResolveTheVerdict /\ verdict' = "Pass" /\ policy = StrictDefault => Vetted
  <2>. SUFFICES ASSUME ResolveTheVerdict, verdict' = "Pass", policy = StrictDefault
                PROVE  Vetted
    OBVIOUS
  <2>1. ResolveVerdictWithPolicy(Stages, status, findings, StrictDefault) = "Pass"
    BY DEF ResolveTheVerdict
  <2>2. status \in [Stages -> {"Pending", "Ok", "Error"}]
    BY DEF IInv, TypeOK
  <2>. QED BY <2>1, <2>2, StrictPassIsVetted DEF Vetted
<1>3. SnapKnown' /\ NothingYet' /\ Unprivileged' /\ NeverParsesAsRoot'
  BY <1>1 DEF IInv, CloseSink, ResolveTheVerdict, SnapKnown, NothingYet,
         Unprivileged, NeverParsesAsRoot, Early, Unboxed, Unjudged, Judged,
         Parsing, Boxed
<1>4. OneVersion' /\ ReadsTheSnapshot' /\ PassMeans' /\ ReleasedMeans'
  BY <1>1, <1>2 DEF IInv, CloseSink, ResolveTheVerdict, SnapKnown, NothingYet,
         OneVersion, ReadsTheSnapshot, PassMeans, ReleasedMeans, Vetted, Early,
         Unboxed, Unjudged, Judged, Parsing, Boxed
<1>. QED BY <1>1, <1>3, <1>4 DEF IInv

\* The manifest names the content, or nothing.
LEMMA StepWriteOut ==
    ASSUME IInv,
           WriteOut
    PROVE  IInv'
<1>. USE DEF Leave, Go, setup, sandbox, results, outputs, thread
<1>1. TypeOK'
  <2>1. Content \in 0..MaxVersion
    BY ContentIsVersion, VersionAssumption DEF IInv, Versions
  <2>2. manifest' \in [verdict : Verdicts \cup {"none"}, hash : 0..MaxVersion]
    BY <2>1, VersionAssumption DEF IInv, TypeOK, WriteOut
  <2>. QED BY <2>2 DEF IInv, TypeOK, WriteOut
<1>2. manifest'.hash \in {0, manifest.hash, Content} /\ (snap # 0 => Content = snap)
  BY DEF IInv, SnapKnown, Content, WriteOut
<1>3. SnapKnown' /\ NothingYet' /\ Unprivileged' /\ NeverParsesAsRoot'
  BY DEF IInv, WriteOut, SnapKnown, NothingYet,
         Unprivileged, NeverParsesAsRoot, Early, Unboxed, Unjudged, Judged,
         Parsing, Boxed
<1>4. OneVersion' /\ ReadsTheSnapshot' /\ PassMeans' /\ ReleasedMeans'
  BY <1>2 DEF IInv, WriteOut, SnapKnown, NothingYet,
         OneVersion, ReadsTheSnapshot, PassMeans, ReleasedMeans, Vetted, Early,
         Unboxed, Unjudged, Judged, Parsing, Boxed
<1>. QED BY <1>1, <1>3, <1>4 DEF IInv

\* Nothing but the content is released, and only after a PASS.
LEMMA StepRelease ==
    ASSUME IInv,
           Release
    PROVE  IInv'
<1>. USE DEF Leave, Go, setup, sandbox, results, outputs, thread
<1>1. released' = 0 \/ (released' = Content /\ verdict = "Pass" /\ Readable)
  BY DEF Release
<1>2. snap # 0 => Content = snap
  BY DEF IInv, SnapKnown, Content
<1>3. TypeOK'
  <2>1. Content \in 0..MaxVersion
    BY ContentIsVersion, VersionAssumption DEF IInv, Versions
  <2>2. relAt' \in {"absent", "dir", "rootdir"}
    BY DEF IInv, TypeOK, Release
  <2>. QED BY <1>1, <2>1, <2>2, VersionAssumption DEF IInv, TypeOK, Release
<1>4. SnapKnown' /\ NothingYet' /\ Unprivileged' /\ NeverParsesAsRoot'
  BY DEF IInv, Release, SnapKnown, NothingYet,
         Unprivileged, NeverParsesAsRoot, Early, Unboxed, Unjudged, Judged,
         Parsing, Boxed
<1>5. OneVersion' /\ ReadsTheSnapshot' /\ PassMeans' /\ ReleasedMeans'
  BY <1>1, <1>2 DEF IInv, Release, SnapKnown, NothingYet, Readable,
         OneVersion, ReadsTheSnapshot, PassMeans, ReleasedMeans, Vetted, Early,
         Unboxed, Unjudged, Judged, Parsing, Boxed
<1>. QED BY <1>3, <1>4, <1>5 DEF IInv

\* Leaving the session sets the exit code of the verdict.
LEMMA StepLeave ==
    ASSUME IInv,
           RemoveSnapshot \/ DropWorkspace
    PROVE  IInv'
<1>. USE DEF Leave, Go, setup, sandbox, results, outputs, thread
<1>1. RemoveSnapshot => code' = ExitCode(verdict) /\ verdict \in Verdicts
  BY DEF IInv, NothingYet, RemoveSnapshot, Judged
<1>2. TypeOK'
  BY <1>1, ExitCodes DEF IInv, TypeOK, RemoveSnapshot, DropWorkspace
<1>3. SnapKnown' /\ NothingYet' /\ Unprivileged' /\ NeverParsesAsRoot'
  BY DEF IInv, RemoveSnapshot, DropWorkspace, SnapKnown, NothingYet,
         Unprivileged, NeverParsesAsRoot, Early, Unboxed, Unjudged, Judged,
         Parsing, Boxed
<1>4. OneVersion' /\ ReadsTheSnapshot' /\ PassMeans' /\ ReleasedMeans'
  BY <1>1, ExitCodes DEF IInv, RemoveSnapshot, DropWorkspace, SnapKnown, NothingYet,
         OneVersion, ReadsTheSnapshot, PassMeans, ReleasedMeans, Vetted, Early,
         Unboxed, Unjudged, Judged, Parsing, Boxed
<1>. QED BY <1>2, <1>3, <1>4 DEF IInv

\* The progress thread and the environment.
LEMMA StepEnvironment ==
    ASSUME IInv,
           ProgressEnds \/ MediaChanges \/ OtherFerrixExits \/ Interrupt
    PROVE  IInv'
<1>. USE DEF Leave, Go, setup, sandbox, results, outputs, thread
<1>1. TypeOK'
  <2>1. media' \in Versions
    BY VersionAssumption DEF IInv, TypeOK, ProgressEnds, MediaChanges, OtherFerrixExits,
                             Interrupt, Versions
  <2>2. CASE ProgressEnds
    <3>1. progress' \in BOOLEAN
      BY <2>2, Zenon DEF ProgressEnds
    <3>. QED BY <2>2, <3>1 DEF IInv, TypeOK, ProgressEnds
  <2>3. CASE MediaChanges
    BY <2>1, <2>3 DEF IInv, TypeOK, MediaChanges
  <2>4. CASE OtherFerrixExits
    BY <2>4 DEF IInv, TypeOK, OtherFerrixExits
  <2>5. CASE Interrupt
    BY <2>5 DEF IInv, TypeOK, Interrupt
  <2>. QED BY <2>2, <2>3, <2>4, <2>5
<1>2. SnapKnown' /\ NothingYet' /\ Unprivileged' /\ NeverParsesAsRoot'
  BY DEF IInv, ProgressEnds, MediaChanges, OtherFerrixExits, Interrupt, SnapKnown, NothingYet,
         Unprivileged, NeverParsesAsRoot, Early, Unboxed, Unjudged, Judged,
         Parsing, Boxed
<1>3. OneVersion' /\ ReadsTheSnapshot' /\ PassMeans' /\ ReleasedMeans'
  BY DEF IInv, ProgressEnds, MediaChanges, OtherFerrixExits, Interrupt, SnapKnown, NothingYet,
         OneVersion, ReadsTheSnapshot, PassMeans, ReleasedMeans, Vetted, Early,
         Unboxed, Unjudged, Judged, Parsing, Boxed
<1>. QED BY <1>1, <1>2, <1>3 DEF IInv

\* Every step keeps the invariant.
LEMMA InvStep == IInv /\ [Next]_vars => IInv'
<1>. SUFFICES ASSUME IInv, [Next]_vars PROVE IInv'
  OBVIOUS
<1>1. CASE Finished \/ UNCHANGED vars
  <2>1. UNCHANGED vars
    BY <1>1 DEF Finished
  <2>. USE <2>1 DEF vars
  <2>2. TypeOK'
    BY DEF IInv, TypeOK
  <2>3. SnapKnown' /\ NothingYet' /\ Unprivileged' /\ NeverParsesAsRoot'
    BY DEF IInv, SnapKnown, NothingYet, Unprivileged, NeverParsesAsRoot
  <2>4. OneVersion' /\ ReadsTheSnapshot' /\ PassMeans' /\ ReleasedMeans'
    BY DEF IInv, OneVersion, ReadsTheSnapshot, PassMeans, ReleasedMeans, Vetted
  <2>. QED BY <2>2, <2>3, <2>4 DEF IInv
<1>. QED BY <1>1, StepUnboxed, StepSnapshot, StepDevice, StepSandbox, StepParse, StepVerdict,
            StepWriteOut, StepRelease, StepLeave, StepEnvironment DEF Next, Session

\* The invariant holds throughout.
LEMMA Invariance == Spec => []IInv
BY InvInit, InvStep, PTL DEF Spec

-----------------------------------------------------------------------------
(***************************************************************************)
(* The theorems.                                                           *)
(***************************************************************************)

\* The variables of a session keep their types.
THEOREM TypeCorrect == Spec => []TypeOK
<1>1. IInv => TypeOK
  BY DEF IInv
<1>. QED BY <1>1, Invariance, PTL

\* The snapshot is the only version that is parsed, hashed and released, for any
\* command line and however often the medium changes.
THEOREM OnlyOneVersion == Spec => []OneVersion
<1>1. IInv => OneVersion
  BY DEF IInv
<1>. QED BY <1>1, Invariance, PTL

\* No exit code 0 and no PASS without the five stages, whatever is found and
\* whatever the policy file says.
THEOREM PassAlwaysEarned == Spec => []PassIsEarned
<1>1. IInv => PassIsEarned
  BY DEF IInv, PassMeans, PassIsEarned
<1>. QED BY <1>1, Invariance, PTL

\* What is released was judged PASS, and is what was parsed, under any policy.
THEOREM ReleaseAlwaysVetted == Spec => []ReleaseIsVetted
<1>1. IInv => ReleaseIsVetted
  BY DEF IInv, PassMeans, ReleasedMeans, ReleaseIsVetted
<1>. QED BY <1>1, Invariance, PTL

\* The content of the medium is never parsed by root.
THEOREM RootNeverParses == Spec => []NeverParsesAsRoot
<1>1. IInv => NeverParsesAsRoot
  BY DEF IInv
<1>. QED BY <1>1, Invariance, PTL
=============================================================================
