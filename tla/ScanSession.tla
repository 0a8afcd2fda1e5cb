---------------------------- MODULE ScanSession ----------------------------
(***************************************************************************)
(* One `ferrix scan` from the command line (the Scan arm of src/main.rs):  *)
(* the checks on the target, the snapshot, the sandbox (src/sandbox), the  *)
(* five stages, the verdict, the manifest, the release and the clean-up,   *)
(* with what the process may still do at each point.                       *)
(*                                                                         *)
(* The content of the medium is a version number: whoever reads the medium *)
(* at two moments may see two versions.  A directory of the station is     *)
(* "dir" when the invoking user may write in it and "rootdir" when only    *)
(* root may.  A --out path is an absolute one.                             *)
(***************************************************************************)
EXTENDS Naturals, Verdict

CONSTANTS
    Options,      \* the command lines, as records (see OptionsAssumption)
    FindingSets,  \* what one stage may find
    MaxVersion    \* how often the medium may change, plus one

Stages      == {"device", "partition", "filesystem", "file", "policy"}
ParseStages == Stages \ {"device"}

ASSUME OptionsAssumption ==
    Options \subseteq
        [target : {"device", "image"}, disposable : BOOLEAN,
         out : {"none", "dir", "rootdir", "fresh"}, release : BOOLEAN,
         staged : BOOLEAN,    \* the release directory exists beforehand
         tree : BOOLEAN,      \* the medium holds directories
         root : BOOLEAN,      \* started as root
         policy : Policy]     \* what the --policy file says
ASSUME FindingAssumption == FindingSets \subseteq SUBSET Severities
ASSUME VersionAssumption == MaxVersion \in Nat \ {0}

VARIABLES
    opts,      \* the command line
    pc,        \* where the session is
    policy,    \* the policy in force
    media,     \* the version of the content the medium shows now
    snap,      \* the version the snapshot holds (0: there is none)
    snapAt,    \* where the snapshot file is
    outAt,     \* what the --out path names
    relAt,     \* what the release path names
    uid,       \* the user the process runs as
    landlock,  \* the thread is restricted by Landlock
    seccomp,   \* the thread is restricted by the seccomp allowlist
    status,    \* the result of each stage
    findings,  \* all_findings
    reads,     \* history: the versions the parse stages read
    verdict,   \* the verdict ("none" before it is resolved)
    manifest,  \* the manifest on disk: its verdict and the version hashed
    released,  \* the version that was copied to the release directory (0: none)
    sink,      \* ctx.event_sink holds the sender of the progress channel
    progress,  \* the progress thread runs
    code       \* the exit code (255: none yet, or killed by a signal)

vars == <<opts, pc, policy, media, snap, snapAt, outAt, relAt, uid, landlock,
          seccomp, status, findings, reads, verdict, manifest, released, sink,
          progress, code>>

setup   == <<opts, policy>>
sandbox == <<uid, landlock, seccomp>>
results == <<status, findings, reads, verdict>>
outputs == <<manifest, released>>
thread  == <<sink, progress>>

NoManifest == [verdict |-> "none", hash |-> 0]

Init ==
    /\ opts \in Options
    /\ pc = "exists"
    /\ policy = StrictDefault
    /\ media = 1
    /\ snap = 0
    /\ snapAt = "none"
    /\ outAt = IF opts.out \in {"dir", "rootdir"} THEN opts.out ELSE "absent"
    /\ relAt = IF opts.staged THEN "dir" ELSE "absent"
    /\ uid = IF opts.root THEN "root" ELSE "user"
    /\ landlock = FALSE
    /\ seccomp = FALSE
    /\ status = [s \in Stages |-> "Pending"]
    /\ findings = {}
    /\ reads = {}
    /\ verdict = "none"
    /\ manifest = NoManifest
    /\ released = 0
    /\ sink = TRUE
    /\ progress = TRUE
    /\ code = 255

\* Leave the Scan arm with an exit code; the workspace is dropped on the way.
Leave(c) == pc' = "drop" /\ code' = c

Go(next) == pc' = next /\ UNCHANGED code

-----------------------------------------------------------------------------
(***************************************************************************)
(* Before the sandbox: the process has the rights it was started with.     *)
(***************************************************************************)

\* scan_args.device.exists()
CheckExists ==
    /\ pc = "exists"
    /\ Go("policy") \/ Leave(1)
    /\ UNCHANGED <<setup, media, snap, snapAt, outAt, relAt, sandbox, results,
                   outputs, thread>>

\* A policy file that is missing, unsigned or unreadable is replaced by the
\* strict default; the command line's own rules are added to either.
LoadPolicy ==
    /\ pc = "policy"
    /\ policy' \in {StrictDefault, opts.policy}
    /\ Go("target")
    /\ UNCHANGED <<opts, media, snap, snapAt, outAt, relAt, sandbox, results,
                   outputs, thread>>

\* Create the disposable workspace, refuse system drives, open the target and
\* refuse an empty one.
OpenTarget ==
    /\ pc = "target"
    /\ Go("snapshot") \/ Leave(1)
    /\ UNCHANGED <<setup, media, snap, snapAt, outAt, relAt, sandbox, results,
                   outputs, thread>>

\* Where the snapshot goes.  A --out that is not a directory is itself the
\* path; one that is a directory is preferred over the temporary directories,
\* which are used when it has too little room.
SnapshotPlaces ==
    CASE opts.disposable                                     -> {"workspace"}
      [] ~opts.disposable /\ opts.out = "none"               -> {"temp"}
      [] ~opts.disposable /\ opts.out = "fresh"              -> {"outfile"}
      [] ~opts.disposable /\ opts.out \in {"dir", "rootdir"} -> {"out", "temp"}

\* May the process create a file in this directory?
MayWrite(dir) == dir = "dir" \/ (dir = "rootdir" /\ uid = "root")

\* create_snapshot, for a device or a disposable session.
TakeSnapshot ==
    /\ pc = "snapshot"
    /\ opts.disposable \/ opts.target = "device"
    /\ \/ \E place \in SnapshotPlaces :
             /\ place = "out" => MayWrite(outAt)
             /\ snapAt' = place
             /\ snap' = media
             /\ outAt' = IF place = "outfile" THEN "file" ELSE outAt
             /\ Go("prepare")
       \/ Leave(1) /\ UNCHANGED <<snap, snapAt, outAt>>
    /\ UNCHANGED <<setup, media, relAt, sandbox, results, outputs, thread>>

\* An image file is scanned where it is.
SkipSnapshot ==
    /\ pc = "snapshot"
    /\ ~opts.disposable /\ opts.target = "image"
    /\ Go("prepare")
    /\ UNCHANGED <<setup, media, snap, snapAt, outAt, relAt, sandbox, results,
                   outputs, thread>>

\* What create_dir_all makes belongs to whoever the process runs as.
Created(dir) ==
    IF dir = "absent" THEN (IF uid = "root" THEN "rootdir" ELSE "dir") ELSE dir

\* Create the output directory; read the identity and the station key.
PrepareOut ==
    /\ pc = "prepare"
    /\ outAt' = IF opts.out = "none" THEN outAt ELSE Created(outAt)
    /\ Go("device")
    /\ UNCHANGED <<setup, media, snap, snapAt, relAt, sandbox, results, outputs,
                   thread>>

\* The device stage looks at sysfs and the mount table, not at the content.
DeviceStage ==
    /\ pc = "device"
    /\ \/ /\ \E found \in FindingSets : findings' = findings \cup found
          /\ status' = [status EXCEPT !["device"] = "Ok"]
       \/ /\ status' = [status EXCEPT !["device"] = "Error"]
          /\ UNCHANGED findings
    /\ Go("sandbox")
    /\ UNCHANGED <<setup, media, snap, snapAt, outAt, relAt, sandbox, reads,
                   verdict, outputs, thread>>

-----------------------------------------------------------------------------
(***************************************************************************)
(* enter_sandbox: drop privileges, then Landlock, then seccomp.            *)
(***************************************************************************)

\* Mutant: a failed privilege drop is only warned about.
EnterSandboxWarning ==
    /\ pc = "sandbox"
    /\ relAt' = IF opts.release /\ opts.out = "none" THEN Created(relAt) ELSE relAt
    /\ uid' \in {uid, "user"}
    /\ landlock' \in BOOLEAN
    /\ seccomp' \in BOOLEAN
    /\ Go("partition")
    /\ UNCHANGED <<setup, media, snap, snapAt, outAt, results, outputs, thread>>

\* A kernel without Landlock is not an error.  An error is fatal only if
\* getuid() is still 0 after it, that is, if the privileges could not be
\* dropped; an error of Landlock or of seccomp comes after the drop.
EnterSandbox ==
    /\ pc = "sandbox"
    /\ relAt' = IF opts.release /\ opts.out = "none" THEN Created(relAt) ELSE relAt
    /\ \/ /\ uid = "root"
          /\ Leave(1)
          /\ UNCHANGED sandbox
       \/ /\ uid' = "user"
          /\ landlock' \in BOOLEAN
          /\ seccomp' \in BOOLEAN
          /\ Go("partition")
    /\ UNCHANGED <<setup, media, snap, snapAt, outAt, results, outputs, thread>>

-----------------------------------------------------------------------------
(***************************************************************************)
(* The stages that parse the content.                                      *)
(***************************************************************************)

\* ctx.snapshot_path.as_ref().unwrap_or(&ctx.target_path)
Content == IF snapAt = "none" THEN media ELSE snap

\* The file the stages, the hash and the release open can be opened.
Readable == snapAt # "gone"

AfterStage ==
    [partition |-> "filesystem", filesystem |-> "file", file |-> "policy_scan",
     policy |-> "close"]

StageAt ==
    [partition |-> "partition", filesystem |-> "filesystem", file |-> "file",
     policy |-> "policy_scan"]

\* Mutant: the stage opens the target although there is a snapshot.
ParseStageOfTarget(s) ==
    /\ pc = StageAt[s]
    /\ reads' = reads \cup {media}
    /\ \E found \in FindingSets : findings' = findings \cup found
    /\ status' = [status EXCEPT ![s] = "Ok"]
    /\ Go(AfterStage[s])
    /\ UNCHANGED <<setup, media, snap, snapAt, outAt, relAt, sandbox, verdict,
                   outputs, thread>>

\* A stage that returns Err contributes no findings, and the scan goes on.
ParseStage(s) ==
    /\ pc = StageAt[s]
    /\ reads' = IF Readable THEN reads \cup {Content} ELSE reads
    /\ \/ /\ Readable
          /\ \E found \in FindingSets : findings' = findings \cup found
          /\ status' = [status EXCEPT ![s] = "Ok"]
       \/ /\ status' = [status EXCEPT ![s] = "Error"]
          /\ UNCHANGED findings
    /\ Go(AfterStage[s])
    /\ UNCHANGED <<setup, media, snap, snapAt, outAt, relAt, sandbox, verdict,
                   outputs, thread>>

\* Mutant: the context keeps its sender while the thread is joined.
KeepSink ==
    /\ pc = "close"
    /\ Go("join")
    /\ UNCHANGED <<setup, media, snap, snapAt, outAt, relAt, sandbox, results,
                   outputs, thread>>

\* ctx.event_sink = EventSink::noop()
CloseSink ==
    /\ pc = "close"
    /\ sink' = FALSE
    /\ Go("join")
    /\ UNCHANGED <<setup, media, snap, snapAt, outAt, relAt, sandbox, results,
                   outputs, progress>>

\* progress_handle.join(), then the verdict over all five stages.
ResolveTheVerdict ==
    /\ pc = "join"
    /\ ~progress
    /\ verdict' = ResolveVerdictWithPolicy(Stages, status, findings, policy)
    /\ Go("report")
    /\ UNCHANGED <<setup, media, snap, snapAt, outAt, relAt, sandbox, status,
                   findings, reads, outputs, thread>>

-----------------------------------------------------------------------------
(***************************************************************************)
(* What is left of the session.                                            *)
(***************************************************************************)

\* Hash the content, list its files and write the signed manifest; an error
\* of the hash becomes an empty hash, an error of the write is ignored.
WriteOut ==
    /\ pc = "report"
    /\ manifest' = IF opts.out # "none" /\ MayWrite(outAt)
                     THEN [verdict |-> verdict,
                           hash    |-> IF Readable THEN Content ELSE 0]
                     ELSE manifest
    /\ Go("release")
    /\ UNCHANGED <<setup, media, snap, snapAt, outAt, relAt, sandbox, results,
                   released, thread>>

\* Neither mkdir, getcwd (to resolve a relative path) nor unlink is among the
\* system calls the filter allows.
MayMakeDirectories == ~seccomp
MayResolveRelative == ~seccomp
MayUnlink          == ~seccomp /\ ~landlock

\* Mutant: a release that was asked for is made whatever the verdict.
ReleaseAnyway ==
    /\ pc = "release"
    /\ released' = IF opts.release /\ Readable THEN Content ELSE 0
    /\ Go("remove")
    /\ UNCHANGED <<setup, media, snap, snapAt, outAt, relAt, sandbox, results,
                   manifest, thread>>

\* release_snapshot_files, on PASS only; its errors are printed.  Without --out
\* the destination is the relative path "released".  A directory of the medium
\* that cannot be made ends the release after some files or before the first.
Release ==
    /\ pc = "release"
    /\ LET parent  == IF opts.out = "none" THEN "dir" ELSE outAt
           made    == relAt = "absent" /\ MayMakeDirectories /\ MayWrite(parent)
           dest    == IF made THEN "dir" ELSE relAt
           started == /\ opts.release
                      /\ verdict = "Pass"
                      /\ opts.out = "none" => MayResolveRelative
                      /\ Readable
                      /\ MayWrite(dest)
       IN /\ relAt' = IF opts.release /\ verdict = "Pass" THEN dest ELSE relAt
          /\ CASE started /\ (opts.tree => MayMakeDirectories)  -> released' = Content
               [] started /\ ~(opts.tree => MayMakeDirectories) -> released' \in {0, Content}
               [] ~started                                      -> released' = 0
    /\ Go("remove")
    /\ UNCHANGED <<setup, media, snap, snapAt, outAt, sandbox, results, manifest,
                   thread>>

\* Verdict::exit_code
ExitCode(v) == CASE v = "Pass" -> 0 [] v = "Quarantine" -> 10 [] v = "Fail" -> 20

\* Without --out the snapshot is removed, if that is allowed.
RemoveSnapshot ==
    /\ pc = "remove"
    /\ snapAt' = IF opts.out = "none" /\ snapAt # "none" /\ MayUnlink
                   THEN "gone" ELSE snapAt
    /\ Leave(ExitCode(verdict))
    /\ UNCHANGED <<setup, media, snap, outAt, relAt, sandbox, results, outputs,
                   thread>>

\* Drop of the DisposableEnvironment: wipe and remove what the workspace holds.
DropWorkspace ==
    /\ pc = "drop"
    /\ snapAt' = IF snapAt = "workspace" /\ MayUnlink THEN "gone" ELSE snapAt
    /\ pc' = "done"
    /\ UNCHANGED <<setup, media, snap, outAt, relAt, sandbox, results, outputs,
                   thread, code>>

Session ==
    \/ CheckExists \/ LoadPolicy \/ OpenTarget \/ TakeSnapshot \/ SkipSnapshot
    \/ PrepareOut \/ DeviceStage \/ EnterSandbox
    \/ \E s \in ParseStages : ParseStage(s)
    \/ CloseSink \/ ResolveTheVerdict \/ WriteOut \/ Release \/ RemoveSnapshot
    \/ DropWorkspace

\* The progress thread receives until the last sender is gone.
ProgressEnds ==
    /\ progress
    /\ ~sink
    /\ progress' = FALSE
    /\ UNCHANGED <<setup, pc, media, snap, snapAt, outAt, relAt, sandbox, results,
                   outputs, sink, code>>

-----------------------------------------------------------------------------
(***************************************************************************)
(* The environment.                                                        *)
(***************************************************************************)

\* The medium shows something else from now on.
MediaChanges ==
    /\ pc # "done"
    /\ media < MaxVersion
    /\ media' = media + 1
    /\ UNCHANGED <<setup, pc, snap, snapAt, outAt, relAt, sandbox, results,
                   outputs, thread, code>>

\* Another ferrix process run by root exits and removes every ferrix-*.img of
\* the temporary directories.
OtherFerrixExits ==
    /\ snapAt = "temp"
    /\ snapAt' = "gone"
    /\ UNCHANGED <<setup, pc, media, snap, outAt, relAt, sandbox, results,
                   outputs, thread, code>>

\* SIGINT or SIGTERM: the handler cleans up like an exit, if it still may.
Interrupt ==
    /\ pc \notin {"drop", "done"}
    /\ pc' = "done"
    /\ snapAt' = IF snapAt = "temp" /\ uid = "root" THEN "gone" ELSE snapAt
    /\ UNCHANGED <<setup, media, snap, outAt, relAt, sandbox, results, outputs,
                   thread, code>>

Finished == pc = "done" /\ UNCHANGED vars

Next ==
    Session \/ ProgressEnds \/ MediaChanges \/ OtherFerrixExits \/ Interrupt
    \/ Finished

Fairness == WF_vars(Session) /\ WF_vars(ProgressEnds)

Spec == Init /\ [][Next]_vars

FairSpec == Spec /\ Fairness

-----------------------------------------------------------------------------
(***************************************************************************)
(* Correctness.                                                            *)
(***************************************************************************)

Versions == 1..MaxVersion

TypeOK ==
    /\ opts \in Options
    /\ pc \in {"exists", "policy", "target", "snapshot", "prepare", "device",
               "sandbox", "partition", "filesystem", "file", "policy_scan",
               "close", "join", "report", "release", "remove", "drop", "done"}
    /\ policy \in Policy
    /\ media \in Versions
    /\ snap \in 0..MaxVersion
    /\ snapAt \in {"none", "workspace", "temp", "out", "outfile", "gone"}
    /\ outAt \in {"absent", "dir", "rootdir", "file"}
    /\ relAt \in {"absent", "dir", "rootdir"}
    /\ uid \in {"root", "user"}
    /\ landlock \in BOOLEAN
    /\ seccomp \in BOOLEAN
    /\ status \in [Stages -> {"Pending", "Ok", "Error"}]
    /\ findings \subseteq Severities
    /\ reads \subseteq Versions
    /\ verdict \in Verdicts \cup {"none"}
    /\ manifest \in [verdict : Verdicts \cup {"none"}, hash : 0..MaxVersion]
    /\ released \in 0..MaxVersion
    /\ sink \in BOOLEAN
    /\ progress \in BOOLEAN
    /\ code \in {0, 1, 10, 20, 255}

Vetted ==
    /\ \A s \in Stages : status[s] = "Ok"
    /\ findings \cap {"High", "Critical"} = {}

\* Under the strict policy a PASS, and exit code 0, mean that all five stages
\* completed without error and none of them found anything High or Critical:
\* no early return, failed stage or failed clean-up can end in a PASS.
PassIsEarned ==
    (verdict = "Pass" \/ code = 0) /\ policy = StrictDefault => Vetted

\* Whatever the medium shows later, what is parsed, hashed into the manifest
\* and released is the one version the snapshot holds.
OneVersion ==
    snap # 0 => /\ reads \subseteq {snap}
                /\ released \in {0, snap}
                /\ manifest.hash \in {0, snap}

\* Nothing is released before a PASS over the very version that is released.
ReleaseIsVetted ==
    released # 0 => /\ verdict = "Pass"
                    /\ policy = StrictDefault => Vetted
                    /\ snap # 0 => reads = {released}

\* No content of the medium is parsed while the process is root.
NeverParsesAsRoot == reads # {} => uid = "user"

\* The scan ends: the progress thread is never waited for in vain.
ScanEnds == <>(pc = "done")

-----------------------------------------------------------------------------
\* "On PASS, verified files can be safely extracted to a staging folder", with
\* `sudo ferrix scan /dev/sdb --release --out /mnt/staging` as the example.
ReleaseDelivers ==
    (pc = "drop" /\ code = 0 /\ opts.release /\ Readable) => released # 0
=============================================================================
