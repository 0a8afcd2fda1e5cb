# A TLA+ model of ferrix-usb

ferrix-usb vets removable media on an offline station: it copies a device into
a snapshot image, parses the image in a sandbox, resolves a verdict, writes a
signed manifest and, on PASS, releases the files. This directory holds TLA+
modules that model the program (`src/src/*.rs`), TLC configurations that check
them on small instances, and proofs, checked by TLAPS, of the theorems that
hold for every instance.

    tlc -workers 2 -config MCSnapshot.cfg MCSnapshot      # model checking
    tlapm SnapshotProofs.tla                              # proofs

`PROJECT.json` lists the runs, the mutants of the code that show each property
can fail, the source lines behind every definition, the findings, the hazards
and the theorems.

## 1. The system

| Component | Source | State it keeps | Operations |
|---|---|---|---|
| Snapshot pipeline | `disk/snapshot.rs` | destination file, two bounded channels of recycled buffers, a hasher, a guard that removes a partial file | `create_snapshot` (a caller and a reader thread), `hash_device_or_image`, `clean_all_snapshots` |
| Scan session | `main.rs` (Scan) | stage results, findings, verdict, paths, the process's rights | checks, snapshot, five stages, verdict, manifest, release, clean-up |
| Verdict resolution | `policy/mod.rs`, `core.rs` | none | `resolve_verdict_with_policy` (ingress), `resolve_verdict` (egress), exit codes |
| Sandbox | `sandbox/*` | user, Landlock domain and seccomp filter of the thread | `enter_sandbox`, `enter_sandbox_for_thread`, `drop_privileges` |
| Audit log | `audit/mod.rs` | a JSON-lines file whose entries are chained by hashes, an advisory lock | `append_audit_entry`, `verify_audit_chain` |
| Disposable workspace | `disk/disposable.rs` | a temporary directory | create, secure wipe on drop |
| Release engine | `release/mod.rs` | the staging directory | `release_snapshot_files` and the sanitizing of names and paths |
| Station guard | `device/station.rs` | what was saved of USB `authorized_default`, services, desktop settings; a udev rule | enable, restore, clean-up at exit and on signals |
| Authorization and watch | `device/auth.rs`, `device/monitor.rs`, `main.rs` (Watch, Mount) | sysfs attributes, set of seen devices | authorize, set read-only or read-write, mount |
| Device stage | `device/*` | none | descriptors and their anomalies |
| Partitions | `disk/partition.rs`, `disk/anomalies.rs` | none | MBR, EBR and GPT decoding, layout anomalies |
| Filesystems | `fs/*` | none | FAT, exFAT, NTFS, ext detection; directory walk; cluster chains |
| File scan | `scan/*` | none | types, archives, carving, PDF, documents, YARA, ClamAV |
| Manifest | `manifest/*` | manifest and nonce log files, station key | sign, verify against media, record nonces, keygen |
| Triage | `triage/mod.rs` | suppressions file | load, add, check, save |
| Policy | `policy/*` | none | parsing, signature, per-file rules |
| Egress | `egress/*` | none | remnants, wipe check, metadata |
| Reports | `report/*` | files | JSON, HTML, evidence bundle |
| Terminal interface | `tui/*` | the `App` record, a scan thread and its event channel | screens, keys, polling of events |

How they interact. The scan session calls the snapshot pipeline while it still
is root, then enters the sandbox for good (the restrictions of Linux are
one-way), runs the stages over the snapshot, and hands their results to the
verdict. The manifest, the release and the removal of temporary files come
*after* the sandbox and work with the rights that are left. A progress thread
receives events over a channel whose sender sits in the scan context and is
joined before the verdict. Processes meet through the file system: the audit
log (several scans with one `--out`, triage commands), the temporary
directories (a ferrix that exits as root sweeps every `ferrix-*.img`), the
suppressions file, the nonce log, and the sysfs attributes of all USB devices.

What is hard about it: threads and bounded channels with recycled buffers; a
medium that may answer differently each time or vanish; privileges that shrink
in the middle of a session; errors that are discarded on purpose
(`let _ = ...`); processes that share files under a lock whose failure is not
noticed; kills and crashes between two system calls.

What makes each part correct:

* snapshot: the image and its hash are what one pass over the device returned,
  a success is complete, an error leaves nothing, no deadlock;
* session: one content is parsed, hashed and released; a PASS is earned;
  nothing is parsed as root; every session ends; what the documentation
  promises for manifest, release and workspace is delivered;
* audit log: append-only, the chain verifies, acknowledged entries stay;
* station guard: after the last ferrix nothing is left locked down, the user's
  settings are back, and no refused device is authorized;
* terminal interface: results, reports and releases belong to the scan they are
  shown for;
* directory walk and release: every file is found once and under its path, what
  is reported as released is there, the operator's own files stay, everything
  ends;
* verification and keys: one manifest is accepted once, what is accepted is
  genuine, what is honest is accepted, the key files are of one pair;
* triage: no acknowledged suppression is lost, each suppresses what it was filed
  for;
* disk layout and unallocated space: every partition is found, contradictions
  are reported, and what no partition claims is searched;
* files: an archive without a finding holds nothing odd at any level.

## 2. Plan

| # | Modules | State |
|---|---|---|
| 1 | `Snapshot`, abstract `CopyOnce`, `MCSnapshot`, `SnapshotProofs` | done |
| 2 | `Verdict`, `ScanSession`, `MCScanSession`, `ScanSessionProofs` | done |
| 3 | `AuditLog`, abstract `AtomicLog`, `MCAuditLog`, `AuditLogProofs` | done |
| 4 | `StationGuard` with the watch loop, `MCStationGuard`, `StationGuardProofs` | done |
| 5 | `Screens`, `MCScreens`, `TerminalProofs` | done |
| 6 | `DirWalk`, over it `Release`, `MCRelease`, `ReleaseProofs` for both | done |
| 7 | `Custody`, `MCCustody`, `CustodyProofs` | done |
| 8 | `TriageStore`, `MCTriageStore`, proofs in `TerminalProofs`, since the interface triages | done |
| 9 | `DiskLayout`, over it `RawSpace`, over that `FileScan`, `MCFileScan`, `FileScanProofs` for all three | done |
| 10 | the per-file rules of the policy, checks of boot sectors, the egress verdict | open |

Worth stating beyond `CopyOnce` and `AtomicLog`, and still open: a station that is
locked while somebody holds it, for `StationGuard`. Every safety property has its
theorem (section 12); a measure that each step of a walk or a scan decreases would be
the part of their liveness properties that can be proved.

## 3. Snapshot and CopyOnce

`Snapshot.tla` is `create_snapshot` with its two threads. `mpc` and `rpc` are
the places of the calling thread and of the reader; `free` and `data` are the
two `sync_channel`s, `held` and `cur` the buffer each thread has in hand,
`image`, `dest` and `sealed` the destination file, `hashed` what the hasher was
fed. `stream` and the field `at` are history: all blocks the device returned
and the offset of each read; no action depends on `at`, and `stream` only says
how far the device is. A read fills any prefix of a buffer with anything, so
a device that changes its mind is included; the rest of the buffer keeps the
stale blocks of its earlier use.

| Action | Code |
|---|---|
| `OpenSource`, `CheckSpace`, `RefuseLink`, `OpenDestFails`, `OpenDest` | opening the device with retries, `statvfs`, `symlink_metadata`, opening with `O_NOFOLLOW`, filling the recycle channel and spawning the reader |
| `MainReceives`, `MainWrites`, `MainWriteFails`, `MainRecycles` | the receive loop |
| `MainJoins`, `MainSeals` | join, `flush`, mode 0400, disarm the guard |
| `ReaderTakes`, `ReaderReads`, `ReaderHitsEnd`, `ReaderFails`, `ReaderSends`, `ReaderStops` | the reader thread |
| `Unplug`, `Kill` | the environment |

`readonly` and `removable` say of the destination whether a file of mode 0400 was
there before, which keeps its mode while it is truncated and filled again, and
whether its directory lets a file go: the guard drops the error of `remove_file`.

Properties. `OkIsFaithful`: on success image, hash and device agree to the last
block. `OnlyFinishedStays`: a file of mode 0400 is complete, also after a kill,
unless it had that mode before (`SealedIsFinished`), and no partial file is left
after an error, unless it cannot be removed (`ErrLeavesNothing`). `Terminates`: the call returns and the reader
ends. `ImplementsCopyOnce`: with `given <- stream`, the image as `copy`, every
behaviour is one of `CopyOnce`, a sequential copy without threads.

Proved, and not repeated in the run: `ImageIsPrefix`, the image is always a prefix
of what the device returned; `SendsNeverBlock`, the number of buffers equals the
capacity of the channels, so neither `send` ever waits, which is why there is no
deadlock; `ReaderIsNeverSilent`, the receive loop, which takes a closed channel
for the end of the stream, never sees one.

| Run | Instance | Shows |
|---|---|---|
| `snapshot` | two block values, a device of 4 blocks, buffers of 2, depth 2 | the four properties |

Bounds. Four blocks over two buffers of two make every buffer be reused, short
reads leave stale tails, both channels fill up, and an error or an unplugging
can meet every combination of places. With two values a stale block differs
from a fresh one. The proofs have no bounds.

Fairness. Each thread is scheduled (`WF` of `Main` and of `Reader`), and a read
of the device returns: the code has no timeout, so a device that never
answers a read hangs the snapshot and is outside of `Terminates`.

## 4. Verdict and ScanSession

`Verdict.tla` has `ResolveVerdictWithPolicy` over severities and statuses.
`ScanSession.tla` is the Scan arm of `main` as one process with the place `pc`;
each action is a block of that function up to the next point at which something
else can happen. Data are abstract: content is a version number, so "the same
content" is equality; files are where-abouts (`snapAt`), directories are what
the process may do with them (`outAt`, `relAt`); findings are sets of severities.
What the sandbox takes away is `MayMakeDirectories`, `MayResolveRelative` and
`MayUnlink`, read off the seccomp allowlist and the Landlock rules.

| Action | Code |
|---|---|
| `CheckExists`, `LoadPolicy`, `OpenTarget` | the checks at the start, with every early return |
| `TakeSnapshot`, `SkipSnapshot` | `create_snapshot` as one step, with where the image goes |
| `PrepareOut`, `DeviceStage`, `EnterSandbox` | output directory, first stage, `enter_sandbox` and the test for root |
| `ParseStage` | the loop over the four parsing stages |
| `CloseSink`, `ProgressEnds`, `ResolveTheVerdict` | dropping the sender, the progress thread, the join and the verdict |
| `WriteOut`, `Release`, `RemoveSnapshot`, `DropWorkspace` | manifest, release, clean-up, drop of the workspace |
| `MediaChanges`, `OtherFerrixExits`, `Interrupt` | the environment |

`TakeSnapshot` is atomic here: `Snapshot` shows that the image is one pass over
the device, which is all `ScanSession` takes from it.

Properties. `OneVersion`: whatever the medium becomes, parsed, hashed and
released content is the snapshot's. `ReleaseIsVetted`: a release follows a PASS
over what is released. `NeverParsesAsRoot`. `PassIsEarned`: under the strict
policy a PASS or exit code 0 needs five completed stages and no High or
Critical finding. `ScanEnds`: no join waits for ever.

| Run | Instance | Shows |
|---|---|---|
| `scan` | command lines of root and user (device or image, disposable, four kinds of `--out`, release, staging present), a medium that changes once, one kind of finding | all of the above |
| `scan_release` | scans as root | `ReleaseDelivers`, a documented claim the code does not keep (section 13) |

Bounds. One change of the medium is enough for a stage to see another content
than the snapshot; more changes only repeat it, and the proof covers any number.
One kind of finding suffices to spoil a PASS; that every severity is judged right
under every combination is the theorem `PassAlwaysEarned`. Places are complete. The command lines that
`Sensible` leaves out differ in nothing the program looks at.

Fairness. The session's thread and the progress thread are scheduled; every
system call, stage and read returns, as the code assumes throughout (cancelling
is not wired into this command).

## 5. AuditLog

`AuditLog.tla` is `append_audit_entry` by any number of processes at the grain
of its system calls: open, lock, read, seek, the two writes of `writeln!` (text,
newline), unlock. The file is a sequence of cells that name the process and the
position within its entry, so an overwritten or torn entry is visible, and an
entry's hash is the identity of its writer. `Sandboxed` is the set of processes
that run behind the seccomp filter, where `flock` fails and its result is not
looked at: every scan does, the `triage` command does not. `raced` is history: one
of them was between its lock and its unlock at the same time as another process,
locked or not. `Torn` says that a process was stopped within its two writes, after
which there is half a line, or a line without its end. The operating system
releases the lock of a process that dies.

Properties. `AppendOnly`: no byte of the file ever changes, unless `raced`.
`ChainAlwaysVerifies`: `verify_audit_chain` accepts the file at every moment
until somebody is stopped within its writes or `raced` (`Damaged`).
`ImplementsAtomicLog`: until then the processes share the log of `AtomicLog`, to which entries are added whole and in one
step, each with the number and the hash of the one before it; who got `Ok` has an
entry, and who got an error has none, so that trying again does not append twice. The
step is the write of the text, and the entries are what the lines say, in their order.
`AppendsEnd`: every append ends, though others die with the lock. Proved, and not
repeated in the run: `AckedIsReadable`, an entry whose append returned `Ok` is in the
file.

| Run | Instance | Shows |
|---|---|---|
| `audit` | 3 processes, one of which has no lock, texts of up to 2 cells, crashes between any two calls | all of the above |

Bounds. Three processes give a holder, a waiter and an entry that is already
there, one of them without the lock before, beside or after the others; two cells make texts of different lengths, so that an overwrite does not
fit. Each process appends once: a second append by one process is that of
another process that starts later. There is no symmetry in the run, since it
would not be sound for `AppendsEnd`.

Fairness. Each process that lives takes its steps. `flock` is granted to some
waiter when the lock is free; since every process takes it once, weak fairness
of each process is enough.

## 6. StationGuard

`StationGuard.tla` has any number of ferrix processes on one station: scans, the
watch, the terminal interface and the restore command, as root or not. Each
locks the station down (`enable`), works, and leaves: by returning (the drop of
the guard, then the exit handler), or by a signal (the handler alone). An
action is the handling of one resource: the controllers' `authorized_default`,
the udev rule, the automount services, the desktop's keys, the configuration
files; between any two of them another process may do anything. udisks2 and
autofs, which are handled alike in one loop, are one service, and so are the
controllers, the keys and the files. A configuration file has a format: `disabled` is
what rewriting makes of each content. KDE's and LXDE's are settled after one rewriting,
LXQt's grows by two lines with each (`set_lxqt_automount_disabled` takes all its keys for
the first, which they begin with). `fs::write`
truncates and then fills, in two steps, and either may fail. A device shows its
interfaces (`Shown`) or none: the kernel sets them up for authorized devices only.

| Action | Code |
|---|---|
| `Start`, `EnableDefault`, `EnableRule`, `EnableServices`, `EnableDesktop` | `StationProtectionGuard::enable` |
| `ReadConfig`, `TruncateConfig`, `WriteConfig` | reading a configuration file, truncating it, and filling and recording it, as three steps |
| `Look`, `Pick`, `Inspect`, `Authorize`, `DropPrivileges` | a round of the watch; the choice of a device in the terminal interface and `start_scan`; `authorize_device`; the scan's `enter_sandbox` |
| `Return`, `CloseDefault`, `CloseRule`, `CloseServices`, `CloseSettings`, `CloseConfig` | leaving, and `restore` |
| `LingerRule`, `LingerDevices`, `LingerServices`, `LingerDesktop` | `restore_all_system_automount_defaults`; `passes` counts how often it still runs |
| `Interrupt`, `Kill` | a signal with a handler, one without |
| `PlugIn`, `PullOut` | the kernel: a new device gets the default of its controller |

`saved` and `content` are the guard's `restored_settings`. `refused`, `before`, `risk`
and `blind` are history that no action depends on.

Properties. `StationOpens`: when all processes have returned or ended by a
signal with their rights intact, no rule and no mask is left, however enabling
and cleaning up overlapped. `SettingsRestored`: when all have returned the
user's configuration is back, unless a write failed or one process read a file that
another was to put back and found something to disable in it (`risk`): an empty one,
or one of LXQt. This needs the drop of the guard, so it speaks of returns only.
`RefusedUntilExit`: as long as nobody leaves, a device found to be BadUSB is authorized
by none, also by a process that approved another device in the same port before, unless
it showed somebody no interface at all (`blind`), which both the watch and the terminal
interface take for a device to approve.

| Run | Instance | Shows |
|---|---|---|
| `station` | 2 processes with any of five commands on three stations: one port whose device is exchanged once, or a configuration file in either kind of format | the three properties |

Bounds. Two processes are enough for one that cleans up while the other locks
down, or reads what the other rewrote; with a third the proofs deal. A port that
is refilled once lets an approval meet another device. The station of the run
is the one where all of the defence is at work: services active, keys set,
controllers that block; the proofs cover all others. Ports and files have no step in
common, so the run varies them apart: 2.86 million states. `Kill` is limited to the
restore command in the run, because after a kill nothing is promised; the proofs
allow it everywhere.

What root does when it leaves succeeds; what it does when it enters may fail. A
panic, whose hook runs the clean-up once more, is left out. There is no liveness
property: all steps of a process are sequential and none waits for another.

## 7. Screens

`Screens.tla` is the terminal interface. `screen`, `entering`, `selected`, `mode`,
`verdict`, `findings`, `scanId`, `result`, `browsing`, `listing` and `loading` are
fields of `App`; `scan[n]` is the n-th scan thread and `events` what is in the
channel of the newest one, `inspection` the browser's thread and its channel.
A finding is the number of the scan that made it, so that a finding of another
scan is seen. `files` are the paths that exist, and `output` is history: the last
report or release.

| Action | Code |
|---|---|
| `StartScan`, `OpenBrowser`, `Reinspect` | `start_scan` and `open_drive_browser`, up to the spawn |
| `ScanOpens`, `ScanCopies`, `ScanStage`, `ScanFinishes`, `ScanFails` | the scan thread, with what it sends |
| `InspectionAnswers` | the browser's thread |
| `Poll` | `poll_scan_events`: the list of devices once a second, the browser's answer, and the channel, which is emptied |
| `Turn`, `EnterManually`, `ConfirmTyped`, `CancelTyped`, `RefreshKey`, `Select`, `Choose`, `ChooseMode`, `LeaveBrowser`, `OpenTriage`, `ReleaseKey`, `ExportReport`, `Quit` | `handle_key_event`, by screen and key |
| `PullOut`, `PlugIn` | drives that come and go |

A scan of a device that is not authorized sends what the check of its descriptors finds
(`Warnings`) before its stages begin. These findings are shown, and replaced by those of
the stages when the scan is over; an egress scan has no stage that finds them again.

Properties. `ResultsOfNewest`: verdict, scan id and result path that are shown are
those of the scan started last, and the findings all that its stages found, although
`q` leaves a scan running and `start_scan` resets only some of these fields.
`OutputsAreTrue`: an exported PASS is of a scan that passed, with the findings of its
stages (`PassReportsAreTrue`), and what is
released is the path that passed (`ReleasedPassed`). `ListingOfTarget`: the browser
lists the files of the target it names. `NobodyWaitsForEver`: whoever waits for a
scan (`WatchedScanEnds`) or for a listing (`LoadingEnds`) gets an answer, unless
they leave. `TypingIsOver`, that a typed path does not take the place of a device
selected later, is proved and not repeated in the run.

| Run | Instance | Shows |
|---|---|---|
| `screens` | one drive, one image, two threads in all, two outcomes | the four properties |

Bounds. Two threads are an abandoned scan and the next one, a scan and an
inspection, or two inspections of two targets. One stage may find something or
not, and so may the check before it: 1.29 million states. The proofs have no bounds.

Fairness. The loop of `run_tui` polls and the threads run (`WF` of `Poll`,
`InspectionAnswers` and of each thread); keys are never pressed of necessity. A
thread that panics says nothing and is left out.

## 8. DirWalk and Release

`DirWalk.tla` is `extract_filesystem_files_with_cancel`, a loop as the place `pc`:
for each volume its root, for each directory its chain, its clusters and its
entries, then the next one of the stack `queue`. A volume is a root, a FAT
(`next`), what the clusters list (`data`), and which clusters cannot be read,
sound or not. `walked` and `lost` are history.

`Release.tla` is `release_snapshot_files` over the files found, with `staging`
as a function from paths to directories, files and links. What
`sanitize_destination_filename` makes of a name is a constant (`Segments`). The
browser, which may cancel, walks as well (`rpc = "browse"`).

| Action | Code |
|---|---|
| `NextVolume`, `OpenRoot`, `OpenFixed`, `Finish` | the loop over the volumes |
| `Follow`, `ChainEnds`, `ChainFails` | `read_cluster_chain`, `read_exfat_cluster_chain` |
| `ReadCluster`, `DataRead` | `read_chain_data` and the loop of exFAT |
| `TakeEntry`, `SkipEntry`, `EntriesEnd` | the entries of a directory |
| `Pop`, `VolumeDone`, `Cancel` | the stack `dir_queue`, and the flag of the browser |
| `Prepare`, `Walk`, `CancelBrowsing`, `StartCopying` | the start of a release, and the browser |
| `RefusePath`, `MakeDirectory`, `CreateFile`, `Copy`, `CopyFails`, `MakingFails`, `Report` | the loop over the files |

Properties of the walk. `FoundIsExact` compares what was discovered with the medium:
`Links` follows the chain of a directory on it, `Listed` is what its clusters hold.
At the end of the walk the root of every volume was walked or given up; all that a
walked directory lists was discovered under its path; and every directory among it
was walked, under this path or another one, given up for an unreadable FAT, or is
too deep (`NothingIsForgotten`). Nothing else is ever discovered (`NothingIsMadeUp`).
What a directory lists ends where the walk has to stop (`IsReadable`): behind
`MaxChain` or `MaxData` clusters, in FAT at a cluster that cannot be read, which exFAT
passes over, where the chain comes back to itself, and at the mark that ends a
directory. The code cuts a directory there without a finding. Of exFAT only the root
is walked. `NothingIsReadTwice`: no directory is walked twice
(`EachDirectoryOnce`) and no chain comes back to a cluster (`ChainsAreSimple`).
Properties of a release. `ReleaseTypeOK`: with the types, that whatever is in the
staging directory lies in real directories, never behind a link. `OkIsComplete`:
what is reported is there and whole. `StagedBeforeStays`: the operator's files are
replaced only by discovered files of the same path, links and directories never.
`ReleaseEnds`: on every medium.

| Run | Instance | Shows |
|---|---|---|
| `release` | 1296 media of 4 clusters: FAT32 or exFAT with every cyclic, shared and unreadable combination of a small set, some with a FAT16 and an unknown volume; 3 staging directories | all of the above |
| `release_fragmented` | the same media | `ReleasedIsTheFile` fails (section 13) |

Bounds. Four clusters are a root and three directories: enough for a cycle that
does not go through the root, a directory entered from two others, and one at
`MaxDepth`. `MaxChain`, `MaxData` and the depth are met and exceeded. That the staging directory is a tree of real directories when the
release begins is the assumption `StagingsAssumption`; links to directories in it
are left out. All that `release` checks but `ReleaseEnds` is proved without bounds.

Fairness. The walk and the copying go on; nobody has to cancel.

## 9. Custody

`Custody.tla` has any number of processes that run `verify` or `keygen` on one
station. `log` has the `accepted_nonces.log` of each directory, as nonces and ends of
lines, which are written by two calls: a verification uses the one beside its manifest.
`keyFile` and `pubFile` are the pair in the working directory. The key to verify with
is that of `--pubkey` (`Offered`), else the `station.pub` beside the manifest
(`Brought`), else `pubFile`. `bad` are
the mismatches of a verification, whose steps are those of
`verify_against_media_with_nonce_log`. The medium may be exchanged between the
hash and the second look, and the clock shows anything. `faulty` and
`keyFault` are history: for which nonces the log may have failed, and whether a
keygen was interrupted or met another one.

| Action | Code |
|---|---|
| `LoadKey`, `CheckManifest`, `LookUp`, `HashMedium`, `ReadMedium`, `MediumFails` | the verification in order; a log that cannot be read counts as empty |
| `WriteNonce`, `WriteNewline`, `NotRecorded`, `NotEnded` | recording the nonce; errors are dropped |
| `CheckKeys`, `WriteKey`, `WritePub`, `KeyFails` | `generate_station_keypair`, each file truncated and then written |
| `Crash` | a process ends between two steps |

Properties. `AcceptedOnce`: a nonce is accepted twice from one directory only after an overlap of two
verifications of it, a log that could not be read or written for it, or a line
that was not ended before the next. `VerificationIsExact` is two facts. What is
accepted is genuine (`AcceptedIsGenuine`): signed with the pair of the key that was used,
which is the station's unless `--pubkey` or the directory brought another; hashed to the
manifest, and the files seen at the second look are the manifest's.
What is honest is accepted (`HonestIsAccepted`): a medium that is what its manifest
says is only rejected for time or nonce; the exceptions, two files of one path and paths that are escaped,
are in the property. `KeysMatch`: the two files are of one pair unless
`keyFault`.

| Run | Instance | Shows |
|---|---|---|
| `verify` | 3 processes, 2 directories with a log each, one of which brings a key, 4 manifests, 3 media, 2 pairs of the station, errors and crashes, symmetry | all of the above |

Bounds. Three processes are two verifications with a third between them, or one
beside two keygens. One manifest lies in both directories, and one is signed with the
pair whose key lies beside it. A medium with two files of one path and one with a path that
is escaped are there for the comparison of files. The proofs have no bounds.

## 10. TriageStore

`TriageStore.tla` has processes that load the suppressions, extend and rewrite
them: the triage command, which then logs, and the terminal interface, which does
not and takes a store it cannot load for an empty one. Opening the file
truncates it, writing fills it: two steps, at each of which the process may end
or fail. Patterns and paths are sequences of characters, because `Trim`, `*` and
`Contains` decide what a suppression does. `risk` is history: the suppressions
an overlap, an end or a failed load may have cost.

| Action | Code |
|---|---|
| `Load`, `LoadFails`, `Refuse`, `Add` | `SuppressionStore::load`, the checks of the command, of the interface and of `add_suppression` |
| `OpenStore`, `WriteStore`, `SaveFails`, `Log`, `Crash` | `save` and the audit entry |

Properties. `AddedIsKept`: an acknowledged suppression is in the store or in the
hands of a process that writes it, unless it is in `risk`. `SuppressedAsMeant`:
what the interface files for a finding suppresses that finding, whatever stars
and blanks its path has (a path with control characters or with a blank at an end
excepted).

| Run | Instance | Shows |
|---|---|---|
| `triage` | 3 processes, 11 requests, all texts of up to three of five characters, symmetry | all of the above |

Bounds. Three processes are a rewrite that overlaps another and one that comes
after. Three characters are a star at either end with something between, which is
all `path_matches` tells apart.

## 11. DiskLayout, RawSpace and FileScan

`DiskLayout.tla` is `parse_disk_layout` with the checks of the partition scan:
the MBR, one step for each extended boot record, the two GPTs and the choice of
the table. Sectors are numbers, a checksum is the polynomial it was made with.
`RawSpace.tla` goes on with what the program does with the space no partition
claims: it works that space out three times (`check_unallocated_data`,
`find_unallocated_gaps`, the ranges of `FileScanStage::run`), samples it, carves
it in chunks, and, in an egress scan, looks for remnants and for a wipe.
`FileScan.tla` puts the loop over the discovered files before the carving: `file`
is the file at hand, `stack` the open calls of `inspect_archive_recursive`, `total`
what has been counted of the unpacked sizes, `suspects` the files with a finding.
What an archive holds is data, and an archive may hold itself.

| Action | Code |
|---|---|
| `ReadMbr`, `StartChain`, `ReadRecord`, `EndChain`, `Inspect` | `parse_mbr`, `parse_gpt`, `parse_disk_layout`, `check_partition_anomalies` |
| `Begin`, `TakeGap`, `LastGap` | the loops over the sorted partitions |
| `Sample`, `Remnants`, `VerifyWipe` | `check_unallocated_data`, `scan_unallocated_remnants`, `verify_wipe_pattern` |
| `LeaveUncarved`, `TakeRange`, `LastRange` | a policy that does not carve; the ranges to carve |
| `TakeFile` | the loop over the files in `FileScanStage::run`, with what is read of each |
| `OpenMember`, `CountMember` | the loop of `inspect_zip_entries`: a member is looked into, then counted |
| `TakeMember` | the loops of `inspect_zip_local_headers` and `inspect_tar_entries`: counted, then looked into |
| `Unpack`, `LeaveArchive` | `inspect_gzip_payload`; the end of an archive, or one that is broken |
| `ReadChunk`, `CarveFile`, `PassSector`, `NextRange`, `EndCarving` | `carve_unallocated_space`, `carve_files_from_reader` |

Properties. `LogicalsAreFound`: every logical partition that the links lead to is
in the layout, over records in any order. `OneView`: a medium without a finding is the same to a reader of
the MBR, of the first and of the second GPT that takes a GPT with either checksum, and
no sector has two owners. The exception is a GPT with the standard checksum beside an
MBR that is not protective (`GptUnseen`): to the program it is none, and nothing is
reported.
`GapsAreExact`: the gaps are the unclaimed sectors, no more and no less.
`SmallGapsAreSearched`, `WipeIsProved` and `CarvedIsReported` say what the searches
promise, with their limits (a policy that does not carve, a chunk's end,
`max_carved_files`, another file) in the property. The limit counts what was carved,
not what there is: a GPT entry that ends before it starts makes the ranges of its
neighbours overlap, and what lies in both is carved and counted twice; the last one goes from the partitions of the medium to the findings, over
the ranges and the chunks. `CleanIsHarmless`: an archive that was read as a whole and
has no finding has nothing odd in it at any level, is nested no deeper than the policy
allows and does not say that it unpacks to more than that allows, although the depth
and the limit break off loops and calls in the middle. What is in a gzip is left out of
the size: the code counts it and does not compare it. `StageTypeOK` holds the bound on
the open calls. `ScanEnds`: everything ends, on cyclic chains and archives that hold
themselves as well.

| Run | Instance | Shows |
|---|---|---|
| `layout` | 1767 disks of 12 sectors with 4 contents each: primaries that nest, overlap, are empty, start together or leave the medium; chains of records in any order; GPTs that disagree, or whose entries end before they start; two files on each; carving on and off | all of the above |
| `layout_gpt` | the same | `GptIsRead` fails (section 13) |

Bounds. The limits of the code (64 records, 34 sectors of a GPT, 2048 sectors of
prefix, 1024 and 128 of sampling, chunks of 64 and 128 KiB) are constants and
scaled so that each of them is met and exceeded on twelve sectors. What an action
looks at is the order of few numbers, which twelve sectors give in full. The 256
archives are the pairs of eight members in four formats; among the members are six
inner archives, a broken one, a gzip in a gzip and one that holds itself. With a
depth of 2 and a limit of 3 both are met exactly and exceeded, at the outermost
level and within. All that `layout` checks but `ScanEnds` is proved without bounds. The proofs ask of
the constants of the code that what is sampled at an end of a gap is no more than what
is sampled as a whole (`SampleAssumption`; 128 and 1024 in the code), and of the data
what the formats give: at most four entries in an MBR, and sizes that are numbers.

Fairness. The stages of one command run in one thread that is scheduled.

## 12. Proofs

All proofs are without bounds on the constants; each module's own `ASSUME` on
its constants is the only assumption, unless stated in the theorem.

`SnapshotProofs`. The invariant is `TypeOK` and `SafeInv`:

* `Phases` ties the places of the two threads to the message in hand: what has
  been sent last, when the reader may be gone, when the file is ours;
* `Conservation`: the buffers in both channels and in both hands number
  `QueueDepth` while both threads run. This alone gives `SendsNeverBlock`;
* `Flow`: the messages in the data channel and in hand are adjacent reads: each
  starts at the offset where the one before it ended;
* `Whole`: what has been written is followed by what is under way, and together
  they are all the device returned;
* `Copied`: the image, and the blocks hashed, are a prefix of `stream`.

`ImageIsPrefix` alone is not inductive: that the next chunk fits behind the
image is what `Flow` and `Whole` say. `Refinement` uses the same invariant:
each step of the reader is `Deliver` or a stutter, each of the caller `Write`,
`Commit`, `Abort` or a stutter, and `Kill` is `Crash`.

`ScanSessionProofs`. The inductive invariant `IInv` joins the properties
themselves with what they need: where a snapshot is there is a version
(`SnapKnown`), nothing has been read or written before its place in the
session (`NothingYet`), the process is unprivileged from the sandbox on
(`Unprivileged`), every stage that could open the snapshot has read it
(`ReadsTheSnapshot`), and what a PASS and a release mean (`PassMeans`,
`ReleasedMeans`). It holds for any set of command lines, signed policies,
findings and changes of the medium.

`AuditLogProofs`. Nothing is assumed of `Sandboxed`. `AppendOnly` follows from
*Locked*, which holds until `raced`: one process at most is between lock and unlock, and
its offset is the end of the file. `ChainAlwaysVerifies`, `AckedIsReadable` and
`ImplementsAtomicLog` speak of the time until that or until a process is stopped within
its writes (`Damaged`), and rest on the invariant that until then every line is an entry followed by its
newline, no process has two, an entry's index and hash continue those of the line
before it, and acknowledged entries are there. For the refinement the lines are
numbered: each number up to their count is that of one line (`Numbered`,
`OneNumber`), so that the entries stay the same while the lines and their authors do
(`SameEntries`), and the text that is written is the next one (`TextAppends`).
Once they race, two scans with one `--out`, whose `flock` the filter refuses,
seek to the same end and overwrite each other; after a torn write every append and
the verification return an error, or, when only the end of the line is missing, the
next append succeeds and its entry stands on a line that is no entry.

`StationGuardProofs`. The invariant `IInv` says who has what left to do:

* `Counting`: a process in the final clean-up has a pass to go;
* `RightsFit`: only root locks down, only a scan is confined, and it stays there;
* `RuleOwned`, `MaskOwned`: a rule or a mask means that some process is between
  setting it and removing it, or was stopped there for good. `StationOpens`
  alone is not inductive, since it says nothing before the last process leaves;
* `ConfigOwned`: until a write fails, a rewritten file is read as the user's, or a
  process with something to put back is stopped (`Spoiled`), the configuration is the
  user's, or somebody who will put it back holds the user's content (`Kept`);
* `ApprovedClean`: who may authorize a device has set the controllers to
  authorize new ones, so that a BadUSB device that took the place of an
  approved one is authorized already, and is not among the refused, or somebody saw
  no interface of it;
* `RefusedShut`: what has been refused is there, and authorized only if somebody
  is leaving or saw no interface of it.

It holds for any processes, commands, ports and stations, and with kills.

`TerminalProofs`, about `Screens`. `ThreadsOK`: only the newest scan is heard, and a
channel that says "finished" is that of a thread that is over. `ShownOK`: a verdict
that is shown is of a scan that is over and has nothing left to say. `OutputOK`: the
same of what was exported or released, which `ResultsOfNewest` alone does not give once
the next scan has begun. From these follow `ResultsOfNewest` and `OutputsAreTrue`.
`BrowserInv` adds to `ListingOfTarget` that the inspection listened to is of the target
shown. `TypingIsOver` is inductive as it is.

`ReleaseProofs`, about `DirWalk`. `ChainsAreSimple` is inductive with the types.
`WalkedOnce` adds to `EachDirectoryOnce` that what was walked in the volume at hand is
in `visited`, and that what is being read was not walked. `AtEntries` says that the
directory at hand is among those walked, which `NothingIsMadeUp` needs. `Remembered`
is what makes `NothingIsForgotten` inductive: each visited cluster was walked, given up
or is at hand (`Known`), and each entry of a walked directory is discovered, and known
or in the stack (`Settled`, `Awaited`), but for those the loop has yet to reach. With
the mark set before the depth is looked at it would fail. What the walk has read is
compared with the medium by `ReadSoFar`: its chain follows the links (`Follows`), has all
that is within reach when it is at its end (`ChainIsLinked`), and the clusters read so far
list what `data` does (`Gathered`); at the last one that is what the medium lists
(`ReadIsListed`). `RootsKnown` adds the roots. Together they are `NothingIsReadTwice` and
`FoundIsExact`.

About `Release`, with the walk of any medium and any cleaning of names that gives
words. `ReleaseWalks`: a release behaves like the walk that `DirWalk` specifies, so
what is proved of the walk holds in it (`ReleaseReadsOnce`, `ReleaseFindsExactly`).
`ReleaseTypeOK` rests on `TreeGrows` and `TreeStays`: to make a path with all it leads
through, or to write where nothing lies below, leaves a tree; `CleanPathIs` and
`TargetIs` say that what is made of a path is one below the staging directory.
`BeforeInv`, behind `StagedBeforeStays`, looks at each path of the operator's: it is as
it was, or it was a file and a discovered file has its path; nothing is touched before
the walk is done. `CopiedInv`, behind `OkIsComplete`, says of each file behind the one at hand that its
path holds it whole, or a later one of the same path that is behind as well; but for
the path that is being written, which may hold anything meanwhile.

`FileScanProofs`, about `DiskLayout`, `RawSpace` and `FileScan`. The invariant of types
adds to `StageTypeOK` where the loops are (`RawShape`, `StageShape`). Then

* `GapsInv`: the gaps so far are what lies in front of `pos` and in no partition the
  loop has seen, and the partitions that are left start no earlier than those. From it
  come `GapsAreExact`, `SmallGapsAreSearched` and, since chunks cover a gap
  (`InChunk`), `WipeIsProved`;
* `PartsKnown` says which table each listed partition was read from; with it
  `OneView` is inductive;
* `ChainsInv`: while a chain is followed, what was visited can be arrived at, is
  listed, and leads to what was visited or comes next; when it is over, each record
  that can be arrived at is listed, or there are more than the limit. `ClosedIsAll`
  turns "the first one, and with each one the next" into all of them, also where the
  links run in a circle;
* `CarveInv`: if the policy carves, the ranges collected so far leave out no sector that
  no partition has, and the carving accounts for each file that begins in front of `at`: carved, cut by
  the end of a chunk, or within the length of another;
* `ScanInv`: the files that are behind without a finding are harmless (`PassedFine`),
  and so is, up to where each of them is, what the open calls have seen (`OpenFine`):
  a call waits for the one above it, and what both will have counted at their end is
  known from what they hold (`Working`, `Waiting`). What is counted is tied to what an
  archive unpacks to level by level (`UnpackedToIs`, `SizesToAre`), and so is being
  harmless (`HarmlessToIs`, `LayersAreHarmless`), since an archive may hold itself.

What the definitions of `Nth`, `Hops`, `Layers`, `Sizes`, `Unpacked`, `Blocks` and
`CleanPath` compute is proved for every input. The induction this takes is done on
sets: numbers up to a limit without a property would have a least one (`LeastNumber`,
from the well-foundedness of finite sets under inclusion), and a recursive function
is known to exist because finite pieces of it do (`Iterates`).

`CustodyProofs`. `NonceInv`: two processes that have looked a nonce up and not yet
failed, or accepted it, make it faulty; and one that was written stands in the log
beside the manifest on a line of its own, or is faulty. `KeySource` says where the key of
each verification is from. `KeysInv`: without a fault one keygen at most
is at work, and how far it is says which file is the new one. `AllJudged` says what
`bad` holds at each place, from which both halves of `VerificationIsExact` follow.

`TerminalProofs`, about `TriageStore`. `StoreInv`: whoever is to rewrite the store has
in hand all that is kept and not at risk, and nothing else (`HoldersAgree`); overlaps
put their processes at risk (`OverlapIsRisk`), two that write at a time all they have in
hand (`WritersAreRisk`). `AlwaysSuppressedAsMeant` is a fact about `PathMatches`: a path
used as a pattern matches itself, stars and all.

Model-checked only: what is about liveness (`Terminates`, `ScanEnds` of the session
and of the stages, `AppendsEnd`, `NobodyWaitsForEver`, `ReleaseEnds`), since the
prover knows nothing of fairness and `ENABLED`. All invariants and action properties
that the passing runs check are proved, and so are both refinements,
`ImplementsCopyOnce` and `ImplementsAtomicLog`. The type invariants that no run
repeats are proved as well.

## 13. Where code and documentation disagree

Each is a run that ends in a counterexample; `PROJECT.json` quotes the lines.

| Run | What the run shows |
|---|---|
| `scan_release` | `--release` behind the filter: no `mkdir`, no `getcwd`; the error is printed and the exit code is 0 |
| `release_fragmented` | a file in two pieces is released with whatever follows its first cluster |
| `layout_gpt` | `crc32` divides by 0xEDBABC40: no GPT a partitioning tool writes is valid |

More that the models have and no run asks about.

*Session and sandbox.* The test for root after a failed `enter_sandbox` comes after
the privileges were dropped, so failing Landlock or seccomp is a warning (`main.rs:440`;
`README.md:100` says it aborts). The disposable workspace outlives the session,
since `unlink` is refused by then (`disk/disposable.rs:96`; `cli.rs:204`). A device
that is removed during the copy can end it like the end of the device, and
`bytes_copied` is never compared with the size measured before
(`disk/snapshot.rs:251`). An image of an earlier scan, mode 0400, keeps that mode while
root overwrites it (`disk/snapshot.rs:214` sets the mode of new files only): a kill
leaves it in part and read-only. Root makes the `--out` directory, the unprivileged
process cannot write into it, and the error is discarded (`main.rs:658`). A
manifest is written with an empty device hash when the hash fails (`main.rs:511`),
for instance because another ferrix has just deleted the snapshot. A signed
policy with `on_high: pass` turns failed stages into PASS (`policy/mod.rs:306`); a
critical finding together with a failed stage is a QUARANTINE under the strict
policy (`policy/mod.rs:302`), although exit code 20 is documented for critical
threats. `flock` is refused behind the filter and nobody looks at its result
(`audit/mod.rs:71`), so that two scans with one `--out` may overwrite each other's
entries, those included that were reported as appended.

*Station.* Whoever leaves as root, a watch on Ctrl+C included, authorizes every
device, those included that "will NEVER be authorized" (`device/station.rs:671`,
`main.rs:1323`). The guard writes 1 to `authorized_default` and never the
documented 0 (`device/station.rs:385`, `README.md:143`), so a device that takes
the place of another on its port is bound before anybody looks, and the
watch's set of seen devices is never purged (`main.rs:1268`). A scan started with
sudo has dropped its privileges when its guard and its exit handler want to restore
(`device/station.rs:469`, `README.md:155`). A signal, the only way out of a watch,
leaves the files of KDE, LXQt and LXDE rewritten (`device/station.rs:753`). With two
processes the second may record what the first has rewritten as the user's own: LXQt's
file gets two lines more each time (`device/station.rs:93`), and any file is empty
between the truncation of `fs::write` and its write; a write that fails there loses the
file. A device that shows no interface is approved by the watch (`main.rs:1330`) and
listed by the terminal interface (`tui/app.rs:318`), and on an ordinary kernel an
unauthorized device shows none, so the check for BadUSB sees nothing to refuse.

*Terminal interface.* An egress Pass leaves the live device as the result path, and
a release reads it anew; leaving removes whatever the result path names
(`tui/mod.rs:45`), an image that was scanned included; a report names the device
that is selected when it is written (`tui/app.rs:1429`); the BadUSB check is skipped
when the descriptors cannot be read (`tui/app.rs:480`); what it finds short of critical
is shown and then replaced by the findings of the stages (`tui/app.rs:1330`), and an
egress scan has none that finds it again, so that its Pass report is without it.

*Walk.* A name with a slash in it cannot be entered in the browser; subdirectories
of exFAT are never walked; a chain of FAT that cannot be read is skipped silently, and
so is what lies behind the limits of a chain or, in FAT, behind a cluster that cannot be
read.

*Verification.* The log of nonces (`docs/THREAT_MODEL.md:126`, "to prevent replay
attacks") lets a nonce through twice for the faults `AcceptedOnce` names, and once for
each directory a copy of the manifest is verified in, since the log lies beside it
(`main.rs:971`). The public key is that of `--pubkey`, else the `station.pub` beside the
manifest, else `./station.pub` (`main.rs:854`), so a medium that brings its own pair is
accepted; `README.md:115` says the key is searched "strictly in /etc/ferrix/station.pub or
an explicit --pubkey argument". A verification
that ends after it recorded its nonce makes the next one fail. A medium with two files
of one path, or with an escaped name, never verifies against its own manifest. An
interrupted or overlapping keygen leaves files of two pairs.

*Triage.* No scan applies a suppression: `check_finding` and `is_suppressible` have
no caller, nor has `check_and_record_nonce`. "All additions are cryptographically
signed and logged to the audit chain" (`cli.rs:115`) holds neither for the terminal
interface nor when the key or the log fails. A torn or empty store makes the command
fail for good, while the interface overwrites it.

*Layout.* A chain of more than 64 records, or with a broken one, ends silently; gaps
of more than 1024 sectors are sampled at their ends only (`README.md:37`,
`docs/THREAT_MODEL.md:39`); the space within an extended partition is not sampled;
an unknown or unreadable filesystem gives no finding, although `README.md:109` says
the scan fails closed. A GPT with the standard checksum beside an MBR that is not
protective has no finding (`docs/THREAT_MODEL.md:37` and the test
`test_gpt_missing_protective_mbr_quarantines`, which makes its header with the program's
own `crc32`, have FX-PART-003 for it). Carving passes over a file whose header goes on in the next
chunk, over files within the estimated length of another, and over all after
`max_carved_files`, which a file counts against once for each range it lies in; an error
while it reads ends it silently. The egress scan looks neither at free clusters nor at slack
(`README.md:38`, `README.md:273`), takes an empty GPT itself for unallocated space,
and its check of a wipe does not tell a chunk that is random but for an eighth.
`egress/mod.rs:86` reads a buffer longer than a short file, which fails at the end of
the medium.

*Archives.* The sizes that a gzip unpacks to are not compared with the limit
(`scan/archives.rs:765`) until the next member of a zip or tar. A nested archive that
is compressed by another method, unpacks to more than 16 MiB or lies beyond
`max_file_read_size` is passed over silently, as are members that stand in local
headers only when there is a central directory. A file whose contents cannot be read
has no finding.

## 14. Not modelled

Byte formats (partition entries, directory entries, headers of archives, documents,
signatures, YAML, JSON) are left to the program's tests except where a walk, a bound
or a comparison depends on them; cryptography is taken as ideal (a hash is its input);
reports and drawing have no state that matters; TPM reading is two files; the
Linux kernel, systemd, udev and ClamAV appear as what the code sees of them.
`hash_device_or_image` is part of the step `WriteOut`, `clean_all_snapshots`
of the clean command deletes the same files as the station's clean-up, which is in
`ScanSession` as `OtherFerrixExits`. Mounting and the read-write attribute
(`device/auth.rs`) change one device each and are left out, as are the egress
command's own verdict and outputs, which follow the scan's.
