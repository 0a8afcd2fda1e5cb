------------------------------ MODULE Screens ------------------------------
(***************************************************************************)
(* The terminal interface (src/tui): the screens and their keys            *)
(* (handler.rs), the scan and inspection threads they start, and the poll  *)
(* that takes over what the threads send (app.rs).                         *)
(*                                                                         *)
(* A path is a target or the number of the scan whose snapshot it is.      *)
(* Only what is judged, shown, exported, released or removed is kept;      *)
(* progress, speed, scrolling and the status line are left out.            *)
(***************************************************************************)
EXTENDS Naturals, Sequences

CONSTANTS
    Drives,       \* block devices, those still unauthorized included
    Images,       \* disk images in the working directory
    NoTarget,
    ListOf,       \* the list refresh_devices makes of the targets that are there
    TypedPath,    \* what is typed when a path is typed
    MaxThreads,   \* how many scans and inspections may be started in all
    IngressStages, \* the stages of an ingress scan, 5 in the code
    Outcomes      \* the verdicts scans come to

Targets == Drives \cup Images
Snapshots == 1 .. MaxThreads
Paths == Targets \cup Snapshots
Verdicts == {"Pass", "Quarantine", "Fail"}

ASSUME TargetsAssumption ==
    /\ Drives \cap Images = {}
    /\ NoTarget \notin Targets \cup Nat
    /\ Targets \cap Nat = {}
ASSUME ListAssumption == ListOf \in [SUBSET Targets -> Seq(Targets)]
ASSUME TypedAssumption == TypedPath \in Targets
ASSUME BoundsAssumption ==
    MaxThreads \in Nat /\ IngressStages \in Nat /\ Outcomes \subseteq Verdicts

VARIABLES
    running,     \* ~should_quit
    screen,
    entering,    \* is_entering_manual_device
    devices,
    selected,    \* selected_device_idx, counted from 1
    mode,
    newest,      \* the scan whose channel is rx_event, 0 before the first
    events,      \* what is in it: findings, and how the scan ended
    verdict,
    findings,    \* all_findings: for each one, the scan that found it
    scanId,      \* 0 before the first
    result,      \* snapshot_path
    scan,        \* the scan threads, with what their stages found
    browsing,    \* browse_target_path
    listing,     \* the target browse_files lists, NoTarget when it is empty
    loading,     \* browse_loading
    inspection,  \* rx_browse and the thread at its other end
    browses,     \* how many inspections have been started
    files,       \* the paths that exist
    output       \* history: the last report or release since a scan was started

lists    == <<devices, selected>>
results  == <<verdict, findings, scanId, result>>
scans    == <<newest, events, scan>>
browser  == <<browsing, listing, loading, inspection, browses>>
vars     == <<running, screen, entering, lists, mode, results, scans, browser, files, output>>

AllScreens == {"DeviceSelect", "ModeSelect", "BrowseContents", "Scanning",
               "Results", "Report", "Triage"}
Modes == {"Ingress", "Egress"}

Idle == [pc |-> "none", target |-> NoTarget, mode |-> "Ingress", left |-> 0,
         found |-> 0, verdict |-> "none"]
Silent == [state |-> "none", target |-> NoTarget]
NoEvents == [of |-> 0, found |-> 0, end |-> "none"]
Nothing == [kind |-> "none", id |-> 0, of |-> NoTarget, verdict |-> "none", findings |-> <<>>]

\* What refresh_devices collects.
Present == ListOf[files \cap Targets]

\* selected_device
SelectedDevice == IF selected \in 1 .. Len(devices) THEN devices[selected] ELSE NoTarget

\* A list that has become shorter moves the selection to its end.
Clamp(list) == IF list = <<>> THEN 1 ELSE IF selected > Len(list) THEN Len(list) ELSE selected

Init ==
    /\ running = TRUE
    /\ screen = "DeviceSelect"
    /\ entering = FALSE
    /\ files = Targets
    /\ devices = Present /\ selected = 1
    /\ mode = "Ingress"
    /\ newest = 0 /\ events = NoEvents
    /\ verdict = "none" /\ findings = <<>> /\ scanId = 0 /\ result = NoTarget
    /\ scan = [n \in Snapshots |-> Idle]
    /\ browsing = NoTarget /\ listing = NoTarget /\ loading = FALSE
    /\ inspection = Silent /\ browses = 0
    /\ output = Nothing

At(s) == running /\ screen = s

-----------------------------------------------------------------------------
(***************************************************************************)
(* start_scan and its thread.                                              *)
(***************************************************************************)

\* The path start_scan takes: the typed one only while it is being typed.
ScanTarget == IF entering THEN TypedPath ELSE SelectedDevice

\* A target that is gone is refused. Findings and verdict are reset, the result
\* path and the scan id of the scan before are not; its channel is dropped.
StartScan ==
    /\ At("ModeSelect")
    /\ newest + browses < MaxThreads
    /\ ScanTarget \in files
    /\ screen' = "Scanning"
    /\ verdict' = "none" /\ findings' = <<>>
    /\ newest' = newest + 1 /\ events' = NoEvents
    /\ scan' = [scan EXCEPT ![newest + 1] =
                  [pc |-> "start", target |-> ScanTarget, mode |-> mode, left |-> 0,
                   found |-> 0, verdict |-> "none"]]
    /\ output' = Nothing
    /\ UNCHANGED <<running, entering, lists, mode, scanId, result, browser, files>>

\* Mutant: all scans send into one channel.
SendShared(n, found, end) ==
    events' = [of |-> n, found |-> events.found + found, end |-> end]

\* What a scan sends once its receiver was dropped is lost.
Send(n, found, end) ==
    events' = IF n = newest THEN [of |-> n, found |-> events.found + found, end |-> end]
                            ELSE events

Stages(n) == IF scan[n].mode = "Ingress" THEN IngressStages ELSE 1

\* What the check of a device's descriptors finds before its authorization: the
\* findings are sent, and are not among those of the scan.
Warnings(n) == IF scan[n].pc = "start" /\ scan[n].target \in Drives THEN 0 .. 1 ELSE {0}

\* Mutant: a thread that gives up does not say so.
ScanFailsSilently(n) ==
    /\ running /\ scan[n].pc \in {"start", "copy"}
    /\ scan' = [scan EXCEPT ![n].pc = "done"]
    /\ \E found \in Warnings(n) : Send(n, found, "none")
    /\ UNCHANGED <<running, screen, entering, lists, mode, newest, results, browser, files, output>>

\* The BadUSB check, the authorization, the refusal of a system drive and the
\* size all end the scan before it has read anything; so does a failed copy.
ScanFails(n) ==
    /\ running /\ scan[n].pc \in {"start", "copy"}
    /\ scan' = [scan EXCEPT ![n].pc = "done"]
    /\ \E found \in Warnings(n) : Send(n, found, "failed")
    /\ UNCHANGED <<running, screen, entering, lists, mode, newest, results, browser, files, output>>

\* Without a critical finding a device is authorized.  A block device is copied
\* first, an image is scanned as it is.
ScanOpens(n) ==
    /\ running /\ scan[n].pc = "start"
    /\ scan[n].target \in files
    /\ scan' = [scan EXCEPT ![n].pc = IF scan[n].target \in Drives THEN "copy" ELSE "stages",
                            ![n].left = Stages(n)]
    /\ \E found \in Warnings(n) : Send(n, found, "none")
    /\ UNCHANGED <<running, screen, entering, lists, mode, newest, results, browser, files, output>>

ScanCopies(n) ==
    /\ running /\ scan[n].pc = "copy"
    /\ scan[n].target \in files
    /\ scan' = [scan EXCEPT ![n].pc = "stages"]
    /\ files' = files \cup {n}
    /\ UNCHANGED <<running, screen, entering, lists, mode, newest, events, results, browser, output>>

\* A stage sends its findings, or one for its own failure.
ScanStage(n) ==
    /\ running /\ scan[n].pc = "stages" /\ scan[n].left > 0
    /\ \E found \in 0 .. 1 :
          /\ scan' = [scan EXCEPT ![n].left = @ - 1, ![n].found = @ + found]
          /\ Send(n, found, "none")
    /\ UNCHANGED <<running, screen, entering, lists, mode, newest, results, browser, files, output>>

ScanFinishes(n) ==
    /\ running /\ scan[n].pc = "stages" /\ scan[n].left = 0
    /\ \E v \in Outcomes :
          scan' = [scan EXCEPT ![n].pc = "done", ![n].verdict = v]
    /\ Send(n, 0, "finished")
    /\ UNCHANGED <<running, screen, entering, lists, mode, newest, results, browser, files, output>>

\* The target_path of ScanFinished: after an ingress scan the snapshot if there
\* is one, after an egress scan the target itself.
ResultPath(n) ==
    IF scan[n].mode = "Ingress" /\ scan[n].target \in Drives THEN n ELSE scan[n].target

ScanThread(n) ==
    \/ ScanFails(n) \/ ScanOpens(n) \/ ScanCopies(n) \/ ScanStage(n) \/ ScanFinishes(n)

-----------------------------------------------------------------------------
(***************************************************************************)
(* open_drive_browser and its thread.                                      *)
(***************************************************************************)

\* A path typed before is taken only when the list of devices is empty.
BrowseTarget == IF SelectedDevice # NoTarget THEN SelectedDevice ELSE TypedPath

\* Mutant: the files of the target inspected before stay in the list.
OpenKeepingFiles(shown) ==
    /\ BrowseTarget # NoTarget
    /\ screen' = "BrowseContents"
    /\ \/ /\ browsing = BrowseTarget /\ shown # NoTarget
          /\ loading' = FALSE
          /\ UNCHANGED <<browsing, listing, inspection, browses>>
       \/ /\ browsing # BrowseTarget \/ shown = NoTarget
          /\ newest + browses < MaxThreads
          /\ browses' = browses + 1
          /\ browsing' = BrowseTarget /\ listing' = shown /\ loading' = TRUE
          /\ inspection' = [state |-> "running", target |-> BrowseTarget]

\* What is already listed is shown again without a look at the medium; any
\* other target cancels the inspection before it and starts one of its own,
\* with a new channel.
Open(shown) ==
    /\ BrowseTarget # NoTarget
    /\ screen' = "BrowseContents"
    /\ \/ /\ browsing = BrowseTarget /\ shown # NoTarget
          /\ loading' = FALSE
          /\ UNCHANGED <<browsing, listing, inspection, browses>>
       \/ /\ browsing # BrowseTarget \/ shown = NoTarget
          /\ newest + browses < MaxThreads
          /\ browses' = browses + 1
          /\ browsing' = BrowseTarget /\ listing' = NoTarget /\ loading' = TRUE
          /\ inspection' = [state |-> "running", target |-> BrowseTarget]

OpenBrowser ==
    /\ \/ At("DeviceSelect") /\ ~entering
       \/ At("ModeSelect")
    /\ Open(listing)
    /\ UNCHANGED <<running, entering, lists, mode, results, scans, files, output>>

\* The r key empties the list first.
Reinspect ==
    /\ At("BrowseContents")
    /\ Open(NoTarget)
    /\ UNCHANGED <<running, entering, lists, mode, results, scans, files, output>>

\* The thread answers with files, or with an error or no file at all, as it does
\* when the target is gone: the list was emptied before and stays empty.
InspectionAnswers ==
    /\ running /\ inspection.state = "running"
    /\ \E answer \in {"listed", "nothing"} :
          /\ inspection.target \notin files => answer = "nothing"
          /\ inspection' = [inspection EXCEPT !.state = answer]
    /\ UNCHANGED <<running, screen, entering, lists, mode, results, scans, browsing,
                   listing, loading, browses, files, output>>

-----------------------------------------------------------------------------
(***************************************************************************)
(* poll_scan_events, once in every round of run_tui.                       *)
(***************************************************************************)

\* Once a second the list of devices is collected again.
PollDevices ==
    \/ UNCHANGED lists
    \/ /\ screen = "DeviceSelect" /\ ~entering
       /\ devices' = Present /\ selected' = Clamp(Present)

\* The answer is taken once, and ends the loading whatever it is.
PollInspection ==
    IF inspection.state \in {"none", "running"}
      THEN UNCHANGED <<listing, loading, inspection>>
      ELSE /\ loading' = FALSE
           /\ inspection' = Silent
           /\ listing' = IF inspection.state = "listed" THEN inspection.target ELSE listing

FindingsOf(n, count) == [i \in 1 .. count |-> n]

\* The channel is emptied. A finished scan replaces what was collected so far, the
\* warnings included, by what its stages found; a failed one has no verdict.
PollScan ==
    /\ events' = NoEvents
    /\ screen' = IF events.end = "none" THEN screen ELSE "Results"
    /\ IF events.end = "finished"
         THEN /\ verdict' = scan[events.of].verdict
              /\ findings' = FindingsOf(events.of, scan[events.of].found)
              /\ scanId' = events.of
              /\ result' = ResultPath(events.of)
         ELSE /\ findings' = findings \o FindingsOf(events.of, events.found)
              /\ UNCHANGED <<verdict, scanId, result>>

Poll ==
    /\ running
    /\ PollDevices /\ PollInspection /\ PollScan
    /\ UNCHANGED <<running, entering, mode, newest, scan, browsing, browses, files, output>>

-----------------------------------------------------------------------------
(***************************************************************************)
(* handle_key_event, screen by screen.  Keys that only move a cursor or    *)
(* edit a text that nothing here depends on are left out.                  *)
(***************************************************************************)

\* Keys that lead to another screen and change nothing else.
Turns == {<<"ModeSelect", "DeviceSelect">>,     \* Esc
          <<"BrowseContents", "ModeSelect">>,   \* s
          <<"Scanning", "DeviceSelect">>,       \* q: the thread and rx_event stay
          <<"Results", "DeviceSelect">>,        \* Esc
          <<"Results", "Report">>,              \* p
          <<"Report", "Results">>,              \* Esc
          <<"Triage", "Results">>}              \* Esc, or Enter once applied

Turn ==
    /\ running
    /\ \E turn \in Turns : screen = turn[1] /\ screen' = turn[2]
    /\ UNCHANGED <<running, entering, lists, mode, results, scans, browser, files, output>>

EnterManually ==
    /\ At("DeviceSelect") /\ ~entering
    /\ entering' = TRUE
    /\ UNCHANGED <<running, screen, lists, mode, results, scans, browser, files, output>>

\* Enter takes a path that is not empty and puts the flag down.
ConfirmTyped ==
    /\ At("DeviceSelect") /\ entering
    /\ entering' = FALSE
    /\ screen' = "ModeSelect"
    /\ UNCHANGED <<running, lists, mode, results, scans, browser, files, output>>

\* Esc gives up.
CancelTyped ==
    /\ At("DeviceSelect") /\ entering
    /\ entering' = FALSE
    /\ UNCHANGED <<running, screen, lists, mode, results, scans, browser, files, output>>

RefreshKey ==
    /\ At("DeviceSelect") /\ ~entering
    /\ devices' = Present /\ selected' = Clamp(Present)
    /\ UNCHANGED <<running, screen, entering, mode, results, scans, browser, files, output>>

\* Up, Down, PageUp, PageDown, Home and End stay within the list.
Select ==
    /\ At("DeviceSelect") /\ ~entering
    /\ selected' \in 1 .. Len(devices)
    /\ UNCHANGED <<running, screen, entering, devices, mode, results, scans, browser, files, output>>

Choose ==
    /\ At("DeviceSelect") /\ ~entering /\ devices # <<>>
    /\ screen' = "ModeSelect"
    /\ UNCHANGED <<running, entering, lists, mode, results, scans, browser, files, output>>

ChooseMode ==
    /\ At("ModeSelect")
    /\ mode' \in Modes
    /\ UNCHANGED <<running, screen, entering, lists, results, scans, browser, files, output>>

\* Esc leaves the browser and drops the channel of its inspection.
LeaveBrowser ==
    /\ At("BrowseContents")
    /\ screen' = "DeviceSelect"
    /\ loading' = FALSE /\ inspection' = Silent
    /\ UNCHANGED <<running, entering, lists, mode, results, scans, browsing, listing,
                   browses, files, output>>

\* t needs a finding to triage.
OpenTriage ==
    /\ At("Results") /\ findings # <<>>
    /\ screen' = "Triage"
    /\ UNCHANGED <<running, entering, lists, mode, results, scans, browser, files, output>>

ReleaseSource == IF result = NoTarget THEN SelectedDevice ELSE result

\* r: release_verified_files.
ReleaseKey ==
    /\ At("Results")
    /\ verdict = "Pass"
    /\ ReleaseSource \in files
    /\ output' = [kind |-> "release", id |-> newest, of |-> ReleaseSource,
                   verdict |-> verdict, findings |-> <<>>]
    /\ UNCHANGED <<running, screen, entering, lists, mode, results, scans, browser, files>>

\* Mutant: without a verdict the report says what the findings suggest.
ExportReportAssuming ==
    /\ At("Report")
    /\ output' = [kind |-> "report", id |-> scanId, of |-> SelectedDevice,
                   verdict |-> IF findings = <<>> THEN "Pass" ELSE "Quarantine",
                   findings |-> findings]
    /\ UNCHANGED <<running, screen, entering, lists, mode, results, scans, browser, files>>

\* j and h: export_report writes the file that is named after the scan id, with
\* the device that is selected now; without a verdict it says Quarantine.
ExportReport ==
    /\ At("Report")
    /\ output' = [kind |-> "report", id |-> scanId, of |-> SelectedDevice,
                   verdict |-> IF verdict = "none" THEN "Quarantine" ELSE verdict,
                   findings |-> findings]
    /\ UNCHANGED <<running, screen, entering, lists, mode, results, scans, browser, files>>

\* Ctrl+C everywhere, q on most screens. On its way out run_tui removes what it
\* takes for the snapshot.
Quit ==
    /\ running
    /\ running' = FALSE
    /\ files' = files \ {result}
    /\ UNCHANGED <<screen, entering, lists, mode, results, scans, browser, output>>

\* Drives come and go.
PullOut(d) ==
    /\ running /\ d \in files
    /\ files' = files \ {d}
    /\ UNCHANGED <<running, screen, entering, lists, mode, results, scans, browser, output>>

PlugIn(d) ==
    /\ running /\ d \notin files
    /\ files' = files \cup {d}
    /\ UNCHANGED <<running, screen, entering, lists, mode, results, scans, browser, output>>

-----------------------------------------------------------------------------
Next ==
    \/ StartScan \/ \E n \in Snapshots : ScanThread(n)
    \/ OpenBrowser \/ Reinspect \/ InspectionAnswers
    \/ Poll
    \/ Turn \/ EnterManually \/ ConfirmTyped \/ CancelTyped \/ RefreshKey
    \/ Select \/ Choose \/ ChooseMode \/ LeaveBrowser \/ OpenTriage \/ ReleaseKey
    \/ ExportReport \/ Quit
    \/ \E d \in Drives : PullOut(d) \/ PlugIn(d)

Spec == Init /\ [][Next]_vars

\* The threads run and the loop polls, whatever is typed.
FairSpec ==
    /\ Spec
    /\ WF_vars(Poll) /\ WF_vars(InspectionAnswers)
    /\ \A n \in Snapshots : WF_vars(ScanThread(n))

-----------------------------------------------------------------------------
ScanThreads == [pc : {"none", "start", "copy", "stages", "done"},
                target : Targets \cup {NoTarget}, mode : Modes,
                left : Nat, found : Nat, verdict : Verdicts \cup {"none"}]
Channels == [of : 0 .. MaxThreads, found : Nat, end : {"none", "finished", "failed"}]
Inspections == [state : {"none", "running", "listed", "nothing"},
                target : Targets \cup {NoTarget}]
Outputs == [kind : {"none", "release", "report"}, id : 0 .. MaxThreads,
            of : Paths \cup {NoTarget}, verdict : Verdicts \cup {"none"},
            findings : Seq(Snapshots)]
\* The selection is a place in the list, also when that shrinks.
SelectionInList ==
    /\ devices \in Seq(Targets)
    /\ selected \in Nat \ {0} /\ (devices # <<>> => selected <= Len(devices))

\* Type invariant, the selection included.
TypeOK ==
    /\ running \in BOOLEAN
    /\ screen \in AllScreens
    /\ entering \in BOOLEAN
    /\ SelectionInList
    /\ mode \in Modes
    /\ newest \in 0 .. MaxThreads
    /\ events \in Channels
    /\ verdict \in Verdicts \cup {"none"}
    /\ findings \in Seq(Snapshots)
    /\ scanId \in 0 .. MaxThreads
    /\ result \in Paths \cup {NoTarget}
    /\ scan \in [Snapshots -> ScanThreads]
    /\ browsing \in Targets \cup {NoTarget}
    /\ listing \in Targets \cup {NoTarget}
    /\ loading \in BOOLEAN
    /\ inspection \in Inspections
    /\ browses \in 0 .. MaxThreads
    /\ files \subseteq Paths
    /\ output \in Outputs

\* What is on the screen with a verdict is what the stages of the scan started last
\* found, all of it, and nothing of one that was left with q.  The warnings that were
\* shown before the device was authorized are gone from it.
ResultsOfNewest ==
    verdict # "none" =>
        /\ scanId = newest
        /\ verdict = scan[newest].verdict
        /\ findings = FindingsOf(newest, scan[newest].found)
        /\ result = ResultPath(newest)

\* The browser lists the files of the target whose name it shows, and shows that
\* it is loading only while a thread is still to answer.
ListingOfTarget ==
    /\ listing # NoTarget => listing = browsing
    /\ loading => inspection.state # "none"

\* Whatever r releases was judged Pass, by a scan of that very path or of the
\* drive the snapshot was taken from.
ReleasedPassed ==
    output.kind = "release" =>
        /\ output.id # 0
        /\ scan[output.id].verdict = "Pass"
        /\ output.of = ResultPath(output.id)

\* A report that says Pass is named after a scan that passed, and has the findings of
\* its stages: of an egress scan, nothing the check of the descriptors warned of.
PassReportsAreTrue ==
    output.kind = "report" /\ output.verdict = "Pass" =>
        /\ output.id # 0
        /\ scan[output.id].verdict = "Pass"
        /\ output.findings = FindingsOf(output.id, scan[output.id].found)

\* Whatever was abandoned, selected or pulled out before, what leaves the interface is
\* what the stages of a scan judged: the released files and a report that says Pass.
OutputsAreTrue == ReleasedPassed /\ PassReportsAreTrue

\* A path is typed on the first screen only: whoever has chosen what to scan is
\* past it, and start_scan takes the selected device.
TypingIsOver == screen \in {"ModeSelect", "BrowseContents", "Scanning"} => ~entering

\* A scan that is watched comes to its results, and a browser that is loading
\* stops, unless the operator leaves first.
WatchedScanEnds ==
    [](running /\ screen = "Scanning" => <>(~running \/ screen # "Scanning"))
LoadingEnds == [](loading => <>(~running \/ ~loading))
NobodyWaitsForEver == WatchedScanEnds /\ LoadingEnds
=============================================================================
