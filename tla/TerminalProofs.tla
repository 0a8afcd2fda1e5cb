--------------------------- MODULE TerminalProofs --------------------------
(***************************************************************************)
(* Proofs about the terminal interface, for every set of drives and images *)
(* and any number of scans and inspections, and about the store of         *)
(* suppressions its Triage screen shares with the triage command, for      *)
(* every number of processes and every request.                            *)
(***************************************************************************)
EXTENDS Screens, TriageStore, SequenceTheorems, TLAPS

-----------------------------------------------------------------------------
(***************************************************************************)
(* Types.                                                                  *)
(***************************************************************************)

\* The findings of one scan are a sequence of that scan's number.
LEMMA FindingsOfType ==
    ASSUME NEW n \in Snapshots, NEW count \in Nat
    PROVE  FindingsOf(n, count) \in Seq(Snapshots)
  BY DEF FindingsOf

\* No finding is the empty sequence, which changes nothing when appended.
LEMMA NoFindings ==
    ASSUME NEW n, NEW s \in Seq(Snapshots)
    PROVE  s \o FindingsOf(n, 0) = s
<1>1. FindingsOf(n, 0) = << >>
  BY DEF FindingsOf
<1>. QED BY <1>1

\* The drives that are listed are targets.
LEMMA PresentType == Present \in Seq(Targets)
<1>1. files \cap Targets \in SUBSET Targets
  OBVIOUS
<1>. QED BY <1>1, ListAssumption DEF Present

\* The selection is moved to a place in the list.
LEMMA ClampInList ==
    ASSUME NEW list \in Seq(Targets), selected \in Nat \ {0}
    PROVE  /\ Clamp(list) \in Nat \ {0}
           /\ list # << >> => Clamp(list) <= Len(list)
<1>1. Len(list) \in Nat /\ (list # << >> => Len(list) # 0)
  OBVIOUS
<1>. QED BY <1>1 DEF Clamp

\* The device that is selected is a target, or none is.
LEMMA SelectedType ==
    ASSUME TypeOK PROVE SelectedDevice \in Targets \cup {NoTarget}
  BY DEF TypeOK, SelectionInList, SelectedDevice

\* A scan thread that goes on is a scan thread.
LEMMA RecordType ==
    ASSUME NEW r \in ScanThreads, NEW to \in {"none", "start", "copy", "stages", "done"},
           NEW left \in Nat, NEW found \in Nat, NEW v \in Verdicts \cup {"none"}
    PROVE  /\ [r EXCEPT !.pc = to, !.found = found] \in ScanThreads
           /\ [r EXCEPT !.pc = to, !.left = left] \in ScanThreads
           /\ [r EXCEPT !.pc = to] \in ScanThreads
           /\ [r EXCEPT !.left = left, !.found = found] \in ScanThreads
           /\ [r EXCEPT !.pc = to, !.verdict = v] \in ScanThreads
  BY DEF ScanThreads

\* What a thread sends keeps the type of the channel.
LEMMA SendType ==
    ASSUME TypeOK, NEW n \in Snapshots, NEW found \in Nat,
           NEW end \in {"none", "finished", "failed"}, Send(n, found, end)
    PROVE  events' \in Channels
<1>1. n \in 0 .. MaxThreads
  BY BoundsAssumption DEF Snapshots
<1>2. events.found + found \in Nat
  BY DEF TypeOK, Channels
<1>. QED BY <1>1, <1>2 DEF Send, TypeOK, Channels

\* The types hold at the start.
LEMMA TypeInit == Init => TypeOK
<1>. SUFFICES ASSUME Init PROVE TypeOK
  OBVIOUS
<1>1. devices \in Seq(Targets) /\ selected = 1
  BY PresentType DEF Init
<1>2. devices # << >> => selected <= Len(devices)
  BY <1>1
<1>3. scan \in [Snapshots -> ScanThreads]
  BY DEF Init, Idle, ScanThreads, Modes
<1>4. output \in Outputs
  BY BoundsAssumption DEF Init, Nothing, Outputs
<1>5. /\ events \in Channels
      /\ newest \in 0 .. MaxThreads /\ scanId \in 0 .. MaxThreads
      /\ browses \in 0 .. MaxThreads
  BY BoundsAssumption DEF Init, NoEvents, Channels
<1>7. inspection \in Inspections /\ files \subseteq Paths
  BY DEF Init, Silent, Inspections, Paths
<1>8. findings \in Seq(Snapshots)
  BY DEF Init
<1>6. /\ running \in BOOLEAN /\ screen \in AllScreens /\ entering \in BOOLEAN
      /\ mode \in Modes /\ verdict \in Verdicts \cup {"none"}
      /\ result \in Paths \cup {NoTarget}
      /\ browsing \in Targets \cup {NoTarget} /\ listing \in Targets \cup {NoTarget}
      /\ loading \in BOOLEAN
  BY DEF Init, AllScreens, Modes
<1>. QED BY <1>1, <1>2, <1>3, <1>4, <1>5, <1>6, <1>7, <1>8 DEF TypeOK, SelectionInList, ScanThreads

\* What is in the channel was sent by a scan that has been started.
ChannelOK ==
    /\ events.found # 0 \/ events.end # "none" => events.of \in Snapshots

\* Every key, every poll and every step of a thread keeps the types.
LEMMA TypeStep == TypeOK /\ ChannelOK /\ [Next]_vars => TypeOK'
<1>. SUFFICES ASSUME TypeOK, ChannelOK, [Next]_vars PROVE TypeOK'
  OBVIOUS
<1>1. ASSUME StartScan PROVE TypeOK'
  <2>1. ScanTarget \in Targets
    <3>1. ScanTarget \in Targets \cup {NoTarget}
      BY SelectedType, TypedAssumption DEF ScanTarget
    <3>2. NoTarget \notin Paths
      BY TargetsAssumption DEF Paths, Snapshots
    <3>. QED BY <1>1, <3>1, <3>2 DEF StartScan, TypeOK
  <2>2. [pc |-> "start", target |-> ScanTarget, mode |-> mode, left |-> 0,
         found |-> 0, verdict |-> "none"] \in ScanThreads
    BY <2>1 DEF ScanThreads, TypeOK
  <2>3. scan' \in [Snapshots -> ScanThreads]
    BY <1>1, <2>2 DEF StartScan, TypeOK, ScanThreads
  <2>4. newest' \in 0 .. MaxThreads
    BY <1>1, BoundsAssumption DEF StartScan, TypeOK
  <2>5. /\ events' \in Channels
        /\ findings' \in Seq(Snapshots) /\ verdict' \in Verdicts \cup {"none"}
        /\ screen' \in AllScreens
    BY <1>1, BoundsAssumption DEF StartScan, NoEvents, AllScreens, Channels
  <2>6. output' \in Outputs
    BY <1>1, BoundsAssumption DEF StartScan, Nothing, Outputs
  <2>. QED BY <1>1, <2>3, <2>4, <2>5, <2>6 DEF StartScan, TypeOK, SelectionInList, ScanThreads, lists, browser
<1>2. ASSUME OpenBrowser PROVE TypeOK'
  <2>1. BrowseTarget \in Targets
    BY SelectedType, TypedAssumption DEF BrowseTarget
  <2>3. /\ inspection' \in Inspections
        /\ browsing' \in Targets \cup {NoTarget} /\ listing' \in Targets \cup {NoTarget}
        /\ loading' \in BOOLEAN /\ browses' \in 0 .. MaxThreads
    <3>1. CASE loading' = FALSE /\ UNCHANGED <<browsing, listing, inspection, browses>>
      BY <3>1 DEF TypeOK
    <3>2. CASE /\ browsing' = BrowseTarget /\ listing' = NoTarget /\ loading' = TRUE
               /\ browses' = browses + 1 /\ newest + browses < MaxThreads
               /\ inspection' = [state |-> "running", target |-> BrowseTarget]
      <4>1. browses + 1 \in 0 .. MaxThreads
        BY <3>2, BoundsAssumption DEF TypeOK
      <4>2. inspection' \in Inspections
        BY <2>1, <3>2 DEF Inspections
      <4>. QED BY <2>1, <3>2, <4>1, <4>2
    <3>. QED BY <1>2, <3>1, <3>2 DEF OpenBrowser, Open
  <2>4. screen' \in AllScreens
    BY <1>2 DEF OpenBrowser, Open, AllScreens
  <2>. QED BY <1>2, <2>3, <2>4 DEF OpenBrowser, Open, TypeOK, vars, SelectionInList, lists, results, scans
<1>3. ASSUME Reinspect PROVE TypeOK'
  <2>1. BrowseTarget \in Targets
    BY SelectedType, TypedAssumption DEF BrowseTarget
  <2>3. /\ inspection' \in Inspections
        /\ browsing' \in Targets \cup {NoTarget} /\ listing' \in Targets \cup {NoTarget}
        /\ loading' \in BOOLEAN /\ browses' \in 0 .. MaxThreads
    <3>1. CASE loading' = FALSE /\ UNCHANGED <<browsing, listing, inspection, browses>>
      BY <3>1 DEF TypeOK
    <3>2. CASE /\ browsing' = BrowseTarget /\ listing' = NoTarget /\ loading' = TRUE
               /\ browses' = browses + 1 /\ newest + browses < MaxThreads
               /\ inspection' = [state |-> "running", target |-> BrowseTarget]
      <4>1. browses + 1 \in 0 .. MaxThreads
        BY <3>2, BoundsAssumption DEF TypeOK
      <4>2. inspection' \in Inspections
        BY <2>1, <3>2 DEF Inspections
      <4>. QED BY <2>1, <3>2, <4>1, <4>2
    <3>. QED BY <1>3, <3>1, <3>2 DEF Reinspect, Open
  <2>4. screen' \in AllScreens
    BY <1>3 DEF Reinspect, Open, AllScreens
  <2>. QED BY <1>3, <2>3, <2>4 DEF Reinspect, Open, TypeOK, vars, SelectionInList, lists, results, scans
<1>4. ASSUME InspectionAnswers PROVE TypeOK'
  <2>1. \A answer \in {"listed", "nothing"} :
           [inspection EXCEPT !.state = answer] \in Inspections
    BY DEF TypeOK, Inspections
  <2>2. inspection' \in Inspections
    BY <1>4, <2>1 DEF InspectionAnswers
  <2>. QED BY <1>4, <2>2 DEF InspectionAnswers, TypeOK, SelectionInList, lists, results, scans
<1>5. ASSUME Poll PROVE TypeOK'
  <2>1. SelectionInList'
    <3>1. CASE UNCHANGED lists
      BY <3>1 DEF TypeOK, SelectionInList, lists
    <3>2. CASE devices' = Present /\ selected' = Clamp(Present)
      BY <3>2, PresentType, ClampInList DEF TypeOK, SelectionInList
    <3>. QED BY <1>5, <3>1, <3>2 DEF Poll, PollDevices
  <2>2. /\ inspection' \in Inspections
        /\ listing' \in Targets \cup {NoTarget} /\ loading' \in BOOLEAN
    <3>1. Silent \in Inspections /\ inspection.target \in Targets \cup {NoTarget}
      BY DEF Silent, Inspections, TypeOK
    <3>2. CASE inspection.state \in {"none", "running"}
      BY <1>5, <3>2 DEF Poll, PollInspection, TypeOK
    <3>3. CASE inspection.state \notin {"none", "running"}
      BY <1>5, <3>1, <3>3 DEF Poll, PollInspection, TypeOK
    <3>. QED BY <3>2, <3>3
  <2>3. /\ events' \in Channels
        /\ screen' \in AllScreens
    BY <1>5, BoundsAssumption DEF Poll, PollScan, NoEvents, TypeOK, AllScreens, Channels
  <2>4. /\ verdict' \in Verdicts \cup {"none"} /\ findings' \in Seq(Snapshots)
        /\ scanId' \in 0 .. MaxThreads /\ result' \in Paths \cup {NoTarget}
    <3>1. CASE events.end = "finished"
      <4>1. events.of \in Snapshots
        BY <3>1 DEF ChannelOK
      <4>2. scan[events.of] \in ScanThreads
        BY <4>1 DEF TypeOK, ScanThreads
      <4>3. ResultPath(events.of) \in Paths \cup {NoTarget}
        BY <4>1, <4>2 DEF ResultPath, Paths, ScanThreads
      <4>4. FindingsOf(events.of, scan[events.of].found) \in Seq(Snapshots)
        BY <4>1, <4>2, FindingsOfType DEF ScanThreads
      <4>5. /\ verdict' = scan[events.of].verdict
            /\ findings' = FindingsOf(events.of, scan[events.of].found)
            /\ scanId' = events.of /\ result' = ResultPath(events.of)
        BY <1>5, <3>1 DEF Poll, PollScan
      <4>6. scan[events.of].verdict \in Verdicts \cup {"none"}
        BY <4>2 DEF ScanThreads
      <4>7. events.of \in 0 .. MaxThreads
        BY DEF TypeOK, Channels
      <4>. QED BY <4>3, <4>4, <4>5, <4>6, <4>7
    <3>2. CASE events.end # "finished"
      <4>1. findings' = findings \o FindingsOf(events.of, events.found)
            /\ UNCHANGED <<verdict, scanId, result>>
        BY <1>5, <3>2 DEF Poll, PollScan
      <4>2. CASE events.found = 0
        <5>1. findings' = findings \o FindingsOf(events.of, 0)
          BY <4>1, <4>2
        <5>2. findings \in Seq(Snapshots)
          BY DEF TypeOK
        <5>3. findings' = findings
          BY <5>1, <5>2, NoFindings
        <5>. QED BY <4>1, <5>3 DEF TypeOK
      <4>3. CASE events.found # 0
        <5>1. events.of \in Snapshots
          BY <4>3 DEF ChannelOK
        <5>2. FindingsOf(events.of, events.found) \in Seq(Snapshots)
          BY <5>1, FindingsOfType DEF TypeOK, Channels
        <5>. QED BY <4>1, <5>2 DEF TypeOK
      <4>. QED BY <4>2, <4>3
    <3>. QED BY <3>1, <3>2
  <2>. QED BY <1>5, <2>1, <2>2, <2>3, <2>4 DEF Poll, TypeOK
<1>6. ASSUME Turn PROVE TypeOK'
  BY <1>6 DEF Turn, Turns, AllScreens, TypeOK, SelectionInList, At, vars, lists, results, scans, browser
<1>7. ASSUME EnterManually PROVE TypeOK'
  BY <1>7 DEF EnterManually, TypeOK, SelectionInList, At, vars, lists, results, scans, browser
<1>8. ASSUME ConfirmTyped PROVE TypeOK'
  BY <1>8 DEF ConfirmTyped, AllScreens, Silent, Inspections, TypeOK, SelectionInList, At, vars, lists, results, scans, browser
<1>9. ASSUME CancelTyped PROVE TypeOK'
  BY <1>9 DEF CancelTyped, TypeOK, SelectionInList, At, vars, lists, results, scans, browser
<1>10. ASSUME RefreshKey PROVE TypeOK'
  <2>1. SelectionInList'
    BY <1>10, PresentType, ClampInList DEF RefreshKey, TypeOK, SelectionInList
  <2>. QED BY <1>10, <2>1 DEF RefreshKey, TypeOK, results, scans, browser
<1>11. ASSUME Select PROVE TypeOK'
  <2>1. SelectionInList'
    BY <1>11 DEF Select, TypeOK, SelectionInList
  <2>. QED BY <1>11, <2>1 DEF Select, TypeOK, results, scans, browser
<1>12. ASSUME Choose PROVE TypeOK'
  BY <1>12 DEF Choose, AllScreens, Silent, Inspections, TypeOK, SelectionInList, At, vars, lists, results, scans, browser
<1>13. ASSUME ChooseMode PROVE TypeOK'
  BY <1>13 DEF ChooseMode, TypeOK, SelectionInList, At, vars, lists, results, scans, browser
<1>14. ASSUME LeaveBrowser PROVE TypeOK'
  BY <1>14 DEF LeaveBrowser, AllScreens, Silent, Inspections, TypeOK, SelectionInList, At, vars, lists, results, scans, browser
<1>15. ASSUME OpenTriage PROVE TypeOK'
  BY <1>15 DEF OpenTriage, AllScreens, Silent, Inspections, TypeOK, SelectionInList, At, vars, lists, results, scans, browser
<1>16. ASSUME ReleaseKey PROVE TypeOK'
  <2>1. ReleaseSource \in Paths \cup {NoTarget}
    BY SelectedType DEF ReleaseSource, TypeOK, Paths
  <2>2. output' \in Outputs
    BY <1>16, <2>1 DEF ReleaseKey, TypeOK, Outputs
  <2>. QED BY <1>16, <2>2 DEF ReleaseKey, TypeOK, SelectionInList, lists, results, scans, browser
<1>17. ASSUME ExportReport PROVE TypeOK'
  <2>1. SelectedDevice \in Paths \cup {NoTarget}
    BY SelectedType DEF Paths
  <2>2. output' \in Outputs
    BY <1>17, <2>1 DEF ExportReport, TypeOK, Verdicts, Outputs
  <2>. QED BY <1>17, <2>2 DEF ExportReport, TypeOK, SelectionInList, lists, results, scans, browser
<1>18. ASSUME Quit PROVE TypeOK'
  BY <1>18 DEF Quit, TypeOK, SelectionInList, At, vars, lists, results, scans, browser
<1>19. ASSUME NEW n \in Snapshots, ScanFails(n) PROVE TypeOK'
  <2>1. scan[n] \in ScanThreads
    BY DEF TypeOK, ScanThreads
  <2>3. scan' \in [Snapshots -> ScanThreads]
    <3>1. [scan[n] EXCEPT !.pc = "done"] \in ScanThreads
      BY <2>1, RecordType
    <3>2. scan' = [scan EXCEPT ![n] = [scan[n] EXCEPT !.pc = "done"]]
      BY <1>19 DEF ScanFails
    <3>. QED BY <3>1, <3>2 DEF TypeOK, ScanThreads
  <2>4. events' \in Channels
    <3>1. PICK found \in Warnings(n) : Send(n, found, "failed")
      BY <1>19 DEF ScanFails
    <3>2. found \in Nat
      BY DEF Warnings
    <3>. QED BY <3>1, <3>2, SendType
  <2>. QED BY <1>19, <2>3, <2>4 DEF ScanFails, TypeOK, SelectionInList, ScanThreads, lists, results, browser, scans
<1>20. ASSUME NEW n \in Snapshots, ScanOpens(n) PROVE TypeOK'
  <2>1. scan[n] \in ScanThreads
    BY DEF TypeOK, ScanThreads
  <2>3. scan' \in [Snapshots -> ScanThreads]
    <3>1. Stages(n) \in Nat
      BY BoundsAssumption DEF Stages
    <3>2. \A to \in {"copy", "stages"} :
             [scan[n] EXCEPT !.pc = to, !.left = Stages(n)] \in ScanThreads
      BY <2>1, <3>1 DEF ScanThreads
    <3>3. PICK to \in {"copy", "stages"} :
             scan' = [scan EXCEPT ![n] = [scan[n] EXCEPT !.pc = to, !.left = Stages(n)]]
      BY <1>20 DEF ScanOpens
    <3>. QED BY <3>2, <3>3 DEF TypeOK, ScanThreads
  <2>4. events' \in Channels
    <3>1. PICK found \in Warnings(n) : Send(n, found, "none")
      BY <1>20 DEF ScanOpens
    <3>2. found \in Nat
      BY DEF Warnings
    <3>. QED BY <3>1, <3>2, SendType
  <2>. QED BY <1>20, <2>3, <2>4 DEF ScanOpens, TypeOK, SelectionInList, ScanThreads, lists, results, browser, scans
<1>21. ASSUME NEW n \in Snapshots, ScanCopies(n) PROVE TypeOK'
  <2>1. scan[n] \in ScanThreads
    BY DEF TypeOK, ScanThreads
  <2>3. scan' \in [Snapshots -> ScanThreads]
    <3>1. [scan[n] EXCEPT !.pc = "stages"] \in ScanThreads
      BY <2>1 DEF ScanThreads
    <3>2. scan' = [scan EXCEPT ![n] = [scan[n] EXCEPT !.pc = "stages"]]
      BY <1>21 DEF ScanCopies
    <3>. QED BY <3>1, <3>2 DEF TypeOK, ScanThreads
  <2>4. events' \in Channels
    BY <1>21 DEF ScanCopies, TypeOK
  <2>. QED BY <1>21, <2>3, <2>4 DEF ScanCopies, TypeOK, SelectionInList, Paths, lists, ScanThreads, lists, results, browser, scans
<1>22. ASSUME NEW n \in Snapshots, ScanStage(n) PROVE TypeOK'
  <2>1. scan[n] \in ScanThreads
    BY DEF TypeOK, ScanThreads
  <2>2. PICK found \in 0 .. 1 :
          /\ scan' = [scan EXCEPT ![n].left = scan[n].left - 1,
                                  ![n].found = scan[n].found + found]
          /\ Send(n, found, "none")
    BY <1>22 DEF ScanStage
  <2>3. scan' \in [Snapshots -> ScanThreads]
    <3>1. scan[n].left - 1 \in Nat /\ scan[n].found + found \in Nat
      BY <1>22, <2>1 DEF ScanThreads, ScanStage
    <3>3. [scan[n] EXCEPT !.left = scan[n].left - 1, !.found = scan[n].found + found]
             \in ScanThreads
      BY <2>1, <3>1, RecordType
    <3>2. scan' = [scan EXCEPT ![n] = [scan[n] EXCEPT !.left = scan[n].left - 1,
                                                      !.found = scan[n].found + found]]
      BY <2>2
    <3>. QED BY <3>3, <3>2 DEF TypeOK, ScanThreads
  <2>4. events' \in Channels
    BY <2>2, SendType
  <2>. QED BY <1>22, <2>3, <2>4 DEF ScanStage, TypeOK, SelectionInList, ScanThreads, lists, results, browser, scans
<1>23. ASSUME NEW n \in Snapshots, ScanFinishes(n) PROVE TypeOK'
  <2>1. scan[n] \in ScanThreads
    BY DEF TypeOK, ScanThreads
  <2>2. PICK v \in Outcomes :
          scan' = [scan EXCEPT ![n].pc = "done", ![n].verdict = v]
    BY <1>23 DEF ScanFinishes
  <2>3. scan' \in [Snapshots -> ScanThreads]
    <3>1. [scan[n] EXCEPT !.pc = "done", !.verdict = v] \in ScanThreads
      BY <2>1, BoundsAssumption DEF ScanThreads
    <3>2. scan' = [scan EXCEPT ![n] = [scan[n] EXCEPT !.pc = "done", !.verdict = v]]
      BY <2>2
    <3>. QED BY <3>1, <3>2 DEF TypeOK, ScanThreads
  <2>4. events' \in Channels
    BY <1>23, SendType DEF ScanFinishes
  <2>. QED BY <1>23, <2>3, <2>4 DEF ScanFinishes, TypeOK, SelectionInList, ScanThreads, lists, results, browser, scans
<1>24. ASSUME NEW d \in Drives, PullOut(d) PROVE TypeOK'
  BY <1>24 DEF PullOut, TypeOK, SelectionInList, At, vars, lists, results, scans, browser
<1>25. ASSUME NEW d \in Drives, PlugIn(d) PROVE TypeOK'
  BY <1>25 DEF PlugIn, Paths, Targets, TypeOK, SelectionInList, At, vars, lists, results, scans, browser
<1>26. CASE UNCHANGED vars
  BY <1>26 DEF TypeOK, SelectionInList, At, vars, lists, results, scans, browser
<1>. QED
  BY <1>1, <1>2, <1>3, <1>4, <1>5, <1>6, <1>7, <1>8, <1>9, <1>10, <1>11, <1>12, <1>13, <1>14, <1>15, <1>16, <1>17, <1>18, <1>19, <1>20, <1>21, <1>22, <1>23, <1>24, <1>25, <1>26 DEF Next, ScanThread

-----------------------------------------------------------------------------
(***************************************************************************)
(* Threads and their channel.                                              *)
(***************************************************************************)

\* What a step of a scan thread can do to the rest of the program.
LEMMA ScanMoves ==
    ASSUME TypeOK, NEW n \in Snapshots, ScanThread(n)
    PROVE  /\ scan[n].pc \notin {"none", "done"}
           /\ \A m \in Snapshots : m # n => scan'[m] = scan[m]
           /\ scan'[n].target = scan[n].target /\ scan'[n].mode = scan[n].mode
           /\ scan'[n].pc # "none"
           /\ UNCHANGED <<running, screen, entering, lists, mode, newest, results, browser, output>>
           /\ \/ UNCHANGED events
              \/ /\ n = newest /\ events'.of = n
                 /\ events'.end = "finished" => scan'[n].pc = "done"
<1>. scan \in [Snapshots -> ScanThreads]
  BY DEF TypeOK
<1>0. scan[n] \in ScanThreads
  OBVIOUS
<1>1. CASE ScanFails(n)
  BY <1>0, <1>1 DEF ScanFails, Warnings, Send, ScanThreads
<1>2. CASE ScanOpens(n)
  <2>1. PICK found \in Warnings(n) : Send(n, found, "none")
    BY <1>2 DEF ScanOpens
  <2>2. \/ events' = events
        \/ n = newest /\ events'.of = n /\ events'.end = "none"
    <3>1. CASE n = newest
      <4>1. events' = [of |-> n, found |-> events.found + found, end |-> "none"]
        BY <2>1, <3>1 DEF Send
      <4>. QED BY <3>1, <4>1
    <3>2. CASE n # newest
      BY <2>1, <3>2 DEF Send
    <3>. QED BY <3>1, <3>2
  <2>. QED BY <1>0, <1>2, <2>2 DEF ScanOpens, ScanThreads
<1>3. CASE ScanCopies(n)
  BY <1>0, <1>3 DEF ScanCopies, ScanThreads
<1>4. CASE ScanStage(n)
  BY <1>0, <1>4 DEF ScanStage, Send, ScanThreads
<1>5. CASE ScanFinishes(n)
  BY <1>0, <1>5 DEF ScanFinishes, Send, ScanThreads
<1>. QED BY <1>1, <1>2, <1>3, <1>4, <1>5 DEF ScanThread

\* Threads run for the scans started so far, and only the newest one is heard.
ThreadsOK ==
    /\ \A n \in Snapshots : n > newest => scan[n].pc = "none"
    /\ \A n \in Snapshots : n <= newest => scan[n].target \in Targets
    /\ events.found # 0 \/ events.end # "none" => events.of = newest /\ newest \in Snapshots
    /\ events.end = "finished" => scan[events.of].pc = "done"

\* No thread runs at the start.
LEMMA ThreadsInit == Init => ThreadsOK
  BY BoundsAssumption DEF Init, ThreadsOK, NoEvents, Idle, Snapshots

\* Every step keeps the channel that is heard that of the newest scan.
LEMMA ThreadsStep == TypeOK /\ ThreadsOK /\ [Next]_vars => ThreadsOK'
<1>. SUFFICES ASSUME TypeOK, ThreadsOK, [Next]_vars PROVE ThreadsOK'
  OBVIOUS
<1>. newest \in Nat /\ scan \in [Snapshots -> ScanThreads]
  BY BoundsAssumption DEF TypeOK
<1>1. ASSUME StartScan PROVE ThreadsOK'
  <2>1. ScanTarget \in Targets
    <3>1. ScanTarget \in Targets \cup {NoTarget}
      BY SelectedType, TypedAssumption DEF ScanTarget
    <3>2. NoTarget \notin Paths
      BY TargetsAssumption DEF Paths, Snapshots
    <3>. QED BY <1>1, <3>1, <3>2 DEF StartScan, TypeOK
  <2>2. /\ newest' = newest + 1 /\ events' = NoEvents
        /\ scan' = [scan EXCEPT ![newest + 1] =
                  [pc |-> "start", target |-> ScanTarget, mode |-> mode, left |-> 0,
                   found |-> 0, verdict |-> "none"]]
    BY <1>1 DEF StartScan
  <2>3. \A n \in Snapshots : n # newest + 1 => scan'[n] = scan[n]
    BY <2>2
  <2>4. \A n \in Snapshots : n > newest' => scan'[n].pc = "none"
    BY <2>2, <2>3 DEF ThreadsOK, Snapshots
  <2>5. \A n \in Snapshots : n <= newest' => scan'[n].target \in Targets
    BY <2>1, <2>2, <2>3 DEF ThreadsOK, Snapshots
  <2>. QED BY <2>2, <2>4, <2>5 DEF ThreadsOK, NoEvents
<1>2. ASSUME OpenBrowser PROVE ThreadsOK'
  BY <1>2 DEF OpenBrowser, ThreadsOK, lists, results, scans, browser
<1>3. ASSUME Reinspect PROVE ThreadsOK'
  BY <1>3 DEF Reinspect, ThreadsOK, lists, results, scans, browser
<1>4. ASSUME InspectionAnswers PROVE ThreadsOK'
  BY <1>4 DEF InspectionAnswers, ThreadsOK, lists, results, scans, browser
<1>5. ASSUME Poll PROVE ThreadsOK'
  <2>1. UNCHANGED <<newest, scan>> /\ events' = NoEvents
    BY <1>5 DEF Poll, PollScan
  <2>. QED BY <2>1 DEF ThreadsOK, NoEvents
<1>6. ASSUME Turn PROVE ThreadsOK'
  BY <1>6 DEF Turn, ThreadsOK, lists, results, scans, browser
<1>7. ASSUME EnterManually PROVE ThreadsOK'
  BY <1>7 DEF EnterManually, ThreadsOK, lists, results, scans, browser
<1>8. ASSUME ConfirmTyped PROVE ThreadsOK'
  BY <1>8 DEF ConfirmTyped, ThreadsOK, lists, results, scans, browser
<1>9. ASSUME CancelTyped PROVE ThreadsOK'
  BY <1>9 DEF CancelTyped, ThreadsOK, lists, results, scans, browser
<1>10. ASSUME RefreshKey PROVE ThreadsOK'
  BY <1>10 DEF RefreshKey, ThreadsOK, lists, results, scans, browser
<1>11. ASSUME Select PROVE ThreadsOK'
  BY <1>11 DEF Select, ThreadsOK, lists, results, scans, browser
<1>12. ASSUME Choose PROVE ThreadsOK'
  BY <1>12 DEF Choose, ThreadsOK, lists, results, scans, browser
<1>13. ASSUME ChooseMode PROVE ThreadsOK'
  BY <1>13 DEF ChooseMode, ThreadsOK, lists, results, scans, browser
<1>14. ASSUME LeaveBrowser PROVE ThreadsOK'
  BY <1>14 DEF LeaveBrowser, ThreadsOK, lists, results, scans, browser
<1>15. ASSUME OpenTriage PROVE ThreadsOK'
  BY <1>15 DEF OpenTriage, ThreadsOK, lists, results, scans, browser
<1>16. ASSUME ReleaseKey PROVE ThreadsOK'
  BY <1>16 DEF ReleaseKey, ThreadsOK, lists, results, scans, browser
<1>17. ASSUME ExportReport PROVE ThreadsOK'
  BY <1>17 DEF ExportReport, ThreadsOK, lists, results, scans, browser
<1>18. ASSUME Quit PROVE ThreadsOK'
  BY <1>18 DEF Quit, ThreadsOK, lists, results, scans, browser
<1>19. ASSUME NEW n \in Snapshots, ScanThread(n) PROVE ThreadsOK'
  <2>. /\ scan[n].pc \notin {"none", "done"} /\ scan'[n].pc # "none"
       /\ \A m \in Snapshots : m # n => scan'[m] = scan[m]
       /\ scan'[n].target = scan[n].target /\ newest' = newest
       /\ \/ UNCHANGED events
          \/ /\ n = newest /\ events'.of = n
             /\ events'.end = "finished" => scan'[n].pc = "done"
    BY <1>19, ScanMoves
  <2>1. \A m \in Snapshots : m > newest' => scan'[m].pc = "none"
    BY DEF ThreadsOK
  <2>2. \A m \in Snapshots : m <= newest' => scan'[m].target \in Targets
    BY DEF ThreadsOK
  <2>3. /\ events'.found # 0 \/ events'.end # "none" =>
              events'.of = newest' /\ newest' \in Snapshots
        /\ events'.end = "finished" => scan'[events'.of].pc = "done"
    <3>1. CASE UNCHANGED events
      <4>2. events.end = "finished" => events.of \in Snapshots /\ events.of # n
        BY DEF ThreadsOK
      <4>. QED BY <3>1, <4>2 DEF ThreadsOK
    <3>2. CASE /\ n = newest /\ events'.of = n
               /\ events'.end = "finished" => scan'[n].pc = "done"
      BY <3>2
    <3>. QED BY <3>1, <3>2
  <2>. QED BY <2>1, <2>2, <2>3 DEF ThreadsOK
<1>20. ASSUME NEW d \in Drives, PullOut(d) PROVE ThreadsOK'
  BY <1>20 DEF PullOut, ThreadsOK, lists, results, scans, browser
<1>21. ASSUME NEW d \in Drives, PlugIn(d) PROVE ThreadsOK'
  BY <1>21 DEF PlugIn, ThreadsOK, lists, results, scans, browser
<1>22. CASE UNCHANGED vars
  BY <1>22 DEF vars, ThreadsOK, lists, results, scans, browser
<1>. QED
  BY <1>1, <1>2, <1>3, <1>4, <1>5, <1>6, <1>7, <1>8, <1>9, <1>10, <1>11, <1>12, <1>13, <1>14, <1>15, <1>16, <1>17, <1>18, <1>19, <1>20, <1>21, <1>22 DEF Next

\* Every variable keeps its type, and the selection stays in the list.
THEOREM Typing == Spec => []TypeOK
<1>1. Init => TypeOK /\ ThreadsOK
  BY TypeInit, ThreadsInit
<1>2. TypeOK /\ ThreadsOK /\ [Next]_vars => (TypeOK /\ ThreadsOK)'
  BY TypeStep, ThreadsStep DEF ThreadsOK, ChannelOK
<1>. QED BY <1>1, <1>2, PTL DEF Spec

-----------------------------------------------------------------------------
(***************************************************************************)
(* Results, releases and reports.                                          *)
(***************************************************************************)

\* A shown verdict is that of a scan that is over and has nothing left to say.
ShownOK ==
    verdict # "none" =>
        /\ newest \in Snapshots /\ scan[newest].pc = "done"
        /\ events.end = "none" /\ events.found = 0

\* A release, and a report that says Pass, belong to a scan that is over.
OutputOK ==
    /\ output.kind = "release" =>
         /\ output.id \in Snapshots /\ scan[output.id].pc = "done"
         /\ scan[output.id].verdict = "Pass" /\ output.of = ResultPath(output.id)
    /\ output.kind = "report" /\ output.verdict = "Pass" =>
         /\ output.id \in Snapshots /\ scan[output.id].pc = "done"
         /\ scan[output.id].verdict = "Pass"
         /\ output.findings = FindingsOf(output.id, scan[output.id].found)

ResultsInv == ResultsOfNewest /\ ShownOK /\ OutputOK

\* Nothing is shown at the start.
LEMMA ResultsInit == Init => ResultsInv
  BY DEF Init, ResultsInv, ResultsOfNewest, ShownOK, OutputOK, Nothing

\* A scan that is over keeps what it found and where its result is.
LEMMA DoneStays ==
    ASSUME TypeOK, ThreadsOK, [Next]_vars, NEW m \in Snapshots, scan[m].pc = "done"
    PROVE  scan'[m] = scan[m] /\ ResultPath(m)' = ResultPath(m)
<1>. newest \in Nat /\ scan \in [Snapshots -> ScanThreads]
  BY BoundsAssumption DEF TypeOK
<1>. SUFFICES scan'[m] = scan[m]
  BY DEF ResultPath
<1>1. ASSUME StartScan PROVE scan'[m] = scan[m]
  <2>1. m # newest + 1
    BY DEF ThreadsOK, Snapshots
  <2>. QED BY <1>1, <2>1 DEF StartScan
<1>2. ASSUME OpenBrowser PROVE scan'[m] = scan[m]
  BY <1>2 DEF OpenBrowser, lists, results, scans, browser
<1>3. ASSUME Reinspect PROVE scan'[m] = scan[m]
  BY <1>3 DEF Reinspect, lists, results, scans, browser
<1>4. ASSUME InspectionAnswers PROVE scan'[m] = scan[m]
  BY <1>4 DEF InspectionAnswers, lists, results, scans, browser
<1>5. ASSUME Poll PROVE scan'[m] = scan[m]
  BY <1>5 DEF Poll
<1>6. ASSUME Turn PROVE scan'[m] = scan[m]
  BY <1>6 DEF Turn, lists, results, scans, browser
<1>7. ASSUME EnterManually PROVE scan'[m] = scan[m]
  BY <1>7 DEF EnterManually, lists, results, scans, browser
<1>8. ASSUME ConfirmTyped PROVE scan'[m] = scan[m]
  BY <1>8 DEF ConfirmTyped, lists, results, scans, browser
<1>9. ASSUME CancelTyped PROVE scan'[m] = scan[m]
  BY <1>9 DEF CancelTyped, lists, results, scans, browser
<1>10. ASSUME RefreshKey PROVE scan'[m] = scan[m]
  BY <1>10 DEF RefreshKey, lists, results, scans, browser
<1>11. ASSUME Select PROVE scan'[m] = scan[m]
  BY <1>11 DEF Select, lists, results, scans, browser
<1>12. ASSUME Choose PROVE scan'[m] = scan[m]
  BY <1>12 DEF Choose, lists, results, scans, browser
<1>13. ASSUME ChooseMode PROVE scan'[m] = scan[m]
  BY <1>13 DEF ChooseMode, lists, results, scans, browser
<1>14. ASSUME LeaveBrowser PROVE scan'[m] = scan[m]
  BY <1>14 DEF LeaveBrowser, lists, results, scans, browser
<1>15. ASSUME OpenTriage PROVE scan'[m] = scan[m]
  BY <1>15 DEF OpenTriage, lists, results, scans, browser
<1>16. ASSUME ReleaseKey PROVE scan'[m] = scan[m]
  BY <1>16 DEF ReleaseKey, lists, results, scans, browser
<1>17. ASSUME ExportReport PROVE scan'[m] = scan[m]
  BY <1>17 DEF ExportReport, lists, results, scans, browser
<1>18. ASSUME Quit PROVE scan'[m] = scan[m]
  BY <1>18 DEF Quit, lists, results, scans, browser
<1>19. ASSUME NEW n \in Snapshots, ScanThread(n) PROVE scan'[m] = scan[m]
  BY <1>19, ScanMoves
<1>20. ASSUME NEW d \in Drives, PullOut(d) PROVE scan'[m] = scan[m]
  BY <1>20 DEF PullOut, lists, results, scans, browser
<1>21. ASSUME NEW d \in Drives, PlugIn(d) PROVE scan'[m] = scan[m]
  BY <1>21 DEF PlugIn, lists, results, scans, browser
<1>22. CASE UNCHANGED vars
  BY <1>22 DEF vars, lists, results, scans, browser
<1>. QED
  BY <1>1, <1>2, <1>3, <1>4, <1>5, <1>6, <1>7, <1>8, <1>9, <1>10, <1>11, <1>12, <1>13, <1>14, <1>15, <1>16, <1>17, <1>18, <1>19, <1>20, <1>21, <1>22 DEF Next

\* Every step keeps what is shown that of a scan that is over.
LEMMA ShownStep ==
    TypeOK /\ ThreadsOK /\ ResultsInv /\ [Next]_vars => (ResultsOfNewest /\ ShownOK)'
<1>. SUFFICES ASSUME TypeOK, ThreadsOK, ResultsInv, [Next]_vars
              PROVE  (ResultsOfNewest /\ ShownOK)'
  OBVIOUS
<1>. newest \in Nat /\ scan \in [Snapshots -> ScanThreads] /\ findings \in Seq(Snapshots)
  BY BoundsAssumption DEF TypeOK
<1>. DEFINE Kept == /\ UNCHANGED <<verdict, findings, scanId, result, newest, events>>
                    /\ newest \in Snapshots => scan'[newest] = scan[newest]
<1>a. ASSUME Kept PROVE (ResultsOfNewest /\ ShownOK)'
  BY <1>a DEF ResultsInv, ResultsOfNewest, ShownOK, ResultPath
<1>1. ASSUME StartScan PROVE (ResultsOfNewest /\ ShownOK)'
  BY <1>1 DEF StartScan, ResultsOfNewest, ShownOK
<1>2. ASSUME OpenBrowser PROVE (ResultsOfNewest /\ ShownOK)'
  BY <1>2, <1>a DEF OpenBrowser, lists, results, scans, browser
<1>3. ASSUME Reinspect PROVE (ResultsOfNewest /\ ShownOK)'
  BY <1>3, <1>a DEF Reinspect, lists, results, scans, browser
<1>4. ASSUME InspectionAnswers PROVE (ResultsOfNewest /\ ShownOK)'
  BY <1>4, <1>a DEF InspectionAnswers, lists, results, scans, browser
<1>5. ASSUME Poll PROVE (ResultsOfNewest /\ ShownOK)'
  <2>0. /\ UNCHANGED <<newest, scan>> /\ PollScan
    BY <1>5 DEF Poll
  <2>1. CASE events.end = "finished"
    <3>1. events.of = newest /\ newest \in Snapshots /\ scan[newest].pc = "done"
      BY <2>1 DEF ThreadsOK
    <3>. QED BY <2>0, <2>1, <3>1 DEF PollScan, ResultsOfNewest, ShownOK, NoEvents, ResultPath
  <2>2. CASE events.end # "finished"
    <3>1. /\ UNCHANGED <<verdict, scanId, result>> /\ events' = NoEvents
          /\ findings' = findings \o FindingsOf(events.of, events.found)
      BY <2>0, <2>2 DEF PollScan
    <3>2. verdict # "none" => findings' = findings
      <4>1. verdict # "none" => findings' = findings \o FindingsOf(events.of, 0)
        BY <3>1 DEF ResultsInv, ShownOK
      <4>. QED BY <4>1, NoFindings
    <3>. QED BY <2>0, <3>1, <3>2 DEF ResultsInv, ResultsOfNewest, ShownOK, NoEvents, ResultPath
  <2>. QED BY <2>1, <2>2
<1>6. ASSUME Turn PROVE (ResultsOfNewest /\ ShownOK)'
  BY <1>6, <1>a DEF Turn, lists, results, scans, browser
<1>7. ASSUME EnterManually PROVE (ResultsOfNewest /\ ShownOK)'
  BY <1>7, <1>a DEF EnterManually, lists, results, scans, browser
<1>8. ASSUME ConfirmTyped PROVE (ResultsOfNewest /\ ShownOK)'
  BY <1>8, <1>a DEF ConfirmTyped, lists, results, scans, browser
<1>9. ASSUME CancelTyped PROVE (ResultsOfNewest /\ ShownOK)'
  BY <1>9, <1>a DEF CancelTyped, lists, results, scans, browser
<1>10. ASSUME RefreshKey PROVE (ResultsOfNewest /\ ShownOK)'
  BY <1>10, <1>a DEF RefreshKey, lists, results, scans, browser
<1>11. ASSUME Select PROVE (ResultsOfNewest /\ ShownOK)'
  BY <1>11, <1>a DEF Select, lists, results, scans, browser
<1>12. ASSUME Choose PROVE (ResultsOfNewest /\ ShownOK)'
  BY <1>12, <1>a DEF Choose, lists, results, scans, browser
<1>13. ASSUME ChooseMode PROVE (ResultsOfNewest /\ ShownOK)'
  BY <1>13, <1>a DEF ChooseMode, lists, results, scans, browser
<1>14. ASSUME LeaveBrowser PROVE (ResultsOfNewest /\ ShownOK)'
  BY <1>14, <1>a DEF LeaveBrowser, lists, results, scans, browser
<1>15. ASSUME OpenTriage PROVE (ResultsOfNewest /\ ShownOK)'
  BY <1>15, <1>a DEF OpenTriage, lists, results, scans, browser
<1>16. ASSUME ReleaseKey PROVE (ResultsOfNewest /\ ShownOK)'
  BY <1>16, <1>a DEF ReleaseKey, lists, results, scans, browser
<1>17. ASSUME ExportReport PROVE (ResultsOfNewest /\ ShownOK)'
  BY <1>17, <1>a DEF ExportReport, lists, results, scans, browser
<1>18. ASSUME Quit PROVE (ResultsOfNewest /\ ShownOK)'
  BY <1>18, <1>a DEF Quit, lists, results, scans, browser
<1>19. ASSUME NEW n \in Snapshots, ScanThread(n) PROVE (ResultsOfNewest /\ ShownOK)'
  <2>. /\ scan[n].pc \notin {"none", "done"}
       /\ \A m \in Snapshots : m # n => scan'[m] = scan[m]
       /\ UNCHANGED <<newest, verdict, findings, scanId, result>>
       /\ UNCHANGED events \/ n = newest
    BY <1>19, ScanMoves DEF results
  <2>1. CASE verdict = "none"
    BY <2>1 DEF ResultsOfNewest, ShownOK
  <2>2. CASE verdict # "none"
    <3>1. newest # n /\ newest \in Snapshots
      BY <2>2 DEF ResultsInv, ShownOK
    <3>. QED BY <3>1, <1>a
  <2>. QED BY <2>1, <2>2
<1>20. ASSUME NEW d \in Drives, PullOut(d) PROVE (ResultsOfNewest /\ ShownOK)'
  BY <1>20, <1>a DEF PullOut, lists, results, scans, browser
<1>21. ASSUME NEW d \in Drives, PlugIn(d) PROVE (ResultsOfNewest /\ ShownOK)'
  BY <1>21, <1>a DEF PlugIn, lists, results, scans, browser
<1>22. CASE UNCHANGED vars
  BY <1>22, <1>a DEF vars, lists, results, scans, browser
<1>. QED
  BY <1>1, <1>2, <1>3, <1>4, <1>5, <1>6, <1>7, <1>8, <1>9, <1>10, <1>11, <1>12, <1>13, <1>14, <1>15, <1>16, <1>17, <1>18, <1>19, <1>20, <1>21, <1>22 DEF Next

\* Every step keeps what was exported or released that of the scan it was shown for.
LEMMA OutputStep ==
    TypeOK /\ ThreadsOK /\ ResultsInv /\ [Next]_vars => OutputOK'
<1>. SUFFICES ASSUME TypeOK, ThreadsOK, ResultsInv, [Next]_vars PROVE OutputOK'
  OBVIOUS
<1>b. \A m \in Snapshots : scan[m].pc = "done" => scan'[m] = scan[m]
  BY DoneStays
<1>a. ASSUME UNCHANGED output PROVE OutputOK'
  BY <1>a, <1>b DEF ResultsInv, OutputOK, ResultPath
<1>1. ASSUME StartScan PROVE OutputOK'
  BY <1>1 DEF StartScan, OutputOK, Nothing
<1>2. ASSUME OpenBrowser PROVE OutputOK'
  BY <1>2, <1>a DEF OpenBrowser, lists, results, scans, browser
<1>3. ASSUME Reinspect PROVE OutputOK'
  BY <1>3, <1>a DEF Reinspect, lists, results, scans, browser
<1>4. ASSUME InspectionAnswers PROVE OutputOK'
  BY <1>4, <1>a DEF InspectionAnswers, lists, results, scans, browser
<1>5. ASSUME Poll PROVE OutputOK'
  BY <1>5, <1>a DEF Poll, lists, results, scans, browser
<1>6. ASSUME Turn PROVE OutputOK'
  BY <1>6, <1>a DEF Turn, lists, results, scans, browser
<1>7. ASSUME EnterManually PROVE OutputOK'
  BY <1>7, <1>a DEF EnterManually, lists, results, scans, browser
<1>8. ASSUME ConfirmTyped PROVE OutputOK'
  BY <1>8, <1>a DEF ConfirmTyped, lists, results, scans, browser
<1>9. ASSUME CancelTyped PROVE OutputOK'
  BY <1>9, <1>a DEF CancelTyped, lists, results, scans, browser
<1>10. ASSUME RefreshKey PROVE OutputOK'
  BY <1>10, <1>a DEF RefreshKey, lists, results, scans, browser
<1>11. ASSUME Select PROVE OutputOK'
  BY <1>11, <1>a DEF Select, lists, results, scans, browser
<1>12. ASSUME Choose PROVE OutputOK'
  BY <1>12, <1>a DEF Choose, lists, results, scans, browser
<1>13. ASSUME ChooseMode PROVE OutputOK'
  BY <1>13, <1>a DEF ChooseMode, lists, results, scans, browser
<1>14. ASSUME LeaveBrowser PROVE OutputOK'
  BY <1>14, <1>a DEF LeaveBrowser, lists, results, scans, browser
<1>15. ASSUME OpenTriage PROVE OutputOK'
  BY <1>15, <1>a DEF OpenTriage, lists, results, scans, browser
<1>16. ASSUME ReleaseKey PROVE OutputOK'
  <2>1. /\ newest \in Snapshots /\ scan[newest].pc = "done" /\ scan[newest].verdict = "Pass"
        /\ result = ResultPath(newest)
    BY <1>16 DEF ReleaseKey, ResultsInv, ResultsOfNewest, ShownOK
  <2>2. ResultPath(newest) # NoTarget
    <3>1. newest <= newest /\ newest \in Nat
      BY <2>1 DEF Snapshots
    <3>2. scan[newest].target \in Targets
      BY <2>1, <3>1 DEF ThreadsOK
    <3>. QED BY <3>1, <3>2, TargetsAssumption DEF ResultPath
  <2>3. output' = [kind |-> "release", id |-> newest, of |-> ResultPath(newest),
                   verdict |-> verdict, findings |-> << >>]
    BY <1>16, <2>1, <2>2 DEF ReleaseKey, ReleaseSource
  <2>4. scan'[newest] = scan[newest]
    BY <2>1, <1>b
  <2>. QED BY <2>1, <2>3, <2>4 DEF OutputOK, ResultPath
<1>17. ASSUME ExportReport PROVE OutputOK'
  <2>1. output' = [kind |-> "report", id |-> scanId, of |-> SelectedDevice,
                   verdict |-> IF verdict = "none" THEN "Quarantine" ELSE verdict,
                   findings |-> findings]
    BY <1>17 DEF ExportReport
  <2>2. CASE verdict = "Pass"
    <3>1. /\ newest \in Snapshots /\ scan[newest].pc = "done" /\ scan[newest].verdict = "Pass"
          /\ scanId = newest /\ findings = FindingsOf(newest, scan[newest].found)
      BY <2>2 DEF ResultsInv, ResultsOfNewest, ShownOK
    <3>2. scan'[newest] = scan[newest]
      BY <3>1, <1>b
    <3>. QED BY <2>1, <3>1, <3>2 DEF OutputOK
  <2>3. CASE verdict # "Pass"
    BY <2>1, <2>3 DEF OutputOK
  <2>. QED BY <2>2, <2>3
<1>18. ASSUME Quit PROVE OutputOK'
  BY <1>18, <1>a DEF Quit, lists, results, scans, browser
<1>19. ASSUME NEW n \in Snapshots, ScanThread(n) PROVE OutputOK'
  BY <1>19, <1>a, ScanMoves
<1>20. ASSUME NEW d \in Drives, PullOut(d) PROVE OutputOK'
  BY <1>20, <1>a DEF PullOut, lists, results, scans, browser
<1>21. ASSUME NEW d \in Drives, PlugIn(d) PROVE OutputOK'
  BY <1>21, <1>a DEF PlugIn, lists, results, scans, browser
<1>22. CASE UNCHANGED vars
  BY <1>22, <1>a DEF vars, lists, results, scans, browser
<1>. QED
  BY <1>1, <1>2, <1>3, <1>4, <1>5, <1>6, <1>7, <1>8, <1>9, <1>10, <1>11, <1>12, <1>13, <1>14, <1>15, <1>16, <1>17, <1>18, <1>19, <1>20, <1>21, <1>22 DEF Next

\* Whatever is done with the keys and in whatever order the threads answer, the
\* results shown with a verdict are all that the stages of the scan started last
\* found, and nothing else; only what was judged Pass is released; and a report that
\* says Pass is true of the stages of its scan.
THEOREM ResultsAreOfOneScan ==
    Spec => [](ResultsOfNewest /\ ReleasedPassed /\ PassReportsAreTrue)
<1>1. Init => TypeOK /\ ThreadsOK /\ ResultsInv
  BY TypeInit, ThreadsInit, ResultsInit
<1>2. TypeOK /\ ThreadsOK /\ ResultsInv /\ [Next]_vars => (TypeOK /\ ThreadsOK /\ ResultsInv)'
  BY TypeStep, ThreadsStep, ShownStep, OutputStep DEF ThreadsOK, ChannelOK, ResultsInv
<1>3. ResultsInv => ResultsOfNewest /\ ReleasedPassed /\ PassReportsAreTrue
  <2>1. \A n \in Snapshots : n # 0
    BY DEF Snapshots
  <2>. QED BY <2>1 DEF ResultsInv, OutputOK, ReleasedPassed, PassReportsAreTrue
<1>. QED BY <1>1, <1>2, <1>3, PTL DEF Spec

\* What is released passed, and a report that says Pass is of a scan that passed and
\* has all that the stages of that scan found.
THEOREM OutputsAlwaysTrue == Spec => []OutputsAreTrue
<1>1. ReleasedPassed /\ PassReportsAreTrue => OutputsAreTrue
  BY DEF OutputsAreTrue
<1>. QED BY <1>1, ResultsAreOfOneScan, PTL

-----------------------------------------------------------------------------
(***************************************************************************)
(* The browser and the typed path.                                         *)
(***************************************************************************)

\* The inspection that is listened to is one of the target that is shown.
BrowserInv ==
    /\ ListingOfTarget
    /\ inspection.state # "none" => inspection.target = browsing

\* Every step keeps the listing that of the target named.
LEMMA BrowserStep == TypeOK /\ BrowserInv /\ [Next]_vars => BrowserInv'
<1>. SUFFICES ASSUME TypeOK, BrowserInv, [Next]_vars PROVE BrowserInv'
  OBVIOUS
<1>1. ASSUME StartScan PROVE BrowserInv'
  BY <1>1 DEF StartScan, BrowserInv, ListingOfTarget, lists, results, scans, browser
<1>2. ASSUME OpenBrowser PROVE BrowserInv'
  BY <1>2 DEF OpenBrowser, Open, BrowserInv, ListingOfTarget
<1>3. ASSUME Reinspect PROVE BrowserInv'
  BY <1>3 DEF Reinspect, Open, BrowserInv, ListingOfTarget
<1>4. ASSUME InspectionAnswers PROVE BrowserInv'
  BY <1>4 DEF InspectionAnswers, BrowserInv, ListingOfTarget, TypeOK, Inspections
<1>5. ASSUME Poll PROVE BrowserInv'
  <2>1. browsing' = browsing /\ PollInspection
    BY <1>5 DEF Poll
  <2>. QED BY <2>1 DEF PollInspection, BrowserInv, ListingOfTarget, Silent
<1>6. ASSUME Turn PROVE BrowserInv'
  BY <1>6 DEF Turn, BrowserInv, ListingOfTarget, lists, results, scans, browser
<1>7. ASSUME EnterManually PROVE BrowserInv'
  BY <1>7 DEF EnterManually, BrowserInv, ListingOfTarget, lists, results, scans, browser
<1>8. ASSUME ConfirmTyped PROVE BrowserInv'
  BY <1>8 DEF ConfirmTyped, BrowserInv, ListingOfTarget, lists, results, scans, browser
<1>9. ASSUME CancelTyped PROVE BrowserInv'
  BY <1>9 DEF CancelTyped, BrowserInv, ListingOfTarget, lists, results, scans, browser
<1>10. ASSUME RefreshKey PROVE BrowserInv'
  BY <1>10 DEF RefreshKey, BrowserInv, ListingOfTarget, lists, results, scans, browser
<1>11. ASSUME Select PROVE BrowserInv'
  BY <1>11 DEF Select, BrowserInv, ListingOfTarget, lists, results, scans, browser
<1>12. ASSUME Choose PROVE BrowserInv'
  BY <1>12 DEF Choose, BrowserInv, ListingOfTarget, lists, results, scans, browser
<1>13. ASSUME ChooseMode PROVE BrowserInv'
  BY <1>13 DEF ChooseMode, BrowserInv, ListingOfTarget, lists, results, scans, browser
<1>14. ASSUME LeaveBrowser PROVE BrowserInv'
  BY <1>14 DEF LeaveBrowser, Silent, BrowserInv, ListingOfTarget
<1>15. ASSUME OpenTriage PROVE BrowserInv'
  BY <1>15 DEF OpenTriage, BrowserInv, ListingOfTarget, lists, results, scans, browser
<1>16. ASSUME ReleaseKey PROVE BrowserInv'
  BY <1>16 DEF ReleaseKey, BrowserInv, ListingOfTarget, lists, results, scans, browser
<1>17. ASSUME ExportReport PROVE BrowserInv'
  BY <1>17 DEF ExportReport, BrowserInv, ListingOfTarget, lists, results, scans, browser
<1>18. ASSUME Quit PROVE BrowserInv'
  BY <1>18 DEF Quit, BrowserInv, ListingOfTarget, lists, results, scans, browser
<1>19. ASSUME NEW n \in Snapshots, ScanThread(n) PROVE BrowserInv'
  BY <1>19, ScanMoves DEF BrowserInv, ListingOfTarget, browser
<1>20. ASSUME NEW d \in Drives, PullOut(d) PROVE BrowserInv'
  BY <1>20 DEF PullOut, BrowserInv, ListingOfTarget, lists, results, scans, browser
<1>21. ASSUME NEW d \in Drives, PlugIn(d) PROVE BrowserInv'
  BY <1>21 DEF PlugIn, BrowserInv, ListingOfTarget, lists, results, scans, browser
<1>22. CASE UNCHANGED vars
  BY <1>22 DEF vars, BrowserInv, ListingOfTarget, lists, results, scans, browser
<1>. QED
  BY <1>1, <1>2, <1>3, <1>4, <1>5, <1>6, <1>7, <1>8, <1>9, <1>10, <1>11, <1>12, <1>13, <1>14, <1>15, <1>16, <1>17, <1>18, <1>19, <1>20, <1>21, <1>22 DEF Next

\* The files listed are those of the target that is named, and nothing is loading
\* that no thread will end.
THEOREM BrowserIsRight == Spec => []ListingOfTarget
<1>1. Init => BrowserInv
  BY DEF Init, BrowserInv, ListingOfTarget, Silent
<1>2. BrowserInv => ListingOfTarget
  BY DEF BrowserInv
<1>. QED BY <1>1, <1>2, BrowserStep, Typing, PTL DEF Spec

\* Every step leaves no typed path behind.
LEMMA TypingStep == TypeOK /\ TypingIsOver /\ [Next]_vars => TypingIsOver'
<1>. SUFFICES ASSUME TypeOK, TypingIsOver, [Next]_vars PROVE TypingIsOver'
  OBVIOUS
<1>1. ASSUME StartScan PROVE TypingIsOver'
  BY <1>1 DEF StartScan, At, TypingIsOver, lists, results, scans, browser
<1>2. ASSUME OpenBrowser PROVE TypingIsOver'
  BY <1>2 DEF OpenBrowser, Open, At, TypingIsOver
<1>3. ASSUME Reinspect PROVE TypingIsOver'
  BY <1>3 DEF Reinspect, Open, At, TypingIsOver
<1>4. ASSUME InspectionAnswers PROVE TypingIsOver'
  BY <1>4 DEF InspectionAnswers, At, TypingIsOver, lists, results, scans, browser
<1>5. ASSUME Poll PROVE TypingIsOver'
  BY <1>5 DEF Poll, PollScan, TypingIsOver
<1>6. ASSUME Turn PROVE TypingIsOver'
  BY <1>6 DEF Turn, Turns, TypingIsOver
<1>7. ASSUME EnterManually PROVE TypingIsOver'
  BY <1>7 DEF EnterManually, At, TypingIsOver, lists, results, scans, browser
<1>8. ASSUME ConfirmTyped PROVE TypingIsOver'
  BY <1>8 DEF ConfirmTyped, At, TypingIsOver, lists, results, scans, browser
<1>9. ASSUME CancelTyped PROVE TypingIsOver'
  BY <1>9 DEF CancelTyped, At, TypingIsOver, lists, results, scans, browser
<1>10. ASSUME RefreshKey PROVE TypingIsOver'
  BY <1>10 DEF RefreshKey, At, TypingIsOver, lists, results, scans, browser
<1>11. ASSUME Select PROVE TypingIsOver'
  BY <1>11 DEF Select, At, TypingIsOver, lists, results, scans, browser
<1>12. ASSUME Choose PROVE TypingIsOver'
  BY <1>12 DEF Choose, At, TypingIsOver, lists, results, scans, browser
<1>13. ASSUME ChooseMode PROVE TypingIsOver'
  BY <1>13 DEF ChooseMode, At, TypingIsOver, lists, results, scans, browser
<1>14. ASSUME LeaveBrowser PROVE TypingIsOver'
  BY <1>14 DEF LeaveBrowser, At, TypingIsOver, lists, results, scans, browser
<1>15. ASSUME OpenTriage PROVE TypingIsOver'
  BY <1>15 DEF OpenTriage, At, TypingIsOver, lists, results, scans, browser
<1>16. ASSUME ReleaseKey PROVE TypingIsOver'
  BY <1>16 DEF ReleaseKey, At, TypingIsOver, lists, results, scans, browser
<1>17. ASSUME ExportReport PROVE TypingIsOver'
  BY <1>17 DEF ExportReport, At, TypingIsOver, lists, results, scans, browser
<1>18. ASSUME Quit PROVE TypingIsOver'
  BY <1>18 DEF Quit, At, TypingIsOver, lists, results, scans, browser
<1>19. ASSUME NEW n \in Snapshots, ScanThread(n) PROVE TypingIsOver'
  BY <1>19, ScanMoves DEF TypingIsOver
<1>20. ASSUME NEW d \in Drives, PullOut(d) PROVE TypingIsOver'
  BY <1>20 DEF PullOut, At, TypingIsOver, lists, results, scans, browser
<1>21. ASSUME NEW d \in Drives, PlugIn(d) PROVE TypingIsOver'
  BY <1>21 DEF PlugIn, At, TypingIsOver, lists, results, scans, browser
<1>22. CASE UNCHANGED vars
  BY <1>22 DEF vars, At, TypingIsOver, lists, results, scans, browser
<1>. QED
  BY <1>1, <1>2, <1>3, <1>4, <1>5, <1>6, <1>7, <1>8, <1>9, <1>10, <1>11, <1>12, <1>13, <1>14, <1>15, <1>16, <1>17, <1>18, <1>19, <1>20, <1>21, <1>22 DEF Next

\* Past the first screen nothing is being typed, so start_scan never takes the
\* typed path.
THEOREM TypedIsNeverScanned == Spec => []TypingIsOver
<1>1. Init => TypingIsOver
  BY DEF Init, TypingIsOver
<1>. QED BY <1>1, TypingStep, Typing, PTL DEF Spec

-----------------------------------------------------------------------------
(***************************************************************************)
(* The store of suppressions: type correctness.                            *)
(***************************************************************************)

\* The types hold at the start.
LEMMA StoreTypeInit == StoreInit => StoreTypeOK
<1>. SUFFICES ASSUME StoreInit PROVE StoreTypeOK
  OBVIOUS
<1>1. file \in [state : States, sups : SUBSET Ids]
      /\ (file.state # "whole" => file.sups = {})
  BY DEF StoreInit, States, Ids
<1>. QED BY <1>1 DEF StoreInit, StoreTypeOK

\* What may be stored consists of suppressions.
LEMMA StoredIs == ASSUME StoreTypeOK, NEW p \in Procs
                  PROVE  Stored \subseteq Ids /\ loaded[p] \subseteq Ids /\ p \in Ids
BY DEF StoreTypeOK, Stored, Ids

\* Every step keeps the types.
LEMMA StoreTypeStep == StoreTypeOK /\ [StoreNext]_storeVars => StoreTypeOK'
<1>. SUFFICES ASSUME StoreTypeOK, [StoreNext]_storeVars PROVE StoreTypeOK'
  OBVIOUS
<1>0. ASSUME NEW p \in Procs PROVE Overlapping(p) \subseteq Ids
  BY DEF Overlapping, Ids
<1>1. ASSUME NEW p \in Procs, Load(p) PROVE StoreTypeOK'
  BY <1>0, <1>1 DEF StoreTypeOK, Load, Goto
<1>2. ASSUME NEW p \in Procs, LoadFails(p) PROVE StoreTypeOK'
  BY <1>0, <1>2, StoredIs DEF StoreTypeOK, LoadFails, Goto
<1>3. ASSUME NEW p \in Procs, Refuse(p) \/ Add(p) PROVE StoreTypeOK'
  BY <1>3 DEF StoreTypeOK, Refuse, Add, Goto
<1>4. ASSUME NEW p \in Procs, OpenStore(p) PROVE StoreTypeOK'
  <2>1. risk' \subseteq Ids
    BY <1>4, StoredIs DEF StoreTypeOK, OpenStore
  <2>2. file' \in [state : States, sups : SUBSET Ids] /\ file'.sups = {}
    BY <1>4 DEF OpenStore, States
  <2>. QED BY <1>4, <2>1, <2>2 DEF StoreTypeOK, OpenStore, Goto
<1>5. ASSUME NEW p \in Procs, WriteStore(p) PROVE StoreTypeOK'
  <2>1. file' \in [state : States, sups : SUBSET Ids] /\ (file'.state # "whole" => file'.sups = {})
    BY <1>5, StoredIs DEF WriteStore, States
  <2>. QED BY <1>5, <2>1 DEF StoreTypeOK, WriteStore, Goto
<1>6. ASSUME NEW p \in Procs, SaveFails(p) \/ Crash(p) PROVE StoreTypeOK'
  BY <1>6, StoredIs DEF StoreTypeOK, SaveFails, Crash, Goto
<1>7. ASSUME NEW p \in Procs, Log(p) PROVE StoreTypeOK'
  BY <1>7 DEF StoreTypeOK, Log, Goto
<1>8. CASE UNCHANGED storeVars
  BY <1>8 DEF StoreTypeOK, storeVars
<1>. QED BY <1>1, <1>2, <1>3, <1>4, <1>5, <1>6, <1>7, <1>8 DEF StoreNext

\* Every state is well typed, and only a whole store holds anything.
THEOREM StoreTypeCorrect == StoreSpec => []StoreTypeOK
BY StoreTypeInit, StoreTypeStep, PTL DEF StoreSpec

-----------------------------------------------------------------------------
(***************************************************************************)
(* No acknowledged suppression is lost but for the faults that are named.  *)
(***************************************************************************)

\* What is in the store or comes back with a process that is writing.
Kept == file.sups \cup UNION {loaded[p] : p \in {q \in Procs : Writing(q)}}

Holding(p) == pc[p] \in {"loaded", "save"}

\* Two processes that have the store in hand at a time have overlapped.
OverlapIsRisk == \A p, q \in Procs : p # q /\ Pending(p) /\ Pending(q) => p \in risk

\* Two processes that write at a time may lose all they have in hand, and a process
\* that finds the store filled while it writes, all that is in it.
WritersAreRisk ==
    \A p \in Procs : Writing(p) =>
        /\ (\E q \in Procs \ {p} : Writing(q)) => loaded[p] \cup {p} \subseteq risk
        /\ file.state # "empty" => file.sups \cup loaded[p] \cup {p} \subseteq risk

\* Whoever is to rewrite the store has in hand exactly what is kept.
HoldersAgree ==
    /\ \A p \in Procs : Holding(p) => Kept \ risk \subseteq loaded[p]
    /\ \A p \in Procs : Pending(p) => loaded[p] \ risk \subseteq Kept

AckedIsKept == Acknowledged \ risk \subseteq Kept

StoreInv == OverlapIsRisk /\ WritersAreRisk /\ HoldersAgree /\ AckedIsKept

\* What is kept is exposed to the next fault.
LEMMA KeptIsStored == Kept \subseteq Stored /\ \A p \in Procs : Writing(p) => loaded[p] \subseteq Kept
BY DEF Kept, Stored

\* At the start what is in the store is kept.
LEMMA StoreInvInit == StoreInit => StoreInv
<1>. SUFFICES ASSUME StoreInit PROVE StoreInv
  OBVIOUS
<1>1. \A p \in Procs : ~Pending(p) /\ ~Writing(p) /\ ~Holding(p)
  BY DEF StoreInit, Pending, Writing, Holding
<1>2. Acknowledged = Old /\ file.sups = Old
  BY DEF StoreInit, Acknowledged
<1>. QED BY <1>1, <1>2 DEF StoreInv, OverlapIsRisk, WritersAreRisk, HoldersAgree, AckedIsKept, Kept

\* A step that drops nothing from what is kept but risks, and takes nothing new in hand.
LEMMA StoreStays ==
    ASSUME StoreInv, NEW p \in Procs, risk \subseteq risk',
           Kept' \subseteq Kept, Kept \ risk' \subseteq Kept',
           \A q \in Procs : /\ Holding(q)' => Holding(q)
                            /\ Pending(q)' => Pending(q)
                            /\ loaded'[q] = loaded[q],
           Acknowledged' \subseteq Acknowledged
    PROVE  OverlapIsRisk' /\ HoldersAgree' /\ AckedIsKept'
<1>1. OverlapIsRisk'
  BY DEF StoreInv, OverlapIsRisk
<1>2. HoldersAgree'
  <2>1. ASSUME NEW q \in Procs, Holding(q)' PROVE Kept' \ risk' \subseteq loaded'[q]
    BY <2>1 DEF StoreInv, HoldersAgree
  <2>2. ASSUME NEW q \in Procs, Pending(q)' PROVE loaded'[q] \ risk' \subseteq Kept'
    BY <2>2 DEF StoreInv, HoldersAgree
  <2>. QED BY <2>1, <2>2 DEF HoldersAgree
<1>3. AckedIsKept'
  BY DEF StoreInv, AckedIsKept
<1>. QED BY <1>1, <1>2, <1>3

\* A process that takes the store in hand has in hand what is kept.
LEMMA LoadStep ==
    ASSUME StoreTypeOK, StoreInv, NEW p \in Procs, pc[p] = "idle", Goto(p, "loaded"), UNCHANGED file,
           NEW sups \in SUBSET Ids, loaded' = [loaded EXCEPT ![p] = sups],
           risk \cup Overlapping(p) \subseteq risk',
           Kept \ risk' \subseteq sups, sups \subseteq Kept
    PROVE  StoreInv'
<1>1. /\ pc' = [pc EXCEPT ![p] = "loaded"]
      /\ pc \in [Procs -> {"idle", "loaded", "save", "write", "log", "added", "error"}]
      /\ loaded'[p] = sups /\ \A q \in Procs \ {p} : loaded'[q] = loaded[q]
  BY DEF Goto, StoreTypeOK
<1>2. /\ \A q \in Procs : Writing(q)' <=> Writing(q)
      /\ \A q \in Procs \ {p} : (Pending(q)' <=> Pending(q)) /\ (Holding(q)' <=> Holding(q))
      /\ ~Writing(p) /\ Pending(p)'
  BY <1>1 DEF Writing, Pending, Holding
<1>3. Kept' = Kept
  BY <1>1, <1>2 DEF Kept
<1>4. OverlapIsRisk'
  <2>1. ASSUME NEW q \in Procs \ {p}, Pending(q) PROVE q \in risk' /\ p \in risk'
    BY <2>1 DEF Overlapping
  <2>. QED BY <1>2, <2>1 DEF StoreInv, OverlapIsRisk
<1>5. WritersAreRisk'
  BY <1>1, <1>2 DEF StoreInv, WritersAreRisk
<1>6. HoldersAgree'
  <2>1. ASSUME NEW q \in Procs, Holding(q)' PROVE Kept \ risk' \subseteq loaded'[q]
    BY <1>1, <1>2, <2>1 DEF StoreInv, HoldersAgree
  <2>2. ASSUME NEW q \in Procs, Pending(q)' PROVE loaded'[q] \ risk' \subseteq Kept
    BY <1>1, <1>2, <2>2 DEF StoreInv, HoldersAgree
  <2>. QED BY <1>3, <2>1, <2>2 DEF HoldersAgree
<1>7. AckedIsKept'
  <2>1. Acknowledged' = Acknowledged
    BY <1>1 DEF Acknowledged
  <2>. QED BY <1>3, <2>1 DEF StoreInv, AckedIsKept
<1>. QED BY <1>4, <1>5, <1>6, <1>7 DEF StoreInv

\* The store is emptied: what was in it is with the writer, or at risk.
LEMMA OpenStep == ASSUME StoreTypeOK, StoreInv, NEW p \in Procs, OpenStore(p) PROVE StoreInv'
<1>1. /\ pc[p] = "save" /\ pc' = [pc EXCEPT ![p] = "write"]
      /\ file'.state = "empty" /\ file'.sups = {} /\ loaded' = loaded
      /\ pc \in [Procs -> {"idle", "loaded", "save", "write", "log", "added", "error"}]
  BY DEF OpenStore, Goto, StoreTypeOK
<1>2. /\ \A q \in Procs : Writing(q)' <=> (Writing(q) \/ q = p)
      /\ \A q \in Procs : (Pending(q)' => Pending(q)) /\ (Holding(q)' => Holding(q))
      /\ Holding(p) /\ Pending(p) /\ ~Writing(p)
  BY <1>1 DEF Writing, Pending, Holding
<1>3. Acknowledged' = Acknowledged
  BY <1>1 DEF Acknowledged
<1>4. CASE \E q \in Procs : Writing(q)
  <2>1. risk' = risk \cup Stored \cup loaded[p] \cup {p}
    BY <1>4 DEF OpenStore
  <2>2. Kept \subseteq risk' /\ Kept' \subseteq risk'
    <3>1. Kept \subseteq risk'
      BY <2>1, KeptIsStored
    <3>2. Kept' = UNION {loaded[q] : q \in {r \in Procs : Writing(r) \/ r = p}}
      BY <1>1, <1>2 DEF Kept
    <3>. QED BY <2>1, <3>1, <3>2, KeptIsStored
  <2>3. WritersAreRisk'
    <3>1. ASSUME NEW q \in Procs, Writing(q) PROVE loaded[q] \cup {q} \subseteq Stored
      BY <3>1 DEF Stored
    <3>. QED BY <1>1, <1>2, <2>1, <3>1 DEF WritersAreRisk
  <2>4. OverlapIsRisk'
    BY <1>2, <2>1 DEF StoreInv, OverlapIsRisk
  <2>5. HoldersAgree'
    <3>1. ASSUME NEW q \in Procs, Pending(q)' PROVE loaded'[q] \ risk' \subseteq Kept'
      BY <1>1, <1>2, <2>1, <2>2, <3>1 DEF StoreInv, HoldersAgree
    <3>. QED BY <2>2, <3>1 DEF HoldersAgree
  <2>6. AckedIsKept'
    BY <1>3, <2>1, <2>2 DEF StoreInv, AckedIsKept
  <2>. QED BY <2>3, <2>4, <2>5, <2>6 DEF StoreInv
<1>5. CASE ~\E q \in Procs : Writing(q)
  <2>1. risk' = risk
    BY <1>5 DEF OpenStore
  <2>2. Kept' = loaded[p] /\ Kept = file.sups
    BY <1>1, <1>2, <1>5 DEF Kept
  <2>3. Kept \ risk \subseteq loaded[p] /\ loaded[p] \ risk \subseteq Kept
    BY <1>2 DEF StoreInv, HoldersAgree
  <2>4. WritersAreRisk'
    BY <1>1, <1>2, <1>5 DEF WritersAreRisk
  <2>5. OverlapIsRisk'
    BY <1>2, <2>1 DEF StoreInv, OverlapIsRisk
  <2>6. HoldersAgree'
    <3>1. ASSUME NEW q \in Procs, Holding(q)' PROVE Kept' \ risk \subseteq loaded'[q]
      BY <1>1, <1>2, <2>2, <2>3, <3>1 DEF StoreInv, HoldersAgree
    <3>2. ASSUME NEW q \in Procs, Pending(q)' PROVE loaded'[q] \ risk \subseteq Kept'
      BY <1>1, <1>2, <2>2, <2>3, <3>2 DEF StoreInv, HoldersAgree
    <3>. QED BY <2>1, <3>1, <3>2 DEF HoldersAgree
  <2>7. AckedIsKept'
    BY <1>3, <2>1, <2>2, <2>3 DEF StoreInv, AckedIsKept
  <2>. QED BY <2>4, <2>5, <2>6, <2>7 DEF StoreInv
<1>. QED BY <1>4, <1>5

\* The store is filled: what the writer had in hand is in it.
LEMMA WriteStep == ASSUME StoreTypeOK, StoreInv, NEW p \in Procs, WriteStore(p) PROVE StoreInv'
<1>1. /\ pc[p] = "write" /\ risk' = risk /\ loaded' = loaded
      /\ \/ file'.state = "whole" /\ file'.sups = loaded[p] \cup {p}
         \/ file'.state = "torn" /\ file.state # "empty" /\ file'.sups = {}
      /\ \/ pc' = [pc EXCEPT ![p] = "log"]
         \/ pc' = [pc EXCEPT ![p] = "added"]
      /\ pc \in [Procs -> {"idle", "loaded", "save", "write", "log", "added", "error"}]
      /\ file.state # "whole" => file.sups = {}
  <2>1. /\ pc[p] = "write" /\ risk' = risk /\ loaded' = loaded
        /\ \/ pc' = [pc EXCEPT ![p] = "log"]
           \/ pc' = [pc EXCEPT ![p] = "added"]
    BY DEF WriteStore, Goto
  <2>2. \/ file'.state = "whole" /\ file'.sups = loaded[p] \cup {p}
        \/ file'.state = "torn" /\ file.state # "empty" /\ file'.sups = {}
    BY DEF WriteStore
  <2>. QED BY <2>1, <2>2 DEF StoreTypeOK
<1>2. /\ \A q \in Procs : Writing(q)' <=> (Writing(q) /\ q # p)
      /\ \A q \in Procs : Pending(q)' <=> (Pending(q) /\ q # p)
      /\ \A q \in Procs : Holding(q)' <=> Holding(q)
      /\ Pending(p) /\ Writing(p) /\ ~Holding(p)
      /\ \A q \in Procs : Holding(q) => Pending(q)
  BY <1>1 DEF Writing, Pending, Holding
<1>3. Acknowledged' \subseteq Acknowledged \cup {p}
  BY <1>1 DEF Acknowledged
<1>4. Kept = file.sups \cup loaded[p] \cup UNION {loaded[q] : q \in {r \in Procs : Writing(r) /\ r # p}}
  BY <1>2 DEF Kept
<1>5. Kept' = file'.sups \cup UNION {loaded[q] : q \in {r \in Procs : Writing(r) /\ r # p}}
  BY <1>1, <1>2 DEF Kept
<1>6. /\ file.state # "empty" => file.sups \cup loaded[p] \cup {p} \subseteq risk
      /\ file.state = "empty" => file.sups = {}
  BY <1>1, <1>2 DEF StoreInv, WritersAreRisk
<1>7. (Kept \cup {p}) \ risk \subseteq Kept'
  BY <1>1, <1>4, <1>5, <1>6
<1>8. Kept' \subseteq Kept \cup {p}
  BY <1>1, <1>4, <1>5
<1>9. OverlapIsRisk'
  BY <1>1, <1>2 DEF StoreInv, OverlapIsRisk
<1>10. WritersAreRisk'
  <2>1. ASSUME NEW q \in Procs, Writing(q)'
        PROVE  loaded[q] \cup {q} \subseteq risk /\ loaded[p] \cup {p} \subseteq risk
    BY <1>2, <2>1 DEF StoreInv, WritersAreRisk
  <2>. QED BY <1>1, <2>1 DEF WritersAreRisk
<1>11. HoldersAgree'
  <2>1. ASSUME NEW q \in Procs, Holding(q)' PROVE Kept' \ risk \subseteq loaded'[q]
    <3>1. Holding(q) /\ q # p /\ p \in risk
      BY <1>2, <2>1 DEF StoreInv, OverlapIsRisk
    <3>. QED BY <1>1, <1>8, <3>1 DEF StoreInv, HoldersAgree
  <2>2. ASSUME NEW q \in Procs, Pending(q)' PROVE loaded'[q] \ risk \subseteq Kept'
    BY <1>1, <1>2, <1>7, <2>2 DEF StoreInv, HoldersAgree
  <2>. QED BY <1>1, <2>1, <2>2 DEF HoldersAgree
<1>12. AckedIsKept'
  BY <1>1, <1>3, <1>7 DEF StoreInv, AckedIsKept
<1>. QED BY <1>9, <1>10, <1>11, <1>12 DEF StoreInv

\* A process that ends with the store open leaves what it had in hand at risk.
LEMMA EndStep ==
    ASSUME StoreTypeOK, StoreInv, NEW p \in Procs, Goto(p, "error"), UNCHANGED <<file, loaded>>,
           risk' = IF Writing(p) THEN risk \cup loaded[p] \cup {p} ELSE risk
    PROVE  StoreInv'
<1>1. /\ pc' = [pc EXCEPT ![p] = "error"] /\ risk \subseteq risk'
      /\ pc \in [Procs -> {"idle", "loaded", "save", "write", "log", "added", "error"}]
  BY DEF Goto, StoreTypeOK
<1>2. /\ \A q \in Procs : Writing(q)' <=> (Writing(q) /\ q # p)
      /\ \A q \in Procs : (Pending(q)' => Pending(q)) /\ (Holding(q)' => Holding(q))
  BY <1>1 DEF Writing, Pending, Holding
<1>3. Acknowledged' \subseteq Acknowledged
  BY <1>1 DEF Acknowledged
<1>4. Kept' = file.sups \cup UNION {loaded[q] : q \in {r \in Procs : Writing(r) /\ r # p}}
  BY <1>2 DEF Kept
<1>5. Kept' \subseteq Kept
  BY <1>4 DEF Kept
<1>6. Kept \ risk' \subseteq Kept'
  <2>1. ASSUME NEW s \in Kept, s \notin risk' PROVE s \in Kept'
    <3>1. s \in file.sups \/ \E q \in Procs : Writing(q) /\ s \in loaded[q]
      BY <2>1 DEF Kept
    <3>2. Writing(p) => s \notin loaded[p]
      BY <2>1
    <3>. QED BY <1>4, <3>1, <3>2
  <2>. QED BY <2>1
<1>7. WritersAreRisk'
  BY <1>1, <1>2 DEF StoreInv, WritersAreRisk
<1>8. OverlapIsRisk' /\ HoldersAgree' /\ AckedIsKept'
  BY <1>1, <1>2, <1>3, <1>5, <1>6, StoreStays
<1>. QED BY <1>7, <1>8 DEF StoreInv

\* Every step loses nothing that is not at risk.
LEMMA StoreStep == StoreTypeOK /\ StoreInv /\ [StoreNext]_storeVars => StoreInv'
<1>. SUFFICES ASSUME StoreTypeOK, StoreInv, [StoreNext]_storeVars PROVE StoreInv'
  OBVIOUS
<1>1. ASSUME NEW p \in Procs, Load(p) PROVE StoreInv'
  <2>1. /\ pc[p] = "idle" /\ file.state # "empty" /\ file.sups \in SUBSET Ids
        /\ Goto(p, "loaded") /\ UNCHANGED file /\ loaded' = [loaded EXCEPT ![p] = file.sups]
        /\ risk' = risk \cup Overlapping(p)
    BY <1>1 DEF Load, StoreTypeOK
  <2>2. Kept \ risk \subseteq file.sups /\ file.sups \subseteq Kept
    BY <2>1 DEF Kept, StoreInv, WritersAreRisk
  <2>. QED BY <2>1, <2>2, LoadStep
<1>2. ASSUME NEW p \in Procs, LoadFails(p) PROVE StoreInv'
  <2>1. CASE Goto(p, "error") /\ UNCHANGED <<loaded, risk>>
    <3>1. ~Writing(p)
      BY <1>2 DEF LoadFails, Writing
    <3>. QED BY <1>2, <2>1, <3>1, EndStep DEF LoadFails
  <2>2. CASE /\ Goto(p, "loaded") /\ loaded' = [loaded EXCEPT ![p] = {}]
             /\ risk' = risk \cup Overlapping(p) \cup Stored
    <3>1. Kept \ risk' \subseteq {} /\ {} \in SUBSET Ids
      BY <2>2, KeptIsStored
    <3>. QED BY <1>2, <2>2, <3>1, LoadStep DEF LoadFails
  <2>. QED BY <1>2, <2>1, <2>2 DEF LoadFails
<1>3. ASSUME NEW p \in Procs, Refuse(p) PROVE StoreInv'
  <2>1. ~Writing(p)
    BY <1>3 DEF Refuse, Writing
  <2>. QED BY <1>3, <2>1, EndStep DEF Refuse
<1>4. ASSUME NEW p \in Procs, Add(p) \/ Log(p) PROVE StoreInv'
  <2>1. /\ UNCHANGED <<file, loaded, risk>>
        /\ \/ pc[p] = "loaded" /\ pc' = [pc EXCEPT ![p] = "save"]
           \/ pc[p] = "log" /\ pc' = [pc EXCEPT ![p] = "added"]
        /\ pc \in [Procs -> {"idle", "loaded", "save", "write", "log", "added", "error"}]
    BY <1>4 DEF Add, Log, Goto, StoreTypeOK
  <2>2. /\ \A q \in Procs : Writing(q)' <=> Writing(q)
        /\ \A q \in Procs : (Pending(q)' <=> Pending(q)) /\ (Holding(q)' <=> Holding(q))
    BY <2>1 DEF Writing, Pending, Holding
  <2>3. Acknowledged' = Acknowledged
    BY <2>1 DEF Acknowledged
  <2>4. Kept' = Kept
    BY <2>1, <2>2 DEF Kept
  <2>. QED BY <2>1, <2>2, <2>3, <2>4
           DEF StoreInv, OverlapIsRisk, WritersAreRisk, HoldersAgree, AckedIsKept
<1>5. ASSUME NEW p \in Procs, OpenStore(p) PROVE StoreInv'
  BY <1>5, OpenStep
<1>6. ASSUME NEW p \in Procs, WriteStore(p) PROVE StoreInv'
  BY <1>6, WriteStep
<1>7. ASSUME NEW p \in Procs, SaveFails(p) \/ Crash(p) PROVE StoreInv'
  BY <1>7, EndStep DEF SaveFails, Crash
<1>8. CASE UNCHANGED storeVars
  <2>1. /\ \A q \in Procs : Writing(q)' <=> Writing(q)
        /\ \A q \in Procs : (Pending(q)' <=> Pending(q)) /\ (Holding(q)' <=> Holding(q))
        /\ UNCHANGED <<file, loaded, risk, pc>>
    BY <1>8 DEF storeVars, Writing, Pending, Holding
  <2>2. Acknowledged' = Acknowledged /\ Kept' = Kept
    BY <2>1 DEF Acknowledged, Kept
  <2>. QED BY <2>1, <2>2
           DEF StoreInv, OverlapIsRisk, WritersAreRisk, HoldersAgree, AckedIsKept
<1>. QED BY <1>1, <1>2, <1>3, <1>4, <1>5, <1>6, <1>7, <1>8 DEF StoreNext

\* However many commands and terminal interfaces load, extend and rewrite the
\* suppressions, one that was acknowledged is lost only when two processes overlap,
\* one ends with the store open, or the store cannot be loaded.
THEOREM AddedAlwaysKept == StoreSpec => []AddedIsKept
<1>1. StoreInv => AddedIsKept
  BY DEF StoreInv, AckedIsKept, AddedIsKept, Kept
<1>. QED BY <1>1, StoreInvInit, StoreStep, StoreTypeCorrect, PTL DEF StoreSpec

-----------------------------------------------------------------------------
(***************************************************************************)
(* A suppression matches what it was filed for.                            *)
(***************************************************************************)

\* A path used as a pattern matches itself, stars and all.
LEMMA PathMatchesItself ==
    ASSUME NEW path \in Texts, Trim(path) = path
    PROVE  PathMatches(path, path)
<1>1. path \in Seq(STRING) /\ path # NoText /\ Len(path) \in Nat
  BY TextAssumption
<1>2. SubSeq(path, 1, Len(path)) = path
  BY <1>1
<1>3. CASE Len(path) > 0 /\ path[1] = Star
  <2>1. SubSeq(path, 2, Len(path)) = Tail(path) /\ 2 \in 1 .. Len(path) + 1
    BY <1>1, <1>3
  <2>2. EndsWith(path, Tail(path))
    BY <2>1 DEF EndsWith
  <2>. QED BY <1>1, <1>3, <2>2 DEF PathMatches
<1>4. CASE ~(Len(path) > 0 /\ path[1] = Star) /\ Len(path) > 0 /\ path[Len(path)] = Star
  <2>1. Len(path) - 1 \in 0 .. Len(path)
    BY <1>1, <1>4
  <2>2. StartsWith(path, SubSeq(path, 1, Len(path) - 1))
    BY <2>1 DEF StartsWith
  <2>. QED BY <1>1, <1>4, <2>2 DEF PathMatches
<1>5. CASE ~(Len(path) > 0 /\ path[1] = Star) /\ ~(Len(path) > 0 /\ path[Len(path)] = Star)
  <2>1. StartsWith(path, path)
    <3>1. Len(path) \in 0 .. Len(path)
      BY <1>1
    <3>. QED BY <1>2, <3>1 DEF StartsWith
  <2>2. Contains(path, path)
    <3>1. 1 \in 1 .. Len(path) + 1
      BY <1>1
    <3>. QED BY <1>2, <2>1, <3>1 DEF Contains
  <2>. QED BY <1>1, <1>5, <2>2 DEF PathMatches
<1>. QED BY <1>3, <1>4, <1>5

\* What the terminal interface files for a finding at a path suppresses that finding,
\* whatever stars and blanks its name has, control characters and blanks at an end
\* apart.
THEOREM AlwaysSuppressedAsMeant == StoreSpec => []SuppressedAsMeant
<1>1. StoreTypeOK => SuppressedAsMeant
  <2>. SUFFICES ASSUME StoreTypeOK, NEW p \in Procs, asked[p].by = "tui",
                       asked[p].finding.path # NoText,
                       Escape(asked[p].finding.path) = asked[p].finding.path,
                       Trim(asked[p].finding.path) = asked[p].finding.path,
                       IsSuppressible(asked[p].finding)
                PROVE  Suppresses(asked[p], asked[p].finding)
    BY DEF SuppressedAsMeant
  <2>. DEFINE path == asked[p].finding.path
  <2>1. path \in Texts
    BY RequestAssumption DEF StoreTypeOK, Findings
  <2>2. ScopeOf(asked[p]).rule = asked[p].finding.id /\ ScopeOf(asked[p]).pattern = path
    BY DEF ScopeOf
  <2>3. PathMatches(path, path)
    BY <2>1, PathMatchesItself
  <2>. QED BY <2>2, <2>3 DEF Suppresses
<1>. QED BY <1>1, StoreTypeCorrect, PTL
=============================================================================
