------------------------- MODULE StationGuardProofs -------------------------
(***************************************************************************)
(* Proofs about the station guard, for every set of processes, commands,   *)
(* ports and stations.                                                     *)
(***************************************************************************)
EXTENDS StationGuard, TLAPS

-----------------------------------------------------------------------------
(***************************************************************************)
(* Types.                                                                  *)
(***************************************************************************)

\* What a process goes on to is typed.
LEMMA RecordType ==
    \A r \in [automount : BOOLEAN, config : BOOLEAN] :
        /\ [r EXCEPT !.automount = TRUE] \in [automount : BOOLEAN, config : BOOLEAN]
        /\ [r EXCEPT !.config = TRUE] \in [automount : BOOLEAN, config : BOOLEAN]
  OBVIOUS

\* A file that is filled holds a content.
LEMMA FillType ==
    ASSUME NEW text \in Contents, config \in Contents, Fill(text) PROVE config' \in Contents
  BY DEF Fill

\* A pass of the final clean-up is followed by another, or was the last.
LEMMA LingerOn ==
    ASSUME NEW p \in Procs, passes[p] \in 0..2, signalled[p] \in BOOLEAN, LingerDesktop(p)
    PROVE  \E next \in {"l_rule", "signalled", "gone"} : pc' = [pc EXCEPT ![p] = next]
  BY DEF LingerDesktop, Goto

\* The types hold at the start.
LEMMA TypeInit == Init => TypeOK
<1>. SUFFICES ASSUME Init PROVE TypeOK
  OBVIOUS
<1>. USE DEF Init
<1>1. PICK command \in [Procs -> Commands] :
        /\ job = [p \in Procs |-> command[p][1]]
        /\ rights = [p \in Procs |-> command[p][2]]
  OBVIOUS
<1>2. ASSUME NEW p \in Procs
      PROVE  /\ command[p][1] \in {"scan", "watch", "tui", "restore"}
             /\ command[p][2] \in {"root", "user"}
  <2>1. command[p] \in {"scan", "watch", "tui", "restore"} \X {"root", "user"}
    BY CommandsAssumption
  <2>. QED BY <2>1
<1>3. /\ job \in [Procs -> {"scan", "watch", "tui", "restore"}]
      /\ rights \in [Procs -> {"root", "user", "boxed"}]
  BY <1>1, <1>2
<1>4. PICK at \in Stations : /\ byDefault = at.byDefault
                             /\ active = at.active
                             /\ automount = at.automount
                             /\ config = at.config
                             /\ before = at.config
                             /\ disabled = at.disabled
                             /\ device \in [Ports -> at.devices]
                             /\ plugs = at.plugs
  OBVIOUS
<1>5. /\ byDefault \in {0, 1} /\ active \in BOOLEAN /\ automount \in BOOLEAN
      /\ config \in Contents /\ before \in Contents /\ disabled \in [Contents -> Contents]
      /\ plugs \in 0..Replugs
      /\ at.devices \in SUBSET {"storage", "badusb", "other", "none"}
  BY <1>4, StationsAssumption
<1>6. /\ device \in [Ports -> Devices \cup {"none"}]
      /\ authorized \in [Ports -> {0, 1}]
      /\ readonly \in [Ports -> BOOLEAN]
      /\ refused \subseteq Ports /\ blind \subseteq Ports /\ risk \in BOOLEAN
  BY <1>4, <1>5 DEF Devices
<1>7. /\ pc \in [Procs -> Places]
      /\ saved \in [Procs -> [automount : BOOLEAN, config : BOOLEAN]]
      /\ content \in [Procs -> Contents]
      /\ passes \in [Procs -> 0..2]
      /\ signalled \in [Procs -> BOOLEAN]
      /\ seen \in [Procs -> SUBSET Ports]
      /\ pending \in [Procs -> Ports \cup {NoPort}]
  BY ContentsAssumption DEF Places, Nothing
<1>. QED BY <1>3, <1>5, <1>6, <1>7 DEF TypeOK

\* Every step keeps the types, if a process in the last part of its way out has
\* a pass to go and one with a device in hand has a port.
Counting ==
    \A p \in Procs :
        /\ pc[p] \in {"l_rule", "l_devices", "l_services", "l_desktop"} =>
               passes[p] \in 1..2
        /\ pc[p] \in {"c_default", "c_rule", "c_services", "c_settings", "c_fill"} =>
               passes[p] = 2
        /\ pc[p] \in {"picked", "approved"} => pending[p] \in Ports

\* Every step of a process or of the kernel keeps the types.
LEMMA TypeNext == TypeOK /\ Counting /\ [Next]_vars => TypeOK'
<1>. SUFFICES ASSUME TypeOK, Counting, [Next]_vars PROVE TypeOK'
  OBVIOUS
<1>. USE DEF TypeOK, Goto, Rewritten, vars, guards, exits, watches, station, usb, lost, history
<1>1. ASSUME NEW p \in Procs, Start(p) PROVE TypeOK'
  <2>1. CASE job[p] = "restore"
    <3>1. pc' \in [Procs -> Places]
      BY <1>1, <2>1 DEF Start, Places
    <3>2. passes' \in [Procs -> 0..2]
      BY <1>1, <2>1 DEF Start
    <3>. QED BY <1>1, <2>1, <3>1, <3>2 DEF Start
  <2>2. CASE job[p] # "restore" /\ IsRoot(p)
    BY <1>1, <2>2 DEF Start, Places
  <2>3. CASE job[p] # "restore" /\ ~IsRoot(p)
    BY <1>1, <2>3 DEF Start, Places
  <2>. QED BY <2>1, <2>2, <2>3
<1>2. ASSUME NEW p \in Procs, EnableDefault(p) PROVE TypeOK'
  BY <1>2 DEF EnableDefault, Places, Over
<1>3. ASSUME NEW p \in Procs, EnableRule(p) PROVE TypeOK'
  BY <1>3 DEF EnableRule, Places, Over
<1>4. ASSUME NEW p \in Procs, EnableServices(p) PROVE TypeOK'
  BY <1>4 DEF EnableServices, Places, Over
<1>5. ASSUME NEW p \in Procs, EnableDesktop(p) PROVE TypeOK'
  <2>1. saved' \in [Procs -> [automount : BOOLEAN, config : BOOLEAN]]
    <3>1. saved[p] \in [automount : BOOLEAN, config : BOOLEAN]
      OBVIOUS
    <3>2. [saved[p] EXCEPT !.automount = TRUE] \in [automount : BOOLEAN, config : BOOLEAN]
      BY <3>1, RecordType, Zenon
    <3>. QED BY <1>5, <3>2 DEF EnableDesktop
  <2>2. pc' \in [Procs -> Places] /\ automount' \in BOOLEAN
    BY <1>5 DEF EnableDesktop, Places
  <2>. QED BY <1>5, <2>1, <2>2 DEF EnableDesktop
<1>6. ASSUME NEW p \in Procs, ReadConfig(p) PROVE TypeOK'
  BY <1>6 DEF ReadConfig, Places, Over
<1>7. ASSUME NEW p \in Procs, WriteConfig(p) PROVE TypeOK'
  <2>1. pc' \in [Procs -> Places]
    BY <1>7 DEF WriteConfig, Places
  <2>3. risk' \in BOOLEAN
    BY <1>7 DEF WriteConfig
  <2>4. config' \in Contents
    <3>1. Fill(disabled[content[p]]) \/ config' = config
      BY <1>7 DEF WriteConfig
    <3>2. disabled[content[p]] \in Contents
      OBVIOUS
    <3>. QED BY <3>1, <3>2, FillType
  <2>2. saved' \in [Procs -> [automount : BOOLEAN, config : BOOLEAN]]
    <3>1. saved[p] \in [automount : BOOLEAN, config : BOOLEAN]
      OBVIOUS
    <3>2. [saved[p] EXCEPT !.config = TRUE] \in [automount : BOOLEAN, config : BOOLEAN]
      BY <3>1, RecordType, Zenon
    <3>3. saved' = [saved EXCEPT ![p].config = TRUE] \/ saved' = saved
      BY <1>7 DEF WriteConfig
    <3>. QED BY <3>2, <3>3
  <2>. QED BY <1>7, <2>1, <2>2, <2>3, <2>4 DEF WriteConfig
<1>8. ASSUME NEW p \in Procs, Inspect(p) PROVE TypeOK'
  <2>1. pending[p] \in Ports
    BY <1>8 DEF Inspect, Counting
  <2>2. refused' \subseteq Ports /\ blind' \subseteq Ports
    BY <1>8, <2>1 DEF Inspect, Found
  <2>3. pc' \in [Procs -> Places] /\ pending' \in [Procs -> Ports \cup {NoPort}]
    BY <1>8 DEF Inspect, Places
  <2>. QED BY <1>8, <2>2, <2>3 DEF Inspect
<1>9. ASSUME NEW p \in Procs, Authorize(p) PROVE TypeOK'
  BY <1>9 DEF Authorize, Places, Over
<1>10. ASSUME NEW p \in Procs, DropPrivileges(p) PROVE TypeOK'
  BY <1>10 DEF DropPrivileges, Places, Over
<1>11. ASSUME NEW p \in Procs, Return(p) PROVE TypeOK'
  <2>1. CASE rights[p] = "root"
    <3>1. pc' \in [Procs -> Places]
      BY <1>11, <2>1 DEF Return, Places
    <3>2. passes' \in [Procs -> 0..2]
      BY <1>11, <2>1 DEF Return
    <3>. QED BY <1>11, <2>1, <3>1, <3>2 DEF Return
  <2>2. CASE rights[p] = "user"
    <3>1. pc' \in [Procs -> Places]
      BY <1>11, <2>2 DEF Return, Places
    <3>2. passes' \in [Procs -> 0..2]
      BY <1>11, <2>2 DEF Return
    <3>. QED BY <1>11, <2>2, <3>1, <3>2 DEF Return
  <2>3. CASE rights[p] = "boxed"
    BY <1>11, <2>3 DEF Return, Places, Over
  <2>. QED BY <2>1, <2>2, <2>3
<1>12. ASSUME NEW p \in Procs, CloseDefault(p) PROVE TypeOK'
  BY <1>12 DEF CloseDefault, Places, Over
<1>13. ASSUME NEW p \in Procs, CloseRule(p) PROVE TypeOK'
  BY <1>13 DEF CloseRule, Places, Over
<1>14. ASSUME NEW p \in Procs, CloseServices(p) PROVE TypeOK'
  BY <1>14 DEF CloseServices, Places, Over
<1>15. ASSUME NEW p \in Procs, CloseSettings(p) PROVE TypeOK'
  <2>1. saved' \in [Procs -> [automount : BOOLEAN, config : BOOLEAN]]
    <3>1. saved' = saved \/ saved' = [saved EXCEPT ![p] = Nothing]
      BY <1>15 DEF CloseSettings
    <3>2. Nothing \in [automount : BOOLEAN, config : BOOLEAN]
      BY DEF Nothing
    <3>. QED BY <3>1, <3>2
  <2>2. automount' \in BOOLEAN
    BY <1>15 DEF CloseSettings
  <2>3. config' \in Contents /\ risk' \in BOOLEAN
    BY <1>15, ContentsAssumption DEF CloseSettings
  <2>4. pc' \in [Procs -> Places]
    BY <1>15 DEF CloseSettings, Places
  <2>. QED BY <1>15, <2>1, <2>2, <2>3, <2>4 DEF CloseSettings
<1>16. ASSUME NEW p \in Procs, LingerRule(p) PROVE TypeOK'
  BY <1>16 DEF LingerRule, Places, Over
<1>17. ASSUME NEW p \in Procs, LingerDevices(p) PROVE TypeOK'
  BY <1>17 DEF LingerDevices, Places, Over
<1>18. ASSUME NEW p \in Procs, LingerServices(p) PROVE TypeOK'
  BY <1>18 DEF LingerServices, Places, Over
<1>19. ASSUME NEW p \in Procs, LingerDesktop(p) PROVE TypeOK'
  <2>1. passes' \in [Procs -> 0..2]
    <3>1. passes[p] \in 1..2 /\ passes' = [passes EXCEPT ![p] = @ - 1]
      BY <1>19 DEF LingerDesktop, Counting
    <3>2. passes[p] - 1 \in 0..2
      BY <3>1
    <3>. QED BY <3>1, <3>2
  <2>2. pc' \in [Procs -> Places]
    <3>1. PICK next \in {"l_rule", "signalled", "gone"} : pc' = [pc EXCEPT ![p] = next]
      BY <1>19, LingerOn
    <3>. QED BY <3>1 DEF Places, Over
  <2>. QED BY <1>19, <2>1, <2>2 DEF LingerDesktop
<1>20. ASSUME NEW p \in Procs, Interrupt(p) PROVE TypeOK'
  <2>1. CASE rights[p] = "boxed"
    BY <1>20, <2>1 DEF Interrupt, Places, Over
  <2>2. CASE rights[p] # "boxed"
    <3>1. pc' \in [Procs -> Places]
      BY <1>20, <2>2 DEF Interrupt, Places
    <3>2. passes' \in [Procs -> 0..2]
      BY <1>20, <2>2 DEF Interrupt
    <3>3. signalled' \in [Procs -> BOOLEAN]
      BY <1>20, <2>2 DEF Interrupt
    <3>. QED BY <1>20, <2>2, <3>1, <3>2, <3>3 DEF Interrupt
  <2>. QED BY <2>1, <2>2
<1>21. ASSUME NEW p \in Procs, Kill(p) PROVE TypeOK'
  BY <1>21 DEF Kill, Places, Over
<1>22. ASSUME NEW p \in Procs, NEW d \in Ports, Look(p, d) PROVE TypeOK'
  <2>1. refused' \subseteq Ports /\ blind' \subseteq Ports
    BY <1>22 DEF Look, Found
  <2>2. pc' \in [Procs -> Places]
    <3>1. pc' = pc \/ pc' = [pc EXCEPT ![p] = "approved"]
      BY <1>22 DEF Look
    <3>. QED BY <3>1 DEF Places
  <2>3. pending' \in [Procs -> Ports \cup {NoPort}]
    <3>1. pending' = pending \/ pending' = [pending EXCEPT ![p] = d]
      BY <1>22 DEF Look
    <3>. QED BY <3>1
  <2>. QED BY <1>22, <2>1, <2>2, <2>3 DEF Look
<1>23. ASSUME NEW p \in Procs, NEW d \in Ports, Pick(p, d) PROVE TypeOK'
  BY <1>23 DEF Pick, Places, Over
<1>24. ASSUME NEW d \in Ports, NEW kind \in Devices, PlugIn(d, kind) PROVE TypeOK'
  <2>1. plugs' \in 0..Replugs
    BY <1>24, ReplugsAssumption DEF PlugIn
  <2>2. device' \in [Ports -> Devices \cup {"none"}]
    BY <1>24 DEF PlugIn
  <2>. QED BY <1>24, <2>1, <2>2 DEF PlugIn
<1>25. ASSUME NEW d \in Ports, PullOut(d) PROVE TypeOK'
  BY <1>25 DEF PullOut, Places, Over
<1>26. CASE UNCHANGED vars
  BY <1>26
<1>27. ASSUME NEW p \in Procs, TruncateConfig(p) PROVE TypeOK'
  BY <1>27, ContentsAssumption DEF TruncateConfig, Places, Over
<1>28. ASSUME NEW p \in Procs, CloseConfig(p) PROVE TypeOK'
  <2>1. pc' \in [Procs -> Places]
    BY <1>28 DEF CloseConfig, Places
  <2>2. saved' \in [Procs -> [automount : BOOLEAN, config : BOOLEAN]]
    BY <1>28 DEF CloseConfig, Nothing
  <2>3. config' \in Contents
    <3>1. Fill(content[p]) \/ config' = config
      BY <1>28 DEF CloseConfig
    <3>. QED BY <3>1, FillType
  <2>4. risk' \in BOOLEAN
    BY <1>28 DEF CloseConfig
  <2>. QED BY <1>28, <2>1, <2>2, <2>3, <2>4 DEF CloseConfig
<1>. QED
  BY <1>1, <1>2, <1>3, <1>4, <1>5, <1>6, <1>7, <1>8, <1>9, <1>10, <1>11, <1>12, <1>13, <1>14, <1>15, <1>16, <1>17, <1>18, <1>19, <1>20, <1>21, <1>22, <1>23, <1>24, <1>25, <1>26, <1>27, <1>28
     DEF Next, Step, Enable, Leave, Kernel, Finished

\* Every step leaves a process in the final clean-up a pass to go.
LEMMA CountingNext == TypeOK /\ Counting /\ [Next]_vars => Counting'
<1>. SUFFICES ASSUME TypeOK, Counting, [Next]_vars PROVE Counting'
  OBVIOUS
<1>. USE DEF TypeOK, Counting, Goto, Rewritten, vars, guards, exits, watches, station, usb, lost, history
<1>1. ASSUME NEW p \in Procs, Start(p) PROVE Counting'
  BY <1>1 DEF Start, Over
<1>2. ASSUME NEW p \in Procs, EnableDefault(p) PROVE Counting'
  BY <1>2 DEF EnableDefault, Over
<1>3. ASSUME NEW p \in Procs, EnableRule(p) PROVE Counting'
  BY <1>3 DEF EnableRule, Over
<1>4. ASSUME NEW p \in Procs, EnableServices(p) PROVE Counting'
  BY <1>4 DEF EnableServices, Over
<1>5. ASSUME NEW p \in Procs, EnableDesktop(p) PROVE Counting'
  BY <1>5 DEF EnableDesktop, Over
<1>6. ASSUME NEW p \in Procs, ReadConfig(p) PROVE Counting'
  BY <1>6 DEF ReadConfig, Over
<1>7. ASSUME NEW p \in Procs, WriteConfig(p) PROVE Counting'
  BY <1>7 DEF WriteConfig, Over
<1>8. ASSUME NEW p \in Procs, Inspect(p) PROVE Counting'
  BY <1>8 DEF Inspect, Over
<1>9. ASSUME NEW p \in Procs, Authorize(p) PROVE Counting'
  BY <1>9 DEF Authorize, Over
<1>10. ASSUME NEW p \in Procs, DropPrivileges(p) PROVE Counting'
  BY <1>10 DEF DropPrivileges, Over
<1>11. ASSUME NEW p \in Procs, Return(p) PROVE Counting'
  <2>1. CASE rights[p] = "root"
    BY <1>11, <2>1 DEF Return
  <2>2. CASE rights[p] = "user"
    BY <1>11, <2>2 DEF Return
  <2>3. CASE rights[p] = "boxed"
    BY <1>11, <2>3 DEF Return
  <2>. QED BY <2>1, <2>2, <2>3
<1>12. ASSUME NEW p \in Procs, CloseDefault(p) PROVE Counting'
  BY <1>12 DEF CloseDefault, Over
<1>13. ASSUME NEW p \in Procs, CloseRule(p) PROVE Counting'
  BY <1>13 DEF CloseRule, Over
<1>14. ASSUME NEW p \in Procs, CloseServices(p) PROVE Counting'
  BY <1>14 DEF CloseServices, Over
<1>15. ASSUME NEW p \in Procs, CloseSettings(p) PROVE Counting'
  BY <1>15 DEF CloseSettings, Over
<1>16. ASSUME NEW p \in Procs, LingerRule(p) PROVE Counting'
  BY <1>16 DEF LingerRule, Over
<1>17. ASSUME NEW p \in Procs, LingerDevices(p) PROVE Counting'
  BY <1>17 DEF LingerDevices, Over
<1>18. ASSUME NEW p \in Procs, LingerServices(p) PROVE Counting'
  BY <1>18 DEF LingerServices, Over
<1>19. ASSUME NEW p \in Procs, LingerDesktop(p) PROVE Counting'
  BY <1>19 DEF LingerDesktop, Over
<1>20. ASSUME NEW p \in Procs, Interrupt(p) PROVE Counting'
  BY <1>20 DEF Interrupt, Over
<1>21. ASSUME NEW p \in Procs, Kill(p) PROVE Counting'
  BY <1>21 DEF Kill, Over
<1>22. ASSUME NEW p \in Procs, NEW d \in Ports, Look(p, d) PROVE Counting'
  BY <1>22 DEF Look, Over
<1>23. ASSUME NEW p \in Procs, NEW d \in Ports, Pick(p, d) PROVE Counting'
  BY <1>23 DEF Pick, Over
<1>24. ASSUME NEW d \in Ports, NEW kind \in Devices, PlugIn(d, kind) PROVE Counting'
  BY <1>24 DEF PlugIn, Over
<1>25. ASSUME NEW d \in Ports, PullOut(d) PROVE Counting'
  BY <1>25 DEF PullOut, Over
<1>26. CASE UNCHANGED vars
  BY <1>26
<1>27. ASSUME NEW p \in Procs, TruncateConfig(p) PROVE Counting'
  BY <1>27 DEF TruncateConfig, Over
<1>28. ASSUME NEW p \in Procs, CloseConfig(p) PROVE Counting'
  BY <1>28 DEF CloseConfig, Over
<1>. QED
  BY <1>1, <1>2, <1>3, <1>4, <1>5, <1>6, <1>7, <1>8, <1>9, <1>10, <1>11, <1>12, <1>13, <1>14, <1>15, <1>16, <1>17, <1>18, <1>19, <1>20, <1>21, <1>22, <1>23, <1>24, <1>25, <1>26, <1>27, <1>28
     DEF Next, Step, Enable, Leave, Kernel, Finished

-----------------------------------------------------------------------------
(***************************************************************************)
(* What a process has left to do when it holds something of the station.   *)
(***************************************************************************)

\* Only root locks down and cleans up; only a scan is confined, and it stays
\* where the confinement began.
RightsFit ==
    \A p \in Procs :
        /\ pc[p] \in {"e_default", "e_rule", "e_services", "e_desktop", "e_read",
                      "e_write", "e_fill", "c_default", "c_rule", "c_services",
                      "c_settings", "c_fill", "l_devices", "l_services"} => rights[p] = "root"
        /\ rights[p] = "boxed" =>
               job[p] = "scan" /\ pc[p] \in {"up", "picked", "approved", "unprivileged", "killed"}
        /\ signalled[p] => pc[p] \in {"l_rule", "l_devices", "l_services",
                                      "l_desktop", "signalled", "killed"}

\* A process that still is to remove the udev rule, or never will.
RuleHolder(p) ==
    /\ rights[p] # "user" \/ pc[p] = "killed"
    /\ pc[p] \in {"e_services", "e_desktop", "e_read", "e_write", "e_fill", "up",
                  "picked", "approved", "c_default", "c_rule", "l_rule", "unprivileged", "killed"}

RuleOwned == rule => \E p \in Procs : RuleHolder(p)

\* A process that still is to unmask the service, or never will.
MaskHolder(p) ==
    /\ rights[p] # "user" \/ pc[p] = "killed"
    /\ pc[p] \in {"e_desktop", "e_read", "e_write", "e_fill", "up", "picked",
                  "approved", "c_default", "c_rule", "c_services", "l_rule", "l_devices",
                  "l_services", "unprivileged", "killed"}

MaskOwned == masked => \E p \in Procs : MaskHolder(p)

\* A write failed or was cut, or a process took another content for the user's.
Spoiled == risk \/ \E p \in Procs : signalled[p] \/ pc[p] = "killed"

\* Where a process may be that has rewritten the configuration file.
Keeping == {"up", "picked", "approved", "c_default", "c_rule", "c_services", "c_settings",
            "c_fill", "unprivileged"}

\* Whoever rewrote the user's configuration keeps the user's content until it has put
\* it back, and nobody else takes another content for the user's.  A file that is
\* being filled holds nothing, or the user's content, or what a process wrote that
\* is not yet to put it back.
Kept ==
    /\ config = before \/ \E p \in Procs : Holds(p)
    /\ config \in {Empty, before} \/ \E p \in Procs : saved[p].config /\ pc[p] # "c_fill"
    /\ \A p \in Procs :
          /\ Holds(p) => content[p] = before /\ rights[p] # "user"
          /\ saved[p].config => pc[p] \in Keeping
          /\ pc[p] = "c_fill" => saved[p].config
          /\ pc[p] = "e_write" => content[p] = before \/ disabled[content[p]] = content[p]

ConfigOwned == Spoiled \/ Kept

\* Whoever may authorize a device has seen to it that new devices need nobody
\* to do so; hence a BadUSB device in the port it approved is authorized already,
\* or showed no interface.
ApprovedClean ==
    \A p \in Procs :
        pc[p] \in {"e_rule", "e_services", "e_desktop", "e_read", "e_write", "e_fill", "up",
                   "picked", "approved"} /\ rights[p] = "root" =>
            /\ byDefault = 1
            /\ pc[p] = "approved" /\ device[pending[p]] = "badusb" =>
                   authorized[pending[p]] = 1 \/ pending[p] \in blind

RefusedShut ==
    \A d \in refused :
        /\ device[d] = "badusb"
        /\ authorized[d] = 1 => d \in blind \/ \E p \in Procs : Exiting(p)

IInv ==
    /\ TypeOK
    /\ Counting
    /\ RightsFit
    /\ RuleOwned
    /\ MaskOwned
    /\ ConfigOwned
    /\ ApprovedClean
    /\ RefusedShut


\* Every step keeps the rights in step with the place.
LEMMA RightsFitNext == TypeOK /\ RightsFit /\ [Next]_vars => RightsFit'
<1>. SUFFICES ASSUME TypeOK, RightsFit, [Next]_vars PROVE RightsFit'
  OBVIOUS
<1>. USE DEF TypeOK, RightsFit, Goto, Rewritten, vars, guards, exits, watches, station, usb, lost, history
<1>1. ASSUME NEW p \in Procs, Start(p) PROVE RightsFit'
  BY <1>1 DEF Start, Over, IsRoot
<1>2. ASSUME NEW p \in Procs, EnableDefault(p) PROVE RightsFit'
  BY <1>2 DEF EnableDefault, Over, IsRoot
<1>3. ASSUME NEW p \in Procs, EnableRule(p) PROVE RightsFit'
  BY <1>3 DEF EnableRule, Over, IsRoot
<1>4. ASSUME NEW p \in Procs, EnableServices(p) PROVE RightsFit'
  BY <1>4 DEF EnableServices, Over, IsRoot
<1>5. ASSUME NEW p \in Procs, EnableDesktop(p) PROVE RightsFit'
  BY <1>5 DEF EnableDesktop, Over, IsRoot
<1>6. ASSUME NEW p \in Procs, ReadConfig(p) PROVE RightsFit'
  BY <1>6 DEF ReadConfig, Over, IsRoot
<1>7. ASSUME NEW p \in Procs, WriteConfig(p) PROVE RightsFit'
  BY <1>7 DEF WriteConfig, Over, IsRoot
<1>8. ASSUME NEW p \in Procs, Inspect(p) PROVE RightsFit'
  BY <1>8 DEF Inspect, Over, IsRoot
<1>9. ASSUME NEW p \in Procs, Authorize(p) PROVE RightsFit'
  BY <1>9 DEF Authorize, Over, IsRoot
<1>10. ASSUME NEW p \in Procs, DropPrivileges(p) PROVE RightsFit'
  BY <1>10 DEF DropPrivileges, Over, IsRoot
<1>11. ASSUME NEW p \in Procs, Return(p) PROVE RightsFit'
  <2>1. CASE rights[p] = "root"
    BY <1>11, <2>1 DEF Return, Over, IsRoot
  <2>2. CASE rights[p] = "user"
    BY <1>11, <2>2 DEF Return, Over, IsRoot
  <2>3. CASE rights[p] = "boxed"
    BY <1>11, <2>3 DEF Return, Over, IsRoot
  <2>. QED BY <2>1, <2>2, <2>3
<1>12. ASSUME NEW p \in Procs, CloseDefault(p) PROVE RightsFit'
  BY <1>12 DEF CloseDefault, Over, IsRoot
<1>13. ASSUME NEW p \in Procs, CloseRule(p) PROVE RightsFit'
  BY <1>13 DEF CloseRule, Over, IsRoot
<1>14. ASSUME NEW p \in Procs, CloseServices(p) PROVE RightsFit'
  BY <1>14 DEF CloseServices, Over, IsRoot
<1>15. ASSUME NEW p \in Procs, CloseSettings(p) PROVE RightsFit'
  BY <1>15 DEF CloseSettings, Over, IsRoot
<1>16. ASSUME NEW p \in Procs, LingerRule(p) PROVE RightsFit'
  BY <1>16 DEF LingerRule, Over, IsRoot
<1>17. ASSUME NEW p \in Procs, LingerDevices(p) PROVE RightsFit'
  BY <1>17 DEF LingerDevices, Over, IsRoot
<1>18. ASSUME NEW p \in Procs, LingerServices(p) PROVE RightsFit'
  BY <1>18 DEF LingerServices, Over, IsRoot
<1>19. ASSUME NEW p \in Procs, LingerDesktop(p) PROVE RightsFit'
  BY <1>19 DEF LingerDesktop, Over, IsRoot
<1>20. ASSUME NEW p \in Procs, Interrupt(p) PROVE RightsFit'
  <2>1. CASE rights[p] = "boxed"
    BY <1>20, <2>1 DEF Interrupt, Over, IsRoot
  <2>2. CASE rights[p] # "boxed"
    BY <1>20, <2>2 DEF Interrupt, Over, IsRoot
  <2>. QED BY <2>1, <2>2
<1>21. ASSUME NEW p \in Procs, Kill(p) PROVE RightsFit'
  BY <1>21 DEF Kill, Over, IsRoot
<1>22. ASSUME NEW p \in Procs, NEW d \in Ports, Look(p, d) PROVE RightsFit'
  BY <1>22 DEF Look, Over, IsRoot
<1>23. ASSUME NEW p \in Procs, NEW d \in Ports, Pick(p, d) PROVE RightsFit'
  BY <1>23 DEF Pick, Over, IsRoot
<1>24. ASSUME NEW d \in Ports, NEW kind \in Devices, PlugIn(d, kind) PROVE RightsFit'
  BY <1>24 DEF PlugIn, Over, IsRoot
<1>25. ASSUME NEW d \in Ports, PullOut(d) PROVE RightsFit'
  BY <1>25 DEF PullOut, Over, IsRoot
<1>26. CASE UNCHANGED vars
  BY <1>26 DEF Over, IsRoot
<1>27. ASSUME NEW p \in Procs, TruncateConfig(p) PROVE RightsFit'
  BY <1>27 DEF TruncateConfig, Over, IsRoot
<1>28. ASSUME NEW p \in Procs, CloseConfig(p) PROVE RightsFit'
  BY <1>28 DEF CloseConfig, Over, IsRoot
<1>. QED
  BY <1>1, <1>2, <1>3, <1>4, <1>5, <1>6, <1>7, <1>8, <1>9, <1>10, <1>11, <1>12, <1>13, <1>14, <1>15, <1>16, <1>17, <1>18, <1>19, <1>20, <1>21, <1>22, <1>23, <1>24, <1>25, <1>26, <1>27, <1>28
     DEF Next, Step, Enable, Leave, Kernel, Finished

\* Every step leaves a rule only with a process that is to remove it.
LEMMA RuleOwnedNext == TypeOK /\ RightsFit /\ RuleOwned /\ [Next]_vars => RuleOwned'
<1>. SUFFICES ASSUME TypeOK, RightsFit, RuleOwned, [Next]_vars PROVE RuleOwned'
  OBVIOUS
<1>. USE DEF TypeOK, RuleOwned, Goto, Rewritten, vars, guards, exits, watches, station, usb, lost, history
<1>1. ASSUME NEW p \in Procs, Start(p) PROVE RuleOwned'
  BY <1>1 DEF Start, RuleHolder, RightsFit, IsRoot, Over
<1>2. ASSUME NEW p \in Procs, EnableDefault(p) PROVE RuleOwned'
  BY <1>2 DEF EnableDefault, RuleHolder, RightsFit, IsRoot, Over
<1>3. ASSUME NEW p \in Procs, EnableRule(p) PROVE RuleOwned'
  BY <1>3 DEF EnableRule, RuleHolder, RightsFit, IsRoot, Over
<1>4. ASSUME NEW p \in Procs, EnableServices(p) PROVE RuleOwned'
  BY <1>4 DEF EnableServices, RuleHolder, RightsFit, IsRoot, Over
<1>5. ASSUME NEW p \in Procs, EnableDesktop(p) PROVE RuleOwned'
  BY <1>5 DEF EnableDesktop, RuleHolder, RightsFit, IsRoot, Over
<1>6. ASSUME NEW p \in Procs, ReadConfig(p) PROVE RuleOwned'
  BY <1>6 DEF ReadConfig, RuleHolder, RightsFit, IsRoot, Over
<1>7. ASSUME NEW p \in Procs, WriteConfig(p) PROVE RuleOwned'
  BY <1>7 DEF WriteConfig, RuleHolder, RightsFit, IsRoot, Over
<1>8. ASSUME NEW p \in Procs, Inspect(p) PROVE RuleOwned'
  BY <1>8 DEF Inspect, RuleHolder, RightsFit, IsRoot, Over
<1>9. ASSUME NEW p \in Procs, Authorize(p) PROVE RuleOwned'
  BY <1>9 DEF Authorize, RuleHolder, RightsFit, IsRoot, Over
<1>10. ASSUME NEW p \in Procs, DropPrivileges(p) PROVE RuleOwned'
  BY <1>10 DEF DropPrivileges, RuleHolder, RightsFit, IsRoot, Over
<1>11. ASSUME NEW p \in Procs, Return(p) PROVE RuleOwned'
  <2>1. CASE rights[p] = "root"
    BY <1>11, <2>1 DEF Return, RuleHolder, RightsFit, IsRoot, Over
  <2>2. CASE rights[p] = "user"
    BY <1>11, <2>2 DEF Return, RuleHolder, RightsFit, IsRoot, Over
  <2>3. CASE rights[p] = "boxed"
    BY <1>11, <2>3 DEF Return, RuleHolder, RightsFit, IsRoot, Over
  <2>. QED BY <2>1, <2>2, <2>3
<1>12. ASSUME NEW p \in Procs, CloseDefault(p) PROVE RuleOwned'
  BY <1>12 DEF CloseDefault, RuleHolder, RightsFit, IsRoot, Over
<1>13. ASSUME NEW p \in Procs, CloseRule(p) PROVE RuleOwned'
  BY <1>13 DEF CloseRule, RuleHolder, RightsFit, IsRoot, Over
<1>14. ASSUME NEW p \in Procs, CloseServices(p) PROVE RuleOwned'
  BY <1>14 DEF CloseServices, RuleHolder, RightsFit, IsRoot, Over
<1>15. ASSUME NEW p \in Procs, CloseSettings(p) PROVE RuleOwned'
  BY <1>15 DEF CloseSettings, RuleHolder, RightsFit, IsRoot, Over
<1>16. ASSUME NEW p \in Procs, LingerRule(p) PROVE RuleOwned'
  BY <1>16 DEF LingerRule, RuleHolder, RightsFit, IsRoot, Over
<1>17. ASSUME NEW p \in Procs, LingerDevices(p) PROVE RuleOwned'
  BY <1>17 DEF LingerDevices, RuleHolder, RightsFit, IsRoot, Over
<1>18. ASSUME NEW p \in Procs, LingerServices(p) PROVE RuleOwned'
  BY <1>18 DEF LingerServices, RuleHolder, RightsFit, IsRoot, Over
<1>19. ASSUME NEW p \in Procs, LingerDesktop(p) PROVE RuleOwned'
  BY <1>19 DEF LingerDesktop, RuleHolder, RightsFit, IsRoot, Over
<1>20. ASSUME NEW p \in Procs, Interrupt(p) PROVE RuleOwned'
  <2>1. CASE rights[p] = "boxed"
    BY <1>20, <2>1 DEF Interrupt, RuleHolder, RightsFit, IsRoot, Over
  <2>2. CASE rights[p] # "boxed"
    BY <1>20, <2>2 DEF Interrupt, RuleHolder, RightsFit, IsRoot, Over
  <2>. QED BY <2>1, <2>2
<1>21. ASSUME NEW p \in Procs, Kill(p) PROVE RuleOwned'
  BY <1>21 DEF Kill, RuleHolder, RightsFit, IsRoot, Over
<1>22. ASSUME NEW p \in Procs, NEW d \in Ports, Look(p, d) PROVE RuleOwned'
  BY <1>22 DEF Look, RuleHolder, RightsFit, IsRoot, Over
<1>23. ASSUME NEW p \in Procs, NEW d \in Ports, Pick(p, d) PROVE RuleOwned'
  BY <1>23 DEF Pick, RuleHolder, RightsFit, IsRoot, Over
<1>24. ASSUME NEW d \in Ports, NEW kind \in Devices, PlugIn(d, kind) PROVE RuleOwned'
  BY <1>24 DEF PlugIn, RuleHolder, RightsFit, IsRoot, Over
<1>25. ASSUME NEW d \in Ports, PullOut(d) PROVE RuleOwned'
  BY <1>25 DEF PullOut, RuleHolder, RightsFit, IsRoot, Over
<1>26. CASE UNCHANGED vars
  BY <1>26 DEF RuleHolder, RightsFit, IsRoot, Over
<1>27. ASSUME NEW p \in Procs, TruncateConfig(p) PROVE RuleOwned'
  BY <1>27 DEF TruncateConfig, RuleHolder, RightsFit, IsRoot, Over
<1>28. ASSUME NEW p \in Procs, CloseConfig(p) PROVE RuleOwned'
  BY <1>28 DEF CloseConfig, RuleHolder, RightsFit, IsRoot, Over
<1>. QED
  BY <1>1, <1>2, <1>3, <1>4, <1>5, <1>6, <1>7, <1>8, <1>9, <1>10, <1>11, <1>12, <1>13, <1>14, <1>15, <1>16, <1>17, <1>18, <1>19, <1>20, <1>21, <1>22, <1>23, <1>24, <1>25, <1>26, <1>27, <1>28
     DEF Next, Step, Enable, Leave, Kernel, Finished

\* Every step leaves a mask only with a process that is to remove it.
LEMMA MaskOwnedNext == TypeOK /\ RightsFit /\ MaskOwned /\ [Next]_vars => MaskOwned'
<1>. SUFFICES ASSUME TypeOK, RightsFit, MaskOwned, [Next]_vars PROVE MaskOwned'
  OBVIOUS
<1>. USE DEF TypeOK, MaskOwned, Goto, Rewritten, vars, guards, exits, watches, station, usb, lost, history
<1>1. ASSUME NEW p \in Procs, Start(p) PROVE MaskOwned'
  BY <1>1 DEF Start, MaskHolder, RightsFit, IsRoot, Over
<1>2. ASSUME NEW p \in Procs, EnableDefault(p) PROVE MaskOwned'
  BY <1>2 DEF EnableDefault, MaskHolder, RightsFit, IsRoot, Over
<1>3. ASSUME NEW p \in Procs, EnableRule(p) PROVE MaskOwned'
  BY <1>3 DEF EnableRule, MaskHolder, RightsFit, IsRoot, Over
<1>4. ASSUME NEW p \in Procs, EnableServices(p) PROVE MaskOwned'
  BY <1>4 DEF EnableServices, MaskHolder, RightsFit, IsRoot, Over
<1>5. ASSUME NEW p \in Procs, EnableDesktop(p) PROVE MaskOwned'
  BY <1>5 DEF EnableDesktop, MaskHolder, RightsFit, IsRoot, Over
<1>6. ASSUME NEW p \in Procs, ReadConfig(p) PROVE MaskOwned'
  BY <1>6 DEF ReadConfig, MaskHolder, RightsFit, IsRoot, Over
<1>7. ASSUME NEW p \in Procs, WriteConfig(p) PROVE MaskOwned'
  BY <1>7 DEF WriteConfig, MaskHolder, RightsFit, IsRoot, Over
<1>8. ASSUME NEW p \in Procs, Inspect(p) PROVE MaskOwned'
  BY <1>8 DEF Inspect, MaskHolder, RightsFit, IsRoot, Over
<1>9. ASSUME NEW p \in Procs, Authorize(p) PROVE MaskOwned'
  BY <1>9 DEF Authorize, MaskHolder, RightsFit, IsRoot, Over
<1>10. ASSUME NEW p \in Procs, DropPrivileges(p) PROVE MaskOwned'
  BY <1>10 DEF DropPrivileges, MaskHolder, RightsFit, IsRoot, Over
<1>11. ASSUME NEW p \in Procs, Return(p) PROVE MaskOwned'
  <2>1. CASE rights[p] = "root"
    BY <1>11, <2>1 DEF Return, MaskHolder, RightsFit, IsRoot, Over
  <2>2. CASE rights[p] = "user"
    BY <1>11, <2>2 DEF Return, MaskHolder, RightsFit, IsRoot, Over
  <2>3. CASE rights[p] = "boxed"
    BY <1>11, <2>3 DEF Return, MaskHolder, RightsFit, IsRoot, Over
  <2>. QED BY <2>1, <2>2, <2>3
<1>12. ASSUME NEW p \in Procs, CloseDefault(p) PROVE MaskOwned'
  BY <1>12 DEF CloseDefault, MaskHolder, RightsFit, IsRoot, Over
<1>13. ASSUME NEW p \in Procs, CloseRule(p) PROVE MaskOwned'
  BY <1>13 DEF CloseRule, MaskHolder, RightsFit, IsRoot, Over
<1>14. ASSUME NEW p \in Procs, CloseServices(p) PROVE MaskOwned'
  BY <1>14 DEF CloseServices, MaskHolder, RightsFit, IsRoot, Over
<1>15. ASSUME NEW p \in Procs, CloseSettings(p) PROVE MaskOwned'
  BY <1>15 DEF CloseSettings, MaskHolder, RightsFit, IsRoot, Over
<1>16. ASSUME NEW p \in Procs, LingerRule(p) PROVE MaskOwned'
  BY <1>16 DEF LingerRule, MaskHolder, RightsFit, IsRoot, Over
<1>17. ASSUME NEW p \in Procs, LingerDevices(p) PROVE MaskOwned'
  BY <1>17 DEF LingerDevices, MaskHolder, RightsFit, IsRoot, Over
<1>18. ASSUME NEW p \in Procs, LingerServices(p) PROVE MaskOwned'
  BY <1>18 DEF LingerServices, MaskHolder, RightsFit, IsRoot, Over
<1>19. ASSUME NEW p \in Procs, LingerDesktop(p) PROVE MaskOwned'
  BY <1>19 DEF LingerDesktop, MaskHolder, RightsFit, IsRoot, Over
<1>20. ASSUME NEW p \in Procs, Interrupt(p) PROVE MaskOwned'
  <2>1. CASE rights[p] = "boxed"
    BY <1>20, <2>1 DEF Interrupt, MaskHolder, RightsFit, IsRoot, Over
  <2>2. CASE rights[p] # "boxed"
    BY <1>20, <2>2 DEF Interrupt, MaskHolder, RightsFit, IsRoot, Over
  <2>. QED BY <2>1, <2>2
<1>21. ASSUME NEW p \in Procs, Kill(p) PROVE MaskOwned'
  BY <1>21 DEF Kill, MaskHolder, RightsFit, IsRoot, Over
<1>22. ASSUME NEW p \in Procs, NEW d \in Ports, Look(p, d) PROVE MaskOwned'
  BY <1>22 DEF Look, MaskHolder, RightsFit, IsRoot, Over
<1>23. ASSUME NEW p \in Procs, NEW d \in Ports, Pick(p, d) PROVE MaskOwned'
  BY <1>23 DEF Pick, MaskHolder, RightsFit, IsRoot, Over
<1>24. ASSUME NEW d \in Ports, NEW kind \in Devices, PlugIn(d, kind) PROVE MaskOwned'
  BY <1>24 DEF PlugIn, MaskHolder, RightsFit, IsRoot, Over
<1>25. ASSUME NEW d \in Ports, PullOut(d) PROVE MaskOwned'
  BY <1>25 DEF PullOut, MaskHolder, RightsFit, IsRoot, Over
<1>26. CASE UNCHANGED vars
  BY <1>26 DEF MaskHolder, RightsFit, IsRoot, Over
<1>27. ASSUME NEW p \in Procs, TruncateConfig(p) PROVE MaskOwned'
  BY <1>27 DEF TruncateConfig, MaskHolder, RightsFit, IsRoot, Over
<1>28. ASSUME NEW p \in Procs, CloseConfig(p) PROVE MaskOwned'
  BY <1>28 DEF CloseConfig, MaskHolder, RightsFit, IsRoot, Over
<1>. QED
  BY <1>1, <1>2, <1>3, <1>4, <1>5, <1>6, <1>7, <1>8, <1>9, <1>10, <1>11, <1>12, <1>13, <1>14, <1>15, <1>16, <1>17, <1>18, <1>19, <1>20, <1>21, <1>22, <1>23, <1>24, <1>25, <1>26, <1>27, <1>28
     DEF Next, Step, Enable, Leave, Kernel, Finished

\* What was spoiled stays so.
LEMMA SpoiledStays == TypeOK /\ [Next]_vars /\ Spoiled => Spoiled'
<1>. SUFFICES ASSUME TypeOK, [Next]_vars
              PROVE  /\ risk => risk'
                     /\ \A q \in Procs : /\ signalled[q] => signalled'[q]
                                         /\ pc[q] = "killed" => pc'[q] = "killed"
  BY DEF Spoiled
<1>. USE DEF TypeOK, Goto, Over, vars, guards, exits, watches, station, usb, lost, history
<1>1. ASSUME NEW p \in Procs, Enable(p) \/ Inspect(p) \/ Authorize(p) \/ DropPrivileges(p)
      PROVE  /\ risk => risk'
             /\ \A q \in Procs : /\ signalled[q] => signalled'[q]
                                 /\ pc[q] = "killed" => pc'[q] = "killed"
  <2>1. CASE Start(p) \/ EnableDefault(p) \/ EnableRule(p) \/ EnableServices(p) \/ EnableDesktop(p)
    BY <2>1 DEF Start, EnableDefault, EnableRule, EnableServices, EnableDesktop
  <2>2. CASE ReadConfig(p) \/ TruncateConfig(p) \/ WriteConfig(p)
    BY <2>2 DEF ReadConfig, TruncateConfig, WriteConfig
  <2>3. CASE Inspect(p) \/ Authorize(p) \/ DropPrivileges(p)
    BY <2>3 DEF Inspect, Authorize, DropPrivileges
  <2>. QED BY <1>1, <2>1, <2>2, <2>3 DEF Enable
<1>2. ASSUME NEW p \in Procs, Leave(p)
      PROVE  /\ risk => risk'
             /\ \A q \in Procs : /\ signalled[q] => signalled'[q]
                                 /\ pc[q] = "killed" => pc'[q] = "killed"
  <2>1. CASE Return(p) \/ CloseDefault(p) \/ CloseRule(p) \/ CloseServices(p)
    BY <2>1 DEF Return, CloseDefault, CloseRule, CloseServices
  <2>2. CASE CloseSettings(p) \/ CloseConfig(p)
    BY <2>2 DEF CloseSettings, CloseConfig
  <2>3. CASE LingerRule(p) \/ LingerDevices(p) \/ LingerServices(p) \/ LingerDesktop(p)
    BY <2>3 DEF LingerRule, LingerDevices, LingerServices, LingerDesktop
  <2>. QED BY <1>2, <2>1, <2>2, <2>3 DEF Leave
<1>3. ASSUME NEW p \in Procs, Interrupt(p) \/ Kill(p) \/ \E d \in Ports : Look(p, d) \/ Pick(p, d)
      PROVE  /\ risk => risk'
             /\ \A q \in Procs : /\ signalled[q] => signalled'[q]
                                 /\ pc[q] = "killed" => pc'[q] = "killed"
  BY <1>3 DEF Interrupt, Kill, Look, Pick
<1>4. CASE Kernel \/ UNCHANGED vars
  BY <1>4 DEF Kernel, PlugIn, PullOut
<1>. QED BY <1>1, <1>2, <1>3, <1>4 DEF Next, Step, Finished

\* A step that leaves the file alone, of a process that is not about to write to it.
LEMMA QuietKeeps ==
    ASSUME TypeOK, Kept, NEW p \in Procs, NEW next,
           pc' = [pc EXCEPT ![p] = next], pc[p] # "e_fill",
           next \notin {"e_write", "e_fill", "c_fill"},
           saved[p].config => next \in Keeping,
           UNCHANGED <<config, content, before, disabled>>,
           \A q \in Procs : saved'[q].config = saved[q].config,
           \A q \in Procs : rights'[q] = "user" => rights[q] = "user"
    PROVE  Kept'
<1>1. \A q \in Procs : pc'[q] = IF q = p THEN next ELSE pc[q]
  BY DEF TypeOK
<1>2. \A q \in Procs : Holds(q)' <=> Holds(q)
  BY <1>1 DEF Holds
<1>3. config' = before' \/ \E q \in Procs : Holds(q)'
  BY <1>2 DEF Kept
<1>4. config' \in {Empty, before'} \/ \E q \in Procs : saved'[q].config /\ pc'[q] # "c_fill"
  BY <1>1 DEF Kept
<1>5. ASSUME NEW q \in Procs
      PROVE  /\ Holds(q)' => content'[q] = before' /\ rights'[q] # "user"
             /\ saved'[q].config => pc'[q] \in Keeping
             /\ pc'[q] = "c_fill" => saved'[q].config
             /\ pc'[q] = "e_write" => \/ content'[q] = before'
                                      \/ disabled'[content'[q]] = content'[q]
  BY <1>1, <1>2 DEF Kept
<1>. QED BY <1>3, <1>4, <1>5 DEF Kept

\* Every step keeps the user's configuration, or a process that has it, or spoils it.
LEMMA ConfigOwnedNext == TypeOK /\ RightsFit /\ ConfigOwned /\ [Next]_vars => ConfigOwned'
<1>. SUFFICES ASSUME TypeOK, RightsFit, Kept, [Next]_vars, ~Spoiled' PROVE Kept'
  BY SpoiledStays DEF ConfigOwned
<1>. USE DEF Goto, Rewritten, vars, guards, exits, watches, station, usb, lost, history
<1>0. ~risk' /\ \A q \in Procs : ~signalled'[q] /\ pc'[q] # "killed"
  BY DEF Spoiled
<1>1. ASSUME NEW p \in Procs, pc[p] \notin Keeping PROVE ~saved[p].config
  BY <1>1 DEF Kept
<1>2. ASSUME NEW p \in Procs, Start(p) PROVE Kept'
  <2>1. /\ pc' = [pc EXCEPT ![p] = pc'[p]] /\ pc[p] # "e_fill"
        /\ pc'[p] \notin {"e_write", "e_fill", "c_fill"}
        /\ saved[p].config => pc'[p] \in Keeping
    BY <1>1, <1>2 DEF TypeOK, Start, Keeping, Over
  <2>2. /\ UNCHANGED <<config, content, before, disabled, rights>>
        /\ \A q \in Procs : saved'[q].config = saved[q].config
    BY <1>2 DEF TypeOK, Start
  <2>. QED BY <2>1, <2>2, QuietKeeps
<1>3. ASSUME NEW p \in Procs, EnableDefault(p) PROVE Kept'
  <2>1. /\ pc' = [pc EXCEPT ![p] = pc'[p]] /\ pc[p] # "e_fill"
        /\ pc'[p] \notin {"e_write", "e_fill", "c_fill"}
        /\ saved[p].config => pc'[p] \in Keeping
    BY <1>1, <1>3 DEF TypeOK, EnableDefault, Keeping, Over
  <2>2. /\ UNCHANGED <<config, content, before, disabled, rights>>
        /\ \A q \in Procs : saved'[q].config = saved[q].config
    BY <1>3 DEF TypeOK, EnableDefault
  <2>. QED BY <2>1, <2>2, QuietKeeps
<1>4. ASSUME NEW p \in Procs, EnableRule(p) PROVE Kept'
  <2>1. /\ pc' = [pc EXCEPT ![p] = pc'[p]] /\ pc[p] # "e_fill"
        /\ pc'[p] \notin {"e_write", "e_fill", "c_fill"}
        /\ saved[p].config => pc'[p] \in Keeping
    BY <1>1, <1>4 DEF TypeOK, EnableRule, Keeping, Over
  <2>2. /\ UNCHANGED <<config, content, before, disabled, rights>>
        /\ \A q \in Procs : saved'[q].config = saved[q].config
    BY <1>4 DEF TypeOK, EnableRule
  <2>. QED BY <2>1, <2>2, QuietKeeps
<1>5. ASSUME NEW p \in Procs, EnableServices(p) PROVE Kept'
  <2>1. /\ pc' = [pc EXCEPT ![p] = pc'[p]] /\ pc[p] # "e_fill"
        /\ pc'[p] \notin {"e_write", "e_fill", "c_fill"}
        /\ saved[p].config => pc'[p] \in Keeping
    BY <1>1, <1>5 DEF TypeOK, EnableServices, Keeping, Over
  <2>2. /\ UNCHANGED <<config, content, before, disabled, rights>>
        /\ \A q \in Procs : saved'[q].config = saved[q].config
    BY <1>5 DEF TypeOK, EnableServices
  <2>. QED BY <2>1, <2>2, QuietKeeps
<1>6. ASSUME NEW p \in Procs, EnableDesktop(p) PROVE Kept'
  <2>1. /\ pc' = [pc EXCEPT ![p] = pc'[p]] /\ pc[p] # "e_fill"
        /\ pc'[p] \notin {"e_write", "e_fill", "c_fill"}
        /\ saved[p].config => pc'[p] \in Keeping
    BY <1>1, <1>6 DEF TypeOK, EnableDesktop, Keeping, Over
  <2>2. UNCHANGED <<config, content, before, disabled, rights>>
    BY <1>6 DEF EnableDesktop
  <2>3. \A q \in Procs : saved'[q].config = saved[q].config
    <3>1. saved' = saved \/ saved' = [saved EXCEPT ![p].automount = TRUE]
      BY <1>6 DEF EnableDesktop
    <3>. QED BY <3>1 DEF TypeOK
  <2>. QED BY <2>1, <2>2, <2>3, QuietKeeps
<1>7. ASSUME NEW p \in Procs, Inspect(p) PROVE Kept'
  <2>1. /\ pc' = [pc EXCEPT ![p] = pc'[p]] /\ pc[p] # "e_fill"
        /\ pc'[p] \notin {"e_write", "e_fill", "c_fill"}
        /\ saved[p].config => pc'[p] \in Keeping
    BY <1>1, <1>7 DEF TypeOK, Inspect, Keeping, Over
  <2>2. /\ UNCHANGED <<config, content, before, disabled, rights>>
        /\ \A q \in Procs : saved'[q].config = saved[q].config
    BY <1>7 DEF TypeOK, Inspect
  <2>. QED BY <2>1, <2>2, QuietKeeps
<1>8. ASSUME NEW p \in Procs, Authorize(p) PROVE Kept'
  <2>1. /\ pc' = [pc EXCEPT ![p] = pc'[p]] /\ pc[p] # "e_fill"
        /\ pc'[p] \notin {"e_write", "e_fill", "c_fill"}
        /\ saved[p].config => pc'[p] \in Keeping
    BY <1>1, <1>8 DEF TypeOK, Authorize, Keeping, Over
  <2>2. /\ UNCHANGED <<config, content, before, disabled, rights>>
        /\ \A q \in Procs : saved'[q].config = saved[q].config
    BY <1>8 DEF TypeOK, Authorize
  <2>. QED BY <2>1, <2>2, QuietKeeps
<1>9. ASSUME NEW p \in Procs, Return(p) PROVE Kept'
  <2>1. /\ pc' = [pc EXCEPT ![p] = pc'[p]] /\ pc[p] # "e_fill"
        /\ pc'[p] \notin {"e_write", "e_fill", "c_fill"}
        /\ saved[p].config => pc'[p] \in Keeping
    <3>1. CASE rights[p] = "root"
      BY <1>1, <1>9, <3>1 DEF TypeOK, Return, Keeping
    <3>2. CASE rights[p] = "user"
      BY <1>1, <1>9, <3>2 DEF TypeOK, Return, Keeping, Kept, Holds
    <3>3. CASE rights[p] = "boxed"
      BY <1>1, <1>9, <3>3 DEF TypeOK, Return, Keeping
    <3>. QED BY <3>1, <3>2, <3>3 DEF TypeOK
  <2>2. /\ UNCHANGED <<config, content, before, disabled, rights>>
        /\ \A q \in Procs : saved'[q].config = saved[q].config
    BY <1>9 DEF TypeOK, Return
  <2>. QED BY <2>1, <2>2, QuietKeeps
<1>10. ASSUME NEW p \in Procs, CloseDefault(p) PROVE Kept'
  <2>1. /\ pc' = [pc EXCEPT ![p] = pc'[p]] /\ pc[p] # "e_fill"
        /\ pc'[p] \notin {"e_write", "e_fill", "c_fill"}
        /\ saved[p].config => pc'[p] \in Keeping
    BY <1>1, <1>10 DEF TypeOK, CloseDefault, Keeping, Over
  <2>2. /\ UNCHANGED <<config, content, before, disabled, rights>>
        /\ \A q \in Procs : saved'[q].config = saved[q].config
    BY <1>10 DEF TypeOK, CloseDefault
  <2>. QED BY <2>1, <2>2, QuietKeeps
<1>11. ASSUME NEW p \in Procs, CloseRule(p) PROVE Kept'
  <2>1. /\ pc' = [pc EXCEPT ![p] = pc'[p]] /\ pc[p] # "e_fill"
        /\ pc'[p] \notin {"e_write", "e_fill", "c_fill"}
        /\ saved[p].config => pc'[p] \in Keeping
    BY <1>1, <1>11 DEF TypeOK, CloseRule, Keeping, Over
  <2>2. /\ UNCHANGED <<config, content, before, disabled, rights>>
        /\ \A q \in Procs : saved'[q].config = saved[q].config
    BY <1>11 DEF TypeOK, CloseRule
  <2>. QED BY <2>1, <2>2, QuietKeeps
<1>12. ASSUME NEW p \in Procs, CloseServices(p) PROVE Kept'
  <2>1. /\ pc' = [pc EXCEPT ![p] = pc'[p]] /\ pc[p] # "e_fill"
        /\ pc'[p] \notin {"e_write", "e_fill", "c_fill"}
        /\ saved[p].config => pc'[p] \in Keeping
    BY <1>1, <1>12 DEF TypeOK, CloseServices, Keeping, Over
  <2>2. /\ UNCHANGED <<config, content, before, disabled, rights>>
        /\ \A q \in Procs : saved'[q].config = saved[q].config
    BY <1>12 DEF TypeOK, CloseServices
  <2>. QED BY <2>1, <2>2, QuietKeeps
<1>13. ASSUME NEW p \in Procs, LingerRule(p) PROVE Kept'
  <2>1. /\ pc' = [pc EXCEPT ![p] = pc'[p]] /\ pc[p] # "e_fill"
        /\ pc'[p] \notin {"e_write", "e_fill", "c_fill"}
        /\ saved[p].config => pc'[p] \in Keeping
    BY <1>1, <1>13 DEF TypeOK, LingerRule, Keeping, Over
  <2>2. /\ UNCHANGED <<config, content, before, disabled, rights>>
        /\ \A q \in Procs : saved'[q].config = saved[q].config
    BY <1>13 DEF TypeOK, LingerRule
  <2>. QED BY <2>1, <2>2, QuietKeeps
<1>14. ASSUME NEW p \in Procs, LingerDevices(p) PROVE Kept'
  <2>1. /\ pc' = [pc EXCEPT ![p] = pc'[p]] /\ pc[p] # "e_fill"
        /\ pc'[p] \notin {"e_write", "e_fill", "c_fill"}
        /\ saved[p].config => pc'[p] \in Keeping
    BY <1>1, <1>14 DEF TypeOK, LingerDevices, Keeping, Over
  <2>2. /\ UNCHANGED <<config, content, before, disabled, rights>>
        /\ \A q \in Procs : saved'[q].config = saved[q].config
    BY <1>14 DEF TypeOK, LingerDevices
  <2>. QED BY <2>1, <2>2, QuietKeeps
<1>15. ASSUME NEW p \in Procs, LingerServices(p) PROVE Kept'
  <2>1. /\ pc' = [pc EXCEPT ![p] = pc'[p]] /\ pc[p] # "e_fill"
        /\ pc'[p] \notin {"e_write", "e_fill", "c_fill"}
        /\ saved[p].config => pc'[p] \in Keeping
    BY <1>1, <1>15 DEF TypeOK, LingerServices, Keeping, Over
  <2>2. /\ UNCHANGED <<config, content, before, disabled, rights>>
        /\ \A q \in Procs : saved'[q].config = saved[q].config
    BY <1>15 DEF TypeOK, LingerServices
  <2>. QED BY <2>1, <2>2, QuietKeeps
<1>16. ASSUME NEW p \in Procs, LingerDesktop(p) PROVE Kept'
  <2>1. /\ pc' = [pc EXCEPT ![p] = pc'[p]] /\ pc[p] # "e_fill"
        /\ pc'[p] \notin {"e_write", "e_fill", "c_fill"}
        /\ saved[p].config => pc'[p] \in Keeping
    <3>1. PICK next \in {"l_rule", "signalled", "gone"} : pc' = [pc EXCEPT ![p] = next]
      BY <1>16, LingerOn DEF TypeOK
    <3>2. pc[p] = "l_desktop"
      BY <1>16 DEF LingerDesktop
    <3>. QED BY <1>1, <3>1, <3>2 DEF TypeOK, Keeping
  <2>2. /\ UNCHANGED <<config, content, before, disabled, rights>>
        /\ \A q \in Procs : saved'[q].config = saved[q].config
    BY <1>16 DEF TypeOK, LingerDesktop
  <2>. QED BY <2>1, <2>2, QuietKeeps
<1>17. ASSUME NEW p \in Procs, NEW d \in Ports, Look(p, d) \/ Pick(p, d) PROVE Kept'
  <2>1. /\ pc' = [pc EXCEPT ![p] = pc'[p]] /\ pc[p] # "e_fill"
        /\ pc'[p] \notin {"e_write", "e_fill", "c_fill"}
        /\ saved[p].config => pc'[p] \in Keeping
    BY <1>17 DEF TypeOK, Look, Pick, Keeping
  <2>2. UNCHANGED <<config, content, before, disabled, rights, saved>>
    BY <1>17 DEF Look, Pick
  <2>. QED BY <2>1, <2>2, QuietKeeps
<1>18. ASSUME NEW p \in Procs, Interrupt(p) PROVE Kept'
  <2>1. rights[p] = "boxed" /\ pc' = [pc EXCEPT ![p] = "unprivileged"]
    BY <1>0, <1>18 DEF TypeOK, Interrupt
  <2>2. pc[p] # "e_fill" /\ UNCHANGED <<config, content, before, disabled, rights, saved>>
    BY <1>18, <2>1 DEF Interrupt, RightsFit
  <2>. QED BY <2>1, <2>2, QuietKeeps DEF Keeping
<1>19. ASSUME NEW p \in Procs, Kill(p) PROVE Kept'
  BY <1>0, <1>19 DEF TypeOK, Kill
<1>20. CASE Kernel \/ UNCHANGED vars \/ \E p \in Procs : DropPrivileges(p)
  <2>1. /\ UNCHANGED <<pc, config, content, saved, before, disabled>>
        /\ \A q \in Procs : rights'[q] = "user" => rights[q] = "user"
    BY <1>20 DEF TypeOK, Kernel, PlugIn, PullOut, DropPrivileges
  <2>2. \A q \in Procs : Holds(q)' <=> Holds(q)
    BY <2>1 DEF Holds
  <2>. QED BY <2>1, <2>2 DEF Kept
<1>21. ASSUME NEW p \in Procs, ReadConfig(p) PROVE Kept'
  <2>1. \A q \in Procs : pc'[q] = IF q = p THEN "e_write" ELSE pc[q]
    BY <1>21 DEF TypeOK, ReadConfig
  <2>2. /\ pc[p] = "e_read" /\ ~Holds(p)
        /\ UNCHANGED <<config, saved, before, disabled, rights>>
    BY <1>1, <1>21 DEF ReadConfig, Keeping, Holds
  <2>3. \A q \in Procs : Holds(q)' <=> Holds(q)
    BY <2>1, <2>2 DEF Holds
  <2>4. \A q \in Procs : content'[q] = IF q = p THEN config ELSE content[q]
    BY <1>21 DEF TypeOK, ReadConfig
  <2>5. config = before \/ disabled[config] = config
    BY <1>0, <1>21, <2>2 DEF ReadConfig, Kept
  <2>6. config' = before' \/ \E q \in Procs : Holds(q)'
    BY <2>2, <2>3 DEF Kept
  <2>7. config' \in {Empty, before'} \/ \E q \in Procs : saved'[q].config /\ pc'[q] # "c_fill"
    BY <2>1, <2>2 DEF Kept
  <2>8. ASSUME NEW q \in Procs
        PROVE  /\ Holds(q)' => content'[q] = before' /\ rights'[q] # "user"
               /\ saved'[q].config => pc'[q] \in Keeping
               /\ pc'[q] = "c_fill" => saved'[q].config
               /\ pc'[q] = "e_write" => \/ content'[q] = before'
                                        \/ disabled'[content'[q]] = content'[q]
    BY <2>1, <2>2, <2>3, <2>4, <2>5 DEF Kept, Holds
  <2>. QED BY <2>6, <2>7, <2>8 DEF Kept
<1>22. ASSUME NEW p \in Procs, TruncateConfig(p) PROVE Kept'
  <2>1. /\ pc[p] = "e_write" /\ ~saved[p].config /\ rights[p] # "user"
        /\ UNCHANGED <<content, saved, before, disabled, rights>>
    BY <1>1, <1>22 DEF TruncateConfig, Keeping, RightsFit
  <2>2. CASE pc' = [pc EXCEPT ![p] = "up"] /\ config' = config
    BY <2>1, <2>2, QuietKeeps DEF Keeping
  <2>3. CASE disabled[content[p]] # content[p] /\ config' = Empty /\ pc' = [pc EXCEPT ![p] = "e_fill"]
    <3>1. \A q \in Procs : pc'[q] = IF q = p THEN "e_fill" ELSE pc[q]
      BY <2>3 DEF TypeOK
    <3>2. content[p] = before
      BY <2>1, <2>3 DEF Kept
    <3>3. \A q \in Procs : q # p => (Holds(q)' <=> Holds(q))
      BY <2>1, <3>1 DEF Holds
    <3>4. Holds(p)'
      BY <3>1 DEF Holds
    <3>5. ASSUME NEW q \in Procs
          PROVE  /\ Holds(q)' => content'[q] = before' /\ rights'[q] # "user"
                 /\ saved'[q].config => pc'[q] \in Keeping
                 /\ pc'[q] = "c_fill" => saved'[q].config
                 /\ pc'[q] = "e_write" => \/ content'[q] = before'
                                          \/ disabled'[content'[q]] = content'[q]
      BY <2>1, <3>1, <3>2, <3>3 DEF Kept
    <3>. QED BY <2>3, <3>4, <3>5 DEF Kept
  <2>. QED BY <1>22, <2>2, <2>3 DEF TruncateConfig
<1>23. ASSUME NEW p \in Procs, WriteConfig(p) PROVE Kept'
  <2>1. /\ pc[p] = "e_fill" /\ rights[p] # "user"
        /\ UNCHANGED <<content, before, disabled, rights>>
        /\ content[p] = before
    BY <1>23 DEF WriteConfig, RightsFit, Kept, Holds
  <2>2. \A q \in Procs : pc'[q] = IF q = p THEN "up" ELSE pc[q]
    BY <1>23 DEF TypeOK, WriteConfig
  <2>3. \A q \in Procs : saved'[q].config = IF q = p THEN TRUE ELSE saved[q].config
    <3>1. saved' = [saved EXCEPT ![p].config = TRUE]
      BY <1>0, <1>23 DEF WriteConfig
    <3>. QED BY <3>1 DEF TypeOK
  <2>4. \A q \in Procs : q # p => (Holds(q)' <=> Holds(q))
    BY <2>2, <2>3 DEF Holds
  <2>6. Holds(p)' /\ saved'[p].config /\ pc'[p] # "c_fill"
    BY <2>2, <2>3 DEF Holds
  <2>7. \E q \in Procs : Holds(q)' /\ saved'[q].config /\ pc'[q] # "c_fill"
    BY <2>6
  <2>8. ASSUME NEW q \in Procs
        PROVE  /\ Holds(q)' => content'[q] = before' /\ rights'[q] # "user"
               /\ saved'[q].config => pc'[q] \in Keeping
               /\ pc'[q] = "c_fill" => saved'[q].config
               /\ pc'[q] = "e_write" => \/ content'[q] = before'
                                        \/ disabled'[content'[q]] = content'[q]
    BY <2>1, <2>2, <2>3, <2>4 DEF Kept, Keeping
  <2>. QED BY <2>6, <2>7, <2>8 DEF Kept
<1>24. ASSUME NEW p \in Procs, CloseSettings(p) PROVE Kept'
  <2>1. /\ pc[p] = "c_settings" /\ UNCHANGED <<content, before, disabled, rights>>
    BY <1>24 DEF CloseSettings
  <2>2. CASE saved[p].config
    <3>1. config' = Empty /\ saved' = saved
      BY <1>0, <1>24, <2>2 DEF CloseSettings
    <3>2. \A q \in Procs : pc'[q] = IF q = p THEN "c_fill" ELSE pc[q]
      BY <1>0, <1>24, <2>2 DEF TypeOK, CloseSettings
    <3>3. \A q \in Procs : Holds(q)' <=> Holds(q)
      BY <2>1, <3>1, <3>2 DEF Holds
    <3>4. Holds(p)'
      BY <2>2, <3>1 DEF Holds
    <3>5. ASSUME NEW q \in Procs
          PROVE  /\ Holds(q)' => content'[q] = before' /\ rights'[q] # "user"
                 /\ saved'[q].config => pc'[q] \in Keeping
                 /\ pc'[q] = "c_fill" => saved'[q].config
                 /\ pc'[q] = "e_write" => \/ content'[q] = before'
                                          \/ disabled'[content'[q]] = content'[q]
      BY <2>1, <2>2, <3>1, <3>2, <3>3 DEF Kept, Keeping
    <3>. QED BY <3>1, <3>4, <3>5 DEF Kept
  <2>3. CASE ~saved[p].config
    <3>1. pc' = [pc EXCEPT ![p] = "l_rule"] /\ config' = config
      BY <1>24, <2>3 DEF CloseSettings
    <3>2. \A q \in Procs : saved'[q].config = saved[q].config
      <4>1. saved' = [saved EXCEPT ![p] = Nothing]
        BY <1>24, <2>3 DEF CloseSettings
      <4>2. \A q \in Procs : saved'[q] = IF q = p THEN Nothing ELSE saved[q]
        BY <4>1 DEF TypeOK
      <4>3. Nothing.config = FALSE /\ saved[p].config = FALSE
        BY <2>3 DEF TypeOK, Nothing
      <4>. QED BY <4>2, <4>3
    <3>. QED BY <2>1, <2>3, <3>1, <3>2, QuietKeeps
  <2>. QED BY <2>2, <2>3
<1>25. ASSUME NEW p \in Procs, CloseConfig(p) PROVE Kept'
  <2>1. /\ pc[p] = "c_fill" /\ UNCHANGED <<content, before, disabled, rights>>
        /\ Fill(content[p]) /\ content[p] = before
    BY <1>0, <1>25 DEF CloseConfig, Kept, Holds
  <2>2. \A q \in Procs : pc'[q] = IF q = p THEN "l_rule" ELSE pc[q]
    BY <1>25 DEF TypeOK, CloseConfig
  <2>3. \A q \in Procs : saved'[q].config = IF q = p THEN FALSE ELSE saved[q].config
    BY <1>25 DEF TypeOK, CloseConfig, Nothing
  <2>4. \A q \in Procs : Holds(q)' => Holds(q) /\ q # p
    BY <2>2, <2>3 DEF Holds
  <2>5. \/ config' = before'
        \/ \E q \in Procs : Holds(q)' /\ saved'[q].config /\ pc'[q] # "c_fill"
    <3>1. CASE config \in {Empty, before}
      BY <2>1, <3>1 DEF Fill
    <3>2. CASE config \notin {Empty, before}
      <4>1. PICK q \in Procs : saved[q].config /\ pc[q] # "c_fill"
        BY <3>2 DEF Kept
      <4>. QED BY <2>1, <2>2, <2>3, <4>1 DEF Holds
    <3>. QED BY <3>1, <3>2
  <2>6. config' = before' \/ \E q \in Procs : Holds(q)'
    BY <2>5
  <2>7. config' \in {Empty, before'} \/ \E q \in Procs : saved'[q].config /\ pc'[q] # "c_fill"
    BY <2>5
  <2>8. ASSUME NEW q \in Procs
        PROVE  /\ Holds(q)' => content'[q] = before' /\ rights'[q] # "user"
               /\ saved'[q].config => pc'[q] \in Keeping
               /\ pc'[q] = "c_fill" => saved'[q].config
               /\ pc'[q] = "e_write" => \/ content'[q] = before'
                                        \/ disabled'[content'[q]] = content'[q]
    BY <2>1, <2>2, <2>3, <2>4 DEF Kept
  <2>. QED BY <2>6, <2>7, <2>8 DEF Kept
<1>. QED
  BY <1>2, <1>3, <1>4, <1>5, <1>6, <1>7, <1>8, <1>9, <1>10, <1>11, <1>12, <1>13, <1>14, <1>15, <1>16, <1>17, <1>18, <1>19, <1>20, <1>21, <1>22, <1>23, <1>24, <1>25
     DEF Next, Step, Enable, Leave, Finished

\* Every step keeps BadUSB devices away from what is approved.
LEMMA ApprovedCleanNext == TypeOK /\ Counting /\ ApprovedClean /\ [Next]_vars => ApprovedClean'
<1>. SUFFICES ASSUME TypeOK, Counting, ApprovedClean, [Next]_vars PROVE ApprovedClean'
  OBVIOUS
<1>. USE DEF TypeOK, ApprovedClean, Goto, Rewritten, vars, guards, exits, watches, station, usb, lost, history
<1>1. ASSUME NEW p \in Procs, Start(p) PROVE ApprovedClean'
  BY <1>1 DEF Start, Counting, Blocked, IsRoot, Shown, Found
<1>2. ASSUME NEW p \in Procs, EnableDefault(p) PROVE ApprovedClean'
  BY <1>2 DEF EnableDefault, Counting, Blocked, IsRoot, Shown, Found
<1>3. ASSUME NEW p \in Procs, EnableRule(p) PROVE ApprovedClean'
  BY <1>3 DEF EnableRule, Counting, Blocked, IsRoot, Shown, Found
<1>4. ASSUME NEW p \in Procs, EnableServices(p) PROVE ApprovedClean'
  BY <1>4 DEF EnableServices, Counting, Blocked, IsRoot, Shown, Found
<1>5. ASSUME NEW p \in Procs, EnableDesktop(p) PROVE ApprovedClean'
  BY <1>5 DEF EnableDesktop, Counting, Blocked, IsRoot, Shown, Found
<1>6. ASSUME NEW p \in Procs, ReadConfig(p) PROVE ApprovedClean'
  BY <1>6 DEF ReadConfig, Counting, Blocked, IsRoot, Shown, Found
<1>7. ASSUME NEW p \in Procs, WriteConfig(p) PROVE ApprovedClean'
  BY <1>7 DEF WriteConfig, Counting, Blocked, IsRoot, Shown, Found
<1>8. ASSUME NEW p \in Procs, Inspect(p) PROVE ApprovedClean'
  BY <1>8 DEF Inspect, Counting, Blocked, IsRoot, Shown, Found
<1>9. ASSUME NEW p \in Procs, Authorize(p) PROVE ApprovedClean'
  BY <1>9 DEF Authorize, Counting, Blocked, IsRoot, Shown, Found
<1>10. ASSUME NEW p \in Procs, DropPrivileges(p) PROVE ApprovedClean'
  BY <1>10 DEF DropPrivileges, Counting, Blocked, IsRoot, Shown, Found
<1>11. ASSUME NEW p \in Procs, Return(p) PROVE ApprovedClean'
  <2>1. CASE rights[p] = "root"
    BY <1>11, <2>1 DEF Return, Counting, Blocked, IsRoot, Shown, Found
  <2>2. CASE rights[p] = "user"
    BY <1>11, <2>2 DEF Return, Counting, Blocked, IsRoot, Shown, Found
  <2>3. CASE rights[p] = "boxed"
    BY <1>11, <2>3 DEF Return, Counting, Blocked, IsRoot, Shown, Found
  <2>. QED BY <2>1, <2>2, <2>3
<1>12. ASSUME NEW p \in Procs, CloseDefault(p) PROVE ApprovedClean'
  BY <1>12 DEF CloseDefault, Counting, Blocked, IsRoot, Shown, Found
<1>13. ASSUME NEW p \in Procs, CloseRule(p) PROVE ApprovedClean'
  BY <1>13 DEF CloseRule, Counting, Blocked, IsRoot, Shown, Found
<1>14. ASSUME NEW p \in Procs, CloseServices(p) PROVE ApprovedClean'
  BY <1>14 DEF CloseServices, Counting, Blocked, IsRoot, Shown, Found
<1>15. ASSUME NEW p \in Procs, CloseSettings(p) PROVE ApprovedClean'
  BY <1>15 DEF CloseSettings, Counting, Blocked, IsRoot, Shown, Found
<1>16. ASSUME NEW p \in Procs, LingerRule(p) PROVE ApprovedClean'
  BY <1>16 DEF LingerRule, Counting, Blocked, IsRoot, Shown, Found
<1>17. ASSUME NEW p \in Procs, LingerDevices(p) PROVE ApprovedClean'
  BY <1>17 DEF LingerDevices, Counting, Blocked, IsRoot, Shown, Found
<1>18. ASSUME NEW p \in Procs, LingerServices(p) PROVE ApprovedClean'
  BY <1>18 DEF LingerServices, Counting, Blocked, IsRoot, Shown, Found
<1>19. ASSUME NEW p \in Procs, LingerDesktop(p) PROVE ApprovedClean'
  BY <1>19 DEF LingerDesktop, Counting, Blocked, IsRoot, Shown, Found
<1>20. ASSUME NEW p \in Procs, Interrupt(p) PROVE ApprovedClean'
  <2>1. CASE rights[p] = "boxed"
    BY <1>20, <2>1 DEF Interrupt, Counting, Blocked, IsRoot, Shown, Found
  <2>2. CASE rights[p] # "boxed"
    BY <1>20, <2>2 DEF Interrupt, Counting, Blocked, IsRoot, Shown, Found
  <2>. QED BY <2>1, <2>2
<1>21. ASSUME NEW p \in Procs, Kill(p) PROVE ApprovedClean'
  BY <1>21 DEF Kill, Counting, Blocked, IsRoot, Shown, Found
<1>22. ASSUME NEW p \in Procs, NEW d \in Ports, Look(p, d) PROVE ApprovedClean'
  BY <1>22 DEF Look, Counting, Blocked, IsRoot, Shown, Found
<1>23. ASSUME NEW p \in Procs, NEW d \in Ports, Pick(p, d) PROVE ApprovedClean'
  BY <1>23 DEF Pick, Counting, Blocked, IsRoot, Shown, Found
<1>24. ASSUME NEW d \in Ports, NEW kind \in Devices, PlugIn(d, kind) PROVE ApprovedClean'
  BY <1>24 DEF PlugIn, Counting, Blocked, IsRoot, Shown, Found
<1>25. ASSUME NEW d \in Ports, PullOut(d) PROVE ApprovedClean'
  BY <1>25 DEF PullOut, Counting, Blocked, IsRoot, Shown, Found
<1>26. CASE UNCHANGED vars
  BY <1>26 DEF Counting, Blocked, IsRoot, Shown, Found
<1>27. ASSUME NEW p \in Procs, TruncateConfig(p) PROVE ApprovedClean'
  BY <1>27 DEF TruncateConfig, Counting, Blocked, IsRoot, Shown, Found
<1>28. ASSUME NEW p \in Procs, CloseConfig(p) PROVE ApprovedClean'
  BY <1>28 DEF CloseConfig, Counting, Blocked, IsRoot, Shown, Found
<1>. QED
  BY <1>1, <1>2, <1>3, <1>4, <1>5, <1>6, <1>7, <1>8, <1>9, <1>10, <1>11, <1>12, <1>13, <1>14, <1>15, <1>16, <1>17, <1>18, <1>19, <1>20, <1>21, <1>22, <1>23, <1>24, <1>25, <1>26, <1>27, <1>28
     DEF Next, Step, Enable, Leave, Kernel, Finished

\* Every step keeps refused devices shut until a process leaves.
LEMMA RefusedShutNext == TypeOK /\ Counting /\ RightsFit /\ ApprovedClean /\ RefusedShut /\ [Next]_vars => RefusedShut'
<1>. SUFFICES ASSUME TypeOK, Counting, RightsFit, ApprovedClean, RefusedShut, [Next]_vars PROVE RefusedShut'
  OBVIOUS
<1>. USE DEF TypeOK, RefusedShut, Goto, Rewritten, vars, guards, exits, watches, station, usb, lost, history
<1>1. ASSUME NEW p \in Procs, Start(p) PROVE RefusedShut'
  BY <1>1 DEF Start, Exiting, RightsFit, Counting, Blocked, IsRoot, Shown, Found, ApprovedClean, Over
<1>2. ASSUME NEW p \in Procs, EnableDefault(p) PROVE RefusedShut'
  BY <1>2 DEF EnableDefault, Exiting, RightsFit, Counting, Blocked, IsRoot, Shown, Found, ApprovedClean, Over
<1>3. ASSUME NEW p \in Procs, EnableRule(p) PROVE RefusedShut'
  BY <1>3 DEF EnableRule, Exiting, RightsFit, Counting, Blocked, IsRoot, Shown, Found, ApprovedClean, Over
<1>4. ASSUME NEW p \in Procs, EnableServices(p) PROVE RefusedShut'
  BY <1>4 DEF EnableServices, Exiting, RightsFit, Counting, Blocked, IsRoot, Shown, Found, ApprovedClean, Over
<1>5. ASSUME NEW p \in Procs, EnableDesktop(p) PROVE RefusedShut'
  BY <1>5 DEF EnableDesktop, Exiting, RightsFit, Counting, Blocked, IsRoot, Shown, Found, ApprovedClean, Over
<1>6. ASSUME NEW p \in Procs, ReadConfig(p) PROVE RefusedShut'
  BY <1>6 DEF ReadConfig, Exiting, RightsFit, Counting, Blocked, IsRoot, Shown, Found, ApprovedClean, Over
<1>7. ASSUME NEW p \in Procs, WriteConfig(p) PROVE RefusedShut'
  BY <1>7 DEF WriteConfig, Exiting, RightsFit, Counting, Blocked, IsRoot, Shown, Found, ApprovedClean, Over
<1>8. ASSUME NEW p \in Procs, Inspect(p) PROVE RefusedShut'
  BY <1>8 DEF Inspect, Exiting, RightsFit, Counting, Blocked, IsRoot, Shown, Found, ApprovedClean, Over
<1>9. ASSUME NEW p \in Procs, Authorize(p) PROVE RefusedShut'
  <2>1. ASSUME NEW d \in refused, authorized'[d] = 1 PROVE authorized[d] = 1 \/ d \in blind
    <3>1. CASE d = pending[p] /\ IsRoot(p)
      BY <1>9, <2>1, <3>1 DEF Authorize, ApprovedClean, IsRoot
    <3>2. CASE ~(d = pending[p] /\ IsRoot(p))
      BY <1>9, <2>1, <3>2 DEF Authorize
    <3>. QED BY <3>1, <3>2
  <2>2. ASSUME NEW q \in Procs, Exiting(q) PROVE Exiting(q)'
    BY <1>9, <2>2 DEF Authorize, Exiting
  <2>3. UNCHANGED <<device, refused, blind>>
    BY <1>9 DEF Authorize
  <2>. QED BY <2>1, <2>2, <2>3
<1>10. ASSUME NEW p \in Procs, DropPrivileges(p) PROVE RefusedShut'
  BY <1>10 DEF DropPrivileges, Exiting, RightsFit, Counting, Blocked, IsRoot, Shown, Found, ApprovedClean, Over
<1>11. ASSUME NEW p \in Procs, Return(p) PROVE RefusedShut'
  <2>1. CASE rights[p] = "root"
    BY <1>11, <2>1 DEF Return, Exiting, RightsFit, Counting, Blocked, IsRoot, Shown, Found, ApprovedClean, Over
  <2>2. CASE rights[p] = "user"
    BY <1>11, <2>2 DEF Return, Exiting, RightsFit, Counting, Blocked, IsRoot, Shown, Found, ApprovedClean, Over
  <2>3. CASE rights[p] = "boxed"
    <3>1. pc' = [pc EXCEPT ![p] = "unprivileged"] /\ UNCHANGED <<authorized, device, refused, blind>>
      BY <1>11, <2>3 DEF Return
    <3>2. ~Exiting(p)
      BY <1>11 DEF Return, Exiting
    <3>. QED BY <3>1, <3>2 DEF Exiting
  <2>. QED BY <2>1, <2>2, <2>3
<1>12. ASSUME NEW p \in Procs, CloseDefault(p) PROVE RefusedShut'
  BY <1>12 DEF CloseDefault, Exiting, RightsFit, Counting, Blocked, IsRoot, Shown, Found, ApprovedClean, Over
<1>13. ASSUME NEW p \in Procs, CloseRule(p) PROVE RefusedShut'
  BY <1>13 DEF CloseRule, Exiting, RightsFit, Counting, Blocked, IsRoot, Shown, Found, ApprovedClean, Over
<1>14. ASSUME NEW p \in Procs, CloseServices(p) PROVE RefusedShut'
  BY <1>14 DEF CloseServices, Exiting, RightsFit, Counting, Blocked, IsRoot, Shown, Found, ApprovedClean, Over
<1>15. ASSUME NEW p \in Procs, CloseSettings(p) PROVE RefusedShut'
  BY <1>15 DEF CloseSettings, Exiting, RightsFit, Counting, Blocked, IsRoot, Shown, Found, ApprovedClean, Over
<1>16. ASSUME NEW p \in Procs, LingerRule(p) PROVE RefusedShut'
  BY <1>16 DEF LingerRule, Exiting, RightsFit, Counting, Blocked, IsRoot, Shown, Found, ApprovedClean, Over
<1>17. ASSUME NEW p \in Procs, LingerDevices(p) PROVE RefusedShut'
  BY <1>17 DEF LingerDevices, Exiting, RightsFit, Counting, Blocked, IsRoot, Shown, Found, ApprovedClean, Over
<1>18. ASSUME NEW p \in Procs, LingerServices(p) PROVE RefusedShut'
  BY <1>18 DEF LingerServices, Exiting, RightsFit, Counting, Blocked, IsRoot, Shown, Found, ApprovedClean, Over
<1>19. ASSUME NEW p \in Procs, LingerDesktop(p) PROVE RefusedShut'
  BY <1>19 DEF LingerDesktop, Exiting, RightsFit, Counting, Blocked, IsRoot, Shown, Found, ApprovedClean, Over
<1>20. ASSUME NEW p \in Procs, Interrupt(p) PROVE RefusedShut'
  <2>1. CASE rights[p] = "boxed"
    BY <1>20, <2>1 DEF Interrupt, Exiting, RightsFit, Counting, Blocked, IsRoot, Shown, Found, ApprovedClean, Over
  <2>2. CASE rights[p] # "boxed"
    BY <1>20, <2>2 DEF Interrupt, Exiting, RightsFit, Counting, Blocked, IsRoot, Shown, Found, ApprovedClean, Over
  <2>. QED BY <2>1, <2>2
<1>21. ASSUME NEW p \in Procs, Kill(p) PROVE RefusedShut'
  BY <1>21 DEF Kill, Exiting, RightsFit, Counting, Blocked, IsRoot, Shown, Found, ApprovedClean, Over
<1>22. ASSUME NEW p \in Procs, NEW d \in Ports, Look(p, d) PROVE RefusedShut'
  BY <1>22 DEF Look, Exiting, RightsFit, Counting, Blocked, IsRoot, Shown, Found, ApprovedClean, Over
<1>23. ASSUME NEW p \in Procs, NEW d \in Ports, Pick(p, d) PROVE RefusedShut'
  BY <1>23 DEF Pick, Exiting, RightsFit, Counting, Blocked, IsRoot, Shown, Found, ApprovedClean, Over
<1>24. ASSUME NEW d \in Ports, NEW kind \in Devices, PlugIn(d, kind) PROVE RefusedShut'
  BY <1>24 DEF PlugIn, Exiting, RightsFit, Counting, Blocked, IsRoot, Shown, Found, ApprovedClean, Over
<1>25. ASSUME NEW d \in Ports, PullOut(d) PROVE RefusedShut'
  BY <1>25 DEF PullOut, Exiting, RightsFit, Counting, Blocked, IsRoot, Shown, Found, ApprovedClean, Over
<1>26. CASE UNCHANGED vars
  BY <1>26 DEF Exiting, RightsFit, Counting, Blocked, IsRoot, Shown, Found, ApprovedClean, Over
<1>27. ASSUME NEW p \in Procs, TruncateConfig(p) PROVE RefusedShut'
  BY <1>27 DEF TruncateConfig, Exiting, RightsFit, Counting, Blocked, IsRoot, Shown, Found, ApprovedClean, Over
<1>28. ASSUME NEW p \in Procs, CloseConfig(p) PROVE RefusedShut'
  BY <1>28 DEF CloseConfig, Exiting, RightsFit, Counting, Blocked, IsRoot, Shown, Found, ApprovedClean, Over
<1>. QED
  BY <1>1, <1>2, <1>3, <1>4, <1>5, <1>6, <1>7, <1>8, <1>9, <1>10, <1>11, <1>12, <1>13, <1>14, <1>15, <1>16, <1>17, <1>18, <1>19, <1>20, <1>21, <1>22, <1>23, <1>24, <1>25, <1>26, <1>27, <1>28
     DEF Next, Step, Enable, Leave, Kernel, Finished

-----------------------------------------------------------------------------
(***************************************************************************)
(* The theorems.                                                           *)
(***************************************************************************)

LEMMA Initially == Init => IInv
<1>. SUFFICES ASSUME Init PROVE IInv
  OBVIOUS
<1>1. TypeOK
  BY TypeInit
<1>2. \A p \in Procs : /\ pc[p] = "idle" /\ rights[p] # "boxed" /\ ~signalled[p]
                       /\ ~saved[p].config
  <2>1. PICK command \in [Procs -> Commands] : rights = [p \in Procs |-> command[p][2]]
    BY DEF Init
  <2>2. ASSUME NEW p \in Procs PROVE rights[p] # "boxed"
    <3>1. command[p] \in {"scan", "watch", "tui", "restore"} \X {"root", "user"}
      BY <2>1, CommandsAssumption
    <3>. QED BY <2>1, <3>1
  <2>. QED BY <2>2 DEF Init, Nothing
<1>3. ~rule /\ ~masked /\ refused = {} /\ config = before
  BY DEF Init
<1>. QED BY <1>1, <1>2, <1>3
     DEF IInv, Counting, RightsFit, RuleOwned, MaskOwned, ConfigOwned, Kept, Holds, ApprovedClean,
         RefusedShut

\* The invariant holds throughout.
LEMMA Always == Spec => []IInv
<1>1. IInv /\ [Next]_vars => IInv'
  BY TypeNext, CountingNext, RightsFitNext, RuleOwnedNext, MaskOwnedNext,
     ConfigOwnedNext, ApprovedCleanNext, RefusedShutNext DEF IInv
<1>. QED BY Initially, <1>1, PTL DEF Spec

\* Every variable keeps its type.
THEOREM TypeCorrect == Spec => []TypeOK
<1>1. IInv => TypeOK
  BY DEF IInv
<1>. QED BY Always, <1>1, PTL

\* However many processes enable, restore and are interrupted, once all have
\* returned or ended by a signal that found their rights intact, no udev rule and
\* no mask is left: the last of them to lock down is also to clean up.
THEOREM StationAlwaysOpens == Spec => []StationOpens
<1>1. IInv => StationOpens
  BY DEF IInv, RuleOwned, RuleHolder, MaskOwned, MaskHolder, StationOpens
<1>. QED BY Always, <1>1, PTL

\* Once all have returned, the user's configuration is what it was, whatever
\* order the processes read, truncated, rewrote and restored it in, unless a write
\* failed or one read a file another was to put back and found work in it.
THEOREM SettingsAlwaysRestored == Spec => []SettingsRestored
<1>1. IInv => SettingsRestored
  BY DEF IInv, RightsFit, ConfigOwned, Spoiled, Kept, Holds, Keeping, SettingsRestored
<1>. QED BY Always, <1>1, PTL

\* While no process leaves, a device found to be BadUSB stays unauthorized, whatever
\* is plugged in and out and whoever approves what meanwhile, unless it showed one of
\* them no interface at all.
THEOREM RefusedAlwaysUntilExit == Spec => []RefusedUntilExit
<1>1. IInv => RefusedUntilExit
  BY DEF IInv, RefusedShut, RefusedUntilExit
<1>. QED BY Always, <1>1, PTL


=============================================================================
