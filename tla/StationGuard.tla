---------------------------- MODULE StationGuard ----------------------------
(***************************************************************************)
(* The station's defence against automounting (src/device/station.rs) and  *)
(* the authorization of USB devices (src/device/auth.rs, the Watch arm of  *)
(* src/main.rs, start_scan of src/tui/app.rs), with several ferrix         *)
(* processes on one station.                                               *)
(*                                                                         *)
(* udisks2 and autofs are treated alike and are one service here, and so   *)
(* are the USB controllers, the gsettings and xfconf keys ("automount")    *)
(* and the configuration files of KDE, LXQt and LXDE, of which there is    *)
(* one with a format of its own ("config").  What root does on the way out *)
(* succeeds, except for writing that file; what it does on the way in may  *)
(* fail.  fs::write truncates a file and fills it in a second step.        *)
(***************************************************************************)
EXTENDS Naturals

CONSTANTS
    Procs,     \* the processes, each of which runs one command
    Commands,  \* the commands that are run, and as whom
    Stations,  \* what the station may be like before the first ferrix
    Contents,  \* what the configuration file may hold
    Empty,     \* the content of a file that was truncated
    Ports,     \* the USB ports, with at most one device each
    NoPort,
    MayKill,   \* a process may be killed without running a handler
    Replugs    \* how often a device may be plugged in

ASSUME CommandsAssumption ==
    Commands \subseteq {"scan", "watch", "tui", "restore"} \X {"root", "user"}
ASSUME StationsAssumption ==
    Stations \subseteq [byDefault : {0, 1}, active : BOOLEAN, automount : BOOLEAN,
                        config : Contents, disabled : [Contents -> Contents],
                        devices : SUBSET {"storage", "badusb", "other", "none"},
                        plugs : 0..Replugs]
ASSUME ContentsAssumption == Empty \in Contents
ASSUME PortAssumption == NoPort \notin Ports
ASSUME KillAssumption == MayKill \in BOOLEAN
ASSUME ReplugsAssumption == Replugs \in Nat

VARIABLES
    pc,          \* where each process is
    job,         \* its command
    rights,      \* "root", "user", or "boxed": dropped and behind the filter
    saved,       \* what its guard recorded: settings to put back
    content,     \* what it read of the configuration file
    passes,      \* how often it still runs restore_all_system_automount_defaults
    signalled,   \* it is in the signal handler
    seen,        \* seen_devices of a watch
    pending,     \* the port it looks at
    byDefault,   \* authorized_default of the controllers
    rule,        \* the udev rule of ferrix exists
    active,      \* the automount service runs
    masked,      \* the automount service is masked
    automount,   \* the desktop's automount keys
    config,      \* what the configuration file holds
    disabled,    \* what set_..._automount_disabled makes of each content of its format
    device,      \* what is plugged into each port
    authorized,  \* its authorized attribute
    readonly,    \* the ro attribute of its block device
    refused,     \* history: the devices found to be BadUSB while unauthorized
    blind,       \* history: the devices somebody approved without seeing an interface
    plugs,       \* bound: how many devices have been plugged in, up to Replugs
    before,      \* history: the configuration file before the first ferrix
    risk         \* history: the configuration file may be lost, see ReadConfig and Fill

guards  == <<job, rights, saved, content>>
exits   == <<passes, signalled>>
watches == <<seen, pending>>
station == <<byDefault, rule, active, masked, automount, config>>
usb     == <<device, authorized, readonly>>
lost    == <<before, risk, disabled>>
history == <<refused, blind, plugs, lost>>
vars    == <<pc, guards, exits, watches, station, usb, history>>

Devices == {"storage", "badusb", "other"}
Nothing == [automount |-> FALSE, config |-> FALSE]

Init ==
    /\ pc = [p \in Procs |-> "idle"]
    /\ \E command \in [Procs -> Commands] :
          /\ job = [p \in Procs |-> command[p][1]]
          /\ rights = [p \in Procs |-> command[p][2]]
    /\ saved = [p \in Procs |-> Nothing]
    /\ content = [p \in Procs |-> Empty]
    /\ passes = [p \in Procs |-> 0]
    /\ signalled = [p \in Procs |-> FALSE]
    /\ seen = [p \in Procs |-> {}]
    /\ pending = [p \in Procs |-> NoPort]
    /\ \E at \in Stations :
          /\ byDefault = at.byDefault
          /\ active = at.active
          /\ automount = at.automount
          /\ config = at.config
          /\ before = at.config
          /\ disabled = at.disabled
          /\ device \in [Ports -> at.devices]
          /\ plugs = at.plugs
    /\ rule = FALSE
    /\ masked = FALSE
    /\ authorized = [d \in Ports |-> IF device[d] = "none" THEN 0 ELSE byDefault]
    /\ readonly = [d \in Ports |-> FALSE]
    /\ refused = {}
    /\ blind = {}
    /\ risk = FALSE

IsRoot(p) == rights[p] = "root"

Goto(p, place) == pc' = [pc EXCEPT ![p] = place]

-----------------------------------------------------------------------------
(***************************************************************************)
(* StationProtectionGuard::enable.                                         *)
(***************************************************************************)

\* The exit and signal handlers are registered first; the restore command has
\* no guard, and without root the guard does nothing.
Start(p) ==
    /\ pc[p] = "idle"
    /\ IF job[p] = "restore"
         THEN Goto(p, "l_rule") /\ passes' = [passes EXCEPT ![p] = 1]
         ELSE Goto(p, IF IsRoot(p) THEN "e_default" ELSE "up") /\ UNCHANGED passes
    /\ UNCHANGED <<guards, signalled, watches, station, usb, history>>

\* A controller that blocks new devices is told not to.
EnableDefault(p) ==
    /\ pc[p] = "e_default"
    /\ byDefault' = 1
    /\ Goto(p, "e_rule")
    /\ UNCHANGED <<guards, exits, watches, rule, active, masked, automount,
                   config, usb, history>>

EnableRule(p) ==
    /\ pc[p] = "e_rule"
    /\ rule' \in {rule, TRUE}
    /\ Goto(p, "e_services")
    /\ UNCHANGED <<guards, exits, watches, byDefault, active, masked, automount,
                   config, usb, history>>

\* An active service is masked and stopped.
EnableServices(p) ==
    /\ pc[p] = "e_services"
    /\ IF active THEN masked' \in {masked, TRUE} /\ active' \in BOOLEAN
                 ELSE UNCHANGED <<active, masked>>
    /\ Goto(p, "e_desktop")
    /\ UNCHANGED <<guards, exits, watches, byDefault, rule, automount, config,
                   usb, history>>

\* The keys that are true are set to false, if the user who called sudo is known.
EnableDesktop(p) ==
    /\ pc[p] = "e_desktop"
    /\ \/ /\ automount
          /\ automount' = FALSE
          /\ saved' = [saved EXCEPT ![p].automount = TRUE]
       \/ UNCHANGED <<automount, saved>>
    /\ Goto(p, "e_read")
    /\ UNCHANGED <<job, rights, content, exits, watches, byDefault, rule, active,
                   masked, config, usb, history>>

\* A process that rewrites the configuration file, or has and is to put it back.
Holds(p) == saved[p].config \/ pc[p] = "e_fill"

\* What it reads is the user's own content, unless another has rewritten the file or
\* is about to: then this is harmless only where nothing is left to disable in it.
ReadConfig(p) ==
    /\ pc[p] = "e_read"
    /\ content' = [content EXCEPT ![p] = config]
    /\ risk' = (risk \/ (disabled[config] # config /\ \E q \in Procs \ {p} : Holds(q)))
    /\ Goto(p, "e_write")
    /\ UNCHANGED <<job, rights, saved, exits, watches, station, usb, refused, blind, plugs,
                   before, disabled>>

\* What set_kde_, set_lxqt_ or set_lxde_automount_disabled makes of what it read.
Rewritten(p) == disabled[content[p]]

\* A file in which something is to be disabled is opened and truncated.
TruncateConfig(p) ==
    /\ pc[p] = "e_write"
    /\ \/ /\ Rewritten(p) # content[p]
          /\ config' = Empty
          /\ Goto(p, "e_fill")
       \/ config' = config /\ Goto(p, "up")
    /\ UNCHANGED <<guards, exits, watches, byDefault, rule, active, masked, automount, usb,
                   history>>

\* A file is filled from its start: over what another has written meanwhile, a longer
\* text may keep its tail.
Fill(text) == config' \in IF config \in {Empty, text} THEN {text} ELSE Contents

\* Mutant: what is written is also what is recorded.
WriteConfigAfter(p) ==
    /\ pc[p] = "e_fill"
    /\ Fill(Rewritten(p))
    /\ saved' = [saved EXCEPT ![p].config = TRUE]
    /\ content' = [content EXCEPT ![p] = Rewritten(p)]
    /\ Goto(p, "up")
    /\ UNCHANGED <<job, rights, exits, watches, byDefault, rule, active, masked, automount,
                   usb, history>>

\* What was read is recorded once it was rewritten; what is lost in a write that fails
\* is not.
WriteConfig(p) ==
    /\ pc[p] = "e_fill"
    /\ \/ /\ Fill(Rewritten(p))
          /\ saved' = [saved EXCEPT ![p].config = TRUE]
          /\ risk' = risk
       \/ /\ risk' = TRUE
          /\ UNCHANGED <<config, saved>>
    /\ Goto(p, "up")
    /\ UNCHANGED <<job, rights, content, exits, watches, byDefault, rule, active, masked,
                   automount, usb, refused, blind, plugs, before, disabled>>

Enable(p) ==
    \/ Start(p) \/ EnableDefault(p) \/ EnableRule(p) \/ EnableServices(p)
    \/ EnableDesktop(p) \/ ReadConfig(p) \/ TruncateConfig(p)
    \/ WriteConfig(p)

-----------------------------------------------------------------------------
(***************************************************************************)
(* With the guard up.                                                      *)
(***************************************************************************)

Blocked(d) == device[d] # "none" /\ authorized[d] = 0

\* What the descriptors of a device show: its interfaces, or none, as the kernel sets
\* them up for authorized devices only.
Shown(d) == IF device[d] = "none" THEN {"none"} ELSE {device[d], "bare"}

\* A device with a storage interface, or without any at all.
HasStorage(what) == what \in {"storage", "badusb", "bare"}

\* Devices that were found to be BadUSB, or of which nothing was seen.
Found(d, what) ==
    /\ refused' = IF what = "badusb" /\ Blocked(d) THEN refused \cup {d} ELSE refused
    /\ blind' = IF what = "bare" THEN blind \cup {d} ELSE blind

\* Mutant: a BadUSB device is reported, and the loop goes on to approve it.
LookNoContinue(p, d) ==
    /\ pc[p] = "up"
    /\ job[p] = "watch"
    /\ Blocked(d) /\ d \notin seen[p]
    /\ seen' = [seen EXCEPT ![p] = @ \cup {d}]
    /\ \E what \in Shown(d) :
          /\ Found(d, what)
          /\ \/ /\ HasStorage(what)
                /\ pending' = [pending EXCEPT ![p] = d]
                /\ Goto(p, "approved")
             \/ UNCHANGED <<pc, pending>>
    /\ UNCHANGED <<guards, exits, station, usb, plugs, lost>>

\* A round of the watch comes across an unauthorized device it has not seen.
\* Only with --auto-scan is a storage device without BadUSB approved.
Look(p, d) ==
    /\ pc[p] = "up"
    /\ job[p] = "watch"
    /\ Blocked(d) /\ d \notin seen[p]
    /\ seen' = [seen EXCEPT ![p] = @ \cup {d}]
    /\ \E what \in Shown(d) :
          /\ Found(d, what)
          /\ \/ /\ HasStorage(what) /\ what # "badusb"
                /\ pending' = [pending EXCEPT ![p] = d]
                /\ Goto(p, "approved")
             \/ UNCHANGED <<pc, pending>>
    /\ UNCHANGED <<guards, exits, station, usb, plugs, lost>>

\* The operator picks a listed, that is, an unauthorized device with storage in
\* the terminal interface.
Pick(p, d) ==
    /\ pc[p] = "up"
    /\ job[p] = "tui"
    /\ Blocked(d) /\ \E what \in Shown(d) : HasStorage(what)
    /\ pending' = [pending EXCEPT ![p] = d]
    /\ Goto(p, "picked")
    /\ UNCHANGED <<guards, exits, seen, station, usb, history>>

\* start_scan reads the descriptors again.  When they cannot be read, because
\* the device has just gone, there is no check.
Inspect(p) ==
    /\ pc[p] = "picked"
    /\ \E what \in Shown(pending[p]) :
          /\ Found(pending[p], what)
          /\ IF what = "badusb"
               THEN pending' = [pending EXCEPT ![p] = NoPort] /\ Goto(p, "up")
               ELSE UNCHANGED pending /\ Goto(p, "approved")
    /\ UNCHANGED <<guards, exits, seen, station, usb, plugs, lost>>

\* authorize_device, the wait for the block device, set_block_device_readonly.
Authorize(p) ==
    /\ pc[p] = "approved"
    /\ IF device[pending[p]] # "none" /\ IsRoot(p)
         THEN /\ authorized' = [authorized EXCEPT ![pending[p]] = 1]
              /\ readonly' \in {readonly, [readonly EXCEPT ![pending[p]] = TRUE]}
         ELSE UNCHANGED <<authorized, readonly>>
    /\ pending' = [pending EXCEPT ![p] = NoPort]
    /\ Goto(p, "up")
    /\ UNCHANGED <<guards, exits, seen, station, device, history>>

\* enter_sandbox of a scan.
DropPrivileges(p) ==
    /\ pc[p] = "up"
    /\ job[p] = "scan"
    /\ rights' = [rights EXCEPT ![p] = "boxed"]
    /\ UNCHANGED <<pc, job, saved, content, exits, watches, station, usb, history>>

-----------------------------------------------------------------------------
(***************************************************************************)
(* The ways out.  The drop of the guard restores what root may restore and *)
(* then runs restore_all_system_automount_defaults, as the exit handler    *)
(* does once more; a signal only has the latter.                           *)
(***************************************************************************)

Over == {"gone", "signalled", "unprivileged", "killed"}

\* A watch never returns; the terminal interface may, whatever its scan does.
Return(p) ==
    /\ pc[p] \in {"up", "picked", "approved"}
    /\ job[p] # "watch"
    /\ CASE rights[p] = "root"  -> Goto(p, "c_default") /\ passes' = [passes EXCEPT ![p] = 2]
         [] rights[p] = "user"  -> Goto(p, "l_rule") /\ passes' = [passes EXCEPT ![p] = 1]
         [] rights[p] = "boxed" -> Goto(p, "unprivileged") /\ UNCHANGED passes
    /\ UNCHANGED <<guards, signalled, watches, station, usb, history>>

CloseDefault(p) ==
    /\ pc[p] = "c_default"
    /\ byDefault' = 1
    /\ Goto(p, "c_rule")
    /\ UNCHANGED <<guards, exits, watches, rule, active, masked, automount,
                   config, usb, history>>

CloseRule(p) ==
    /\ pc[p] = "c_rule"
    /\ rule' = FALSE
    /\ Goto(p, "c_services")
    /\ UNCHANGED <<guards, exits, watches, byDefault, active, masked, automount,
                   config, usb, history>>

\* The service is unmasked and started, whatever it was before; removable
\* block devices become writable.
CloseServices(p) ==
    /\ pc[p] = "c_services"
    /\ masked' = FALSE
    /\ active' = TRUE
    /\ readonly' = [d \in Ports |-> FALSE]
    /\ Goto(p, "c_settings")
    /\ UNCHANGED <<guards, exits, watches, byDefault, rule, automount, config,
                   device, authorized, history>>

CloseSettings(p) ==
    /\ pc[p] = "c_settings"
    /\ automount' = (automount \/ saved[p].automount)
    /\ \/ /\ saved[p].config
          /\ config' = Empty
          /\ Goto(p, "c_fill")
          /\ UNCHANGED <<saved, risk>>
       \/ /\ saved' = [saved EXCEPT ![p] = Nothing]
          /\ risk' = (risk \/ saved[p].config)
          /\ Goto(p, "l_rule")
          /\ UNCHANGED config
    /\ UNCHANGED <<job, rights, content, exits, watches, byDefault, rule, active, masked, usb,
                   refused, blind, plugs, before, disabled>>

\* The configuration file was truncated and gets back what was recorded.
CloseConfig(p) ==
    /\ pc[p] = "c_fill"
    /\ \/ Fill(content[p]) /\ risk' = risk
       \/ config' = config /\ risk' = TRUE
    /\ saved' = [saved EXCEPT ![p] = Nothing]
    /\ Goto(p, "l_rule")
    /\ UNCHANGED <<job, rights, content, exits, watches, byDefault, rule, active, masked,
                   automount, usb, refused, blind, plugs, before, disabled>>

\* Mutant: the udev rule is left to the drop of the guard.
LingerNoRule(p) ==
    /\ pc[p] = "l_rule"
    /\ Goto(p, IF IsRoot(p) THEN "l_devices" ELSE "l_desktop")
    /\ UNCHANGED <<guards, exits, watches, station, usb, history>>

\* cleanup_lingering_station_lockdown does nothing without root.
LingerRule(p) ==
    /\ pc[p] = "l_rule"
    /\ rule' = IF IsRoot(p) THEN FALSE ELSE rule
    /\ Goto(p, IF IsRoot(p) THEN "l_devices" ELSE "l_desktop")
    /\ UNCHANGED <<guards, exits, watches, byDefault, active, masked, automount,
                   config, usb, history>>

\* Every device is authorized, and every new one will be.
LingerDevices(p) ==
    /\ pc[p] = "l_devices"
    /\ byDefault' = 1
    /\ authorized' = [d \in Ports |-> IF device[d] = "none" THEN 0 ELSE 1]
    /\ Goto(p, "l_services")
    /\ UNCHANGED <<guards, exits, watches, rule, active, masked, automount,
                   config, device, readonly, history>>

LingerServices(p) ==
    /\ pc[p] = "l_services"
    /\ masked' = FALSE
    /\ active' = TRUE
    /\ readonly' = [d \in Ports |-> FALSE]
    /\ Goto(p, "l_desktop")
    /\ UNCHANGED <<guards, exits, watches, byDefault, rule, automount, config,
                   device, authorized, history>>

\* The desktop keys are set to true, if sudo lets the process.
LingerDesktop(p) ==
    /\ pc[p] = "l_desktop"
    /\ automount' \in {automount, TRUE}
    /\ passes' = [passes EXCEPT ![p] = @ - 1]
    /\ \/ passes[p] > 1 /\ Goto(p, "l_rule")
       \/ passes[p] <= 1 /\ Goto(p, IF signalled[p] THEN "signalled" ELSE "gone")
    /\ UNCHANGED <<guards, signalled, watches, byDefault, rule, active, masked,
                   config, usb, history>>

\* A signal, at any time.  The restore command has registered no handler.
Interrupt(p) ==
    /\ pc[p] \notin Over \cup {"idle"}
    /\ ~signalled[p]
    /\ job[p] # "restore"
    /\ IF rights[p] = "boxed"
         THEN Goto(p, "unprivileged") /\ UNCHANGED exits
         ELSE /\ Goto(p, "l_rule")
              /\ passes' = [passes EXCEPT ![p] = 1]
              /\ signalled' = [signalled EXCEPT ![p] = TRUE]
    /\ UNCHANGED <<guards, watches, station, usb, history>>

Kill(p) ==
    /\ MayKill \/ job[p] = "restore"
    /\ pc[p] \notin Over \cup {"idle"}
    /\ Goto(p, "killed")
    /\ UNCHANGED <<guards, exits, watches, station, usb, history>>

Leave(p) ==
    \/ Return(p) \/ CloseDefault(p) \/ CloseRule(p) \/ CloseServices(p)
    \/ CloseSettings(p) \/ CloseConfig(p) \/ LingerRule(p) \/ LingerDevices(p) \/ LingerServices(p)
    \/ LingerDesktop(p)

-----------------------------------------------------------------------------
(***************************************************************************)
(* The kernel: a new device gets the default of its controller.            *)
(***************************************************************************)

PlugIn(d, kind) ==
    /\ device[d] = "none"
    /\ plugs < Replugs
    /\ plugs' = plugs + 1
    /\ device' = [device EXCEPT ![d] = kind]
    /\ authorized' = [authorized EXCEPT ![d] = byDefault]
    /\ UNCHANGED <<pc, guards, exits, watches, station, readonly, refused, blind, lost>>

PullOut(d) ==
    /\ device[d] # "none"
    /\ device' = [device EXCEPT ![d] = "none"]
    /\ authorized' = [authorized EXCEPT ![d] = 0]
    /\ readonly' = [readonly EXCEPT ![d] = FALSE]
    /\ refused' = refused \ {d} /\ blind' = blind \ {d}
    /\ UNCHANGED <<pc, guards, exits, watches, station, plugs, lost>>

Kernel == \E d \in Ports : PullOut(d) \/ \E kind \in Devices : PlugIn(d, kind)

Step(p) ==
    \/ Enable(p) \/ Inspect(p) \/ Authorize(p) \/ DropPrivileges(p) \/ Leave(p)
    \/ \E d \in Ports : Look(p, d) \/ Pick(p, d)

Finished == (\A p \in Procs : pc[p] \in Over) /\ UNCHANGED vars

Next == (\E p \in Procs : Step(p) \/ Interrupt(p) \/ Kill(p)) \/ Kernel \/ Finished

Spec == Init /\ [][Next]_vars

-----------------------------------------------------------------------------
(***************************************************************************)
(* Correctness.                                                            *)
(***************************************************************************)

Places ==
    {"idle", "e_default", "e_rule", "e_services", "e_desktop", "e_read", "e_write",
     "e_fill", "up", "picked", "approved", "c_default", "c_rule", "c_services", "c_settings", "c_fill",
     "l_rule", "l_devices", "l_services", "l_desktop"} \cup Over

TypeOK ==
    /\ pc \in [Procs -> Places]
    /\ job \in [Procs -> {"scan", "watch", "tui", "restore"}]
    /\ rights \in [Procs -> {"root", "user", "boxed"}]
    /\ saved \in [Procs -> [automount : BOOLEAN, config : BOOLEAN]]
    /\ content \in [Procs -> Contents]
    /\ passes \in [Procs -> 0..2]
    /\ signalled \in [Procs -> BOOLEAN]
    /\ seen \in [Procs -> SUBSET Ports]
    /\ pending \in [Procs -> Ports \cup {NoPort}]
    /\ byDefault \in {0, 1}
    /\ rule \in BOOLEAN
    /\ active \in BOOLEAN
    /\ masked \in BOOLEAN
    /\ automount \in BOOLEAN
    /\ config \in Contents
    /\ disabled \in [Contents -> Contents]
    /\ device \in [Ports -> Devices \cup {"none"}]
    /\ authorized \in [Ports -> {0, 1}]
    /\ readonly \in [Ports -> BOOLEAN]
    /\ refused \subseteq Ports /\ blind \subseteq Ports
    /\ plugs \in 0..Replugs
    /\ before \in Contents
    /\ risk \in BOOLEAN

\* Once every process has returned or was interrupted with its rights intact,
\* however their ways in and out overlapped, no udev rule and no mask of ferrix
\* is left.
StationOpens ==
    (\A p \in Procs : pc[p] \in {"idle", "gone", "signalled"}) => ~rule /\ ~masked

\* Once every process has returned, the user's configuration is what it was, though
\* each truncates and rewrites it from what it read some steps before, in whatever
\* order they do so.  There are two exceptions (risk): a write failed, or a process
\* read a file another was to put back and found something to disable in it, as in
\* an empty file, or, over and over, in one of LXQt.
SettingsRestored ==
    (\A p \in Procs : pc[p] \in {"idle", "gone"}) /\ ~risk => config = before

\* A process that runs the final clean-up, or has.
Exiting(p) ==
    pc[p] \in {"l_rule", "l_devices", "l_services", "l_desktop", "gone",
               "signalled", "killed"}

\* As long as no ferrix leaves, a device that one of them refused is authorized by
\* none of them, also when it is pulled out and others take its port, unless it
\* showed one of them no interface at all.
RefusedUntilExit ==
    \A d \in refused :
        authorized[d] = 1 => d \in blind \/ \E p \in Procs : Exiting(p)
=============================================================================
