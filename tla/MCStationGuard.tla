--------------------------- MODULE MCStationGuard ---------------------------
(***************************************************************************)
(* Two ferrix processes on a station with one USB port, or with a          *)
(* configuration file in either of two formats.                            *)
(***************************************************************************)
EXTENDS StationGuard, TLC

\* Every command as root, and the terminal interface without.
AllCommands ==
    {"scan", "watch", "tui", "restore"} \X {"root"} \cup {<<"tui", "user">>}

\* The user's content, which enables automounting, and what becomes of it.
SomeContents == {"user", "once", "twice", "empty"}

\* A file in which nothing is to be disabled.
Quiet == [c \in SomeContents |-> c]

\* KDE and LXDE: in what was rewritten nothing is left to disable.
Settled == [c \in SomeContents |-> "once"]

\* LXQt: every rewriting adds lines, here up to the second.
Growing == [c \in SomeContents |-> IF c \in {"once", "twice"} THEN "twice" ELSE "once"]

\* A station that mounts what is plugged in, except that new devices are blocked.
\* Devices and the configuration file have no step in common and are varied apart:
\* where the file is rewritten, nothing is plugged in.
Mounting == [byDefault |-> 0, active |-> TRUE, automount |-> TRUE, config |-> "user"]

WithDevices ==
    Mounting @@ [disabled |-> Quiet, devices |-> Devices \cup {"none"}, plugs |-> 0]

WithFile(format) ==
    Mounting @@ [disabled |-> format, devices |-> {"none"}, plugs |-> Replugs]

SomeStations == {WithDevices, WithFile(Settled), WithFile(Growing)}

Interchangeable == Permutations(Procs)
=============================================================================
