--------------------------- MODULE MCTriageStore ---------------------------
(***************************************************************************)
(* Three processes, any of which is the command or the terminal interface. *)
(***************************************************************************)
EXTENDS TriageStore, TLC

Interchangeable == Permutations(Procs)

\* Every text of up to three of these characters.
Alphabet == {"a", "*", " ", "/", "bel"}
MCTexts == UNION {[1 .. n -> Alphabet] : n \in 0 .. 3}
MCNoText == <<"none">>

Harmless == [id |-> "FX-FILE-004", severity |-> "Low", plain |-> TRUE, path |-> <<"a">>]
FiledFor(finding) ==
    [by |-> "tui", reason |-> TRUE, days |-> 90, finding |-> finding,
     scope |-> [rule |-> "", pattern |-> MCNoText]]
Command(rule, pattern) ==
    [by |-> "cli", reason |-> TRUE, days |-> 1, finding |-> Harmless,
     scope |-> [rule |-> rule, pattern |-> pattern]]

MCRequests ==
    {FiledFor([Harmless EXCEPT !.path = t]) :
        t \in {<<"*">>, <<"/", " ", "*">>, <<"*", "a">>, <<"a", "*", "a">>, <<"a", "bel">>, MCNoText}}
    \cup {FiledFor([Harmless EXCEPT !.severity = "Critical"]),
          Command("FX-FILE-004", <<"a">>), Command("FX-DEV-001", <<"a">>),
          Command("FX-FILE-004", <<"*", "*", " ">>)}
=============================================================================
