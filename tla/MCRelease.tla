----------------------------- MODULE MCRelease -----------------------------
(***************************************************************************)
(* Small media: a FAT32 or exFAT volume of four clusters with directories  *)
(* that may share clusters, come back to themselves or be unreadable, and  *)
(* in some media a second volume, and staging directories that hold a file *)
(* or a link where something is to be released.                            *)
(***************************************************************************)
EXTENDS Release

MCClusters == 2 .. 5
MCNames == {"d", "e", "f", "g", "df", "up"}
MCCleanNames == {"d", "e", "f"}
MCDotDot == ".."
\* "g" is cleaned to "f", "df" has a slash in it, "up" is "..".
MCSegments ==
    [n \in MCNames |-> CASE n = "g" -> <<"f">> [] n = "df" -> <<"d", "f">>
                         [] n = "up" -> <<"..">> [] OTHER -> <<n>>]

D(name, cluster) == [kind |-> "dir", name |-> name, cluster |-> cluster, size |-> 0]
F(name, cluster, size) == [kind |-> "file", name |-> name, cluster |-> cluster, size |-> size]
Skip == [kind |-> "skip", name |-> "d", cluster |-> 0, size |-> 0]
End == [kind |-> "end", name |-> "d", cluster |-> 0, size |-> 0]

\* The directories "/d" and "/d/e" have entries that lead back up, or into each other.
Tree(name) ==
    [c \in MCClusters |->
        CASE c = 2 -> <<F(name, 4, 2), Skip, D("d", 4)>>
          [] c = 3 -> <<F("f", 3, 1), End, F("e", 2, 1)>>
          [] c = 4 -> <<D("e", 5), D("d", 2)>>
          [] c = 5 -> <<F("f", 3, 1), D("d", 4)>>]

\* A file in two pieces, clusters 4 and 2, and a directory with an empty file.
Small(kind, root) ==
    [kind |-> kind, root |-> root, fixed |-> <<F("f", 4, 2), D("d", 3)>>,
     next |-> [c \in MCClusters |-> IF c = 4 THEN 2 ELSE 0],
     data |-> [c \in MCClusters |-> <<F("e", 0, 0)>>],
     noFat |-> {}, noData |-> {}]

\* The media are numbered, and everything about one follows from its number.
Choice(m, stride, options) == options[(((m - 1) \div stride) % Len(options)) + 1]

First(m) ==
    [kind |-> Choice(m, 1, <<"fat32", "exfat">>), root |-> 2, fixed |-> <<>>,
     next |-> [c \in MCClusters |-> CASE c = 2 -> Choice(m, 2, <<0, 3>>)
                                      [] c = 3 -> Choice(m, 4, <<0, 2, 4>>)
                                      [] c = 4 -> Choice(m, 12, <<0, 3, 5>>)
                                      [] c = 5 -> Choice(m, 36, <<0, 2, 5>>)],
     data |-> Tree(Choice(m, 108, <<"g", "df", "up">>)),
     noFat |-> Choice(m, 324, <<{}, {4}>>),
     noData |-> Choice(m, 648, <<{}, {5}>>)]

Medium(m) ==
    IF m % 5 = 0 THEN <<Small("other", 0), First(m), Small("fat16", 0)>> ELSE <<First(m)>>

MCMedia == 1 .. 1296
MCVolumesOf == [m \in MCMedia |-> Medium(m)]

File1 == [type |-> "file", content |-> <<>>]
Link == [type |-> "link", content |-> <<>>]
MCStagings ==
    {<<>>,
     (<<"f">> :> File1) @@ (<<"e">> :> File1),
     (<<"d">> :> Directory) @@ (<<"d", "f">> :> Link)}
=============================================================================
