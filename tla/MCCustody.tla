----------------------------- MODULE MCCustody -----------------------------
(***************************************************************************)
(* Three processes.  A manifest of one medium lies in the working          *)
(* directory and on a stick, which brings a manifest signed with another   *)
(* pair and the public key of that pair.  A manifest of a second medium,   *)
(* which has a path that is escaped, is signed with a later pair and has   *)
(* no hash.  On a third medium there are two files of one path.            *)
(***************************************************************************)
EXTENDS Custody, TLC

Interchangeable == Permutations(Procs)

File(path, hash) == [path |-> path, hash |-> hash]

MCPaths == {"a", "b", "up\n", "up\\x0a"}
MCEscape == [p \in MCPaths |-> IF p = "up\n" THEN "up\\x0a" ELSE p]

MCContents == {"clean", "twins", "odd"}
MCLayoutOf == [c \in MCContents |-> "one partition"]
MCFilesOf ==
    [c \in MCContents |->
        CASE c = "clean" -> <<File("a", "h1"), File("b", "h2")>>
          [] c = "twins" -> <<File("a", "h1"), File("b", "h2"), File("a", "h3")>>
          [] c = "odd"   -> <<File("up\n", "h1")>>]

ManifestOf(d, c, nonce, key, issued, expires) ==
    [dir |-> d, nonce |-> nonce, issued |-> issued, expires |-> expires, key |-> key,
     hash |-> c, layout |-> MCLayoutOf[c], files |-> WrittenDown(MCFilesOf[c])]

MCManifests ==
    {ManifestOf("home", "clean", "n1", 1, 0, 0), ManifestOf("stick", "clean", "n1", 1, 0, 0),
     ManifestOf("stick", "clean", "n2", 3, 0, 0),
     ManifestOf("home", "odd", "n2", 1, 2, 1)}

MCBrought == [d \in {"home", "stick"} |-> IF d = "stick" THEN 3 ELSE NoFile]
=============================================================================
