----------------------------- MODULE MCFileScan -----------------------------
(***************************************************************************)
(* Media of twelve sectors: MBRs with primary partitions that nest,        *)
(* overlap, start together, are empty or leave the medium; extended        *)
(* partitions with chains that go on in any order or in circles; GPTs that *)
(* agree with each other and the MBR or do not.  Two files are discovered  *)
(* on each, with every pair of a small set of members in every form of     *)
(* archive.                                                                *)
(***************************************************************************)
EXTENDS FileScan

Entry(type, start, count) == [type |-> type, start |-> start, count |-> count]
None == Entry("none", 0, 0)
Unsigned == [signed |-> FALSE, type |-> "none", rel |-> 0, count |-> 0, next |-> 0]
Record(rel, count, next) ==
    [signed |-> TRUE, type |-> IF count = 0 THEN "none" ELSE "data",
     rel |-> rel, count |-> count, next |-> next]

NoRecords == [s \in Sectors |-> Unsigned]

GptEntry(start, end) == [used |-> TRUE, start |-> start, end |-> end]
Unused == [used |-> FALSE, start |-> 0, end |-> 0]
Header(crc, backup, entries) == [crc |-> crc, backup |-> backup, entries |-> entries]
NoHeader == Header("wrong", 0, <<>>)

Disk(signed, mbr, records, primary, secondary) ==
    [signed |-> signed, mbr |-> mbr, records |-> records, primary |-> primary, secondary |-> secondary]

\* The media are numbered, and everything about one follows from its number.
Choice(m, stride, options) == options[((m \div stride) % Len(options)) + 1]

\* Up to three primary partitions.
Primaries ==
    <<None, Entry("data", 2, 8), Entry("data", 1, 0), Entry("data", 1, 4), Entry("data", 3, 2),
      Entry("data", 6, 4), Entry("data", 6, 20), Entry("hidden", 3, 1), Entry("protective", 1, 11),
      Entry("data", 14, 2), Entry("data", 0, 0)>>
PrimaryDisk(m) ==
    Disk(TRUE, <<Choice(m, 1, <<None, Entry("data", 9, 2), Entry("data", 2, 8)>>), None,
                 Choice(m, 3, Primaries), Choice(m, 33, Primaries)>>, NoRecords, NoHeader, NoHeader)

\* An extended partition on sectors 2 to 10 whose records are on sectors 2, 5 and 8.
ExtendedDisk(m) ==
    Disk(TRUE, <<Entry("extended", 2, 9),
                 Choice(m, 1, <<None, Entry("extended", 5, 4), Entry("data", 1, 1)>>)>>,
         [NoRecords EXCEPT ![2] = Record(Choice(m, 3, <<1, 8>>), 1, Choice(m, 6, <<3, 6, 0>>)),
                           ![5] = Record(1, Choice(m, 216, <<0, 2>>), Choice(m, 18, <<6, 0, 9, 3>>)),
                           ![8] = Record(1, 2, Choice(m, 72, <<3, 0, 4>>))],
         NoHeader, NoHeader)

EntryLists == <<<<GptEntry(3, 5), Unused, GptEntry(7, 8)>>, <<GptEntry(3, 9), GptEntry(8, 6), GptEntry(10, 7)>>, <<>>>>
Crcs == <<Polynomial, Standard, "wrong">>
GptDisk(m) ==
    Disk(Choice(m, 1, <<TRUE, FALSE>>),
         Choice(m, 2, <<<<Entry("protective", 1, 11)>>, <<>>,
                        <<Entry("protective", 1, 2), Entry("data", 4, 3)>>>>),
         NoRecords,
         Header(Choice(m, 6, Crcs), Choice(m, 54, <<11, 10>>), Choice(m, 108, EntryLists)),
         Header(Choice(m, 18, Crcs), 1, Choice(m, 324, EntryLists)))

MCDiskOf ==
    [d \in 1 .. 1767 |-> IF d <= 363 THEN PrimaryDisk(d)
                         ELSE IF d <= 795 THEN ExtendedDisk(d) ELSE GptDisk(d)]

Zero == [kind |-> "zero", need |-> 0, size |-> 0]
Random == [kind |-> "random", need |-> 0, size |-> 0]
Text == [kind |-> "text", need |-> 0, size |-> 0]
Boot == [kind |-> "boot", need |-> 0, size |-> 0]
File(need, size) == [kind |-> "file", need |-> need, size |-> size]

\* Remnants in random data, text in zeroes, files that may be taken for parts of
\* others, files whose headers are long.
Contents ==
    <<[s \in Sectors |-> CASE s \in {4, 11} -> File(1, 1) [] s = 5 -> File(2, 1) [] s = 9 -> File(3, 2)
                           [] OTHER -> Random],
      [s \in Sectors |-> CASE s = 0 -> Boot [] s \in {6, 10} -> Text [] OTHER -> Zero],
      [s \in Sectors |-> CASE s = 2 -> File(2, 3) [] s \in {4, 5} -> File(1, 0) [] s = 8 -> File(1, 9)
                           [] s = 7 -> Text [] OTHER -> Zero],
      [s \in Sectors |-> CASE s \in {3, 11} -> Text [] OTHER -> Random]>>

\* A medium is one of the disks with one of the contents.
MCMedia == 4 .. 7071
MCDiskAndContent(m) == [disk |-> MCDiskOf[m \div 4], content |-> Contents[(m % 4) + 1]]
MCDisk == [m \in MCMedia |-> MCDiskAndContent(m).disk]
MCContent == [m \in MCMedia |-> MCDiskAndContent(m).content]
MCCarves == [m \in MCMedia |-> m % 23 # 5]

MCArchives == 0 .. 261

M(wrong, size, nested) == [odd |-> wrong, size |-> size, nested |-> nested]
MCNoArchive == 999
Archive(form, members) == [form |-> form, broken |-> FALSE, members |-> members]

\* Six archives to be met within others: a text, a zip, one with something odd in
\* it, one that is broken, a gzip that holds itself, a gzip with a zip in it.
Inner ==
    <<Archive("other", <<>>),
      Archive("central", <<M(FALSE, 1, MCNoArchive)>>),
      Archive("local", <<M(FALSE, 0, MCNoArchive), M(TRUE, 1, MCNoArchive)>>),
      [form |-> "central", broken |-> TRUE, members |-> <<>>],
      Archive("gzip", <<M(FALSE, 1, 4)>>),
      Archive("gzip", <<M(FALSE, 2, 1)>>)>>

MemberList ==
    <<M(FALSE, 1, MCNoArchive), M(TRUE, 1, MCNoArchive), M(FALSE, 2, 0), M(FALSE, 1, 1),
      M(FALSE, 0, 2), M(FALSE, 1, 3), M(FALSE, 1, 4), M(FALSE, 1, 5)>>

Outer(k) ==
    Archive(Choice(k, 1, <<"central", "local", "tar", "gzip">>),
            IF Choice(k, 1, <<"central", "local", "tar", "gzip">>) = "gzip"
              THEN <<Choice(k, 4, MemberList)>>
              ELSE <<Choice(k, 4, MemberList), Choice(k, 32, MemberList)>>)

MCArchiveOf == [a \in MCArchives |-> IF a < 6 THEN Inner[a + 1] ELSE Outer(a - 6)]

Whole(wrong, holds) == [state |-> "whole", odd |-> wrong, holds |-> holds]
MCFiles ==
    [m \in MCMedia |->
       <<Whole({}, (m % 256) + 6),
         Choice(m, 3, <<Whole({"whole"}, MCNoArchive), Whole({}, 6 + ((m \div 7) % 256)),
                        [state |-> "known", odd |-> {"whole"}, holds |-> 2],
                        [state |-> "unread", odd |-> {"name"}, holds |-> 2],
                        [state |-> "header", odd |-> {"header"}, holds |-> MCNoArchive]>>)>>]
=============================================================================
