------------------------------- MODULE OtaDiff --------------------------------
(***************************************************************************)
(* doDiff of ota (src/src/ota.c): two legacy archives are read entry by    *)
(* entry, in step, and what seems to differ is printed.                    *)
(*                                                                         *)
(* Positions count entries: position k is the offset of the k-th entry and *)
(* Len + 1 the offset after the last.  A name is a sequence, because the   *)
(* code compares names as bytes that no terminator ends: what follows the  *)
(* name in the archive is taken to match no name.                          *)
(***************************************************************************)
EXTENDS Integers, Sequences, FiniteSets, SequencesExt

CONSTANTS
    EntryHeader,    \* sizeof(struct entry), in units
    SkipBytes,      \* the 1000000 bytes doDiff leaves alone, in units
    DiffInputs      \* the pairs of archives that may be compared

\* tail: what a read after the last entry meets: the zeros that fill the last
\* page ("zeros"), nothing, because the file ends with a page ("page"), or no
\* read, because the file ends inside its last entry ("cut").
DiffEntry == [name : Seq(Nat), size : Nat, body : Nat]
DiffArchive == [entries : Seq(DiffEntry), tail : {"zeros", "page", "cut"}]

ASSUME DiffAssumption ==
    /\ EntryHeader \in Nat \ {0} /\ SkipBytes \in Nat
    /\ DiffInputs \subseteq
         [file1 : DiffArchive, file2 : DiffArchive, exists : BOOLEAN]

VARIABLES
    differ,     \* "idle", "looping", "comparing" or how it ended
    input,      \* the two archives, and whether only names are compared
    pos1, pos2, \* file1pos and file2pos
    last2,      \* lastFile2pos, where file2ent was read
    printed     \* what was printed: {"missing", "sizes", "bytes"} \X names

diffVars == <<differ, input, pos1, pos2, last2, printed>>

file1 == input.file1
file2 == input.file2

Zero == [name |-> <<>>, size |-> 0, body |-> 0]

\* The entry getNextEnt returns at position k: past the last entry, zeros.
EntAt(f, k) == IF k <= Len(f.entries) THEN f.entries[k] ELSE Zero

EntSize(e) == EntryHeader + Len(e.name) + e.size

\* The offset of position k, and the size of the file.
Offsets(f) ==
    LET at[k \in 1 .. Len(f.entries) + 2] ==
            IF k = 1 THEN 0 ELSE at[k - 1] + EntSize(EntAt(f, k - 1))
    IN  at
OffsetAt(f, k) == Offsets(f)[k]
FileSize(f) == OffsetAt(f, Len(f.entries) + 1) - IF f.tail = "cut" THEN 1 ELSE 0

\* getNextEnt returns NULL, or reads where nothing is mapped.
IsNull(f, k) == OffsetAt(f, k) > FileSize(f)
IsUnmapped(f, k) == f.tail = "page" /\ OffsetAt(f, k) = FileSize(f)

\* The first entry of each archive is read before the loop, which reads the next.
DiffInit ==
    /\ differ = "looping"
    /\ input \in DiffInputs
    /\ pos1 = 2 /\ pos2 = 2
    /\ last2 = 0
    /\ printed = {}

\* "Because I'm lazy: skip last entry": everything that ends in the last
\* SkipBytes, and nothing in a smaller file, as the difference is unsigned.
SkipLast(next) == FileSize(file1) >= SkipBytes /\ OffsetAt(file1, next) > FileSize(file1) - SkipBytes

Advance(f, k) == IF IsNull(f, k) THEN k ELSE k + 1

\* Both archives are read.  Whether to go on is decided before either pointer is
\* used, and an empty name is compared without using the second.
ReadNext ==
    /\ differ = "looping"
    /\ IF IsUnmapped(file1, pos1) \/ IsUnmapped(file2, pos2)
       THEN /\ differ' = "outside"
            /\ UNCHANGED <<pos1, pos2, last2>>
       ELSE /\ pos1' = Advance(file1, pos1)
            /\ last2' = pos2
            /\ pos2' = Advance(file2, pos2)
            /\ differ' = IF SkipLast(pos1') THEN "done"
                         ELSE IF \/ IsNull(file1, pos1)
                                 \/ IsNull(file2, pos2) /\ EntAt(file1, pos1).name # <<>>
                         THEN "null_entry" ELSE "comparing"
    /\ UNCHANGED <<input, printed>>

e1 == EntAt(file1, pos1 - 1)
e2 == EntAt(file2, last2)

\* strncmp over the length of the first name.
SameName == IsPrefix(e1.name, e2.name)

\* How far the second archive, now at position p, has moved.
Moved2(p) == OffsetAt(file2, p) - OffsetAt(file2, last2)

\* Mutant: entries of different sizes are compared by their first bytes only.
CompareBytes(p) ==
    IF ~input.exists /\ <<e1.name, e1.body>> # <<e2.name, e2.body>>
    THEN {<<"bytes", e1.name>>}
    ELSE {}

\* What is printed for a pair taken to be the same file.  The sizes compared are
\* how far both archives have moved, and the bytes are those of file2ent, even
\* when the second archive was searched.
Compare(p) ==
    IF input.exists THEN {}
    ELSE IF EntSize(e1) # Moved2(p) THEN {<<"sizes", e1.name>>}
    ELSE IF <<e1.name, e1.body>> # <<e2.name, e2.body>> THEN {<<"bytes", e1.name>>}
    ELSE {}

\* A NULL second entry ends the loop.
CompareSame ==
    /\ differ = "comparing" /\ SameName
    /\ printed' = printed \cup Compare(pos2)
    /\ differ' = IF IsNull(file2, last2) THEN "done" ELSE "looping"
    /\ UNCHANGED <<input, pos1, pos2, last2>>

\* The search compares as many bytes as the other name has.
SeekMatches(k) == IsPrefix(EntAt(file2, k).name, e1.name)

Readable2 == {k \in pos2 .. Len(file2.entries) + 1 : ~IsNull(file2, k)}
Before(k) == {j \in Readable2 : j < k}

\* Found further on: "align (all the rest to this point were not in file1)".
Realign ==
    /\ differ = "comparing" /\ ~SameName
    /\ \E k \in Readable2 :
         /\ \A j \in Before(k) : ~IsUnmapped(file2, j) /\ ~SeekMatches(j)
         /\ ~IsUnmapped(file2, k) /\ SeekMatches(k)
         /\ pos2' = k + 1
         /\ printed' = printed \cup Compare(k + 1)
    /\ differ' = "looping"
    /\ UNCHANGED <<input, pos1, last2>>

\* The search comes to an unmapped page.
SeekOutside ==
    /\ differ = "comparing" /\ ~SameName
    /\ \E k \in Readable2 :
         /\ \A j \in Before(k) : ~SeekMatches(j)
         /\ IsUnmapped(file2, k)
    /\ differ' = "outside"
    /\ UNCHANGED <<input, pos1, pos2, last2, printed>>

\* Mutant: the second archive is not rewound.
MissingForward ==
    /\ differ = "comparing" /\ ~SameName
    /\ \A k \in Readable2 : ~IsUnmapped(file2, k) /\ ~SeekMatches(k)
    /\ printed' = printed \cup {<<"missing", e1.name>>}
    /\ differ' = "looping"
    /\ UNCHANGED <<input, pos1, pos2, last2>>

\* "In file1 but not file2": the second archive is rewound to the entry.
Missing ==
    /\ differ = "comparing" /\ ~SameName
    /\ \A k \in Readable2 : ~IsUnmapped(file2, k) /\ ~SeekMatches(k)
    /\ printed' = printed \cup {<<"missing", e1.name>>}
    /\ pos2' = last2
    /\ differ' = "looping"
    /\ UNCHANGED <<input, pos1, last2>>

DiffNext == ReadNext \/ CompareSame \/ Realign \/ SeekOutside \/ Missing

DiffSpec == DiffInit /\ [][DiffNext]_diffVars

-----------------------------------------------------------------------------

DiffTypeOK ==
    /\ differ \in {"idle", "looping", "comparing", "done", "null_entry", "outside"}
    /\ pos1 \in 2 .. Len(file1.entries) + 2 /\ pos2 \in 2 .. Len(file2.entries) + 2
    /\ last2 \in 0 .. pos2
    /\ differ = "comparing" => ~IsNull(file1, pos1 - 1) /\ (e1.name = <<>> \/ ~IsNull(file2, last2))
    /\ \A p \in printed : p[1] \in {"missing", "sizes", "bytes"}

NamesOf(f) == {f.entries[k].name : k \in DOMAIN f.entries}

\* The first entry is never compared (both first entries are read before the
\* loop); these are those that were.
Compared == 2 .. IF pos1 - 1 <= Len(file1.entries) THEN pos1 - 1 ELSE Len(file1.entries)

SameLayout ==
    /\ Len(file1.entries) = Len(file2.entries)
    /\ \A k \in DOMAIN file1.entries : file1.entries[k].name = file2.entries[k].name
    /\ \A j, k \in DOMAIN file1.entries : file1.entries[j].name = file1.entries[k].name => j = k

\* Two archives with the same names in the same places: of what has been
\* compared, exactly the entries that differ are printed, as what they are.
ChangesAreExact ==
    differ = "looping" /\ SameLayout =>
        \A k \in DOMAIN file1.entries :
            LET f == file1.entries[k]
                g == file2.entries[k]
                seen == k \in Compared /\ ~input.exists
            IN  /\ <<"sizes", f.name>> \in printed <=> seen /\ f.size # g.size
                /\ <<"bytes", f.name>> \in printed <=> seen /\ f.size = g.size /\ f.body # g.body
                /\ <<"missing", f.name>> \notin printed

Unrelated(names) == \A m, n \in names : IsPrefix(m, n) => m = n

\* The second archive is the first without some of its entries: where each of its
\* entries was in the first.
Keeps(kept) ==
    /\ 1 \in DOMAIN kept /\ kept[1] = 1
    /\ \A m, n \in DOMAIN kept : m < n => kept[m] < kept[n]
    /\ \A m \in DOMAIN kept : file2.entries[m] = file1.entries[kept[m]]
    /\ \A k \in DOMAIN file1.entries :
          file1.entries[k].name \in NamesOf(file2) => \E m \in DOMAIN kept : kept[m] = k
OnlyRemovals ==
    /\ Unrelated(NamesOf(file1))
    /\ \E kept \in [DOMAIN file2.entries -> DOMAIN file1.entries] : Keeps(kept)

RemovalsPrinted ==
    \A k \in Compared :
        <<"missing", file1.entries[k].name>> \in printed
            <=> file1.entries[k].name \notin NamesOf(file2)

\* "In file1 but not file2" (line 359) is printed for the entries that were
\* removed and no other, if the second archive ends inside its last entry.
CutRemovalsAreExact ==
    differ = "looping" /\ OnlyRemovals /\ file2.tail = "cut" => RemovalsPrinted

\* What doDiff prints is different, and what it reports as missing is, under the
\* conditions of the two.
DifferencesAreExact == ChangesAreExact /\ CutRemovalsAreExact

\* The same, whatever follows the last entry: the program's usage says "Point
\* out differences between OTA _file1 and _file2" (line 411).
RemovalsAreExact == differ = "looping" /\ OnlyRemovals => RemovalsPrinted
=============================================================================
