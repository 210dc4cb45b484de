--------------------------------- MODULE Smut ---------------------------------
(***************************************************************************)
(* smut (src/src/smut.c): prints the structures of an SMBIOS table.        *)
(*                                                                         *)
(* A structure is a part of a given length and a set of strings, of which  *)
(* each ends with a NUL and the last with two; without strings there are   *)
(* two NULs.  Where the next structure begins is found by reading them.    *)
(***************************************************************************)
EXTENDS Integers, Sequences, FiniteSets

CONSTANT SMBTables    \* the tables that may be found in the registry

\* strings: their lengths.  numbers: the strings the fixed part asks for, by
\* number; 0 asks for none.
Structure == [type : {"oem", "other"}, length : Nat, strings : Seq(Nat \ {0}), numbers : Seq(Nat)]

ASSUME SmutAssumption ==
    /\ SMBTables \subseteq Seq(Structure)
    /\ \A table \in SMBTables : \A k \in DOMAIN table :
          table[k].length > 0 /\ (table[k].type = "oem" => table[k].length = 5)

VARIABLES
    smbios,     \* the structures
    Offset,     \* where the next one is thought to be, or Outside
    structures  \* the structures printed, each with its strings

smutVars == <<smbios, Offset, structures>>

Outside == -1

-----------------------------------------------------------------------------
(* The bytes of a table                                                    *)

LowestOf(S) == CHOOSE x \in S : \A y \in S : x <= y

\* What a byte is of: 0 the fixed part of its structure, n its n-th string; or NUL.
NUL == -1

\* A string and the NUL that ends it.
StringRoom(s, n) == s.strings[n] + 1

\* Where the strings of a structure begin, and, at last, the NUL behind them.
StringPlaces(s) ==
    LET from[n \in 1 .. Len(s.strings) + 1] == IF n = 1 THEN s.length ELSE from[n - 1] + StringRoom(s, n - 1)
    IN  from

StructureSize(s) == StringPlaces(s)[Len(s.strings) + 1] + (IF s.strings = <<>> THEN 2 ELSE 1)
StructurePlaces ==
    LET from[k \in 1 .. Len(smbios) + 1] == IF k = 1 THEN 0 ELSE from[k - 1] + StructureSize(smbios[k - 1])
    IN  from
TableSize == StructurePlaces[Len(smbios) + 1]

StructureAt(o) == CHOOSE k \in DOMAIN smbios : StructurePlaces[k] <= o /\ o < StructurePlaces[k + 1]
KindAt(o) ==
    LET s == smbios[StructureAt(o)]
        within == o - StructurePlaces[StructureAt(o)]
        stringsAt == {n \in DOMAIN s.strings : /\ StringPlaces(s)[n] <= within
                                               /\ within < StringPlaces(s)[n] + s.strings[n]}
    IN  IF within < s.length THEN 0 ELSE IF stringsAt = {} THEN NUL ELSE LowestOf(stringsAt)
BeginsAt(o) == o < TableSize /\ KindAt(o) = 0 /\ (o # 0 => KindAt(o - 1) = NUL)

-----------------------------------------------------------------------------

SmutInit ==
    /\ smbios \in SMBTables
    /\ Offset = 0
    /\ structures = <<>>

\* getSMBString: past stringNum - 1 NULs, in whichever structure; nothing if a
\* NUL is there.  The 0-th string is the first.
getSMBString(k, stringNum) ==
    LET from == Offset + smbios[k].length
        nuls == {o \in from .. TableSize - 1 : KindAt(o) = NUL}
        passed == IF stringNum = 0 THEN 0 ELSE stringNum - 1
        o == IF passed = 0 THEN from
             ELSE 1 + CHOOSE n \in nuls : Cardinality({m \in nuls : m < n}) = passed - 1
    IN  IF passed > Cardinality(nuls) \/ o >= TableSize THEN <<Outside, 0>>
        ELSE IF KindAt(o) = NUL THEN <<k, 0>> ELSE <<StructureAt(o), KindAt(o)>>

\* Where reading strings from o ends, behind the NUL that ends them.
StringsFrom(o) ==
    LET ends == {e \in o .. TableSize - 1 : KindAt(e) = NUL /\ (e = o \/ KindAt(e - 1) = NUL)}
    IN  IF ends = {} THEN Outside ELSE LowestOf(ends) + 1

\* Mutant: no correction; of the two NULs without strings only one is passed.
StringsEndEarly(k) == StringsFrom(Offset + smbios[k].length)

\* "If it's the NULL byte terminator, correct": if the second byte is NUL, there
\* are no strings, or the first has one character.
StringsEnd(k) ==
    LET second == Offset + smbios[k].length + 1 IN
    IF KindAt(second) = NUL THEN StringsFrom(second) ELSE StringsFrom(second - 1)

\* All strings of an "oem" structure are printed, from the fifth byte on.
OemEnd == StringsFrom(Offset + 5)

\* The strings a structure asks for, case by case.
AskedFor(k) == [n \in DOMAIN smbios[k].numbers |-> getSMBString(k, smbios[k].numbers[n])]

Parse ==
    /\ Offset \in 0 .. TableSize - 1 /\ BeginsAt(Offset)
    /\ LET k == StructureAt(Offset)
           s == smbios[k]
           got == IF s.type = "oem" THEN [n \in DOMAIN s.strings |-> <<k, n>>]
                  ELSE AskedFor(k)
       IN  /\ structures' = Append(structures, [structure |-> k, strings |-> got])
           /\ Offset' = IF s.type = "oem" THEN OemEnd ELSE StringsEnd(k)
    /\ UNCHANGED smbios

SmutNext == Parse

\* It then takes for a structure what is none; or it is at the end.
SmutEnded == ~(Offset \in 0 .. TableSize - 1 /\ BeginsAt(Offset))

-----------------------------------------------------------------------------
(* Properties                                                              *)

SmutTypeOK == Offset \in Nat \cup {Outside}

\* No string of one character comes first, and OEM structures have strings.
Usual ==
    \A k \in DOMAIN smbios :
        /\ smbios[k].strings # <<>> => smbios[k].strings[1] > 1
        /\ smbios[k].type = "oem" => smbios[k].strings # <<>>

\* The walk stays in step with the structures, whatever their strings look like:
\* each is printed, in order and once.  A string that is there is what is printed
\* under its number.
StructuresInStep ==
    Usual => /\ Offset = TableSize \/ BeginsAt(Offset)
             /\ Offset = TableSize => Len(structures) = Len(smbios)
             /\ \A k \in DOMAIN structures :
                  /\ structures[k].structure = k
                  /\ smbios[k].type = "other" =>
                       \A n \in DOMAIN smbios[k].numbers :
                         smbios[k].numbers[n] \in 1 .. Len(smbios[k].strings) =>
                             structures[k].strings[n] = <<k, smbios[k].numbers[n]>>
=============================================================================
