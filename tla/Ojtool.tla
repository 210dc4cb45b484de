-------------------------------- MODULE Ojtool --------------------------------
(***************************************************************************)
(* ojtool (src/src/ojtool.c): a filter for the lines of otool, which knows *)
(* more of their addresses from jtool.                                     *)
(*                                                                         *)
(* What a number before "(%rip)" stands for is known once the address of   *)
(* the next instruction is: such a line is kept until the next is read.    *)
(***************************************************************************)
EXTENDS Integers, Sequences

CONSTANTS
    Listings,   \* what otool may print
    JTools,     \* what jtool may know of the binary
    NoNumber    \* in place of a number before "(%rip)"

\* address: 0 for a label, which begins with no number.  ref: the number before
\* "(%rip)", if any.  target: an address in the line, or 0.  known: otool says
\* what it refers to, by "##" or by a literal.
OtoolLine == [address : Nat, ref : Int \cup {NoNumber}, target : Nat, known : BOOLEAN]

\* The addresses jtool has found in the GOT, in the sections of Objective-C, in
\* those of strings, and in the companion file; where the stubs are; and how many
\* lines of lazy bindings it printed.  Without the name of a binary: nothing.
JTool == [got : SUBSET Int, objc : SUBSET Int, strings : SUBSET Int, comp : SUBSET Int,
          stubsStart : Nat, stubsEnd : Nat, bindLines : Nat]

ASSUME OjtoolAssumption ==
    NoNumber \notin Int /\ Listings \subseteq Seq(OtoolLine) /\ JTools \subseteq JTool

VARIABLES
    listing, jtool,
    upto,           \* the line just read; beyond the last at the end of the input
    rip,            \* the last address read
    saved, hexNum,  \* the line kept, or 0, and its number
    otoolKnewThis,  \* the last line was a label
    printed         \* what was printed: a line, or the name of a function

ojtoolVars == <<listing, jtool, upto, rip, saved, hexNum, otoolKnewThis, printed>>

OjtoolInit ==
    /\ listing \in Listings /\ jtool \in JTools
    /\ upto = 1 /\ rip = 0
    /\ saved = 0 /\ hexNum = 0
    /\ otoolKnewThis = FALSE
    /\ printed = <<>>

input == listing[upto]

\* sscanf leaves rip alone if there is no number.
Rip == IF input.address = 0 THEN rip ELSE input.address

\* The first two lines of jtool are skipped; the others are taken, odd ones too.
numLazyBinds == IF jtool.bindLines < 2 THEN 0 ELSE jtool.bindLines - 2

-----------------------------------------------------------------------------

Entry(n, what, value) == [line |-> n, what |-> what, value |-> value]

\* Mutant: relative to the instruction itself.
ResolvedEarly == rip + hexNum

\* What the number of the kept line stands for, now.
Resolved == Rip + hexNum

\* The line kept: its beginning, the value, its rest, and what jtool has to say.
\* Behind the name from the GOT the rest is printed again.
Flushed ==
    LET Knows(addresses) == ~listing[saved].known /\ Resolved \in addresses
        what == IF Knows(jtool.objc) THEN "objc" ELSE IF Knows(jtool.strings) THEN "string" ELSE "rip"
    IN  IF saved = 0 THEN <<>>
        ELSE IF Knows(jtool.got) THEN <<Entry(saved, "got", Resolved), Entry(saved, "again", Resolved)>>
        ELSE <<Entry(saved, what, Resolved)>>

\* "Is this a known funcstart?"  Only the companion file is asked, which is never
\* NULL; that of function starts is not.
FunctionName ==
    IF ~otoolKnewThis /\ Rip \in jtool.comp THEN <<Entry(0, "function", Rip)>> ELSE <<>>

\* An address in the line: a symbol, a stub by its number, or nothing known.
Asked == input.target # 0 /\ ~input.known
InStubs == input.target \in jtool.stubsStart .. jtool.stubsEnd
StubNumber == (input.target - jtool.stubsStart) \div 6
PassedOn ==
    IF Asked /\ input.target \in jtool.comp THEN <<Entry(upto, "symbol", input.target)>>
    ELSE IF Asked /\ InStubs
    THEN <<Entry(upto, IF StubNumber > numLazyBinds THEN "not a stub"
                       ELSE IF StubNumber = numLazyBinds THEN "(null)" ELSE "stub", StubNumber)>>
    ELSE <<Entry(upto, "verbatim", 0)>>

ReadNext == rip' = Rip /\ upto' = upto + 1 /\ UNCHANGED <<listing, jtool>>

\* Mutant: the line kept is not forgotten once it has been printed.
PassLineKept ==
    /\ upto <= Len(listing) /\ input.ref = NoNumber
    /\ printed' = printed \o Flushed \o FunctionName \o PassedOn
    /\ otoolKnewThis' = IF Asked THEN otoolKnewThis ELSE input.address = 0
    /\ UNCHANGED <<saved, hexNum>>
    /\ ReadNext

\* The line kept is printed now that the address is known; this one is kept.
KeepLine ==
    /\ upto <= Len(listing) /\ input.ref # NoNumber
    /\ printed' = printed \o Flushed
    /\ saved' = upto /\ hexNum' = input.ref
    /\ UNCHANGED otoolKnewThis
    /\ ReadNext

\* ... or this one is printed, too.
PassLine ==
    /\ upto <= Len(listing) /\ input.ref = NoNumber
    /\ printed' = printed \o Flushed \o FunctionName \o PassedOn
    /\ saved' = 0 /\ hexNum' = 0
    /\ otoolKnewThis' = IF Asked THEN otoolKnewThis ELSE input.address = 0
    /\ ReadNext

OjtoolNext == KeepLine \/ PassLine
OjtoolEnded == upto > Len(listing)

-----------------------------------------------------------------------------
(* Properties                                                              *)

OjtoolTypeOK ==
    /\ upto \in 1 .. Len(listing) + 1 /\ rip \in Nat
    /\ saved \in {0, upto - 1} /\ hexNum \in Int
    /\ \A k \in DOMAIN printed : printed[k].line \in 0 .. upto - 1

PassedAt(out) == {k \in DOMAIN out : out[k].line # 0 /\ out[k].what # "again"}

\* Every line is passed on, in order and once, whatever is kept: only one that
\* is kept now is still to come, and is lost if it is the last.  The value of a
\* line is relative to the next instruction, if that, and no label, follows
\* (comment at 22-27): in a row of such lines each has its own.
Resolves(out, upToLine) ==
    /\ \A j, k \in PassedAt(out) : j < k => out[j].line < out[k].line
    /\ {out[k].line : k \in PassedAt(out)} = 1 .. upToLine
    /\ \A k \in PassedAt(out) :
         LET n == out[k].line IN
         listing[n].ref # NoNumber /\ listing[n + 1].address # 0 =>
                out[k].value = listing[n + 1].address + listing[n].ref

LinesAreResolved == Resolves(printed, upto - 1 - (IF saved = 0 THEN 0 ELSE 1))
=============================================================================
