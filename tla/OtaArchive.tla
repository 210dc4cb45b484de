------------------------------ MODULE OtaArchive ------------------------------
(***************************************************************************)
(* The archive walk of ota (src/src/ota.c): main processes each file named *)
(* on its command line, and processFile lists the entries of one archive.  *)
(*                                                                         *)
(* An archive is either legacy (a chain of packed struct entry, name and   *)
(* content) or YAA (a chain of "YAA1" headers and content): which of them  *)
(* it is walked as depends on its first bytes alone.  Bytes are not        *)
(* modelled: at[p] is what the code would read if it took offset p for a   *)
(* header of the one or of the other.  Offsets are counted in units of     *)
(* which a header has Header.                                              *)
(*                                                                         *)
(* The offset of the legacy walk is the global variable pos; the YAA walk  *)
(* has a local one of the same name, but checks the magic at the global.   *)
(***************************************************************************)
EXTENDS Integers, Sequences, FiniteSets

CONSTANTS
    Header,         \* sizeof(struct entry), in units
    Slack,          \* what can be read behind an archive: the rest of a page or buffer
    CommandLines,   \* the sequences of files that may be given
    StackLimit      \* room for the names processFile keeps on its stack

\* An offset read as struct entry: magic is "known" for 0x210 or 0x110, "x310"
\* for 0x310; zero: the next field is 0.  Read as a YAA header: mark is "YAA1",
\* in the bytes of magic; rc is what YAAright returns, unless the attributes
\* overrun the header (exits).
View ==
    {v \in [magic : {"known", "x310", "other"}, zero : BOOLEAN, nameLen : Nat,
            fileSize : Nat, mark : BOOLEAN, rc : Int, exits : BOOLEAN] :
        v.mark => v.magic = "other"}

\* at[p + 1] is the view of offset p; kind is what whoever made the archive made
\* it, and entries are the offsets at which he put its entries.
Archive ==
    [kind : {"legacy", "yaa"}, entries : SUBSET Nat, at : Seq(View)]
        \cup [kind : {"ecc"}]

ASSUME OtaAssumption ==
    /\ Header \in Nat \ {0}
    /\ StackLimit \in Nat
    /\ Slack \in Nat
    /\ CommandLines \subseteq Seq(Archive)

VARIABLES
    args,     \* the files still to be processed, the current one first
    pc,       \* what the program is doing
    pos,      \* the global pos
    yaaPos,   \* the pos of processFile's YAA branch
    listed,   \* the offsets of the entries processed in the current file
    stack     \* the stack used by the names of the current file

vars == <<args, pc, pos, yaaPos, listed, stack>>

file == Head(args)
fileSize == Len(file.at)
Offset == 0 .. fileSize - 1
At(p) == file.at[p + 1]

PC == {"main", "legacy", "resync", "yaa", "exit", "aborted", "outside", "died"}

Init ==
    /\ args \in CommandLines
    /\ pc = "main"
    /\ pos = 0
    /\ yaaPos = 0
    /\ listed = <<>>
    /\ stack = 0

-----------------------------------------------------------------------------
(* main's loop over its arguments, and the choice processFile makes.       *)

\* It begins with "YAA1".
Marked(a) == a.at # <<>> /\ a.at[1].mark

\* A file is mapped, and its first bytes tell how it is walked; only a legacy
\* walk resets the global pos.
Open ==
    /\ pc = "main" /\ args # <<>>
    /\ file.kind # "ecc"
    /\ pc' = IF Marked(file) THEN "yaa" ELSE "legacy"
    /\ listed' = <<>>
    /\ yaaPos' = 0
    /\ pos' = IF Marked(file) THEN pos ELSE 0
    /\ UNCHANGED <<args, stack>>

\* A name that contains ".ecc" is passed over.
SkipEcc ==
    /\ pc = "main" /\ args # <<>>
    /\ file.kind = "ecc"
    /\ args' = Tail(args)
    /\ UNCHANGED <<pc, pos, yaaPos, listed, stack>>

Exit ==
    /\ pc = "main" /\ args = <<>>
    /\ pc' = "exit"
    /\ UNCHANGED <<args, pos, yaaPos, listed, stack>>

\* Mutant: the early return only leaves the inner loop.
ReturnInner ==
    /\ pc' = pc
    /\ args' = Tail(args)
    /\ stack' = 0

\* processFile returns; its stack is given back.
Return ==
    /\ pc' = "main"
    /\ args' = Tail(args)
    /\ stack' = 0

-----------------------------------------------------------------------------
(* The legacy walk                                                         *)

\* The loop stops three headers short of the end.
InLoop == pc = "legacy" /\ pos + 3 * Header < fileSize

\* Offset after the entry at p: header, name and content.
EntryEnd(p) == p + Header + At(p).nameLen + At(p).fileSize

\* Mutant: the content of an entry is not stepped over.
ProcessName(p) ==
    LET used == stack + At(p).nameLen + 1 IN
    IF used <= StackLimit
    THEN /\ listed' = Append(listed, p)
         /\ stack' = used
         /\ pos' = p + Header + At(p).nameLen
         /\ pc' = "legacy"
         /\ UNCHANGED <<args, yaaPos>>
    ELSE /\ pc' = "aborted"
         /\ UNCHANGED <<args, pos, yaaPos, listed, stack>>

\* The entry at p is listed.  Its name is copied to memory from alloca.
Process(p) ==
    LET used == stack + At(p).nameLen + 1 IN
    IF used <= StackLimit
    THEN /\ listed' = Append(listed, p)
         /\ stack' = used
         /\ pos' = EntryEnd(p)
         /\ pc' = "legacy"
         /\ UNCHANGED <<args, yaaPos>>
    ELSE /\ pc' = "aborted"
         /\ UNCHANGED <<args, pos, yaaPos, listed, stack>>

Good(v) == v.magic # "other" /\ v.zero

AcceptEntry ==
    /\ InLoop
    /\ Good(At(pos))
    /\ Process(pos)

\* Mutant: two headers are consumed before the search begins.
CorruptFar ==
    /\ InLoop
    /\ ~Good(At(pos))
    /\ pos' = pos + 2 * Header
    /\ pc' = "resync"
    /\ UNCHANGED <<args, yaaPos, listed, stack>>

\* A damaged header: its bytes are consumed before the search begins.
CorruptEntry ==
    /\ InLoop
    /\ ~Good(At(pos))
    /\ pos' = pos + Header
    /\ pc' = "resync"
    /\ UNCHANGED <<args, yaaPos, listed, stack>>

Known(p) == p \in Offset /\ At(p).magic = "known"

\* The search stops at the first 0x210 or 0x110 from pos on.
FirstKnown(p) == p >= pos /\ Known(p) /\ \A q \in pos .. p - 1 : ~Known(q)

FalsePositive(p) == ~At(p).zero \/ At(p).nameLen = 0

\* Mutant: after a false positive the search stays where it is.
ResyncFalseStay ==
    /\ pc = "resync"
    /\ \E p \in Offset :
         /\ FirstKnown(p) /\ FalsePositive(p)
         /\ pos' = p
    /\ UNCHANGED <<args, pc, yaaPos, listed, stack>>

\* A false positive: the search goes on one byte further.
ResyncFalse ==
    /\ pc = "resync"
    /\ \E p \in Offset :
         /\ FirstKnown(p) /\ FalsePositive(p)
         /\ pos' = p + 1
         /\ IF p + 1 > fileSize THEN Return ELSE UNCHANGED <<pc, args, stack>>
    /\ UNCHANGED <<yaaPos, listed>>

\* Found: the entry is processed, unless its header reaches past the end.
ResyncFound ==
    /\ pc = "resync"
    /\ \E p \in Offset :
         /\ FirstKnown(p) /\ ~FalsePositive(p)
         /\ IF p + Header > fileSize
            THEN /\ pos' = p + Header
                 /\ Return
                 /\ UNCHANGED <<yaaPos, listed>>
            ELSE Process(p)

\* The search has no bound of its own.  It may find the magic behind the
\* archive, where a false positive (p + 1) and an entry (p + Header) alike end
\* the walk, being past fileSize.
ResyncBehind ==
    /\ pc = "resync"
    /\ \A p \in Offset : p >= pos => ~Known(p)
    /\ \E p \in fileSize .. fileSize + Slack - 1 : pos' \in {p + 1, p + Header}
    /\ Return
    /\ UNCHANGED <<yaaPos, listed>>

\* Or it finds nothing and leaves the mapping.
ResyncOutside ==
    /\ pc = "resync"
    /\ \A p \in Offset : p >= pos => ~Known(p)
    /\ pc' = "outside"
    /\ UNCHANGED <<args, pos, yaaPos, listed, stack>>

LegacyEnd ==
    /\ pc = "legacy" /\ ~InLoop
    /\ Return
    /\ UNCHANGED <<pos, yaaPos, listed>>

-----------------------------------------------------------------------------
(* The YAA walk                                                            *)

\* YAAright compares the magic at the global pos, not at the entry.
MagicSeen == IF pos < fileSize THEN {At(pos).mark} ELSE BOOLEAN

YaaStep == pc = "yaa" /\ yaaPos < fileSize

\* A header that parses: YAAright returns the length of the entry.
YaaEntry ==
    /\ YaaStep
    /\ TRUE \in MagicSeen
    /\ ~At(yaaPos).exits /\ At(yaaPos).rc > 0
    /\ listed' = Append(listed, yaaPos)
    /\ yaaPos' = yaaPos + At(yaaPos).rc
    /\ UNCHANGED <<args, pc, pos, stack>>

\* Attributes that reach past the header end the program.
YaaExit ==
    /\ YaaStep
    /\ TRUE \in MagicSeen
    /\ At(yaaPos).exits
    /\ pc' = "died"
    /\ UNCHANGED <<args, pos, yaaPos, listed, stack>>

\* "Not YAA or corrupt - skipping": on to the next "YAA1", the one at yaaPos
\* included, or nowhere if there is none.
YaaCorrupt ==
    /\ YaaStep
    /\ \/ FALSE \in MagicSeen
       \/ TRUE \in MagicSeen /\ ~At(yaaPos).exits /\ At(yaaPos).rc <= 0
    /\ \/ \E p \in Offset :
            /\ p >= yaaPos /\ At(p).mark
            /\ \A q \in yaaPos .. p - 1 : ~At(q).mark
            /\ yaaPos' = p
       \/ /\ \A p \in Offset : p >= yaaPos => ~At(p).mark
          /\ yaaPos' = yaaPos
    /\ UNCHANGED <<args, pc, pos, listed, stack>>

YaaEnd ==
    /\ pc = "yaa" /\ yaaPos >= fileSize
    /\ Return
    /\ UNCHANGED <<pos, yaaPos, listed>>

-----------------------------------------------------------------------------

LegacyNext ==
    \/ AcceptEntry \/ CorruptEntry \/ LegacyEnd
    \/ ResyncFalse \/ ResyncFound \/ ResyncBehind \/ ResyncOutside

YaaNext == YaaEntry \/ YaaExit \/ YaaCorrupt \/ YaaEnd

Step == Open \/ SkipEcc \/ Exit \/ LegacyNext \/ YaaNext

Terminated == pc \in {"exit", "aborted", "outside", "died"} /\ UNCHANGED vars

Next == Step \/ Terminated

Spec == Init /\ [][Next]_vars
FairSpec == Spec /\ WF_vars(Step)

-----------------------------------------------------------------------------
(* Properties                                                              *)

Walking == pc \in {"legacy", "resync", "yaa"}

TypeOK ==
    /\ args \in Seq(Archive)
    /\ pc \in PC
    /\ pos \in Nat /\ yaaPos \in Nat /\ stack \in Nat
    /\ listed \in Seq(Nat)
    /\ Walking => /\ args # <<>>
                  /\ file.kind # "ecc" /\ (pc = "yaa") = Marked(file)
                  /\ \A i \in DOMAIN listed : listed[i] \in Offset

\* Where the entry listed at p ends, and where the walk is now.
ListedEnd(p) == IF pc = "yaa" THEN p + At(p).rc ELSE EntryEnd(p)
Cursor == IF pc = "yaa" THEN yaaPos ELSE pos

\* Entries are listed once each, in the order of the archive, and no two of
\* them share a byte, however often the walk lost and found its way.
ListedInOrder ==
    Walking =>
        /\ \A i \in DOMAIN listed : ListedEnd(listed[i]) <= Cursor
        /\ \A i, j \in DOMAIN listed : i < j => ListedEnd(listed[i]) <= listed[j]

\* A legacy archive is walked in finitely many steps, however it is damaged,
\* unless the search leaves the mapping or the stack is exhausted: each false
\* positive brings the search forward.
WalkEnds == pc \in {"legacy", "resync"} ~> pc \notin {"legacy", "resync"}

-----------------------------------------------------------------------------
(* The promise of -l, see module OtaListing.                               *)

\* Intact entries are printed in order and once, and damage costs only the
\* entries it hits (lines 984-1020 of ota.c).
Listing == INSTANCE OtaListing WITH
    Archives <- Archive, files <- args, open <- Walking, printed <- listed,
    gone <- (pc \in {"aborted", "outside", "died"})

ListingSpec == Listing!Spec

\* An entry begins at p, or all of them end before.
Stands(a, p) == p \in a.entries \/ \A e \in a.entries : e < p

\* An archive as a sound tool lays it out, some of whose headers may have been
\* damaged since: an entry whose header is whole is followed by the next one or
\* is the last, legacy headers do not overlap, and a YAA archive begins with its
\* mark, all its entries have theirs, and nothing else in it parses.
Laid(a) ==
    a.kind # "ecc" =>
        /\ a.entries \subseteq 0 .. Len(a.at) - 1
        /\ Stands(a, 0)
        /\ (a.kind = "yaa") = Marked(a)
        /\ \A e \in a.entries :
             LET v == a.at[e + 1]
                 whole == IF a.kind = "yaa" THEN v.rc > 0 ELSE Good(v)
                 end == IF a.kind = "yaa" THEN e + v.rc
                        ELSE e + Header + v.nameLen + v.fileSize
             IN  /\ whole => Stands(a, end) /\ \A f \in a.entries : f <= e \/ end <= f
                 /\ a.kind = "legacy" => \A f \in a.entries : f <= e \/ e + Header <= f
        /\ a.kind = "yaa" =>
             \A p \in 0 .. Len(a.at) - 1 :
                 IF p \in a.entries THEN a.at[p + 1].mark ELSE a.at[p + 1].rc <= 0

AllLaid == \A c \in CommandLines : \A i \in DOMAIN c : Laid(c[i])

-----------------------------------------------------------------------------
(* Claims of the source that its code does not keep.                       *)

\* Line 965: "Not YAA or corrupt - skipping", and the comment after it.  An
\* entry of which only the mark is left is found again by the search for it.
CorruptYaaIsSkipped == (pc = "yaa") ~> (pc # "yaa")

\* ChangeLog 08/06/19: "Can now ota ...whatever... payload.0?? to iterate
\* over all files!"
IteratesAllFiles == <>(pc = "exit")
=============================================================================
