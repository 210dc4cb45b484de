----------------------------- MODULE MCOtaArchive -----------------------------
(* Archives for OtaArchive, laid out from short lists of segments.         *)
EXTENDS OtaArchive

CONSTANT Profile   \* which command lines to try

\* What is no header of the other kind: each kind read as the other.
NoYaa == [mark |-> FALSE, rc |-> -3, exits |-> FALSE]
NoLegacy == [magic |-> "other", zero |-> TRUE, nameLen |-> 0, fileSize |-> 0]
Both(legacy, yaa) ==
    [magic |-> legacy.magic, zero |-> legacy.zero, nameLen |-> legacy.nameLen,
     fileSize |-> legacy.fileSize, mark |-> yaa.mark, rc |-> yaa.rc, exits |-> yaa.exits]

Other == Both(NoLegacy, NoYaa)

\* start[i] is where segment i begins, when segment i is len[i] long.
Starts(len) ==
    LET start[i \in 1 .. Len(len) + 1] == IF i = 1 THEN 0 ELSE start[i - 1] + len[i - 1]
    IN  start

SegLen(s) == Header + s.head.nameLen + s.head.fileSize

\* A legacy archive of these segments and pad units after the last; the last
\* unit of a segment's content reads as look.
Legacy(segs, pad) ==
    LET st == Starts([i \in DOMAIN segs |-> SegLen(segs[i])])
        n == st[Len(segs) + 1] + pad
    IN  [kind |-> "legacy", entries |-> {st[i] : i \in DOMAIN segs},
         at |-> [k \in 1 .. n |-> LET p == k - 1 IN
            IF \E i \in DOMAIN segs : p = st[i]
            THEN segs[CHOOSE i \in DOMAIN segs : p = st[i]].head
            ELSE IF \E i \in DOMAIN segs : segs[i].head.fileSize > 0 /\ p = st[i + 1] - 1
            THEN segs[CHOOSE i \in DOMAIN segs : p = st[i + 1] - 1].look
            ELSE Other]]

Yaa(segs) ==
    LET st == Starts([i \in DOMAIN segs |-> segs[i].len])
        n == st[Len(segs) + 1]
    IN  [kind |-> "yaa", entries |-> {st[i] : i \in DOMAIN segs},
         at |-> [k \in 1 .. n |-> LET p == k - 1 IN
            IF \E i \in DOMAIN segs : p = st[i]
            THEN LET s == segs[CHOOSE i \in DOMAIN segs : p = st[i]] IN
                 Both(NoLegacy, [mark |-> s.mark, rc |-> IF s.ok THEN s.len ELSE -3,
                                 exits |-> s.over])
            ELSE Other]]

Ecc == [kind |-> "ecc"]

SeqsUpTo(S, n) == UNION {[1 .. k -> S] : k \in 1 .. n}

Heads(magics, zeros) ==
    {Both(h, NoYaa) :
        h \in [magic : magics, zero : zeros, nameLen : {0, 1}, fileSize : {0, 2}]}

Looks == {Both([magic |-> "known", zero |-> z, nameLen |-> 1, fileSize |-> 0], NoYaa) :
             z \in BOOLEAN}

Unlooking(magics, zeros) == [head : Heads(magics, zeros), look : {Other}]
Looking(magics, zeros) == [head : Heads(magics, zeros), look : {Other} \cup Looks]

Small == [head : {Both([magic |-> m, zero |-> TRUE, nameLen |-> 1, fileSize |-> 0], NoYaa) :
                    m \in {"known", "x310"}}, look : {Other}]

One(S) == {<<a>> : a \in S}

DamagedArchives ==
    {Legacy(s, p) : s \in SeqsUpTo(Looking({"known", "other"}, BOOLEAN), 2),
                    p \in {0, 1, 3 * Header}}
      \cup {Legacy(s, 1) : s \in SeqsUpTo(Unlooking({"known", "x310", "other"}, {TRUE}), 3)}

ListedArchives ==
    {Legacy(s, 3 * Header) : s \in SeqsUpTo(Unlooking({"known", "other"}, BOOLEAN), 3)}
      \cup {Yaa(s) : s \in SeqsUpTo([len : {1, 2}, mark : {TRUE}, ok : {TRUE},
                                     over : BOOLEAN], 3)}

GoodLegacy == {Legacy(s, p) : s \in SeqsUpTo(Small, 3), p \in {0, 3 * Header}}
GoodYaa == {Yaa(s) : s \in SeqsUpTo([len : {1, 2}, mark : {TRUE}, ok : {TRUE},
                                    over : {FALSE}], 2)}
BadYaa == {Yaa(s) : s \in SeqsUpTo([len : {1, 2}, mark : BOOLEAN, ok : BOOLEAN,
                                   over : {FALSE}], 3)}

TwoFiles == LET S == GoodLegacy \cup GoodYaa \cup {Ecc} IN {<<a, b>> : a, b \in S}

MCCommandLines ==
    CASE Profile = "all" -> One(DamagedArchives \cup ListedArchives) \cup TwoFiles
      [] Profile = "legacy" -> One(GoodLegacy)
      [] Profile = "yaa" -> One(BadYaa)
      [] Profile = "two" -> TwoFiles

\* The archives of which the listing is promised are laid out as archives are.
ASSUME MCLaid == Profile = "all" => AllLaid
=============================================================================
