-------------------------------- MODULE Lzss ---------------------------------
(***************************************************************************)
(* LZSS compression (src/src/lzss.c): compress_lzss, with the ring buffer  *)
(* and the binary search trees of insert_node and delete_node, and         *)
(* decompress_lzss as an operator.                                         *)
(*                                                                         *)
(* Arrays are functions with the indices of the code.  An iteration of a   *)
(* loop is a step.  A unit of code is a character or a pair, and a group   *)
(* the units that share a byte of flags; how 12 and 4 bits are packed into *)
(* two bytes is left out.                                                  *)
(***************************************************************************)
EXTENDS Integers, Sequences, FiniteSets, Folds

CONSTANTS
    N,          \* size of the ring buffer
    F,          \* upper limit for match_length
    THRESHOLD,  \* shorter matches are not worth a pair
    Units,      \* units per byte of flags
    Characters, \* number of characters; 256 in the code
    Space,      \* the character the ring is filled with
    Texts,      \* the texts that may be compressed
    Rooms       \* how much room there may be for the code, in bytes

NIL == N
Byte == 0 .. Characters - 1
Root(c) == N + 1 + c
Unit == [char : Byte] \cup [position : 0 .. N - 1, length : 0 .. F - THRESHOLD - 1]

ASSUME LzssAssumption ==
    /\ N \in Nat /\ F \in Nat /\ THRESHOLD \in Nat
    /\ 1 < F /\ THRESHOLD + 1 < F /\ 2 * F < N
    /\ Units \in Nat \ {0} /\ Rooms \subseteq Nat
    /\ Characters \in Nat /\ Space \in Byte
    /\ Texts \subseteq Seq(Byte)

VARIABLES
    pc,             \* where compress_lzss, or a function it calls, is
    text, src,      \* the text, and how much of it has been read
    dstlen,         \* the room for the code
    text_buf,       \* the ring buffer, with F - 1 bytes more
    lchild, rchild, parent,          \* the trees
    match_position, match_length,    \* set by insert_node
    s, r,           \* where the next byte goes; where the string to code is
    len,            \* length of that string
    i, last,        \* strings inserted (at first) or slid, and how many to slide
    caller,         \* where insert_node returns to
    node, p, cmp,   \* the r and p of insert_node and its last comparison
    q,              \* of delete_node
    code, dst,      \* the group being filled, and those written
    known           \* history: the positions ever inserted

treeVars == <<lchild, rchild, parent>>
matchVars == <<match_position, match_length>>
insertVars == <<node, p, cmp>>
inputVars == <<text, src, text_buf, dstlen>>
windowVars == <<s, r, len, i, last>>
outVars == <<code, dst>>
vars == <<pc, inputVars, treeVars, matchVars, windowVars, insertVars, caller, q,
          outVars, known>>

-----------------------------------------------------------------------------
(* compress_lzss up to its main loop                                       *)

\* init_state: everything is zeroed; part of the ring is then filled, and the
\* roots and parents are set.
Init ==
    /\ pc = "read"
    /\ text \in Texts
    /\ src = 0 /\ dstlen \in Rooms
    /\ text_buf = [j \in 0 .. N + F - 2 |-> IF j < N - F THEN Space ELSE 0]
    /\ lchild = [j \in 0 .. N |-> 0]
    /\ rchild = [j \in 0 .. N + Characters |-> IF j > N THEN NIL ELSE 0]
    /\ parent = [j \in 0 .. N |-> IF j < N THEN NIL ELSE 0]
    /\ match_position = 0 /\ match_length = 0
    /\ s = 0 /\ r = N - F /\ len = 0 /\ i = 0 /\ last = 0
    /\ caller = "warm"
    /\ node = 0 /\ p = 0 /\ cmp = 1 /\ q = 0
    /\ code = <<>> /\ dst = <<>>
    /\ known = {}

\* The first F bytes are read; a text of size zero is not compressed.
ReadFirst ==
    /\ pc = "read"
    /\ len' = IF Len(text) < F THEN Len(text) ELSE F
    /\ src' = len'
    /\ text_buf' = [j \in DOMAIN text_buf |->
                      IF j \in r .. r + len' - 1 THEN text[j - r + 1] ELSE text_buf[j]]
    /\ pc' = IF len' = 0 THEN "null" ELSE "warm"
    /\ i' = 1
    /\ UNCHANGED <<text, dstlen, treeVars, matchVars, s, r, last, insertVars, caller, q,
                   outVars, known>>

\* insert_node is called for the string that begins with c at position n.
Insert(n, c) ==
    /\ pc' = "descend"
    /\ node' = n
    /\ p' = Root(c)
    /\ cmp' = 1
    /\ lchild' = [lchild EXCEPT ![n] = NIL]
    /\ rchild' = [rchild EXCEPT ![n] = NIL]
    /\ match_length' = 0
    /\ known' = known \cup {n}
    /\ UNCHANGED <<parent, match_position>>

\* The F strings before the text, then the text.
Warm ==
    /\ pc = "warm"
    /\ LET n == IF i <= F THEN r - i ELSE r IN Insert(n, text_buf[n])
    /\ i' = i + 1
    /\ UNCHANGED <<inputVars, s, r, len, last, caller, q, outVars>>

-----------------------------------------------------------------------------
(* insert_node                                                             *)

\* After the last of the first strings, the main loop begins.
Returned == pc' = IF caller = "warm" /\ node = r THEN "emit" ELSE caller

Child == IF cmp >= 0 THEN rchild[p] ELSE lchild[p]

\* No child on that side: the node becomes one.
Attach ==
    /\ pc = "descend" /\ Child = NIL
    /\ IF cmp >= 0
       THEN rchild' = [rchild EXCEPT ![p] = node] /\ UNCHANGED lchild
       ELSE lchild' = [lchild EXCEPT ![p] = node] /\ UNCHANGED rchild
    /\ parent' = [parent EXCEPT ![node] = p]
    /\ Returned
    /\ UNCHANGED <<inputVars, matchVars, windowVars, insertVars, caller, q, outVars, known>>

\* The strings at a and b agree before their byte k, and k = F or not there.
FirstDifference(a, b, k) ==
    /\ \A j \in 1 .. k - 1 : text_buf[a + j] = text_buf[b + j]
    /\ k < F => text_buf[a + k] # text_buf[b + k]

\* The strings of the node and of the child are compared, and a longer match is
\* kept; an equal string is looked after next.
Descend ==
    /\ pc = "descend" /\ Child # NIL
    /\ p' = Child
    /\ \E k \in 1 .. F :
         /\ FirstDifference(node, p', k)
         /\ cmp' = IF k = F THEN 0 ELSE text_buf[node + k] - text_buf[p' + k]
         /\ IF k > match_length
            THEN match_length' = k /\ match_position' = p'
            ELSE UNCHANGED matchVars
         /\ pc' = IF k > match_length /\ k = F THEN "replace" ELSE "descend"
    /\ UNCHANGED <<inputVars, treeVars, windowVars, node, caller, q, outVars, known>>

\* An equal string: the new node takes the place of the old one.
Replace ==
    /\ pc = "replace"
    /\ LET above == parent[p]
           lc == [lchild EXCEPT ![node] = lchild[p]]
           rc == [rchild EXCEPT ![node] = rchild[p]]
       IN  IF rc[above] = p
           THEN rchild' = [rc EXCEPT ![above] = node] /\ lchild' = lc
           ELSE lchild' = [lc EXCEPT ![above] = node] /\ rchild' = rc
    /\ parent' = [parent EXCEPT ![node] = parent[p], ![lchild[p]] = node,
                                ![rchild[p]] = node, ![p] = NIL]
    /\ Returned
    /\ UNCHANGED <<inputVars, matchVars, windowVars, insertVars, caller, q, outVars, known>>

-----------------------------------------------------------------------------
(* The main loop: one unit of code is emitted ...                          *)

\* Mutant: the match is taken as it is.
CodedAll == match_length

\* Near the end of the text a match may be longer than what is left.
Coded == IF match_length > len THEN len ELSE match_length

Emit ==
    /\ pc = "emit"
    /\ IF Coded <= THRESHOLD
       THEN code' = Append(code, [char |-> text_buf[r]]) /\ match_length' = 1
       ELSE /\ code' = Append(code, [position |-> match_position, length |-> Coded - (THRESHOLD + 1)])
            /\ match_length' = Coded
    /\ last' = match_length'
    /\ i' = 0
    /\ caller' = "slide"
    /\ pc' = IF Len(code') = Units THEN "write" ELSE "slide"
    /\ UNCHANGED <<inputVars, treeVars, match_position, s, r, len, insertVars, q, dst, known>>

Bytes(unit) == IF "char" \in DOMAIN unit THEN 1 ELSE 2
Size(units) == MapThenFoldSet(+, 0, LAMBDA k : Bytes(units[k]), LAMBDA S : CHOOSE k \in S : TRUE, DOMAIN units)
Written == MapThenFoldSet(+, 0, LAMBDA k : 1 + Size(dst[k]), LAMBDA S : CHOOSE k \in S : TRUE, DOMAIN dst)

\* Mutant: a group is given as much room as the largest takes.
WriteLargest(then) ==
    /\ IF Written + 1 + 2 * Units <= dstlen
       THEN dst' = Append(dst, code) /\ code' = <<>> /\ pc' = then
       ELSE pc' = "null" /\ UNCHANGED outVars
    /\ UNCHANGED <<inputVars, treeVars, matchVars, windowVars, insertVars, caller, q, known>>

\* The group is complete, or the last one, and is written if there is room.
Write(then) ==
    /\ IF Written + 1 + Size(code) <= dstlen
       THEN dst' = Append(dst, code) /\ code' = <<>> /\ pc' = then
       ELSE pc' = "null" /\ UNCHANGED outVars
    /\ UNCHANGED <<inputVars, treeVars, matchVars, windowVars, insertVars, caller, q, known>>

WriteGroup == pc = "write" /\ Write("slide")

\* ... and the window slides over the bytes it stands for.
Slid ==
    /\ pc = "slide" /\ i = last
    /\ pc' = IF len > 0 THEN "emit" ELSE IF code # <<>> THEN "flush" ELSE "done"
    /\ UNCHANGED <<inputVars, treeVars, matchVars, windowVars, insertVars, caller, q, outVars, known>>

Flush == pc = "flush" /\ Write("done")

-----------------------------------------------------------------------------
(* delete_node, for the node at s                                          *)

Deleting == pc = "slide" /\ i < last

DeleteAbsent ==
    /\ Deleting /\ parent[s] = NIL
    /\ pc' = "shift"
    /\ UNCHANGED <<inputVars, treeVars, matchVars, windowVars, insertVars, caller, q, outVars, known>>

\* In trees lc, rc and par, node x takes the place of s.
Unlink(lc, rc, par, x) ==
    /\ IF rc[par[s]] = s
       THEN rchild' = [rc EXCEPT ![par[s]] = x] /\ lchild' = lc
       ELSE lchild' = [lc EXCEPT ![par[s]] = x] /\ rchild' = rc
    /\ parent' = [par EXCEPT ![x] = par[s], ![s] = NIL]

DeleteSimple ==
    /\ Deleting /\ parent[s] # NIL
    /\ NIL \in {lchild[s], rchild[s]}
    /\ q' = IF rchild[s] = NIL THEN lchild[s] ELSE rchild[s]
    /\ Unlink(lchild, rchild, parent, q')
    /\ pc' = "shift"
    /\ UNCHANGED <<inputVars, matchVars, windowVars, insertVars, caller, outVars, known>>

\* Two children: the rightmost node of the left tree is looked for ...
DeleteSearch ==
    /\ \/ Deleting /\ parent[s] # NIL /\ NIL \notin {lchild[s], rchild[s]} /\ q' = lchild[s]
       \/ pc = "rightmost" /\ rchild[q] # NIL /\ q' = rchild[q]
    /\ pc' = "rightmost"
    /\ UNCHANGED <<inputVars, treeVars, matchVars, windowVars, insertVars, caller, outVars, known>>

\* Mutant: the left children of that node are lost.
DeleteDoubleLoses ==
    /\ pc = "rightmost" /\ rchild[q] = NIL
    /\ IF q = lchild[s]
       THEN Unlink(lchild, [rchild EXCEPT ![q] = rchild[s]],
                   [parent EXCEPT ![rchild[s]] = q], q)
       ELSE Unlink([lchild EXCEPT ![q] = lchild[s]],
                   [rchild EXCEPT ![parent[q]] = NIL, ![q] = rchild[s]],
                   [parent EXCEPT ![lchild[s]] = q, ![rchild[s]] = q], q)
    /\ pc' = "shift"
    /\ UNCHANGED <<inputVars, matchVars, windowVars, insertVars, caller, q, outVars, known>>

\* ... and takes the place of s, its left child the place of itself.
DeleteDouble ==
    /\ pc = "rightmost" /\ rchild[q] = NIL
    /\ IF q = lchild[s]
       THEN Unlink(lchild, [rchild EXCEPT ![q] = rchild[s]],
                   [parent EXCEPT ![rchild[s]] = q], q)
       ELSE Unlink([lchild EXCEPT ![q] = lchild[s]],
                   [rchild EXCEPT ![parent[q]] = lchild[q], ![q] = rchild[s]],
                   [parent EXCEPT ![lchild[q]] = parent[q], ![lchild[s]] = q, ![rchild[s]] = q], q)
    /\ pc' = "shift"
    /\ UNCHANGED <<inputVars, matchVars, windowVars, insertVars, caller, q, outVars, known>>

-----------------------------------------------------------------------------
(* After the deletion, the window moves on by one.                         *)

MoveOn ==
    /\ s' = (s + 1) % N
    /\ r' = (r + 1) % N
    /\ i' = i + 1

\* Mutant: the copy behind the ring is not kept up to date.
PutByteOnce(c) == [text_buf EXCEPT ![s] = c]

\* A byte of text is stored, near the beginning of the ring twice.
PutByte(c) == [j \in DOMAIN text_buf |-> IF j = s \/ (s < F - 1 /\ j = s + N) THEN c ELSE text_buf[j]]

ShiftRead ==
    /\ pc = "shift" /\ src < Len(text)
    /\ src' = src + 1
    /\ text_buf' = PutByte(text[src + 1])
    /\ MoveOn
    /\ Insert(r', text_buf'[r'])
    /\ UNCHANGED <<text, dstlen, len, last, caller, q, outVars>>

\* After the end of the text the string gets shorter, down to nothing.
ShiftEnd ==
    /\ pc = "shift" /\ src = Len(text)
    /\ MoveOn
    /\ len' = len - 1
    /\ IF len' > 0
       THEN Insert(r', text_buf[r'])
       ELSE pc' = "slide" /\ UNCHANGED <<treeVars, matchVars, insertVars, known>>
    /\ UNCHANGED <<inputVars, last, caller, q, outVars>>

Step ==
    \/ ReadFirst \/ Warm \/ Attach \/ Descend \/ Replace \/ Emit \/ WriteGroup \/ Slid \/ Flush
    \/ DeleteAbsent \/ DeleteSimple \/ DeleteSearch \/ DeleteDouble \/ ShiftRead \/ ShiftEnd

Returns == pc \in {"done", "null"} /\ UNCHANGED vars

Next == Step \/ Returns

Spec == Init /\ [][Next]_vars

-----------------------------------------------------------------------------
(* decompress_lzss                                                         *)

\* What the decoder's ring holds where nothing has been written.
Unwritten == Characters

Put(st, c) == [ring |-> [st.ring EXCEPT ![st.r] = c],
               r |-> (st.r + 1) % N,
               out |-> Append(st.out, c)]

\* A pair is copied byte by byte, as it may overlap what it produces.
Decode(st, unit) ==
    IF "char" \in DOMAIN unit THEN Put(st, unit.char)
    ELSE LET copy[k \in 0 .. F] ==
               IF k = 0 THEN st
               ELSE LET before == copy[k - 1]
                    IN  Put(before, before.ring[(unit.position + k - 1) % N])
         IN  copy[unit.length + THRESHOLD + 1]

DecodeGroup(st, units) ==
    LET after[k \in 0 .. Units] == IF k = 0 THEN st ELSE Decode(after[k - 1], units[k])
    IN  after[Len(units)]

Decompress(groups) ==
    LET start == [ring |-> [k \in 0 .. N - 1 |-> IF k < N - F THEN Space ELSE Unwritten],
                  r |-> N - F, out |-> <<>>]
        after[k \in 0 .. Len(groups)] ==
            IF k = 0 THEN start ELSE DecodeGroup(after[k - 1], groups[k])
    IN  after[Len(groups)].out

-----------------------------------------------------------------------------
(* Properties                                                              *)

PC == {"read", "warm", "descend", "replace", "emit", "write", "slide", "rightmost",
       "shift", "flush", "done", "null"}

TypeOK ==
    /\ pc \in PC
    /\ text \in Seq(Byte) /\ src \in 0 .. Len(text) /\ dstlen \in Nat
    /\ text_buf \in [0 .. N + F - 2 -> Byte]
    /\ lchild \in [0 .. N -> 0 .. N]
    /\ rchild \in [0 .. N + Characters -> 0 .. N]
    /\ parent \in [0 .. N -> 0 .. N + Characters]
    /\ match_position \in 0 .. N - 1 /\ match_length \in 0 .. F
    /\ s \in 0 .. N - 1 /\ r \in 0 .. N - 1 /\ len \in 0 .. F
    /\ i \in 0 .. F + 2 /\ last \in 0 .. F
    /\ caller \in {"warm", "slide"}
    /\ node \in 0 .. N - 1 /\ p \in 0 .. N + Characters /\ p # NIL
    /\ q \in 0 .. N
    /\ code \in Seq(Unit) /\ dst \in Seq(Seq(Unit))
    /\ known \subseteq 0 .. N - 1

AtRest == pc \in {"warm", "emit", "write", "slide", "shift", "flush"}

InTree == {x \in 0 .. N - 1 : parent[x] # NIL}
Roots == {Root(c) : c \in Byte}

\* The strings before r that the ring still holds in full.
Window == {(r - k) % N : k \in 1 .. N - F} \cap known

\* Between two calls of insert_node and delete_node the links of the 256 trees
\* agree: a node is a child of its parent and the parent of its children, the
\* top node of a tree has its character, and only strings of the window, and
\* the one at r, are nodes.
TreesAreSound ==
    AtRest /\ caller = "slide" =>
        /\ InTree \subseteq Window \cup {r}
        /\ \A x \in InTree :
             LET a == parent[x]
                 below == {lchild[x], rchild[x]} \ {NIL}
             IN  /\ IF a \in Roots THEN rchild[a] = x /\ a = Root(text_buf[x])
                    ELSE a \in InTree /\ (lchild[a] = x) # (rchild[a] = x)
                 /\ \A c \in below : parent[c] = x
        /\ \A a \in Roots : rchild[a] # NIL => parent[rchild[a]] = a

\* The strings at a and b of the ring agree in their first k bytes.
Agree(a, b, k) == \A j \in 0 .. k - 1 : text_buf[(a + j) % N] = text_buf[(b + j) % N]

\* A unit stands for the longest string that occurs in the window, and the pair
\* points at one: the search down one path of the tree misses nothing, whatever
\* deletions the tree has been through.  A text that begins with Space is an
\* exception: of the equal strings before it the oldest stays in the tree.
LongestMatch ==
    pc = "emit" /\ text[1] # Space =>
        /\ Coded > THRESHOLD => match_position \in Window /\ Agree(match_position, r, Coded)
        /\ Coded < len => \A x \in Window : ~Agree(x, r, Coded + 1)

\* What has been compressed decompresses to the text, and compress_lzss only
\* fails for a text of size zero, or for want of room: one byte per character and
\* one per group are always enough.
RoundTrip ==
    /\ pc = "done" => Decompress(dst) = text
    /\ pc = "null" => text = <<>> \/ dstlen < Len(text) + (Len(text) + Units - 1) \div Units
=============================================================================
