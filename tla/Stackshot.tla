------------------------------- MODULE Stackshot -------------------------------
(***************************************************************************)
(* stackshot (src/src/stackshot.c): gets a snapshot of the stacks of all   *)
(* threads from the kernel and prints its items, which are nested.         *)
(***************************************************************************)
EXTENDS Integers, Sequences, FiniteSets

CONSTANT Snapshots    \* what the kernel may return

Header == 16          \* the type, the size and the flags of an item; and the alignment

\* kind: of containers, "begin" or "end"; "text" is formatted into Output, and
\* "append" behind what is there; "direct" is printed at once, as are unknown
\* types; "silent" has nothing to say.  An array has elements of one kind.
Item == [kind : {"begin", "end", "text", "append", "direct", "silent", "array"}, size : Nat,
         element : {"none", "text", "direct"}, elements : Nat]

Snapshot == [granted : BOOLEAN, magic : BOOLEAN, items : Seq(Item)]

ASSUME StackshotAssumption == Snapshots \subseteq Snapshot

VARIABLES
    snapshot,
    stackshot,      \* "start", "walk", or "done"
    off,            \* where the next item is read
    inContainer,    \* the depth
    Output,         \* what the line holds before the item: "garbage" at first, then "empty"
    report          \* what was printed: for each item, directly or as its line

stackshotVars == <<snapshot, stackshot, off, inContainer, Output, report>>

-----------------------------------------------------------------------------
(* The buffer: each item begins at a multiple of 16                        *)

items == snapshot.items

Aligned(n) == ((n + Header - 1) \div Header) * Header
Places ==
    LET place[k \in 1 .. Len(items) + 1] ==
            IF k = 1 THEN Header ELSE place[k - 1] + Header + Aligned(items[k - 1].size)
    IN  place
BufferSize == Places[Len(items) + 1]

-----------------------------------------------------------------------------

StackshotInit ==
    /\ snapshot \in Snapshots
    /\ stackshot = "start" /\ off = 0
    /\ inContainer = 0
    /\ Output = "garbage"
    /\ report = <<>>

\* Only root may, and the buffer must begin with the magic number.
GetStackshot ==
    /\ stackshot = "start"
    /\ IF snapshot.granted /\ snapshot.magic
       THEN stackshot' = "walk" /\ off' = Header
       ELSE stackshot' = "done" /\ UNCHANGED off
    /\ UNCHANGED <<snapshot, inContainer, Output, report>>

\* An end is as deep as its beginning.
Tabs(item) == IF item.kind = "end" THEN inContainer - 1 ELSE inContainer
Indent(item) == IF Tabs(item) < 0 THEN 0 ELSE Tabs(item)

\* dump_array: how many elements are formatted into Output.
Dumped(item) == IF item.element = "text" THEN item.elements ELSE 0

\* printf: the types not formatted, and each element of an array of such.
PrintedAtOnce(item) ==
    CASE item.kind = "direct" -> 1
      [] item.kind = "array" -> item.elements - Dumped(item)
      [] OTHER -> 0

\* What the line holds: tabs end what was there.
Formatted(item) ==
    LET before == IF Indent(item) > 0 THEN "empty" ELSE Output IN
    CASE item.kind = "text" -> "text"
      [] item.kind = "array" /\ Dumped(item) > 0 -> "text"
      [] item.kind = "append" -> IF before = "empty" THEN "text" ELSE "garbage and text"
      [] OTHER -> before

\* Mutant: the wrong part of the last 16 bytes is skipped.
PaddingLeft(item) == item.size % Header

Skipped(item) == LET rest == item.size % Header IN IF rest = 0 THEN 0 ELSE Header - rest

\* handle_kcdata_item, and its line.
HandleItem ==
    /\ stackshot = "walk" /\ off < BufferSize
    /\ \E k \in DOMAIN items :
         LET item == items[k]
             at(tabs, what) == [item |-> k, tabs |-> tabs, what |-> what]
         IN  /\ Places[k] = off
             /\ report' = report \o [n \in 1 .. PrintedAtOnce(item) |-> at(0, "at once")]
                                 \o <<at(Indent(item), Formatted(item))>>
             /\ inContainer' = inContainer + (CASE item.kind = "begin" -> 1
                                                [] item.kind = "end" -> -1
                                                [] OTHER -> 0)
             /\ off' = off + item.size + Header + Skipped(item)
    /\ Output' = "empty"
    /\ UNCHANGED <<snapshot, stackshot>>

EndBuffer ==
    /\ stackshot = "walk" /\ off >= BufferSize
    /\ stackshot' = "done"
    /\ UNCHANGED <<snapshot, off, inContainer, Output, report>>

StackshotNext == GetStackshot \/ HandleItem \/ EndBuffer
StackshotEnded ==
    \/ stackshot = "done"
    \/ /\ stackshot = "walk" /\ off < BufferSize
       /\ \A k \in DOMAIN items : Places[k] # off

-----------------------------------------------------------------------------
(* Properties                                                              *)

StackshotTypeOK ==
    /\ stackshot \in {"start", "walk", "done"}
    /\ off \in Nat /\ inContainer \in Int
    /\ Output \in {"garbage", "empty"}
    /\ \A n \in DOMAIN report : report[n].item \in DOMAIN items

\* The entries of the report that are the line of an item.
ItemLines == {n \in DOMAIN report : report[n].what # "at once"}
TheirItems == {report[n].item : n \in ItemLines}

\* The containers open when item k begins or, for an end, when it has ended.
OpenAt(k) ==
    LET before(kind) == Cardinality({j \in 1 .. k - 1 : items[j].kind = kind})
        ends == before("end") + (IF items[k].kind = "end" THEN 1 ELSE 0)
    IN  before("begin") - ends

\* The containers are nested: no end without a beginning.
Nested == \A k \in DOMAIN items : OpenAt(k) >= 0

\* The walk stays in step with the items for all sizes they may have: each is
\* told, in order and once, as deep as it is nested, and none is forgotten at
\* the end; nothing of an item is printed behind its line.  After the first line
\* none shows what another left behind.
ItemsAreTold ==
    Nested =>
        /\ stackshot = "walk" => \E k \in 1 .. Len(items) + 1 : off = Places[k] /\ TheirItems = 1 .. k - 1
        /\ stackshot = "done" /\ snapshot.granted /\ snapshot.magic => TheirItems = DOMAIN items
        /\ \A m \in ItemLines, n \in DOMAIN report : m < n => report[m].item < report[n].item
        /\ \A n \in ItemLines :
             LET line == report[n] IN
             /\ line.tabs = OpenAt(line.item)
             /\ line.item > 1 => line.what \in {"text", "empty"}
=============================================================================
