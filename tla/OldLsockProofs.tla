---------------------------- MODULE OldLsockProofs ----------------------------
(***************************************************************************)
(* Proofs about the first lsock: its rows are those of live sockets, will  *)
(* be described again while they are not final, and have been printed.     *)
(***************************************************************************)
EXTENDS OldLsock, NstatProofs, FiniteSetTheorems

oldVars17 == <<kernelVars, oldVars>>
OldInit == KernelInit /\ OldLsockInit
OldLsockSpec == OldInit /\ [][OldLsockNext]_oldVars17

-----------------------------------------------------------------------------
(* Type correctness                                                        *)

LEMMA ReadOldType ==
    ASSUME KernelTypeOK, NEW types, ReadOld(types)
    PROVE  /\ Head(fromKernel) \in Message /\ Head(fromKernel).type \in types
           /\ fromKernel' \in Seq(Message)
  BY HeadTailProperties DEF ReadOld, KernelTypeOK

LEMMA EmptyTypes == NoRow \in Row17 /\ EmptyLine \in Line17 /\ 0 \in Ref
  <1>1. NoRow \in Row17
    BY DEF NoRow, Row17, SockState
  <1>2. 0 \in Ref
    BY NstatAssumption DEF NstatAssumption, Ref
  <1> QED  BY <1>1, <1>2 DEF EmptyLine, Line17

LEMMA LongerIs ==
    ASSUME NEW a \in Nat, NEW b \in Nat
    PROVE  Longer(a, b) \in Nat /\ Longer(a, b) >= a /\ Longer(a, b) >= b
  BY DEF Longer

LEMMA DashedType ==
    ASSUME OldLsockTypeOK, NEW r \in Ref PROVE Dashed(r) \in [1 .. Height -> Line17]
  <1>1. lines17 \in [1 .. Height -> Line17] /\ rows17[r].width \in Nat
    BY DEF OldLsockTypeOK, Row17
  <1>2. ASSUME r \in 1 .. Height
        PROVE  [EmptyLine EXCEPT !.extent = Longer(lines17[r].extent, 1 + rows17[r].width)] \in Line17
    <2>1. lines17[r].extent \in Nat /\ 1 + rows17[r].width \in Nat
      BY <1>1, <1>2 DEF Line17
    <2>2. Longer(lines17[r].extent, 1 + rows17[r].width) \in Nat
      BY <2>1, LongerIs
    <2> QED  BY <2>2, EmptyTypes DEF Line17
  <1> QED  BY <1>1, <1>2 DEF Dashed

LEMMA DrawnType ==
    ASSUME OldLsockTypeOK, NEW r \in Ref, NEW k \in 1 .. Height, NEW w, NEW erased
    PROVE  /\ Drawn(r, k, w, erased) \in Line17
           /\ Drawn(r, k, w, erased).ref = r /\ Drawn(r, k, w, erased).row = rows17[r]
           /\ Drawn(r, k, w, erased).extent >= rows17[r].width
           /\ LastOn(k, w) => Drawn(r, k, w, erased).extent = rows17[r].width
  <1>1. rows17[r] \in Row17 /\ rows17[r].width \in Nat /\ lines17[k].extent \in Nat
    BY DEF OldLsockTypeOK, Row17, Line17
  <1>2. /\ Longer(lines17[k].extent, rows17[r].width) \in Nat
        /\ Longer(lines17[k].extent, rows17[r].width) >= rows17[r].width
    BY <1>1, LongerIs
  <1> QED  BY <1>1, <1>2 DEF Drawn, Line17

LEMMA OldStepType == ASSUME OldLsockTypeOK, OldLsockStep \/ MessageLost PROVE OldLsockTypeOK'
  <1> USE DEF OldLsockTypeOK
  <1>a. ASSUME NEW r \in Ref, refreshSrc(r) PROVE toKernel' \in Seq(Request) /\ missed' \subseteq Ref
    <2>1. [type |-> "GET_SRC_DESC", srcref |-> r] \in Request /\ toKernel \in Seq(Request)
      BY Requests DEF KernelTypeOK
    <2>2. Append(toKernel, [type |-> "GET_SRC_DESC", srcref |-> r]) \in Seq(Request)
      BY <2>1, AppendProperties
    <2> QED  BY <1>a, <2>1, <2>2 DEF refreshSrc
  <1>1. CASE SetupSocketFails
    BY <1>1 DEF SetupSocketFails, kernelVars, KernelTypeOK
  <1>2. CASE SetupSocket
    <2>1. \A provider \in {Provider2, Provider3}, sent \in BOOLEAN : AddAll17(sent, provider) \in Seq(Request)
      <3>1. Provider3 \in Provider /\ Provider2 \in Provider
        BY OldLsockAssumption DEF OldLsockAssumption, Provider
      <3>2. /\ [type |-> "ADD_ALL_SRCS", provider |-> Provider3] \in Request
            /\ [type |-> "ADD_ALL_SRCS", provider |-> Provider2] \in Request
        BY <3>1, Requests
      <3> QED  BY <3>2, EmptySeq DEF AddAll17
    <2>2. PICK udp, tcp \in BOOLEAN :
            toKernel' = AddAll17(udp, Provider3) \o AddAll17(tcp, Provider2)
      BY <1>2 DEF SetupSocket
    <2>4. toKernel' \in Seq(Request)
      BY <2>1, <2>2, ConcatProperties
    <2> QED  BY <1>2, <2>4 DEF SetupSocket, KernelTypeOK
  <1>3. CASE SourceAdded
    <2>1. /\ ReadOld({"SRC_ADDED"}) /\ refreshSrc(Head(fromKernel).srcref)
          /\ modded' = modded \cup {Head(fromKernel).srcref}
      BY <1>3 DEF SourceAdded
    <2>2. Head(fromKernel).srcref \in Ref /\ fromKernel' \in Seq(Message)
      BY <2>1, ReadOldType, MessageFields
    <2>3. toKernel' \in Seq(Request) /\ missed' \subseteq Ref
      BY <1>a, <2>1, <2>2
    <2> QED  BY <1>3, <2>1, <2>2, <2>3 DEF SourceAdded, KernelTypeOK
  <1>4. CASE SourceRemoved
    <2>1. ReadOld({"SRC_REMOVED"})
      BY <1>4 DEF SourceRemoved
    <2>2. Head(fromKernel).srcref \in Ref /\ fromKernel' \in Seq(Message)
      BY <2>1, ReadOldType, MessageFields
    <2>4. /\ rows17' \in [Ref -> Row17] /\ modded' \subseteq Ref
          /\ lines17' \in [1 .. Height -> Line17]
          /\ lsock17' \in {"tail", "crashed"}
      BY <1>4, <2>2, DashedType, EmptyTypes DEF SourceRemoved
    <2> QED  BY <1>4, <2>2, <2>4 DEF SourceRemoved, KernelTypeOK
  <1>5. CASE SourceDescribed
    <2> DEFINE m == Head(fromKernel)
    <2>1. /\ ReadOld({"SRC_DESC"})
          /\ modded' = modded \cup {m.srcref}
          /\ refreshSrc(m.srcref) \/ UNCHANGED <<toKernel, missed>>
      BY <1>5 DEF SourceDescribed
    <2>0. PICK width \in Widths17[m.srcref] : rows17' = [rows17 EXCEPT ![m.srcref] = RowOf(m, width)]
      BY <1>5 DEF SourceDescribed
    <2>2. /\ m.srcref \in Ref /\ m.inc \in Nat /\ m.state \in SockState
          /\ fromKernel' \in Seq(Message)
      BY <2>1, ReadOldType, MessageFields
    <2>3. toKernel' \in Seq(Request) /\ missed' \subseteq Ref
      BY <1>a, <2>1, <2>2 DEF KernelTypeOK
    <2>5. width \in Nat
      BY <2>2, OldLsockAssumption DEF OldLsockAssumption
    <2>4. rows17' \in [Ref -> Row17]
      BY <2>0, <2>2, <2>5 DEF Row17, RowOf
    <2> QED  BY <1>5, <2>1, <2>2, <2>3, <2>4 DEF SourceDescribed, KernelTypeOK
  <1>6. CASE OtherMessage
    <2>1. fromKernel' \in Seq(Message)
      BY <1>6, ReadOldType DEF OtherMessage
    <2> QED  BY <1>6, <2>1 DEF OtherMessage, KernelTypeOK
  <1>7. CASE NoMessage
    BY <1>7 DEF NoMessage, kernelVars, KernelTypeOK
  <1>8. CASE LoopTail
    <2>1. PICK key : wants' = Key(key, wants) /\ print_descriptors(wants', key # "ERR")
      BY <1>8 DEF LoopTail
    <2>2. wants' \in Wants
      BY <2>1 DEF Key, Wants
    <2>3. screen17' \in [Ref -> Row17] /\ modded' \subseteq Ref
      BY <2>1 DEF print_descriptors
    <2>4. lines17' \in [1 .. Height -> Line17]
      <3> DEFINE w == wants'
                 erased == key # "ERR"
                 At(k) == CHOOSE r \in Shown17(w) : LineOf(r, w) = k
                 Is(k) == \E r \in Shown17(w) : LineOf(r, w) = k
      <3>1. CASE w.curses
        <4>1. lines17' = [k \in 1 .. Height |-> IF Is(k) THEN Drawn(At(k), k, w, erased) ELSE EmptyLine]
          BY <2>1, <3>1 DEF print_descriptors, DrawLines
        <4>2. ASSUME NEW k \in 1 .. Height, Is(k) PROVE At(k) \in Ref
          BY <4>2 DEF Shown17
        <4> HIDE DEF w, erased, At, Is
        <4>3. ASSUME NEW k \in 1 .. Height, Is(k) PROVE Drawn(At(k), k, w, erased) \in Line17
          BY <4>2, <4>3, DrawnType
        <4> QED  BY <4>1, <4>3, EmptyTypes
      <3>2. CASE ~w.curses
        BY <2>1, <3>2 DEF print_descriptors
      <3> QED  BY <3>1, <3>2
    <2> QED  BY <1>8, <2>2, <2>3, <2>4 DEF LoopTail, kernelVars, KernelTypeOK
  <1>9. CASE MessageLost
    <2>1. ReadOld({"SRC_ADDED", "SRC_REMOVED", "SRC_DESC"})
      BY <1>9 DEF MessageLost
    <2>2. Head(fromKernel).srcref \in Ref /\ fromKernel' \in Seq(Message)
      BY <2>1, ReadOldType, MessageFields
    <2> QED  BY <1>9, <2>2 DEF MessageLost, KernelTypeOK
  <1> QED  BY <1>1, <1>2, <1>3, <1>4, <1>5, <1>6, <1>7, <1>8, <1>9 DEF OldLsockStep

-----------------------------------------------------------------------------
(* The lines of the screen                                                 *)

\* No two rows share a line.
LEMMA LinesDiffer ==
    ASSUME NEW w, NEW r \in Shown17(w)
    PROVE  /\ LineOf(r, w) \in Nat \ {0}
           /\ \A q \in Shown17(w) : LineOf(q, w) = LineOf(r, w) => q = r
  <1> DEFINE Upto(q) == {s \in Shown17(w) : s <= q}
  <1>1. Shown17(w) \subseteq Ref /\ Ref \subseteq Nat
    BY DEF Shown17, Ref
  <1>2. IsFiniteSet(Ref)
    BY NstatAssumption, FS_Interval DEF NstatAssumption, Ref
  <1>3. \A q \in Shown17(w) : IsFiniteSet(Upto(q)) /\ Cardinality(Upto(q)) \in Nat
    <2> TAKE q \in Shown17(w)
    <2>1. Upto(q) \in SUBSET Ref
      BY <1>1
    <2> HIDE DEF Upto
    <2>2. IsFiniteSet(Upto(q))
      BY <1>2, <2>1, FS_Subset
    <2> QED  BY <2>2, FS_CardinalityType
  <1>4. \A q, s \in Shown17(w) : q < s => Cardinality(Upto(q)) # Cardinality(Upto(s))
    <2> SUFFICES ASSUME NEW q \in Shown17(w), NEW s \in Shown17(w), q < s
                 PROVE  Cardinality(Upto(q)) # Cardinality(Upto(s))
      OBVIOUS
    <2>1. q \in Nat /\ s \in Nat
      BY <1>1
    <2>2. Upto(q) \in SUBSET Upto(s)
      <3> SUFFICES ASSUME NEW x \in Upto(q) PROVE x \in Upto(s)
        OBVIOUS
      <3>1. x \in Nat /\ x \in Shown17(w) /\ x <= q
        BY <1>1
      <3> QED  BY <2>1, <3>1
    <2>3. s \in Upto(s) /\ s \notin Upto(q)
      BY <2>1
    <2> HIDE DEF Upto
    <2>4. Upto(q) # Upto(s)
      BY <2>3
    <2>5. IsFiniteSet(Upto(s))
      BY <1>3
    <2>6. ASSUME NEW S, IsFiniteSet(S), NEW T \in SUBSET S, T # S PROVE Cardinality(T) # Cardinality(S)
      BY <2>6, FS_Subset
    <2> QED  BY <2>2, <2>4, <2>5, <2>6
  <1>9. \A q \in Shown17(w) : q \in Nat
    BY <1>1
  <1>5. r \in Upto(r)
    BY <1>9
  <1>6. \A q \in Shown17(w) : LineOf(q, w) = Cardinality(Upto(q))
    BY DEF LineOf
  <1> HIDE DEF Upto
  <1>7. Cardinality(Upto(r)) # 0
    <2>1. IsFiniteSet(Upto(r)) /\ Upto(r) # {}
      BY <1>3, <1>5
    <2> QED  BY <2>1, FS_EmptySet
  <1>8. \A q \in Shown17(w) : q = r \/ q < r \/ r < q
    BY <1>9
  <1> QED  BY <1>3, <1>4, <1>6, <1>7, <1>8

\* What print_descriptors draws.
LEMMA DrawnLines ==
    ASSUME OldLsockTypeOK, NEW w, NEW erased \in BOOLEAN, DrawLines(w, erased), NEW k \in 1 .. Height
    PROVE  /\ \A r \in Shown17(w) : LineOf(r, w) = k => lines17'[k] = Drawn(r, k, w, erased)
           /\ lines17'[k] # EmptyLine => \E r \in Shown17(w) : LineOf(r, w) = k
  <1> DEFINE Is == \E r \in Shown17(w) : LineOf(r, w) = k
             At == CHOOSE r \in Shown17(w) : LineOf(r, w) = k
  <1>1. lines17'[k] = IF Is THEN Drawn(At, k, w, erased) ELSE EmptyLine
    BY DEF DrawLines
  <1>2. Is => At \in Shown17(w) /\ LineOf(At, w) = k
    OBVIOUS
  <1>3. ASSUME NEW r \in Shown17(w), LineOf(r, w) = k PROVE At = r
    <2>1. Is
      BY <1>3
    <2> HIDE DEF Is, At
    <2> QED  BY <1>2, <1>3, <2>1, LinesDiffer
  <1>4. ASSUME NEW r \in Shown17(w), LineOf(r, w) = k PROVE Is
    BY <1>4
  <1>5. Is => \E r \in Shown17(w) : LineOf(r, w) = k
    OBVIOUS
  <1> HIDE DEF Is, At
  <1> QED  BY <1>1, <1>3, <1>4, <1>5

-----------------------------------------------------------------------------
(* The invariant                                                           *)

\* The socket of a live reference has been counted.
LiveCounted == \A r \in Ref : sock[r].live => sock[r].inc # 0

RowStands17(r) == rows17[r] # NoRow => Stands(r, rows17[r].inc)

\* In the scrolling mode what is not to be printed has been printed.
ScrolledBy(r) ==
    Wanted17(r, wants) /\ ~wants.curses /\ r \notin modded => screen17[r] = rows17[r]

\* In the scrolling mode there are no lines.
NoLines == lsock17 = "setup" \/ ~wants.curses => \A k \in 1 .. Height : lines17[k] = EmptyLine

OldInv ==
    /\ KernelOrder /\ Reannounced /\ LiveCounted
    /\ lsock17 = "setup" => toKernel = <<>> /\ \A r \in Ref : rows17[r] = NoRow
    /\ NoLines /\ LinesAreRows
    /\ \A r \in Ref : r \notin missed => RowStands17(r)
    /\ lsock17 # "crashed" => \A r \in Ref : /\ r \notin missed => RowIsFollowed(r)
                                            /\ RowIsPrinted(r) /\ ScrolledBy(r)

LEMMA UnderwayMember ==
    ASSUME NEW r
    PROVE  /\ Underway(r) <=> \/ Member(GetDesc(r), toKernel)
                              \/ \E m : /\ Member(m, fromKernel)
                                        /\ m.type \in {"SRC_ADDED", "SRC_DESC"} /\ m.srcref = r
           /\ Underway(r)' <=> \/ Member(GetDesc(r), toKernel')
                               \/ \E m : /\ Member(m, fromKernel')
                                         /\ m.type \in {"SRC_ADDED", "SRC_DESC"} /\ m.srcref = r
           /\ RemovalUnderway(r) <=> Member(Removal(r), fromKernel)
           /\ RemovalUnderway(r)' <=> Member(Removal(r), fromKernel')
           /\ RemovalBehind(r, 0) => RemovalUnderway(r)
           /\ RemovalBehind(r, 0)' => RemovalUnderway(r)'
  BY DEF Underway, RemovalUnderway, Member, GetDesc, Removal, RemovalBehind

\* A step of the kernel or of the sockets: who is followed stays so, and who is
\* new is told of.
LEMMA KernelFollows ==
    ASSUME KernelTypeOK, KernelOrder, Reannounced, Environment \/ Kernel,
           UNCHANGED oldVars, NEW r, RowIsFollowed(r)
    PROVE  RowIsFollowed(r)'
  <1> SUFFICES ASSUME r \in announced', rows17[r] = NoRow \/ rows17[r].state = "CLOSED"
               PROVE  Underway(r)' \/ RemovalUnderway(r)'
    BY DEF RowIsFollowed, oldVars, NoRow
  <1>1. \A m : Member(m, fromKernel) => Member(m, fromKernel')
    BY MembersKept DEF KernelOrder
  <1>2. CASE r \notin announced
    <2>1. Member(Announcement(r), fromKernel')
      BY <1>2, KernelReannounces DEF KernelOrder
    <2>2. Announcement(r).type = "SRC_ADDED" /\ Announcement(r).srcref = r
      BY DEF Announcement
    <2> QED  BY <2>1, <2>2, UnderwayMember
  <1>3. CASE r \in announced
    <2>1. Underway(r) \/ RemovalUnderway(r)
      BY <1>3 DEF RowIsFollowed
    <2>2. CASE Member(GetDesc(r), toKernel)
      <3>1. \/ Member(GetDesc(r), toKernel')
            \/ \E m : Member(m, fromKernel') /\ m.type = "SRC_DESC" /\ m.srcref = r
        BY <1>3, <2>2, RequestIsAnswered DEF KernelOrder
      <3> QED  BY <3>1, UnderwayMember
    <2>3. CASE ~Member(GetDesc(r), toKernel)
      BY <1>1, <2>1, <2>3, UnderwayMember
    <2> QED  BY <2>2, <2>3
  <1> QED  BY <1>2, <1>3

LEMMA KernelCounts ==
    ASSUME KernelTypeOK, LiveCounted, Environment \/ Kernel PROVE LiveCounted'
  <1>0. sock \in [Ref -> [live : BOOLEAN, inc : Nat, state : SockState]]
    BY DEF KernelTypeOK
  <1>1. CASE Kernel
    <2>1. sock' = sock
      BY <1>1 DEF Kernel, AnnounceSource, CountSource, AnswerAddAll, RefuseAddAll, AnswerGetDesc,
                  AnswerQuery, AnswerNone
    <2> QED  BY <2>1 DEF LiveCounted
  <1>2. CASE Environment
    <2>1. PICK r \in Ref : Open(r) \/ Close(r) \/ Change(r)
      BY <1>2 DEF Environment
    <2>2. CASE Open(r)
      <3>1. PICK s : sock' = [sock EXCEPT ![r] = [live |-> TRUE, inc |-> @.inc + 1, state |-> s]]
        BY <2>2 DEF Open
      <3>2. sock'[r].inc = sock[r].inc + 1 /\ sock[r].inc \in Nat
        BY <1>0, <3>1
      <3>3. sock'[r].inc # 0
        BY <3>2
      <3>4. \A q \in Ref : q # r => sock'[q] = sock[q]
        BY <1>0, <3>1
      <3> QED  BY <3>3, <3>4 DEF LiveCounted
    <2>3. CASE Close(r)
      <3>1. sock' = [sock EXCEPT ![r].live = FALSE]
        BY <2>3 DEF Close
      <3>2. \A q \in Ref : sock'[q].inc = sock[q].inc /\ (sock'[q].live => sock[q].live)
        BY <1>0, <3>1
      <3> QED  BY <3>2 DEF LiveCounted
    <2>4. CASE Change(r)
      <3>1. PICK s : sock' = [sock EXCEPT ![r].state = s]
        BY <2>4 DEF Change
      <3>2. \A q \in Ref : sock'[q].inc = sock[q].inc /\ sock'[q].live = sock[q].live
        BY <1>0, <3>1
      <3> QED  BY <3>2 DEF LiveCounted
    <2> QED  BY <2>1, <2>2, <2>3, <2>4
  <1> QED  BY <1>1, <1>2

\* A message is read: what it is not about stays as it was.
LEMMA ReadOldKeeps ==
    ASSUME KernelTypeOK, KernelOrder, Reannounced, NEW types, ReadOld(types),
           UNCHANGED <<sock, announced>>
    PROVE  /\ KernelOrder' /\ Reannounced'
           /\ Head(fromKernel) \in Message /\ Head(fromKernel).type \in types
           /\ \A r, inc : Stands(r, inc) => Stands(r, inc)' \/ Head(fromKernel) = Removal(r)
           /\ \A r, inc : /\ Head(fromKernel).type = "SRC_DESC"
                          /\ Head(fromKernel).srcref = r /\ Head(fromKernel).inc = inc
                          => Stands(r, inc)'
           /\ \A r \in announced : Head(fromKernel) = Removal(r)
                                     => Member(Announcement(r), fromKernel')
           /\ \A m : Member(m, fromKernel) => m = Head(fromKernel) \/ Member(m, fromKernel')
  <1>1. /\ fromKernel \in Seq(Message) /\ fromKernel # <<>> /\ fromKernel' = Tail(fromKernel)
        /\ Head(fromKernel) \in Message /\ Head(fromKernel).type \in types
    BY ReadOldType DEF ReadOld, KernelTypeOK
  <1>2. \A m : Member(m, fromKernel) => m = Head(fromKernel) \/ Member(m, fromKernel')
    BY <1>1, TailMember
  <1>3. /\ KernelOrder'
        /\ \A r, inc : Stands(r, inc) => Stands(r, inc)' \/ Head(fromKernel) = Removal(r)
        /\ \A r, inc : /\ Head(fromKernel).type = "SRC_DESC"
                       /\ Head(fromKernel).srcref = r /\ Head(fromKernel).inc = inc
                       => Stands(r, inc)'
    BY <1>1, ReadKeepsOrder
  <1>4. /\ Reannounced'
        /\ \A r \in announced : Head(fromKernel) = Removal(r) => Member(Announcement(r), fromKernel')
    BY <1>1, ReadKeepsReannounced
  <1> QED  BY <1>1, <1>2, <1>3, <1>4

\* What is to be shown depends on the rows and on what is wanted.
LEMMA SameLines ==
    ASSUME rows17' = rows17
    PROVE  /\ \A r : Wanted17(r, wants)' <=> Wanted17(r, wants')
           /\ \A r : LineOf(r, wants)' = LineOf(r, wants')
           /\ \A k : LastOn(k, wants)' <=> LastOn(k, wants')
  BY DEF Wanted17, LineOf, LastOn, Shown17, NoRow

LEMMA OldOthersKeep ==
    ASSUME OldLsockTypeOK, OldInv, NEW types, ReadOld(types),
           UNCHANGED <<sock, announced>>,
           \A m : Member(m, toKernel) => Member(m, toKernel'),
           NEW r \in Ref, r \notin missed, rows17'[r] = rows17[r],
           ~(Head(fromKernel).type \in {"SRC_ADDED", "SRC_REMOVED", "SRC_DESC"}
               /\ Head(fromKernel).srcref = r)
    PROVE  RowStands17(r)' /\ RowIsFollowed(r)'
  <1>1. /\ KernelTypeOK /\ KernelOrder /\ Reannounced
        /\ RowStands17(r) /\ RowIsFollowed(r)
    BY DEF OldLsockTypeOK, OldInv, ReadOld
  <1>2. Head(fromKernel) # Removal(r)
    BY RemovalFields
  <1>3. RowStands17(r)'
    <2>1. \A inc : Stands(r, inc) => Stands(r, inc)'
      BY <1>1, <1>2, ReadOldKeeps
    <2> QED  BY <1>1, <2>1 DEF RowStands17, NoRow
  <1>4. RowIsFollowed(r)'
    <2>1. \A m : Member(m, fromKernel) => m = Head(fromKernel) \/ Member(m, fromKernel')
      BY <1>1, ReadOldKeeps
    <2>2. RemovalUnderway(r) => RemovalUnderway(r)'
      BY <1>2, <2>1, UnderwayMember
    <2>3. Underway(r) => Underway(r)'
      BY <2>1, UnderwayMember
    <2> QED  BY <1>1, <2>2, <2>3 DEF RowIsFollowed, NoRow
  <1> QED  BY <1>3, <1>4

\* Behind a message, the rows that it did not change are not printed anew.
LEMMA OldOthersShow ==
    ASSUME OldInv, lsock17 = "loop", lsock17' # "loop", UNCHANGED <<wants, screen17>>,
           NEW r \in Ref, rows17'[r] = rows17[r], modded \subseteq modded'
    PROVE  RowIsPrinted(r)' /\ ScrolledBy(r)'
  <1>1. ScrolledBy(r)
    BY DEF OldInv
  <1>2. ScrolledBy(r)'
    BY <1>1 DEF ScrolledBy, Wanted17, NoRow
  <1> QED  BY <1>2 DEF RowIsPrinted

\* A request that does not reach the kernel is remembered.
LEMMA OldWrite ==
    ASSUME KernelTypeOK, NEW r \in Ref, refreshSrc(r)
    PROVE  /\ \A m : Member(m, toKernel) => Member(m, toKernel')
           /\ missed \subseteq missed'
           /\ r \notin missed' => Member(GetDesc(r), toKernel')
  <1>1. CASE r \in Lossy /\ missed' = missed \cup {r} /\ UNCHANGED toKernel
    BY <1>1
  <1>2. CASE toKernel' = Append(toKernel, [type |-> "GET_SRC_DESC", srcref |-> r]) /\ UNCHANGED missed
    <2>1. GetDesc(r) \in Request /\ toKernel' = Append(toKernel, GetDesc(r))
      BY <1>2, Requests DEF GetDesc
    <2> QED  BY <1>2, <2>1, AppendMember DEF KernelTypeOK
  <1> QED  BY <1>1, <1>2 DEF refreshSrc

LEMMA OldReadKeeps ==
    ASSUME OldLsockTypeOK, OldInv, SourceAdded \/ SourceRemoved \/ SourceDescribed \/ OtherMessage
    PROVE  OldInv'
  <1> DEFINE q == Head(fromKernel).srcref
             Kept17(r) == /\ r \notin missed' => RowStands17(r)' /\ RowIsFollowed(r)'
                          /\ RowIsPrinted(r)' /\ ScrolledBy(r)'
  <1>0. /\ KernelTypeOK /\ rows17 \in [Ref -> Row17]
        /\ KernelOrder /\ Reannounced /\ LiveCounted
        /\ \A r \in Ref : r \notin missed => RowStands17(r)
    BY DEF OldLsockTypeOK, OldInv
  <1>1. /\ UNCHANGED <<sock, announced, wants, screen17>> /\ lsock17 = "loop"
        /\ lsock17' \in {"tail", "crashed"} /\ LiveCounted'
    BY <1>0 DEF SourceAdded, SourceRemoved, SourceDescribed, OtherMessage, LiveCounted, ReadOld
  <1>a. LinesAreRows'
    BY <1>1 DEF LinesAreRows
  <1>b. NoLines'
    BY <1>1 DEF OldInv, NoLines, SourceAdded, SourceRemoved, SourceDescribed, OtherMessage, Dashed
  <1>2. PICK types : ReadOld(types)
    BY DEF SourceAdded, SourceRemoved, SourceDescribed, OtherMessage
  <1>3. KernelOrder' /\ Reannounced'
    BY <1>0, <1>1, <1>2, ReadOldKeeps
  <1>4. CASE SourceAdded
    <2>1. /\ ReadOld({"SRC_ADDED"}) /\ refreshSrc(q) /\ modded' = modded \cup {q}
          /\ rows17' = rows17
      BY <1>4 DEF SourceAdded
    <2>2. q \in Ref /\ Head(fromKernel).type = "SRC_ADDED"
      BY <1>0, <2>1, ReadOldType, MessageFields
    <2>3. /\ \A m : Member(m, toKernel) => Member(m, toKernel')
          /\ missed \subseteq missed'
          /\ q \notin missed' => Member(GetDesc(q), toKernel')
      BY <1>0, <2>1, <2>2, OldWrite
    <2>4. \A r \in Ref : r # q => Kept17(r)
      BY <1>1, <2>1, <2>2, <2>3, OldOthersKeep, OldOthersShow
    <2>5. \A r : r = q /\ r \notin missed' => RowStands17(r)'
      <3>1. \A r, inc : Stands(r, inc) => Stands(r, inc)'
        BY <1>0, <1>1, <2>1, <2>2, ReadOldKeeps, RemovalFields
      <3> QED  BY <1>0, <2>1, <2>2, <2>3, <3>1 DEF RowStands17, NoRow
    <2>6. \A r : r = q /\ r \notin missed' => RowIsFollowed(r)'
      BY <2>3, UnderwayMember DEF RowIsFollowed
    <2>7. \A r : r = q => RowIsPrinted(r)' /\ ScrolledBy(r)'
      BY <1>1, <2>1 DEF RowIsPrinted, ScrolledBy
    <2> HIDE DEF q
    <2> QED  BY <1>1, <1>3, <1>a, <1>b, <2>4, <2>5, <2>6, <2>7 DEF OldInv
  <1>5. CASE SourceRemoved
    <2>1. ReadOld({"SRC_REMOVED"}) /\ UNCHANGED <<toKernel, missed>>
      BY <1>5 DEF SourceRemoved
    <2>2. q \in Ref /\ Head(fromKernel).type = "SRC_REMOVED" /\ Head(fromKernel) = Removal(q)
      <3>1. Head(fromKernel) \in Message /\ Head(fromKernel).type = "SRC_REMOVED"
        BY <1>0, <2>1, ReadOldType
      <3>2. Head(fromKernel) = Removal(q)
        BY <3>1 DEF Message, Removal
      <3> QED  BY <3>1, <3>2, MessageFields
    <2>3. CASE lsock17' = "crashed"
      <3>1. rows17' = rows17 /\ rows17[q] = NoRow
        BY <1>5, <2>3 DEF SourceRemoved
      <3>2. ASSUME NEW r \in Ref, r \notin missed PROVE RowStands17(r)'
        <4>1. CASE r = q
          BY <3>1, <4>1 DEF RowStands17, NoRow
        <4>2. CASE r # q
          <5>1. \A inc : Stands(r, inc) => Stands(r, inc)'
            BY <1>0, <1>1, <2>1, <4>2, ReadOldKeeps, RemovalFields
          <5> QED  BY <1>0, <3>1, <3>2, <5>1 DEF RowStands17, NoRow
        <4> QED  BY <4>1, <4>2
      <3> QED  BY <1>1, <1>3, <1>a, <1>b, <2>1, <2>3, <3>2 DEF OldInv
    <2>4. CASE lsock17' # "crashed"
      <3>1. rows17' = [rows17 EXCEPT ![q] = NoRow] /\ modded' = modded \cup {q}
        BY <1>5, <2>4 DEF SourceRemoved
      <3>2. \A r \in Ref : r # q => rows17'[r] = rows17[r]
        BY <1>0, <2>2, <3>1
      <3>3. \A r \in Ref : r # q => Kept17(r)
        BY <1>1, <2>1, <2>2, <3>1, <3>2, OldOthersKeep, OldOthersShow
      <3>4. rows17'[q] = NoRow
        BY <1>0, <2>2, <3>1
      <3>5. \A r : r = q => RowStands17(r)' /\ RowIsPrinted(r)' /\ ScrolledBy(r)'
        BY <1>1, <3>4 DEF RowStands17, RowIsPrinted, ScrolledBy, Wanted17, NoRow
      \* Who has the reference now is announced behind the removal.
      <3>6. \A r : r = q => RowIsFollowed(r)'
        <4>1. q \in announced => Member(Announcement(q), fromKernel')
          BY <1>0, <1>1, <2>1, <2>2, ReadOldKeeps
        <4>2. Announcement(q).type = "SRC_ADDED" /\ Announcement(q).srcref = q
          BY DEF Announcement
        <4>3. \A r : r = q /\ r \in announced => Underway(r)'
          BY <4>1, <4>2, UnderwayMember
        <4> QED  BY <1>1, <4>3 DEF RowIsFollowed
      <3> HIDE DEF q
      <3> QED  BY <1>1, <1>3, <1>a, <1>b, <3>3, <3>5, <3>6 DEF OldInv
    <2> QED  BY <2>3, <2>4
  <1>6. CASE SourceDescribed
    <2> DEFINE m == Head(fromKernel)
    <2>1. /\ ReadOld({"SRC_DESC"})
          /\ modded' = modded \cup {q}
          /\ IF m.state = "CLOSED" THEN refreshSrc(q) ELSE UNCHANGED <<toKernel, missed>>
      BY <1>6 DEF SourceDescribed
    <2>0. PICK width \in Widths17[q] : rows17' = [rows17 EXCEPT ![q] = RowOf(m, width)]
      BY <1>6 DEF SourceDescribed
    <2>2. q \in Ref /\ m \in Message /\ m.type = "SRC_DESC"
      BY <1>0, <2>1, ReadOldType, MessageFields
    <2>3. /\ \A req : Member(req, toKernel) => Member(req, toKernel')
          /\ missed \subseteq missed'
          /\ m.state = "CLOSED" /\ q \notin missed' => Member(GetDesc(q), toKernel')
      BY <1>0, <2>1, <2>2, OldWrite
    <2>4. \A r \in Ref : r # q => rows17'[r] = rows17[r]
      BY <1>0, <2>0, <2>2
    <2>5. \A r \in Ref : r # q => Kept17(r)
      BY <1>1, <2>1, <2>2, <2>3, <2>4, OldOthersKeep, OldOthersShow
    <2>6. rows17'[q].inc = m.inc /\ rows17'[q].state = m.state
      BY <1>0, <2>0, <2>2 DEF RowOf
    <2>7. \A r, inc : r = q /\ inc = m.inc => Stands(r, inc)'
      BY <1>0, <1>1, <2>1, <2>2, ReadOldKeeps
    <2>8. \A r : r = q => RowStands17(r)'
      BY <2>6, <2>7 DEF RowStands17, NoRow
    <2>9. \A r : r = q /\ r \notin missed' => RowIsFollowed(r)'
      <3> SUFFICES ASSUME NEW r, r = q, r \notin missed', r \in announced',
                          rows17'[r] = NoRow \/ rows17'[r].state = "CLOSED"
                   PROVE  Underway(r)' \/ RemovalUnderway(r)'
        BY DEF RowIsFollowed, NoRow
      <3>1. CASE m.state = "CLOSED"
        BY <2>3, <3>1, UnderwayMember
      <3>2. CASE m.state # "CLOSED"
        <4>1. m.inc = 0
          BY <2>6, <3>2 DEF NoRow
        <4>2. sock'[r].live /\ r \in Ref
          BY <1>3, <2>2 DEF KernelOrder, LiveAnnounced
        <4>3. sock'[r].inc # 0
          BY <1>1, <4>2 DEF LiveCounted
        <4>4. RemovalBehind(r, 0)'
          BY <2>7, <4>1, <4>3 DEF Stands, Current
        <4> QED  BY <4>4, UnderwayMember
      <3> QED  BY <3>1, <3>2
    <2>10. \A r : r = q => RowIsPrinted(r)' /\ ScrolledBy(r)'
      BY <1>1, <2>1 DEF RowIsPrinted, ScrolledBy
    <2> HIDE DEF q, m
    <2> QED  BY <1>1, <1>3, <1>a, <1>b, <2>5, <2>8, <2>9, <2>10 DEF OldInv
  <1>7. CASE OtherMessage
    <2>1. /\ ReadOld({"SUCCESS", "ERROR", "SRC_COUNTS"})
          /\ UNCHANGED <<toKernel, rows17, modded, missed>>
      BY <1>7 DEF OtherMessage
    <2>2. Head(fromKernel).type \in {"SUCCESS", "ERROR", "SRC_COUNTS"}
      BY <1>0, <2>1, ReadOldType
    <2>3. \A r \in Ref : Kept17(r)
      BY <1>1, <2>1, <2>2, OldOthersKeep, OldOthersShow
    <2> QED  BY <1>1, <1>3, <1>a, <1>b, <2>3 DEF OldInv
  <1> QED  BY <1>4, <1>5, <1>6, <1>7

\* A message is lost: only of the reference that it names is there something missed.
LEMMA OldLostKeeps ==
    ASSUME OldLsockTypeOK, OldInv, MessageLost PROVE OldInv'
  <1>1. /\ ReadOld({"SRC_ADDED", "SRC_REMOVED", "SRC_DESC"}) /\ lsock17 = "loop"
        /\ missed' = missed \cup {Head(fromKernel).srcref}
        /\ UNCHANGED <<sock, announced, toKernel, rows17, modded, screen17, lines17, wants, lsock17>>
    BY DEF MessageLost, ReadOld
  <1>2. KernelOrder' /\ Reannounced' /\ LiveCounted'
    BY <1>1, ReadOldKeeps DEF OldLsockTypeOK, OldInv, LiveCounted
  <1>3. \A r \in Ref : r \notin missed' => RowStands17(r)' /\ RowIsFollowed(r)'
    BY <1>1, OldOthersKeep
  <1>4. ASSUME NEW r \in Ref PROVE RowIsPrinted(r)' /\ ScrolledBy(r)'
    <2>1. RowIsPrinted(r) /\ ScrolledBy(r)
      BY <1>1 DEF OldInv
    <2> QED  BY <1>1, <2>1, SameLines DEF RowIsPrinted, ScrolledBy
  <1>5. LinesAreRows' /\ NoLines'
    BY <1>1, SameLines DEF OldInv, LinesAreRows, NoLines
  <1> QED  BY <1>1, <1>2, <1>3, <1>4, <1>5 DEF OldInv

\* Steps that read nothing leave what is under way alone.
LEMMA OldQuiet ==
    ASSUME OldInv, UNCHANGED <<sock, announced, fromKernel, rows17>>,
           \A m : Member(m, toKernel) => Member(m, toKernel')
    PROVE  /\ KernelOrder' /\ Reannounced' /\ LiveCounted'
           /\ \A r \in Ref : r \notin missed => RowStands17(r)'
           /\ \A r \in Ref : RowIsFollowed(r) => RowIsFollowed(r)'
  <1>1. \A r, i : RemovalBehind(r, i)' <=> RemovalBehind(r, i)
    BY DEF RemovalBehind, Removal
  <1>2. \A r, inc : Current(r, inc)' <=> Current(r, inc)
    BY DEF Current
  <1>3. KernelOrder'
    BY <1>1, <1>2 DEF OldInv, KernelOrder, LiveAnnounced, StandsAt
  <1>4. Reannounced' /\ LiveCounted'
    BY DEF OldInv, Reannounced, AnnouncedBehind, Announcement, Removal, LiveCounted
  <1>5. \A r \in Ref : r \notin missed => RowStands17(r)'
    BY <1>1, <1>2 DEF OldInv, RowStands17, Stands, NoRow
  <1>6. \A r : (Underway(r) => Underway(r)') /\ (RemovalUnderway(r) => RemovalUnderway(r)')
    BY UnderwayMember
  <1>7. \A r \in Ref : RowIsFollowed(r) => RowIsFollowed(r)'
    BY <1>6 DEF RowIsFollowed, NoRow
  <1> QED  BY <1>3, <1>4, <1>5, <1>7

LEMMA OldOthers ==
    ASSUME OldLsockTypeOK, OldInv, SetupSocketFails \/ SetupSocket \/ NoMessage \/ LoopTail
    PROVE  OldInv'
  <1>1. CASE SetupSocketFails \/ NoMessage
    <2>1. /\ UNCHANGED <<sock, announced, fromKernel, toKernel, rows17, modded, screen17, lines17, missed, wants>>
          /\ lsock17' \in {"failed", "tail"} /\ lsock17 # "crashed"
      BY <1>1 DEF SetupSocketFails, NoMessage, kernelVars
    <2>2. ASSUME NEW r \in Ref PROVE RowIsPrinted(r)' /\ ScrolledBy(r)'
      <3>1. ScrolledBy(r)
        BY <2>1 DEF OldInv
      <3> QED  BY <2>1, <3>1 DEF RowIsPrinted, ScrolledBy, Wanted17, NoRow
    <2>3. \A r \in Ref : r \notin missed => RowIsFollowed(r)
      BY <2>1 DEF OldInv
    <2>4. LinesAreRows' /\ NoLines'
      BY <2>1 DEF OldInv, LinesAreRows, NoLines
    <2> QED  BY <2>1, <2>2, <2>3, <2>4, OldQuiet DEF OldInv
  <1>2. CASE SetupSocket
    <2>1. /\ UNCHANGED <<sock, announced, fromKernel, rows17, modded, screen17, lines17, missed, wants>>
          /\ lsock17 = "setup" /\ lsock17' = "loop"
      BY <1>2 DEF SetupSocket
    <2>2. \A r \in Ref : rows17[r] = NoRow /\ (r \notin missed => RowIsFollowed(r))
      BY <2>1 DEF OldInv
    <2>5. LinesAreRows' /\ NoLines'
      BY <2>1 DEF OldInv, LinesAreRows, NoLines
    <2>3. \A r \in Ref : RowIsPrinted(r)' /\ ScrolledBy(r)'
      BY <2>1, <2>2 DEF RowIsPrinted, ScrolledBy, Wanted17, NoRow
    <2>4. \A m : Member(m, toKernel) => Member(m, toKernel')
      BY <2>1, EmptySeq DEF OldInv, Member
    <2> QED  BY <2>1, <2>2, <2>3, <2>4, <2>5, OldQuiet DEF OldInv
  <1>3. CASE LoopTail
    <2>1. PICK key \in {"ERR"} \cup (IF wants.curses THEN Keys17 ELSE {}) :
            wants' = Key(key, wants) /\ print_descriptors(wants', key # "ERR")
      BY <1>3 DEF LoopTail
    <2>2. /\ UNCHANGED <<sock, announced, fromKernel, toKernel, rows17, missed>>
          /\ lsock17 = "tail" /\ lsock17' = "loop"
      BY <1>3 DEF LoopTail, kernelVars
    <2>3. wants \in Wants
      BY DEF OldLsockTypeOK
    <2>4. wants'.curses = wants.curses /\ (~wants'.curses => wants' = wants)
      BY <2>1, <2>3 DEF Key, Wants
    <2>5. \A r \in Ref : ScrolledBy(r) /\ (r \notin missed => RowIsFollowed(r))
      BY <2>2 DEF OldInv
    <2>6. CASE wants'.curses
      <3>1. PICK erased \in BOOLEAN : DrawLines(wants', erased)
        BY <2>1, <2>6 DEF print_descriptors
      <3>2. ASSUME NEW r \in Ref PROVE RowIsPrinted(r)' /\ ScrolledBy(r)'
        <4> SUFFICES ASSUME Wanted17(r, wants')
                     PROVE  RowIsPrinted(r)'
          BY <2>2, <2>6, SameLines DEF RowIsPrinted, ScrolledBy
        <4>1. r \in Shown17(wants')
          BY DEF Shown17
        <4>2. LineOf(r, wants') \in Nat \ {0} /\ Height \in Nat
          BY <4>1, LinesDiffer, OldLsockAssumption DEF OldLsockAssumption
        <4>3. ASSUME NEW k, k = LineOf(r, wants'), k <= Height
              PROVE  /\ lines17'[k].ref = r /\ lines17'[k].row = rows17[r]
                     /\ lines17'[k].extent >= rows17[r].width
          <5>1. k \in 1 .. Height
            BY <4>2, <4>3
          <5>2. lines17'[k] = Drawn(r, k, wants', erased)
            BY <3>1, <4>1, <4>3, <5>1, DrawnLines
          <5> QED  BY <5>1, <5>2, DrawnType
        <4> QED  BY <2>2, <2>6, <4>3, SameLines DEF RowIsPrinted
      <3>3. LinesAreRows'
        <4> SUFFICES ASSUME NEW k \in 1 .. Height, lines17'[k] # EmptyLine
                     PROVE  /\ Wanted17(lines17'[k].ref, wants')
                            /\ LineOf(lines17'[k].ref, wants') = k
                            /\ LastOn(k, wants') => lines17'[k].extent = rows17[lines17'[k].ref].width
          BY <2>2, SameLines DEF LinesAreRows
        <4>1. PICK r \in Shown17(wants') : LineOf(r, wants') = k
          BY <3>1, DrawnLines
        <4>2. lines17'[k] = Drawn(r, k, wants', erased) /\ r \in Ref /\ Wanted17(r, wants')
          BY <3>1, <4>1, DrawnLines DEF Shown17
        <4> QED  BY <4>1, <4>2, DrawnType
      <3>4. NoLines'
        BY <2>2, <2>6 DEF NoLines
      <3> QED  BY <2>2, <2>5, <3>2, <3>3, <3>4, OldQuiet DEF OldInv
    <2>7. CASE ~wants'.curses
      <3>1. /\ screen17' = [r \in Ref |->
                              IF Wanted17(r, wants') /\ r \in modded THEN rows17[r] ELSE screen17[r]]
            /\ lines17' = lines17
        BY <2>1, <2>7 DEF print_descriptors
      <3>2. ASSUME NEW r \in Ref, Wanted17(r, wants') PROVE screen17'[r] = rows17'[r]
        <4>1. CASE r \in modded
          BY <2>2, <3>1, <3>2, <4>1
        <4>2. CASE r \notin modded
          <5>1. screen17'[r] = screen17[r]
            BY <3>1, <4>2
          <5> QED  BY <2>2, <2>4, <2>5, <2>7, <3>2, <4>2, <5>1 DEF ScrolledBy
        <4> QED  BY <4>1, <4>2
      <3>3. \A r \in Ref : RowIsPrinted(r)' /\ ScrolledBy(r)'
        BY <2>2, <2>7, <3>2, SameLines DEF RowIsPrinted, ScrolledBy
      <3>4. LinesAreRows' /\ NoLines'
        BY <2>2, <2>4, <2>7, <3>1 DEF OldInv, LinesAreRows, NoLines
      <3> QED  BY <2>2, <2>5, <3>3, <3>4, OldQuiet DEF OldInv
    <2> QED  BY <2>6, <2>7
  <1> QED  BY <1>1, <1>2, <1>3

-----------------------------------------------------------------------------
(* The theorem                                                             *)

LEMMA OldInvHolds == OldLsockSpec => [](OldLsockTypeOK /\ OldInv)
  <1>1. OldInit => OldLsockTypeOK /\ OldInv
    <2> SUFFICES ASSUME OldInit PROVE OldLsockTypeOK /\ OldInv
      OBVIOUS
    <2>1. OldLsockTypeOK
      BY EmptyTypes, KernelInitType, OldLsockAssumption
         DEF OldInit, OldLsockInit, OldLsockTypeOK, OldLsockAssumption
    <2>2. KernelOrder
      BY OrderInit DEF OldInit
    <2>3. announced = {} /\ LiveCounted
      <3>1. PICK live \in SUBSET Ref, st \in [Ref -> SockState] :
              sock = [r \in Ref |-> [live |-> r \in live,
                                      inc |-> IF r \in live THEN 1 ELSE 0, state |-> st[r]]]
        BY Zenon DEF OldInit, KernelInit
      <3>2. \A r \in Ref : sock[r].live => sock[r].inc = 1
        BY <3>1
      <3> QED  BY <3>2 DEF OldInit, KernelInit, LiveCounted
    <2>4. toKernel = <<>> /\ \A r \in Ref : rows17[r] = NoRow
      BY DEF OldInit, KernelInit, OldLsockInit
    <2> QED  BY <2>1, <2>2, <2>3, <2>4
             DEF OldInv, Reannounced, RowStands17, RowIsFollowed, RowIsPrinted, ScrolledBy, Wanted17,
                 NoLines, LinesAreRows, OldInit, OldLsockInit
  <1>2. OldLsockTypeOK /\ OldInv /\ [OldLsockNext]_oldVars17 => OldLsockTypeOK' /\ OldInv'
    <2> SUFFICES ASSUME OldLsockTypeOK, OldInv, [OldLsockNext]_oldVars17
                 PROVE  OldLsockTypeOK' /\ OldInv'
      OBVIOUS
    <2>1. CASE OldLsockStep
      BY <2>1, OldStepType, OldReadKeeps, OldOthers DEF OldLsockStep
    <2>4. CASE MessageLost
      BY <2>4, OldStepType, OldLostKeeps
    <2>2. CASE (Environment \/ Kernel) /\ UNCHANGED oldVars
      <3>1. OldLsockTypeOK'
        BY <2>2, EnvironmentType, KernelType DEF OldLsockTypeOK, oldVars
      <3>2. KernelTypeOK /\ KernelOrder /\ Reannounced /\ LiveCounted
        BY DEF OldLsockTypeOK, OldInv
      <3>3. /\ KernelOrder' /\ Reannounced' /\ LiveCounted'
            /\ \A r, inc : Stands(r, inc) => Stands(r, inc)'
        BY <2>2, <3>2, KernelKeepsOrder, KernelReannounces, KernelCounts DEF KernelOrder
      <3>4. \A r \in Ref : RowIsFollowed(r) => RowIsFollowed(r)'
        BY <2>2, <3>2, KernelFollows
      <3>8. UNCHANGED <<rows17, modded, screen17, lines17, missed, wants, lsock17>>
        BY <2>2 DEF oldVars
      <3>5. ASSUME NEW r \in Ref
            PROVE  /\ RowStands17(r) => RowStands17(r)'
                   /\ RowIsPrinted(r) => RowIsPrinted(r)'
                   /\ ScrolledBy(r) => ScrolledBy(r)'
        BY <2>2, <3>3, <3>8, SameLines DEF oldVars, RowStands17, RowIsPrinted, ScrolledBy, NoRow
      <3>9. (LinesAreRows => LinesAreRows') /\ (NoLines => NoLines')
        BY <3>8, SameLines DEF LinesAreRows, NoLines
      <3>7. toKernel = <<>> => toKernel' = <<>>
        BY <2>2 DEF Environment, Open, Close, Change, Kernel, AnnounceSource, CountSource,
                    AnswerAddAll, RefuseAddAll, AnswerGetDesc, AnswerQuery, AnswerNone, Handling
      <3> QED  BY <3>1, <3>3, <3>4, <3>5, <3>7, <3>8, <3>9 DEF OldInv, NoRow
    <2>3. CASE UNCHANGED oldVars17
      <3>1. UNCHANGED <<sock, announced, watched, changes, toKernel, fromKernel>> /\ UNCHANGED oldVars
        BY <2>3 DEF oldVars17, kernelVars
      <3>2. OldLsockTypeOK'
        BY <3>1 DEF oldVars, OldLsockTypeOK, KernelTypeOK
      <3>3. UNCHANGED <<rows17, modded, screen17, lines17, missed, wants, lsock17>>
        BY <3>1 DEF oldVars
      <3>4. ASSUME NEW r \in Ref
            PROVE  (RowIsPrinted(r) => RowIsPrinted(r)') /\ (ScrolledBy(r) => ScrolledBy(r)')
        BY <3>3, SameLines DEF RowIsPrinted, ScrolledBy
      <3>5. (LinesAreRows => LinesAreRows') /\ (NoLines => NoLines')
        BY <3>3, SameLines DEF LinesAreRows, NoLines
      <3> QED  BY <3>1, <3>2, <3>3, <3>4, <3>5, OldQuiet DEF OldInv, NoRow
    <2> QED  BY <2>1, <2>2, <2>3, <2>4 DEF OldLsockNext
  <1> QED  BY <1>1, <1>2, PTL DEF OldLsockSpec

\* Whatever messages and requests get lost of other references, a row is that of
\* the socket which has its reference and is described again while it is not final;
\* and of all references what is wanted stands where its line is to be, in curses
\* mode over what was there, and nothing else begins a line.
THEOREM OldRowsStayTrue == OldLsockSpec => []OldRowsAreTrue
  <1>1. OldLsockTypeOK /\ OldInv => OldRowsAreTrue
    <2> SUFFICES ASSUME OldInv, lsock17 # "crashed", NEW r \in Ref
                 PROVE  /\ r \notin missed => RowIsCurrent(r) /\ RowIsFollowed(r)
                        /\ RowIsPrinted(r)
      BY DEF OldRowsAreTrue, OldInv
    <2>1. r \notin missed => RowIsCurrent(r)
      BY UnderwayMember DEF OldInv, RowStands17, Stands, Current, RowIsCurrent
    <2> QED  BY <2>1 DEF OldInv
  <1> QED  BY <1>1, OldInvHolds, PTL
=============================================================================
