------------------------------ MODULE OtaProofs -------------------------------
(***************************************************************************)
(* Proofs about ota, for archives of every size and content.  The walk:    *)
(* its types, that no entry is listed twice, out of order or overlapping   *)
(* another, and that it implements OtaListing.  doPBZX: what its buffer    *)
(* guarantees for every size of the first buffer and every largest int.    *)
(* extractFile: what it leaves in the file system.  doDiff: what it        *)
(* reports of every two archives.                                          *)
(***************************************************************************)
EXTENDS OtaArchive, OtaFiles, InductionLemmas, SequenceTheorems, TLAPS

-----------------------------------------------------------------------------
(* The walk                                                                *)

LEMMA LenEmpty == Len(<<>>) = 0
  OBVIOUS

\* Appending keeps what a sequence holds, and adds one element.
LEMMA Appended ==
    ASSUME NEW S, NEW s \in Seq(S), NEW e \in S
    PROVE  /\ Append(s, e) \in Seq(S)
           /\ DOMAIN Append(s, e) = 1 .. Len(s) + 1
           /\ DOMAIN s = 1 .. Len(s)
           /\ Len(s) \in Nat
           /\ \A i \in 1 .. Len(s) : Append(s, e)[i] = s[i]
           /\ Append(s, e)[Len(s) + 1] = e
  BY AppendProperties, LenProperties

\* What an archive holds at an offset of it.
LEMMA FileFacts ==
    ASSUME args \in Seq(Archive), args # <<>>, file.kind # "ecc"
    PROVE  /\ file \in Archive
           /\ file.kind \in {"legacy", "yaa"}
           /\ fileSize \in Nat
           /\ \A p \in Offset : At(p) \in View
  <1>1. file \in Archive
    BY HeadTailProperties DEF file
  <1>2. file.kind \in {"legacy", "yaa"} /\ file.at \in Seq(View)
    BY <1>1 DEF Archive
  <1>3. fileSize \in Nat /\ \A p \in Offset : p + 1 \in 1 .. fileSize
    BY <1>2, LenProperties DEF fileSize, Offset
  <1> QED  BY <1>1, <1>2, <1>3, ElementOfSeq DEF At, fileSize

\* While an archive is walked, its views are those of headers.
LEMMA WalkFacts ==
    ASSUME TypeOK, Walking
    PROVE  /\ args # <<>> /\ file.kind # "ecc"
           /\ fileSize \in Nat
           /\ \A p \in Offset : /\ At(p) \in View /\ At(p).rc \in Int
                                /\ EntryEnd(p) \in Nat /\ EntryEnd(p) > p
  <1>1. args # <<>> /\ file.kind # "ecc" /\ args \in Seq(Archive)
    BY DEF TypeOK
  <1>2. fileSize \in Nat /\ \A p \in Offset : At(p) \in View
    BY <1>1, FileFacts
  <1>3. ASSUME NEW p \in Offset
        PROVE  At(p).rc \in Int /\ EntryEnd(p) \in Nat /\ EntryEnd(p) > p
    <2>1. At(p).nameLen \in Nat /\ At(p).fileSize \in Nat /\ At(p).rc \in Int
      BY <1>2, <1>3 DEF View
    <2>2. p \in Nat /\ Header \in Nat \ {0}
      BY <1>2, <1>3, OtaAssumption DEF Offset, OtaAssumption
    <2> QED  BY <2>1, <2>2 DEF EntryEnd
  <1> QED  BY <1>1, <1>2, <1>3

LEMMA LegacyFacts ==
    ASSUME TypeOK, pc \in {"legacy", "resync"}
    PROVE  /\ args # <<>> /\ file.kind # "ecc" /\ ~Marked(file)
           /\ fileSize \in Nat
           /\ \A p \in Offset : At(p) \in View /\ EntryEnd(p) \in Nat
                                /\ EntryEnd(p) > p
  <1>1. Walking
    BY DEF Walking
  <1>2. (pc = "yaa") = Marked(file)
    BY <1>1 DEF TypeOK
  <1> QED  BY <1>1, <1>2, WalkFacts

LEMMA YaaFacts ==
    ASSUME TypeOK, pc = "yaa"
    PROVE  /\ args # <<>> /\ file.kind # "ecc" /\ Marked(file)
           /\ fileSize \in Nat
           /\ \A p \in Offset : At(p) \in View /\ At(p).rc \in Int
  <1>1. Walking
    BY DEF Walking
  <1>2. (pc = "yaa") = Marked(file)
    BY <1>1 DEF TypeOK
  <1> QED  BY <1>1, <1>2, WalkFacts

-----------------------------------------------------------------------------
(* Type correctness                                                        *)

LEMMA InitType == Init => TypeOK
  <1> SUFFICES ASSUME Init PROVE TypeOK
    OBVIOUS
  <1> QED  BY OtaAssumption, EmptySeq DEF OtaAssumption, Init, TypeOK, PC, Walking

\* An early or a regular return leaves the rest of the command line.
LEMMA ReturnType ==
    ASSUME TypeOK, Return, args # <<>>, pos' \in Nat, yaaPos' \in Nat,
           listed' \in Seq(Nat)
    PROVE  TypeOK'
  <1>1. args' \in Seq(Archive)
    BY HeadTailProperties DEF Return, TypeOK
  <1> QED  BY <1>1 DEF Return, TypeOK, Walking, PC

\* The state after an entry has been listed, or the stack was too small.
LEMMA ProcessType ==
    ASSUME TypeOK, pc \in {"legacy", "resync"}, NEW p \in Offset, Process(p)
    PROVE  TypeOK'
  <1>0. /\ args \in Seq(Archive) /\ args # <<>> /\ file.kind # "ecc" /\ ~Marked(file)
        /\ fileSize \in Nat /\ p \in Nat
        /\ At(p).nameLen \in Nat /\ EntryEnd(p) \in Nat
        /\ stack \in Nat /\ StackLimit \in Nat /\ listed \in Seq(Nat)
        /\ \A i \in DOMAIN listed : listed[i] \in Offset
    BY LegacyFacts, OtaAssumption
       DEF TypeOK, Walking, View, Offset, OtaAssumption
  <1> DEFINE used == stack + At(p).nameLen + 1
  <1>1. CASE used <= StackLimit
    <2>1. /\ listed' = Append(listed, p) /\ stack' = used /\ pos' = EntryEnd(p)
          /\ pc' = "legacy" /\ UNCHANGED <<args, yaaPos>>
      BY <1>1 DEF Process
    <2>2. listed' \in Seq(Nat) /\ \A i \in DOMAIN listed' : listed'[i] \in Offset
      <3>1. /\ Append(listed, p) \in Seq(Nat) /\ Len(listed) \in Nat
            /\ DOMAIN Append(listed, p) = 1 .. Len(listed) + 1 /\ DOMAIN listed = 1 .. Len(listed)
            /\ \A i \in 1 .. Len(listed) : Append(listed, p)[i] = listed[i]
            /\ Append(listed, p)[Len(listed) + 1] = p
        BY <1>0, Appended
      <3>2. \A i \in 1 .. Len(listed) + 1 : i \in 1 .. Len(listed) \/ i = Len(listed) + 1
        BY <3>1
      <3> QED  BY <1>0, <2>1, <3>1, <3>2
    <2>3. file' = file /\ fileSize' = fileSize /\ Offset' = Offset /\ Marked(file)' = Marked(file)
      BY <2>1 DEF file, fileSize, Offset, Marked
    <2> QED  BY <1>0, <2>1, <2>2, <2>3 DEF TypeOK, Walking, PC
  <1>2. CASE ~(used <= StackLimit)
    <2>1. pc' = "aborted" /\ UNCHANGED <<args, pos, yaaPos, listed, stack>>
      BY <1>2 DEF Process
    <2> QED  BY <2>1 DEF TypeOK, Walking, PC
  <1> QED  BY <1>1, <1>2

LEMMA NextType == TypeOK /\ [Next]_vars => TypeOK'
  <1> SUFFICES ASSUME TypeOK, [Next]_vars PROVE TypeOK'
    OBVIOUS
  <1>h. Header \in Nat \ {0} /\ StackLimit \in Nat
    BY OtaAssumption DEF OtaAssumption
  <1>0. CASE UNCHANGED vars
    BY <1>0 DEF vars, TypeOK, Walking, file, fileSize, Offset, Marked
  <1>1. CASE Open
    <2>1. args # <<>> /\ file.kind # "ecc" /\ args \in Seq(Archive)
      BY <1>1 DEF Open, TypeOK
    <2>2. Marked(file) \in BOOLEAN
      BY DEF Marked
    <2>3. file' = file /\ Marked(file)' = Marked(file)
      BY <1>1 DEF Open, file, Marked
    <2>4. CASE Marked(file)
      <3>1. /\ pc' = "yaa" /\ pos' = pos /\ args' = args /\ stack' = stack
            /\ yaaPos' = 0 /\ listed' = <<>>
        BY <1>1, <2>4 DEF Open
      <3>2. ((pc = "yaa") = Marked(file))'
        BY <2>2, <2>3, <2>4, <3>1
      <3>3. listed' \in Seq(Nat) /\ \A i \in DOMAIN listed' : FALSE
        BY <3>1, EmptySeq
      <3> QED  BY <2>1, <2>3, <3>1, <3>2, <3>3 DEF TypeOK, Walking, PC
    <2>5. CASE ~Marked(file)
      <3>1. /\ pc' = "legacy" /\ pos' = 0 /\ args' = args /\ stack' = stack
            /\ yaaPos' = 0 /\ listed' = <<>>
        BY <1>1, <2>5 DEF Open
      <3>2. ((pc = "yaa") = Marked(file))'
        BY <2>2, <2>3, <2>5, <3>1
      <3>3. listed' \in Seq(Nat) /\ \A i \in DOMAIN listed' : FALSE
        BY <3>1, EmptySeq
      <3> QED  BY <2>1, <2>3, <3>1, <3>2, <3>3 DEF TypeOK, Walking, PC
    <2> QED  BY <2>4, <2>5
  <1>2. CASE SkipEcc
    <2>1. args' \in Seq(Archive)
      BY <1>2, HeadTailProperties DEF SkipEcc, TypeOK
    <2> QED  BY <1>2, <2>1 DEF SkipEcc, TypeOK, Walking, PC
  <1>3. CASE Exit
    BY <1>3 DEF Exit, TypeOK, Walking, PC
  <1>4. CASE AcceptEntry
    <2>1. pc = "legacy" /\ pos + 3 * Header < fileSize /\ pos \in Nat
      BY <1>4 DEF AcceptEntry, InLoop, TypeOK
    <2>2. pos \in Offset
      BY <2>1, <1>h, LegacyFacts DEF Offset
    <2> QED  BY <1>4, <2>1, <2>2, ProcessType DEF AcceptEntry
  <1>5. CASE CorruptEntry
    <2>1. file' = file /\ fileSize' = fileSize /\ Offset' = Offset /\ Marked(file)' = Marked(file)
      BY <1>5 DEF CorruptEntry, file, fileSize, Offset, Marked
    <2>2. pc = "legacy" /\ pos' \in Nat
      BY <1>5, <1>h DEF CorruptEntry, InLoop, TypeOK
    <2> QED  BY <1>5, <2>1, <2>2 DEF CorruptEntry, TypeOK, Walking, PC
  <1>6. CASE ResyncFalse
    <2>1. PICK p \in Offset : /\ pos' = p + 1
                              /\ IF p + 1 > fileSize THEN Return
                                 ELSE UNCHANGED <<pc, args, stack>>
      BY <1>6 DEF ResyncFalse
    <2>2. /\ pc = "resync" /\ args # <<>> /\ pos' \in Nat
          /\ UNCHANGED <<yaaPos, listed>>
      BY <1>6, <2>1, LegacyFacts DEF ResyncFalse, Offset
    <2>3. CASE p + 1 > fileSize
      BY <2>1, <2>2, <2>3, ReturnType DEF TypeOK
    <2>4. CASE ~(p + 1 > fileSize)
      <3>1. UNCHANGED <<pc, args, stack>>
        BY <2>1, <2>4
      <3>2. file' = file /\ fileSize' = fileSize /\ Offset' = Offset /\ Marked(file)' = Marked(file)
        BY <3>1 DEF file, fileSize, Offset, Marked
      <3> QED  BY <2>2, <3>1, <3>2 DEF TypeOK, Walking
    <2> QED  BY <2>3, <2>4
  <1>7. CASE ResyncFound
    <2>1. PICK p \in Offset : IF p + Header > fileSize
                              THEN /\ pos' = p + Header
                                   /\ Return
                                   /\ UNCHANGED <<yaaPos, listed>>
                              ELSE Process(p)
      BY <1>7 DEF ResyncFound
    <2>2. pc = "resync" /\ args # <<>> /\ p + Header \in Nat
      BY <1>7, <1>h, LegacyFacts DEF ResyncFound, Offset
    <2>3. CASE p + Header > fileSize
      BY <2>1, <2>2, <2>3, ReturnType DEF TypeOK
    <2>4. CASE ~(p + Header > fileSize)
      BY <2>1, <2>2, <2>4, ProcessType
    <2> QED  BY <2>3, <2>4
  <1>8. CASE ResyncOutside
    BY <1>8 DEF ResyncOutside, TypeOK, Walking, PC
  <1>9. CASE LegacyEnd
    BY <1>9, LegacyFacts, ReturnType DEF LegacyEnd, TypeOK
  <1>15. CASE ResyncBehind
    <2>1. /\ args # <<>> /\ fileSize \in Nat /\ Return /\ UNCHANGED <<yaaPos, listed>>
          /\ \E p \in fileSize .. fileSize + Slack - 1 : pos' \in {p + 1, p + Header}
      BY <1>15, LegacyFacts DEF ResyncBehind
    <2>2. pos' \in Nat
      BY <1>h, <2>1, OtaAssumption DEF OtaAssumption
    <2> QED  BY <2>1, <2>2, ReturnType DEF TypeOK
  <1>10. CASE YaaEntry
    <2>1. yaaPos \in Offset /\ yaaPos \in Nat /\ pc = "yaa"
      BY <1>10, YaaFacts DEF YaaEntry, YaaStep, TypeOK, Offset
    <2>2. At(yaaPos).rc \in Nat
      BY <1>10, <2>1, YaaFacts DEF YaaEntry
    <2>3. listed' \in Seq(Nat) /\ \A i \in DOMAIN listed' : listed'[i] \in Offset
      BY <1>10, <2>1, Appended DEF YaaEntry, TypeOK, Walking
    <2>4. file' = file /\ fileSize' = fileSize /\ Offset' = Offset /\ Marked(file)' = Marked(file)
      BY <1>10 DEF YaaEntry, file, fileSize, Offset, Marked
    <2>5. yaaPos' \in Nat
      BY <1>10, <2>1, <2>2 DEF YaaEntry
    <2> QED  BY <1>10, <2>3, <2>4, <2>5 DEF YaaEntry, TypeOK, Walking, PC
  <1>11. CASE YaaExit
    BY <1>11 DEF YaaExit, TypeOK, Walking, PC
  <1>12. CASE YaaCorrupt
    <2>1. yaaPos' \in Nat
      BY <1>12, YaaFacts DEF YaaCorrupt, YaaStep, TypeOK, Offset
    <2>2. file' = file /\ fileSize' = fileSize /\ Offset' = Offset /\ Marked(file)' = Marked(file)
      BY <1>12 DEF YaaCorrupt, file, fileSize, Offset, Marked
    <2> QED  BY <1>12, <2>1, <2>2 DEF YaaCorrupt, YaaStep, TypeOK, Walking, PC
  <1>13. CASE YaaEnd
    BY <1>13, YaaFacts, ReturnType DEF YaaEnd, TypeOK
  <1>14. CASE Terminated
    BY <1>0, <1>14 DEF Terminated
  <1> QED  BY <1>0, <1>1, <1>2, <1>3, <1>4, <1>5, <1>6, <1>7, <1>8, <1>9, <1>10,
              <1>11, <1>12, <1>13, <1>14, <1>15 DEF Next, Step, LegacyNext, YaaNext

\* Every variable of the walk keeps its type, and every listed offset lies in
\* the archive, whatever its bytes are.
THEOREM TypeCorrect == Spec => []TypeOK
  <1> QED  BY InitType, NextType, PTL DEF Spec

-----------------------------------------------------------------------------
(* Order.  With the types, ListedInOrder is inductive: the offset the walk  *)
(* has reached never falls behind the end of what it has listed.            *)

\* The end of a listed entry is a number, whichever walk listed it.
LEMMA EndFacts ==
    ASSUME TypeOK, Walking
    PROVE  /\ Cursor \in Nat
           /\ \A p \in Offset : ListedEnd(p) \in Int
           /\ DOMAIN listed = 1 .. Len(listed) /\ Len(listed) \in Nat
           /\ \A i \in DOMAIN listed : listed[i] \in Nat /\ ListedEnd(listed[i]) \in Int
  <1>1. Cursor \in Nat
    BY DEF Cursor, TypeOK
  <1>2. \A p \in Offset : ListedEnd(p) \in Int /\ p \in Nat
    <2>1. CASE pc = "yaa"
      BY <2>1, YaaFacts DEF ListedEnd, Offset
    <2>2. CASE pc \in {"legacy", "resync"}
      BY <2>2, LegacyFacts DEF ListedEnd, Offset
    <2> QED  BY <2>1, <2>2 DEF Walking
  <1>3. DOMAIN listed = 1 .. Len(listed) /\ Len(listed) \in Nat
    BY LenProperties DEF TypeOK
  <1> QED  BY <1>1, <1>2, <1>3 DEF TypeOK

\* A step that lists nothing and goes no further back keeps the order.
LEMMA OrderKept ==
    ASSUME TypeOK, Walking, ListedInOrder, UNCHANGED <<args, listed>>,
           (pc' = "yaa") = (pc = "yaa"), Cursor' \in Nat, Cursor' >= Cursor
    PROVE  ListedInOrder'
  <1>1. \A p : ListedEnd(p)' = ListedEnd(p)
    BY DEF ListedEnd, EntryEnd, At, file
  <1>2. \A i \in DOMAIN listed : ListedEnd(listed[i]) <= Cursor'
    BY EndFacts DEF ListedInOrder
  <1> QED  BY <1>1, <1>2 DEF ListedInOrder

\* A step that lists the entry at p, not behind the offset reached, and goes
\* on at its end keeps the order.
LEMMA OrderExtended ==
    ASSUME TypeOK, Walking, ListedInOrder, NEW p \in Offset, Cursor <= p,
           UNCHANGED args, listed' = Append(listed, p),
           (pc' = "yaa") = (pc = "yaa"), Cursor' = ListedEnd(p), ListedEnd(p) >= p
    PROVE  ListedInOrder'
  <1>2. p \in Nat /\ listed \in Seq(Nat)
    <2>1. fileSize \in Nat
      BY YaaFacts, LegacyFacts DEF Walking
    <2> QED  BY <2>1 DEF TypeOK, Offset
  <1>3. /\ DOMAIN listed' = 1 .. Len(listed) + 1
        /\ DOMAIN listed = 1 .. Len(listed) /\ Len(listed) \in Nat
        /\ \A i \in 1 .. Len(listed) : listed'[i] = listed[i]
        /\ listed'[Len(listed) + 1] = p
    BY <1>2, Appended
  <1>4. \A i \in DOMAIN listed : ListedEnd(listed[i]) <= p /\ ListedEnd(listed[i]) <= ListedEnd(p)
    BY <1>2, EndFacts DEF ListedInOrder
  <1>5. \A i \in DOMAIN listed' : ListedEnd(listed'[i]) <= Cursor'
    BY <1>2, <1>3, <1>4, EndFacts
  <1>6. ASSUME NEW i \in DOMAIN listed', NEW j \in DOMAIN listed', i < j
        PROVE  ListedEnd(listed'[i]) <= listed'[j]
    <2>1. i \in DOMAIN listed /\ listed'[i] = listed[i]
      BY <1>3, <1>6
    <2>2. CASE j = Len(listed) + 1
      BY <1>3, <1>4, <2>1, <2>2
    <2>3. CASE j \in DOMAIN listed
      BY <1>3, <1>6, <2>1, <2>3 DEF ListedInOrder
    <2> QED  BY <1>3, <2>2, <2>3
  <1>7. file' = file
    BY DEF file
  <1> QED  BY <1>5, <1>6, <1>7 DEF ListedInOrder, ListedEnd, EntryEnd, At

LEMMA ProcessOrder ==
    ASSUME TypeOK, ListedInOrder, pc \in {"legacy", "resync"}, NEW p \in Offset,
           pos <= p, Process(p)
    PROVE  ListedInOrder'
  <1>1. CASE stack + At(p).nameLen + 1 <= StackLimit
    <2>1. /\ listed' = Append(listed, p) /\ pos' = EntryEnd(p)
          /\ pc' = "legacy" /\ UNCHANGED args
      BY <1>1 DEF Process
    <2>2. ListedEnd(p) = EntryEnd(p) /\ Cursor = pos /\ Cursor' = pos'
      BY <2>1 DEF ListedEnd, Cursor
    <2>3. p \in Nat /\ ListedEnd(p) >= p
      BY <2>2, LegacyFacts DEF Offset
    <2>4. Walking /\ (pc' = "yaa") = (pc = "yaa") /\ Cursor <= p /\ Cursor' = ListedEnd(p)
      BY <2>1, <2>2 DEF Walking
    <2> HIDE DEF Process
    <2> QED  BY <2>1, <2>3, <2>4, OrderExtended
  <1>2. CASE ~(stack + At(p).nameLen + 1 <= StackLimit)
    BY <1>2 DEF Process, ListedInOrder, Walking
  <1> QED  BY <1>1, <1>2

LEMMA NextOrder == TypeOK /\ ListedInOrder /\ [Next]_vars => ListedInOrder'
  <1> SUFFICES ASSUME TypeOK, ListedInOrder, [Next]_vars PROVE ListedInOrder'
    OBVIOUS
  <1>h. Header \in Nat \ {0}
    BY OtaAssumption DEF OtaAssumption
  <1>0. CASE UNCHANGED vars
    BY <1>0 DEF vars, ListedInOrder, Walking, ListedEnd, Cursor, EntryEnd, At, file
  <1>1. CASE Open
    BY <1>1 DEF Open, ListedInOrder
  <1>2. CASE SkipEcc \/ Exit
    BY <1>2 DEF SkipEcc, Exit, ListedInOrder, Walking
  <1>3. CASE Return
    BY <1>3 DEF Return, ListedInOrder, Walking
  <1>4. CASE AcceptEntry
    <2>1. /\ pc = "legacy" /\ pos + 3 * Header < fileSize /\ pos \in Nat
          /\ Process(pos)
      BY <1>4 DEF AcceptEntry, InLoop, TypeOK
    <2>2. pos \in Offset
      BY <2>1, <1>h, LegacyFacts DEF Offset
    <2> QED  BY <2>1, <2>2, ProcessOrder
  <1>5. CASE CorruptEntry
    <2>1. /\ pc = "legacy" /\ pc' = "resync" /\ pos' = pos + Header
          /\ UNCHANGED <<args, listed>> /\ pos \in Nat
      BY <1>5 DEF CorruptEntry, InLoop, TypeOK
    <2>2. Walking /\ Cursor = pos /\ Cursor' = pos' /\ (pc' = "yaa") = (pc = "yaa")
      BY <2>1 DEF Walking, Cursor
    <2> QED  BY <1>h, <2>1, <2>2, OrderKept
  <1>6. CASE ResyncFalse /\ ~Return
    <2>1. PICK p \in Offset : p >= pos /\ pos' = p + 1
      BY <1>6 DEF ResyncFalse, FirstKnown
    <2>2. /\ pc = "resync" /\ UNCHANGED <<pc, args, listed>> /\ pos \in Nat
      BY <1>6 DEF ResyncFalse, TypeOK
    <2>3. Walking /\ Cursor = pos /\ Cursor' = pos' /\ (pc' = "yaa") = (pc = "yaa")
      BY <2>2 DEF Walking, Cursor
    <2>4. Cursor' \in Nat /\ Cursor' >= Cursor
      BY <2>1, <2>2, <2>3, LegacyFacts DEF Offset
    <2> QED  BY <2>2, <2>3, <2>4, OrderKept
  <1>7. CASE ResyncFound /\ ~Return
    <2>1. PICK p \in Offset : p >= pos /\ Process(p)
      BY <1>7 DEF ResyncFound, FirstKnown
    <2>2. pc = "resync"
      BY <1>7 DEF ResyncFound
    <2> QED  BY <2>1, <2>2, LegacyFacts, ProcessOrder DEF TypeOK, Offset
  <1>8. CASE ResyncOutside \/ YaaExit
    BY <1>8 DEF ResyncOutside, YaaExit, ListedInOrder, Walking
  <1>9. CASE YaaEntry
    <2>1. /\ pc = "yaa" /\ pc' = "yaa" /\ UNCHANGED args /\ yaaPos \in Nat
          /\ listed' = Append(listed, yaaPos) /\ yaaPos < fileSize
          /\ yaaPos' = yaaPos + At(yaaPos).rc /\ At(yaaPos).rc > 0
      BY <1>9 DEF YaaEntry, YaaStep, TypeOK
    <2>2. yaaPos \in Offset /\ At(yaaPos).rc \in Int
      BY <2>1, YaaFacts DEF Offset
    <2>3. /\ Walking /\ Cursor = yaaPos /\ Cursor' = yaaPos'
          /\ ListedEnd(yaaPos) = yaaPos + At(yaaPos).rc
      BY <2>1 DEF Walking, Cursor, ListedEnd
    <2> QED  BY <2>1, <2>2, <2>3, OrderExtended
  <1>10. CASE YaaCorrupt
    <2>1. /\ pc = "yaa" /\ pc' = "yaa" /\ UNCHANGED <<args, listed>> /\ yaaPos \in Nat
      BY <1>10 DEF YaaCorrupt, YaaStep, TypeOK
    <2>2. Walking /\ Cursor = yaaPos /\ Cursor' = yaaPos'
      BY <2>1 DEF Walking, Cursor
    <2>3. yaaPos' \in Nat /\ yaaPos' >= yaaPos
      BY <1>10, <2>1, YaaFacts DEF YaaCorrupt, Offset
    <2> QED  BY <2>1, <2>2, <2>3, OrderKept
  <1>11. CASE LegacyEnd \/ YaaEnd \/ ResyncBehind
    BY <1>3, <1>11 DEF LegacyEnd, YaaEnd, ResyncBehind
  <1>12. CASE Terminated
    BY <1>0, <1>12 DEF Terminated
  <1> QED  BY <1>0, <1>1, <1>2, <1>3, <1>4, <1>5, <1>6, <1>7, <1>8, <1>9, <1>10,
              <1>11, <1>12 DEF Next, Step, LegacyNext, YaaNext

\* Whatever the archives hold and however the walk loses and finds its way,
\* it lists each entry once, in order, and no two of them share a byte.
THEOREM OrderCorrect == Spec => []ListedInOrder
  <1>1. Init => ListedInOrder
    BY DEF Init, ListedInOrder, Walking
  <1>2. TypeOK /\ ListedInOrder /\ [Next]_vars => ListedInOrder'
    BY NextOrder
  <1> QED  BY <1>1, <1>2, TypeCorrect, PTL DEF Spec

-----------------------------------------------------------------------------
(* The listing.  Of archives that are laid out as archives are, the walk   *)
(* implements OtaListing: where it stands, no intact entry lies behind it  *)
(* that it has not listed, and it stands at an entry unless it is looking  *)
(* for one.                                                                *)

ArgsLaid == \A i \in DOMAIN args : Laid(args[i])

Kept ==
    \A e \in Listing!Promised(file) : e < Cursor => \E i \in DOMAIN listed : listed[i] = e

Place ==
    Walking =>
        /\ Kept
        /\ \A i \in DOMAIN listed : listed[i] < Cursor
        /\ pc = "yaa" => Stands(file, yaaPos)
        /\ pc = "legacy" /\ Listing!Plain(file) => Stands(file, pos)

ListingInv == TypeOK /\ ArgsLaid /\ Place

\* What being laid out means for the archive that is walked.
LEMMA LaidFile ==
    ASSUME TypeOK, ArgsLaid, args # <<>>, file.kind # "ecc"
    PROVE  /\ file.entries \subseteq Offset /\ Stands(file, 0) /\ Offset \subseteq Nat
           /\ file.kind \in {"legacy", "yaa"} /\ (file.kind = "yaa") = Marked(file)
           /\ file.kind = "legacy" => \A e \in file.entries :
                /\ \A f \in file.entries : f <= e \/ e + Header <= f
                /\ Good(At(e)) =>
                     Stands(file, EntryEnd(e)) /\ \A f \in file.entries : f <= e \/ EntryEnd(e) <= f
           /\ file.kind = "yaa" =>
                /\ \A e \in file.entries : At(e).rc > 0 =>
                     /\ Stands(file, e + At(e).rc)
                     /\ \A f \in file.entries : f <= e \/ e + At(e).rc <= f
                /\ \A p \in Offset : IF p \in file.entries THEN At(p).mark ELSE At(p).rc <= 0
  <1>1. 1 \in DOMAIN args /\ file = args[1]
    <2>1. Len(args) \in Nat \ {0} /\ DOMAIN args = 1 .. Len(args) /\ file = args[1]
      BY EmptySeq, LenProperties, HeadTailProperties DEF TypeOK, file
    <2> QED  BY <2>1
  <1>2. Laid(file)
    BY <1>1 DEF ArgsLaid
  <1>3. Offset = 0 .. Len(file.at) - 1 /\ Offset \subseteq Nat
    BY FileFacts DEF Offset, fileSize, TypeOK
  <1>4. file.kind \in {"legacy", "yaa"}
    BY FileFacts DEF TypeOK
  <1> QED  BY <1>2, <1>3, <1>4 DEF Laid, At, EntryEnd

LEMMA ArgsStayLaid ==
    ASSUME TypeOK, ArgsLaid, args # <<>>, args' = Tail(args)
    PROVE  ArgsLaid'
  <1>1. Len(args) \in Nat \ {0} /\ DOMAIN args = 1 .. Len(args)
        /\ DOMAIN args' = 1 .. Len(args) - 1
        /\ \A i \in 1 .. Len(args) - 1 : args'[i] = args[i + 1]
    BY EmptySeq, LenProperties, HeadTailProperties DEF TypeOK
  <1>2. \A i \in 1 .. Len(args) - 1 : i + 1 \in DOMAIN args
    BY <1>1
  <1> QED  BY <1>1, <1>2 DEF ArgsLaid

LEMMA PromisedFacts ==
    ASSUME NEW e \in Listing!Promised(file)
    PROVE  /\ Listing!Plain(file) /\ e \in file.entries
           /\ file.kind = "yaa" => ~At(e).exits /\ At(e).rc > 0
           /\ file.kind = "legacy" => /\ At(e).magic = "known" /\ At(e).zero
                                      /\ At(e).nameLen > 0 /\ e + 3 * Header < fileSize
  BY DEF Listing!Promised, Listing!Intact, At, fileSize

Implements == [Listing!Next]_(Listing!vars)

\* The next entry is listed, and no promised one before it is left out.
LEMMA PrintsEntry ==
    ASSUME TypeOK, Place, Walking, NEW p \in Offset, p \in Listing!Printable(file),
           Cursor <= p, \A e \in Listing!Promised(file) : Cursor <= e => p <= e,
           args' = args, listed' = Append(listed, p), Walking'
    PROVE  /\ Implements
           /\ \A e \in Listing!Promised(file) :
                e <= p => \E i \in DOMAIN listed' : listed'[i] = e
           /\ \A i \in DOMAIN listed' : listed'[i] <= p
  <1>1. /\ p \in Nat /\ listed \in Seq(Nat) /\ Cursor \in Nat
        /\ \A i \in DOMAIN listed : listed[i] \in Nat
        /\ \A e \in Listing!Promised(file) : e \in Nat
    <2>1. Offset \subseteq Nat
      BY YaaFacts, LegacyFacts DEF Walking, Offset
    <2>2. \A e \in Listing!Promised(file) : e \in Nat
      <3>1. file \in Archive /\ file.kind # "ecc"
        BY FileFacts DEF TypeOK
      <3>2. file.entries \subseteq Nat
        BY <3>1 DEF Archive
      <3> QED  BY <3>2, PromisedFacts
    <2> QED  BY <2>1, <2>2, EndFacts DEF TypeOK
  <1>2. /\ DOMAIN listed' = 1 .. Len(listed) + 1
        /\ DOMAIN listed = 1 .. Len(listed) /\ Len(listed) \in Nat
        /\ \A i \in 1 .. Len(listed) : listed'[i] = listed[i]
        /\ listed'[Len(listed) + 1] = p
    BY <1>1, Appended
  <1>3. \A i \in DOMAIN listed : listed[i] < p
    BY <1>1 DEF Place
  <1>4. \A i \in DOMAIN listed' : listed'[i] <= p
    BY <1>1, <1>2, <1>3
  <1>5. ASSUME NEW e \in Listing!Promised(file), e <= p
        PROVE  \E i \in DOMAIN listed' : listed'[i] = e
    <2>1. CASE e < Cursor
      <3>1. PICK i \in DOMAIN listed : listed[i] = e
        BY <2>1 DEF Place, Kept
      <3>2. i \in DOMAIN listed' /\ listed'[i] = e
        BY <1>2, <3>1
      <3> QED  BY <3>2
    <2>2. CASE Cursor <= e
      <3>1. e = p
        BY <1>1, <1>5, <2>2
      <3>2. Len(listed) + 1 \in DOMAIN listed'
        BY <1>2
      <3> QED  BY <1>2, <3>1, <3>2
    <2> QED  BY <1>1, <2>1, <2>2
  <1>6. \A e \in Listing!Promised(file) \ Listing!Printed : p <= e
    <2> SUFFICES ASSUME NEW e \in Listing!Promised(file), e \notin Listing!Printed
                 PROVE  p <= e
      OBVIOUS
    <2>1. ~(\E i \in DOMAIN listed : listed[i] = e)
      BY DEF Listing!Printed
    <2>2. ~(e < Cursor)
      BY <2>1 DEF Place, Kept
    <2> QED  BY <1>1, <2>2
  <1>7. Listing!PrintEntry
    <2>1. (pc \in {"aborted", "outside", "died"})' = (pc \in {"aborted", "outside", "died"})
      BY DEF Walking
    <2>2. Walking' = Walking
      BY DEF Walking
    <2>3. \E e \in Listing!Printable(Head(args)) :
            /\ \A i \in DOMAIN listed : listed[i] < e
            /\ \A i \in Listing!Promised(Head(args)) \ Listing!Printed : e <= i
            /\ listed' = Append(listed, e)
      BY <1>3, <1>6 DEF file
    <2> QED  BY <2>1, <2>2, <2>3 DEF Listing!PrintEntry
  <1> QED  BY <1>4, <1>5, <1>7 DEF Implements, Listing!Next

\* A file is done with: nothing promised of it is missing.
LEMMA ClosesFile ==
    ASSUME Place, Walking, Return, listed' = listed,
           \A e \in Listing!Promised(file) : e < Cursor
    PROVE  Place' /\ Implements
  <1>1. Listing!Promised(file) \subseteq Listing!Printed
    BY DEF Place, Kept, Listing!Printed
  <1>2. Listing!CloseFile
    <2>1. Walking' = FALSE /\ args' = Tail(args)
      BY DEF Return, Walking
    <2>2. (pc \in {"aborted", "outside", "died"})' = (pc \in {"aborted", "outside", "died"})
      BY DEF Return, Walking
    <2> QED  BY <1>1, <2>1, <2>2 DEF Listing!CloseFile, file
  <1>3. Place'
    BY DEF Place, Return, Walking
  <1> QED  BY <1>2, <1>3 DEF Implements, Listing!Next

\* The program dies in the middle of a file.
LEMMA Dies ==
    ASSUME Walking, pc' \in {"aborted", "outside", "died"}, UNCHANGED <<args, listed>>
    PROVE  Place' /\ Implements
  BY DEF Place, Walking, Implements, Listing!Next, Listing!Die

\* The walk moves on within a file, and passes over nothing that is promised.
LEMMA Seeks ==
    ASSUME TypeOK, Place, Walking, Walking', UNCHANGED <<args, listed>>,
           (pc' = "yaa") = (pc = "yaa"), Cursor <= Cursor', Cursor' \in Nat,
           \A e \in Listing!Promised(file) : Cursor <= e => Cursor' <= e,
           pc' = "yaa" => Stands(file, yaaPos'),
           pc' = "legacy" /\ Listing!Plain(file) => Stands(file, pos')
    PROVE  Place' /\ Implements
  <1>1. file' = file /\ Cursor \in Nat
    BY EndFacts DEF file
  <1>2. \A e \in Listing!Promised(file) : e \in Nat
    <2>1. file \in Archive /\ file.kind # "ecc"
      BY FileFacts DEF TypeOK
    <2>2. file.entries \subseteq Nat
      BY <2>1 DEF Archive
    <2> QED  BY <2>2, PromisedFacts
  <1>3. \A e \in Listing!Promised(file) : e < Cursor' => e < Cursor
    BY <1>1, <1>2
  <1>4. Kept'
    BY <1>1, <1>3 DEF Kept, Place
  <1>5. \A i \in DOMAIN listed' : listed'[i] < Cursor'
    BY <1>1, EndFacts DEF Place
  <1>6. Implements
    BY DEF Implements, Listing!vars, Walking
  <1> QED  BY <1>1, <1>4, <1>5, <1>6 DEF Place

\* The entry at p is listed, if it is the next one.
LEMMA ProcessListing ==
    ASSUME TypeOK, ArgsLaid, Place, pc \in {"legacy", "resync"},
           NEW p \in Offset, Good(At(p)), pos <= p, Process(p),
           \A e \in Listing!Promised(file) : pos <= e => p <= e
    PROVE  Place' /\ Implements
  <1>0. /\ args # <<>> /\ file.kind = "legacy" /\ Walking /\ p \in Nat
        /\ EntryEnd(p) \in Nat /\ EntryEnd(p) > p /\ Cursor = pos
    BY LegacyFacts, LaidFile DEF Offset, Walking, Cursor
  <1>1. Listing!Plain(file) => p \in file.entries
    BY <1>0 DEF Listing!Plain, Good, At, Offset, fileSize
  <1>2. p \in Listing!Printable(file)
    BY <1>1 DEF Listing!Printable, Offset, fileSize
  <1>3. CASE stack + At(p).nameLen + 1 <= StackLimit
    <2>1. /\ listed' = Append(listed, p) /\ pos' = EntryEnd(p) /\ pc' = "legacy"
          /\ args' = args
      BY <1>3 DEF Process
    <2>2. Walking' /\ file' = file /\ Cursor' = EntryEnd(p)
      BY <2>1 DEF Walking, file, Cursor
    <2>3. /\ Implements
          /\ \A e \in Listing!Promised(file) :
               e <= p => \E i \in DOMAIN listed' : listed'[i] = e
          /\ \A i \in DOMAIN listed' : listed'[i] <= p
      BY <1>0, <1>2, <2>1, <2>2, PrintsEntry
    <2>4. Listing!Plain(file) =>
             Stands(file, EntryEnd(p)) /\ \A f \in file.entries : f <= p \/ EntryEnd(p) <= f
      BY <1>0, <1>1, LaidFile
    <2>5. /\ file.entries \subseteq Nat
          /\ \A i \in DOMAIN listed' : listed'[i] \in Nat
      <3>1. file.entries \subseteq Nat
        BY <1>0, LaidFile
      <3>2. listed' \in Seq(Nat)
        BY <1>0, <2>1, Appended DEF TypeOK
      <3> QED  BY <3>1, <3>2, ElementOfSeq, LenProperties
    <2>6. ASSUME NEW e \in Listing!Promised(file), e < EntryEnd(p)
          PROVE  \E i \in DOMAIN listed' : listed'[i] = e
      <3>1. Listing!Plain(file) /\ e \in file.entries
        BY PromisedFacts
      <3>2. e <= p
        BY <1>0, <2>4, <2>5, <2>6, <3>1
      <3> QED  BY <2>3, <3>2
    <2>7. Kept'
      BY <2>2, <2>6 DEF Kept
    <2>8. \A i \in DOMAIN listed' : listed'[i] < EntryEnd(p)
      BY <1>0, <2>3, <2>5
    <2> QED  BY <2>1, <2>2, <2>3, <2>4, <2>7, <2>8 DEF Place
  <1>4. CASE ~(stack + At(p).nameLen + 1 <= StackLimit)
    BY <1>0, <1>4, Dies DEF Process
  <1> QED  BY <1>3, <1>4

LEMMA LegacyListing ==
    ASSUME TypeOK, ArgsLaid, Place, LegacyNext
    PROVE  Place' /\ Implements
  <1>h. Header \in Nat \ {0}
    BY OtaAssumption DEF OtaAssumption
  <1>0. pc \in {"legacy", "resync"}
    BY DEF LegacyNext, AcceptEntry, CorruptEntry, InLoop, ResyncFalse, ResyncFound,
           ResyncOutside, ResyncBehind, LegacyEnd
  <1>1. /\ args # <<>> /\ file.kind = "legacy" /\ fileSize \in Nat /\ Offset \subseteq Nat
        /\ pos \in Nat /\ Walking /\ Cursor = pos
    BY <1>0, LegacyFacts, LaidFile DEF TypeOK, Walking, Cursor, Offset
  <1>2. \A e \in Listing!Promised(file) :
          /\ Listing!Plain(file) /\ e \in file.entries /\ e \in Nat /\ Known(e)
          /\ Good(At(e)) /\ ~FalsePositive(e) /\ e + 3 * Header < fileSize
    <2>1. file.entries \subseteq Offset
      BY <1>1, LaidFile
    <2> SUFFICES ASSUME NEW e \in Listing!Promised(file)
                 PROVE  /\ Listing!Plain(file) /\ e \in file.entries /\ e \in Nat /\ Known(e)
                        /\ Good(At(e)) /\ ~FalsePositive(e) /\ e + 3 * Header < fileSize
      OBVIOUS
    <2>2. /\ Listing!Plain(file) /\ e \in file.entries
          /\ At(e).magic = "known" /\ At(e).zero /\ At(e).nameLen > 0
          /\ e + 3 * Header < fileSize
      BY <1>1, PromisedFacts
    <2>3. e \in Offset /\ At(e) \in View
      BY <1>0, <2>1, <2>2, LegacyFacts
    <2>4. At(e).nameLen # 0
      BY <2>2, <2>3 DEF View
    <2> QED  BY <1>1, <2>2, <2>3, <2>4 DEF Known, Good, FalsePositive
  <1>3. ASSUME NEW p \in Offset, FirstKnown(p), NEW e \in Listing!Promised(file), pos <= e
        PROVE  p <= e
    <2>1. e \in Nat /\ p \in Nat /\ Known(e)
      BY <1>1, <1>2
    <2>2. ~(e \in pos .. p - 1)
      BY <1>3, <2>1 DEF FirstKnown
    <2> QED  BY <1>1, <1>3, <2>1, <2>2
  <1>4. CASE AcceptEntry
    <2>1. pc = "legacy" /\ pos + 3 * Header < fileSize /\ Good(At(pos)) /\ Process(pos)
      BY <1>4 DEF AcceptEntry, InLoop
    <2>2. pos \in Offset
      BY <1>1, <1>h, <2>1 DEF Offset
    <2>3. \A e \in Listing!Promised(file) : pos <= e => pos <= e
      OBVIOUS
    <2> QED  BY <1>0, <1>1, <2>1, <2>2, <2>3, ProcessListing
  <1>5. CASE CorruptEntry
    <2>1. /\ pc = "legacy" /\ ~Good(At(pos)) /\ pos' = pos + Header /\ pc' = "resync"
          /\ UNCHANGED <<args, listed>>
      BY <1>5 DEF CorruptEntry, InLoop
    <2>2. ASSUME NEW e \in Listing!Promised(file), pos <= e
          PROVE  pos + Header <= e
      <3>1. Stands(file, pos) /\ e \in file.entries /\ e # pos /\ e \in Nat
        BY <1>1, <1>2, <2>1 DEF Place
      <3>2. pos \in file.entries
        BY <1>1, <2>2, <3>1 DEF Stands
      <3>3. e <= pos \/ pos + Header <= e
        BY <1>1, <3>1, <3>2, LaidFile
      <3> QED  BY <1>1, <1>h, <2>2, <3>1, <3>3
    <2>3. Walking' /\ Cursor' = pos' /\ pos' \in Nat /\ pos <= pos'
      BY <1>1, <1>h, <2>1 DEF Walking, Cursor
    <2> QED  BY <1>1, <2>1, <2>2, <2>3, Seeks
  <1>6. CASE ResyncFalse
    <2>1. PICK p \in Offset : /\ FirstKnown(p) /\ FalsePositive(p) /\ pos' = p + 1
                              /\ IF p + 1 > fileSize THEN Return
                                 ELSE UNCHANGED <<pc, args, stack>>
      BY <1>6 DEF ResyncFalse
    <2>2. p \in Nat /\ pos <= p /\ ~(p + 1 > fileSize)
      BY <1>1, <2>1 DEF FirstKnown, Offset
    <2>3. pc = "resync" /\ pc' = "resync" /\ UNCHANGED <<args, listed>>
      BY <1>6, <2>1, <2>2 DEF ResyncFalse
    <2>4. ASSUME NEW e \in Listing!Promised(file), pos <= e
          PROVE  p + 1 <= e
      <3>1. p <= e /\ e # p /\ e \in Nat
        BY <1>2, <1>3, <2>1, <2>4
      <3> QED  BY <2>2, <3>1
    <2>5. Walking' /\ Cursor' = pos' /\ pos' \in Nat /\ pos <= pos'
      BY <1>1, <2>1, <2>2, <2>3 DEF Walking, Cursor
    <2> QED  BY <1>1, <2>1, <2>3, <2>4, <2>5, Seeks
  <1>7. CASE ResyncFound
    <2>1. PICK p \in Offset : /\ FirstKnown(p) /\ ~FalsePositive(p)
                              /\ IF p + Header > fileSize
                                 THEN /\ pos' = p + Header
                                      /\ Return
                                      /\ UNCHANGED <<yaaPos, listed>>
                                 ELSE Process(p)
      BY <1>7 DEF ResyncFound
    <2>2. p \in Nat /\ pos <= p /\ Good(At(p))
      BY <1>1, <2>1 DEF FirstKnown, Known, FalsePositive, Good
    <2>3. CASE p + Header > fileSize
      <3>1. ASSUME NEW e \in Listing!Promised(file)
            PROVE  e < pos
        <4>1. e \in Nat /\ e + 3 * Header < fileSize /\ (pos <= e => p <= e)
          BY <1>2, <1>3, <2>1
        <4> QED  BY <1>1, <1>h, <2>2, <2>3, <4>1
      <3> QED  BY <1>1, <2>1, <2>3, <3>1, ClosesFile
    <2>4. CASE ~(p + Header > fileSize)
      <3>1. \A e \in Listing!Promised(file) : pos <= e => p <= e
        BY <1>3, <2>1
      <3> QED  BY <1>0, <2>1, <2>2, <2>4, <3>1, ProcessListing
    <2> QED  BY <2>3, <2>4
  <1>8. CASE ResyncOutside
    BY <1>1, <1>8, Dies DEF ResyncOutside
  <1>9. CASE LegacyEnd
    <2>1. pos + 3 * Header >= fileSize /\ Return /\ listed' = listed
      BY <1>1, <1>h, <1>9 DEF LegacyEnd, InLoop
    <2>2. \A e \in Listing!Promised(file) : e < pos
      BY <1>1, <1>2, <1>h, <2>1
    <2> QED  BY <1>1, <2>1, <2>2, ClosesFile
  <1>10. CASE ResyncBehind
    <2>1. ASSUME NEW e \in Listing!Promised(file)
          PROVE  e < pos
      <3>1. e \in Nat /\ Known(e) /\ e \in Offset
        BY <1>2 DEF Known
      <3> QED  BY <1>1, <1>10, <3>1 DEF ResyncBehind
    <2> QED  BY <1>1, <1>10, <2>1, ClosesFile DEF ResyncBehind
  <1> QED  BY <1>4, <1>5, <1>6, <1>7, <1>8, <1>9, <1>10 DEF LegacyNext

LEMMA YaaListing ==
    ASSUME TypeOK, ArgsLaid, Place, YaaNext
    PROVE  Place' /\ Implements
  <1>0. pc = "yaa" /\ Walking /\ Cursor = yaaPos /\ yaaPos \in Nat
    BY DEF YaaNext, YaaEntry, YaaExit, YaaCorrupt, YaaStep, YaaEnd, Walking, Cursor, TypeOK
  <1>1. /\ args # <<>> /\ file.kind = "yaa" /\ fileSize \in Nat /\ Offset \subseteq Nat
        /\ Stands(file, yaaPos) /\ file.entries \subseteq Offset
    BY <1>0, YaaFacts, LaidFile DEF Place, Offset
  <1>2. \A e \in Listing!Promised(file) : e \in file.entries /\ e \in Nat
    BY <1>1, PromisedFacts
  <1>3. CASE YaaEntry
    <2>1. /\ yaaPos < fileSize /\ At(yaaPos).rc > 0 /\ listed' = Append(listed, yaaPos)
          /\ yaaPos' = yaaPos + At(yaaPos).rc /\ UNCHANGED <<args, pc>>
      BY <1>3 DEF YaaEntry, YaaStep
    <2>2. yaaPos \in Offset /\ At(yaaPos).rc \in Nat
      BY <1>0, <1>1, <2>1, YaaFacts DEF Offset
    <2>3. yaaPos \in file.entries
      BY <1>1, <2>1, <2>2, LaidFile
    <2>4. yaaPos \in Listing!Printable(file)
      BY <1>1, <2>3 DEF Listing!Printable, Listing!Plain
    <2>5. Walking' /\ file' = file /\ Cursor' = yaaPos' /\ pc' = "yaa"
      BY <1>0, <2>1 DEF Walking, file, Cursor
    <2>6. /\ Implements
          /\ \A e \in Listing!Promised(file) :
               e <= yaaPos => \E i \in DOMAIN listed' : listed'[i] = e
          /\ \A i \in DOMAIN listed' : listed'[i] <= yaaPos
      BY <1>0, <2>1, <2>2, <2>4, <2>5, PrintsEntry
    <2>7. /\ Stands(file, yaaPos')
          /\ \A f \in file.entries : f <= yaaPos \/ yaaPos' <= f
      BY <1>1, <2>1, <2>3, LaidFile
    <2>8. yaaPos' \in Nat /\ yaaPos < yaaPos'
      BY <1>0, <2>1, <2>2
    <2>9. Kept'
      <3>1. \A e \in Listing!Promised(file) : e < yaaPos' => e <= yaaPos
        BY <1>0, <1>2, <2>7, <2>8
      <3> QED  BY <2>5, <2>6, <3>1 DEF Kept
    <2>10. \A i \in DOMAIN listed' : listed'[i] < yaaPos'
      <3>1. listed' \in Seq(Nat)
        BY <1>0, <2>1, Appended DEF TypeOK
      <3>2. \A i \in DOMAIN listed' : listed'[i] \in Nat
        BY <3>1, ElementOfSeq, LenProperties
      <3> QED  BY <1>0, <2>6, <2>8, <3>2
    <2> QED  BY <2>5, <2>6, <2>7, <2>9, <2>10 DEF Place
  <1>4. CASE YaaExit
    BY <1>0, <1>4, Dies DEF YaaExit
  <1>5. CASE YaaCorrupt
    <2>1. UNCHANGED <<args, pc, listed>> /\ yaaPos < fileSize
      BY <1>5 DEF YaaCorrupt, YaaStep
    <2>2. yaaPos' \in Nat /\ yaaPos <= yaaPos' /\ (yaaPos' = yaaPos \/ yaaPos \notin file.entries)
      <3>1. CASE yaaPos' = yaaPos
        BY <1>0, <3>1
      <3>2. CASE yaaPos' # yaaPos
        <4>1. PICK p \in Offset : p >= yaaPos /\ yaaPos' = p /\ \A q \in yaaPos .. p - 1 : ~At(q).mark
          BY <1>5, <3>2 DEF YaaCorrupt
        <4>2. p \in Nat /\ yaaPos \in yaaPos .. p - 1 /\ yaaPos \in Offset
          BY <1>0, <1>1, <2>1, <3>2, <4>1 DEF Offset
        <4>3. ~At(yaaPos).mark
          BY <4>1, <4>2
        <4>4. yaaPos \notin file.entries
          BY <1>1, <4>2, <4>3, LaidFile
        <4> QED  BY <4>1, <4>2, <4>4
      <3> QED  BY <3>1, <3>2
    <2>3. /\ Stands(file, yaaPos')
          /\ \A e \in Listing!Promised(file) : yaaPos <= e => yaaPos' <= e
      <3>1. CASE yaaPos' = yaaPos
        BY <1>1, <3>1
      <3>2. CASE yaaPos \notin file.entries
        <4>1. \A e \in file.entries : e < yaaPos /\ e \in Nat
          BY <1>1, <3>2 DEF Stands
        <4>2. \A e \in file.entries : e < yaaPos' /\ ~(yaaPos <= e)
          BY <1>0, <2>2, <4>1
        <4> QED  BY <1>2, <4>2 DEF Stands
      <3> QED  BY <2>2, <3>1, <3>2
    <2>4. Walking' /\ Cursor' = yaaPos' /\ pc' = "yaa"
      BY <1>0, <2>1 DEF Walking, Cursor
    <2> QED  BY <1>0, <2>1, <2>2, <2>3, <2>4, Seeks
  <1>6. CASE YaaEnd
    <2>1. yaaPos >= fileSize /\ Return /\ listed' = listed
      BY <1>6 DEF YaaEnd
    <2>2. \A e \in Listing!Promised(file) : e < yaaPos
      BY <1>0, <1>1, <1>2, <2>1 DEF Offset
    <2> QED  BY <1>0, <2>1, <2>2, ClosesFile
  <1> QED  BY <1>3, <1>4, <1>5, <1>6 DEF YaaNext

LEMMA ListingInit == AllLaid /\ Init => ListingInv /\ Listing!Init
  <1> SUFFICES ASSUME AllLaid, Init PROVE ListingInv /\ Listing!Init
    OBVIOUS
  <1>1. args \in CommandLines /\ pc = "main" /\ listed = <<>> /\ args \in Seq(Archive)
    BY OtaAssumption DEF Init, OtaAssumption
  <1>2. TypeOK
    BY InitType
  <1>3. ArgsLaid
    BY <1>1 DEF AllLaid, ArgsLaid
  <1>4. Walking = FALSE
    BY <1>1 DEF Walking
  <1> QED  BY <1>1, <1>2, <1>3, <1>4 DEF ListingInv, Place, Listing!Init

LEMMA ListingStep == ListingInv /\ [Next]_vars => ListingInv' /\ [Listing!Next]_(Listing!vars)
  <1> SUFFICES ASSUME ListingInv, [Next]_vars PROVE ListingInv' /\ Implements
    BY DEF Implements
  <1>0. TypeOK /\ ArgsLaid /\ Place /\ TypeOK'
    BY NextType DEF ListingInv
  <1>1. ArgsLaid'
    <2>1. CASE args' = args
      BY <1>0, <2>1 DEF ArgsLaid
    <2>2. CASE args' # args
      <3>1. args # <<>> /\ args' = Tail(args)
        <4>1. CASE SkipEcc
          BY <4>1 DEF SkipEcc
        <4>2. CASE Open \/ Exit \/ Terminated \/ UNCHANGED vars
          BY <2>2, <4>2 DEF Open, Exit, Terminated, vars
        <4>3. CASE LegacyNext \/ YaaNext
          <5>1. Return
            BY <2>2, <4>3 DEF LegacyNext, AcceptEntry, Process, CorruptEntry, ResyncFalse,
                              ResyncFound, ResyncBehind, ResyncOutside, LegacyEnd, YaaNext, YaaEntry,
                              YaaExit, YaaCorrupt, YaaEnd
          <5>2. Walking
            BY <4>3 DEF LegacyNext, AcceptEntry, InLoop, CorruptEntry, ResyncFalse,
                        ResyncFound, ResyncBehind, ResyncOutside, LegacyEnd, YaaNext, YaaStep, YaaEntry,
                        YaaExit, YaaCorrupt, YaaEnd, Walking
          <5> QED  BY <1>0, <5>1, <5>2 DEF Return, TypeOK
        <4> QED  BY <4>1, <4>2, <4>3 DEF Next, Step
      <3> QED  BY <1>0, <3>1, ArgsStayLaid
    <2> QED  BY <2>1, <2>2
  <1>2. Place' /\ Implements
    <2>1. CASE Open
      <3>1. /\ pc = "main" /\ args # <<>> /\ file.kind # "ecc"
            /\ pc' = IF Marked(file) THEN "yaa" ELSE "legacy"
            /\ listed' = <<>> /\ yaaPos' = 0 /\ args' = args /\ file' = file
            /\ pos' = IF Marked(file) THEN pos ELSE 0
        BY <2>1 DEF Open, file
      <3>2. file.kind \in {"legacy", "yaa"} /\ file.entries \subseteq Nat /\ Stands(file, 0)
        BY <1>0, <3>1, FileFacts, LaidFile DEF TypeOK
      <3>3. Cursor' = 0 /\ Walking = FALSE /\ Walking' = TRUE
        BY <3>1, <3>2 DEF Cursor, Walking
      <3>4. Kept'
        <4>1. \A e \in Listing!Promised(file) : e \in Nat /\ ~(e < 0)
          BY <3>2, PromisedFacts
        <4> QED  BY <3>1, <3>3, <4>1 DEF Kept
      <3>5. Place'
        BY <3>1, <3>2, <3>3, <3>4 DEF Place
      <3>6. Listing!OpenFile
        <4>1. (pc \in {"aborted", "outside", "died"})' = FALSE
              /\ (pc \in {"aborted", "outside", "died"}) = FALSE
          BY <3>1, <3>2
        <4>2. args # <<>> /\ Head(args).kind # "ecc"
          BY <3>1 DEF file
        <4> QED  BY <3>1, <3>3, <4>1, <4>2 DEF Listing!OpenFile
      <3> QED  BY <3>5, <3>6 DEF Implements, Listing!Next
    <2>2. CASE SkipEcc
      <3>1. /\ args # <<>> /\ Head(args).kind = "ecc" /\ args' = Tail(args)
            /\ pc = "main" /\ pc' = "main" /\ listed' = listed
        BY <2>2 DEF SkipEcc, file
      <3>2. /\ Walking = FALSE /\ Walking' = FALSE
            /\ (pc \in {"aborted", "outside", "died"})' = FALSE
            /\ (pc \in {"aborted", "outside", "died"}) = FALSE
        BY <3>1 DEF Walking
      <3>3. Listing!SkipFile
        BY <3>1, <3>2 DEF Listing!SkipFile
      <3> QED  BY <3>2, <3>3 DEF Place, Implements, Listing!Next
    <2>3. CASE Exit
      <3>1. /\ Walking = FALSE /\ Walking' = FALSE /\ UNCHANGED <<args, listed>>
            /\ (pc \in {"aborted", "outside", "died"})' = (pc \in {"aborted", "outside", "died"})
        BY <2>3 DEF Exit, Walking
      <3> QED  BY <3>1 DEF Place, Implements, Listing!vars
    <2>4. CASE LegacyNext
      BY <1>0, <2>4, LegacyListing
    <2>5. CASE YaaNext
      BY <1>0, <2>5, YaaListing
    <2>6. CASE UNCHANGED vars \/ Terminated
      <3>1. UNCHANGED <<args, pc, pos, yaaPos, listed, stack>>
        BY <2>6 DEF Terminated, vars
      <3>2. Implements
        BY <3>1 DEF Implements, Listing!vars, Walking
      <3>3. Place'
        <4>1. file' = file /\ Cursor' = Cursor /\ Walking' = Walking
          BY <3>1 DEF file, Cursor, Walking
        <4>2. Kept' = Kept
          BY <3>1, <4>1 DEF Kept
        <4> QED  BY <1>0, <3>1, <4>1, <4>2 DEF Place
      <3> QED  BY <3>2, <3>3
    <2> QED  BY <2>1, <2>2, <2>3, <2>4, <2>5, <2>6 DEF Next, Step
  <1> QED  BY <1>0, <1>1, <1>2 DEF ListingInv

\* Of archives that are laid out as archives are, whatever their number, their
\* length and the damage to their headers, the walk does what -l promises: it is
\* an implementation of OtaListing.
THEOREM WalkImplementsListing == AllLaid /\ Spec => ListingSpec
  <1>1. AllLaid /\ Init => ListingInv /\ Listing!Init
    BY ListingInit
  <1>2. ListingInv /\ [Next]_vars => ListingInv' /\ [Listing!Next]_(Listing!vars)
    BY ListingStep
  <1> QED  BY <1>1, <1>2, PTL DEF Spec, ListingSpec, Listing!Spec

-----------------------------------------------------------------------------
(* pbzx                                                                    *)

\* Between two chunks, what has been written and what is left make up the
\* buffer; and while chunks are XZ, intact and small, nothing has been lost and
\* there is room for another chunk.
Live == decoder \in {"reading", "returned"}
RoomLeft == clean /\ Live => available >= OUT_BUFSIZE
PbzxInv == PbzxTypeOK /\ BufferIsAccounted /\ NothingLost /\ RoomLeft

\* The program starts with an empty buffer of the first size.
LEMMA PbzxStarts == PbzxInit => PbzxInv
BY PbzxAssumption DEF PbzxInit, PbzxInv, PbzxTypeOK, BufferIsAccounted, NothingLost, RoomLeft, Live, Chunk

\* A chunk at hand is a chunk, and what follows it is a file.
LEMMA ChunkType ==
    ASSUME chunks \in Seq(Chunk), chunks # <<>>
    PROVE  /\ chunk \in Chunk /\ chunk.size \in Nat
           /\ chunk.xz \in BOOLEAN /\ chunk.intact \in BOOLEAN
           /\ Tail(chunks) \in Seq(Chunk)
<1>1. chunk \in Chunk /\ Tail(chunks) \in Seq(Chunk)
  BY HeadTailProperties DEF chunk
<1> QED
  BY <1>1 DEF Chunk

\* Making room keeps the written part and never shrinks the buffer.
LEMMA GrowFacts ==
    ASSUME PbzxTypeOK, NEW room \in 0 .. available, Grow(room), decoder = "reading"
    PROVE  /\ returnedSize' \in 1 .. IntMax
           /\ available' \in 0 .. returnedSize'
           /\ decoder' \in {"reading", "no_memory"}
           /\ decoder' = "reading" => /\ returnedSize' - available' = returnedSize - room
                                      /\ available' >= OUT_BUFSIZE
BY PbzxAssumption DEF PbzxTypeOK, Grow

\* An XZ chunk: it fits if it is intact and no larger than the first buffer,
\* because there is always that much room.
LEMMA DecodeStep == PbzxInv /\ DecodeXZ => PbzxInv'
<1> SUFFICES ASSUME PbzxInv, DecodeXZ PROVE PbzxInv'
  OBVIOUS
<1> USE PbzxAssumption
<1>1. /\ PbzxTypeOK /\ decoder = "reading" /\ chunks \in Seq(Chunk) /\ chunks # <<>>
      /\ available \in Nat /\ totalSize \in Nat /\ wanted \in Nat /\ clean \in BOOLEAN
      /\ returnedSize \in Nat /\ totalSize = returnedSize - available
  BY DEF PbzxInv, PbzxTypeOK, DecodeXZ, TakeChunk, BufferIsAccounted
<1>2. /\ chunk.size \in Nat /\ Tail(chunks) \in Seq(Chunk)
      /\ chunk.xz \in BOOLEAN /\ chunk.intact \in BOOLEAN
  BY <1>1, ChunkType
<1> DEFINE most == IF chunk.size <= available THEN chunk.size ELSE available
<1>3. PICK written \in 0 .. most :
        /\ chunk.intact => written = most
        /\ totalSize' = totalSize + written
        /\ Grow(available - written)
  BY DEF DecodeXZ
<1>4. available - written \in 0 .. available /\ written \in Nat
  BY <1>1, <1>2, <1>3
<1>5. /\ returnedSize' \in 1 .. IntMax
      /\ available' \in 0 .. returnedSize'
      /\ decoder' \in {"reading", "no_memory"}
      /\ decoder' = "reading" => /\ returnedSize' - available' = returnedSize - (available - written)
                                 /\ available' >= OUT_BUFSIZE
  BY <1>1, <1>3, <1>4, GrowFacts
<1>6. /\ chunks' = Tail(chunks) /\ wanted' = wanted + chunk.size
      /\ clean' = (clean /\ chunk.xz /\ chunk.intact /\ chunk.size <= OUT_BUFSIZE)
  BY DEF DecodeXZ, TakeChunk
<1>7. PbzxTypeOK'
  BY <1>1, <1>2, <1>3, <1>4, <1>5, <1>6 DEF PbzxTypeOK
<1>8. BufferIsAccounted'
  <2>1. SUFFICES ASSUME decoder' \in {"reading", "returned"}
                 PROVE  totalSize' = returnedSize' - available'
    BY DEF BufferIsAccounted
  <2>2. returnedSize' - available' = returnedSize - (available - written)
    BY <1>5, <2>1
  <2> QED
    BY <1>1, <1>3, <1>4, <2>2
<1>9. NothingLost'
  <2>1. SUFFICES ASSUME clean', decoder' \in {"reading", "returned"} PROVE totalSize' = wanted'
    BY DEF NothingLost
  <2>2. clean /\ chunk.intact /\ chunk.size <= OUT_BUFSIZE
    BY <1>6, <2>1, Zenon
  <2>3. totalSize = wanted /\ available >= OUT_BUFSIZE
    BY <1>1, <2>2 DEF PbzxInv, NothingLost, RoomLeft, Live
  <2>4. written = most
    BY <1>3, <2>2
  <2>5. chunk.size <= available
    BY <1>1, <1>2, <2>2, <2>3
  <2> QED
    BY <1>3, <1>6, <2>3, <2>4, <2>5
<1>10. RoomLeft'
  BY <1>5 DEF RoomLeft, Live
<1> QED
  BY <1>7, <1>8, <1>9, <1>10 DEF PbzxInv

\* Any other chunk ends what is promised about loss, but not the accounting.
LEMMA CopyStep == PbzxInv /\ CopyRaw => PbzxInv'
<1> SUFFICES ASSUME PbzxInv, CopyRaw PROVE PbzxInv'
  OBVIOUS
<1>1. /\ PbzxTypeOK /\ decoder = "reading" /\ chunks \in Seq(Chunk) /\ chunks # <<>>
      /\ totalSize = returnedSize - available
  BY DEF PbzxInv, PbzxTypeOK, CopyRaw, TakeChunk, BufferIsAccounted
<1>2. chunk.size \in Nat /\ Tail(chunks) \in Seq(Chunk) /\ chunk.xz \in BOOLEAN
  BY <1>1, ChunkType
<1>3. /\ chunks' = Tail(chunks) /\ wanted' = wanted + chunk.size
      /\ clean' = FALSE /\ clean' \in BOOLEAN
  <2>1. clean' = FALSE
    BY DEF CopyRaw, TakeChunk
  <2> QED
    BY <2>1 DEF CopyRaw, TakeChunk
<1>4. /\ chunks' \in Seq(Chunk) /\ wanted' \in Nat
  BY <1>1, <1>2, <1>3 DEF PbzxTypeOK
<1>5. /\ NothingLost' /\ RoomLeft'
  BY <1>3 DEF NothingLost, RoomLeft
<1>6. CASE chunk.size <= available
  <2>1. /\ totalSize' = totalSize + chunk.size
        /\ available' = available - chunk.size
        /\ returnedSize' = returnedSize /\ decoder' = decoder
    BY <1>6 DEF CopyRaw
  <2>2. PbzxTypeOK'
    <3>1. available' \in 0 .. returnedSize' /\ totalSize' \in Nat /\ returnedSize' \in 1 .. IntMax
      BY <1>1, <1>2, <1>6, <2>1 DEF PbzxTypeOK
    <3> QED
      BY <1>1, <1>3, <1>4, <2>1, <3>1 DEF PbzxTypeOK
  <2>3. BufferIsAccounted'
    BY <1>1, <1>2, <2>1 DEF BufferIsAccounted, PbzxTypeOK
  <2> QED
    BY <1>5, <2>2, <2>3 DEF PbzxInv
<1>7. CASE ~(chunk.size <= available)
  <2>1. /\ decoder' = "overrun" /\ totalSize' = totalSize
        /\ available' = available /\ returnedSize' = returnedSize
    BY <1>7 DEF CopyRaw
  <2>2. PbzxTypeOK' /\ BufferIsAccounted'
    BY <1>1, <1>3, <1>4, <2>1 DEF PbzxTypeOK, BufferIsAccounted
  <2> QED
    BY <1>5, <2>2 DEF PbzxInv
<1> QED
  BY <1>6, <1>7

\* Every step keeps the invariant.
LEMMA PbzxKeeps == PbzxInv /\ [PbzxNext]_pbzxVars => PbzxInv'
<1> SUFFICES ASSUME PbzxInv, [PbzxNext]_pbzxVars PROVE PbzxInv'
  OBVIOUS
<1>1. CASE DecodeXZ
  BY <1>1, DecodeStep
<1>2. CASE CopyRaw
  BY <1>2, CopyStep
<1>3. CASE ReadOutside
  BY <1>3 DEF ReadOutside, PbzxInv, PbzxTypeOK, BufferIsAccounted, NothingLost, RoomLeft, Live
<1>4. CASE PbzxReturn
  BY <1>4 DEF PbzxReturn, PbzxInv, PbzxTypeOK, BufferIsAccounted, NothingLost, RoomLeft, Live
<1>5. CASE UNCHANGED pbzxVars
  BY <1>5 DEF pbzxVars, PbzxInv, PbzxTypeOK, BufferIsAccounted, NothingLost, RoomLeft, Live
<1> QED
  BY <1>1, <1>2, <1>3, <1>4, <1>5 DEF PbzxNext

LEMMA PbzxInvariant == PbzxSpec => []PbzxInv
<1> QED
  BY PbzxStarts, PbzxKeeps, PTL DEF PbzxSpec

\* Lines 622-638: written and left bytes make up the buffer however often it
\* grew and whatever the chunks were.
THEOREM BufferIsAlwaysAccounted == PbzxSpec => []BufferIsAccounted
<1>1. PbzxInv => BufferIsAccounted
  BY DEF PbzxInv
<1> QED
  BY <1>1, PbzxInvariant, PTL

\* Line 511, "Largest chunk I've seen is 8MB. This is double that": no byte of
\* XZ chunks that fit the first buffer is ever lost, however many there are.
THEOREM NothingIsLost == PbzxSpec => []NothingLost
<1>1. PbzxInv => NothingLost
  BY DEF PbzxInv
<1> QED
  BY <1>1, PbzxInvariant, PTL

-----------------------------------------------------------------------------
(* Extraction: what is there, and what a path names                        *)

LEMMA NodeKinds ==
    ASSUME NEW n \in Node
    PROVE  /\ n.kind \in {"absent", "dir", "link", "file"}
           /\ n.kind = "absent" => n = Absent
           /\ n.kind = "dir" => n = Dir
           /\ n.kind = "file" => /\ n.size \in Nat /\ n.stale \in Nat /\ n.mode \in BOOLEAN
                                 /\ n \in [kind : {"file"}, body : Nat, size : Nat, stale : Nat,
                                           mode : BOOLEAN]
  <1>1. CASE n = Absent
    BY <1>1 DEF Absent
  <1>2. CASE n = Dir
    BY <1>2 DEF Dir
  <1>3. CASE n \in [kind : {"link"}, to : Seq(Nat)]
    BY <1>3
  <1>4. CASE n \in [kind : {"file"}, body : Nat, size : Nat, stale : Nat, mode : BOOLEAN]
    BY <1>4
  <1> QED  BY <1>1, <1>2, <1>3, <1>4 DEF Node

LEMMA NodesAre ==
    /\ Absent \in Node /\ Absent.kind = "absent"
    /\ Dir \in Node /\ Dir.kind = "dir"
    /\ \A e \in Entry : Link(e) \in Node /\ Link(e).kind = "link"
BY DEF Node, Absent, Dir, Link, Entry

\* A path, those above it, and theirs.
LEMMA Aboves ==
    ASSUME NEW p \in Paths
    PROVE  /\ p \in Seq(Nat) /\ Len(p) \in Nat \ {0} /\ p # <<>>
           /\ SubSeq(p, 1, Len(p)) = p
           /\ Append(Parent(p), p[Len(p)]) = p
           /\ Parent(p) \in Seq(Nat) /\ Len(Parent(p)) = Len(p) - 1
           /\ Len(p) = 1 => Parent(p) = <<>>
           /\ Len(p) # 1 => Parent(p) \in Paths /\ OnTheWay(Parent(p), p)
           /\ \A n \in 1 .. Len(p) : /\ SubSeq(p, 1, n) \in Paths /\ Len(SubSeq(p, 1, n)) = n
                                     /\ \A i \in 1 .. n :
                                          SubSeq(SubSeq(p, 1, n), 1, i) = SubSeq(p, 1, i)
  <1>1. p \in Seq(Nat) /\ p # <<>> /\ \A i \in 1 .. Len(p) : SubSeq(p, 1, i) \in Paths
    BY ExtractAssumption
  <1>2. Len(p) \in Nat \ {0}
    BY <1>1, EmptySeq
  <1>3. SubSeq(p, 1, Len(p)) = p
    BY <1>1, SubSeqFull
  <1>4. ASSUME NEW n \in 1 .. Len(p)
        PROVE  /\ Len(SubSeq(p, 1, n)) = n
               /\ \A i \in 1 .. n : SubSeq(SubSeq(p, 1, n), 1, i) = SubSeq(p, 1, i)
    <2>1. Len(SubSeq(p, 1, n)) = n
      <3>1. \A i \in 1 .. n : p[i] \in Nat
        BY <1>1, <1>2
      <3> QED  BY <1>2, <3>1, SubSeqProperties
    <2>2. ASSUME NEW i \in 1 .. n
          PROVE  SubSeq(SubSeq(p, 1, n), 1, i) = SubSeq(p, 1, i)
      <3>1. /\ 1 \in 1 .. Len(p) /\ n \in 1 .. Len(p)
            /\ 1 \in 1 .. n - 1 + 1 /\ i \in 1 .. n - 1 + 1
        BY <1>2
      <3>2. SubSeq(SubSeq(p, 1, n), 1, i) = SubSeq(p, 1 + 1 - 1, 1 + i - 1)
        BY <1>1, <3>1, SubSeqOfSubSeq
      <3>3. 1 + 1 - 1 = 1 /\ 1 + i - 1 = i
        BY <1>2
      <3> QED  BY <3>2, <3>3
    <2> QED  BY <2>1, <2>2
  <1>5. Len(p) # 1 => Parent(p) \in Paths /\ OnTheWay(Parent(p), p)
    <2>1. Len(p) # 1 => Len(p) - 1 \in 1 .. Len(p) /\ Len(p) - 1 \in 1 .. Len(p) - 1
      <3>1. \A n \in Nat \ {0} : n # 1 => n - 1 \in 1 .. n /\ n - 1 \in 1 .. n - 1
        OBVIOUS
      <3> QED  BY <1>2, <3>1
    <2> QED  BY <1>1, <2>1 DEF Parent, OnTheWay
  <1>6. PICK len \in Nat \ {0}, q \in Seq(Nat) : len = Len(p) /\ q = p
    BY <1>1, <1>2
  <1>7. q \in Seq(Nat) /\ Len(q) = len /\ SubSeq(q, 1, len - 1) \in Seq(Nat)
        /\ Len(SubSeq(q, 1, len - 1)) = len - 1
        /\ Append(SubSeq(q, 1, len - 1), q[len]) = q
        /\ (len = 1 => SubSeq(q, 1, len - 1) = <<>>)
    BY <1>6
  <1>8. /\ Append(Parent(p), p[Len(p)]) = p /\ Parent(p) \in Seq(Nat)
        /\ Len(Parent(p)) = Len(p) - 1
        /\ (Len(p) = 1 => Parent(p) = <<>>)
    <2> DEFINE pre == SubSeq(q, 1, len - 1)
    <2>1. Parent(p) = pre /\ p[Len(p)] = q[len] /\ Len(p) = len
      BY <1>6 DEF Parent
    <2>2. pre \in Seq(Nat) /\ Len(pre) = len - 1 /\ Append(pre, q[len]) = q
          /\ (len = 1 => pre = <<>>)
      BY <1>7
    <2> HIDE DEF pre
    <2> QED  BY <1>6, <2>1, <2>2
  <1> QED  BY <1>1, <1>2, <1>3, <1>4, <1>5, <1>8

\* A path on which there are no links names itself.
LEMMA NamesItself ==
    ASSUME NEW files, NEW p \in Seq(Nat),
           \A n \in 1 .. Len(p) : NodeAt(files, SubSeq(p, 1, n)).kind # "link"
    PROVE  Resolve(files, p) = p
  <1> DEFINE len == Len(p)
             part(i) == SubSeq(p, 1, i)
             Q(g) == g = [i \in 0 .. len |->
                            IF i = 0 THEN <<>> ELSE Followed(files, Append(g[i - 1], p[i]))]
             named == CHOOSE g : Q(g)
             straight == [i \in 0 .. len |-> part(i)]
  <1>0. len \in Nat
    OBVIOUS
  <1>1. Resolve(files, p) = named[len]
    BY DEF Resolve
  <1>2. part(0) = <<>> /\ part(len) = p
    OBVIOUS
  <1>3. ASSUME NEW i \in 1 .. len
        PROVE  Followed(files, Append(part(i - 1), p[i])) = part(i)
    <2>1. Append(part(i - 1), p[i]) = part(i)
      OBVIOUS
    <2> HIDE DEF part
    <2>2. NodeAt(files, part(i)).kind # "link"
      BY DEF part
    <2> QED  BY <2>1, <2>2 DEF Followed, Hop
  <1> HIDE DEF part, len
  <1>4. Q(straight)
    <2>1. \A i \in 0 .. len : straight[i] = part(i)
      OBVIOUS
    <2>2. \A i \in 0 .. len : i # 0 => i \in 1 .. len /\ i - 1 \in 0 .. len
      BY <1>0
    <2>3. \A i \in 0 .. len :
             part(i) = IF i = 0 THEN <<>> ELSE Followed(files, Append(straight[i - 1], p[i]))
      BY <1>2, <1>3, <2>1, <2>2
    <2> QED  BY <2>3
  <1>5. Q(named)
    <2> HIDE DEF Q, straight
    <2>1. \E g : Q(g)
      BY <1>4
    <2> QED  BY <2>1
  <1>6. \A i \in 0 .. len :
           named[i] = IF i = 0 THEN <<>> ELSE Followed(files, Append(named[i - 1], p[i]))
    <2> HIDE DEF named
    <2> QED  BY <1>5
  <1> HIDE DEF named, Q, straight
  <1> DEFINE Bad == {i \in 0 .. len : named[i] # part(i)}
  <1>7. Bad = {}
    <2> SUFFICES ASSUME Bad # {} PROVE FALSE
      OBVIOUS
    <2>1. PICK k \in Bad : \A j \in Bad : k <= j
      <3>1. Bad \subseteq Nat
        BY <1>0
      <3> HIDE DEF Bad
      <3> QED  BY <3>1, LeastElement
    <2>2. k \in 0 .. len /\ named[k] # part(k)
      OBVIOUS
    <2>3. k # 0
      BY <1>2, <1>6, <2>2
    <2>4. k \in 1 .. len /\ k - 1 \in 0 .. len /\ ~(k <= k - 1)
      BY <1>0, <2>2, <2>3
    <2>5. named[k - 1] = part(k - 1)
      <3>1. k - 1 \notin Bad
        <4> HIDE DEF Bad
        <4> QED  BY <2>1, <2>4
      <3> QED  BY <2>4, <3>1
    <2> QED  BY <1>3, <1>6, <2>2, <2>3, <2>4, <2>5
  <1>8. named[len] = part(len)
    <2>1. len \in 0 .. len
      BY <1>0
    <2> QED  BY <1>7, <2>1
  <1> QED  BY <1>1, <1>2, <1>8

\* There is no link on the way to p.
Straight(files, p) == \A q \in Paths : OnTheWay(q, p) => files[q].kind # "link"

LEMMA StraightIs ==
    ASSUME NEW files \in [Paths -> Node], NEW p \in Paths, Straight(files, p)
    PROVE  /\ NodeAt(files, p) = files[p]
           /\ Slot(files, p) = p
           /\ files[p].kind # "link" => Resolve(files, p) = p
           /\ Reachable(files, p) <=> Len(p) = 1 \/ files[Parent(p)].kind = "dir"
           /\ \A n \in 1 .. Len(p) - 1 :
                 /\ SubSeq(p, 1, n) \in Paths /\ OnTheWay(SubSeq(p, 1, n), p)
                 /\ Slot(files, SubSeq(p, 1, n)) = SubSeq(p, 1, n)
                 /\ Resolve(files, SubSeq(p, 1, n)) = SubSeq(p, 1, n)
                 /\ NodeAt(files, SubSeq(p, 1, n)) = files[SubSeq(p, 1, n)]
  <1>1. PICK len \in Nat \ {0} : len = Len(p)
    BY Aboves
  <1>2. \A q \in Paths : NodeAt(files, q) = files[q]
    BY ExtractAssumption DEF NodeAt
  <1>3. \A n \in 1 .. len - 1 : n \in 1 .. len /\ SubSeq(p, 1, n) \in Paths
                                /\ OnTheWay(SubSeq(p, 1, n), p)
    BY <1>1, Aboves DEF OnTheWay
  <1>4. \A n \in 1 .. len - 1 : NodeAt(files, SubSeq(p, 1, n)).kind # "link"
    BY <1>2, <1>3 DEF Straight
  <1>5. ASSUME NEW n \in 1 .. len - 1
        PROVE  Resolve(files, SubSeq(p, 1, n)) = SubSeq(p, 1, n)
    <2>1. PICK q : q = SubSeq(p, 1, n)
      OBVIOUS
    <2>2. /\ q \in Seq(Nat) /\ Len(q) = n
          /\ \A i \in 1 .. n : SubSeq(q, 1, i) = SubSeq(p, 1, i)
      <3>1. q \in Paths /\ n \in 1 .. Len(p)
        BY <1>1, <1>3, <2>1
      <3>2. q \in Seq(Nat)
        BY <3>1, ExtractAssumption
      <3>3. /\ Len(SubSeq(p, 1, n)) = n
            /\ \A i \in 1 .. n : SubSeq(SubSeq(p, 1, n), 1, i) = SubSeq(p, 1, i)
        BY <3>1, Aboves
      <3> QED  BY <2>1, <3>2, <3>3
    <2>3. \A i \in 1 .. n : i \in 1 .. len - 1
      BY <1>1
    <2>4. \A i \in 1 .. Len(q) : NodeAt(files, SubSeq(q, 1, i)).kind # "link"
      BY <1>4, <2>2, <2>3
    <2> QED  BY <2>1, <2>2, <2>4, NamesItself
  <1>6. Resolve(files, <<>>) = <<>>
    <2>1. <<>> \in Seq(Nat) /\ \A n \in 1 .. Len(<<>>) : FALSE
      BY EmptySeq
    <2> QED  BY <2>1, NamesItself
  <1>7. ASSUME NEW q \in Paths, Resolve(files, Parent(q)) = Parent(q)
        PROVE  Slot(files, q) = q
    BY <1>7, Aboves DEF Slot
  <1>8. Resolve(files, Parent(p)) = Parent(p)
    <2>1. CASE len = 1
      BY <1>1, <1>6, <2>1, Aboves
    <2>2. CASE len # 1
      <3>1. len - 1 \in 1 .. len - 1
        BY <1>1, <2>2
      <3> QED  BY <1>1, <1>5, <3>1 DEF Parent
    <2> QED  BY <2>1, <2>2
  <1>9. ASSUME NEW n \in 1 .. len - 1
        PROVE  Slot(files, SubSeq(p, 1, n)) = SubSeq(p, 1, n)
    <2>1. PICK q \in Paths : q = SubSeq(p, 1, n)
      BY <1>3
    <2>2. Len(q) = n
      BY <1>1, <1>3, <2>1, Aboves
    <2>3. CASE n = 1
      <3>1. Parent(q) = <<>>
        BY <2>2, <2>3, Aboves
      <3> QED  BY <1>6, <1>7, <2>1, <3>1
    <2>4. CASE n # 1
      <3>1. n - 1 \in 1 .. len - 1 /\ n - 1 \in 1 .. n
        BY <1>1, <2>4
      <3>2. Parent(q) = SubSeq(p, 1, n - 1)
        <4>1. SubSeq(q, 1, n - 1) = SubSeq(p, 1, n - 1)
          BY <1>1, <1>3, <2>1, <3>1, Aboves
        <4> QED  BY <2>2, <4>1 DEF Parent
      <3> QED  BY <1>5, <1>7, <2>1, <3>1, <3>2
    <2> QED  BY <2>3, <2>4
  <1>10. ASSUME files[p].kind # "link" PROVE Resolve(files, p) = p
    <2>1. \A n \in 1 .. len : n \in 1 .. len - 1 \/ n = len
      BY <1>1
    <2>2. \A n \in 1 .. len : NodeAt(files, SubSeq(p, 1, n)).kind # "link"
      <3>1. NodeAt(files, SubSeq(p, 1, len)).kind # "link"
        <4>1. SubSeq(p, 1, len) = p
          BY <1>1, Aboves
        <4> QED  BY <1>2, <1>10, <4>1
      <3> QED  BY <1>4, <2>1, <3>1
    <2> QED  BY <1>1, <2>2, Aboves, NamesItself
  <1>11. Reachable(files, p) <=> Len(p) = 1 \/ files[Parent(p)].kind = "dir"
    <2>1. CASE len = 1
      <3>1. NodeAt(files, <<>>) = Dir
        BY Aboves DEF NodeAt
      <3> QED  BY <1>1, <2>1, <3>1, Aboves, NodesAre DEF Reachable
    <2>2. CASE len # 1
      BY <1>1, <1>2, <2>2, Aboves DEF Reachable
    <2> QED  BY <2>1, <2>2
  <1> QED  BY <1>1, <1>2, <1>3, <1>5, <1>7, <1>8, <1>9, <1>10, <1>11

-----------------------------------------------------------------------------
(* Extraction: what the calls do                                           *)

LEMMA CallsAreTyped ==
    ASSUME NEW files \in [Paths -> Node], NEW e \in Entry, NEW node \in Node
    PROVE  /\ MakeNew(files, e.path, node) \in [Paths -> Node]
           /\ Chmod(files, e) \in [Paths -> Node]
           /\ Dump(files, e) \in [Paths -> Node]
           /\ fs = files => WithParents(e.path) \in [Paths -> Node]
  <1>1. MakeNew(files, e.path, node) \in [Paths -> Node]
    BY DEF MakeNew
  <1>2. \A q : NodeAt(files, q).kind \in {"file"} => q \in Paths /\ files[q] \in Node
                                                     /\ files[q].kind = "file"
    BY DEF NodeAt, Dir
  <1>3. e.mode \in BOOLEAN /\ e.size \in Nat /\ e.body \in Nat
    BY DEF Entry
  <1>4. Chmod(files, e) \in [Paths -> Node]
    <2> DEFINE q == Slot(files, e.path)
    <2>1. CASE NodeAt(files, q).kind = "file"
      <3>1. files[q] \in [kind : {"file"}, body : Nat, size : Nat, stale : Nat, mode : BOOLEAN]
        BY <1>2, <2>1, NodeKinds
      <3>2. [files[q] EXCEPT !.mode = e.mode] \in Node
        BY <1>3, <3>1 DEF Node
      <3> HIDE DEF q
      <3> QED  BY <2>1, <3>2 DEF Chmod, q
    <2>2. CASE NodeAt(files, q).kind # "file"
      BY <2>2 DEF Chmod
    <2> QED  BY <2>1, <2>2
  <1>5. Dump(files, e) \in [Paths -> Node]
    <2> DEFINE q == Resolve(files, e.path)
               new == [kind |-> "file", body |-> e.body, size |-> e.size,
                       stale |-> Left(files[q], e), mode |-> e.mode]
    <2>1. CASE Opens(files, q)
      <3>1. q \in Paths
        BY <2>1 DEF Opens, NodeAt, Dir
      <3> HIDE DEF q
      <3>2. Left(files[q], e) \in Nat
        <4>1. files[q] \in Node
          BY <3>1
        <4>2. files[q].kind = "file" => files[q].size \in Nat /\ files[q].stale \in Nat
          BY <4>1, NodeKinds
        <4> QED  BY <1>3, <4>2 DEF Left
      <3>3. new \in Node
        BY <1>3, <3>2 DEF Node
      <3>4. Dump(files, e) = [files EXCEPT ![q] = new]
        BY <2>1 DEF Dump, q
      <3> HIDE DEF new
      <3> QED  BY <3>3, <3>4
    <2>2. CASE ~Opens(files, q)
      BY <2>2 DEF Dump
    <2> QED  BY <2>1, <2>2
  <1>6. fs = files => WithParents(e.path) \in [Paths -> Node]
    BY NodesAre DEF WithParents
  <1> QED  BY <1>1, <1>4, <1>5, <1>6

\* Where only directories are on the way, all of them are there afterwards, and
\* nothing else has changed.
LEMMA ParentsAre ==
    ASSUME NEW p \in Paths, fs \in [Paths -> Node],
           \A q \in Paths : OnTheWay(q, p) => fs[q].kind \in {"absent", "dir"}
    PROVE  /\ \A q \in Paths : WithParents(p)[q] =
                                 IF OnTheWay(q, p) /\ fs[q].kind = "absent" THEN Dir ELSE fs[q]
           /\ \A q \in Paths : OnTheWay(q, p) => WithParents(p)[q].kind = "dir"
           /\ Straight(WithParents(p), p)
           /\ WithParents(p)[p] = fs[p]
  <1> DEFINE above(i) == SubSeq(p, 1, i)
             goesOn(i) == \/ NodeAt(fs, Slot(fs, above(i))).kind = "absent"
                          \/ NodeAt(fs, Resolve(fs, above(i))).kind = "dir"
             reached == {n \in 1 .. Len(p) - 1 : \A j \in 1 .. n : goesOn(j)}
             made == {Slot(fs, above(i)) : i \in reached}
             w == WithParents(p)
  <1>1. w = [q \in Paths |-> IF q \in made /\ fs[q].kind = "absent" THEN Dir ELSE fs[q]]
    BY DEF WithParents
  <1>2. Straight(fs, p)
    BY DEF Straight
  <1>3. \A n \in 1 .. Len(p) - 1 :
           /\ above(n) \in Paths /\ OnTheWay(above(n), p)
           /\ Slot(fs, above(n)) = above(n) /\ Resolve(fs, above(n)) = above(n)
           /\ NodeAt(fs, above(n)) = fs[above(n)]
    BY <1>2, StraightIs
  <1> HIDE DEF above
  <1>4. \A n \in 1 .. Len(p) - 1 : goesOn(n)
    BY <1>3
  <1>5. reached = 1 .. Len(p) - 1
    <2>1. Len(p) \in Nat
      BY Aboves
    <2>2. \A n \in 1 .. Len(p) - 1 : \A j \in 1 .. n : j \in 1 .. Len(p) - 1
      BY <2>1
    <2> HIDE DEF goesOn
    <2> QED  BY <1>4, <2>2
  <1> HIDE DEF reached
  <1>6. \A q : q \in made <=> OnTheWay(q, p)
    BY <1>3, <1>5 DEF OnTheWay, above
  <1> HIDE DEF made, w
  <1>7. \A q \in Paths : w[q] = IF OnTheWay(q, p) /\ fs[q].kind = "absent" THEN Dir ELSE fs[q]
    BY <1>1, <1>6
  <1>8. \A q \in Paths : OnTheWay(q, p) => w[q].kind = "dir"
    BY <1>7, NodesAre
  <1>9. ~OnTheWay(p, p)
    <2> SUFFICES ASSUME NEW n \in 1 .. Len(p) - 1, p = SubSeq(p, 1, n) PROVE FALSE
      BY DEF OnTheWay
    <2>1. PICK len \in Nat \ {0} : len = Len(p)
      BY Aboves
    <2>2. n \in 1 .. Len(p) /\ n # len
      BY <2>1
    <2>3. Len(SubSeq(p, 1, n)) = n
      BY <2>2, Aboves
    <2> QED  BY <2>1, <2>2, <2>3
  <1> QED  BY <1>7, <1>8, <1>9 DEF Straight, w

\* What a call changes: the place itself, or absent places on the way to it.
Changes(p, new) ==
    \A q \in Paths : \/ new[q] = fs[q]
                     \/ fs[q].kind = "absent" /\ new[q] = Dir /\ OnTheWay(q, p)
                     \/ q = p

\* mkdir and symlink where there is no link on the way.
LEMMA NewIs ==
    ASSUME NEW p \in Paths, NEW files \in [Paths -> Node], NEW node \in Node, Straight(files, p)
    PROVE  /\ \A q \in Paths : q # p => MakeNew(files, p, node)[q] = files[q]
           /\ \/ MakeNew(files, p, node)[p] = files[p]
              \/ files[p].kind = "absent" /\ MakeNew(files, p, node)[p] = node
           /\ files[p].kind = "absent"
                /\ (Len(p) = 1 \/ files[Parent(p)].kind = "dir")
              => MakeNew(files, p, node)[p] = node
  <1>1. /\ Slot(files, p) = p /\ NodeAt(files, p) = files[p]
        /\ Reachable(files, p) <=> Len(p) = 1 \/ files[Parent(p)].kind = "dir"
    BY StraightIs
  <1>2. CASE files[p].kind = "absent" /\ Reachable(files, p)
    <2>1. MakeNew(files, p, node) = [files EXCEPT ![p] = node]
      BY <1>1, <1>2 DEF MakeNew
    <2> QED  BY <1>2, <2>1
  <1>3. CASE ~(files[p].kind = "absent" /\ Reachable(files, p))
    <2>1. MakeNew(files, p, node) = files
      BY <1>1, <1>3 DEF MakeNew
    <2> QED  BY <1>1, <1>3, <2>1
  <1> QED  BY <1>2, <1>3

Written(e) == [kind |-> "file", body |-> e.body, size |-> e.size, stale |-> 0, mode |-> e.mode]

\* A file over nothing, or over one that is not longer and may be written.
LEMMA DumpIs ==
    ASSUME NEW e \in Entry, NEW files \in [Paths -> Node], Straight(files, e.path),
           e.type \in {"reg", "other"}, Replaceable(files[e.path], e),
           Len(e.path) = 1 \/ files[Parent(e.path)].kind = "dir"
    PROVE  /\ \A q \in Paths : q # e.path => Dump(files, e)[q] = files[q]
           /\ Dump(files, e)[e.path] = Written(e)
  <1> DEFINE p == e.path
  <1>1. /\ p \in Paths /\ files[p] \in Node /\ e.size \in Nat /\ e.body \in Nat /\ e.mode \in BOOLEAN
    BY DEF Entry
  <1>2. files[p].kind \in {"absent", "file"} /\ (files[p].kind = "file" => files[p].mode)
    BY DEF Replaceable
  <1>3. NodeAt(files, p) = files[p] /\ Resolve(files, p) = p /\ Reachable(files, p)
    BY <1>1, <1>2, StraightIs
  <1>4. Opens(files, p)
    BY <1>2, <1>3 DEF Opens
  <1>5. Left(files[p], e) = 0
    <2>1. CASE files[p].kind = "absent"
      BY <2>1 DEF Left
    <2>2. CASE files[p].kind = "file"
      <3>1. /\ files[p].size + files[p].stale <= e.size
            /\ files[p].size \in Nat /\ files[p].stale \in Nat
        BY <1>1, <2>2, NodeKinds DEF Replaceable
      <3>2. ~(files[p].size + files[p].stale > e.size)
        BY <1>1, <3>1
      <3> QED  BY <3>2 DEF Left
    <2> QED  BY <1>2, <2>1, <2>2
  <1>6. Dump(files, e) = [files EXCEPT ![p] = Written(e)]
    BY <1>3, <1>4, <1>5 DEF Dump, Written
  <1> QED  BY <1>1, <1>6

-----------------------------------------------------------------------------
(* Extraction: what was there, entry by entry                              *)

\* An entry makes a directory: its own, or one on the way to it.
MakesDir(e, p) == (e.type = "dir" /\ p = e.path) \/ OnTheWay(p, e.path)

\* What is there was there before, or was made for an entry that was extracted.
Originates ==
    \A p \in Paths :
        \/ fs[p] = unpacking.files[p]
        \/ fs[p] = Dir /\ \E i \in Seen : MakesDir(unpacking.entries[i], p)
        \/ \E i \in Seen : unpacking.entries[i].type # "dir" /\ unpacking.entries[i].path = p

Due(e) == ~Alone(e) \/ TopDown

SeenAreThere == \A i \in Seen : Due(unpacking.entries[i]) => There(unpacking.entries[i])

ExtractInv ==
    /\ extractor \in {"extracting", "done"} /\ unpacking \in Unpackings
    /\ current \in 1 .. Len(unpacking.entries) + 1
    /\ fs \in [Paths -> Node]
    /\ Sane => Originates /\ SeenAreThere

LEMMA UnpackingIs ==
    ASSUME unpacking \in Unpackings
    PROVE  /\ unpacking.entries \in Seq(Entry) /\ Len(unpacking.entries) \in Nat
           /\ unpacking.files \in [Paths -> Node]
           /\ DOMAIN unpacking.entries = 1 .. Len(unpacking.entries)
           /\ \A i \in 1 .. Len(unpacking.entries) :
                /\ unpacking.entries[i] \in Entry /\ unpacking.entries[i].path \in Paths
                /\ unpacking.entries[i].type \in {"dir", "reg", "link", "other"}
  <1>1. unpacking.entries \in Seq(Entry) /\ unpacking.files \in [Paths -> Node]
    BY ExtractAssumption
  <1>3. Len(unpacking.entries) \in Nat /\ DOMAIN unpacking.entries = 1 .. Len(unpacking.entries)
    BY <1>1
  <1>4. ASSUME NEW i \in 1 .. Len(unpacking.entries) PROVE unpacking.entries[i] \in Entry
    BY <1>1
  <1> QED  BY <1>1, <1>3, <1>4 DEF Entry

\* Passing over an entry, or changing no more than the entry asks for, keeps what was
\* extracted before.
LEMMA StepIsExact ==
    ASSUME NEW e, e = entry, ExtractInv, Extracting, NextEntry, Sane,
           \A p \in Paths :
              \/ fs'[p] = fs[p]
              \/ /\ Extracted(entry)
                 /\ \/ fs[p].kind = "absent" /\ fs'[p] = Dir /\ MakesDir(entry, p)
                    \/ entry.type # "dir" /\ p = entry.path,
           Extracted(entry) /\ Due(entry) => There(e)'
    PROVE  Originates' /\ SeenAreThere'
  <1>0. Originates /\ SeenAreThere
    BY DEF ExtractInv
  <1>1. /\ unpacking' = unpacking /\ current' = current + 1
        /\ current \in 1 .. Len(unpacking.entries) /\ Len(unpacking.entries) \in Nat
        /\ DOMAIN unpacking.entries = 1 .. Len(unpacking.entries)
    BY UnpackingIs DEF NextEntry, Extracting, ExtractInv
  <1>2. \A i : i \in Seen' <=> i \in Seen \/ (i = current /\ Extracted(entry))
    <2>1. \A i \in 1 .. Len(unpacking.entries) : i < current + 1 <=> i < current \/ i = current
      BY <1>1
    <2> QED  BY <1>1, <2>1 DEF Seen, Extracted, entry
  <1>3. Originates'
    <2>1. SUFFICES ASSUME NEW p \in Paths, fs'[p] # unpacking.files[p]
                   PROVE  \/ fs'[p] = Dir /\ \E i \in Seen' : MakesDir(unpacking.entries[i], p)
                          \/ \E i \in Seen' : /\ unpacking.entries[i].type # "dir"
                                              /\ unpacking.entries[i].path = p
      BY <1>1 DEF Originates
    <2>2. CASE fs'[p] = fs[p]
      <3>1. \/ fs[p] = Dir /\ \E i \in Seen : MakesDir(unpacking.entries[i], p)
            \/ \E i \in Seen : unpacking.entries[i].type # "dir" /\ unpacking.entries[i].path = p
        BY <1>0, <2>1, <2>2 DEF Originates
      <3> QED  BY <1>2, <2>2, <3>1
    <2>3. CASE fs'[p] # fs[p]
      BY <1>2, <2>3 DEF entry
    <2> QED  BY <2>2, <2>3
  <1>4. ASSUME NEW i \in Seen, Due(unpacking.entries[i]) PROVE There(unpacking.entries[i])'
    <2>0. PICK old : old = unpacking.entries[i]
      OBVIOUS
    <2>1. i \in 1 .. Len(unpacking.entries) /\ i # current /\ There(old)
      BY <1>0, <1>1, <1>4, <2>0 DEF Seen, SeenAreThere
    <2>2. old \in Entry /\ old.path \in Paths
      BY <2>0, <2>1, UnpackingIs DEF ExtractInv
    <2>3. old.path # entry.path
      BY <1>1, <2>0, <2>1 DEF Sane, entry
    <2>4. fs[old.path].kind # "absent"
      BY <2>1, <2>2, NodesAre DEF There
    <2>5. fs'[old.path] = fs[old.path]
      <3>1. CASE entry.type # "dir"
        BY <2>2, <2>3, <2>4
      <3>2. CASE entry.type = "dir"
        BY <2>2, <2>3, <2>4, <3>2
      <3> QED  BY <3>1, <3>2
    <2>6. There(old)' <=> There(old)
      BY <2>5 DEF There
    <2> QED  BY <1>1, <2>0, <2>1, <2>6
  <1>5. ASSUME NEW i \in Seen', Due(unpacking.entries[i])' PROVE There(unpacking.entries[i])'
    <2>0. Due(unpacking.entries[i])
      BY <1>1, <1>5 DEF Due, Alone, TopDown, Extracted
    <2>1. CASE i \in Seen
      BY <1>4, <2>0, <2>1
    <2>2. CASE i = current /\ Extracted(entry)
      <3>1. unpacking'.entries[i] = e
        BY <1>1, <2>2 DEF entry
      <3> QED  BY <2>0, <2>2, <3>1 DEF entry
    <2> QED  BY <1>2, <2>1, <2>2
  <1> QED  BY <1>3, <1>5 DEF SeenAreThere

\* When an entry's turn comes only directories are on the way to it, and what is at
\* its place can be replaced.
LEMMA NothingInTheWay ==
    ASSUME ExtractInv, Extracting, Sane
    PROVE  /\ entry \in Entry /\ entry.path \in Paths
           /\ Replaceable(fs[entry.path], entry)
           /\ \A q \in Paths : OnTheWay(q, entry.path) => fs[q].kind \in {"absent", "dir"}
  <1> DEFINE es == unpacking.entries
  <1>1. /\ current \in 1 .. Len(es) /\ DOMAIN es = 1 .. Len(es)
        /\ entry = es[current] /\ entry \in Entry /\ entry.path \in Paths
        /\ \A i \in Seen : i \in 1 .. Len(es) /\ i # current
    BY UnpackingIs DEF Extracting, ExtractInv, entry, Seen
  <1>2. /\ \A i, j \in DOMAIN es : i # j => es[i].path # es[j].path
        /\ \A i, j \in DOMAIN es : es[i].type # "dir" => ~OnTheWay(es[i].path, es[j].path)
        /\ \A i \in DOMAIN es : Replaceable(unpacking.files[es[i].path], es[i])
        /\ \A i \in DOMAIN es, q \in Paths :
             OnTheWay(q, es[i].path) => unpacking.files[q].kind \in {"absent", "dir"}
    BY DEF Sane
  <1>3. Originates
    BY DEF ExtractInv
  <1>4. Replaceable(fs[entry.path], entry)
    <2>1. CASE fs[entry.path] = unpacking.files[entry.path]
      BY <1>1, <1>2, <2>1
    <2>2. CASE fs[entry.path] = Dir /\ \E i \in Seen : MakesDir(es[i], entry.path)
      <3>1. PICK i \in Seen : MakesDir(es[i], entry.path)
        BY <2>2
      <3>2. es[i].path # entry.path /\ (entry.type # "dir" => ~OnTheWay(entry.path, es[i].path))
        BY <1>1, <1>2
      <3>3. entry.type = "dir"
        BY <3>1, <3>2 DEF MakesDir
      <3> QED  BY <2>2, <3>3, NodesAre DEF Replaceable
    <2>3. ASSUME NEW i \in Seen, es[i].path = entry.path PROVE FALSE
      BY <1>1, <1>2, <2>3
    <2> QED  BY <1>1, <1>3, <2>1, <2>2, <2>3 DEF Originates
  <1>5. ASSUME NEW q \in Paths, OnTheWay(q, entry.path)
        PROVE  fs[q].kind \in {"absent", "dir"}
    <2>1. CASE fs[q] = unpacking.files[q]
      BY <1>1, <1>2, <1>5, <2>1
    <2>2. CASE fs[q] = Dir
      BY <2>2, NodesAre
    <2>3. ASSUME NEW i \in Seen, es[i].type # "dir", es[i].path = q PROVE FALSE
      BY <1>1, <1>2, <1>5, <2>3
    <2> QED  BY <1>3, <2>1, <2>2, <2>3 DEF Originates
  <1> QED  BY <1>1, <1>4, <1>5

LEMMA EntryIs ==
    ASSUME ExtractInv, Extracting
    PROVE  /\ entry \in Entry /\ entry.path \in Paths
           /\ fs \in [Paths -> Node]
           /\ NextEntry => /\ current' \in 1 .. Len(unpacking'.entries) + 1
                           /\ unpacking' \in Unpackings /\ extractor' = "extracting"
                           /\ Sane' <=> Sane
  <1>1. entry \in Entry /\ entry.path \in Paths /\ current \in 1 .. Len(unpacking.entries)
    BY UnpackingIs DEF ExtractInv, Extracting, entry
  <1>2. ASSUME NextEntry
        PROVE  /\ current' \in 1 .. Len(unpacking'.entries) + 1
               /\ unpacking' \in Unpackings /\ extractor' = "extracting"
               /\ Sane' <=> Sane
    <2>1. unpacking' = unpacking /\ current' = current + 1 /\ extractor' = extractor
      BY <1>2 DEF NextEntry
    <2>2. Sane' <=> Sane
      BY <2>1 DEF Sane
    <2>3. Len(unpacking.entries) \in Nat
      BY UnpackingIs DEF ExtractInv
    <2> QED  BY <1>1, <2>1, <2>2, <2>3 DEF ExtractInv, Extracting
  <1> QED  BY <1>1, <1>2 DEF ExtractInv

\* An archive that goes from the outside inwards has made what is above an entry that
\* makes nothing above it.
LEMMA MadeBefore ==
    ASSUME ExtractInv, Extracting, Sane, Extracted(entry), Alone(entry), TopDown
    PROVE  Len(entry.path) = 1 \/ fs[Parent(entry.path)].kind = "dir"
  <1> SUFFICES ASSUME Len(entry.path) # 1 PROVE fs[Parent(entry.path)].kind = "dir"
    OBVIOUS
  <1>1. current \in DOMAIN unpacking.entries /\ current \in 1 .. Len(unpacking.entries)
    BY UnpackingIs DEF ExtractInv, Extracting
  <1>2. PICK q \in Paths : q = Parent(entry.path) /\ OnTheWay(q, entry.path)
    BY EntryIs, Aboves
  <1>3. PICK j \in DOMAIN unpacking.entries :
           /\ j < current /\ unpacking.entries[j].path = q
           /\ unpacking.entries[j].type = "dir" /\ Extracted(unpacking.entries[j])
    BY <1>1, <1>2 DEF TopDown, entry
  <1>4. There(unpacking.entries[j])
    BY <1>3 DEF ExtractInv, SeenAreThere, Seen, Due
  <1> QED  BY <1>2, <1>3, <1>4, NodesAre DEF There

\* A directory, or a link of a YAA archive, is made.
LEMMA AloneKeeps ==
    ASSUME ExtractInv, Extracting, NextEntry, Extracted(entry), Alone(entry),
           NEW node \in Node, fs' = MakeNew(fs, entry.path, node),
           \/ entry.type = "dir" /\ node = Dir
           \/ entry.type = "link" /\ node = Link(entry)
    PROVE  ExtractInv'
  <1>1. entry \in Entry /\ entry.path \in Paths /\ fs \in [Paths -> Node]
    BY EntryIs
  <1>2. fs' \in [Paths -> Node]
    BY <1>1, CallsAreTyped
  <1>3. ASSUME Sane PROVE Originates' /\ SeenAreThere'
    <2>1. PICK p \in Paths : p = entry.path
      BY <1>1
    <2>2. /\ Replaceable(fs[p], entry) /\ Straight(fs, p)
      BY <1>3, <2>1, NothingInTheWay DEF Straight
    <2>3. /\ \A q \in Paths : q # p => fs'[q] = fs[q]
          /\ fs'[p] = fs[p] \/ (fs[p].kind = "absent" /\ fs'[p] = node)
          /\ fs[p].kind = "absent" /\ (Len(p) = 1 \/ fs[Parent(p)].kind = "dir") => fs'[p] = node
      BY <1>1, <2>1, <2>2, NewIs
    <2>4. PICK e : e = entry
      OBVIOUS
    <2>5. ASSUME Due(entry) PROVE fs'[p] = node
      <3>1. Len(p) = 1 \/ fs[Parent(p)].kind = "dir"
        BY <1>3, <2>1, <2>5, MadeBefore DEF Due
      <3>2. CASE fs[p].kind = "absent"
        BY <2>3, <3>1, <3>2
      <3>3. CASE fs[p].kind # "absent"
        <4>1. entry.type = "dir" /\ fs[p].kind = "dir"
          BY <2>2, <3>3 DEF Replaceable
        <4>2. fs[p] = Dir
          BY <1>1, <4>1, NodeKinds
        <4> QED  BY <2>3, <3>3, <4>1, <4>2
      <3> QED  BY <3>2, <3>3
    <2>6. Due(entry) => There(e)'
      BY <2>1, <2>4, <2>5 DEF There, Link
    <2>7. \A q \in Paths :
              \/ fs'[q] = fs[q]
              \/ /\ Extracted(entry)
                 /\ \/ fs[q].kind = "absent" /\ fs'[q] = Dir /\ MakesDir(entry, q)
                    \/ entry.type # "dir" /\ q = entry.path
      BY <2>1, <2>3 DEF MakesDir
    <2> QED  BY <1>3, <2>4, <2>6, <2>7, StepIsExact
  <1> QED  BY <1>2, <1>3, EntryIs DEF ExtractInv

\* A link of a legacy archive or a file is made, after the directories above it.
LEMMA BehindParents ==
    ASSUME NEW e, e = entry, ExtractInv, Extracting, NextEntry, Extracted(entry),
           entry.type # "dir", NEW w, w = WithParents(entry.path),
           fs' \in [Paths -> Node],
           /\ Straight(w, entry.path) /\ Replaceable(w[entry.path], entry)
           /\ Len(entry.path) = 1 \/ w[Parent(entry.path)].kind = "dir"
           => There(e)' /\ \A q \in Paths : q # entry.path => fs'[q] = w[q]
    PROVE  ExtractInv'
  <1>1. ASSUME Sane PROVE Originates' /\ SeenAreThere'
    <2>1. PICK p \in Paths : p = entry.path
      BY EntryIs
    <2>2. /\ Replaceable(fs[p], entry)
          /\ \A q \in Paths : OnTheWay(q, p) => fs[q].kind \in {"absent", "dir"}
      BY <1>1, <2>1, NothingInTheWay
    <2>3. /\ \A q \in Paths : w[q] = IF OnTheWay(q, p) /\ fs[q].kind = "absent" THEN Dir ELSE fs[q]
          /\ \A q \in Paths : OnTheWay(q, p) => w[q].kind = "dir"
          /\ Straight(w, p) /\ w[p] = fs[p]
      BY <2>1, <2>2, EntryIs, ParentsAre
    <2>4. Len(p) = 1 \/ w[Parent(p)].kind = "dir"
      BY <2>3, Aboves
    <2>5. There(e)' /\ \A q \in Paths : q # p => fs'[q] = w[q]
      BY <2>1, <2>2, <2>3, <2>4
    <2>6. \A q \in Paths :
              \/ fs'[q] = fs[q]
              \/ /\ Extracted(entry)
                 /\ \/ fs[q].kind = "absent" /\ fs'[q] = Dir /\ MakesDir(entry, q)
                    \/ entry.type # "dir" /\ q = entry.path
      BY <2>1, <2>3, <2>5 DEF MakesDir
    <2> QED  BY <1>1, <2>5, <2>6, StepIsExact
  <1> QED  BY <1>1, EntryIs DEF ExtractInv

LEMMA LinkKeeps ==
    ASSUME ExtractInv, ExtractLink
    PROVE  ExtractInv'
  <1>0. PICK e, p, w : e = entry /\ p = entry.path /\ w = WithParents(entry.path)
    OBVIOUS
  <1>1. /\ Extracting /\ NextEntry /\ Extracted(entry) /\ entry.type = "link"
        /\ fs' = Chmod(MakeNew(w, p, Link(e)), e)
    BY <1>0 DEF ExtractLink
  <1>2. e \in Entry /\ p \in Paths /\ fs \in [Paths -> Node] /\ Link(e) \in Node
    BY <1>0, <1>1, EntryIs, NodesAre
  <1>3. w \in [Paths -> Node]
    BY <1>0, <1>2, CallsAreTyped
  <1>4. PICK new \in [Paths -> Node] : new = MakeNew(w, p, Link(e))
    BY <1>0, <1>2, <1>3, CallsAreTyped
  <1>5. fs' \in [Paths -> Node]
    BY <1>1, <1>2, <1>4, CallsAreTyped
  <1>6. ASSUME Straight(w, p), Replaceable(w[p], entry), Len(p) = 1 \/ w[Parent(p)].kind = "dir"
        PROVE  There(e)' /\ \A q \in Paths : q # p => fs'[q] = w[q]
    <2>1. w[p].kind = "absent"
      BY <1>1, <1>6 DEF Replaceable
    <2>2. /\ \A q \in Paths : q # p => new[q] = w[q]
          /\ new[p] = Link(e)
      BY <1>2, <1>3, <1>4, <1>6, <2>1, NewIs
    <2>3. Straight(new, p)
      <3>1. \A q \in Paths : OnTheWay(q, p) => new[q].kind # "link" \/ q = p
        BY <1>6, <2>2 DEF Straight
      <3>2. ~OnTheWay(p, p)
        <4> SUFFICES ASSUME NEW n \in 1 .. Len(p) - 1, p = SubSeq(p, 1, n) PROVE FALSE
          BY DEF OnTheWay
        <4>1. PICK len \in Nat \ {0} : len = Len(p)
          BY <1>2, Aboves
        <4>2. n \in 1 .. Len(p) /\ n # len
          BY <4>1
        <4>3. Len(SubSeq(p, 1, n)) = n
          BY <1>2, <4>2, Aboves
        <4> QED  BY <4>1, <4>2, <4>3
      <3> QED  BY <3>1, <3>2 DEF Straight
    <2>4. NodeAt(new, Slot(new, p)).kind = "link"
      BY <1>2, <2>2, <2>3, NodesAre, StraightIs
    <2>5. fs' = new
      BY <1>0, <1>1, <1>4, <2>4 DEF Chmod
    <2>6. There(e)'
      BY <1>0, <1>1, <2>2, <2>5 DEF There, Link
    <2> QED  BY <2>2, <2>5, <2>6
  <1> QED  BY <1>0, <1>1, <1>5, <1>6, BehindParents

LEMMA FileKeeps ==
    ASSUME ExtractInv, ExtractFile
    PROVE  ExtractInv'
  <1>0. PICK e, p, w : e = entry /\ p = entry.path /\ w = WithParents(entry.path)
    OBVIOUS
  <1>1. /\ Extracting /\ NextEntry /\ Extracted(entry) /\ entry.type \in {"reg", "other"}
        /\ fs' = Dump(w, e)
    BY <1>0 DEF ExtractFile
  <1>2. e \in Entry /\ p \in Paths /\ fs \in [Paths -> Node]
    BY <1>0, <1>1, EntryIs
  <1>3. w \in [Paths -> Node] /\ Dir \in Node
    BY <1>0, <1>2, CallsAreTyped, NodesAre
  <1>4. fs' \in [Paths -> Node]
    BY <1>1, <1>2, <1>3, CallsAreTyped
  <1>5. ASSUME Straight(w, p), Replaceable(w[p], entry), Len(p) = 1 \/ w[Parent(p)].kind = "dir"
        PROVE  There(e)' /\ \A q \in Paths : q # p => fs'[q] = w[q]
    <2>1. /\ \A q \in Paths : q # e.path => Dump(w, e)[q] = w[q]
          /\ Dump(w, e)[e.path] = Written(e)
      BY <1>0, <1>1, <1>2, <1>3, <1>5, DumpIs
    <2>2. There(e)'
      BY <1>0, <1>1, <2>1 DEF There, Written
    <2> QED  BY <1>0, <1>1, <2>1, <2>2
  <1> QED  BY <1>0, <1>1, <1>4, <1>5, BehindParents

LEMMA ExtractKeeps == ExtractInv /\ [ExtractNext]_extractVars => ExtractInv'
  <1> SUFFICES ASSUME ExtractInv, [ExtractNext]_extractVars PROVE ExtractInv'
    OBVIOUS
  <1>1. CASE PassOver
    <2>1. Extracting /\ NextEntry /\ ~Extracted(entry) /\ fs' = fs
      BY <1>1 DEF PassOver
    <2>2. Sane => Originates' /\ SeenAreThere'
      BY <2>1, StepIsExact
    <2> QED  BY <2>1, <2>2, EntryIs DEF ExtractInv
  <1>2. CASE ExtractDir
    BY <1>2, AloneKeeps, NodesAre DEF ExtractDir, Alone
  <1>3. CASE ExtractLink
    BY <1>3, LinkKeeps
  <1>4. CASE ExtractYaaLink
    <2>1. Extracting /\ NextEntry /\ Extracted(entry) /\ Alone(entry) /\ entry.type = "link"
          /\ fs' = MakeNew(fs, entry.path, Link(entry))
      BY <1>4 DEF ExtractYaaLink, Extracted, Alone
    <2>2. Link(entry) \in Node
      BY <2>1, EntryIs, NodesAre
    <2> QED  BY <2>1, <2>2, AloneKeeps
  <1>5. CASE ExtractFile
    BY <1>5, FileKeeps
  <1>6. CASE ExtractEnd \/ UNCHANGED extractVars
    <2>1. UNCHANGED <<unpacking, current, fs>> /\ extractor' \in {"extracting", "done"}
      BY <1>6 DEF ExtractEnd, extractVars, ExtractInv
    <2>2. (Sane' <=> Sane) /\ Seen' = Seen
      <3>1. Sane' <=> Sane
        BY <2>1 DEF Sane
      <3>2. Seen' = Seen
        BY <2>1 DEF Seen, Extracted
      <3> QED  BY <3>1, <3>2
    <2>3. Originates' <=> Originates
      BY <2>1, <2>2 DEF Originates
    <2>4. SeenAreThere' <=> SeenAreThere
      <3>1. \A e : There(e)' <=> There(e)
        BY <2>1 DEF There
      <3>2. \A e : Due(e)' <=> Due(e)
        BY <2>1 DEF Due, Alone, TopDown, Extracted
      <3> QED  BY <2>1, <2>2, <3>1, <3>2 DEF SeenAreThere
    <2> QED  BY <2>1, <2>2, <2>3, <2>4 DEF ExtractInv
  <1> QED  BY <1>1, <1>2, <1>3, <1>4, <1>5, <1>6 DEF ExtractNext

LEMMA ExtractInvariant == ExtractSpec => []ExtractInv
  <1>1. ExtractInit => ExtractInv
    <2> SUFFICES ASSUME ExtractInit PROVE ExtractInv
      OBVIOUS
    <2>1. Seen = {}
      BY UnpackingIs DEF ExtractInit, Seen
    <2>2. Originates /\ SeenAreThere
      BY <2>1 DEF ExtractInit, Originates, SeenAreThere
    <2> QED  BY <2>2, UnpackingIs DEF ExtractInit, ExtractInv
  <1> QED  BY <1>1, ExtractKeeps, PTL DEF ExtractSpec

\* Unpacked over nothing that is in its way (lines 176-242, 848-857 and 1060), an
\* archive of either kind leaves every entry it extracts with its own content and no
\* tail of an older one, in whatever order the entries come: all directories above
\* a file are made for it.  Directories and links of YAA archives, for which none
\* are made, are there if the archive goes from the outside inwards.
THEOREM FreshFilesAreExact == ExtractSpec => []FreshIsExact
  <1>1. ExtractInv => FreshIsExact
    BY DEF ExtractInv, FreshIsExact, SeenAreThere, Due
  <1> QED  BY <1>1, ExtractInvariant, PTL

-----------------------------------------------------------------------------
(* doDiff                                                                  *)

\* One more entry moves the place by its size.
LEMMA PlacesStep ==
    ASSUME NEW f \in DiffArchive
    PROVE  \A k \in 1 .. Len(f.entries) + 2 :
             /\ OffsetAt(f, k) \in Nat
             /\ OffsetAt(f, k) = IF k = 1 THEN 0 ELSE OffsetAt(f, k - 1) + EntSize(EntAt(f, k - 1))
             /\ EntAt(f, k) \in DiffEntry /\ EntSize(EntAt(f, k)) \in Nat
             /\ EntSize(EntAt(f, k)) >= EntryHeader
<1> DEFINE n == Len(f.entries) + 2
           size(k) == EntSize(EntAt(f, k))
           P(h) == h = [k \in 1 .. n |-> IF k = 1 THEN 0 ELSE h[k - 1] + size(k - 1)]
           G == [k \in 1 .. n |-> [b \in Nat |-> IF k = 1 THEN 0 ELSE b + size(k - 1)]]
<1>0. EntryHeader \in Nat \ {0}
  BY DiffAssumption DEF DiffAssumption
<1>1. f.entries \in Seq(DiffEntry) /\ n \in Nat
  BY LenProperties DEF DiffArchive
<1>2. \A k \in 1 .. n : EntAt(f, k) \in DiffEntry
  <2> SUFFICES ASSUME NEW k \in 1 .. n PROVE EntAt(f, k) \in DiffEntry
    OBVIOUS
  <2>1. Zero \in DiffEntry
    <3>1. <<>> \in Seq(Nat)
      BY EmptySeq
    <3> QED  BY <3>1 DEF Zero, DiffEntry
  <2>2. k <= Len(f.entries) => f.entries[k] \in DiffEntry
    BY <1>1, ElementOfSeq, LenProperties
  <2> QED  BY <2>1, <2>2 DEF EntAt
<1>3. \A k \in 1 .. n : size(k) \in Nat /\ size(k) >= EntryHeader
  <2> SUFFICES ASSUME NEW k \in 1 .. n PROVE size(k) \in Nat /\ size(k) >= EntryHeader
    OBVIOUS
  <2> DEFINE e == EntAt(f, k)
  <2>1. e \in DiffEntry
    BY <1>2
  <2> HIDE DEF e
  <2>2. e.size \in Nat /\ e.name \in Seq(Nat)
    BY <2>1 DEF DiffEntry
  <2>3. Len(e.name) \in Nat
    BY <2>2, LenProperties
  <2>4. size(k) = EntryHeader + Len(e.name) + e.size
    BY DEF EntSize, e
  <2> QED  BY <1>0, <2>2, <2>3, <2>4
<1>4. \A k \in 1 .. n : k # 1 => k - 1 \in 1 .. n
  BY <1>1
<1> HIDE DEF n, size
<1>5. G \in [1 .. n -> [Nat -> Nat]]
  BY <1>3, <1>4
<1>6. PICK h \in [1 .. n -> Nat] :
        \A k \in 1 .. n : h[k] = IF k = 1 THEN 0 ELSE G[k][h[k - 1]]
  <2> HIDE DEF G
  <2>1. 0 \in Nat /\ n \in Nat /\ G \in StepsOf(Nat, n)
    BY <1>1, <1>5 DEF StepsOf
  <2>2. PICK h \in [1 .. n -> Nat] : StepsFrom(h, 0, G, n)
    BY <2>1, Stepwise
  <2> QED  BY <2>2 DEF StepsFrom
<1>7. P(h)
  <2>1. \A k \in 1 .. n : h[k] = IF k = 1 THEN 0 ELSE h[k - 1] + size(k - 1)
    <3> SUFFICES ASSUME NEW k \in 1 .. n
                 PROVE  h[k] = IF k = 1 THEN 0 ELSE h[k - 1] + size(k - 1)
      OBVIOUS
    <3>1. CASE k = 1
      BY <1>6, <3>1
    <3>2. CASE k # 1
      <4>1. h[k] = G[k][h[k - 1]] /\ k - 1 \in 1 .. n
        BY <1>4, <1>6, <3>2
      <4>2. h[k - 1] \in Nat
        BY <4>1
      <4> QED  BY <3>2, <4>1, <4>2
    <3> QED  BY <3>1, <3>2
  <2>2. h = [k \in 1 .. n |-> h[k]]
    OBVIOUS
  <2> QED  BY <2>1, <2>2
<1> DEFINE b == Offsets(f)
<1>8. b = CHOOSE at : P(at)
  BY DEF Offsets, n, size
<1>9. P(b)
  <2> HIDE DEF P, b
  <2> QED  BY <1>7, <1>8
<1>10. \A k \in 1 .. n : b[k] = IF k = 1 THEN 0 ELSE b[k - 1] + size(k - 1)
  <2> HIDE DEF b
  <2>1. b = [k \in 1 .. n |-> IF k = 1 THEN 0 ELSE b[k - 1] + size(k - 1)]
    BY <1>9
  <2> QED  BY <2>1
<1>11. \A k \in 1 .. n : b[k] \in Nat
  <2> DEFINE Bad == {k \in 1 .. n : b[k] \notin Nat}
  <2> HIDE DEF b
  <2> SUFFICES ASSUME Bad # {} PROVE FALSE
    OBVIOUS
  <2>1. PICK k \in Bad : \A j \in Bad : k <= j
    <3>1. Bad \subseteq Nat
      BY <1>1
    <3> HIDE DEF Bad
    <3> QED  BY <3>1, LeastElement
  <2>2. k \in 1 .. n /\ k # 1
    BY <1>10
  <2>3. k - 1 \in 1 .. n /\ ~(k <= k - 1)
    BY <1>4, <2>2
  <2>4. b[k - 1] \in Nat /\ size(k - 1) \in Nat
    BY <1>3, <2>1, <2>3
  <2> QED  BY <1>10, <2>2, <2>4
<1> QED  BY <1>2, <1>3, <1>10, <1>11 DEF OffsetAt, n, size

\* What comes after the last entry is the only one whose place may lie outside
\* the file, and does if the file ends inside its last entry; one more does.
LEMMA NullAt ==
    ASSUME NEW f \in DiffArchive, NEW k \in 1 .. Len(f.entries) + 2
    PROVE  IsNull(f, k) <=> k = Len(f.entries) + 2 \/ (k = Len(f.entries) + 1 /\ f.tail = "cut")
<1> DEFINE n == Len(f.entries) + 2
           size(j) == EntSize(EntAt(f, j))
           at(j) == OffsetAt(f, j)
<1>0. EntryHeader \in Nat \ {0}
  BY DiffAssumption DEF DiffAssumption
<1>1. n \in Nat /\ n >= 2
  BY LenProperties DEF DiffArchive
<1>2. \A j \in 1 .. n : /\ at(j) \in Nat /\ size(j) \in Nat /\ size(j) >= EntryHeader
                        /\ j # 1 => at(j) = at(j - 1) + size(j - 1)
  BY PlacesStep
<1>3. FileSize(f) = at(n - 1) - IF f.tail = "cut" THEN 1 ELSE 0
  <2>1. n - 1 = Len(f.entries) + 1
    BY LenProperties DEF DiffArchive
  <2> QED  BY <2>1 DEF FileSize
<1>4. IsNull(f, k) <=> at(k) > FileSize(f)
  BY DEF IsNull
<1> SUFFICES IsNull(f, k) <=> k = n \/ (k = n - 1 /\ f.tail = "cut")
  BY LenProperties DEF DiffArchive
<1>5. k \in 1 .. n
  OBVIOUS
<1> HIDE DEF n, size, at
<1>6. CASE k = n
  <2>1. n # 1 /\ n - 1 \in 1 .. n /\ n \in 1 .. n
    BY <1>1
  <2>2. at(n) = at(n - 1) + size(n - 1) /\ size(n - 1) >= EntryHeader /\ size(n - 1) \in Nat /\ at(n - 1) \in Nat
    BY <1>2, <2>1
  <2> QED  BY <1>0, <1>3, <1>4, <1>6, <2>2
<1>7. CASE k = n - 1
  <2>1. at(n - 1) \in Nat /\ k # n
    BY <1>1, <1>2, <1>7
  <2> QED  BY <1>3, <1>4, <1>7, <2>1
<1>8. CASE k < n - 1
  <2> DEFINE Less == {j \in 1 .. n : k < j /\ at(j) < at(k) + EntryHeader}
  <2>1. Less = {}
    <3> SUFFICES ASSUME Less # {} PROVE FALSE
      OBVIOUS
    <3>1. PICK j \in Less : \A i \in Less : j <= i
      <4>1. Less \subseteq Nat
        BY <1>1
      <4> HIDE DEF Less
      <4> QED  BY <4>1, LeastElement
    <3>2. j \in 1 .. n /\ k < j /\ at(j) < at(k) + EntryHeader /\ j # 1 /\ j - 1 \in 1 .. n /\ ~(j <= j - 1)
      BY <1>1, <1>5
    <3>3. /\ at(j) = at(j - 1) + size(j - 1) /\ size(j - 1) >= EntryHeader
          /\ at(j - 1) \in Nat /\ size(j - 1) \in Nat /\ at(j) \in Nat /\ at(k) \in Nat
      BY <1>2, <1>5, <3>2
    <3>4. j - 1 \notin Less
      BY <3>1, <3>2
    <3>5. k < j - 1 => at(j - 1) >= at(k) + EntryHeader
      BY <1>0, <3>2, <3>3, <3>4
    <3>6. k = j - 1 \/ k < j - 1
      BY <1>1, <1>5, <3>2
    <3>7. CASE k = j - 1
      BY <1>0, <3>2, <3>3, <3>7
    <3>8. CASE k < j - 1
      BY <1>0, <3>2, <3>3, <3>5, <3>8
    <3> QED  BY <3>6, <3>7, <3>8
  <2>2. n - 1 \in 1 .. n /\ k # n /\ k # n - 1
    BY <1>1, <1>5, <1>8
  <2>3. at(n - 1) \in Nat /\ at(k) \in Nat
    BY <1>2, <1>5, <2>2
  <2>4. at(n - 1) >= at(k) + EntryHeader
    BY <1>0, <1>8, <2>1, <2>2, <2>3
  <2>5. FileSize(f) >= at(k)
    BY <1>0, <1>3, <2>3, <2>4
  <2> QED  BY <1>0, <1>3, <1>4, <2>2, <2>3, <2>4, <2>5
<1> QED  BY <1>1, <1>5, <1>6, <1>7, <1>8

Lasts(f) == Len(f.entries)

\* Where both archives are read.
DiffPlaces ==
    /\ differ \in {"idle", "looping", "comparing", "done", "null_entry", "outside"}
    /\ input \in DiffInputs
    /\ pos1 \in 2 .. Lasts(file1) + 2 /\ pos2 \in 2 .. Lasts(file2) + 2
    /\ last2 \in 0 .. pos2
    /\ differ = "comparing" =>
         /\ pos1 >= 3 /\ last2 >= 2
         /\ ~IsNull(file1, pos1 - 1)
         /\ EntAt(file1, pos1 - 1).name = <<>> \/ ~IsNull(file2, last2)
         /\ pos2 = Advance(file2, last2)
    /\ \A p \in printed : p[1] \in {"missing", "sizes", "bytes"}

\* SameLayout and Keeps, of any two archives.
SameNames(f, g) ==
    /\ Lasts(f) = Lasts(g)
    /\ \A k \in DOMAIN f.entries : f.entries[k].name = g.entries[k].name
    /\ \A j, k \in DOMAIN f.entries : f.entries[j].name = f.entries[k].name => j = k
KeptOf(f, g, kept) ==
    /\ kept \in [DOMAIN g.entries -> DOMAIN f.entries]
    /\ 1 \in DOMAIN kept /\ kept[1] = 1
    /\ \A m, n \in DOMAIN kept : m < n => kept[m] < kept[n]
    /\ \A m \in DOMAIN kept : g.entries[m] = f.entries[kept[m]]
    /\ \A k \in DOMAIN f.entries :
          f.entries[k].name \in NamesOf(g) => \E m \in DOMAIN kept : kept[m] = k

\* What is printed of the entries before p: each change as what it is, ...
ChangesTold(f, g, exists, told, p) ==
    \A k \in DOMAIN f.entries :
        LET seen == k \in 2 .. p - 1 /\ ~exists
            a == f.entries[k]
            b == g.entries[k]
        IN  /\ <<"sizes", a.name>> \in told <=> seen /\ a.size # b.size
            /\ <<"bytes", a.name>> \in told <=> seen /\ a.size = b.size /\ a.body # b.body
            /\ <<"missing", a.name>> \notin told

\* ... and what is missing from the second archive.
RemovalsTold(f, g, told, p) ==
    /\ \A k \in 2 .. p - 1 :
         <<"missing", f.entries[k].name>> \in told <=> f.entries[k].name \notin NamesOf(g)
    /\ \A q \in told : q[1] = "missing" => q[2] \notin NamesOf(g)

\* With the first archive at p and the second at q, the entries the second has
\* are divided alike by both.
Splits(kept, p, q) == \A m \in DOMAIN kept : m < q <=> kept[m] < p

InStep ==
    SameNames(file1, file2) =>
        /\ differ = "looping" =>
             pos1 = pos2 /\ ChangesTold(file1, file2, input.exists, printed, pos1)
        /\ differ = "comparing" =>
             last2 = pos1 - 1 /\ ChangesTold(file1, file2, input.exists, printed, pos1 - 1)

Divided ==
    Unrelated(NamesOf(file1)) /\ file2.tail = "cut" =>
        \A kept \in [DOMAIN file2.entries -> DOMAIN file1.entries] :
            KeptOf(file1, file2, kept) =>
                /\ differ = "looping" =>
                     /\ pos1 <= Lasts(file1) + 1 /\ Splits(kept, pos1, pos2)
                     /\ RemovalsTold(file1, file2, printed, pos1)
                /\ differ = "comparing" =>
                     /\ Splits(kept, pos1 - 1, last2)
                     /\ RemovalsTold(file1, file2, printed, pos1 - 1)

DiffInv == DiffPlaces /\ InStep /\ Divided

\* What a state says of the two archives.
LEMMA DiffTyped ==
    ASSUME DiffPlaces
    PROVE  /\ file1 \in DiffArchive /\ file2 \in DiffArchive /\ input.exists \in BOOLEAN
           /\ Lasts(file1) \in Nat /\ Lasts(file2) \in Nat
           /\ DOMAIN file1.entries = 1 .. Lasts(file1) /\ DOMAIN file2.entries = 1 .. Lasts(file2)
           /\ pos1 \in Nat /\ pos2 \in Nat /\ last2 \in Nat
<1>1. input \in [file1 : DiffArchive, file2 : DiffArchive, exists : BOOLEAN]
  BY DiffAssumption DEF DiffAssumption, DiffPlaces
<1>2. file1 \in DiffArchive /\ file2 \in DiffArchive /\ input.exists \in BOOLEAN
  BY <1>1 DEF file1, file2
<1>3. \A f \in DiffArchive : Lasts(f) \in Nat /\ DOMAIN f.entries = 1 .. Lasts(f)
  BY LenProperties DEF DiffArchive, Lasts
<1>4. Lasts(file1) \in Nat /\ Lasts(file2) \in Nat
      /\ DOMAIN file1.entries = 1 .. Lasts(file1) /\ DOMAIN file2.entries = 1 .. Lasts(file2)
  BY <1>2, <1>3
<1>5. pos1 \in Nat /\ pos2 \in Nat /\ last2 \in Nat
  BY <1>4 DEF DiffPlaces
<1> QED  BY <1>2, <1>4, <1>5

\* NullAt, with the operators of this proof.
LEMMA Nulls ==
    ASSUME NEW f \in DiffArchive, NEW k \in 1 .. Lasts(f) + 2
    PROVE  /\ IsNull(f, k) <=> k = Lasts(f) + 2 \/ (k = Lasts(f) + 1 /\ f.tail = "cut")
           /\ Advance(f, k) = IF IsNull(f, k) THEN k ELSE k + 1
  BY NullAt DEF Lasts, Advance

\* What Compare adds are sizes and bytes.
LEMMA CompareIs ==
    ASSUME NEW p
    PROVE  /\ \A q \in Compare(p) : q[1] \in {"sizes", "bytes"}
           /\ \A name : <<"missing", name>> \notin Compare(p)
<1>1. \A a, b : <<"sizes", a>>[1] = "sizes" /\ <<"bytes", a>>[1] = "bytes" /\ <<"missing", b>>[1] = "missing"
  OBVIOUS
<1>2. \A q \in Compare(p) : q = <<"sizes", e1.name>> \/ q = <<"bytes", e1.name>>
  BY DEF Compare
<1> QED  BY <1>1, <1>2

LEMMA DiffStarts == DiffInit => DiffInv
<1> SUFFICES ASSUME DiffInit PROVE DiffInv
  OBVIOUS
<1>1. /\ differ = "looping" /\ input \in DiffInputs /\ pos1 = 2 /\ pos2 = 2
      /\ last2 = 0 /\ printed = {}
  BY DEF DiffInit
<1>2. input \in [file1 : DiffArchive, file2 : DiffArchive, exists : BOOLEAN]
  BY <1>1, DiffAssumption DEF DiffAssumption
<1>3. file1 \in DiffArchive /\ file2 \in DiffArchive
  BY <1>2 DEF file1, file2
<1>4. \A f \in DiffArchive : Lasts(f) \in Nat /\ DOMAIN f.entries = 1 .. Lasts(f)
  BY LenProperties DEF DiffArchive, Lasts
<1>5. DiffPlaces
  BY <1>1, <1>3, <1>4 DEF DiffPlaces
<1>6. InStep
  BY <1>1 DEF InStep, ChangesTold
<1>7. Divided
  <2> SUFFICES ASSUME NEW kept \in [DOMAIN file2.entries -> DOMAIN file1.entries],
                      KeptOf(file1, file2, kept)
               PROVE  /\ pos1 <= Lasts(file1) + 1 /\ Splits(kept, pos1, pos2)
                      /\ RemovalsTold(file1, file2, printed, pos1)
    BY <1>1 DEF Divided
  <2>1. /\ Lasts(file1) \in Nat /\ DOMAIN file1.entries = 1 .. Lasts(file1)
        /\ Lasts(file2) \in Nat /\ DOMAIN file2.entries = 1 .. Lasts(file2)
    BY <1>3, <1>4
  <2>2. /\ 1 \in DOMAIN kept /\ kept[1] = 1
        /\ \A m, n \in DOMAIN kept : m < n => kept[m] < kept[n]
    BY DEF KeptOf
  <2>3. 1 \in 1 .. Lasts(file1)
    BY <2>1, <2>2
  <2>4. Splits(kept, 2, 2)
    <3> SUFFICES ASSUME NEW m \in DOMAIN kept PROVE m < 2 <=> kept[m] < 2
      BY DEF Splits
    <3>1. m \in Nat /\ m >= 1 /\ kept[m] \in Nat
      BY <2>1
    <3>2. m = 1 \/ 1 < m
      BY <3>1
    <3>3. 1 < m => 1 < kept[m]
      BY <2>2
    <3> QED  BY <2>2, <3>1, <3>2, <3>3
  <2>5. RemovalsTold(file1, file2, printed, 2)
    BY <1>1 DEF RemovalsTold
  <2> QED  BY <1>1, <2>1, <2>3, <2>4, <2>5
<1> QED  BY <1>5, <1>6, <1>7 DEF DiffInv

\* Both archives are read: each entry is at the place of its archive.
LEMMA ReadNextIs ==
    ASSUME DiffPlaces, ReadNext
    PROVE  /\ DiffPlaces' /\ input' = input /\ printed' = printed
           /\ differ = "looping" /\ differ' # "looping"
           /\ differ' = "comparing" =>
                pos1' = pos1 + 1 /\ last2' = pos2 /\ ~IsNull(file1, pos1)
<1>1. /\ file1 \in DiffArchive /\ file2 \in DiffArchive
      /\ Lasts(file1) \in Nat /\ Lasts(file2) \in Nat
      /\ pos1 \in Nat /\ pos2 \in Nat /\ last2 \in Nat
  BY DiffTyped
<1>2. /\ input \in DiffInputs /\ input' = input /\ printed' = printed /\ differ = "looping"
      /\ file1' = file1 /\ file2' = file2
      /\ pos1 \in 2 .. Lasts(file1) + 2 /\ pos2 \in 2 .. Lasts(file2) + 2 /\ last2 \in 0 .. pos2
      /\ \A p \in printed : p[1] \in {"missing", "sizes", "bytes"}
  BY DEF ReadNext, DiffPlaces, file1, file2
<1>3. /\ IsNull(file1, pos1) <=> pos1 = Lasts(file1) + 2 \/ (pos1 = Lasts(file1) + 1 /\ file1.tail = "cut")
      /\ Advance(file1, pos1) = IF IsNull(file1, pos1) THEN pos1 ELSE pos1 + 1
      /\ IsNull(file2, pos2) <=> pos2 = Lasts(file2) + 2 \/ (pos2 = Lasts(file2) + 1 /\ file2.tail = "cut")
      /\ Advance(file2, pos2) = IF IsNull(file2, pos2) THEN pos2 ELSE pos2 + 1
  BY <1>1, <1>2, Nulls
<1>4. CASE IsUnmapped(file1, pos1) \/ IsUnmapped(file2, pos2)
  <2>1. differ' = "outside" /\ pos1' = pos1 /\ pos2' = pos2 /\ last2' = last2
    BY <1>4 DEF ReadNext
  <2> QED  BY <1>2, <2>1 DEF DiffPlaces
<1>5. CASE ~(IsUnmapped(file1, pos1) \/ IsUnmapped(file2, pos2))
  <2>1. /\ pos1' = Advance(file1, pos1) /\ last2' = pos2 /\ pos2' = Advance(file2, pos2)
        /\ differ' \in {"done", "null_entry", "comparing"}
        /\ differ' = "comparing" => /\ ~IsNull(file1, pos1)
                                    /\ ~IsNull(file2, pos2) \/ EntAt(file1, pos1).name = <<>>
    BY <1>5 DEF ReadNext
  <2>2. pos1' \in 2 .. Lasts(file1) + 2 /\ pos2' \in 2 .. Lasts(file2) + 2 /\ last2' \in 0 .. pos2'
    BY <1>1, <1>2, <1>3, <2>1
  <2>3. differ' = "comparing" => pos1' = pos1 + 1 /\ pos1' >= 3 /\ last2' >= 2 /\ pos1' - 1 = pos1
    BY <1>1, <1>2, <1>3, <2>1
  <2> QED  BY <1>2, <2>1, <2>2, <2>3 DEF DiffPlaces
<1> QED  BY <1>4, <1>5

LEMMA ReadNextKeeps ==
    ASSUME DiffInv, ReadNext
    PROVE  DiffInv'
<1>1. /\ DiffPlaces' /\ input' = input /\ printed' = printed
      /\ differ = "looping" /\ differ' # "looping"
      /\ differ' = "comparing" =>
           pos1' = pos1 + 1 /\ last2' = pos2 /\ ~IsNull(file1, pos1)
  BY ReadNextIs DEF DiffInv
<1>2. file1' = file1 /\ file2' = file2 /\ pos1 \in Nat
  BY <1>1, DiffTyped DEF file1, file2, DiffInv
<1>3. differ' = "comparing" => pos1' - 1 = pos1
  BY <1>1, <1>2
<1>4. InStep'
  BY <1>1, <1>2, <1>3 DEF DiffInv, InStep
<1>5. Divided'
  BY <1>1, <1>2, <1>3 DEF DiffInv, Divided
<1> QED  BY <1>1, <1>4, <1>5 DEF DiffInv

\* What is printed for the entries at p tells of the changes before the next.
LEMMA ChangesGoOn ==
    ASSUME NEW f \in DiffArchive, NEW g \in DiffArchive, SameNames(f, g),
           NEW exists \in BOOLEAN, NEW told, NEW p \in 2 .. Lasts(f) + 1,
           ChangesTold(f, g, exists, told, p), NEW more,
           p <= Lasts(f) =>
             more = IF exists THEN {}
                    ELSE IF f.entries[p].size # g.entries[p].size THEN {<<"sizes", f.entries[p].name>>}
                    ELSE IF f.entries[p].body # g.entries[p].body THEN {<<"bytes", f.entries[p].name>>}
                    ELSE {},
           p = Lasts(f) + 1 => more = {}
    PROVE  ChangesTold(f, g, exists, told \cup more, p + 1)
<1>1. Lasts(f) \in Nat /\ DOMAIN f.entries = 1 .. Lasts(f)
  BY LenProperties DEF DiffArchive, Lasts
<1> SUFFICES ASSUME NEW k \in DOMAIN f.entries
             PROVE  LET seen == k \in 2 .. p /\ ~exists
                        a == f.entries[k]
                        b == g.entries[k]
                    IN  /\ <<"sizes", a.name>> \in told \cup more <=> seen /\ a.size # b.size
                        /\ <<"bytes", a.name>> \in told \cup more <=> seen /\ a.size = b.size /\ a.body # b.body
                        /\ <<"missing", a.name>> \notin told \cup more
  <2>1. p + 1 - 1 = p
    OBVIOUS
  <2> QED  BY <2>1 DEF ChangesTold
<1> DEFINE a == f.entries[k]
           b == g.entries[k]
<1>2. /\ <<"sizes", a.name>> \in told <=> (k \in 2 .. p - 1 /\ ~exists) /\ a.size # b.size
      /\ <<"bytes", a.name>> \in told <=> (k \in 2 .. p - 1 /\ ~exists) /\ a.size = b.size /\ a.body # b.body
      /\ <<"missing", a.name>> \notin told
  BY DEF ChangesTold
<1>3. p \in 2 .. Lasts(f) \/ p = Lasts(f) + 1
  BY <1>1
<1>4. CASE p = Lasts(f) + 1
  <2>1. more = {} /\ k \in 1 .. Lasts(f)
    BY <1>1, <1>4
  <2>2. k \in 2 .. p <=> k \in 2 .. p - 1
    BY <1>1, <1>4, <2>1
  <2> HIDE DEF a, b
  <2>3. told \cup more = told
    BY <2>1
  <2> QED  BY <1>2, <2>2, <2>3 DEF a, b
<1>5. CASE p \in 2 .. Lasts(f) /\ k = p
  <2>1. k \in 2 .. p /\ k \notin 2 .. p - 1
    BY <1>1, <1>5
  <2>2. more = IF exists THEN {} ELSE IF a.size # b.size THEN {<<"sizes", a.name>>}
               ELSE IF a.body # b.body THEN {<<"bytes", a.name>>} ELSE {}
    BY <1>1, <1>5
  <2> HIDE DEF a, b
  <2>3. /\ <<"sizes", a.name>> \notin told /\ <<"bytes", a.name>> \notin told
        /\ <<"missing", a.name>> \notin told
    BY <1>2, <2>1
  <2>4. <<"sizes", a.name>> \in more <=> ~exists /\ a.size # b.size
    BY <2>2
  <2>5. <<"bytes", a.name>> \in more <=> ~exists /\ a.size = b.size /\ a.body # b.body
    BY <2>2
  <2>6. <<"missing", a.name>> \notin more
    BY <2>2
  <2> QED  BY <2>1, <2>3, <2>4, <2>5, <2>6 DEF a, b
<1>6. CASE p \in 2 .. Lasts(f) /\ k # p
  <2>1. k \in 2 .. p <=> k \in 2 .. p - 1
    BY <1>1, <1>6
  <2>2. p \in DOMAIN f.entries /\ f.entries[p].name # a.name
    BY <1>1, <1>6 DEF SameNames
  <2>3. \A m \in more : m = <<"sizes", f.entries[p].name>> \/ m = <<"bytes", f.entries[p].name>>
    BY <1>1, <1>6
  <2> HIDE DEF a, b
  <2>4. /\ <<"sizes", a.name>> \notin more /\ <<"bytes", a.name>> \notin more
        /\ <<"missing", a.name>> \notin more
    BY <2>2, <2>3
  <2> QED  BY <1>2, <2>1, <2>4 DEF a, b
<1> QED  BY <1>3, <1>4, <1>5, <1>6

\* What is printed for the entry at p tells whether it is missing.
LEMMA RemovalsGoOn ==
    ASSUME NEW f, NEW g, NEW told, NEW p \in Nat, RemovalsTold(f, g, told, p), NEW more,
           NEW name, f.entries[p].name = name,
           name \notin NamesOf(g) => <<"missing", name>> \in more,
           \A q \in more : q[1] = "missing" => q[2] = name /\ name \notin NamesOf(g)
    PROVE  RemovalsTold(f, g, told \cup more, p + 1)
<1>1. \A q \in told \cup more : q[1] = "missing" => q[2] \notin NamesOf(g)
  BY DEF RemovalsTold
<1>2. ASSUME NEW k \in 2 .. p
      PROVE  <<"missing", f.entries[k].name>> \in told \cup more <=> f.entries[k].name \notin NamesOf(g)
  <2> DEFINE n == f.entries[k].name
  <2>1. <<"missing", n>>[1] = "missing" /\ <<"missing", n>>[2] = n
    OBVIOUS
  <2>2. <<"missing", n>> \in told \cup more => n \notin NamesOf(g)
    BY <1>1, <2>1
  <2>3. k = p \/ k \in 2 .. p - 1
    OBVIOUS
  <2>4. n \notin NamesOf(g) => <<"missing", n>> \in told \cup more
    BY <2>3 DEF RemovalsTold
  <2> QED  BY <2>2, <2>4
<1>3. p + 1 - 1 = p
  OBVIOUS
<1> QED  BY <1>1, <1>2, <1>3 DEF RemovalsTold

LEMMA PrefixesAre ==
    ASSUME NEW s \in Seq(Nat)
    PROVE  IsPrefix(<<>>, s) /\ IsPrefix(s, s)
<1>1. Len(s) \in Nat /\ Len(<<>>) = 0 /\ SubSeq(<<>>, 1, 0) = <<>> /\ SubSeq(s, 1, 0) = <<>>
  OBVIOUS
<1> QED  BY <1>1 DEF IsPrefix

\* While two entries are compared.
LEMMA AtEntries ==
    ASSUME DiffPlaces, differ = "comparing"
    PROVE  /\ pos1 - 1 \in 2 .. Lasts(file1) + 1 /\ pos1 = pos1 - 1 + 1
           /\ last2 \in 2 .. Lasts(file2) + 2
           /\ pos2 \in 2 .. Lasts(file2) + 2
           /\ e1 = EntAt(file1, pos1 - 1) /\ e2 = EntAt(file2, last2)
           /\ e1 \in DiffEntry /\ e2 \in DiffEntry
           /\ pos1 - 1 = Lasts(file1) + 1 => e1 = Zero
           /\ pos1 - 1 <= Lasts(file1) => e1 = file1.entries[pos1 - 1]
           /\ last2 > Lasts(file2) => e2 = Zero
           /\ last2 <= Lasts(file2) => e2 = file2.entries[last2]
           /\ IsNull(file2, last2) <=> last2 = Lasts(file2) + 2 \/ (last2 = Lasts(file2) + 1 /\ file2.tail = "cut")
           /\ pos2 = IF IsNull(file2, last2) THEN last2 ELSE last2 + 1
           /\ pos1 - 1 = Lasts(file1) + 1 => SameName
<1>1. /\ file1 \in DiffArchive /\ file2 \in DiffArchive
      /\ Lasts(file1) \in Nat /\ Lasts(file2) \in Nat
      /\ pos1 \in Nat /\ pos2 \in Nat /\ last2 \in Nat
  BY DiffTyped
<1>2. /\ pos1 \in 2 .. Lasts(file1) + 2 /\ pos2 \in 2 .. Lasts(file2) + 2 /\ last2 \in 0 .. pos2
      /\ pos1 >= 3 /\ last2 >= 2
      /\ pos2 = Advance(file2, last2)
  BY DEF DiffPlaces
<1>3. /\ pos1 - 1 \in 2 .. Lasts(file1) + 1 /\ pos1 = pos1 - 1 + 1
      /\ last2 \in 2 .. Lasts(file2) + 2
      /\ pos1 - 1 \in 1 .. Lasts(file1) + 2 /\ last2 \in 1 .. Lasts(file2) + 2
  BY <1>1, <1>2
<1>4. e1 = EntAt(file1, pos1 - 1) /\ e2 = EntAt(file2, last2)
  BY DEF e1, e2
<1>5. e1 \in DiffEntry /\ e2 \in DiffEntry
  BY <1>1, <1>3, <1>4, PlacesStep DEF Lasts
<1>6. /\ pos1 - 1 = Lasts(file1) + 1 => e1 = Zero
      /\ pos1 - 1 <= Lasts(file1) => e1 = file1.entries[pos1 - 1]
      /\ last2 > Lasts(file2) => e2 = Zero
      /\ last2 <= Lasts(file2) => e2 = file2.entries[last2]
  <2>1. \A a, n \in Nat : a = n + 1 => ~(a <= n)
    OBVIOUS
  <2>2. \A a, n \in Nat : a > n => ~(a <= n)
    OBVIOUS
  <2>3. pos1 - 1 \in Nat
    BY <1>1, <1>3
  <2>4. /\ e1 = IF pos1 - 1 <= Lasts(file1) THEN file1.entries[pos1 - 1] ELSE Zero
        /\ e2 = IF last2 <= Lasts(file2) THEN file2.entries[last2] ELSE Zero
    BY <1>4 DEF EntAt, Lasts
  <2> HIDE DEF Lasts
  <2> QED  BY <1>1, <2>1, <2>2, <2>3, <2>4
<1>7. /\ IsNull(file2, last2) <=> last2 = Lasts(file2) + 2 \/ (last2 = Lasts(file2) + 1 /\ file2.tail = "cut")
      /\ pos2 = IF IsNull(file2, last2) THEN last2 ELSE last2 + 1
  BY <1>1, <1>2, <1>3, Nulls
<1>8. e1 = Zero => SameName
  <2>1. e2.name \in Seq(Nat) /\ Zero.name = <<>>
    BY <1>5 DEF DiffEntry, Zero
  <2> QED  BY <2>1, PrefixesAre DEF SameName
<1> QED  BY <1>2, <1>3, <1>4, <1>5, <1>6, <1>7, <1>8

\* With the same names in the same places the two entries have one name.
LEMMA InStepNames ==
    ASSUME DiffInv, differ = "comparing", SameNames(file1, file2)
    PROVE  SameName
<1>1. DiffPlaces /\ last2 = pos1 - 1
  BY DEF DiffInv, InStep
<1>2. /\ pos1 - 1 \in 2 .. Lasts(file1) + 1
      /\ e1 \in DiffEntry
      /\ pos1 - 1 <= Lasts(file1) => e1 = file1.entries[pos1 - 1]
      /\ last2 <= Lasts(file2) => e2 = file2.entries[last2]
      /\ pos1 - 1 = Lasts(file1) + 1 => SameName
  BY <1>1, AtEntries
<1>3. /\ Lasts(file1) \in Nat /\ Lasts(file1) = Lasts(file2)
      /\ DOMAIN file1.entries = 1 .. Lasts(file1)
      /\ \A k \in DOMAIN file1.entries : file1.entries[k].name = file2.entries[k].name
  BY <1>1, DiffTyped DEF SameNames
<1>4. CASE pos1 - 1 = Lasts(file1) + 1
  BY <1>2, <1>4
<1>5. CASE pos1 - 1 # Lasts(file1) + 1
  <2>1. pos1 - 1 <= Lasts(file1) /\ pos1 - 1 \in DOMAIN file1.entries
    BY <1>2, <1>3, <1>5
  <2>2. e1.name = e2.name /\ e1.name \in Seq(Nat)
    BY <1>1, <1>2, <1>3, <2>1 DEF DiffEntry
  <2> QED  BY <2>2, PrefixesAre DEF SameName
<1> QED  BY <1>4, <1>5

\* With entries removed, and the second archive cut: the two entries have one
\* name just if they are the same entry, and otherwise the second has no such name.
LEMMA DividedNames ==
    ASSUME DiffInv, differ = "comparing",
           Unrelated(NamesOf(file1)), file2.tail = "cut",
           NEW kept \in [DOMAIN file2.entries -> DOMAIN file1.entries], KeptOf(file1, file2, kept)
    PROVE  /\ SameName /\ ~IsNull(file2, last2) =>
                /\ pos1 - 1 \in DOMAIN file1.entries /\ last2 \in DOMAIN kept
                /\ kept[last2] = pos1 - 1 /\ e1.name \in NamesOf(file2)
           /\ ~SameName => pos1 - 1 \in DOMAIN file1.entries /\ e1.name \notin NamesOf(file2)
           /\ \A m \in DOMAIN kept :
                m \in Nat /\ kept[m] \in Nat /\ file2.entries[m].name \in NamesOf(file1)
           /\ Splits(kept, pos1 - 1, last2) /\ RemovalsTold(file1, file2, printed, pos1 - 1)
<1> DEFINE p == pos1 - 1
<1>1. DiffPlaces /\ Splits(kept, p, last2) /\ RemovalsTold(file1, file2, printed, p)
  BY DEF DiffInv, Divided
<1>2. /\ p \in 2 .. Lasts(file1) + 1 /\ last2 \in 2 .. Lasts(file2) + 2
      /\ e1 \in DiffEntry
      /\ p <= Lasts(file1) => e1 = file1.entries[p]
      /\ last2 <= Lasts(file2) => e2 = file2.entries[last2]
      /\ IsNull(file2, last2) <=> last2 = Lasts(file2) + 2 \/ (last2 = Lasts(file2) + 1 /\ file2.tail = "cut")
      /\ p = Lasts(file1) + 1 => SameName
  BY <1>1, AtEntries
<1>3. /\ Lasts(file1) \in Nat /\ Lasts(file2) \in Nat
      /\ DOMAIN file1.entries = 1 .. Lasts(file1) /\ DOMAIN file2.entries = 1 .. Lasts(file2)
  BY <1>1, DiffTyped
<1>4. /\ \A m, n \in DOMAIN kept : m < n => kept[m] < kept[n]
      /\ \A m \in DOMAIN kept : file2.entries[m] = file1.entries[kept[m]]
      /\ \A k \in DOMAIN file1.entries :
           file1.entries[k].name \in NamesOf(file2) => \E m \in DOMAIN kept : kept[m] = k
  BY DEF KeptOf
<1>5. \A m \in DOMAIN kept :
        /\ m \in 1 .. Lasts(file2) /\ kept[m] \in 1 .. Lasts(file1)
        /\ kept[m] \in DOMAIN file1.entries
        /\ m < last2 <=> kept[m] < p
  BY <1>1, <1>3 DEF Splits
<1> HIDE DEF p
<1>6. \A m \in DOMAIN kept :
        m \in Nat /\ kept[m] \in Nat /\ file2.entries[m].name \in NamesOf(file1)
  BY <1>4, <1>5 DEF NamesOf
<1>7. ASSUME p <= Lasts(file1), e1.name \in NamesOf(file2)
      PROVE  /\ p \in DOMAIN file1.entries /\ last2 \in DOMAIN kept /\ kept[last2] = p /\ e2 = e1
  <2>1. p \in DOMAIN file1.entries /\ e1 = file1.entries[p]
    BY <1>2, <1>3, <1>7
  <2>2. PICK m \in DOMAIN kept : kept[m] = p
    BY <1>4, <1>7, <2>1
  <2>3. m \in 1 .. Lasts(file2) /\ ~(m < last2)
    BY <1>2, <1>5, <2>2
  <2>4. last2 \in 1 .. Lasts(file2) /\ last2 <= m
    BY <1>2, <1>3, <2>3
  <2>5. last2 \in DOMAIN kept
    BY <1>3, <2>4
  <2>6. kept[last2] \in Nat /\ ~(kept[last2] < p)
    BY <1>2, <1>5, <1>6, <2>5
  <2>7. last2 < m => kept[last2] < p
    BY <1>4, <2>2, <2>5
  <2>8. last2 = m
    BY <2>3, <2>4, <2>6, <2>7
  <2> QED  BY <1>2, <1>3, <1>4, <2>1, <2>2, <2>4, <2>5, <2>8
<1>8. SameName /\ ~IsNull(file2, last2) =>
        /\ p \in DOMAIN file1.entries /\ last2 \in DOMAIN kept
        /\ kept[last2] = p /\ e1.name \in NamesOf(file2)
  <2> SUFFICES ASSUME SameName, ~IsNull(file2, last2)
               PROVE  /\ p \in DOMAIN file1.entries /\ last2 \in DOMAIN kept
                      /\ kept[last2] = p /\ e1.name \in NamesOf(file2)
    OBVIOUS
  <2>1. last2 \in 1 .. Lasts(file2) /\ e2 = file2.entries[last2]
    BY <1>2, <1>3
  <2>2. last2 \in DOMAIN kept /\ last2 \in DOMAIN file2.entries
    BY <1>3, <2>1
  <2>3. kept[last2] \in 1 .. Lasts(file1) /\ ~(kept[last2] < p)
    BY <1>2, <1>5, <2>2
  <2>4. p <= Lasts(file1) /\ e1 = file1.entries[p] /\ p \in DOMAIN file1.entries
    BY <1>2, <1>3, <2>3
  <2>5. e1.name \in NamesOf(file1) /\ e2.name \in NamesOf(file1) /\ e2.name \in NamesOf(file2)
    BY <1>6, <2>1, <2>2, <2>4 DEF NamesOf
  <2>6. e1.name = e2.name
    BY <2>5 DEF Unrelated, SameName
  <2> QED  BY <1>7, <2>4, <2>5, <2>6
<1>9. ~SameName => p \in DOMAIN file1.entries /\ e1.name \notin NamesOf(file2)
  <2> SUFFICES ASSUME ~SameName
               PROVE  p \in DOMAIN file1.entries /\ e1.name \notin NamesOf(file2)
    OBVIOUS
  <2>1. p <= Lasts(file1) /\ p \in DOMAIN file1.entries
    BY <1>2, <1>3
  <2>2. e1.name \in Seq(Nat)
    BY <1>2 DEF DiffEntry
  <2>3. e1.name # e2.name
    BY <2>2, PrefixesAre DEF SameName
  <2> QED  BY <1>7, <2>1, <2>3
<1> QED  BY <1>1, <1>6, <1>8, <1>9 DEF p

LEMMA CompareSamePlaces ==
    ASSUME DiffPlaces, CompareSame
    PROVE  DiffPlaces'
<1>1. /\ differ = "comparing" /\ differ' \in {"done", "looping"}
      /\ printed' = printed \cup Compare(pos2)
      /\ input' = input /\ pos1' = pos1 /\ pos2' = pos2 /\ last2' = last2
      /\ file1' = file1 /\ file2' = file2
  BY DEF CompareSame, file1, file2
<1>2. \A q \in printed' : q[1] \in {"missing", "sizes", "bytes"}
  <2>1. \A q \in Compare(pos2) : q[1] \in {"sizes", "bytes"}
    BY CompareIs
  <2>2. \A q \in printed : q[1] \in {"missing", "sizes", "bytes"}
    BY DEF DiffPlaces
  <2> HIDE DEF Compare
  <2> QED  BY <1>1, <2>1, <2>2
<1> QED  BY <1>1, <1>2 DEF DiffPlaces

\* The same names in the same places: what is printed for the two entries is
\* what changed.
LEMMA ChangesCompared ==
    ASSUME DiffInv, CompareSame, differ' = "looping", SameNames(file1, file2)
    PROVE  pos1 = pos2 /\ ChangesTold(file1, file2, input.exists, printed', pos1)
<1> DEFINE p == pos1 - 1
<1>1. DiffPlaces /\ differ = "comparing" /\ printed' = printed \cup Compare(pos2) /\ ~IsNull(file2, last2)
  BY DEF DiffInv, CompareSame
<1>2. /\ p \in 2 .. Lasts(file1) + 1 /\ pos1 = p + 1
      /\ e1 = EntAt(file1, p) /\ e2 = EntAt(file2, last2)
      /\ e1 \in DiffEntry /\ e2 \in DiffEntry
      /\ p = Lasts(file1) + 1 => e1 = Zero
      /\ p <= Lasts(file1) => e1 = file1.entries[p]
      /\ last2 > Lasts(file2) => e2 = Zero
      /\ last2 <= Lasts(file2) => e2 = file2.entries[last2]
      /\ pos2 = last2 + 1
  BY <1>1, AtEntries
<1>3. /\ file1 \in DiffArchive /\ file2 \in DiffArchive /\ input.exists \in BOOLEAN
      /\ Lasts(file1) \in Nat /\ DOMAIN file1.entries = 1 .. Lasts(file1)
      /\ Lasts(file2) = Lasts(file1) /\ last2 \in Nat
      /\ \A k \in DOMAIN file1.entries : file1.entries[k].name = file2.entries[k].name
  BY <1>1, DiffTyped DEF SameNames
<1>4. last2 = p /\ ChangesTold(file1, file2, input.exists, printed, p)
  BY <1>1 DEF DiffInv, InStep
<1>5. EntSize(e1) \in Nat /\ Moved2(pos2) = EntSize(e2)
  <2>1. p \in 1 .. Lasts(file1) + 2 /\ last2 \in 1 .. Lasts(file2) + 2 /\ last2 + 1 \in 1 .. Lasts(file2) + 2
        /\ last2 + 1 # 1 /\ last2 + 1 - 1 = last2
    BY <1>2, <1>3, <1>4
  <2>2. /\ OffsetAt(file2, last2) \in Nat
        /\ OffsetAt(file2, last2 + 1) = OffsetAt(file2, last2) + EntSize(EntAt(file2, last2))
        /\ EntSize(EntAt(file2, last2)) \in Nat /\ EntSize(EntAt(file1, p)) \in Nat
    <3>1. \A k \in 1 .. Lasts(file1) + 2 : EntSize(EntAt(file1, k)) \in Nat
      BY <1>3, PlacesStep DEF Lasts
    <3>2. \A k \in 1 .. Lasts(file2) + 2 :
            /\ OffsetAt(file2, k) \in Nat /\ EntSize(EntAt(file2, k)) \in Nat
            /\ k # 1 => OffsetAt(file2, k) = OffsetAt(file2, k - 1) + EntSize(EntAt(file2, k - 1))
      BY <1>3, PlacesStep DEF Lasts
    <3>3. last2 + 1 # 1 => OffsetAt(file2, last2 + 1) =
                             OffsetAt(file2, last2 + 1 - 1) + EntSize(EntAt(file2, last2 + 1 - 1))
      BY <2>1, <3>2
    <3> QED  BY <2>1, <3>1, <3>2, <3>3
  <2>3. Moved2(pos2) = OffsetAt(file2, last2 + 1) - OffsetAt(file2, last2)
    BY <1>2 DEF Moved2
  <2> QED  BY <1>2, <2>2, <2>3
<1> HIDE DEF p
<1>6. e1.name = e2.name /\ (p = Lasts(file1) + 1 => e1 = e2)
  <2>1. p = Lasts(file1) + 1 => e1 = e2
    BY <1>2, <1>3, <1>4
  <2>2. p <= Lasts(file1) => e1.name = e2.name
    BY <1>2, <1>3, <1>4
  <2> QED  BY <1>2, <1>3, <2>1, <2>2
<1>7. EntSize(e1) # EntSize(e2) <=> e1.size # e2.size
  <2>2. Len(e1.name) \in Nat /\ e1.size \in Nat /\ e2.size \in Nat /\ EntryHeader \in Nat
    BY <1>2, LenProperties, DiffAssumption DEF DiffEntry, DiffAssumption
  <2> QED  BY <1>6, <2>2 DEF EntSize
<1>8. Compare(pos2) = IF input.exists THEN {}
                      ELSE IF e1.size # e2.size THEN {<<"sizes", e1.name>>}
                      ELSE IF e1.body # e2.body THEN {<<"bytes", e1.name>>}
                      ELSE {}
  BY <1>5, <1>6, <1>7 DEF Compare
<1> DEFINE more == Compare(pos2)
<1>9. p <= Lasts(file1) =>
        more = IF input.exists THEN {}
               ELSE IF file1.entries[p].size # file2.entries[p].size THEN {<<"sizes", file1.entries[p].name>>}
               ELSE IF file1.entries[p].body # file2.entries[p].body THEN {<<"bytes", file1.entries[p].name>>}
               ELSE {}
  BY <1>2, <1>3, <1>4, <1>8
<1>10. p = Lasts(file1) + 1 => more = {}
  BY <1>6, <1>8
<1> HIDE DEF more
<1>11. ChangesTold(file1, file2, input.exists, printed \cup more, p + 1)
  BY <1>2, <1>3, <1>4, <1>9, <1>10, ChangesGoOn
<1> QED  BY <1>1, <1>2, <1>4, <1>11 DEF more

LEMMA RemovalsCompared ==
    ASSUME DiffInv, CompareSame, differ' = "looping",
           Unrelated(NamesOf(file1)), file2.tail = "cut",
           NEW kept \in [DOMAIN file2.entries -> DOMAIN file1.entries], KeptOf(file1, file2, kept)
    PROVE  /\ pos1 <= Lasts(file1) + 1 /\ Splits(kept, pos1, pos2)
           /\ RemovalsTold(file1, file2, printed', pos1)
<1> DEFINE p == pos1 - 1
<1>1. /\ DiffPlaces /\ differ = "comparing" /\ SameName
      /\ printed' = printed \cup Compare(pos2) /\ ~IsNull(file2, last2)
  BY DEF DiffInv, CompareSame
<1>2. /\ p \in Nat /\ pos1 = p + 1 /\ pos2 = last2 + 1 /\ last2 \in Nat
      /\ p <= Lasts(file1) => e1 = file1.entries[p]
  BY <1>1, AtEntries, DiffTyped
<1>3. /\ p \in DOMAIN file1.entries /\ last2 \in DOMAIN kept
      /\ kept[last2] = p /\ e1.name \in NamesOf(file2)
      /\ \A m \in DOMAIN kept : m \in Nat /\ kept[m] \in Nat
      /\ Splits(kept, p, last2) /\ RemovalsTold(file1, file2, printed, p)
  BY <1>1, DividedNames
<1>4. Lasts(file1) \in Nat /\ p \in 1 .. Lasts(file1)
  BY <1>1, <1>3, DiffTyped
<1> HIDE DEF p
<1>5. Splits(kept, p + 1, last2 + 1)
  <2> SUFFICES ASSUME NEW m \in DOMAIN kept PROVE m < last2 + 1 <=> kept[m] < p + 1
    BY DEF Splits
  <2>1. \A a, b \in DOMAIN kept : a < b => kept[a] < kept[b]
    BY DEF KeptOf
  <2>2. last2 < m => p < kept[m]
    BY <1>3, <2>1
  <2>3. m < last2 <=> kept[m] < p
    BY <1>3 DEF Splits
  <2> QED  BY <1>2, <1>3, <2>2, <2>3
<1> DEFINE more == Compare(pos2)
<1>6. \A q \in more : q[1] # "missing"
  <2>1. \A q \in more : q[1] \in {"sizes", "bytes"}
    BY CompareIs
  <2> HIDE DEF more
  <2> QED  BY <2>1
<1> HIDE DEF more
<1>7. RemovalsTold(file1, file2, printed \cup more, p + 1)
  <2>1. e1.name \notin NamesOf(file2) => <<"missing", e1.name>> \in more
    BY <1>3
  <2>2. file1.entries[p].name = e1.name
    BY <1>2, <1>4
  <2>3. \A q \in more : q[1] = "missing" => q[2] = e1.name /\ e1.name \notin NamesOf(file2)
    BY <1>6
  <2> QED  BY <1>2, <1>3, <2>1, <2>2, <2>3, RemovalsGoOn
<1> QED  BY <1>1, <1>2, <1>4, <1>5, <1>7 DEF more

LEMMA CompareSameKeeps ==
    ASSUME DiffInv, CompareSame
    PROVE  DiffInv'
<1>1. /\ differ' # "comparing"
      /\ input' = input /\ pos1' = pos1 /\ pos2' = pos2 /\ last2' = last2
      /\ file1' = file1 /\ file2' = file2
  BY DEF CompareSame, file1, file2
<1>2. DiffPlaces'
  BY CompareSamePlaces DEF DiffInv
<1>3. InStep'
  BY <1>1, ChangesCompared DEF InStep
<1>4. Divided'
  BY <1>1, RemovalsCompared DEF Divided
<1> QED  BY <1>2, <1>3, <1>4 DEF DiffInv

LEMMA RealignKeeps ==
    ASSUME DiffInv, Realign
    PROVE  DiffInv'
<1>1. /\ DiffPlaces /\ differ = "comparing" /\ ~SameName /\ differ' = "looping"
      /\ input' = input /\ pos1' = pos1 /\ last2' = last2
      /\ file1' = file1 /\ file2' = file2
  BY DEF Realign, DiffInv, file1, file2
<1>2. PICK k \in Readable2 :
        SeekMatches(k) /\ pos2' = k + 1 /\ printed' = printed \cup Compare(k + 1)
  BY DEF Realign
<1>3. /\ file2 \in DiffArchive /\ Lasts(file1) \in Nat /\ Lasts(file2) \in Nat
      /\ DOMAIN file2.entries = 1 .. Lasts(file2)
      /\ pos2 \in Nat /\ last2 \in Nat
  BY <1>1, DiffTyped
<1>4. pos2 \in 2 .. Lasts(file2) + 2 /\ last2 \in 0 .. pos2
  BY <1>1 DEF DiffPlaces
<1>5. k \in pos2 .. Lasts(file2) + 1 /\ ~IsNull(file2, k)
  BY DEF Readable2, Lasts
<1>6. pos2' \in 2 .. Lasts(file2) + 2 /\ last2 \in 0 .. pos2' /\ k \in 1 .. Lasts(file2) + 2
  BY <1>2, <1>3, <1>4, <1>5
<1>7. \A q \in printed' : q[1] \in {"missing", "sizes", "bytes"}
  <2>1. \A q \in Compare(k + 1) : q[1] \in {"sizes", "bytes"}
    BY CompareIs
  <2>2. \A q \in printed : q[1] \in {"missing", "sizes", "bytes"}
    BY <1>1 DEF DiffPlaces
  <2> HIDE DEF Compare
  <2> QED  BY <1>2, <2>1, <2>2
<1>8. DiffPlaces'
  BY <1>1, <1>6, <1>7 DEF DiffPlaces
<1>9. InStep'
  <2>1. ~SameNames(file1, file2)
    BY <1>1, InStepNames
  <2> QED  BY <1>1, <2>1 DEF InStep
<1>10. Divided'
  <2> SUFFICES ASSUME Unrelated(NamesOf(file1)), file2.tail = "cut",
                      NEW kept \in [DOMAIN file2.entries -> DOMAIN file1.entries],
                      KeptOf(file1, file2, kept)
               PROVE  FALSE
    BY <1>1 DEF Divided
  <2>1. /\ pos1 - 1 \in DOMAIN file1.entries /\ e1.name \notin NamesOf(file2)
        /\ \A m \in DOMAIN kept : file2.entries[m].name \in NamesOf(file1)
    BY <1>1, DividedNames
  <2>2. e1 = file1.entries[pos1 - 1]
    <3>1. pos1 - 1 <= Lasts(file1)
      BY <1>1, <2>1, DiffTyped
    <3> QED  BY <1>1, <3>1, AtEntries
  <2>3. k \in 1 .. Lasts(file2)
    <3>1. k # Lasts(file2) + 1
      BY <1>3, <1>5, <1>6, Nulls
    <3> QED  BY <1>3, <1>4, <1>5, <3>1
  <2>4. k \in DOMAIN kept /\ EntAt(file2, k) = file2.entries[k]
    BY <1>3, <2>3 DEF EntAt, Lasts
  <2>5. /\ e1.name \in NamesOf(file1) /\ EntAt(file2, k).name \in NamesOf(file1)
        /\ EntAt(file2, k).name \in NamesOf(file2)
    BY <1>3, <2>1, <2>2, <2>3, <2>4 DEF NamesOf
  <2>6. EntAt(file2, k).name = e1.name
    BY <1>2, <2>5 DEF SeekMatches, Unrelated
  <2> QED  BY <2>1, <2>5, <2>6
<1> QED  BY <1>8, <1>9, <1>10 DEF DiffInv

LEMMA SeekOutsideKeeps ==
    ASSUME DiffInv, SeekOutside
    PROVE  DiffInv'
<1>1. /\ differ' = "outside" /\ input' = input /\ pos1' = pos1 /\ pos2' = pos2 /\ last2' = last2
      /\ printed' = printed /\ file1' = file1 /\ file2' = file2
  BY DEF SeekOutside, file1, file2
<1>2. DiffPlaces'
  BY <1>1 DEF DiffInv, DiffPlaces
<1>3. InStep' /\ Divided'
  BY <1>1 DEF InStep, Divided
<1> QED  BY <1>2, <1>3 DEF DiffInv

LEMMA MissingKeeps ==
    ASSUME DiffInv, Missing
    PROVE  DiffInv'
<1> DEFINE p == pos1 - 1
           more == {<<"missing", e1.name>>}
<1>1. /\ DiffPlaces /\ differ = "comparing" /\ ~SameName /\ differ' = "looping"
      /\ printed' = printed \cup more
      /\ input' = input /\ pos1' = pos1 /\ pos2' = last2 /\ last2' = last2
      /\ file1' = file1 /\ file2' = file2
  BY DEF Missing, DiffInv, file1, file2
<1>2. /\ p \in 2 .. Lasts(file1) + 1 /\ pos1 = p + 1 /\ last2 \in 2 .. Lasts(file2) + 2
      /\ p <= Lasts(file1) => e1 = file1.entries[p]
  BY <1>1, AtEntries
<1>3. Lasts(file1) \in Nat /\ Lasts(file2) \in Nat /\ DOMAIN file1.entries = 1 .. Lasts(file1)
  BY <1>1, DiffTyped
<1>4. \A q \in more : q = <<"missing", e1.name>> /\ q[1] = "missing" /\ q[2] = e1.name
  OBVIOUS
<1>5. <<"missing", e1.name>> \in more
  OBVIOUS
<1> HIDE DEF p, more
<1>6. \A q \in printed' : q[1] \in {"missing", "sizes", "bytes"}
  BY <1>1, <1>4 DEF DiffPlaces
<1>7. last2 \in 0 .. last2
  BY <1>2, <1>3
<1>8. DiffPlaces'
  BY <1>1, <1>2, <1>6, <1>7 DEF DiffPlaces
<1>9. InStep'
  <2>1. ~SameNames(file1, file2)
    BY <1>1, InStepNames
  <2> QED  BY <1>1, <2>1 DEF InStep
<1>10. Divided'
  <2> SUFFICES ASSUME Unrelated(NamesOf(file1)), file2.tail = "cut",
                      NEW kept \in [DOMAIN file2.entries -> DOMAIN file1.entries],
                      KeptOf(file1, file2, kept)
               PROVE  /\ pos1 <= Lasts(file1) + 1 /\ Splits(kept, pos1, last2)
                      /\ RemovalsTold(file1, file2, printed', pos1)
    BY <1>1 DEF Divided
  <2>1. /\ p \in DOMAIN file1.entries /\ e1.name \notin NamesOf(file2)
        /\ \A m \in DOMAIN kept : m \in Nat /\ kept[m] \in Nat
        /\ Splits(kept, p, last2) /\ RemovalsTold(file1, file2, printed, p)
    BY <1>1, DividedNames DEF p
  <2>2. p \in 1 .. Lasts(file1) /\ e1 = file1.entries[p]
    BY <1>2, <1>3, <2>1
  <2>3. Splits(kept, p + 1, last2)
    <3> SUFFICES ASSUME NEW m \in DOMAIN kept PROVE m < last2 <=> kept[m] < p + 1
      BY DEF Splits
    <3>1. m < last2 <=> kept[m] < p
      BY <2>1 DEF Splits
    <3>2. kept[m] # p
      <4>1. m \in DOMAIN file2.entries /\ file2.entries[m] = file1.entries[kept[m]]
        BY DEF KeptOf
      <4>2. file1.entries[kept[m]].name \in NamesOf(file2)
        BY <4>1 DEF NamesOf
      <4> QED  BY <2>1, <2>2, <4>2
    <3> QED  BY <1>2, <2>1, <3>1, <3>2
  <2>4. RemovalsTold(file1, file2, printed \cup more, p + 1)
    BY <1>2, <1>3, <1>4, <1>5, <2>1, <2>2, RemovalsGoOn
  <2> QED  BY <1>1, <1>2, <1>3, <2>2, <2>3, <2>4
<1> QED  BY <1>8, <1>9, <1>10 DEF DiffInv

LEMMA DiffInvariant == DiffSpec => []DiffInv
<1>1. DiffInit => DiffInv
  BY DiffStarts
<1>2. DiffInv /\ [DiffNext]_diffVars => DiffInv'
  <2> SUFFICES ASSUME DiffInv, [DiffNext]_diffVars PROVE DiffInv'
    OBVIOUS
  <2>1. CASE ReadNext
    BY <2>1, ReadNextKeeps
  <2>2. CASE CompareSame
    BY <2>2, CompareSameKeeps
  <2>3. CASE Realign
    BY <2>3, RealignKeeps
  <2>4. CASE SeekOutside
    BY <2>4, SeekOutsideKeeps
  <2>5. CASE Missing
    BY <2>5, MissingKeeps
  <2>6. CASE UNCHANGED diffVars
    <3>1. /\ differ' = differ /\ input' = input /\ pos1' = pos1 /\ pos2' = pos2 /\ last2' = last2
          /\ printed' = printed /\ file1' = file1 /\ file2' = file2
      BY <2>6 DEF diffVars, file1, file2
    <3> QED  BY <3>1 DEF DiffInv, DiffPlaces, InStep, Divided
  <2> QED  BY <2>1, <2>2, <2>3, <2>4, <2>5, <2>6 DEF DiffNext
<1> QED  BY <1>1, <1>2, PTL DEF DiffSpec

\* What doDiff (line 276 of ota.c) prints for two archives with the same names in
\* the same places is what changed; and what it prints as missing from a second
\* archive that is the first without some of its entries, and that ends inside its
\* last entry, is what was removed: for all archives, however long.
THEOREM DifferencesExact == DiffSpec => []DifferencesAreExact
<1>1. DiffInv => DifferencesAreExact
  <2> SUFFICES ASSUME DiffInv PROVE ChangesAreExact /\ CutRemovalsAreExact
    BY DEF DifferencesAreExact
  <2>1. DiffPlaces /\ InStep /\ Divided
    BY DEF DiffInv
  <2>2. /\ Lasts(file1) \in Nat /\ DOMAIN file1.entries = 1 .. Lasts(file1)
        /\ pos1 \in Nat /\ pos1 \in 2 .. Lasts(file1) + 2
    BY <2>1, DiffTyped DEF DiffPlaces
  <2>3. Compared = 2 .. IF pos1 - 1 <= Lasts(file1) THEN pos1 - 1 ELSE Lasts(file1)
    BY DEF Compared, Lasts
  <2>4. \A k \in DOMAIN file1.entries : k \in Compared <=> k \in 2 .. pos1 - 1
    BY <2>2, <2>3
  <2>5. ChangesAreExact
    <3> SUFFICES ASSUME differ = "looping", SameLayout,
                        NEW k \in DOMAIN file1.entries
                 PROVE  LET f == file1.entries[k]
                            g == file2.entries[k]
                            seen == k \in Compared /\ ~input.exists
                        IN  /\ <<"sizes", f.name>> \in printed <=> seen /\ f.size # g.size
                            /\ <<"bytes", f.name>> \in printed <=> seen /\ f.size = g.size /\ f.body # g.body
                            /\ <<"missing", f.name>> \notin printed
      BY DEF ChangesAreExact
    <3>1. SameNames(file1, file2)
      BY DEF SameLayout, SameNames, Lasts
    <3>2. ChangesTold(file1, file2, input.exists, printed, pos1)
      BY <2>1, <3>1 DEF InStep
    <3> HIDE DEF Compared
    <3> QED  BY <2>4, <3>2 DEF ChangesTold
  <2>6. CutRemovalsAreExact
    <3> SUFFICES ASSUME differ = "looping", OnlyRemovals, file2.tail = "cut"
                 PROVE  RemovalsPrinted
      BY DEF CutRemovalsAreExact
    <3>1. PICK kept \in [DOMAIN file2.entries -> DOMAIN file1.entries] : Keeps(kept)
      BY DEF OnlyRemovals
    <3>2. KeptOf(file1, file2, kept)
      BY <3>1 DEF Keeps, KeptOf
    <3>3. pos1 <= Lasts(file1) + 1 /\ RemovalsTold(file1, file2, printed, pos1)
      BY <2>1, <3>2 DEF Divided, OnlyRemovals
    <3>4. Compared = 2 .. pos1 - 1
      BY <2>2, <2>3, <3>3
    <3> QED  BY <3>3, <3>4 DEF RemovalsPrinted, RemovalsTold
  <2> QED  BY <2>5, <2>6
<1>2. DiffSpec => []DiffInv
  BY DiffInvariant
<1> QED  BY <1>1, <1>2, PTL

\* doPBZX, doDiff and extractFile, each running as it does, stay well typed: the
\* room doPBZX (line 508 of ota.c) takes for what is left of its buffer is never
\* more than the buffer, nor the buffer more than an int; doDiff (line 276) never
\* compares an entry that getNextEnt did not find, but under an empty name, which
\* is compared without it.
THEOREM FilesAreTyped == PbzxSpec /\ DiffSpec /\ ExtractSpec => []FilesTypeOK
<1>1. PbzxInv => PbzxTypeOK
  BY DEF PbzxInv
<1>2. DiffInv => DiffTypeOK
  BY DEF DiffInv, DiffPlaces, DiffTypeOK, e1, Lasts
<1>3. PbzxTypeOK /\ DiffTypeOK /\ ExtractTypeOK => FilesTypeOK
  BY DEF FilesTypeOK
<1>4. ExtractInv => ExtractTypeOK
  BY DEF ExtractInv, ExtractTypeOK
<1> QED  BY <1>1, <1>2, <1>3, PbzxInvariant, DiffInvariant, ExtractInvariant, <1>4, PTL
=============================================================================
