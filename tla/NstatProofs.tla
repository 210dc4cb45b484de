------------------------------ MODULE NstatProofs ------------------------------
(***************************************************************************)
(* Proofs about the kernel's side of the statistics socket, for the proofs *)
(* about its clients: types, and the order in which a source is announced, *)
(* described and removed.                                                  *)
(***************************************************************************)
EXTENDS NstatKernel, SequenceTheorems, TLAPS

\* Appending a message, dropping one and appending a request keep the queues
\* typed and tell when they are empty.
LEMMA QueueFacts ==
    ASSUME NEW S, NEW q \in Seq(S), NEW e \in S
    PROVE  /\ Append(q, e) \in Seq(S) /\ Append(q, e) # <<>>
           /\ q # <<>> => Head(q) \in S /\ Tail(q) \in Seq(S)
  <1>1. Append(q, e) \in Seq(S) /\ Append(q, e) # <<>>
    BY AppendProperties, EmptySeq
  <1>2. ASSUME q # <<>> PROVE Head(q) \in S /\ Tail(q) \in Seq(S)
    BY <1>2, HeadTailProperties
  <1> QED  BY <1>1, <1>2

LEMMA LenEmpty == Len(<<>>) = 0
  BY EmptySeq

\* A sequence whose length is not 0 is not empty.
LEMMA LongerThanEmpty ==
    ASSUME NEW q, Len(q) # 0 PROVE q # <<>>
  BY LenEmpty

\* A message the kernel sends is a message.
LEMMA Messages ==
    /\ \A r \in Ref : [type |-> "SRC_ADDED", srcref |-> r] \in Message
    /\ \A r \in Ref : [type |-> "SRC_REMOVED", srcref |-> r] \in Message
    /\ \A r \in Ref, n \in 0 .. MaxRx :
         [type |-> "SRC_COUNTS", srcref |-> r, rx |-> n] \in Message
    /\ \A r \in Ref, i \in Nat, s \in SockState :
         [type |-> "SRC_DESC", srcref |-> r, inc |-> i, state |-> s] \in Message
    /\ [type |-> "SUCCESS"] \in Message /\ [type |-> "ERROR"] \in Message
  BY DEF Message

\* A request the client writes is a request.
LEMMA Requests ==
    /\ \A p \in Provider : [type |-> "ADD_ALL_SRCS", provider |-> p] \in Request
    /\ \A r \in Ref : [type |-> "GET_SRC_DESC", srcref |-> r] \in Request
    /\ [type |-> "QUERY_SRC", done |-> {}] \in Request
    /\ [type |-> "NONE"] \in Request
  BY DEF Request

\* A message or request of a type has the fields of that type.
LEMMA MessageFields ==
    ASSUME NEW m \in Message
    PROVE  /\ m.type \in {"SRC_ADDED", "SRC_REMOVED", "SRC_COUNTS", "SRC_DESC"}
                => m.srcref \in Ref
           /\ m.type = "SRC_COUNTS" => m.rx \in 0 .. MaxRx
           /\ m.type = "SRC_DESC" => m.inc \in Nat /\ m.state \in SockState
  BY DEF Message

LEMMA RequestFields ==
    ASSUME NEW q \in Request
    PROVE  /\ q.type = "ADD_ALL_SRCS" => q.provider \in Provider
           /\ q.type = "GET_SRC_DESC" => q.srcref \in Ref
           /\ q.type = "QUERY_SRC" =>
                /\ q.done \in SUBSET Ref
                /\ \A r \in Ref : [q EXCEPT !.done = @ \cup {r}] \in Request
  BY DEF Request

-----------------------------------------------------------------------------
(* Type correctness                                                        *)

LEMMA KernelInitType == KernelInit => KernelTypeOK
  <1> SUFFICES ASSUME KernelInit PROVE KernelTypeOK
    OBVIOUS
  <1>1. <<>> \in Seq(Request) /\ <<>> \in Seq(Message)
    BY EmptySeq
  <1>2. sock \in [Ref -> [live : BOOLEAN, inc : Nat, state : SockState]]
    BY DEF KernelInit
  <1> QED  BY <1>1, <1>2 DEF KernelInit, KernelTypeOK

\* The environment moves the sockets and may append a notification.
LEMMA EnvironmentType == KernelTypeOK /\ Environment => KernelTypeOK'
  <1> SUFFICES ASSUME KernelTypeOK, NEW r \in Ref,
                      Open(r) \/ Close(r) \/ Change(r)
               PROVE  KernelTypeOK'
    BY DEF Environment
  <1>0. SocketState(ProviderOf[r]) \subseteq SockState
    BY DEF SocketState, SockState
  <1>1. CASE Open(r)
    <2>1. Append(fromKernel, [type |-> "SRC_ADDED", srcref |-> r]) \in Seq(Message)
      BY QueueFacts, Messages DEF KernelTypeOK
    <2>2. PICK s \in SocketState(ProviderOf[r]) :
            sock' = [sock EXCEPT ![r] = [live |-> TRUE, inc |-> @.inc + 1, state |-> s]]
      BY <1>1 DEF Open
    <2>3. sock' \in [Ref -> [live : BOOLEAN, inc : Nat, state : SockState]]
      <3>1. sock[r].inc + 1 \in Nat
        BY DEF KernelTypeOK
      <3> QED  BY <1>0, <2>2, <3>1 DEF KernelTypeOK
    <2> QED  BY <1>1, <2>1, <2>3 DEF Open, KernelTypeOK
  <1>2. CASE Close(r)
    <2>1. Append(fromKernel, [type |-> "SRC_REMOVED", srcref |-> r]) \in Seq(Message)
      BY QueueFacts, Messages DEF KernelTypeOK
    <2> QED  BY <1>2, <2>1 DEF Close, KernelTypeOK
  <1>3. CASE Change(r)
    <2>1. PICK s \in SocketState(ProviderOf[r]) : sock' = [sock EXCEPT ![r].state = s]
      BY <1>3 DEF Change
    <2>2. sock' \in [Ref -> [live : BOOLEAN, inc : Nat, state : SockState]]
      BY <1>0, <2>1 DEF KernelTypeOK
    <2> QED  BY <1>3, <2>2 DEF Change, KernelTypeOK
  <1> QED  BY <1>1, <1>2, <1>3

\* Handling a request keeps the request typed until it is answered.
LEMMA KernelType == KernelTypeOK /\ Kernel => KernelTypeOK'
  <1> SUFFICES ASSUME KernelTypeOK, Kernel PROVE KernelTypeOK'
    OBVIOUS
  <1>1. toKernel \in Seq(Request) /\ fromKernel \in Seq(Message)
    BY DEF KernelTypeOK
  <1>2. toKernel # <<>>
    BY DEF Kernel, AnnounceSource, CountSource, AnswerAddAll, RefuseAddAll,
           AnswerGetDesc, AnswerQuery, AnswerNone, Handling
  <1>3. Head(toKernel) \in Request /\ Tail(toKernel) \in Seq(Request)
    BY <1>1, <1>2, HeadTailProperties
  <1>4. \A m \in Message : Append(fromKernel, m) \in Seq(Message)
    BY <1>1, AppendProperties
  <1>5. ASSUME NEW r \in Ref, AnnounceSource(r) PROVE KernelTypeOK'
    BY <1>1, <1>4, <1>5, Messages DEF AnnounceSource, KernelTypeOK
  <1>6. ASSUME NEW r \in Ref, CountSource(r) PROVE KernelTypeOK'
    <2>1. PICK n \in 1 .. MaxRx : fromKernel' =
            Append(fromKernel, [type |-> "SRC_COUNTS", srcref |-> r, rx |-> n])
      BY <1>6 DEF CountSource
    <2>2. n \in 0 .. MaxRx
      BY NstatAssumption DEF NstatAssumption
    <2>3. fromKernel' \in Seq(Message)
      BY <1>4, <2>1, <2>2, Messages
    <2>4. [Head(toKernel) EXCEPT !.done = @ \cup {r}] \in Request
      BY <1>3, <1>6, RequestFields DEF CountSource, Handling
    <2>5. <<[Head(toKernel) EXCEPT !.done = @ \cup {r}]>> \in Seq(Request)
      BY <2>4
    <2>6. toKernel' \in Seq(Request)
      BY <1>3, <1>6, <2>5, ConcatProperties DEF CountSource
    <2> QED  BY <1>6, <2>3, <2>6 DEF CountSource, KernelTypeOK
  <1>7. CASE AnswerAddAll
    BY <1>3, <1>4, <1>7, Messages, RequestFields
       DEF AnswerAddAll, Reply, Handling, KernelTypeOK
  <1>8. CASE RefuseAddAll
    BY <1>3, <1>4, <1>8, Messages DEF RefuseAddAll, Reply, KernelTypeOK
  <1>9. CASE AnswerGetDesc
    <2>1. Head(toKernel).srcref \in Ref
      BY <1>3, <1>9, RequestFields DEF AnswerGetDesc, Handling
    <2>2. /\ sock[Head(toKernel).srcref].inc \in Nat
          /\ sock[Head(toKernel).srcref].state \in SockState
      BY <2>1 DEF KernelTypeOK
    <2> QED  BY <1>3, <1>4, <1>9, <2>1, <2>2, Messages
             DEF AnswerGetDesc, Reply, KernelTypeOK
  <1>10. CASE AnswerQuery
    BY <1>3, <1>4, <1>10, Messages DEF AnswerQuery, Reply, KernelTypeOK
  <1>11. CASE AnswerNone
    <2>1. PICK t \in NoneReply : Reply([type |-> t])
      BY <1>11 DEF AnswerNone
    <2>2. t = "SUCCESS" \/ t = "ERROR"
      BY NstatAssumption DEF NstatAssumption
    <2> QED  BY <1>3, <1>4, <1>11, <2>1, <2>2, Messages
             DEF AnswerNone, Reply, KernelTypeOK
  <1> QED  BY <1>5, <1>6, <1>7, <1>8, <1>9, <1>10, <1>11 DEF Kernel

-----------------------------------------------------------------------------
(* The order of what is sent                                               *)

Member(m, q) == \E i \in DOMAIN q : q[i] = m

LEMMA AppendMember ==
    ASSUME NEW S, NEW q \in Seq(S), NEW e \in S, NEW m
    PROVE  Member(m, Append(q, e)) <=> Member(m, q) \/ m = e
  <1>1. /\ Len(q) \in Nat /\ DOMAIN q = 1 .. Len(q)
        /\ Append(q, e) \in Seq(S) /\ Len(Append(q, e)) = Len(q) + 1
        /\ \A i \in 1 .. Len(q) : Append(q, e)[i] = q[i]
        /\ Append(q, e)[Len(q) + 1] = e
    BY AppendProperties, LenProperties
  <1>2. DOMAIN Append(q, e) = 1 .. Len(q) + 1
    BY <1>1, LenProperties
  <1> QED  BY <1>1, <1>2 DEF Member

LEMMA TailMember ==
    ASSUME NEW S, NEW q \in Seq(S), q # <<>>, NEW m
    PROVE  Member(m, q) <=> m = Head(q) \/ Member(m, Tail(q))
  <1>1. /\ Len(q) \in Nat \ {0} /\ DOMAIN q = 1 .. Len(q)
        /\ Tail(q) \in Seq(S) /\ Len(Tail(q)) = Len(q) - 1
        /\ \A i \in 1 .. Len(q) - 1 : Tail(q)[i] = q[i + 1]
        /\ Head(q) = q[1]
    BY HeadTailProperties, LenProperties, EmptySeq
  <1>2. DOMAIN Tail(q) = 1 .. Len(q) - 1
    BY <1>1, LenProperties
  <1>3. ASSUME NEW i \in 1 .. Len(q), i # 1
        PROVE  i - 1 \in 1 .. Len(q) - 1 /\ q[i] = Tail(q)[i - 1]
    <2>1. i - 1 \in 1 .. Len(q) - 1 /\ (i - 1) + 1 = i
      BY <1>1, <1>3
    <2> QED  BY <1>1, <2>1
  <1>4. ASSUME Member(m, q) PROVE m = Head(q) \/ Member(m, Tail(q))
    <2>1. PICK i \in 1 .. Len(q) : q[i] = m
      BY <1>1, <1>4 DEF Member
    <2>2. CASE i = 1
      BY <1>1, <2>1, <2>2
    <2>3. CASE i # 1
      BY <1>2, <1>3, <2>1, <2>3 DEF Member
    <2> QED  BY <2>2, <2>3
  <1>5. ASSUME Member(m, Tail(q)) PROVE Member(m, q)
    <2>1. PICK i \in 1 .. Len(q) - 1 : Tail(q)[i] = m
      BY <1>2, <1>5 DEF Member
    <2>2. i + 1 \in 1 .. Len(q) /\ q[i + 1] = m
      BY <1>1, <2>1
    <2> QED  BY <1>1, <2>2 DEF Member
  <1>6. m = Head(q) => Member(m, q)
    BY <1>1 DEF Member
  <1> QED  BY <1>4, <1>5, <1>6

\* A first element is put before the others.
LEMMA ConsMember ==
    ASSUME NEW S, NEW q \in Seq(S), NEW e \in S, NEW m, Member(m, q)
    PROVE  Member(m, <<e>> \o q)
  <1>1. PICK i \in 1 .. Len(q) : q[i] = m
    BY LenProperties DEF Member
  <1>2. /\ <<e>> \in Seq(S) /\ Len(<<e>>) = 1
        /\ Len(q) \in Nat
    BY LenProperties
  <1>3. /\ <<e>> \o q \in Seq(S) /\ Len(<<e>> \o q) = 1 + Len(q)
        /\ \A j \in 1 .. 1 + Len(q) :
             (<<e>> \o q)[j] = IF j <= 1 THEN <<e>>[j] ELSE q[j - 1]
    BY <1>2, ConcatProperties
  <1>4. i + 1 \in 1 .. 1 + Len(q) /\ ~(i + 1 <= 1) /\ (i + 1) - 1 = i
    BY <1>1, <1>2
  <1>5. (<<e>> \o q)[i + 1] = m
    BY <1>1, <1>3, <1>4
  <1>6. DOMAIN (<<e>> \o q) = 1 .. 1 + Len(q)
    BY <1>3, LenProperties
  <1> QED  BY <1>4, <1>5, <1>6 DEF Member

GetDesc(r) == [type |-> "GET_SRC_DESC", srcref |-> r]
Announcement(r) == [type |-> "SRC_ADDED", srcref |-> r]
Removal(r) == [type |-> "SRC_REMOVED", srcref |-> r]

\* The removal of r is sent behind the i-th message.
RemovalBehind(r, i) == \E j \in DOMAIN fromKernel : j > i /\ fromKernel[j] = Removal(r)

\* r is announced, for the socket it has now.
Current(r, inc) == r \in announced /\ sock[r].inc = inc

LiveAnnounced == \A r \in announced : sock[r].live

\* A source that was announced, and what was said of it, stands until its removal,
\* which is sent behind both.
StandsAt(i) ==
    LET m == fromKernel[i] IN
    /\ m.type = "SRC_ADDED" => m.srcref \in announced \/ RemovalBehind(m.srcref, i)
    /\ m.type = "SRC_DESC" => Current(m.srcref, m.inc) \/ RemovalBehind(m.srcref, i)

KernelOrder == LiveAnnounced /\ \A i \in DOMAIN fromKernel : StandsAt(i)

\* Behind the removal of a source that is announced now, its announcement is sent.
AnnouncedBehind(r, i) == \E j \in DOMAIN fromKernel : j > i /\ fromKernel[j] = Announcement(r)
Reannounced ==
    \A i \in DOMAIN fromKernel : \A r \in announced :
        fromKernel[i] = Removal(r) => AnnouncedBehind(r, i)

\* What a step of the kernel or of the sockets does to the queue: nothing, or it
\* sends a message.  Either a source stays as it is or its removal is sent.
Kept(r) == r \in announced' /\ sock'[r].inc = sock[r].inc
Sent(m) ==
    /\ fromKernel' = Append(fromKernel, m)
    /\ \A r \in announced : Kept(r) \/ m = Removal(r)
    /\ m.type = "SRC_ADDED" => m.srcref \in announced' \ announced
    /\ m.type = "SRC_DESC" => Current(m.srcref, m.inc)'
    /\ \A r \in announced' : (r \in announced \/ m = Announcement(r)) /\ m # Removal(r)
NothingSent ==
    fromKernel' = fromKernel /\ announced' = announced /\ \A r \in announced : Kept(r)

\* A removal is told from the other messages, and from that of another source.
LEMMA RemovalFields ==
    \A m, r : m = Removal(r) => m.type = "SRC_REMOVED" /\ m.srcref = r
  BY DEF Removal

LEMMA EnvironmentSends ==
    ASSUME KernelTypeOK, LiveAnnounced, Environment
    PROVE  LiveAnnounced' /\ (NothingSent \/ \E m \in Message : Sent(m))
  <1> USE DEF LiveAnnounced, Kept
  <1>1. PICK r \in Ref : Open(r) \/ Close(r) \/ Change(r)
    BY DEF Environment
  <1>0. sock \in [Ref -> [live : BOOLEAN, inc : Nat, state : SockState]] /\ announced \subseteq Ref
    BY DEF KernelTypeOK
  <1>2. CASE Open(r)
    <2>1. r \notin announced
      BY <1>2 DEF Open
    <2>2. PICK s : sock' = [sock EXCEPT ![r] = [live |-> TRUE, inc |-> @.inc + 1, state |-> s]]
      BY <1>2 DEF Open
    <2>3. \A q \in announced : sock'[q] = sock[q]
      BY <1>0, <2>1, <2>2
    <2>4. sock'[r].live
      BY <1>0, <2>2
    <2>5. CASE ProviderOf[r] \in watched
      <3> DEFINE m == [type |-> "SRC_ADDED", srcref |-> r]
      <3>1. announced' = announced \cup {r} /\ fromKernel' = Append(fromKernel, m)
        BY <1>2, <2>5 DEF Open
      <3>2. m \in Message /\ m.type = "SRC_ADDED" /\ m.srcref = r /\ m = Announcement(r)
        BY Messages DEF Announcement
      <3> HIDE DEF m
      <3>3. Sent(m)
        BY <2>1, <2>3, <3>1, <3>2, RemovalFields DEF Sent
      <3> QED  BY <2>3, <2>4, <3>1, <3>2, <3>3
    <2>6. CASE ProviderOf[r] \notin watched
      BY <1>2, <2>3, <2>6 DEF Open, NothingSent
    <2> QED  BY <2>5, <2>6
  <1>3. CASE Close(r)
    <2>1. sock' = [sock EXCEPT ![r].live = FALSE] /\ announced' = announced \ {r}
      BY <1>3 DEF Close
    <2>2. /\ \A q \in announced' : sock'[q].live
          /\ \A q \in announced : sock'[q].inc = sock[q].inc /\ (q \in announced' \/ q = r)
      BY <1>0, <2>1
    <2>3. CASE r \in announced
      <3>1. fromKernel' = Append(fromKernel, Removal(r))
        BY <1>3, <2>3 DEF Close, Removal
      <3>2. Removal(r) \in Message /\ Removal(r).type = "SRC_REMOVED"
        BY Messages DEF Removal
      <3>3. Sent(Removal(r))
        <4>1. \A q \in announced' : q \in announced /\ Removal(r) # Removal(q)
          BY <2>1, RemovalFields
        <4> QED  BY <2>2, <3>1, <3>2, <4>1 DEF Sent
      <3> QED  BY <2>2, <3>2, <3>3
    <2>4. CASE r \notin announced
      <3>1. fromKernel' = fromKernel /\ announced' = announced
        BY <1>3, <2>1, <2>4 DEF Close
      <3> QED  BY <2>2, <2>4, <3>1 DEF NothingSent
    <2> QED  BY <2>3, <2>4
  <1>4. CASE Change(r)
    <2>1. PICK s : sock' = [sock EXCEPT ![r].state = s]
      BY <1>4 DEF Change
    <2>2. \A q \in announced : sock'[q].inc = sock[q].inc /\ sock'[q].live = sock[q].live
      BY <1>0, <2>1
    <2>3. announced' = announced /\ fromKernel' = fromKernel
      BY <1>4 DEF Change
    <2> QED  BY <2>2, <2>3 DEF NothingSent
  <1> QED  BY <1>1, <1>2, <1>3, <1>4

LEMMA KernelSends ==
    ASSUME KernelTypeOK, LiveAnnounced, Kernel
    PROVE  LiveAnnounced' /\ \E m \in Message : Sent(m)
  <1> USE DEF LiveAnnounced, Kept
  <1>0. sock \in [Ref -> [live : BOOLEAN, inc : Nat, state : SockState]] /\ announced \subseteq Ref
    BY DEF KernelTypeOK
  <1>1. sock' = sock
    BY DEF Kernel, AnnounceSource, CountSource, AnswerAddAll, RefuseAddAll, AnswerGetDesc,
           AnswerQuery, AnswerNone
  <1>2. ASSUME NEW r \in Ref, AnnounceSource(r)
        PROVE  LiveAnnounced' /\ \E m \in Message : Sent(m)
    <2> DEFINE m == [type |-> "SRC_ADDED", srcref |-> r]
    <2>1. /\ announced' = announced \cup {r} /\ fromKernel' = Append(fromKernel, m)
          /\ sock[r].live /\ r \notin announced
      BY <1>2 DEF AnnounceSource, Unannounced
    <2>2. m \in Message /\ m.type = "SRC_ADDED" /\ m.srcref = r /\ m = Announcement(r)
      BY Messages DEF Announcement
    <2> HIDE DEF m
    <2>3. Sent(m)
      BY <1>1, <2>1, <2>2, RemovalFields DEF Sent
    <2> QED  BY <1>1, <2>1, <2>2, <2>3
  \* Every other message is about no change, and says what is.
  <1>3. ASSUME NEW m \in Message, fromKernel' = Append(fromKernel, m), announced' = announced,
               m.type \notin {"SRC_ADDED", "SRC_REMOVED"},
               m.type = "SRC_DESC" => Current(m.srcref, m.inc)
        PROVE  LiveAnnounced' /\ \E n \in Message : Sent(n)
    <2>1. Sent(m)
      BY <1>1, <1>3, RemovalFields DEF Sent, Current
    <2> QED  BY <1>1, <1>3, <2>1
  <1>4. ASSUME NEW r \in Ref, CountSource(r)
        PROVE  LiveAnnounced' /\ \E m \in Message : Sent(m)
    <2>1. PICK n \in 1 .. MaxRx : fromKernel' =
            Append(fromKernel, [type |-> "SRC_COUNTS", srcref |-> r, rx |-> n])
      BY <1>4 DEF CountSource
    <2>2. n \in 0 .. MaxRx
      BY NstatAssumption DEF NstatAssumption
    <2> DEFINE m == [type |-> "SRC_COUNTS", srcref |-> r, rx |-> n]
    <2>3. m \in Message /\ m.type = "SRC_COUNTS"
      BY <2>2, Messages
    <2>4. announced' = announced
      BY <1>4 DEF CountSource
    <2>5. fromKernel' = Append(fromKernel, m)
      BY <2>1
    <2> HIDE DEF m
    <2> QED  BY <1>3, <2>3, <2>4, <2>5
  <1>5. CASE AnswerGetDesc
    <2> DEFINE r == Head(toKernel).srcref
               d == [type |-> "SRC_DESC", srcref |-> r, inc |-> sock[r].inc, state |-> sock[r].state]
    <2>1. r \in Ref
      <3>1. Head(toKernel) \in Request
        BY <1>5, HeadTailProperties DEF AnswerGetDesc, Handling, KernelTypeOK
      <3> QED  BY <1>5, <3>1, RequestFields DEF AnswerGetDesc, Handling
    <2>2. fromKernel' = Append(fromKernel, IF r \in announced THEN d ELSE [type |-> "ERROR"])
      BY <1>5 DEF AnswerGetDesc, Reply
    <2>3. /\ d \in Message /\ d.type = "SRC_DESC" /\ d.srcref = r /\ d.inc = sock[r].inc
          /\ [type |-> "ERROR"] \in Message
      BY <1>0, <2>1, Messages
    <2>4. announced' = announced
      BY <1>5 DEF AnswerGetDesc
    <2> HIDE DEF d, r
    <2>5. CASE r \in announced
      <3>1. Current(d.srcref, d.inc)
        BY <2>3, <2>5 DEF Current
      <3> QED  BY <1>3, <2>2, <2>3, <2>4, <2>5, <3>1
    <2>6. CASE r \notin announced
      BY <1>3, <2>2, <2>3, <2>4, <2>6
    <2> QED  BY <2>5, <2>6
  <1>6. CASE AnswerAddAll \/ RefuseAddAll \/ AnswerQuery \/ AnswerNone
    <2>1. PICK t \in {"SUCCESS", "ERROR"} : fromKernel' = Append(fromKernel, [type |-> t])
      BY <1>6, NstatAssumption
         DEF NstatAssumption, AnswerAddAll, RefuseAddAll, AnswerQuery, AnswerNone, Reply
    <2>2. announced' = announced
      BY <1>6 DEF AnswerAddAll, RefuseAddAll, AnswerQuery, AnswerNone
    <2>3. [type |-> t] \in Message
      BY Messages
    <2> QED  BY <1>3, <2>1, <2>2, <2>3
  <1> QED  BY <1>2, <1>4, <1>5, <1>6 DEF Kernel

\* What stands goes on standing when a message is sent: the removal is behind it.
LEMMA SentKeeps ==
    ASSUME KernelTypeOK, NEW m \in Message, Sent(m)
    PROVE  /\ DOMAIN fromKernel = 1 .. Len(fromKernel) /\ Len(fromKernel) \in Nat
           /\ DOMAIN fromKernel' = 1 .. Len(fromKernel) + 1
           /\ \A i \in DOMAIN fromKernel : fromKernel'[i] = fromKernel[i]
           /\ fromKernel'[Len(fromKernel) + 1] = m
           /\ \A r : \A i \in Nat : RemovalBehind(r, i) => RemovalBehind(r, i)'
           /\ \A r \in announced, i \in 0 .. Len(fromKernel) : Kept(r) \/ RemovalBehind(r, i)'
  <1> DEFINE n == Len(fromKernel)
  <1>1. fromKernel \in Seq(Message) /\ n \in Nat /\ DOMAIN fromKernel = 1 .. n
    BY LenProperties DEF KernelTypeOK
  <1>2. /\ fromKernel' \in Seq(Message) /\ Len(fromKernel') = n + 1
        /\ \A i \in 1 .. n : fromKernel'[i] = fromKernel[i]
        /\ fromKernel'[n + 1] = m
    BY <1>1, AppendProperties DEF Sent
  <1>3. DOMAIN fromKernel' = 1 .. n + 1
    BY <1>2, LenProperties
  <1> HIDE DEF n
  <1>4. ASSUME NEW r, NEW i \in Nat, RemovalBehind(r, i) PROVE RemovalBehind(r, i)'
    <2>1. PICK j \in 1 .. n : j > i /\ fromKernel[j] = Removal(r)
      BY <1>1, <1>4 DEF RemovalBehind
    <2>2. j \in 1 .. n + 1 /\ fromKernel'[j] = Removal(r)
      BY <1>1, <1>2, <2>1
    <2> QED  BY <1>3, <2>1, <2>2 DEF RemovalBehind, Removal
  <1>5. ASSUME NEW r \in announced, NEW i \in 0 .. n, ~Kept(r) PROVE RemovalBehind(r, i)'
    <2>1. m = Removal(r)
      BY <1>5 DEF Sent
    <2>2. n + 1 \in 1 .. n + 1 /\ n + 1 > i
      BY <1>1
    <2> QED  BY <1>2, <1>3, <2>1, <2>2 DEF RemovalBehind, Removal
  <1> QED  BY <1>1, <1>2, <1>3, <1>4, <1>5 DEF n

\* A source that is announced, or is to be removed, is so after any step of the kernel.
Stands(r, inc) == Current(r, inc) \/ RemovalBehind(r, 0)
IsKnown(r) == r \in announced \/ RemovalBehind(r, 0)

LEMMA SentOrder ==
    ASSUME KernelTypeOK, KernelOrder, LiveAnnounced', NEW m \in Message, Sent(m)
    PROVE  /\ KernelOrder'
           /\ \A r : IsKnown(r) => IsKnown(r)'
           /\ \A r, inc : Stands(r, inc) => Stands(r, inc)'
  <1> DEFINE n == Len(fromKernel)
  <1>0. /\ DOMAIN fromKernel = 1 .. n /\ n \in Nat
        /\ DOMAIN fromKernel' = 1 .. n + 1
        /\ \A i \in DOMAIN fromKernel : fromKernel'[i] = fromKernel[i]
        /\ fromKernel'[n + 1] = m
        /\ \A r : \A i \in Nat : RemovalBehind(r, i) => RemovalBehind(r, i)'
        /\ \A r \in announced, i \in 0 .. n : Kept(r) \/ RemovalBehind(r, i)'
    BY SentKeeps
  <1> HIDE DEF n
  <1>1. ASSUME NEW r, NEW i \in 0 .. n
        PROVE  /\ r \in announced \/ RemovalBehind(r, i)
                      => (r \in announced)' \/ RemovalBehind(r, i)'
               /\ \A inc : Current(r, inc) \/ RemovalBehind(r, i)
                      => Current(r, inc)' \/ RemovalBehind(r, i)'
    <2>1. RemovalBehind(r, i) => RemovalBehind(r, i)'
      BY <1>0
    <2>2. r \in announced => Kept(r) \/ RemovalBehind(r, i)'
      BY <1>0
    <2> HIDE DEF RemovalBehind
    <2> QED  BY <2>1, <2>2 DEF Current, Kept
  <1>2. ASSUME NEW i \in DOMAIN fromKernel' PROVE StandsAt(i)'
    <2>1. CASE i = n + 1
      BY <1>0, <2>1 DEF StandsAt, Sent, Current
    <2>2. CASE i # n + 1
      <3>1. i \in DOMAIN fromKernel /\ i \in 0 .. n /\ fromKernel'[i] = fromKernel[i]
        BY <1>0, <1>2, <2>2
      <3>2. StandsAt(i)
        BY <3>1 DEF KernelOrder
      <3> DEFINE q == fromKernel[i].srcref
                 c == fromKernel[i].inc
      <3>3. /\ q \in announced \/ RemovalBehind(q, i) => (q \in announced') \/ RemovalBehind(q, i)'
            /\ Current(q, c) \/ RemovalBehind(q, i) => Current(q, c)' \/ RemovalBehind(q, i)'
        BY <1>1, <3>1
      <3> QED  BY <3>1, <3>2, <3>3 DEF StandsAt, Current, RemovalBehind
    <2> QED  BY <2>1, <2>2
  <1>3. KernelOrder'
    BY <1>2 DEF KernelOrder
  <1>4. 0 \in 0 .. n
    BY <1>0
  <1> QED  BY <1>1, <1>3, <1>4 DEF IsKnown, Stands

\* The order is kept by the kernel and the sockets ...
LEMMA KernelKeepsOrder ==
    ASSUME KernelTypeOK, KernelOrder, Environment \/ Kernel
    PROVE  /\ KernelOrder'
           /\ \A r : IsKnown(r) => IsKnown(r)'
           /\ \A r, inc : Stands(r, inc) => Stands(r, inc)'
  <1>1. LiveAnnounced' /\ (NothingSent \/ \E m \in Message : Sent(m))
    BY EnvironmentSends, KernelSends DEF KernelOrder
  <1>2. CASE NothingSent
    <2>1. fromKernel' = fromKernel /\ \A r \in announced : Kept(r)
      BY <1>2 DEF NothingSent
    <2>2. \A r, i : RemovalBehind(r, i)' <=> RemovalBehind(r, i)
      BY <2>1 DEF RemovalBehind, Removal
    <2>3. \A r, inc : Current(r, inc) => Current(r, inc)'
      BY <2>1 DEF Current, Kept
    <2>4. \A r \in announced : r \in announced'
      BY <2>1 DEF Kept
    <2>5. \A i \in DOMAIN fromKernel : StandsAt(i) => StandsAt(i)'
      BY <2>1, <2>2, <2>3, <2>4 DEF StandsAt
    <2> QED  BY <1>1, <2>1, <2>2, <2>3, <2>4, <2>5 DEF KernelOrder, IsKnown, Stands
  <1>3. CASE \E m \in Message : Sent(m)
    BY <1>1, <1>3, SentOrder
  <1> QED  BY <1>1, <1>2, <1>3

\* ... and by the client that reads a message, of which it learns what stands.
LEMMA ReadKeepsOrder ==
    ASSUME KernelTypeOK, KernelOrder, fromKernel # <<>>, fromKernel' = Tail(fromKernel),
           UNCHANGED <<sock, announced>>
    PROVE  /\ KernelOrder'
           /\ \A r : Head(fromKernel).type = "SRC_ADDED" /\ Head(fromKernel).srcref = r => IsKnown(r)'
           /\ \A r, inc : /\ Head(fromKernel).type = "SRC_DESC"
                          /\ Head(fromKernel).srcref = r /\ Head(fromKernel).inc = inc
                          => Stands(r, inc)'
           /\ \A r : IsKnown(r) => IsKnown(r)' \/ Head(fromKernel) = Removal(r)
           /\ \A r, inc : Stands(r, inc) => Stands(r, inc)' \/ Head(fromKernel) = Removal(r)
  <1> DEFINE n == Len(fromKernel)
  <1>1. /\ fromKernel \in Seq(Message) /\ n \in Nat \ {0} /\ DOMAIN fromKernel = 1 .. n
        /\ Len(fromKernel') = n - 1 /\ fromKernel' \in Seq(Message)
        /\ \A i \in 1 .. n - 1 : fromKernel'[i] = fromKernel[i + 1]
        /\ Head(fromKernel) = fromKernel[1]
    BY HeadTailProperties, LenProperties, EmptySeq DEF KernelTypeOK
  <1>2. DOMAIN fromKernel' = 1 .. n - 1
    BY <1>1, LenProperties
  <1> HIDE DEF n
  <1>3. ASSUME NEW r, NEW i \in Nat, RemovalBehind(r, i + 1) PROVE RemovalBehind(r, i)'
    <2>1. PICK j \in 1 .. n : j > i + 1 /\ fromKernel[j] = Removal(r)
      BY <1>1, <1>3 DEF RemovalBehind
    <2>2. j - 1 \in 1 .. n - 1 /\ j - 1 > i /\ (j - 1) + 1 = j
      BY <1>1, <2>1
    <2>3. fromKernel'[j - 1] = Removal(r)
      BY <1>1, <2>1, <2>2
    <2> QED  BY <1>2, <2>2, <2>3 DEF RemovalBehind, Removal
  <1>4. ASSUME NEW r, RemovalBehind(r, 0) PROVE RemovalBehind(r, 0)' \/ Head(fromKernel) = Removal(r)
    <2>1. PICK j \in 1 .. n : fromKernel[j] = Removal(r)
      BY <1>1, <1>4 DEF RemovalBehind
    <2>2. CASE j = 1
      BY <1>1, <2>1, <2>2
    <2>3. CASE j # 1
      <3>1. j > 0 + 1 /\ 0 + 1 \in Nat
        BY <2>1, <2>3
      <3>2. RemovalBehind(r, 0 + 1)
        BY <1>1, <2>1, <3>1 DEF RemovalBehind
      <3> QED  BY <1>3, <3>2
    <2> QED  BY <2>2, <2>3
  <1>5. ASSUME NEW i \in 1 .. n - 1 PROVE StandsAt(i)'
    <2>1. i + 1 \in DOMAIN fromKernel /\ fromKernel'[i] = fromKernel[i + 1] /\ i \in Nat
      BY <1>1
    <2>2. StandsAt(i + 1)
      BY <2>1 DEF KernelOrder
    <2>3. \A r : RemovalBehind(r, i + 1) => RemovalBehind(r, i)'
      BY <1>3, <2>1
    <2> QED  BY <2>1, <2>2, <2>3 DEF StandsAt, Current
  <1>6. KernelOrder'
    BY <1>2, <1>5 DEF KernelOrder, LiveAnnounced
  <1>7. StandsAt(1)
    BY <1>1 DEF KernelOrder
  <1>8. \A r : RemovalBehind(r, 1) => RemovalBehind(r, 0)'
    <2>1. 0 \in Nat /\ 0 + 1 = 1
      OBVIOUS
    <2> QED  BY <1>3, <2>1
  <1>9. \A r, inc : Current(r, inc)' <=> Current(r, inc)
    BY DEF Current
  <1>10. ASSUME NEW r, Head(fromKernel).type = "SRC_ADDED", Head(fromKernel).srcref = r
         PROVE  IsKnown(r)'
    BY <1>1, <1>7, <1>8, <1>10 DEF StandsAt, IsKnown
  <1>11. ASSUME NEW r, NEW inc, Head(fromKernel).type = "SRC_DESC",
                Head(fromKernel).srcref = r, Head(fromKernel).inc = inc
         PROVE  Stands(r, inc)'
    <2>1. Current(r, inc) \/ RemovalBehind(r, 1)
      BY <1>1, <1>7, <1>11 DEF StandsAt
    <2> QED  BY <1>8, <1>9, <2>1 DEF Stands
  <1>12. \A r : IsKnown(r) => IsKnown(r)' \/ Head(fromKernel) = Removal(r)
    BY <1>4 DEF IsKnown
  <1>13. \A r, inc : Stands(r, inc) => Stands(r, inc)' \/ Head(fromKernel) = Removal(r)
    BY <1>4, <1>9 DEF Stands
  <1> QED  BY <1>6, <1>10, <1>11, <1>12, <1>13

LEMMA OrderInit == KernelInit => KernelOrder
  BY EmptySeq DEF KernelInit, KernelOrder, LiveAnnounced

\* What is sent stays until it is read ...
LEMMA MembersKept ==
    ASSUME KernelTypeOK, LiveAnnounced, Environment \/ Kernel
    PROVE  \A m : Member(m, fromKernel) => Member(m, fromKernel')
  <1>1. NothingSent \/ \E m \in Message : fromKernel' = Append(fromKernel, m)
    BY EnvironmentSends, KernelSends DEF Sent
  <1>2. CASE NothingSent
    BY <1>2 DEF NothingSent
  <1>3. ASSUME NEW e \in Message, fromKernel' = Append(fromKernel, e)
        PROVE  \A m : Member(m, fromKernel) => Member(m, fromKernel')
    BY <1>3, AppendMember DEF KernelTypeOK
  <1> QED  BY <1>1, <1>2, <1>3

\* ... and a description that is asked for is sent, unless the source is gone.
LEMMA RequestIsAnswered ==
    ASSUME KernelTypeOK, LiveAnnounced, Environment \/ Kernel, NEW r,
           Member(GetDesc(r), toKernel)
    PROVE  \/ Member(GetDesc(r), toKernel')
           \/ r \notin announced
           \/ \E m : Member(m, fromKernel') /\ m.type = "SRC_DESC" /\ m.srcref = r
  <1>0. toKernel \in Seq(Request) /\ fromKernel \in Seq(Message)
    BY DEF KernelTypeOK
  <1>1. CASE Environment
    <2>1. toKernel' = toKernel
      BY <1>1 DEF Environment, Open, Close, Change
    <2> QED  BY <2>1
  <1>2. CASE Kernel
    <2>1. toKernel # <<>>
      BY <1>2 DEF Kernel, AnnounceSource, CountSource, AnswerAddAll, RefuseAddAll,
                  AnswerGetDesc, AnswerQuery, AnswerNone, Handling
    <2>2. /\ Head(toKernel) \in Request /\ Tail(toKernel) \in Seq(Request)
          /\ GetDesc(r) = Head(toKernel) \/ Member(GetDesc(r), Tail(toKernel))
      BY <1>0, <2>1, HeadTailProperties, TailMember
    <2>3. CASE toKernel' = toKernel
      BY <2>3
    <2>4. CASE Member(GetDesc(r), Tail(toKernel)) /\ toKernel' = Tail(toKernel)
      BY <2>4
    <2>5. ASSUME NEW s \in Ref, CountSource(s), Member(GetDesc(r), Tail(toKernel))
          PROVE  Member(GetDesc(r), toKernel')
      <3> DEFINE e == [Head(toKernel) EXCEPT !.done = @ \cup {s}]
      <3>1. toKernel' = <<e>> \o Tail(toKernel)
        BY <2>5 DEF CountSource
      <3>2. e \in Request
        BY <2>2, <2>5, RequestFields DEF CountSource, Handling
      <3> HIDE DEF e
      <3> QED  BY <2>2, <2>5, <3>1, <3>2, ConsMember
    <2>6. CASE GetDesc(r) = Head(toKernel)
      <3>1. Head(toKernel).type = "GET_SRC_DESC" /\ Head(toKernel).srcref = r
        BY <2>6 DEF GetDesc
      <3>2. AnswerGetDesc \/ toKernel' = toKernel
        BY <1>2, <3>1 DEF Kernel, RefuseAddAll, AnswerAddAll, AnswerQuery, AnswerNone,
                          CountSource, AnnounceSource, Handling
      <3>3. ASSUME AnswerGetDesc, r \in announced
            PROVE  \E m : Member(m, fromKernel') /\ m.type = "SRC_DESC" /\ m.srcref = r
        <4> DEFINE d == [type |-> "SRC_DESC", srcref |-> r,
                         inc |-> sock[r].inc, state |-> sock[r].state]
        <4>1. fromKernel' = Append(fromKernel, d)
          BY <3>1, <3>3 DEF AnswerGetDesc, Reply
        <4>2. d \in Message /\ d.type = "SRC_DESC" /\ d.srcref = r
          <5>1. r \in Ref /\ sock[r].inc \in Nat /\ sock[r].state \in SockState
            BY <3>3 DEF KernelTypeOK
          <5> QED  BY <5>1, Messages
        <4> HIDE DEF d
        <4>3. Member(d, fromKernel')
          BY <1>0, <4>1, <4>2, AppendMember
        <4> QED  BY <4>2, <4>3
      <3> QED  BY <2>3, <3>2, <3>3
    <2>7. \/ toKernel' = toKernel \/ toKernel' = Tail(toKernel)
          \/ \E s \in Ref : CountSource(s)
      BY <1>2 DEF Kernel, AnnounceSource, AnswerAddAll, RefuseAddAll, AnswerGetDesc,
                  AnswerQuery, AnswerNone, Reply
    <2> QED  BY <2>2, <2>3, <2>4, <2>5, <2>6, <2>7
  <1> QED  BY <1>1, <1>2

\* A source that is announced anew is announced to the client, behind the removal
\* of the one that had its reference ...
LEMMA KernelReannounces ==
    ASSUME KernelTypeOK, LiveAnnounced, Reannounced, Environment \/ Kernel
    PROVE  /\ Reannounced'
           /\ \A r \in announced' : r \in announced \/ Member(Announcement(r), fromKernel')
  <1>1. CASE NothingSent
    BY <1>1 DEF NothingSent, Reannounced, AnnouncedBehind
  <1>2. ASSUME NEW m \in Message, Sent(m)
        PROVE  /\ Reannounced'
               /\ \A r \in announced' : r \in announced \/ Member(Announcement(r), fromKernel')
    <2> DEFINE n == Len(fromKernel)
    <2>1. /\ n \in Nat /\ DOMAIN fromKernel = 1 .. n
          /\ fromKernel' \in Seq(Message) /\ Len(fromKernel') = n + 1
          /\ \A i \in 1 .. n : fromKernel'[i] = fromKernel[i]
          /\ fromKernel'[n + 1] = m
      BY <1>2, AppendProperties, LenProperties DEF Sent, KernelTypeOK
    <2>2. DOMAIN fromKernel' = 1 .. n + 1
      BY <2>1, LenProperties
    <2> HIDE DEF n
    <2>3. \A r \in announced' : (r \in announced \/ m = Announcement(r)) /\ m # Removal(r)
      BY <1>2 DEF Sent
    <2>4. ASSUME NEW i \in DOMAIN fromKernel', NEW r \in announced', fromKernel'[i] = Removal(r)
          PROVE  \E j \in DOMAIN fromKernel' : j > i /\ fromKernel'[j] = Announcement(r)
      <3>1. i # n + 1
        BY <2>1, <2>3, <2>4
      <3>2. i \in 1 .. n /\ n + 1 > i /\ n + 1 \in DOMAIN fromKernel'
        BY <2>1, <2>2, <2>4, <3>1
      <3>3. CASE m = Announcement(r)
        BY <2>1, <3>2, <3>3
      <3>4. CASE r \in announced
        <4>1. PICK j \in 1 .. n : j > i /\ fromKernel[j] = Announcement(r)
          BY <2>1, <2>4, <3>2, <3>4 DEF Reannounced, AnnouncedBehind
        <4>2. j \in DOMAIN fromKernel'
          BY <2>1, <2>2, <4>1
        <4> QED  BY <2>1, <4>1, <4>2
      <3> QED  BY <2>3, <3>3, <3>4
    <2>5. \A r \in announced' : r \in announced \/ Member(Announcement(r), fromKernel')
      <3>1. n + 1 \in DOMAIN fromKernel'
        BY <2>1, <2>2
      <3> QED  BY <2>1, <2>3, <3>1 DEF Member
    <2>6. Reannounced'
      BY <2>4 DEF Reannounced, AnnouncedBehind, Announcement, Removal
    <2> QED  BY <2>5, <2>6
  <1> QED  BY <1>1, <1>2, EnvironmentSends, KernelSends

\* ... and not read before it.
LEMMA ReadKeepsReannounced ==
    ASSUME KernelTypeOK, Reannounced, fromKernel # <<>>, fromKernel' = Tail(fromKernel),
           UNCHANGED announced
    PROVE  /\ Reannounced'
           /\ \A r \in announced : Head(fromKernel) = Removal(r)
                                     => Member(Announcement(r), fromKernel')
  <1> DEFINE n == Len(fromKernel)
  <1>1. /\ fromKernel \in Seq(Message) /\ n \in Nat \ {0} /\ DOMAIN fromKernel = 1 .. n
        /\ Len(fromKernel') = n - 1 /\ fromKernel' \in Seq(Message)
        /\ \A i \in 1 .. n - 1 : fromKernel'[i] = fromKernel[i + 1]
        /\ Head(fromKernel) = fromKernel[1]
    BY HeadTailProperties, LenProperties, EmptySeq DEF KernelTypeOK
  <1>2. DOMAIN fromKernel' = 1 .. n - 1
    BY <1>1, LenProperties
  <1> HIDE DEF n
  <1>3. ASSUME NEW i \in 1 .. n, NEW r \in announced, fromKernel[i] = Removal(r)
        PROVE  \E j \in DOMAIN fromKernel' : j > i - 1 /\ fromKernel'[j] = Announcement(r)
    <2>1. PICK j \in 1 .. n : j > i /\ fromKernel[j] = Announcement(r)
      BY <1>1, <1>3 DEF Reannounced, AnnouncedBehind
    <2>2. j - 1 \in 1 .. n - 1 /\ j - 1 > i - 1 /\ (j - 1) + 1 = j
      BY <1>1, <2>1
    <2> QED  BY <1>1, <1>2, <2>1, <2>2
  <1>4. Reannounced'
    <2>1. ASSUME NEW i \in DOMAIN fromKernel', NEW r \in announced, fromKernel'[i] = Removal(r)
          PROVE  \E j \in DOMAIN fromKernel' : j > i /\ fromKernel'[j] = Announcement(r)
      <3>1. i + 1 \in 1 .. n /\ fromKernel[i + 1] = Removal(r) /\ (i + 1) - 1 = i
        BY <1>1, <1>2, <2>1
      <3> QED  BY <1>3, <3>1
    <2> QED  BY <2>1 DEF Reannounced, AnnouncedBehind, Announcement, Removal
  <1>5. ASSUME NEW r \in announced, Head(fromKernel) = Removal(r)
        PROVE  Member(Announcement(r), fromKernel')
    BY <1>1, <1>3, <1>5 DEF Member
  <1> QED  BY <1>4, <1>5

\* r is announced behind the i-th message only for a socket that came after its
\* removal was sent, also behind it.
AnewBehind(r, i) ==
    \A j \in DOMAIN fromKernel : j > i /\ fromKernel[j] = Announcement(r) =>
        \E k \in DOMAIN fromKernel : i < k /\ k < j /\ fromKernel[k] = Removal(r)

\* The description of a source is sent between its announcement and its removal.
DescOrder ==
    \A i \in DOMAIN fromKernel :
        fromKernel[i].type = "SRC_DESC" => AnewBehind(fromKernel[i].srcref, i)

\* This is so whatever the kernel sends ...
LEMMA KernelKeepsAnew ==
    ASSUME KernelTypeOK, KernelOrder, DescOrder, Environment \/ Kernel
    PROVE  /\ DescOrder'
           /\ \A r : IsKnown(r) /\ AnewBehind(r, 0) => AnewBehind(r, 0)'
  <1>1. CASE NothingSent
    <2>1. \A r, i : AnewBehind(r, i)' <=> AnewBehind(r, i)
      BY <1>1 DEF NothingSent, AnewBehind, Announcement, Removal
    <2> QED  BY <1>1, <2>1 DEF NothingSent, DescOrder
  <1>2. ASSUME NEW m \in Message, Sent(m)
        PROVE  /\ DescOrder'
               /\ \A r : IsKnown(r) /\ AnewBehind(r, 0) => AnewBehind(r, 0)'
    <2> DEFINE n == Len(fromKernel)
    <2>1. /\ DOMAIN fromKernel = 1 .. n /\ n \in Nat
          /\ DOMAIN fromKernel' = 1 .. n + 1
          /\ \A i \in DOMAIN fromKernel : fromKernel'[i] = fromKernel[i]
          /\ fromKernel'[n + 1] = m
      BY <1>2, SentKeeps
    <2> HIDE DEF n
    <2>2. \A r : m = Announcement(r) => r \notin announced
      BY <1>2 DEF Sent, Announcement
    <2>3. ASSUME NEW r, NEW i \in Nat, AnewBehind(r, i), r \in announced \/ RemovalBehind(r, i)
          PROVE  AnewBehind(r, i)'
      <3>1. ASSUME NEW j \in 1 .. n + 1, j > i, fromKernel'[j] = Announcement(r)
            PROVE  \E k \in 1 .. n + 1 : i < k /\ k < j /\ fromKernel'[k] = Removal(r)
        <4>1. CASE j = n + 1
          <5>1. PICK k \in 1 .. n : k > i /\ fromKernel[k] = Removal(r)
            BY <2>1, <2>2, <2>3, <3>1, <4>1 DEF RemovalBehind
          <5> QED  BY <2>1, <4>1, <5>1
        <4>2. CASE j # n + 1
          <5>1. j \in 1 .. n /\ fromKernel[j] = Announcement(r)
            BY <2>1, <3>1, <4>2
          <5>2. PICK k \in 1 .. n : i < k /\ k < j /\ fromKernel[k] = Removal(r)
            BY <2>1, <2>3, <3>1, <5>1 DEF AnewBehind
          <5> QED  BY <2>1, <5>2
        <4> QED  BY <4>1, <4>2
      <3> QED  BY <2>1, <3>1 DEF AnewBehind, Announcement, Removal
    <2>4. ASSUME NEW i \in 1 .. n + 1, fromKernel'[i].type = "SRC_DESC"
          PROVE  AnewBehind(fromKernel[i].srcref, i)'
      <3>1. CASE i = n + 1
        BY <2>1, <3>1 DEF AnewBehind
      <3>2. CASE i # n + 1
        <4>1. i \in DOMAIN fromKernel /\ i \in Nat /\ fromKernel'[i] = fromKernel[i]
          BY <2>1, <2>4, <3>2
        <4> DEFINE r == fromKernel[i].srcref
        <4>2. AnewBehind(r, i)
          BY <2>4, <4>1 DEF DescOrder
        <4>3. r \in announced \/ RemovalBehind(r, i)
          BY <2>4, <4>1 DEF KernelOrder, StandsAt, Current
        <4>4. \A q : q = r => AnewBehind(q, i)'
          BY <2>3, <4>1, <4>2, <4>3
        <4> QED  BY <4>1, <4>4
      <3> QED  BY <3>1, <3>2
    <2>5. DescOrder'
      BY <2>1, <2>4 DEF DescOrder
    <2> QED  BY <2>3, <2>5 DEF IsKnown
  <1> QED  BY <1>1, <1>2, EnvironmentSends, KernelSends DEF KernelOrder

\* ... and whatever the client reads: a source that has just been described, or
\* that stays so, is not the next to be announced.
LEMMA ReadKeepsAnew ==
    ASSUME KernelTypeOK, DescOrder, fromKernel # <<>>, fromKernel' = Tail(fromKernel)
    PROVE  /\ DescOrder'
           /\ \A r : Head(fromKernel).type = "SRC_DESC" /\ Head(fromKernel).srcref = r
                       => AnewBehind(r, 0)'
           /\ \A r : AnewBehind(r, 0) =>
                /\ Head(fromKernel) # Announcement(r)
                /\ Head(fromKernel) = Removal(r) \/ AnewBehind(r, 0)'
  <1> DEFINE n == Len(fromKernel)
  <1>1. /\ fromKernel \in Seq(Message) /\ n \in Nat \ {0} /\ DOMAIN fromKernel = 1 .. n
        /\ Len(fromKernel') = n - 1 /\ fromKernel' \in Seq(Message)
        /\ \A i \in 1 .. n - 1 : fromKernel'[i] = fromKernel[i + 1]
        /\ Head(fromKernel) = fromKernel[1]
    BY HeadTailProperties, LenProperties, EmptySeq DEF KernelTypeOK
  <1>2. DOMAIN fromKernel' = 1 .. n - 1
    BY <1>1, LenProperties
  <1> HIDE DEF n
  <1>3. ASSUME NEW r, NEW i \in Nat, AnewBehind(r, i + 1) PROVE AnewBehind(r, i)'
    <2>1. ASSUME NEW j \in 1 .. n - 1, j > i, fromKernel'[j] = Announcement(r)
          PROVE  \E k \in 1 .. n - 1 : i < k /\ k < j /\ fromKernel'[k] = Removal(r)
      <3>1. j + 1 \in 1 .. n /\ j + 1 > i + 1 /\ fromKernel[j + 1] = Announcement(r)
        BY <1>1, <2>1
      <3>2. PICK k \in 1 .. n : i + 1 < k /\ k < j + 1 /\ fromKernel[k] = Removal(r)
        BY <1>1, <1>3, <3>1 DEF AnewBehind
      <3>3. k - 1 \in 1 .. n - 1 /\ i < k - 1 /\ k - 1 < j /\ (k - 1) + 1 = k
        BY <1>1, <3>2
      <3>4. fromKernel'[k - 1] = Removal(r)
        BY <1>1, <3>2, <3>3
      <3> QED  BY <3>3, <3>4
    <2> QED  BY <1>2, <2>1 DEF AnewBehind, Announcement, Removal
  <1>4. ASSUME NEW i \in 1 .. n - 1, fromKernel'[i].type = "SRC_DESC"
        PROVE  AnewBehind(fromKernel[i].srcref, i)'
    <2>1. i + 1 \in DOMAIN fromKernel /\ i \in Nat /\ fromKernel'[i] = fromKernel[i + 1]
      BY <1>1
    <2>2. \A r : r = fromKernel[i + 1].srcref => AnewBehind(r, i)'
      BY <1>3, <1>4, <2>1 DEF DescOrder
    <2> QED  BY <2>1, <2>2
  <1>5. DescOrder'
    BY <1>2, <1>4 DEF DescOrder
  <1>6. \A r : AnewBehind(r, 1) => AnewBehind(r, 0)'
    <2>1. 0 \in Nat /\ 0 + 1 = 1
      OBVIOUS
    <2> QED  BY <1>3, <2>1
  <1>7. \A r : Head(fromKernel).type = "SRC_DESC" /\ Head(fromKernel).srcref = r
                 => AnewBehind(r, 0)'
    BY <1>1, <1>6 DEF DescOrder
  <1>8. ASSUME NEW r, AnewBehind(r, 0)
        PROVE  /\ Head(fromKernel) # Announcement(r)
               /\ Head(fromKernel) = Removal(r) \/ AnewBehind(r, 0)'
    <2>1. Head(fromKernel) # Announcement(r)
      BY <1>1, <1>8 DEF AnewBehind
    <2>2. ASSUME Head(fromKernel) # Removal(r) PROVE AnewBehind(r, 1)
      <3>1. ASSUME NEW j \in 1 .. n, j > 1, fromKernel[j] = Announcement(r)
            PROVE  \E k \in 1 .. n : 1 < k /\ k < j /\ fromKernel[k] = Removal(r)
        <4>1. PICK k \in 1 .. n : 0 < k /\ k < j /\ fromKernel[k] = Removal(r)
          BY <1>1, <1>8, <3>1 DEF AnewBehind
        <4>2. k # 1
          BY <1>1, <2>2, <4>1
        <4> QED  BY <4>1, <4>2
      <3> QED  BY <1>1, <3>1 DEF AnewBehind
    <2> QED  BY <1>6, <2>1, <2>2
  <1> QED  BY <1>5, <1>7, <1>8
=============================================================================
