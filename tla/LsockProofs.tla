----------------------------- MODULE LsockProofs -----------------------------
(***************************************************************************)
(* Proofs about Lsock: type correctness; a client blocked in refreshSrc or *)
(* querySources always has an answer coming; a row without text will get   *)
(* it, a row with text is that of a live socket and shows the last counts; *)
(* and what lsock once prints.                                             *)
(***************************************************************************)
EXTENDS Lsock, NstatProofs, WellFoundedInduction

-----------------------------------------------------------------------------
(* Type correctness                                                        *)

LEMMA InitType == Init => TypeOK
  <1> SUFFICES ASSUME Init PROVE TypeOK
    OBVIOUS
  <1>1. todo \in Seq(Provider)
    <2> DEFINE tcp == IF want.tcp THEN <<"TCP_KERNEL", "TCP_USERLAND">> ELSE <<>>
               udp == IF want.udp THEN <<"UDP_KERNEL", "UDP_USERLAND">> ELSE <<>>
    <2>1. /\ <<"TCP_KERNEL", "TCP_USERLAND">> \in Seq(Provider)
          /\ <<"UDP_KERNEL", "UDP_USERLAND">> \in Seq(Provider)
      BY DEF Provider, TcpProvider, UdpProvider
    <2>1a. tcp \in Seq(Provider) /\ udp \in Seq(Provider)
      BY <2>1, EmptySeq
    <2>2. todo = tcp \o udp
      BY DEF Init, LsockInit
    <2> HIDE DEF tcp, udp
    <2> QED  BY <2>1a, <2>2, ConcatProperties
  <1>2. src \in 0 .. MAX_DESC
    BY NstatAssumption DEF NstatAssumption, Init, LsockInit
  <1>3. 0 \in 0 .. MaxRx
    BY NstatAssumption DEF NstatAssumption
  <1>4. nest \in Seq([ref : Ref, row : Text])
    BY EmptySeq DEF Init, LsockInit
  <1> QED  BY <1>1, <1>2, <1>3, <1>4, KernelInitType, LsockAssumption
           DEF LsockAssumption, Init, LsockInit, TypeOK, TableTypeOK, ControlTypeOK,
               NestTypeOK, PC

\* Handling a message of the queue shortens it; every datum is typed.
LEMMA ReadType ==
    ASSUME KernelTypeOK, NEW t, ReadNext(t)
    PROVE  /\ Head(fromKernel) \in Message
           /\ fromKernel' \in Seq(Message)
  BY HeadTailProperties DEF ReadNext, KernelTypeOK

\* Unwinding the nested calls stores rows with text.
LEMMA UnwindType ==
    ASSUME NestTypeOK, NEW rows \in [Ref -> {NULL, Reading} \cup Text]
    PROVE  Unwind(rows) \in [Ref -> {NULL, Reading} \cup Text]
  <1> SUFFICES ASSUME NEW r \in Ref
               PROVE  Unwind(rows)[r] \in {NULL, Reading} \cup Text
    BY DEF Unwind
  <1>1. CASE OutermostCall(r) = {}
    BY <1>1 DEF Unwind
  <1>2. CASE OutermostCall(r) # {}
    <2>1. PICK i \in OutermostCall(r) : Unwind(rows)[r] = nest[i].row
      BY <1>2 DEF Unwind
    <2>2. i \in 1 .. Len(nest)
      BY LenProperties DEF NestTypeOK, OutermostCall
    <2>3. nest[i] \in [ref : Ref, row : Text]
      BY <2>2, ElementOfSeq DEF NestTypeOK
    <2> QED  BY <2>1, <2>3
  <1> QED  BY <1>1, <1>2

LEMMA PrintedType ==
    ASSUME NEW rows \in [Ref -> {NULL, Reading} \cup Text], NEW filter
    PROVE  Printed(rows, filter) \in [Ref -> {NULL} \cup Text]
  BY DEF Printed, Shown, Reading

\* Returning from process_nstat_msg with typed rows.
LEMMA ReturnType ==
    ASSUME TypeOK, CallsOK, NEW rows \in [Ref -> {NULL, Reading} \cup Text],
           Return(rows), pc \in {"addWait", "refreshWait", "query", "main"}
    PROVE  /\ descriptors' \in [Ref -> {NULL, Reading} \cup Text]
           /\ pc' \in PC /\ src' \in 0 .. MAX_DESC /\ NestTypeOK'
           /\ todo' = todo => CallsOK'
  <1>1. descriptors' \in [Ref -> {NULL, Reading} \cup Text]
    BY UnwindType DEF Return, TypeOK
  <1>2. pc' \in PC
    BY DEF Return, PC
  <1>3. src' \in 0 .. MAX_DESC
    BY NstatAssumption DEF Return, TypeOK, ControlTypeOK, CallsOK, Ref, NstatAssumption
  <1>4. NestTypeOK'
    BY EmptySeq DEF Return, NestTypeOK
  <1>5. todo' = todo => CallsOK'
    BY DEF Return, CallsOK
  <1> QED  BY <1>1, <1>2, <1>3, <1>4, <1>5

\* One lemma per group of steps: addAll and main, then the message handlers.
LEMMA WriteType ==
    ASSUME KernelTypeOK, NEW req \in Request, write(req),
           UNCHANGED <<sock, announced, watched, changes>>,
           fromKernel' \in Seq(Message)
    PROVE  KernelTypeOK'
  BY AppendProperties DEF write, KernelTypeOK

LEMMA CallType ==
    ASSUME TypeOK, CallsOK,
           AddAll \/ RefreshNext \/ RefreshDone \/ GotAll \/ Timeout \/ MainTail
    PROVE  TypeOK' /\ CallsOK'
  <1> USE DEF TypeOK
  <1>0. fromKernel \in Seq(Message)
    BY DEF KernelTypeOK
  <1>1. CASE AddAll
    <2>1. Head(todo) \in Provider
      BY <1>1, HeadTailProperties DEF AddAll, ControlTypeOK, CallsOK
    <2>2. KernelTypeOK'
      BY <1>0, <1>1, <2>1, Requests, WriteType DEF AddAll
    <2> QED  BY <1>1, <2>2
             DEF AddAll, tableVars, callVars, TableTypeOK, ControlTypeOK, NestTypeOK,
                 CallsOK, PC
  <1>2. CASE RefreshNext
    <2>1. PICK s \in Ref : src' = s /\ write([type |-> "GET_SRC_DESC", srcref |-> s])
      BY <1>2 DEF RefreshNext
    <2>2. KernelTypeOK'
      BY <1>0, <1>2, <2>1, Requests, WriteType DEF RefreshNext
    <2>3. src' \in 0 .. MAX_DESC
      BY <2>1, NstatAssumption DEF Ref, NstatAssumption
    <2> QED  BY <1>2, <2>1, <2>2, <2>3
             DEF RefreshNext, tableVars, callVars, TableTypeOK, ControlTypeOK,
                 NestTypeOK, CallsOK, PC
  <1>3. CASE RefreshDone
    <2>1. /\ Tail(todo) \in Seq(Provider) /\ Len(todo) \in Nat
          /\ Len(Tail(todo)) = Len(todo) - 1
      BY <1>3, HeadTailProperties, LenProperties DEF RefreshDone, ControlTypeOK, CallsOK
    <2>2. Len(todo) > 1 => Tail(todo) # <<>>
      <3>1. Len(todo) > 1 => Len(Tail(todo)) # 0
        BY <2>1
      <3> QED  BY <3>1, LongerThanEmpty
    <2>3. /\ pc' \in {"addAll", "main", "gotAll"}
          /\ pc' = "addAll" => Len(todo) > 1
      <3>1. CASE Len(todo) > 1
        BY <1>3, <3>1 DEF RefreshDone
      <3>2. CASE ~(Len(todo) > 1)
        BY <1>3, <2>1, <3>2 DEF RefreshDone
      <3> QED  BY <3>1, <3>2
    <2>4. 0 \in 0 .. MAX_DESC
      BY NstatAssumption DEF NstatAssumption
    <2>5. startup' \in BOOLEAN
      BY <1>3 DEF RefreshDone
    <2> QED  BY <1>3, <2>1, <2>2, <2>3, <2>4, <2>5
             DEF RefreshDone, kernelVars, tableVars, KernelTypeOK, TableTypeOK,
                 ControlTypeOK, NestTypeOK, CallsOK, PC
  <1>4. CASE GotAll
    <2>1. KernelTypeOK'
      <3>1. CASE toKernel' = toKernel
        BY <1>4, <3>1 DEF GotAll, KernelTypeOK
      <3>2. CASE write([type |-> "QUERY_SRC", done |-> {}])
        BY <1>0, <1>4, <3>2, Requests, WriteType DEF GotAll
      <3> QED  BY <1>4, <3>1, <3>2 DEF GotAll
    <2>2. flags' \in [tcpAdded : BOOLEAN, udpAdded : BOOLEAN,
                      gettingCounts : BOOLEAN, gotCounts : BOOLEAN]
      BY <1>4 DEF GotAll, ControlTypeOK
    <2> QED  BY <1>4, <2>1, <2>2
             DEF GotAll, tableVars, callVars, TableTypeOK, ControlTypeOK, NestTypeOK,
                 CallsOK, PC
  <1>5. CASE Timeout
    <2>1. KernelTypeOK'
      <3>1. CASE toKernel' = toKernel
        BY <1>5, <3>1 DEF Timeout, KernelTypeOK
      <3>2. CASE write([type |-> "NONE"])
        BY <1>0, <1>5, <3>2, Requests, WriteType DEF Timeout
      <3> QED  BY <1>5, <3>1, <3>2 DEF Timeout
    <2>2. screen' \in [Ref -> {NULL} \cup Text]
      BY <1>5, PrintedType DEF Timeout, TableTypeOK
    <2>3. pc' \in {"exit", "query"}
      BY <1>5 DEF Timeout
    <2> QED  BY <1>5, <2>1, <2>2, <2>3
             DEF Timeout, tableVars, callVars, TableTypeOK, ControlTypeOK, NestTypeOK,
                 CallsOK, PC
  <1>6. CASE MainTail
    <2>1. PICK key : want' = Toggled(key) /\ pc' = (IF key = "Q" THEN "exit" ELSE "main")
      BY <1>6 DEF MainTail
    <2>2. want' \in Want
      BY <2>1 DEF Toggled, ControlTypeOK, Want
    <2>3. /\ screen' \in [Ref -> {NULL} \cup Text]
          /\ descriptors' \in [Ref -> {NULL, Reading} \cup Text]
      BY <1>6, PrintedType DEF MainTail, TableTypeOK
    <2>4. pc' \in {"exit", "main"}
      BY <2>1
    <2> QED  BY <1>6, <2>2, <2>3, <2>4
             DEF MainTail, kernelVars, tableVars, callVars, KernelTypeOK, TableTypeOK,
                 ControlTypeOK, NestTypeOK, CallsOK, PC
  <1> QED  BY <1>1, <1>2, <1>3, <1>4, <1>5, <1>6

\* Reading a message keeps the kernel's variables typed when the client
\* writes no request ...
LEMMA ReadKernelType ==
    ASSUME KernelTypeOK, NEW t, ReadNext(t),
           UNCHANGED <<sock, announced, watched, changes, toKernel>>
    PROVE  KernelTypeOK'
  BY ReadType DEF KernelTypeOK

\* ... and when it writes one.
LEMMA ReadWriteType ==
    ASSUME KernelTypeOK, NEW t, ReadNext(t), NEW req \in Request, write(req),
           UNCHANGED <<sock, announced, watched, changes>>
    PROVE  KernelTypeOK'
  BY ReadType, WriteType

\* The text formatted for a description is typed.
LEMMA RowTextType ==
    ASSUME TypeOK, NEW m \in Message, m.type = "SRC_DESC"
    PROVE  RowText(m) \in Text
  BY MessageFields DEF RowText, Text, TypeOK, TableTypeOK

LEMMA ReceiveType ==
    ASSUME TypeOK, CallsOK, Receive
    PROVE  TypeOK' /\ CallsOK'
  <1> DEFINE m == Head(fromKernel)
             Rows == [Ref -> {NULL, Reading} \cup Text]
  <1>0. /\ KernelTypeOK /\ TableTypeOK /\ ControlTypeOK /\ NestTypeOK
        /\ descriptors \in Rows
    BY DEF TypeOK, TableTypeOK
  <1>r. ASSUME NEW t, ReadNext(t)
        PROVE  /\ m \in Message /\ m.type = t
               /\ pc \in {"addWait", "refreshWait", "query", "main"}
    BY <1>0, <1>r, ReadType DEF ReadNext
  <1>1. CASE SrcAdded
    <2>1. m.srcref \in Ref
      BY <1>1, <1>r, MessageFields DEF SrcAdded
    <2>2. KernelTypeOK'
      BY <1>0, <1>1, <2>1, ReadWriteType, Requests DEF SrcAdded
    <2>3. [descriptors EXCEPT ![m.srcref] = Reading] \in Rows
      BY <1>0, <2>1
    <2>4. Return([descriptors EXCEPT ![m.srcref] = Reading])
      BY <1>1 DEF SrcAdded
    <2>5. descriptorCounts' \in [Ref -> 0 .. MaxRx]
      BY <1>0, <1>1, <2>1, NstatAssumption DEF NstatAssumption, SrcAdded, TableTypeOK
    <2> HIDE DEF m
    <2> QED  BY <1>0, <1>1, <1>r, <2>2, <2>3, <2>4, <2>5, ReturnType
             DEF SrcAdded, callVars, TypeOK, TableTypeOK, ControlTypeOK, PC
  <1>2. CASE SrcRemoved
    <2>1. m.srcref \in Ref
      BY <1>2, <1>r, MessageFields DEF SrcRemoved
    <2>2. KernelTypeOK'
      BY <1>0, <1>2, ReadKernelType DEF SrcRemoved
    <2> DEFINE rows == [descriptors EXCEPT ![m.srcref] = NULL]
    <2>3. rows \in Rows
      BY <1>0, <2>1
    <2>4. Return(rows)
      BY <1>2 DEF SrcRemoved
    <2>5. screen' = Printed(rows, want) \/ screen' = screen
      BY <1>2 DEF SrcRemoved
    <2> HIDE DEF rows
    <2>6. screen' \in [Ref -> {NULL} \cup Text]
      BY <1>0, <2>3, <2>5, PrintedType DEF TableTypeOK
    <2> QED  BY <1>0, <1>2, <1>r, <2>2, <2>3, <2>4, <2>6, ReturnType
             DEF SrcRemoved, callVars, TypeOK, TableTypeOK, ControlTypeOK
  <1>3. CASE FreeLiteral
    <2>1. KernelTypeOK'
      BY <1>0, <1>3, ReadKernelType DEF FreeLiteral
    <2> QED  BY <1>0, <1>3, <2>1, EmptySeq
             DEF FreeLiteral, tableVars, callVars, TypeOK, TableTypeOK, ControlTypeOK,
                 NestTypeOK, CallsOK, PC
  <1>4. CASE SrcCounts
    <2>1. m.srcref \in Ref /\ m.rx \in 0 .. MaxRx
      BY <1>4, <1>r, MessageFields DEF SrcCounts
    <2>2. KernelTypeOK'
      BY <1>0, <1>4, ReadKernelType DEF SrcCounts
    <2> DEFINE rows == IF descriptors[m.srcref].kind = "text"
                       THEN [descriptors EXCEPT ![m.srcref] = [@ EXCEPT !.rx = m.rx]]
                       ELSE descriptors
    <2>3. rows \in Rows
      <3>1. CASE descriptors[m.srcref].kind = "text"
        <4>1. descriptors[m.srcref] \in Text
          BY <1>0, <2>1, <3>1 DEF NULL, Reading
        <4>2. [descriptors[m.srcref] EXCEPT !.rx = m.rx] \in Text
          BY <2>1, <4>1 DEF Text
        <4> QED  BY <1>0, <2>1, <3>1, <4>2
      <3>2. CASE descriptors[m.srcref].kind # "text"
        BY <1>0, <3>2
      <3> QED  BY <3>1, <3>2
    <2>4. Return(rows)
      BY <1>4 DEF SrcCounts
    <2>5. descriptorCounts' \in [Ref -> 0 .. MaxRx]
      BY <1>0, <1>4, <2>1 DEF SrcCounts, TableTypeOK
    <2> HIDE DEF m, rows
    <2> QED  BY <1>0, <1>4, <1>r, <2>2, <2>3, <2>4, <2>5, ReturnType
             DEF SrcCounts, callVars, TypeOK, TableTypeOK, ControlTypeOK
  <1>5. CASE SrcDesc
    <2>1. m.srcref \in Ref /\ RowText(m) \in Text
      BY <1>5, <1>r, MessageFields, RowTextType DEF SrcDesc
    <2>2. KernelTypeOK'
      BY <1>0, <1>5, ReadKernelType DEF SrcDesc
    <2>3. [descriptors EXCEPT ![m.srcref] = RowText(m)] \in Rows
      BY <1>0, <2>1
    <2>4. Return([descriptors EXCEPT ![m.srcref] = RowText(m)])
      BY <1>5 DEF SrcDesc
    <2> HIDE DEF m
    <2> QED  BY <1>0, <1>5, <1>r, <2>2, <2>3, <2>4, ReturnType
             DEF SrcDesc, callVars, TypeOK, TableTypeOK, ControlTypeOK
  <1>6. CASE SrcDescClosed
    <2>1. m.srcref \in Ref /\ RowText(m) \in Text
      BY <1>6, <1>r, MessageFields, RowTextType DEF SrcDescClosed
    <2>2. KernelTypeOK'
      BY <1>0, <1>6, <2>1, ReadWriteType, Requests DEF SrcDescClosed
    <2>3. [ref |-> m.srcref, row |-> RowText(m)] \in [ref : Ref, row : Text]
      BY <2>1
    <2>4. NestTypeOK'
      BY <1>0, <1>6, <2>3, AppendProperties DEF SrcDescClosed, NestTypeOK
    <2> HIDE DEF m
    <2> QED  BY <1>0, <1>6, <2>2, <2>4
             DEF SrcDescClosed, tableVars, callVars, TypeOK, TableTypeOK, ControlTypeOK,
                 CallsOK
  <1>7. CASE StackOverflow
    <2>1. KernelTypeOK'
      BY <1>0, <1>7, ReadKernelType DEF StackOverflow
    <2> QED  BY <1>0, <1>7, <2>1, EmptySeq
             DEF StackOverflow, tableVars, callVars, TypeOK, TableTypeOK, ControlTypeOK,
                 NestTypeOK, CallsOK, PC
  <1>8. CASE ReadError
    <2>1. KernelTypeOK'
      BY <1>0, <1>8, ReadKernelType DEF ReadError
    <2> QED  BY <1>0, <1>8, <1>r, <2>1, ReturnType
             DEF ReadError, callVars, TypeOK, TableTypeOK, ControlTypeOK
  <1>9. CASE AddAllSuccess
    <2>1. KernelTypeOK'
      BY <1>0, <1>9, ReadKernelType DEF AddAllSuccess
    <2> QED  BY <1>0, <1>9, <2>1, NstatAssumption
             DEF AddAllSuccess, tableVars, callVars, TypeOK, TableTypeOK, ControlTypeOK,
                 NestTypeOK, CallsOK, PC, NstatAssumption
  <1>10. CASE MainSuccess
    <2>1. KernelTypeOK'
      BY <1>0, <1>10, ReadKernelType DEF MainSuccess
    <2>2. /\ <<"TCP_USERLAND", "TCP_KERNEL">> \in Seq(Provider)
          /\ <<"UDP_KERNEL", "UDP_USERLAND">> \in Seq(Provider)
      BY DEF Provider, TcpProvider, UdpProvider
    <2>2a. \/ todo' = <<"TCP_USERLAND", "TCP_KERNEL">>
           \/ todo' = <<"UDP_KERNEL", "UDP_USERLAND">>
      BY <1>10 DEF MainSuccess
    <2>2b. /\ Len(<<"TCP_USERLAND", "TCP_KERNEL">>) = 2
           /\ Len(<<"UDP_KERNEL", "UDP_USERLAND">>) = 2
      OBVIOUS
    <2>3. todo' \in Seq(Provider) /\ todo' # <<>>
      <3>1. todo' \in Seq(Provider)
        BY <2>2, <2>2a
      <3>2. Len(todo') = 2
        BY <2>2a, <2>2b
      <3>3. todo' # <<>>
        BY <3>2, LenEmpty
      <3> QED  BY <3>1, <3>3
    <2>4. flags' \in [tcpAdded : BOOLEAN, udpAdded : BOOLEAN,
                      gettingCounts : BOOLEAN, gotCounts : BOOLEAN]
      BY <1>0, <1>10 DEF MainSuccess, ControlTypeOK
    <2> QED  BY <1>0, <1>10, <2>1, <2>3, <2>4
             DEF MainSuccess, tableVars, TypeOK, TableTypeOK, ControlTypeOK,
                 NestTypeOK, CallsOK, PC
  <1>11. CASE OtherSuccess
    <2>1. KernelTypeOK'
      BY <1>0, <1>11, ReadKernelType DEF OtherSuccess
    <2> QED  BY <1>0, <1>11, <1>r, <2>1, ReturnType
             DEF OtherSuccess, callVars, TypeOK, TableTypeOK, ControlTypeOK
  <1> QED  BY <1>1, <1>2, <1>3, <1>4, <1>5, <1>6, <1>7, <1>8, <1>9, <1>10, <1>11
           DEF Receive

-----------------------------------------------------------------------------
(* The two theorems                                                        *)

LEMMA TodoNotEmpty == LsockInit => todo # <<>>
  <1> SUFFICES ASSUME LsockInit PROVE todo # <<>>
    OBVIOUS
  <1> DEFINE tcp == IF want.tcp THEN <<"TCP_KERNEL", "TCP_USERLAND">> ELSE <<>>
             udp == IF want.udp THEN <<"UDP_KERNEL", "UDP_USERLAND">> ELSE <<>>
  <1>1. /\ <<"TCP_KERNEL", "TCP_USERLAND">> \in Seq(Provider)
        /\ <<"UDP_KERNEL", "UDP_USERLAND">> \in Seq(Provider)
        /\ Len(<<"TCP_KERNEL", "TCP_USERLAND">>) = 2
        /\ Len(<<"UDP_KERNEL", "UDP_USERLAND">>) = 2
    BY DEF Provider, TcpProvider, UdpProvider
  <1>2. tcp \in Seq(Provider) /\ udp \in Seq(Provider)
    BY <1>1, EmptySeq
  <1>2a. want.tcp \/ want.udp
    BY LsockAssumption DEF LsockAssumption, LsockInit
  <1>3. Len(tcp) + Len(udp) > 0
    BY <1>1, <1>2a, LenEmpty
  <1>4. todo = tcp \o udp
    BY DEF LsockInit
  <1> HIDE DEF tcp, udp
  <1>5. Len(todo) > 0
    BY <1>2, <1>3, <1>4, ConcatProperties
  <1> QED  BY <1>5, LenEmpty

\* A step of any process keeps the types.
LEMMA NextType == TypeOK /\ CallsOK /\ [Next]_vars => TypeOK' /\ CallsOK'
  <1> SUFFICES ASSUME TypeOK, CallsOK, [Next]_vars PROVE TypeOK' /\ CallsOK'
    OBVIOUS
  <1>1. CASE Client
    BY <1>1, CallType, ReceiveType DEF Client
  <1>2. CASE (Environment \/ Kernel) /\ UNCHANGED lsockVars
    BY <1>2, EnvironmentType, KernelType
       DEF lsockVars, TypeOK, TableTypeOK, ControlTypeOK, NestTypeOK, CallsOK
  <1>3. CASE UNCHANGED vars
    BY <1>3 DEF vars, kernelVars, lsockVars, TypeOK, KernelTypeOK, TableTypeOK,
                ControlTypeOK, NestTypeOK, CallsOK
  <1> QED  BY <1>1, <1>2, <1>3 DEF Next, Terminated

\* lsock's variables keep their types: in particular the row of every message
\* is a row of the table, and addAll always has a provider to add.
THEOREM TypeCorrect == Spec => [](TypeOK /\ CallsOK)
  <1>1. Init => TypeOK /\ CallsOK
    BY InitType, TodoNotEmpty DEF CallsOK, Init, LsockInit
  <1> QED  BY <1>1, NextType, PTL DEF Spec

\* A client blocked in refreshSrc (nested or not) or querySources always has
\* a message to read or a request the kernel has yet to answer.
THEOREM ReadsAreAnswered == Spec => []ReadIsAnswered
  <1>1. Init => ReadIsAnswered
    BY DEF Init, LsockInit, ReadIsAnswered
  <1>2. TypeOK /\ CallsOK /\ ReadIsAnswered /\ [Next]_vars => ReadIsAnswered'
    <2> SUFFICES ASSUME TypeOK, CallsOK, ReadIsAnswered, [Next]_vars
                 PROVE  ReadIsAnswered'
      OBVIOUS
    <2>0. toKernel \in Seq(Request) /\ fromKernel \in Seq(Message)
      BY DEF TypeOK, KernelTypeOK
    <2>w. ASSUME NEW req \in Request, write(req) PROVE toKernel' # <<>>
      BY <2>0, <2>w, QueueFacts DEF write
    <2>k. \A m \in Message : Append(fromKernel, m) # <<>>
      BY <2>0, QueueFacts
    \* Steps that neither read nor wait leave the queues alone or write.
    <2>11. CASE AddAll
      <3>1. Head(todo) \in Provider
        BY <2>11, HeadTailProperties DEF AddAll, TypeOK, ControlTypeOK, CallsOK
      <3>2. toKernel' # <<>>
        BY <2>11, <2>w, <3>1, Requests DEF AddAll
      <3> QED  BY <3>2 DEF ReadIsAnswered
    <2>12. CASE MainTail
      <3>1. pc = "tail" /\ pc' \in {"exit", "main"}
        BY <2>12 DEF MainTail
      <3> QED  BY <2>12, <3>1 DEF MainTail, kernelVars, ReadIsAnswered
    <2>1. CASE RefreshDone
      <3>1. pc = "refresh" /\ pc' \in {"addAll", "main", "gotAll"}
        <4>1. Len(todo) \in Nat
          BY LenProperties DEF TypeOK, ControlTypeOK
        <4> QED  BY <2>1, <4>1 DEF RefreshDone
      <3> QED  BY <2>1, <3>1 DEF RefreshDone, kernelVars, ReadIsAnswered
    <2>2. CASE RefreshNext
      <3>1. PICK s \in Ref : write([type |-> "GET_SRC_DESC", srcref |-> s])
        BY <2>2 DEF RefreshNext
      <3> QED  BY <2>w, <3>1, Requests DEF ReadIsAnswered
    <2>3. CASE GotAll
      <3>1. toKernel' = toKernel \/ toKernel' # <<>>
        BY <2>3, <2>w, Requests DEF GotAll
      <3> QED  BY <2>3, <3>1 DEF GotAll, ReadIsAnswered
    <2>4. CASE Timeout
      <3>1. CASE want.mode = "once"
        BY <2>4, <3>1 DEF Timeout, ReadIsAnswered
      <3>2. CASE want.mode # "once"
        BY <2>4, <2>w, <3>2, Requests DEF Timeout, ReadIsAnswered
      <3> QED  BY <3>1, <3>2
    \* A handler that returns stops waiting; one that nests writes first.
    <2>5. CASE \E rows : Return(rows)
      BY <2>5 DEF Return, ReadIsAnswered
    <2>6. CASE SrcDescClosed
      <3>1. Head(fromKernel).srcref \in Ref
        BY <2>6, ReadType, MessageFields DEF SrcDescClosed, TypeOK, ReadNext
      <3>2. write([type |-> "GET_SRC_DESC", srcref |-> Head(fromKernel).srcref])
        BY <2>6 DEF SrcDescClosed
      <3> QED  BY <2>w, <3>1, <3>2, Requests DEF ReadIsAnswered
    <2>7. CASE FreeLiteral \/ StackOverflow \/ AddAllSuccess \/ MainSuccess
      BY <2>7 DEF FreeLiteral, StackOverflow, AddAllSuccess, MainSuccess, ReadIsAnswered
    <2>8. CASE Receive
      <3>1. Receive => \/ SrcDescClosed \/ \E rows : Return(rows)
                       \/ FreeLiteral \/ StackOverflow \/ AddAllSuccess \/ MainSuccess
        BY DEF Receive, SrcAdded, SrcRemoved, SrcCounts, SrcDesc, ReadError, OtherSuccess
      <3> QED  BY <2>5, <2>6, <2>7, <2>8, <3>1
    \* The kernel never takes back a message, and answers what it removes.
    <2>9. CASE (Environment \/ Kernel) /\ UNCHANGED lsockVars
      <3>1. CASE Environment
        <4>1. PICK r \in Ref : Open(r) \/ Close(r) \/ Change(r)
          BY <3>1 DEF Environment
        <4>2. toKernel' = toKernel /\ (fromKernel' = fromKernel \/ fromKernel' # <<>>)
          BY <2>k, <4>1, Messages DEF Open, Close, Change
        <4> QED  BY <2>9, <4>2 DEF lsockVars, ReadIsAnswered
      <3>2. CASE Kernel
        <4>1. KernelTypeOK'
          BY <3>2, KernelType DEF TypeOK
        <4>2. PICK m : fromKernel' = Append(fromKernel, m)
          BY <3>2 DEF Kernel, AnnounceSource, CountSource, AnswerAddAll, RefuseAddAll,
                      AnswerGetDesc, AnswerQuery, AnswerNone, Reply
        <4>3. fromKernel' # <<>>
          BY <2>0, <4>2
        <4> QED  BY <2>9, <4>3 DEF lsockVars, ReadIsAnswered
      <3> QED  BY <2>9, <3>1, <3>2
    <2>10. CASE UNCHANGED vars
      BY <2>10 DEF vars, kernelVars, lsockVars, ReadIsAnswered
    <2> QED  BY <2>11, <2>12, <2>1, <2>2, <2>3, <2>4, <2>8, <2>9, <2>10
             DEF Next, Client, Terminated
  <1> QED  BY <1>1, <1>2, TypeCorrect, PTL DEF Spec

-----------------------------------------------------------------------------
(* The rows.  The argument is about what is under way.  KernelOrder        *)
(* (NstatProofs) says that a source stands from its announcement to its    *)
(* removal, which is sent behind all that was said of it; so a row stands  *)
(* until the client reads that removal, and then it is gone.               *)

Rows == [Ref -> {NULL, Reading} \cup Text]

\* The description of r is asked for or under way, or its removal is.
Asked(r) ==
    \/ Requested([type |-> "GET_SRC_DESC", srcref |-> r])
    \/ PendingDesc(r)
    \/ Pending(Removal(r))

InNest(r) == \E i \in DOMAIN nest : nest[i].ref = r

\* Only the rows of CLOSED sockets are stored after a nested refresh.
NestIsClosed == \A i \in DOMAIN nest : nest[i].row.state = "CLOSED"

RowStands(row, r) ==
    row.kind = "text" /\ row.state # "CLOSED" =>
        Stands(r, row.inc) /\ row.rx = descriptorCounts[r]

RowAsked(row, r) == row = Reading => IsKnown(r) /\ (Asked(r) \/ InNest(r))

\* The inductive invariant.
RowsInv ==
    /\ KernelOrder
    /\ NestIsClosed
    /\ \A r \in Ref : RowStands(descriptors[r], r)
    /\ pc # "aborted" => \A r \in Ref : RowAsked(descriptors[r], r)

-----------------------------------------------------------------------------
(* What is under way, and what a step of each side does to it              *)

LEMMA AskedMember ==
    ASSUME NEW r
    PROVE  /\ Requested([type |-> "GET_SRC_DESC", srcref |-> r])
                <=> Member([type |-> "GET_SRC_DESC", srcref |-> r], toKernel)
           /\ Pending(Removal(r)) <=> Member(Removal(r), fromKernel)
           /\ PendingDesc(r) <=> \E m : /\ Member(m, fromKernel)
                                        /\ m.type = "SRC_DESC" /\ m.srcref = r
  BY DEF Requested, Pending, PendingDesc, Member

\* A description that is asked for is answered, or the source is gone.
LEMMA KernelKeepsAsked ==
    ASSUME KernelTypeOK, KernelOrder, Environment \/ Kernel, NEW r, IsKnown(r), Asked(r)
    PROVE  Asked(r)'
  <1>1. /\ Requested([type |-> "GET_SRC_DESC", srcref |-> r]) <=> Member(GetDesc(r), toKernel)
        /\ Requested([type |-> "GET_SRC_DESC", srcref |-> r])' <=> Member(GetDesc(r), toKernel')
        /\ Pending(Removal(r))' <=> Member(Removal(r), fromKernel')
        /\ PendingDesc(r)' <=> \E m : /\ Member(m, fromKernel')
                                      /\ m.type = "SRC_DESC" /\ m.srcref = r
    BY DEF Requested, Pending, PendingDesc, Member, GetDesc, Removal
  <1>2. \A m : Member(m, fromKernel) => Member(m, fromKernel')
    BY MembersKept DEF KernelOrder
  <1>3. CASE Requested([type |-> "GET_SRC_DESC", srcref |-> r])
    <2>1. r \notin announced => Member(Removal(r), fromKernel)
      BY DEF IsKnown, RemovalBehind, Member
    <2>2. \/ Member(GetDesc(r), toKernel')
          \/ r \notin announced
          \/ \E m : Member(m, fromKernel') /\ m.type = "SRC_DESC" /\ m.srcref = r
      BY <1>1, <1>3, RequestIsAnswered DEF KernelOrder
    <2> QED  BY <1>1, <1>2, <2>1, <2>2 DEF Asked
  <1>4. CASE PendingDesc(r) \/ Pending(Removal(r))
    BY <1>1, <1>2, <1>4, AskedMember DEF Asked
  <1> QED  BY <1>3, <1>4 DEF Asked

\* The rows stored by the pending calls hide what the table had ...
LEMMA UnwindCall ==
    ASSUME NestTypeOK, NEW rows, NEW r \in Ref
    PROVE  \/ ~InNest(r) /\ Unwind(rows)[r] = rows[r]
           \/ \E i \in DOMAIN nest : nest[i].ref = r /\ Unwind(rows)[r] = nest[i].row
  <1> DEFINE calls == {i \in DOMAIN nest : nest[i].ref = r}
  <1>0. /\ DOMAIN nest = 1 .. Len(nest) /\ Len(nest) \in Nat
        /\ \A i \in DOMAIN nest : nest[i] \in [ref : Ref, row : Text]
    BY LenProperties, ElementOfSeq DEF NestTypeOK
  <1>1. CASE OutermostCall(r) = {}
    <2>1. Unwind(rows)[r] = rows[r]
      BY <1>1 DEF Unwind
    <2>2. ASSUME InNest(r) PROVE FALSE
      <3>1. calls # {} /\ calls \subseteq Nat
        BY <1>0, <2>2 DEF InNest
      <3> HIDE DEF calls
      <3> DEFINE less == OpToRel(<, Nat)
      <3>v. IsWellFoundedOn(less, Nat)
        BY NatLessThanWellFounded
      <3>w. \A x, y \in Nat : x < y => <<x, y>> \in less
        BY DEF OpToRel
      <3> HIDE DEF less
      <3>2. PICK x \in calls : \A y \in calls : ~(<<y, x>> \in less)
        BY <3>1, <3>v, WFMin, Zenon
      <3>3. \A y \in calls : x <= y
        <4>1. \A y \in calls : x \in Nat /\ y \in Nat /\ ~(y < x)
          BY <3>1, <3>2, <3>w
        <4> QED  BY <4>1
      <3>4. x \in OutermostCall(r)
        BY <3>3 DEF OutermostCall, calls
      <3> QED  BY <1>1, <3>4
    <2> QED  BY <2>1, <2>2
  <1>2. CASE OutermostCall(r) # {}
    <2>1. PICK i \in OutermostCall(r) : Unwind(rows)[r] = nest[i].row
      BY <1>2 DEF Unwind
    <2>2. i \in DOMAIN nest /\ nest[i].ref = r
      BY DEF OutermostCall
    <2> QED  BY <2>1, <2>2
  <1> QED  BY <1>1, <1>2

\* ... and are CLOSED.
LEMMA UnwindRow ==
    ASSUME NestTypeOK, NestIsClosed, NEW rows, NEW r \in Ref
    PROVE  \/ ~InNest(r) /\ Unwind(rows)[r] = rows[r]
           \/ Unwind(rows)[r].kind = "text" /\ Unwind(rows)[r].state = "CLOSED"
  <1>1. \A i \in DOMAIN nest : nest[i] \in [ref : Ref, row : Text]
    BY LenProperties, ElementOfSeq DEF NestTypeOK
  <1>2. \A i \in DOMAIN nest : nest[i].row.kind = "text" /\ nest[i].row.state = "CLOSED"
    BY <1>1 DEF NestIsClosed, Text
  <1> QED  BY <1>2, UnwindCall

\* A message is read: what it is not about stays asked for and known.
LEMMA ReadKeeps ==
    ASSUME KernelTypeOK, KernelOrder, NEW t, ReadNext(t), UNCHANGED <<sock, announced>>
    PROVE  /\ KernelOrder'
           /\ Head(fromKernel) \in Message
           /\ \A r : Head(fromKernel) = Removal(r)
                       => t = "SRC_REMOVED" /\ Head(fromKernel).srcref = r
           /\ \A r : t = "SRC_ADDED" /\ Head(fromKernel).srcref = r => IsKnown(r)'
           /\ \A r, inc : /\ t = "SRC_DESC"
                          /\ Head(fromKernel).srcref = r /\ Head(fromKernel).inc = inc
                          => Stands(r, inc)'
           /\ \A r : IsKnown(r) => IsKnown(r)' \/ Head(fromKernel) = Removal(r)
           /\ \A r, inc : Stands(r, inc) => Stands(r, inc)' \/ Head(fromKernel) = Removal(r)
           /\ \A r : \/ PendingDesc(r) /\ ~(t = "SRC_DESC" /\ Head(fromKernel).srcref = r)
                     \/ Pending(Removal(r)) /\ Head(fromKernel) # Removal(r)
                     => (PendingDesc(r) \/ Pending(Removal(r)))'
  <1>1. /\ fromKernel \in Seq(Message) /\ fromKernel # <<>> /\ fromKernel' = Tail(fromKernel)
        /\ Head(fromKernel).type = t /\ Head(fromKernel) \in Message
    BY ReadType DEF ReadNext, KernelTypeOK
  <1>2. \A m : Member(m, fromKernel) <=> m = Head(fromKernel) \/ Member(m, fromKernel')
    BY <1>1, TailMember
  <1>3. ASSUME NEW r
        PROVE  /\ Pending(Removal(r))' <=> Member(Removal(r), fromKernel')
               /\ PendingDesc(r)' <=> \E m : /\ Member(m, fromKernel')
                                             /\ m.type = "SRC_DESC" /\ m.srcref = r
    BY DEF Pending, PendingDesc, Member, Removal
  <1>4. \A r : \/ PendingDesc(r) /\ ~(t = "SRC_DESC" /\ Head(fromKernel).srcref = r)
               \/ Pending(Removal(r)) /\ Head(fromKernel) # Removal(r)
               => (PendingDesc(r) \/ Pending(Removal(r)))'
    BY <1>1, <1>2, <1>3, AskedMember
  <1>5. \A r : Head(fromKernel) = Removal(r)
                 => t = "SRC_REMOVED" /\ Head(fromKernel).srcref = r
    BY <1>1 DEF Removal
  <1>6. /\ KernelOrder'
        /\ \A r : Head(fromKernel).type = "SRC_ADDED" /\ Head(fromKernel).srcref = r => IsKnown(r)'
        /\ \A r, inc : /\ Head(fromKernel).type = "SRC_DESC"
                       /\ Head(fromKernel).srcref = r /\ Head(fromKernel).inc = inc
                       => Stands(r, inc)'
        /\ \A r : IsKnown(r) => IsKnown(r)' \/ Head(fromKernel) = Removal(r)
        /\ \A r, inc : Stands(r, inc) => Stands(r, inc)' \/ Head(fromKernel) = Removal(r)
    BY <1>1, ReadKeepsOrder
  <1> QED  BY <1>1, <1>4, <1>5, <1>6

\* A request that is written is pending with the others.
LEMMA WriteKeeps ==
    ASSUME KernelTypeOK, NEW req \in Request, write(req)
    PROVE  /\ \A m : Requested(m) => Requested(m)'
           /\ \A m : m = req => Requested(m)'
  <1>1. \A m : Member(m, Append(toKernel, req)) <=> Member(m, toKernel) \/ m = req
    BY AppendMember DEF KernelTypeOK
  <1>2. toKernel' = Append(toKernel, req)
    BY DEF write
  <1>3. \A m : (Requested(m) <=> Member(m, toKernel)) /\ (Requested(m)' <=> Member(m, toKernel'))
    BY DEF Requested, Member
  <1> QED  BY <1>1, <1>2, <1>3

-----------------------------------------------------------------------------
(* The client's steps                                                      *)

\* process_nstat_msg returns: it is enough that the rows it hands over are right.
LEMMA ReturnKeeps ==
    ASSUME NestTypeOK, NestIsClosed, NEW rows, Return(rows), KernelOrder',
           UNCHANGED toKernel \/ \A m : Requested(m) => Requested(m)',
           \A r \in Ref : rows[r].kind = "text" /\ rows[r].state # "CLOSED" =>
                            /\ \A inc : inc = rows[r].inc => Stands(r, inc)'
                            /\ rows[r].rx = descriptorCounts'[r],
           \A r \in Ref : rows[r] = Reading => IsKnown(r)' /\ (Asked(r)' \/ InNest(r))
    PROVE  RowsInv'
  <1>1. NestIsClosed'
    BY EmptySeq DEF Return, NestIsClosed
  <1>2. ASSUME NEW r \in Ref
        PROVE  RowStands(descriptors[r], r)' /\ RowAsked(descriptors[r], r)'
    <2>1. descriptors' = Unwind(rows)
      BY DEF Return
    <2>2. CASE ~InNest(r) /\ descriptors'[r] = rows[r]
      BY <2>2 DEF RowStands, RowAsked
    <2>3. CASE descriptors'[r].kind = "text" /\ descriptors'[r].state = "CLOSED"
      BY <2>3 DEF RowStands, RowAsked, Reading
    <2> QED  BY <2>1, <2>2, <2>3, UnwindRow
  <1> QED  BY <1>1, <1>2 DEF RowsInv

\* A message is read that changes at most the row it is about.
LEMMA OthersKeep ==
    ASSUME TypeOK, RowsInv, NEW t, ReadNext(t), UNCHANGED <<sock, announced>>,
           \A m : Requested(m) => Requested(m)',
           NEW r \in Ref,
           ~(t \in {"SRC_REMOVED", "SRC_DESC"} /\ Head(fromKernel).srcref = r)
    PROVE  /\ descriptors[r].kind = "text" /\ descriptors[r].state # "CLOSED" =>
                /\ \A inc : inc = descriptors[r].inc => Stands(r, inc)'
                /\ descriptors[r].rx = descriptorCounts[r]
           /\ descriptors[r] = Reading => IsKnown(r)' /\ (Asked(r)' \/ InNest(r))
  <1>1. KernelTypeOK /\ KernelOrder /\ pc # "aborted"
    BY DEF TypeOK, RowsInv, ReadNext
  <1>2. RowStands(descriptors[r], r) /\ RowAsked(descriptors[r], r)
    BY <1>1 DEF RowsInv
  <1>3. Head(fromKernel) # Removal(r)
    BY <1>1, ReadKeeps
  <1>4. /\ IsKnown(r) => IsKnown(r)'
        /\ \A inc : Stands(r, inc) => Stands(r, inc)'
        /\ PendingDesc(r) \/ Pending(Removal(r)) => (PendingDesc(r) \/ Pending(Removal(r)))'
    BY <1>1, <1>3, ReadKeeps
  <1>5. Asked(r) => Asked(r)'
    BY <1>4 DEF Asked
  <1> QED  BY <1>2, <1>4, <1>5 DEF RowStands, RowAsked

LEMMA ReceiveKeeps ==
    ASSUME TypeOK, CallsOK, RowsInv, Receive
    PROVE  RowsInv'
  <1> DEFINE m == Head(fromKernel)
             q == m.srcref
  <1>0. /\ KernelTypeOK /\ NestTypeOK /\ KernelOrder /\ NestIsClosed
        /\ descriptors \in Rows
    BY DEF TypeOK, TableTypeOK, RowsInv, Rows
  <1>r. ASSUME NEW t, ReadNext(t), UNCHANGED <<sock, announced>>
        PROVE  KernelOrder' /\ m \in Message /\ m.type = t /\ pc # "aborted"
    BY <1>0, <1>r, ReadKeeps DEF ReadNext
  <1>u. ASSUME toKernel' = toKernel PROVE \A req : Requested(req) => Requested(req)'
    BY <1>u DEF Requested
  <1>1. CASE SrcAdded
    <2> DEFINE rows == [descriptors EXCEPT ![q] = Reading]
               get == [type |-> "GET_SRC_DESC", srcref |-> q]
    <2>1. /\ ReadNext("SRC_ADDED") /\ UNCHANGED <<sock, announced>>
          /\ Return(rows) /\ write(get)
          /\ descriptorCounts' = [descriptorCounts EXCEPT ![q] = 0]
      BY <1>1 DEF SrcAdded
    <2>2. q \in Ref /\ m \in Message /\ KernelOrder'
      BY <1>r, <2>1, MessageFields
    <2>3. /\ \A req : Requested(req) => Requested(req)'
          /\ \A req : req = get => Requested(req)'
      BY <1>0, <2>1, <2>2, WriteKeeps, Requests
    <2>4. \A r \in Ref : r # q => rows[r] = descriptors[r] /\ descriptorCounts'[r] = descriptorCounts[r]
      BY <2>1, <2>2, <1>0 DEF TypeOK, TableTypeOK
    <2>5. rows[q] = Reading
      BY <1>0, <2>2 DEF Rows
    <2>6. \A r : r = q => IsKnown(r)'
      BY <1>0, <2>1, ReadKeeps
    <2>7. \A r : r = q => Asked(r)'
      BY <2>3 DEF Asked
    <2> HIDE DEF rows, get, m, q
    <2>8. ASSUME NEW r \in Ref
          PROVE  /\ rows[r].kind = "text" /\ rows[r].state # "CLOSED" =>
                      /\ \A inc : inc = rows[r].inc => Stands(r, inc)'
                      /\ rows[r].rx = descriptorCounts'[r]
                 /\ rows[r] = Reading => IsKnown(r)' /\ (Asked(r)' \/ InNest(r))
      <3>1. CASE r = q
        <4>1. rows[r].kind = "reading"
          BY <2>5, <3>1 DEF Reading
        <4> QED  BY <2>6, <2>7, <3>1, <4>1
      <3>2. CASE r # q
        BY <2>1, <2>3, <2>4, <3>2, OthersKeep
      <3> QED  BY <3>1, <3>2
    <2> QED  BY <1>0, <2>1, <2>2, <2>3, <2>8, ReturnKeeps
  <1>2. CASE SrcRemoved
    <2> DEFINE rows == [descriptors EXCEPT ![q] = NULL]
    <2>1. /\ ReadNext("SRC_REMOVED") /\ UNCHANGED <<sock, announced, toKernel, descriptorCounts>>
          /\ Return(rows)
      BY <1>2 DEF SrcRemoved
    <2>2. q \in Ref /\ m \in Message /\ KernelOrder'
      BY <1>r, <2>1, MessageFields
    <2>3. \A req : Requested(req) => Requested(req)'
      BY <1>u, <2>1
    <2>4. rows[q] = NULL /\ \A r \in Ref : r # q => rows[r] = descriptors[r]
      BY <1>0, <2>2 DEF Rows
    <2> HIDE DEF rows
    <2>8. ASSUME NEW r \in Ref
          PROVE  /\ rows[r].kind = "text" /\ rows[r].state # "CLOSED" =>
                      /\ \A inc : inc = rows[r].inc => Stands(r, inc)'
                      /\ rows[r].rx = descriptorCounts'[r]
                 /\ rows[r] = Reading => IsKnown(r)' /\ (Asked(r)' \/ InNest(r))
      <3>1. CASE r = q
        <4>1. rows[r].kind = "NULL" /\ Reading.kind = "reading"
          BY <2>4, <3>1 DEF NULL, Reading
        <4> QED  BY <4>1
      <3>2. CASE r # q
        BY <2>1, <2>3, <2>4, <3>2, OthersKeep
      <3> QED  BY <3>1, <3>2
    <2> QED  BY <1>0, <2>1, <2>2, <2>3, <2>8, ReturnKeeps
  <1>4. CASE SrcCounts
    <2> DEFINE rows == IF descriptors[q].kind = "text"
                       THEN [descriptors EXCEPT ![q] = [@ EXCEPT !.rx = m.rx]]
                       ELSE descriptors
    <2>1. /\ ReadNext("SRC_COUNTS") /\ UNCHANGED <<sock, announced, toKernel>>
          /\ Return(rows)
          /\ descriptorCounts' = [descriptorCounts EXCEPT ![q] = m.rx]
      BY <1>4 DEF SrcCounts
    <2>2. q \in Ref /\ m \in Message /\ KernelOrder'
      BY <1>r, <2>1, MessageFields
    <2>3. \A req : Requested(req) => Requested(req)'
      BY <1>u, <2>1
    <2>4. \A r \in Ref : r # q => rows[r] = descriptors[r] /\ descriptorCounts'[r] = descriptorCounts[r]
      BY <1>0, <2>1, <2>2 DEF Rows, TypeOK, TableTypeOK
    <2>5. descriptorCounts'[q] = m.rx
      BY <2>1, <2>2 DEF TypeOK, TableTypeOK
    <2>6. /\ rows[q].kind = "text" =>
                /\ descriptors[q].kind = "text" /\ rows[q].state = descriptors[q].state
                /\ rows[q].inc = descriptors[q].inc /\ rows[q].rx = m.rx
          /\ rows[q].kind # "text" => rows[q] = descriptors[q]
      <3>1. CASE descriptors[q].kind = "text"
        <4>1. descriptors[q] \in Text
          BY <1>0, <2>2, <3>1 DEF Rows, NULL, Reading
        <4>2. rows[q] = [descriptors[q] EXCEPT !.rx = m.rx]
          BY <1>0, <2>2, <3>1 DEF Rows
        <4>3. /\ rows[q].kind = "text" /\ rows[q].state = descriptors[q].state
              /\ rows[q].inc = descriptors[q].inc /\ rows[q].rx = m.rx
          BY <4>1, <4>2 DEF Text
        <4> QED  BY <3>1, <4>3
      <3>2. CASE descriptors[q].kind # "text"
        BY <3>2
      <3> QED  BY <3>1, <3>2
    <2> HIDE DEF rows, q, m
    <2>8. ASSUME NEW r \in Ref
          PROVE  /\ rows[r].kind = "text" /\ rows[r].state # "CLOSED" =>
                      /\ \A inc : inc = rows[r].inc => Stands(r, inc)'
                      /\ rows[r].rx = descriptorCounts'[r]
                 /\ rows[r] = Reading => IsKnown(r)' /\ (Asked(r)' \/ InNest(r))
      <3>1. /\ descriptors[r].kind = "text" /\ descriptors[r].state # "CLOSED" =>
                    /\ \A inc : inc = descriptors[r].inc => Stands(r, inc)'
                    /\ descriptors[r].rx = descriptorCounts[r]
            /\ descriptors[r] = Reading => IsKnown(r)' /\ (Asked(r)' \/ InNest(r))
        BY <2>1, <2>3, OthersKeep
      <3>2. Reading.kind = "reading"
        BY DEF Reading
      <3> QED  BY <2>4, <2>5, <2>6, <3>1, <3>2
    <2> QED  BY <1>0, <2>1, <2>2, <2>3, <2>8, ReturnKeeps
  <1>5. CASE SrcDesc
    <2> DEFINE rows == [descriptors EXCEPT ![q] = RowText(m)]
    <2>1. /\ ReadNext("SRC_DESC") /\ UNCHANGED <<sock, announced, toKernel, descriptorCounts>>
          /\ Return(rows)
      BY <1>5 DEF SrcDesc
    <2>2. q \in Ref /\ m \in Message /\ KernelOrder'
      BY <1>r, <2>1, MessageFields
    <2>3. \A req : Requested(req) => Requested(req)'
      BY <1>u, <2>1
    <2>4. \A r \in Ref : r # q => rows[r] = descriptors[r]
      BY <1>0, <2>2 DEF Rows
    <2>5. /\ rows[q].kind = "text" /\ rows[q].inc = m.inc
          /\ rows[q].rx = descriptorCounts[q]
      BY <1>0, <2>2 DEF Rows, RowText
    <2>6. \A r, inc : r = q /\ inc = m.inc => Stands(r, inc)'
      BY <1>0, <2>1, ReadKeeps
    <2> HIDE DEF rows, q, m
    <2>8. ASSUME NEW r \in Ref
          PROVE  /\ rows[r].kind = "text" /\ rows[r].state # "CLOSED" =>
                      /\ \A inc : inc = rows[r].inc => Stands(r, inc)'
                      /\ rows[r].rx = descriptorCounts'[r]
                 /\ rows[r] = Reading => IsKnown(r)' /\ (Asked(r)' \/ InNest(r))
      <3>1. CASE r = q
        <4>1. Reading.kind = "reading"
          BY DEF Reading
        <4> QED  BY <2>1, <2>5, <2>6, <3>1, <4>1
      <3>2. CASE r # q
        BY <2>1, <2>3, <2>4, <3>2, OthersKeep DEF m, q
      <3> QED  BY <3>1, <3>2
    <2> QED  BY <1>0, <2>1, <2>2, <2>3, <2>8, ReturnKeeps
  <1>8. CASE ReadError \/ OtherSuccess
    <2>1. PICK t \in {"ERROR", "SUCCESS"} : ReadNext(t)
      BY <1>8 DEF ReadError, OtherSuccess
    <2>2. UNCHANGED <<sock, announced, toKernel, descriptorCounts>> /\ Return(descriptors)
      BY <1>8 DEF ReadError, OtherSuccess
    <2>3. KernelOrder' /\ \A req : Requested(req) => Requested(req)'
      BY <1>r, <1>u, <2>1, <2>2
    <2>8. ASSUME NEW r \in Ref
          PROVE  /\ descriptors[r].kind = "text" /\ descriptors[r].state # "CLOSED" =>
                      /\ \A inc : inc = descriptors[r].inc => Stands(r, inc)'
                      /\ descriptors[r].rx = descriptorCounts'[r]
                 /\ descriptors[r] = Reading => IsKnown(r)' /\ (Asked(r)' \/ InNest(r))
      BY <2>1, <2>2, <2>3, OthersKeep
    <2> QED  BY <1>0, <2>2, <2>3, <2>8, ReturnKeeps
  \* A handler that nests: the row it is about waits in the pending call.
  <1>6. CASE SrcDescClosed
    <2> DEFINE call == [ref |-> q, row |-> RowText(m)]
    <2>1. /\ ReadNext("SRC_DESC") /\ UNCHANGED <<sock, announced, descriptors, descriptorCounts, pc>>
          /\ write([type |-> "GET_SRC_DESC", srcref |-> q])
          /\ nest' = Append(nest, call) /\ m.state = "CLOSED"
      BY <1>6 DEF SrcDescClosed, tableVars
    <2>2. q \in Ref /\ m \in Message /\ m.type = "SRC_DESC" /\ KernelOrder'
      BY <1>r, <2>1, MessageFields
    <2>3. \A req : Requested(req) => Requested(req)'
      BY <1>0, <2>1, <2>2, WriteKeeps, Requests
    <2>4. call \in [ref : Ref, row : Text] /\ call.ref = q /\ call.row.state = "CLOSED"
      BY <2>1, <2>2, RowTextType DEF RowText
    <2> HIDE DEF call
    <2>5. /\ Len(nest) \in Nat /\ DOMAIN nest = 1 .. Len(nest)
          /\ DOMAIN nest' = 1 .. Len(nest) + 1
          /\ \A i \in 1 .. Len(nest) : nest'[i] = nest[i]
          /\ nest'[Len(nest) + 1] = call
      <3>1. /\ nest' \in Seq([ref : Ref, row : Text]) /\ Len(nest') = Len(nest) + 1
            /\ \A i \in 1 .. Len(nest) : nest'[i] = nest[i]
            /\ nest'[Len(nest) + 1] = call
        BY <1>0, <2>1, <2>4, AppendProperties DEF NestTypeOK
      <3> QED  BY <1>0, <3>1, LenProperties DEF NestTypeOK
    <2>6. NestIsClosed'
      BY <1>0, <2>4, <2>5 DEF NestIsClosed
    <2>7. \A r : InNest(r) \/ r = q => InNest(r)'
      BY <2>4, <2>5 DEF InNest
    <2>8. \A r, inc : Stands(r, inc) => Stands(r, inc)'
      BY <1>0, <2>1, ReadKeeps
    <2>9. \A r : IsKnown(r) => IsKnown(r)'
      BY <1>0, <2>1, ReadKeeps
    <2>10. \A r : r # q /\ Asked(r) => Asked(r)'
      <3> SUFFICES ASSUME NEW r, r # q, Asked(r) PROVE Asked(r)'
        OBVIOUS
      <3>1. PendingDesc(r) \/ Pending(Removal(r)) => (PendingDesc(r) \/ Pending(Removal(r)))'
        BY <1>0, <2>1, ReadKeeps
      <3> QED  BY <2>3, <3>1 DEF Asked
    <2> HIDE DEF q, m
    <2>11. ASSUME NEW r \in Ref, RowStands(descriptors[r], r) PROVE RowStands(descriptors[r], r)'
      BY <2>1, <2>8, <2>11 DEF RowStands
    <2>12. ASSUME NEW r \in Ref, RowAsked(descriptors[r], r) PROVE RowAsked(descriptors[r], r)'
      BY <2>1, <2>7, <2>9, <2>10, <2>12 DEF RowAsked
    <2> QED  BY <2>1, <2>2, <2>6, <2>11, <2>12 DEF RowsInv
  \* The process is gone.
  <1>3. CASE FreeLiteral \/ StackOverflow
    <2>1. PICK t \in {"SRC_REMOVED", "SRC_DESC"} : ReadNext(t)
      BY <1>3 DEF FreeLiteral, StackOverflow
    <2>2. /\ UNCHANGED <<sock, announced, descriptors, descriptorCounts>>
          /\ pc' = "aborted" /\ nest' = <<>>
      BY <1>3 DEF FreeLiteral, StackOverflow, tableVars
    <2>3. KernelOrder'
      BY <1>r, <2>1, <2>2
    <2>4. \A r \in Ref : Head(fromKernel) = Removal(r) =>
            ~(descriptors[r].kind = "text")
      <3>1. \A r : Head(fromKernel) = Removal(r) =>
              /\ Head(fromKernel).type = "SRC_REMOVED" /\ Head(fromKernel).srcref = r
        BY DEF Removal
      <3>2. StackOverflow => Head(fromKernel).type = "SRC_DESC"
        BY DEF StackOverflow, ReadNext
      <3>3. FreeLiteral => descriptors[Head(fromKernel).srcref].kind = "reading"
        BY DEF FreeLiteral, Reading
      <3> QED  BY <1>3, <3>1, <3>2, <3>3
    <2>5. \A r, inc : Stands(r, inc) => Stands(r, inc)' \/ Head(fromKernel) = Removal(r)
      BY <1>0, <2>1, <2>2, ReadKeeps
    <2>6. ASSUME NEW r \in Ref, RowStands(descriptors[r], r) PROVE RowStands(descriptors[r], r)'
      BY <2>2, <2>4, <2>5, <2>6 DEF RowStands
    <2>7. NestIsClosed'
      BY <2>2, EmptySeq DEF NestIsClosed
    <2> QED  BY <2>2, <2>3, <2>6, <2>7 DEF RowsInv
  <1>9. CASE AddAllSuccess \/ MainSuccess
    <2>1. /\ ReadNext("SUCCESS")
          /\ UNCHANGED <<sock, announced, toKernel, descriptors, descriptorCounts, nest>>
      BY <1>9 DEF AddAllSuccess, MainSuccess, tableVars
    <2>2. KernelOrder' /\ \A req : Requested(req) => Requested(req)'
      BY <1>r, <1>u, <2>1
    <2>3. \A r : InNest(r)' <=> InNest(r)
      BY <2>1 DEF InNest
    <2>4. NestIsClosed'
      BY <1>0, <2>1 DEF NestIsClosed
    <2>5. ASSUME NEW r \in Ref
          PROVE  RowStands(descriptors[r], r)' /\ RowAsked(descriptors[r], r)'
      <3>1. /\ descriptors[r].kind = "text" /\ descriptors[r].state # "CLOSED" =>
                 /\ \A inc : inc = descriptors[r].inc => Stands(r, inc)'
                 /\ descriptors[r].rx = descriptorCounts[r]
            /\ descriptors[r] = Reading => IsKnown(r)' /\ (Asked(r)' \/ InNest(r))
        BY <2>1, <2>2, OthersKeep
      <3> QED  BY <2>1, <2>3, <3>1 DEF RowStands, RowAsked
    <2> QED  BY <2>2, <2>4, <2>5 DEF RowsInv
  <1> QED  BY <1>1, <1>2, <1>3, <1>4, <1>5, <1>6, <1>8, <1>9 DEF Receive

\* A step of the client that reads nothing stores nothing but NULL.
LEMMA QuietKeeps ==
    ASSUME TypeOK, RowsInv,
           UNCHANGED <<sock, announced, fromKernel, descriptorCounts, nest>>,
           \A req : Requested(req) => Requested(req)',
           \A r \in Ref : descriptors'[r] = descriptors[r] \/ descriptors'[r] = NULL,
           pc # "aborted"
    PROVE  RowsInv'
  <1>1. \A r, inc : Current(r, inc)' <=> Current(r, inc)
    BY DEF Current
  <1>2. \A r, i : RemovalBehind(r, i)' <=> RemovalBehind(r, i)
    BY DEF RemovalBehind, Removal
  <1>3. KernelOrder'
    BY <1>1, <1>2 DEF RowsInv, KernelOrder, LiveAnnounced, StandsAt
  <1>4. NestIsClosed' /\ \A r : InNest(r)' <=> InNest(r)
    BY DEF RowsInv, NestIsClosed, InNest
  <1>5. \A r : Asked(r) => Asked(r)'
    BY DEF Asked, Pending, PendingDesc, Removal
  <1>6. ASSUME NEW r \in Ref
        PROVE  RowStands(descriptors[r], r)' /\ RowAsked(descriptors[r], r)'
    <2>0. RowStands(descriptors[r], r) /\ RowAsked(descriptors[r], r)
      BY DEF RowsInv
    <2>1. CASE descriptors'[r] = descriptors[r]
      BY <1>1, <1>2, <1>4, <1>5, <2>0, <2>1 DEF RowStands, RowAsked, Stands, IsKnown
    <2>2. CASE descriptors'[r] = NULL
      <3>1. descriptors'[r].kind = "NULL" /\ Reading.kind = "reading"
        BY <2>2 DEF NULL, Reading
      <3> QED  BY <3>1 DEF RowStands, RowAsked
    <2> QED  BY <2>1, <2>2
  <1> QED  BY <1>3, <1>4, <1>6 DEF RowsInv

LEMMA CallKeeps ==
    ASSUME TypeOK, CallsOK, RowsInv,
           AddAll \/ RefreshNext \/ RefreshDone \/ GotAll \/ Timeout \/ MainTail
    PROVE  RowsInv'
  <1>0. KernelTypeOK
    BY DEF TypeOK
  <1>w. ASSUME NEW req \in Request, write(req) PROVE \A m : Requested(m) => Requested(m)'
    BY <1>0, <1>w, WriteKeeps
  <1>u. ASSUME toKernel' = toKernel PROVE \A m : Requested(m) => Requested(m)'
    BY <1>u DEF Requested
  <1>1. CASE AddAll
    <2>1. Head(todo) \in Provider
      BY <1>1, HeadTailProperties DEF AddAll, TypeOK, ControlTypeOK, CallsOK
    <2>2. \A m : Requested(m) => Requested(m)'
      BY <1>1, <1>w, <2>1, Requests DEF AddAll
    <2> QED  BY <1>1, <2>2, QuietKeeps DEF AddAll, tableVars
  <1>2. CASE RefreshNext
    <2>1. \A m : Requested(m) => Requested(m)'
      BY <1>2, <1>w, Requests DEF RefreshNext
    <2> QED  BY <1>2, <2>1, QuietKeeps DEF RefreshNext, tableVars
  <1>3. CASE RefreshDone
    BY <1>3, <1>u, QuietKeeps DEF RefreshDone, tableVars, kernelVars
  <1>4. CASE GotAll
    <2>1. toKernel' = toKernel \/ write([type |-> "QUERY_SRC", done |-> {}])
      BY <1>4 DEF GotAll
    <2>2. \A m : Requested(m) => Requested(m)'
      BY <1>u, <1>w, <2>1, Requests
    <2> QED  BY <1>4, <2>2, QuietKeeps DEF GotAll, tableVars
  <1>5. CASE Timeout
    <2>1. toKernel' = toKernel \/ write([type |-> "NONE"])
      BY <1>5 DEF Timeout
    <2>2. \A m : Requested(m) => Requested(m)'
      BY <1>u, <1>w, <2>1, Requests
    <2> QED  BY <1>5, <2>2, QuietKeeps DEF Timeout, tableVars
  <1>6. CASE MainTail
    <2>1. \A r \in Ref : descriptors'[r] = descriptors[r] \/ descriptors'[r] = NULL
      BY <1>6 DEF MainTail
    <2> QED  BY <1>6, <1>u, <2>1, QuietKeeps DEF MainTail, kernelVars
  <1> QED  BY <1>1, <1>2, <1>3, <1>4, <1>5, <1>6

\* A step of the kernel or of the sockets takes nothing away from what stands.
LEMMA KernelKeepsRows ==
    ASSUME TypeOK, RowsInv, Environment \/ Kernel, UNCHANGED lsockVars
    PROVE  RowsInv'
  <1>1. KernelTypeOK /\ KernelOrder
    BY DEF TypeOK, RowsInv
  <1>2. UNCHANGED <<descriptors, descriptorCounts, nest, pc>>
    BY DEF lsockVars
  <1>3. /\ KernelOrder'
        /\ \A r : IsKnown(r) => IsKnown(r)'
        /\ \A r, inc : Stands(r, inc) => Stands(r, inc)'
    BY <1>1, KernelKeepsOrder
  <1>4. \A r : IsKnown(r) /\ Asked(r) => Asked(r)'
    BY <1>1, KernelKeepsAsked
  <1>5. NestIsClosed' /\ \A r : InNest(r)' <=> InNest(r)
    BY <1>2 DEF RowsInv, NestIsClosed, InNest
  <1>6. ASSUME NEW r \in Ref, RowStands(descriptors[r], r) PROVE RowStands(descriptors[r], r)'
    BY <1>2, <1>3, <1>6 DEF RowStands
  <1>7. ASSUME NEW r \in Ref, RowAsked(descriptors[r], r) PROVE RowAsked(descriptors[r], r)'
    BY <1>2, <1>3, <1>4, <1>5, <1>7 DEF RowAsked
  <1> QED  BY <1>2, <1>3, <1>5, <1>6, <1>7 DEF RowsInv

-----------------------------------------------------------------------------
(* The theorems                                                            *)

LEMMA RowsInvHolds == Spec => []RowsInv
  <1>1. Init => RowsInv
    <2> SUFFICES ASSUME Init PROVE RowsInv
      OBVIOUS
    <2>1. KernelOrder
      BY OrderInit DEF Init
    <2>2. NestIsClosed
      BY EmptySeq DEF Init, LsockInit, NestIsClosed
    <2>3. \A r \in Ref : descriptors[r].kind = "NULL"
      BY DEF Init, LsockInit, NULL
    <2>4. Reading.kind = "reading"
      BY DEF Reading
    <2> QED  BY <2>1, <2>2, <2>3, <2>4 DEF RowsInv, RowStands, RowAsked
  <1>2. TypeOK /\ CallsOK /\ RowsInv /\ [Next]_vars => RowsInv'
    <2> SUFFICES ASSUME TypeOK, CallsOK, RowsInv, [Next]_vars PROVE RowsInv'
      OBVIOUS
    <2>1. CASE Client
      BY <2>1, CallKeeps, ReceiveKeeps DEF Client
    <2>2. CASE (Environment \/ Kernel) /\ UNCHANGED lsockVars
      BY <2>2, KernelKeepsRows
    <2>3. CASE UNCHANGED vars
      BY <2>3 DEF vars, kernelVars, lsockVars, RowsInv, KernelOrder, LiveAnnounced, StandsAt,
                  Current, RemovalBehind, Removal, NestIsClosed, RowStands, RowAsked, Stands,
                  IsKnown, Asked, Requested, PendingDesc, Pending, InNest
    <2> QED  BY <2>1, <2>2, <2>3 DEF Next, Terminated
  <1> QED  BY <1>1, <1>2, TypeCorrect, PTL DEF Spec

\* A row "reading" will get its text: the description that process_nstat_msg
\* asked for is with the kernel, on its way or held by a pending call, or the
\* removal of the source is on its way.
THEOREM RowsAreDescribed == Spec => []RowIsDescribed
  <1>1. TypeOK /\ RowsInv => RowIsDescribed
    BY DEF RowsInv, RowAsked, Asked, InNest, Removal, RowIsDescribed
  <1> QED  BY <1>1, RowsInvHolds, TypeCorrect, PTL

\* A row with text is that of the socket which is live under its reference
\* unless the removal of that socket is still to be read (or the row is CLOSED).
THEOREM NoRowIsAGhost == Spec => []NoGhostRow
  <1>1. TypeOK /\ RowsInv => NoGhostRow
    <2>1. \A r : RemovalBehind(r, 0) => Pending([type |-> "SRC_REMOVED", srcref |-> r])
      BY DEF RemovalBehind, Removal, Pending
    <2> QED  BY <2>1 DEF RowsInv, RowStands, Stands, Current, NoGhostRow, RowIsLive
  <1> QED  BY <1>1, RowsInvHolds, TypeCorrect, PTL

\* Whatever the order of descriptions and counts, a row shows the last counts
\* that were read (with the same exception).
THEOREM CountsAreShown == Spec => []CountsShown
  <1>1. RowsInv => CountsShown
    BY DEF RowsInv, RowStands, CountsShown
  <1> QED  BY <1>1, RowsInvHolds, PTL

-----------------------------------------------------------------------------
(* What lsock once prints.  A row is that of the source announced under    *)
(* its reference, or the announcement of that source is still to be read:  *)
(* then every row that is printed once the queues are empty is right.      *)

None(q, t) == \A i \in DOMAIN q : q[i].type # t
AtMostOne(q, t) == \A i, j \in DOMAIN q : q[i].type = t /\ q[j].type = t => i = j

LEMMA TailTypes ==
    ASSUME NEW S, NEW q \in Seq(S), q # <<>>, NEW t
    PROVE  /\ None(q, t) => Head(q).type # t /\ None(Tail(q), t)
           /\ AtMostOne(q, t) => AtMostOne(Tail(q), t)
           /\ AtMostOne(q, t) /\ Head(q).type = t => None(Tail(q), t)
  <1>1. /\ Len(q) \in Nat \ {0} /\ DOMAIN q = 1 .. Len(q)
        /\ Tail(q) \in Seq(S) /\ Len(Tail(q)) = Len(q) - 1
        /\ \A i \in 1 .. Len(q) - 1 : Tail(q)[i] = q[i + 1]
        /\ Head(q) = q[1]
    BY HeadTailProperties, LenProperties, EmptySeq
  <1>2. DOMAIN Tail(q) = 1 .. Len(q) - 1
    BY <1>1, LenProperties
  <1>3. \A i \in DOMAIN Tail(q) : i + 1 \in DOMAIN q /\ i + 1 # 1 /\ Tail(q)[i] = q[i + 1]
    BY <1>1, <1>2
  <1>4. \A i, j \in DOMAIN Tail(q) : i + 1 = j + 1 => i = j
    BY <1>1, <1>2
  <1>5. 1 \in DOMAIN q
    BY <1>1
  <1>6. None(q, t) => Head(q).type # t /\ None(Tail(q), t)
    BY <1>1, <1>3, <1>5 DEF None
  <1>7. AtMostOne(q, t) => AtMostOne(Tail(q), t)
    BY <1>3, <1>4 DEF AtMostOne
  <1>8. AtMostOne(q, t) /\ Head(q).type = t => None(Tail(q), t)
    BY <1>1, <1>3, <1>5 DEF AtMostOne, None
  <1> QED  BY <1>6, <1>7, <1>8

LEMMA AppendTypes ==
    ASSUME NEW S, NEW q \in Seq(S), NEW e \in S, NEW t
    PROVE  /\ None(q, t) /\ e.type # t => None(Append(q, e), t)
           /\ AtMostOne(q, t) /\ e.type # t => AtMostOne(Append(q, e), t)
           /\ None(q, t) => AtMostOne(Append(q, e), t)
  <1>1. /\ Len(q) \in Nat /\ DOMAIN q = 1 .. Len(q)
        /\ Append(q, e) \in Seq(S) /\ Len(Append(q, e)) = Len(q) + 1
        /\ \A i \in 1 .. Len(q) : Append(q, e)[i] = q[i]
        /\ Append(q, e)[Len(q) + 1] = e
    BY AppendProperties, LenProperties
  <1>2. DOMAIN Append(q, e) = 1 .. Len(q) + 1
    BY <1>1, LenProperties
  <1>3. \A i \in DOMAIN Append(q, e) :
          \/ i \in DOMAIN q /\ Append(q, e)[i] = q[i]
          \/ i = Len(q) + 1 /\ Append(q, e)[i] = e
    BY <1>1, <1>2
  <1> HIDE DEF None, AtMostOne
  <1>4. None(q, t) /\ e.type # t => None(Append(q, e), t)
    BY <1>3 DEF None
  <1>5. AtMostOne(q, t) /\ e.type # t => AtMostOne(Append(q, e), t)
    BY <1>3 DEF AtMostOne
  <1>6. None(q, t) => AtMostOne(Append(q, e), t)
    BY <1>3 DEF None, AtMostOne
  <1> QED  BY <1>4, <1>5, <1>6

\* lsock once subscribes to its providers one after the other, and writes nothing
\* else but requests for descriptions: when main runs, no success is under way that
\* would make it subscribe to others.
OnceStarts ==
    want.mode = "once" =>
        /\ want.listen
        /\ pc \in {"addAll", "addWait", "refresh", "refreshWait"} => startup
        /\ pc \notin {"gotAll", "query"}
        /\ None(toKernel, "QUERY_SRC") /\ None(toKernel, "NONE")
        /\ AtMostOne(toKernel, "ADD_ALL_SRCS") /\ AtMostOne(fromKernel, "SUCCESS")
        /\ None(toKernel, "ADD_ALL_SRCS") \/ None(fromKernel, "SUCCESS")
        /\ pc \notin {"addWait", "aborted"} =>
             None(toKernel, "ADD_ALL_SRCS") /\ None(fromKernel, "SUCCESS")

\* ... so that it is told of no source it was not asked to show.
Wanted(p) == IF p \in UdpProvider THEN want.udp ELSE want.tcp
OnceWatches ==
    want.mode = "once" =>
        /\ \A i \in DOMAIN todo : Wanted(todo[i])
        /\ \A i \in DOMAIN toKernel :
             toKernel[i].type = "ADD_ALL_SRCS" => Wanted(toKernel[i].provider)
        /\ \A p \in watched : Wanted(p)
        /\ \A r \in announced : Wanted(ProviderOf[r])

\* What the kernel's steps do to the queues and to what is watched.
KernelDoes ==
    \/ /\ UNCHANGED <<toKernel, watched>>
       /\ \/ fromKernel' = fromKernel
          \/ \E m \in Message : fromKernel' = Append(fromKernel, m) /\ m.type # "SUCCESS"
       /\ \A r \in announced' : \/ r \in announced \/ ProviderOf[r] \in watched
                                \/ /\ toKernel # <<>> /\ Head(toKernel).type = "ADD_ALL_SRCS"
                                   /\ ProviderOf[r] = Head(toKernel).provider
    \/ /\ toKernel # <<>> /\ Head(toKernel).type \in {"ADD_ALL_SRCS", "GET_SRC_DESC"}
       /\ toKernel' = Tail(toKernel)
       /\ \E m \in Message : /\ fromKernel' = Append(fromKernel, m)
                             /\ m.type = "SUCCESS" => Head(toKernel).type = "ADD_ALL_SRCS"
       /\ announced' \subseteq announced
       /\ \A p \in watched' : \/ p \in watched
                              \/ /\ Head(toKernel).type = "ADD_ALL_SRCS"
                                 /\ p = Head(toKernel).provider

LEMMA KernelDoesSo ==
    ASSUME KernelTypeOK, None(toKernel, "QUERY_SRC"), None(toKernel, "NONE"),
           Environment \/ Kernel
    PROVE  KernelDoes
  <1>0. toKernel \in Seq(Request) /\ fromKernel \in Seq(Message)
    BY DEF KernelTypeOK
  <1>1. ASSUME NEW r \in Ref, Open(r) \/ Close(r) \/ Change(r) PROVE KernelDoes
    BY <1>1, Messages DEF Open, Close, Change, KernelDoes
  <1>2. ASSUME NEW r \in Ref, AnnounceSource(r) PROVE KernelDoes
    <2>1. /\ UNCHANGED <<toKernel, watched>> /\ announced' = announced \cup {r}
          /\ fromKernel' = Append(fromKernel, [type |-> "SRC_ADDED", srcref |-> r])
          /\ ProviderOf[r] = Head(toKernel).provider
          /\ toKernel # <<>> /\ Head(toKernel).type = "ADD_ALL_SRCS"
      BY <1>2 DEF AnnounceSource, Handling, Unannounced
    <2>2. \E m \in Message : fromKernel' = Append(fromKernel, m) /\ m.type # "SUCCESS"
      BY <2>1, Messages
    <2> QED  BY <2>1, <2>2 DEF KernelDoes
  <1>3. ASSUME toKernel # <<>>
        PROVE  Head(toKernel).type \notin {"QUERY_SRC", "NONE"}
    BY <1>0, <1>3, TailTypes
  <1>4. CASE AnswerAddAll
    <2>1. /\ toKernel # <<>> /\ Head(toKernel).type = "ADD_ALL_SRCS"
          /\ toKernel' = Tail(toKernel) /\ fromKernel' = Append(fromKernel, [type |-> "SUCCESS"])
          /\ announced' = announced /\ watched' = watched \cup {Head(toKernel).provider}
      BY <1>4 DEF AnswerAddAll, Handling, Reply
    <2>2. \A p \in watched' : p \in watched \/ p = Head(toKernel).provider
      BY <2>1
    <2>3. \E m \in Message : /\ fromKernel' = Append(fromKernel, m)
                             /\ m.type = "SUCCESS" => Head(toKernel).type = "ADD_ALL_SRCS"
      BY <2>1, Messages
    <2> QED  BY <2>1, <2>2, <2>3 DEF KernelDoes
  <1>5. CASE RefuseAddAll
    <2>1. /\ toKernel # <<>> /\ Head(toKernel).type = "ADD_ALL_SRCS"
          /\ toKernel' = Tail(toKernel) /\ fromKernel' = Append(fromKernel, [type |-> "ERROR"])
          /\ announced' = announced /\ watched' = watched
      BY <1>5 DEF RefuseAddAll, Handling, Reply
    <2>2. \E m \in Message : /\ fromKernel' = Append(fromKernel, m)
                             /\ m.type = "SUCCESS" => Head(toKernel).type = "ADD_ALL_SRCS"
      BY <2>1, Messages
    <2> QED  BY <2>1, <2>2 DEF KernelDoes
  <1>6. CASE AnswerGetDesc
    <2> DEFINE r == Head(toKernel).srcref
               d == [type |-> "SRC_DESC", srcref |-> r, inc |-> sock[r].inc, state |-> sock[r].state]
               m == IF r \in announced THEN d ELSE [type |-> "ERROR"]
    <2>1. r \in Ref
      <3>1. Head(toKernel) \in Request
        BY <1>0, <1>6, HeadTailProperties DEF AnswerGetDesc, Handling
      <3> QED  BY <1>6, <3>1, RequestFields DEF AnswerGetDesc, Handling
    <2>2. d \in Message /\ [type |-> "ERROR"] \in Message
      BY <2>1, Messages DEF KernelTypeOK
    <2>3. m \in Message /\ m.type # "SUCCESS"
      BY <2>2
    <2>4. /\ toKernel' = Tail(toKernel) /\ fromKernel' = Append(fromKernel, m)
          /\ announced' = announced /\ watched' = watched
          /\ toKernel # <<>> /\ Head(toKernel).type = "GET_SRC_DESC"
      BY <1>6 DEF AnswerGetDesc, Handling, Reply
    <2> HIDE DEF m, d, r
    <2> QED  BY <2>3, <2>4 DEF KernelDoes
  <1>7. ~AnswerQuery /\ ~AnswerNone /\ \A r \in Ref : ~CountSource(r)
    BY <1>3 DEF AnswerQuery, AnswerNone, CountSource, Handling
  <1> QED  BY <1>1, <1>2, <1>4, <1>5, <1>6, <1>7 DEF Environment, Kernel

\* What reading a message does to the queues and to the control.
ReadDoes ==
    /\ fromKernel # <<>> /\ fromKernel' = Tail(fromKernel)
    /\ \/ toKernel' = toKernel
       \/ \E r \in Ref : toKernel' = Append(toKernel, [type |-> "GET_SRC_DESC", srcref |-> r])
    /\ UNCHANGED <<want, startup, announced, watched>>
    /\ todo' = todo \/ (pc = "main" /\ Head(fromKernel).type = "SUCCESS")
    /\ pc \in {"addWait", "refreshWait", "query", "main"}
    /\ \/ pc' = "aborted" \/ pc' = pc
       \/ pc = "addWait" /\ pc' = "refresh" /\ Head(fromKernel).type = "SUCCESS"
       \/ pc = "refreshWait" /\ pc' = "refresh"
       \/ pc \in {"query", "main"} /\ pc' = "tail"
       \/ pc = "main" /\ Head(fromKernel).type = "SUCCESS"

LEMMA ReadDoesSo ==
    ASSUME TypeOK, Receive
    PROVE  ReadDoes
  <1>0. KernelTypeOK
    BY DEF TypeOK
  <1>1. ASSUME NEW t, ReadNext(t)
        PROVE  /\ fromKernel # <<>> /\ fromKernel' = Tail(fromKernel)
               /\ Head(fromKernel).type = t /\ Head(fromKernel) \in Message
               /\ pc \in {"addWait", "refreshWait", "query", "main"}
    BY <1>0, <1>1, ReadType DEF ReadNext
  <1>2. ASSUME NEW rows, Return(rows), pc \in {"addWait", "refreshWait", "query", "main"}
        PROVE  \/ pc = "addWait" /\ pc' = pc
               \/ pc = "refreshWait" /\ pc' = "refresh"
               \/ pc \in {"query", "main"} /\ pc' = "tail"
    BY <1>2 DEF Return
  <1>3. CASE SrcAdded
    <2>1. ReadNext("SRC_ADDED") /\ \E rows : Return(rows)
      BY <1>3 DEF SrcAdded
    <2>2. Head(fromKernel).srcref \in Ref
      BY <1>1, <2>1, MessageFields
    <2>3. /\ toKernel' = Append(toKernel, [type |-> "GET_SRC_DESC",
                                           srcref |-> Head(fromKernel).srcref])
          /\ UNCHANGED <<want, startup, announced, watched, todo>>
      BY <1>3 DEF SrcAdded, write, callVars
    <2>4. \E r \in Ref : toKernel' = Append(toKernel, [type |-> "GET_SRC_DESC", srcref |-> r])
      BY <2>2, <2>3
    <2> QED  BY <1>1, <1>2, <2>1, <2>3, <2>4 DEF ReadDoes
  <1>4. CASE SrcDescClosed
    <2>1. ReadNext("SRC_DESC")
      BY <1>4 DEF SrcDescClosed
    <2>2. Head(fromKernel).srcref \in Ref
      BY <1>1, <2>1, MessageFields
    <2>3. /\ toKernel' = Append(toKernel, [type |-> "GET_SRC_DESC",
                                           srcref |-> Head(fromKernel).srcref])
          /\ UNCHANGED <<want, startup, announced, watched, todo, pc>>
      BY <1>4 DEF SrcDescClosed, write, callVars
    <2>4. \E r \in Ref : toKernel' = Append(toKernel, [type |-> "GET_SRC_DESC", srcref |-> r])
      BY <2>2, <2>3
    <2> QED  BY <1>1, <2>1, <2>3, <2>4 DEF ReadDoes
  <1>5. CASE SrcRemoved \/ SrcCounts \/ SrcDesc \/ ReadError \/ OtherSuccess
    <2>1. /\ \E t : ReadNext(t)
          /\ \E rows : Return(rows)
      BY <1>5 DEF SrcRemoved, SrcCounts, SrcDesc, ReadError, OtherSuccess
    <2>2. UNCHANGED <<toKernel, want, startup, announced, watched, todo>>
      BY <1>5 DEF SrcRemoved, SrcCounts, SrcDesc, ReadError, OtherSuccess, callVars
    <2> QED  BY <1>1, <1>2, <2>1, <2>2 DEF ReadDoes
  <1>6. CASE FreeLiteral \/ StackOverflow
    <2>1. (\E t : ReadNext(t)) /\ pc' = "aborted"
      BY <1>6 DEF FreeLiteral, StackOverflow
    <2>2. UNCHANGED <<toKernel, want, startup, announced, watched, todo>>
      BY <1>6 DEF FreeLiteral, StackOverflow, callVars
    <2> QED  BY <1>1, <2>1, <2>2 DEF ReadDoes
  <1>7. CASE AddAllSuccess \/ MainSuccess
    <2>1. ReadNext("SUCCESS")
      BY <1>7 DEF AddAllSuccess, MainSuccess
    <2>2. /\ UNCHANGED <<toKernel, want, startup, announced, watched>>
          /\ \/ pc = "addWait" /\ pc' = "refresh" /\ todo' = todo
             \/ pc = "main"
      BY <1>7 DEF AddAllSuccess, MainSuccess, callVars
    <2> QED  BY <1>1, <2>1, <2>2 DEF ReadDoes
  <1> QED  BY <1>3, <1>4, <1>5, <1>6, <1>7 DEF Receive

\* The steps of the client that read nothing.
LEMMA OnceCalls ==
    ASSUME TypeOK, CallsOK, OnceStarts,
           AddAll \/ RefreshNext \/ RefreshDone \/ GotAll \/ Timeout \/ MainTail
    PROVE  OnceStarts'
  <1>0. toKernel \in Seq(Request) /\ fromKernel \in Seq(Message) /\ want \in Want
    BY DEF TypeOK, KernelTypeOK, ControlTypeOK
  <1> HIDE DEF None, AtMostOne
  <1>1. CASE AddAll
    <2> DEFINE req == [type |-> "ADD_ALL_SRCS", provider |-> Head(todo)]
    <2>1. req \in Request /\ req.type = "ADD_ALL_SRCS"
      <3>1. Head(todo) \in Provider
        BY <1>1, HeadTailProperties DEF AddAll, TypeOK, ControlTypeOK, CallsOK
      <3> QED  BY <3>1, Requests
    <2>2. /\ toKernel' = Append(toKernel, req) /\ UNCHANGED <<fromKernel, want, startup>>
          /\ pc = "addAll" /\ pc' = "addWait"
      BY <1>1 DEF AddAll, write, callVars
    <2> HIDE DEF req
    <2> QED  BY <1>0, <2>1, <2>2, AppendTypes DEF OnceStarts
  <1>2. CASE RefreshNext
    <2>1. PICK r \in Ref : toKernel' = Append(toKernel, [type |-> "GET_SRC_DESC", srcref |-> r])
      BY <1>2 DEF RefreshNext, write
    <2> DEFINE req == [type |-> "GET_SRC_DESC", srcref |-> r]
    <2>2. req \in Request /\ req.type = "GET_SRC_DESC" /\ toKernel' = Append(toKernel, req)
      BY <2>1, Requests
    <2>3. UNCHANGED <<fromKernel, want, startup>> /\ pc = "refresh" /\ pc' = "refreshWait"
      BY <1>2 DEF RefreshNext, callVars
    <2> HIDE DEF req
    <2> QED  BY <1>0, <2>2, <2>3, AppendTypes DEF OnceStarts
  <1>3. CASE RefreshDone
    <2>1. UNCHANGED <<toKernel, fromKernel, want>> /\ pc = "refresh"
      BY <1>3 DEF RefreshDone, kernelVars
    <2>2. Len(todo) \in Nat
      BY LenProperties DEF TypeOK, ControlTypeOK
    <2>3. want.mode = "once" => \/ pc' = "addAll" /\ startup'
                                \/ pc' = "main"
      <3>1. CASE Len(todo) > 1
        <4>1. startup \in BOOLEAN /\ (want.mode = "once" => startup)
          BY <2>1 DEF OnceStarts, TypeOK, ControlTypeOK
        <4>2. startup' = (startup /\ Len(todo) > 1) /\ pc' = "addAll"
          BY <1>3, <3>1 DEF RefreshDone
        <4> QED  BY <3>1, <4>1, <4>2
      <3>2. CASE ~(Len(todo) > 1)
        <4>1. want.mode = "once" => startup
          BY <2>1 DEF OnceStarts
        <4> QED  BY <1>3, <2>2, <3>2, <4>1 DEF RefreshDone
      <3> QED  BY <3>1, <3>2
    <2> QED  BY <2>1, <2>3 DEF OnceStarts
  <1>4. CASE GotAll
    <2>1. want' = want /\ pc = "gotAll"
      BY <1>4 DEF GotAll
    <2> QED  BY <2>1 DEF OnceStarts
  <1>5. CASE Timeout
    <2>1. /\ UNCHANGED <<fromKernel, want>> /\ pc = "main"
          /\ want.mode = "once" => pc' = "exit" /\ toKernel' = toKernel
      BY <1>5 DEF Timeout
    <2> QED  BY <2>1 DEF OnceStarts
  <1>6. CASE MainTail
    <2>1. UNCHANGED <<toKernel, fromKernel>> /\ pc = "tail" /\ pc' \in {"exit", "main"}
      BY <1>6 DEF MainTail, kernelVars
    <2>2. PICK key \in {"none"} \cup (IF want.mode = "curses" THEN Keys ELSE {}) :
            want' = Toggled(key)
      BY <1>6 DEF MainTail
    <2>3. want'.mode = want.mode /\ (want.mode = "once" => want' = want)
      BY <1>0, <2>2 DEF Toggled, Want
    <2> QED  BY <2>1, <2>3 DEF OnceStarts
  <1> QED  BY <1>1, <1>2, <1>3, <1>4, <1>5, <1>6

LEMMA OnceReads ==
    ASSUME TypeOK, OnceStarts, ReadDoes
    PROVE  OnceStarts'
  <1>0. toKernel \in Seq(Request) /\ fromKernel \in Seq(Message)
    BY DEF TypeOK, KernelTypeOK
  <1> HIDE DEF None, AtMostOne
  <1> SUFFICES ASSUME want.mode = "once" PROVE OnceStarts'
    BY DEF ReadDoes, OnceStarts
  <1>1. /\ None(fromKernel, "SUCCESS") => None(fromKernel', "SUCCESS")
        /\ AtMostOne(fromKernel', "SUCCESS")
        /\ Head(fromKernel).type = "SUCCESS" =>
             /\ None(fromKernel', "SUCCESS") /\ None(toKernel, "ADD_ALL_SRCS")
             /\ pc \in {"addWait", "aborted"}
    BY <1>0, TailTypes DEF ReadDoes, OnceStarts
  <1>2. /\ \A t \in {"QUERY_SRC", "NONE", "ADD_ALL_SRCS"} : None(toKernel, t) => None(toKernel', t)
        /\ AtMostOne(toKernel', "ADD_ALL_SRCS")
    <2>1. CASE toKernel' = toKernel
      BY <2>1 DEF OnceStarts
    <2>2. ASSUME NEW r \in Ref, toKernel' = Append(toKernel, [type |-> "GET_SRC_DESC", srcref |-> r])
          PROVE  /\ \A t \in {"QUERY_SRC", "NONE", "ADD_ALL_SRCS"} :
                      None(toKernel, t) => None(toKernel', t)
                 /\ AtMostOne(toKernel', "ADD_ALL_SRCS")
      <3> DEFINE req == [type |-> "GET_SRC_DESC", srcref |-> r]
      <3>1. req \in Request /\ req.type = "GET_SRC_DESC" /\ toKernel' = Append(toKernel, req)
        BY <2>2, Requests
      <3> HIDE DEF req
      <3> QED  BY <1>0, <3>1, AppendTypes DEF OnceStarts
    <2> QED  BY <2>1, <2>2 DEF ReadDoes
  <1>3. want' = want /\ startup' = startup
    BY DEF ReadDoes
  <1>4. /\ pc' \in {"addAll", "addWait", "refresh", "refreshWait"} => startup
        /\ pc' \notin {"gotAll", "query"}
        /\ pc' \notin {"addWait", "aborted"} =>
             None(toKernel', "ADD_ALL_SRCS") /\ None(fromKernel', "SUCCESS")
    BY <1>1, <1>2 DEF ReadDoes, OnceStarts
  <1> QED  BY <1>1, <1>2, <1>3, <1>4 DEF OnceStarts

LEMMA OnceKernel ==
    ASSUME TypeOK, OnceStarts, Environment \/ Kernel, UNCHANGED lsockVars
    PROVE  OnceStarts'
  <1>0. toKernel \in Seq(Request) /\ fromKernel \in Seq(Message)
    BY DEF TypeOK, KernelTypeOK
  <1>1. UNCHANGED <<want, pc, startup>>
    BY DEF lsockVars
  <1> HIDE DEF None, AtMostOne
  <1> SUFFICES ASSUME want.mode = "once" PROVE OnceStarts'
    BY <1>1 DEF OnceStarts
  <1>2. KernelDoes
    BY KernelDoesSo DEF TypeOK, OnceStarts
  <1>3. CASE /\ toKernel' = toKernel
             /\ \/ fromKernel' = fromKernel
                \/ \E m \in Message : fromKernel' = Append(fromKernel, m) /\ m.type # "SUCCESS"
    BY <1>0, <1>1, <1>3, AppendTypes DEF OnceStarts
  <1>4. CASE /\ toKernel # <<>> /\ toKernel' = Tail(toKernel)
             /\ \E m \in Message : /\ fromKernel' = Append(fromKernel, m)
                                   /\ m.type = "SUCCESS" => Head(toKernel).type = "ADD_ALL_SRCS"
    <2>1. PICK m \in Message : /\ fromKernel' = Append(fromKernel, m)
                               /\ m.type = "SUCCESS" => Head(toKernel).type = "ADD_ALL_SRCS"
      BY <1>4
    <2>2. \A t \in {"QUERY_SRC", "NONE", "ADD_ALL_SRCS"} : None(toKernel, t) => None(toKernel', t)
      BY <1>0, <1>4, TailTypes
    <2>3. AtMostOne(toKernel', "ADD_ALL_SRCS")
      BY <1>0, <1>4, TailTypes DEF OnceStarts
    <2>4. CASE m.type = "SUCCESS"
      <3>1. None(toKernel', "ADD_ALL_SRCS") /\ ~None(toKernel, "ADD_ALL_SRCS")
        BY <1>0, <1>4, <2>1, <2>4, TailTypes DEF OnceStarts
      <3>2. AtMostOne(fromKernel', "SUCCESS")
        BY <1>0, <2>1, <3>1, AppendTypes DEF OnceStarts
      <3>3. pc \in {"addWait", "aborted"}
        BY <3>1 DEF OnceStarts
      <3>4. None(toKernel', "QUERY_SRC") /\ None(toKernel', "NONE")
        BY <2>2 DEF OnceStarts
      <3>5. AtMostOne(toKernel', "ADD_ALL_SRCS")
        BY <2>3
      <3>6. pc' = pc /\ want' = want /\ startup' = startup
        BY <1>1
      <3>7. /\ want'.listen
            /\ pc' \in {"addAll", "addWait", "refresh", "refreshWait"} => startup'
            /\ pc' \in {"addWait", "aborted"}
        BY <3>3, <3>6 DEF OnceStarts
      <3> QED  BY <3>1, <3>2, <3>4, <3>5, <3>7 DEF OnceStarts
    <2>5. CASE m.type # "SUCCESS"
      <3>1. /\ None(fromKernel, "SUCCESS") => None(fromKernel', "SUCCESS")
            /\ AtMostOne(fromKernel', "SUCCESS")
        BY <1>0, <2>1, <2>5, AppendTypes DEF OnceStarts
      <3> QED  BY <1>1, <2>2, <2>3, <3>1 DEF OnceStarts
    <2> QED  BY <2>4, <2>5
  <1> QED  BY <1>2, <1>3, <1>4 DEF KernelDoes

\* The filters of lsock once are those of its arguments.
LEMMA WantKept ==
    ASSUME TypeOK, OnceStarts, [Next]_vars
    PROVE  want'.mode = want.mode /\ (want.mode = "once" => want' = want)
  <1>1. CASE MainTail
    <2>1. PICK key \in {"none"} \cup (IF want.mode = "curses" THEN Keys ELSE {}) :
            want' = Toggled(key)
      BY <1>1 DEF MainTail
    <2> QED  BY <2>1 DEF Toggled, TypeOK, ControlTypeOK, Want
  <1>2. CASE ~MainTail
    <2>1. Receive => want' = want
      BY ReadDoesSo DEF ReadDoes
    <2> QED  BY <1>2, <2>1 DEF Next, Client, AddAll, RefreshNext, RefreshDone, GotAll, Timeout,
                               Terminated, vars, lsockVars
  <1> QED  BY <1>1, <1>2

LEMMA OnceStartsHolds == Spec => []OnceStarts
  <1>1. Init => OnceStarts
    <2> SUFFICES ASSUME Init PROVE OnceStarts
      OBVIOUS
    <2>1. \A t : None(<<>>, t) /\ AtMostOne(<<>>, t)
      BY EmptySeq DEF None, AtMostOne
    <2> HIDE DEF None, AtMostOne
    <2> QED  BY <2>1, LsockAssumption
             DEF LsockAssumption, Init, KernelInit, LsockInit, OnceStarts
  <1>2. TypeOK /\ CallsOK /\ OnceStarts /\ [Next]_vars => OnceStarts'
    <2> SUFFICES ASSUME TypeOK, CallsOK, OnceStarts, [Next]_vars PROVE OnceStarts'
      OBVIOUS
    <2>1. CASE Client
      BY <2>1, OnceCalls, ReadDoesSo, OnceReads DEF Client
    <2>2. CASE (Environment \/ Kernel) /\ UNCHANGED lsockVars
      BY <2>2, OnceKernel
    <2>3. CASE UNCHANGED vars
      BY <2>3 DEF vars, kernelVars, lsockVars, OnceStarts, None, AtMostOne
    <2> QED  BY <2>1, <2>2, <2>3 DEF Next, Terminated
  <1> QED  BY <1>1, <1>2, TypeCorrect, PTL DEF Spec

\* The elements of a queue after it loses its first, or gains a last.
LEMMA TailElements ==
    ASSUME NEW S, NEW q \in Seq(S), q # <<>>
    PROVE  \A i \in DOMAIN Tail(q) : \E j \in DOMAIN q : Tail(q)[i] = q[j]
  <1>1. /\ Len(q) \in Nat \ {0} /\ DOMAIN q = 1 .. Len(q)
        /\ Tail(q) \in Seq(S) /\ Len(Tail(q)) = Len(q) - 1
        /\ \A i \in 1 .. Len(q) - 1 : Tail(q)[i] = q[i + 1]
    BY HeadTailProperties, LenProperties, EmptySeq
  <1>2. DOMAIN Tail(q) = 1 .. Len(q) - 1
    BY <1>1, LenProperties
  <1>3. \A i \in 1 .. Len(q) - 1 : i + 1 \in 1 .. Len(q)
    BY <1>1
  <1> QED  BY <1>1, <1>2, <1>3

LEMMA AppendElements ==
    ASSUME NEW S, NEW q \in Seq(S), NEW e \in S
    PROVE  \A i \in DOMAIN Append(q, e) :
             \/ \E j \in DOMAIN q : Append(q, e)[i] = q[j]
             \/ Append(q, e)[i] = e
  <1>1. /\ Len(q) \in Nat /\ DOMAIN q = 1 .. Len(q)
        /\ Append(q, e) \in Seq(S) /\ Len(Append(q, e)) = Len(q) + 1
        /\ \A i \in 1 .. Len(q) : Append(q, e)[i] = q[i]
        /\ Append(q, e)[Len(q) + 1] = e
    BY AppendProperties, LenProperties
  <1>2. DOMAIN Append(q, e) = 1 .. Len(q) + 1
    BY <1>1, LenProperties
  <1> QED  BY <1>1, <1>2

LEMMA HeadElement ==
    ASSUME NEW S, NEW q \in Seq(S), q # <<>>
    PROVE  1 \in DOMAIN q /\ Head(q) = q[1]
  BY HeadTailProperties, LenProperties, EmptySeq

LEMMA OnceWatchesHolds == Spec => []OnceWatches
  <1>1. Init => OnceWatches
    <2> SUFFICES ASSUME Init, want.mode = "once" PROVE OnceWatches
      BY DEF OnceWatches
    <2>1. \A i \in DOMAIN todo : Wanted(todo[i])
      <3> DEFINE tcp == IF want.tcp THEN <<"TCP_KERNEL", "TCP_USERLAND">> ELSE <<>>
                 udp == IF want.udp THEN <<"UDP_KERNEL", "UDP_USERLAND">> ELSE <<>>
      <3>1. /\ tcp \in Seq(Provider) /\ Len(tcp) \in Nat
            /\ \A i \in 1 .. Len(tcp) : want.tcp /\ tcp[i] \in TcpProvider
        <4>1. /\ <<"TCP_KERNEL", "TCP_USERLAND">> \in Seq(Provider)
              /\ Len(<<"TCP_KERNEL", "TCP_USERLAND">>) = 2
              /\ \A i \in 1 .. 2 : <<"TCP_KERNEL", "TCP_USERLAND">>[i] \in TcpProvider
          BY DEF Provider, TcpProvider, UdpProvider
        <4> QED  BY <4>1, EmptySeq
      <3>2. /\ udp \in Seq(Provider) /\ Len(udp) \in Nat
            /\ \A i \in 1 .. Len(udp) : want.udp /\ udp[i] \in UdpProvider
        <4>1. /\ <<"UDP_KERNEL", "UDP_USERLAND">> \in Seq(Provider)
              /\ Len(<<"UDP_KERNEL", "UDP_USERLAND">>) = 2
              /\ \A i \in 1 .. 2 : <<"UDP_KERNEL", "UDP_USERLAND">>[i] \in UdpProvider
          BY DEF Provider, TcpProvider, UdpProvider
        <4> QED  BY <4>1, EmptySeq
      <3>3. todo = tcp \o udp
        BY DEF Init, LsockInit
      <3> HIDE DEF tcp, udp
      <3>4. /\ DOMAIN todo = 1 .. Len(tcp) + Len(udp)
            /\ \A i \in 1 .. Len(tcp) + Len(udp) :
                 todo[i] = IF i <= Len(tcp) THEN tcp[i] ELSE udp[i - Len(tcp)]
        <4>1. /\ tcp \o udp \in Seq(Provider) /\ Len(tcp \o udp) = Len(tcp) + Len(udp)
              /\ \A i \in 1 .. Len(tcp) + Len(udp) :
                   (tcp \o udp)[i] = IF i <= Len(tcp) THEN tcp[i] ELSE udp[i - Len(tcp)]
          BY <3>1, <3>2, ConcatProperties
        <4> QED  BY <3>3, <4>1, LenProperties
      <3>5. \A p \in TcpProvider : p \notin UdpProvider
        BY DEF TcpProvider, UdpProvider
      <3>6. ASSUME NEW i \in DOMAIN todo PROVE Wanted(todo[i])
        <4>1. CASE i <= Len(tcp)
          BY <3>1, <3>4, <3>5, <3>6, <4>1 DEF Wanted
        <4>2. CASE ~(i <= Len(tcp))
          <5>1. i - Len(tcp) \in 1 .. Len(udp) /\ todo[i] = udp[i - Len(tcp)]
            BY <3>1, <3>2, <3>4, <3>6, <4>2
          <5> QED  BY <3>2, <5>1 DEF Wanted
        <4> QED  BY <4>1, <4>2
      <3> QED  BY <3>6
    <2> QED  BY <2>1, EmptySeq DEF Init, KernelInit, OnceWatches
  <1>2. TypeOK /\ CallsOK /\ OnceStarts /\ OnceWatches /\ [Next]_vars => OnceWatches'
    <2> SUFFICES ASSUME TypeOK, CallsOK, OnceStarts, OnceWatches, [Next]_vars,
                        want.mode = "once"
                 PROVE  OnceWatches'
      BY WantKept DEF OnceWatches
    <2>0. /\ toKernel \in Seq(Request) /\ fromKernel \in Seq(Message) /\ todo \in Seq(Provider)
          /\ want' = want /\ \A p : Wanted(p)' <=> Wanted(p)
      BY WantKept DEF TypeOK, KernelTypeOK, ControlTypeOK, Wanted
    <2> HIDE DEF Wanted
    \* A request that is written for a provider of todo, or for none.
    <2>w. ASSUME NEW req \in Request, toKernel' = Append(toKernel, req),
                 req.type = "ADD_ALL_SRCS" => Wanted(req.provider)
          PROVE  \A i \in DOMAIN toKernel' :
                   toKernel'[i].type = "ADD_ALL_SRCS" => Wanted(toKernel'[i].provider)
      BY <2>0, <2>w, AppendElements DEF OnceWatches
    <2>1. CASE AddAll
      <3>1. Head(todo) \in Provider /\ Wanted(Head(todo))
        <4>1. todo # <<>>
          BY <2>1 DEF AddAll, CallsOK
        <4> QED  BY <2>0, <4>1, HeadElement, HeadTailProperties DEF OnceWatches
      <3> DEFINE req == [type |-> "ADD_ALL_SRCS", provider |-> Head(todo)]
      <3>2. req \in Request /\ req.provider = Head(todo) /\ toKernel' = Append(toKernel, req)
        BY <2>1, <3>1, Requests DEF AddAll, write
      <3>3. UNCHANGED <<todo, watched, announced>>
        BY <2>1 DEF AddAll, callVars
      <3> HIDE DEF req
      <3> QED  BY <2>0, <2>w, <3>1, <3>2, <3>3 DEF OnceWatches
    <2>2. CASE RefreshNext
      <3>1. PICK r \in Ref : toKernel' = Append(toKernel, [type |-> "GET_SRC_DESC", srcref |-> r])
        BY <2>2 DEF RefreshNext, write
      <3>2. UNCHANGED <<todo, watched, announced>>
        BY <2>2 DEF RefreshNext, callVars
      <3>3. \A i \in DOMAIN toKernel' :
              toKernel'[i].type = "ADD_ALL_SRCS" => Wanted(toKernel'[i].provider)
        BY <2>w, <3>1, Requests
      <3> QED  BY <2>0, <3>2, <3>3 DEF OnceWatches
    <2>3. CASE RefreshDone
      <3>1. todo # <<>> /\ todo' = Tail(todo)
        BY <2>3 DEF RefreshDone, CallsOK
      <3>2. \A i \in DOMAIN todo' : Wanted(todo'[i])
        BY <2>0, <3>1, TailElements DEF OnceWatches
      <3>3. UNCHANGED <<toKernel, watched, announced>>
        BY <2>3 DEF RefreshDone, kernelVars
      <3> QED  BY <2>0, <3>2, <3>3 DEF OnceWatches
    <2>4. CASE GotAll
      BY <2>4 DEF GotAll, OnceStarts
    <2>5. CASE Timeout
      BY <2>0, <2>5 DEF Timeout, callVars, OnceWatches
    <2>6. CASE MainTail
      BY <2>0, <2>6 DEF MainTail, kernelVars, callVars, OnceWatches
    <2>7. CASE Receive
      <3>1. ReadDoes
        BY <2>7, ReadDoesSo
      <3>2. todo' = todo
        <4>1. pc = "main" => Head(fromKernel).type # "SUCCESS"
          BY <2>0, <3>1, TailTypes DEF OnceStarts, ReadDoes
        <4> QED  BY <3>1, <4>1 DEF ReadDoes
      <3>3. \A i \in DOMAIN toKernel' :
              toKernel'[i].type = "ADD_ALL_SRCS" => Wanted(toKernel'[i].provider)
        <4>1. CASE toKernel' = toKernel
          BY <4>1 DEF OnceWatches
        <4>2. ASSUME NEW r \in Ref,
                     toKernel' = Append(toKernel, [type |-> "GET_SRC_DESC", srcref |-> r])
              PROVE  \A i \in DOMAIN toKernel' :
                       toKernel'[i].type = "ADD_ALL_SRCS" => Wanted(toKernel'[i].provider)
          BY <2>w, <4>2, Requests
        <4> QED  BY <3>1, <4>1, <4>2 DEF ReadDoes
      <3> QED  BY <2>0, <3>1, <3>2, <3>3 DEF ReadDoes, OnceWatches
    <2>8. CASE (Environment \/ Kernel) /\ UNCHANGED lsockVars
      <3>1. KernelDoes /\ todo' = todo
        BY <2>8, KernelDoesSo DEF TypeOK, OnceStarts, lsockVars
      <3>2. toKernel # <<>> /\ Head(toKernel).type = "ADD_ALL_SRCS" => Wanted(Head(toKernel).provider)
        BY <2>0, HeadElement DEF OnceWatches
      <3>3. CASE /\ UNCHANGED <<toKernel, watched>>
                 /\ \A r \in announced' : \/ r \in announced \/ ProviderOf[r] \in watched
                                          \/ /\ toKernel # <<>>
                                             /\ Head(toKernel).type = "ADD_ALL_SRCS"
                                             /\ ProviderOf[r] = Head(toKernel).provider
        BY <2>0, <3>1, <3>2, <3>3 DEF OnceWatches
      <3>4. CASE /\ toKernel # <<>> /\ toKernel' = Tail(toKernel)
                 /\ announced' \subseteq announced
                 /\ \A p \in watched' : \/ p \in watched
                                        \/ /\ Head(toKernel).type = "ADD_ALL_SRCS"
                                           /\ p = Head(toKernel).provider
        <4>1. \A i \in DOMAIN toKernel' : \E j \in DOMAIN toKernel : toKernel'[i] = toKernel[j]
          BY <2>0, <3>4, TailElements
        <4> QED  BY <2>0, <3>1, <3>2, <3>4, <4>1 DEF OnceWatches
      <3> QED  BY <3>1, <3>3, <3>4 DEF KernelDoes
    <2>9. CASE UNCHANGED vars
      BY <2>0, <2>9 DEF vars, kernelVars, lsockVars, OnceWatches
    <2> QED  BY <2>1, <2>2, <2>3, <2>4, <2>5, <2>6, <2>7, <2>8, <2>9
             DEF Next, Client, Terminated
  <1> QED  BY <1>1, <1>2, TypeCorrect, OnceStartsHolds, PTL DEF Spec

\* A row is right for the kind of its source, and that of the announced source
\* unless the announcement is still to be read.
RowRight(row, r) == row.kind = "text" => row.state \in SocketState(ProviderOf[r])
RowFits(row, r, known, queue, sockets) ==
    r \in known =>
        \/ Member(Announcement(r), queue)
        \/ row # NULL /\ (row.kind = "text" => row.inc = sockets[r].inc)

SourcesRight ==
    /\ \A r \in Ref : sock[r].state \in SocketState(ProviderOf[r])
    /\ \A i \in DOMAIN fromKernel :
         fromKernel[i].type = "SRC_DESC" =>
             fromKernel[i].state \in SocketState(ProviderOf[fromKernel[i].srcref])

RowsRight ==
    /\ SourcesRight
    /\ \A r \in Ref : RowRight(descriptors[r], r)
    /\ \A i \in DOMAIN nest : RowRight(nest[i].row, nest[i].ref)

\* A source whose row waits in a pending call is not the next to be announced.
NestStands == \A i \in DOMAIN nest : IsKnown(nest[i].ref) /\ AnewBehind(nest[i].ref, 0)

OnceFits ==
    want.mode = "once" /\ pc # "aborted" =>
        /\ \A r \in Ref : InNest(r) \/ RowFits(descriptors[r], r, announced, fromKernel, sock)
        /\ \A i \in DOMAIN nest : RowFits(nest[i].row, nest[i].ref, announced, fromKernel, sock)

OnceInv == DescOrder /\ Reannounced /\ RowsRight /\ NestStands /\ OnceFits

-----------------------------------------------------------------------------
(* What reading a message does to the rows                                 *)

SameRow(new, old) ==
    /\ new = NULL <=> old = NULL
    /\ new.kind = "text" <=> old.kind = "text"
    /\ new.kind = "text" => new.inc = old.inc /\ new.state = old.state

RowRead(new, old, r) ==
    LET m == Head(fromKernel) IN
    \/ SameRow(new, old) /\ m # Announcement(r)
    \/ new = Reading
    \/ new = NULL /\ m = Removal(r)
    \/ /\ m.type = "SRC_DESC" /\ m.srcref = r
       /\ new.kind = "text" /\ new.inc = m.inc /\ new.state = m.state

\* Reading one keeps a row right ...
LEMMA RowReadKeeps ==
    ASSUME KernelTypeOK, KernelOrder, Reannounced, SourcesRight,
           fromKernel # <<>>, fromKernel' = Tail(fromKernel), UNCHANGED <<sock, announced>>,
           NEW r \in Ref, NEW new, NEW old, RowRead(new, old, r)
    PROVE  /\ RowRight(old, r) => RowRight(new, r)
           /\ RowFits(old, r, announced, fromKernel, sock) =>
                RowFits(new, r, announced, fromKernel', sock)
  <1> DEFINE m == Head(fromKernel)
  <1>0. /\ fromKernel \in Seq(Message) /\ m \in Message
        /\ NULL.kind = "NULL" /\ Reading.kind = "reading"
    BY HeadTailProperties DEF KernelTypeOK, NULL, Reading
  <1>1. CASE SameRow(new, old) /\ m # Announcement(r)
    <2>1. Member(Announcement(r), fromKernel) => Member(Announcement(r), fromKernel')
      BY <1>0, <1>1, TailMember
    <2> HIDE DEF m
    <2> QED  BY <1>1, <2>1 DEF SameRow, RowRight, RowFits
  <1>2. CASE new = Reading
    <2>1. new # NULL /\ new.kind = "reading"
      BY <1>0, <1>2
    <2> QED  BY <2>1 DEF RowRight, RowFits
  <1>3. CASE new = NULL /\ m = Removal(r)
    <2>1. new.kind = "NULL"
      BY <1>0, <1>3
    <2>2. r \in announced => Member(Announcement(r), fromKernel')
      BY <1>3, ReadKeepsReannounced
    <2> QED  BY <2>1, <2>2 DEF RowRight, RowFits
  <1>4. CASE /\ m.type = "SRC_DESC" /\ m.srcref = r
             /\ new.kind = "text" /\ new.inc = m.inc /\ new.state = m.state
    <2>1. m.state \in SocketState(ProviderOf[r])
      BY <1>0, <1>4, HeadElement DEF SourcesRight
    <2>2. Current(r, m.inc) \/ RemovalBehind(r, 0)'
      <3>1. \A inc : inc = m.inc => Stands(r, inc)'
        BY <1>4, ReadKeepsOrder
      <3>2. \A inc : Current(r, inc)' <=> Current(r, inc)
        BY DEF Current
      <3> HIDE DEF m
      <3> QED  BY <3>1, <3>2 DEF Stands
    <2>3. r \in announced /\ RemovalBehind(r, 0)' => Member(Announcement(r), fromKernel')
      <3>1. Reannounced'
        BY ReadKeepsReannounced
      <3> QED  BY <3>1 DEF Reannounced, AnnouncedBehind, RemovalBehind, Member, Announcement, Removal
    <2>4. new # NULL
      BY <1>0, <1>4
    <2> HIDE DEF m
    <2> QED  BY <1>4, <2>1, <2>2, <2>3, <2>4 DEF Current, RowRight, RowFits
  <1> QED  BY <1>1, <1>2, <1>3, <1>4 DEF RowRead

\* ... and these are the rows it leaves.
ReadsRows ==
    \/ pc' = "aborted" /\ nest' = <<>> /\ descriptors' = descriptors
    \/ \E rows : Return(rows) /\ \A r \in Ref : RowRead(rows[r], descriptors[r], r)
    \/ /\ descriptors' = descriptors /\ nest' = nest
       /\ Head(fromKernel).type = "SUCCESS"
    \/ /\ Head(fromKernel).type = "SRC_DESC" /\ Head(fromKernel).srcref \in Ref
       /\ descriptors' = descriptors
       /\ nest' = Append(nest, [ref |-> Head(fromKernel).srcref, row |-> RowText(Head(fromKernel))])

LEMMA ReadsRowsSo ==
    ASSUME TypeOK, Receive
    PROVE  ReadsRows /\ UNCHANGED <<sock, announced>>
  <1> DEFINE m == Head(fromKernel)
             q == m.srcref
  <1>0. /\ KernelTypeOK /\ descriptors \in Rows
        /\ \A r : Announcement(r).type = "SRC_ADDED" /\ Announcement(r).srcref = r
    BY DEF TypeOK, TableTypeOK, Rows, Announcement
  <1>1. ASSUME NEW t, ReadNext(t)
        PROVE  m \in Message /\ m.type = t
    BY <1>0, <1>1, ReadType DEF ReadNext
  <1>s. \A row : SameRow(row, row)
    BY DEF SameRow
  \* A row the message is not about.
  <1>o. ASSUME NEW r \in Ref, m # Announcement(r)
        PROVE  RowRead(descriptors[r], descriptors[r], r)
    BY <1>o, <1>s DEF RowRead
  <1>u. UNCHANGED <<sock, announced>>
    BY DEF Receive, SrcAdded, SrcRemoved, FreeLiteral, SrcCounts, SrcDesc, SrcDescClosed,
           StackOverflow, ReadError, AddAllSuccess, MainSuccess, OtherSuccess
  <1>2. CASE SrcAdded
    <2> DEFINE rows == [descriptors EXCEPT ![q] = Reading]
    <2>1. ReadNext("SRC_ADDED") /\ Return(rows)
      BY <1>2 DEF SrcAdded
    <2>2. q \in Ref
      BY <1>1, <2>1, MessageFields
    <2>3. ASSUME NEW r \in Ref PROVE RowRead(rows[r], descriptors[r], r)
      <3>1. CASE r = q
        BY <1>0, <2>2, <3>1 DEF RowRead, Rows
      <3>2. CASE r # q
        <4>1. rows[r] = descriptors[r] /\ m # Announcement(r)
          BY <1>0, <2>2, <3>2 DEF Rows
        <4> HIDE DEF rows, m
        <4> QED  BY <1>o, <4>1
      <3> QED  BY <3>1, <3>2
    <2> HIDE DEF rows
    <2> QED  BY <1>u, <2>1, <2>3 DEF ReadsRows
  <1>3. CASE SrcRemoved
    <2> DEFINE rows == [descriptors EXCEPT ![q] = NULL]
    <2>1. ReadNext("SRC_REMOVED") /\ Return(rows)
      BY <1>3 DEF SrcRemoved
    <2>2. q \in Ref /\ m.type = "SRC_REMOVED"
      BY <1>1, <2>1, MessageFields
    <2>3. ASSUME NEW r \in Ref PROVE RowRead(rows[r], descriptors[r], r)
      <3>1. CASE r = q
        <4>1. m = Removal(r)
          BY <1>1, <2>1, <2>2, <3>1 DEF Message, Removal
        <4> QED  BY <1>0, <2>2, <3>1, <4>1 DEF RowRead, Rows
      <3>2. CASE r # q
        <4>1. rows[r] = descriptors[r] /\ m # Announcement(r)
          BY <1>0, <2>2, <3>2 DEF Rows
        <4> HIDE DEF rows, m
        <4> QED  BY <1>o, <4>1
      <3> QED  BY <3>1, <3>2
    <2> HIDE DEF rows
    <2> QED  BY <1>u, <2>1, <2>3 DEF ReadsRows
  <1>4. CASE SrcCounts
    <2> DEFINE rows == IF descriptors[q].kind = "text"
                       THEN [descriptors EXCEPT ![q] = [@ EXCEPT !.rx = m.rx]]
                       ELSE descriptors
    <2>1. ReadNext("SRC_COUNTS") /\ Return(rows)
      BY <1>4 DEF SrcCounts
    <2>2. q \in Ref /\ m.type = "SRC_COUNTS"
      BY <1>1, <2>1, MessageFields
    <2>3. ASSUME NEW r \in Ref PROVE RowRead(rows[r], descriptors[r], r)
      <3>0. m # Announcement(r)
        BY <1>0, <2>2
      <3>1. CASE r = q /\ descriptors[q].kind = "text"
        <4>1. descriptors[q] \in Text
          BY <1>0, <2>2, <3>1 DEF Rows, NULL, Reading
        <4>2. rows[q] = [descriptors[q] EXCEPT !.rx = m.rx]
          BY <1>0, <2>2, <3>1 DEF Rows
        <4>3. /\ rows[q].kind = "text" /\ rows[q].state = descriptors[q].state
              /\ rows[q].inc = descriptors[q].inc
          BY <4>1, <4>2 DEF Text
        <4>4. NULL.kind = "NULL"
          BY DEF NULL
        <4> HIDE DEF rows, m
        <4>5. SameRow(rows[q], descriptors[q])
          BY <3>1, <4>3, <4>4 DEF SameRow
        <4> QED  BY <3>0, <3>1, <4>5 DEF RowRead, m
      <3>2. CASE ~(r = q /\ descriptors[q].kind = "text")
        <4>1. rows[r] = descriptors[r]
          BY <1>0, <2>2, <3>2 DEF Rows
        <4> HIDE DEF rows, m
        <4> QED  BY <1>o, <3>0, <4>1
      <3> QED  BY <3>1, <3>2
    <2> HIDE DEF rows
    <2> QED  BY <1>u, <2>1, <2>3 DEF ReadsRows
  <1>5. CASE SrcDesc
    <2> DEFINE rows == [descriptors EXCEPT ![q] = RowText(m)]
    <2>1. ReadNext("SRC_DESC") /\ Return(rows)
      BY <1>5 DEF SrcDesc
    <2>2. q \in Ref /\ m.type = "SRC_DESC"
      BY <1>1, <2>1, MessageFields
    <2>3. ASSUME NEW r \in Ref PROVE RowRead(rows[r], descriptors[r], r)
      <3>1. CASE r = q
        <4>1. rows[r] = RowText(m)
          BY <1>0, <2>2, <3>1 DEF Rows
        <4>2. /\ rows[r].kind = "text" /\ rows[r].inc = m.inc /\ rows[r].state = m.state
          BY <4>1 DEF RowText
        <4> HIDE DEF rows
        <4> QED  BY <2>2, <3>1, <4>2 DEF RowRead
      <3>2. CASE r # q
        <4>1. rows[r] = descriptors[r] /\ m # Announcement(r)
          BY <1>0, <2>2, <3>2 DEF Rows
        <4> HIDE DEF rows, m
        <4> QED  BY <1>o, <4>1
      <3> QED  BY <3>1, <3>2
    <2> HIDE DEF rows
    <2> QED  BY <1>u, <2>1, <2>3 DEF ReadsRows
  <1>6. CASE ReadError \/ OtherSuccess
    <2>1. PICK t \in {"ERROR", "SUCCESS"} : ReadNext(t)
      BY <1>6 DEF ReadError, OtherSuccess
    <2>2. Return(descriptors)
      BY <1>6 DEF ReadError, OtherSuccess
    <2>3. \A r \in Ref : m # Announcement(r)
      BY <1>0, <1>1, <2>1
    <2> HIDE DEF m
    <2> QED  BY <1>o, <1>u, <2>2, <2>3 DEF ReadsRows
  <1>7. CASE SrcDescClosed
    <2>1. ReadNext("SRC_DESC") /\ descriptors' = descriptors
      BY <1>7 DEF SrcDescClosed, tableVars
    <2>2. nest' = Append(nest, [ref |-> q, row |-> RowText(m)])
      BY <1>7 DEF SrcDescClosed
    <2>3. q \in Ref /\ m.type = "SRC_DESC"
      BY <1>1, <2>1, MessageFields
    <2> QED  BY <1>u, <2>1, <2>2, <2>3 DEF ReadsRows
  <1>8. CASE FreeLiteral \/ StackOverflow
    BY <1>u, <1>8 DEF FreeLiteral, StackOverflow, tableVars, ReadsRows
  <1>9. CASE AddAllSuccess \/ MainSuccess
    <2>1. ReadNext("SUCCESS") /\ UNCHANGED <<descriptors, nest>>
      BY <1>9 DEF AddAllSuccess, MainSuccess, tableVars
    <2> QED  BY <1>1, <1>u, <2>1 DEF ReadsRows
  <1> QED  BY <1>2, <1>3, <1>4, <1>5, <1>6, <1>7, <1>8, <1>9 DEF Receive

-----------------------------------------------------------------------------
(* Every step keeps the rows of lsock once                                 *)

\* A message is read.
LEMMA OnceReceive ==
    ASSUME TypeOK, KernelOrder, OnceStarts, OnceInv, Receive
    PROVE  OnceInv'
  <1>0. /\ KernelTypeOK /\ NestTypeOK /\ fromKernel \in Seq(Message)
        /\ DOMAIN nest = 1 .. Len(nest) /\ Len(nest) \in Nat
        /\ \A i \in DOMAIN nest : nest[i] \in [ref : Ref, row : Text]
    BY LenProperties, ElementOfSeq DEF TypeOK, KernelTypeOK, NestTypeOK
  <1>1. ReadsRows /\ UNCHANGED <<sock, announced>>
    BY ReadsRowsSo
  <1>2. /\ fromKernel # <<>> /\ fromKernel' = Tail(fromKernel) /\ want' = want
        /\ pc # "aborted"
    BY ReadDoesSo DEF ReadDoes
  <1>3. DescOrder' /\ Reannounced'
    BY <1>0, <1>1, <1>2, ReadKeepsAnew, ReadKeepsReannounced DEF OnceInv
  <1>4. SourcesRight'
    <2>1. \A i \in DOMAIN fromKernel' : \E j \in DOMAIN fromKernel : fromKernel'[i] = fromKernel[j]
      BY <1>0, <1>2, TailElements
    <2> QED  BY <1>1, <2>1 DEF OnceInv, RowsRight, SourcesRight
  <1> DEFINE Fits(row, r) == RowFits(row, r, announced, fromKernel, sock)
             Fit(row, r) == RowFits(row, r, announced, fromKernel', sock)
  \* What is read keeps the rows right.
  <1>5. ASSUME NEW r \in Ref, NEW new, NEW old, RowRead(new, old, r)
        PROVE  (RowRight(old, r) => RowRight(new, r)) /\ (Fits(old, r) => Fit(new, r))
    BY <1>0, <1>1, <1>2, <1>5, RowReadKeeps DEF OnceInv, RowsRight
  <1>6. ASSUME NEW i \in DOMAIN nest
        PROVE  /\ nest[i].ref \in Ref /\ RowRight(nest[i].row, nest[i].ref)
               /\ Fits(nest[i].row, nest[i].ref) => Fit(nest[i].row, nest[i].ref)
    <2>1. Head(fromKernel) # Announcement(nest[i].ref)
      BY <1>0, <1>2, ReadKeepsAnew DEF OnceInv, NestStands
    <2>2. RowRead(nest[i].row, nest[i].row, nest[i].ref)
      BY <2>1 DEF RowRead, SameRow
    <2>3. nest[i].ref \in Ref
      BY <1>0
    <2> QED  BY <1>5, <2>2, <2>3 DEF OnceInv, RowsRight
  <1>n. ASSUME nest' = <<>> PROVE NestStands' /\ \A r : ~InNest(r)'
    BY <1>n, EmptySeq DEF NestStands, InNest
  <1>7. CASE pc' = "aborted" /\ nest' = <<>> /\ descriptors' = descriptors
    BY <1>3, <1>4, <1>7, <1>n, EmptySeq DEF OnceInv, RowsRight, OnceFits
  <1>8. ASSUME NEW rows, Return(rows), \A r \in Ref : RowRead(rows[r], descriptors[r], r)
        PROVE  OnceInv'
    <2>1. descriptors' = Unwind(rows) /\ nest' = <<>>
      BY <1>8 DEF Return
    <2>2. ASSUME NEW r \in Ref
          PROVE  /\ RowRight(descriptors'[r], r)
                 /\ want.mode = "once" => Fit(descriptors'[r], r)
      <3>1. CASE ~InNest(r) /\ descriptors'[r] = rows[r]
        <4>1. RowRight(descriptors[r], r)
          BY DEF OnceInv, RowsRight
        <4>2. want.mode = "once" => Fits(descriptors[r], r)
          BY <1>2, <3>1 DEF OnceInv, OnceFits
        <4>3. RowRead(descriptors'[r], descriptors[r], r)
          BY <1>8, <3>1
        <4> HIDE DEF Fits, Fit
        <4> QED  BY <1>5, <4>1, <4>2, <4>3
      <3>2. ASSUME NEW i \in DOMAIN nest, nest[i].ref = r, descriptors'[r] = nest[i].row
            PROVE  /\ RowRight(descriptors'[r], r)
                   /\ want.mode = "once" => Fit(descriptors'[r], r)
        <4>1. want.mode = "once" => Fits(nest[i].row, nest[i].ref)
          BY <1>2 DEF OnceInv, OnceFits
        <4> HIDE DEF Fits, Fit
        <4> QED  BY <1>6, <3>2, <4>1
      <3> QED  BY <1>0, <2>1, <3>1, <3>2, UnwindCall
    <2>3. RowsRight'
      BY <1>4, <2>1, <2>2, EmptySeq DEF RowsRight
    <2>4. OnceFits'
      BY <1>1, <1>2, <2>1, <2>2, EmptySeq DEF OnceFits
    <2> QED  BY <1>3, <1>n, <2>1, <2>3, <2>4 DEF OnceInv
  \* A row the message is not about, and no row is stored.
  <1>9. ASSUME NEW r \in Ref, Head(fromKernel).type # "SRC_ADDED", Fits(descriptors[r], r)
        PROVE  Fit(descriptors[r], r)
    <2>1. Head(fromKernel) # Announcement(r)
      BY <1>9 DEF Announcement
    <2>2. RowRead(descriptors[r], descriptors[r], r)
      BY <2>1 DEF RowRead, SameRow
    <2> HIDE DEF Fits, Fit
    <2> QED  BY <1>5, <1>9, <2>2
  <1>10. CASE descriptors' = descriptors /\ nest' = nest /\ Head(fromKernel).type = "SUCCESS"
    <2>1. RowsRight'
      BY <1>4, <1>10 DEF OnceInv, RowsRight
    <2>2. NestStands'
      <3>1. ASSUME NEW i \in DOMAIN nest
            PROVE  IsKnown(nest[i].ref)' /\ AnewBehind(nest[i].ref, 0)'
        <4>1. \A r : r = nest[i].ref => IsKnown(r) /\ AnewBehind(r, 0)
          BY DEF OnceInv, NestStands
        <4>2. \A r : Head(fromKernel) # Removal(r)
          BY <1>10 DEF Removal
        <4>3. \A r : r = nest[i].ref => IsKnown(r)' /\ AnewBehind(r, 0)'
          BY <1>0, <1>1, <1>2, <4>1, <4>2, ReadKeepsOrder, ReadKeepsAnew DEF OnceInv
        <4> QED  BY <1>10, <4>3
      <3> QED  BY <1>10, <3>1 DEF NestStands
    <2>3. \A r : InNest(r)' <=> InNest(r)
      BY <1>10 DEF InNest
    <2>4. OnceFits'
      <3> SUFFICES ASSUME want.mode = "once" PROVE OnceFits'
        BY <1>2 DEF OnceFits
      <3>1. \A r \in Ref : InNest(r) \/ Fit(descriptors[r], r)
        BY <1>2, <1>9, <1>10 DEF OnceInv, OnceFits
      <3>2. \A i \in DOMAIN nest : Fit(nest[i].row, nest[i].ref)
        BY <1>2, <1>6 DEF OnceInv, OnceFits
      <3> QED  BY <1>1, <1>10, <2>3, <3>1, <3>2 DEF OnceFits
    <2> QED  BY <1>3, <2>1, <2>2, <2>4 DEF OnceInv
  <1>11. CASE /\ Head(fromKernel).type = "SRC_DESC" /\ Head(fromKernel).srcref \in Ref
              /\ descriptors' = descriptors
              /\ nest' = Append(nest, [ref |-> Head(fromKernel).srcref,
                                       row |-> RowText(Head(fromKernel))])
    <2> DEFINE m == Head(fromKernel)
               q == m.srcref
               call == [ref |-> q, row |-> RowText(m)]
    <2>0. m \in Message
      BY <1>0, <1>2, HeadTailProperties
    <2>1. /\ DOMAIN nest' = 1 .. Len(nest) + 1
          /\ \A i \in 1 .. Len(nest) : nest'[i] = nest[i]
          /\ nest'[Len(nest) + 1] = call
      <3>1. call \in [ref : Ref, row : Text]
        BY <1>11, <2>0, RowTextType
      <3> HIDE DEF call
      <3>2. /\ nest' \in Seq([ref : Ref, row : Text]) /\ Len(nest') = Len(nest) + 1
            /\ \A i \in 1 .. Len(nest) : nest'[i] = nest[i]
            /\ nest'[Len(nest) + 1] = call
        BY <1>0, <1>11, <3>1, AppendProperties DEF NestTypeOK, call
      <3> QED  BY <3>2, LenProperties
    <2>2. /\ RowRead(call.row, NULL, q) /\ call.ref = q
          /\ RowRead(call.row, Reading, q)
      BY <1>11 DEF RowRead, RowText
    <2>3. RowRight(call.row, q) /\ Fit(call.row, q)
      <3>1. Fits(Reading, q) /\ RowRight(Reading, q)
        BY DEF RowFits, RowRight, Reading, NULL
      <3> HIDE DEF Fits, Fit, call, m
      <3> QED  BY <1>5, <1>11, <2>2, <3>1 DEF m
    <2>4. /\ \A r : r = q => IsKnown(r)' /\ AnewBehind(r, 0)'
          /\ \A r : IsKnown(r) /\ AnewBehind(r, 0) => IsKnown(r)' /\ AnewBehind(r, 0)'
      <3>1. \A r : Head(fromKernel) # Removal(r)
        BY <1>11 DEF Removal
      <3>2. \A r, inc : Stands(r, inc) => IsKnown(r)
        BY DEF Stands, IsKnown, Current
      <3>3. \A r, inc : Stands(r, inc)' => IsKnown(r)'
        BY DEF Stands, IsKnown, Current
      <3>4. \A r, inc : r = q /\ inc = m.inc => Stands(r, inc)'
        BY <1>0, <1>1, <1>2, <1>11, ReadKeepsOrder
      <3>5. \A r : r = q => AnewBehind(r, 0)'
        BY <1>0, <1>2, <1>11, ReadKeepsAnew DEF OnceInv
      <3>6. \A r : IsKnown(r) => IsKnown(r)'
        BY <1>0, <1>1, <1>2, <3>1, ReadKeepsOrder
      <3>7. \A r : AnewBehind(r, 0) => AnewBehind(r, 0)'
        BY <1>0, <1>2, <3>1, ReadKeepsAnew DEF OnceInv
      <3> HIDE DEF m, q
      <3> QED  BY <3>3, <3>4, <3>5, <3>6, <3>7
    <2> HIDE DEF call, q, m
    <2>5. \A i \in DOMAIN nest' : (i \in DOMAIN nest /\ nest'[i] = nest[i]) \/ nest'[i] = call
      BY <1>0, <2>1
    <2>6. RowsRight'
      BY <1>4, <1>6, <1>11, <2>2, <2>3, <2>5 DEF OnceInv, RowsRight
    <2>7. NestStands'
      <3>1. ASSUME NEW i \in DOMAIN nest'
            PROVE  \A r : r = nest'[i].ref => IsKnown(r)' /\ AnewBehind(r, 0)'
        <4>1. CASE nest'[i] = call
          BY <2>2, <2>4, <4>1
        <4>2. CASE i \in DOMAIN nest /\ nest'[i] = nest[i]
          <5>1. \A r : r = nest[i].ref => IsKnown(r) /\ AnewBehind(r, 0)
            BY <4>2 DEF OnceInv, NestStands
          <5> QED  BY <2>4, <4>2, <5>1
        <4> QED  BY <2>5, <4>1, <4>2
      <3> QED  BY <3>1 DEF NestStands
    <2>8. \A r : InNest(r) => InNest(r)'
      <3>1. \A i \in DOMAIN nest : i \in DOMAIN nest' /\ nest'[i] = nest[i]
        BY <1>0, <2>1
      <3> QED  BY <3>1 DEF InNest
    <2>9. OnceFits'
      <3> SUFFICES ASSUME want.mode = "once" PROVE OnceFits'
        BY <1>2 DEF OnceFits
      <3>1. \A r \in Ref : InNest(r) \/ Fit(descriptors[r], r)
        BY <1>2, <1>9, <1>11 DEF OnceInv, OnceFits
      <3>2. \A i \in DOMAIN nest' : Fit(nest'[i].row, nest'[i].ref)
        <4>1. \A i \in DOMAIN nest : Fit(nest[i].row, nest[i].ref)
          BY <1>2, <1>6 DEF OnceInv, OnceFits
        <4> HIDE DEF Fit
        <4> QED  BY <2>2, <2>3, <2>5, <4>1
      <3> QED  BY <1>1, <1>11, <2>8, <3>1, <3>2 DEF OnceFits
    <2> QED  BY <1>3, <2>6, <2>7, <2>9 DEF OnceInv
  <1> QED  BY <1>1, <1>7, <1>8, <1>10, <1>11 DEF ReadsRows

\* Nothing is read.
LEMMA OnceQuiet ==
    ASSUME TypeOK, OnceStarts, OnceInv, [Next]_vars, pc # "aborted",
           UNCHANGED <<sock, announced, fromKernel, nest>>,
           \A r \in Ref : \/ descriptors'[r] = descriptors[r]
                          \/ descriptors'[r] = NULL /\ want.mode # "once"
    PROVE  OnceInv'
  <1>1. want'.mode = want.mode
    BY WantKept
  <1>2. DescOrder' /\ Reannounced' /\ NestStands'
    BY DEF OnceInv, DescOrder, Reannounced, NestStands, AnewBehind, AnnouncedBehind,
           IsKnown, RemovalBehind, Announcement, Removal
  <1>3. RowsRight'
    <2>1. NULL.kind = "NULL"
      BY DEF NULL
    <2> QED  BY <2>1 DEF OnceInv, RowsRight, SourcesRight, RowRight
  <1>4. \A r : InNest(r)' <=> InNest(r)
    BY DEF InNest
  <1>5. OnceFits'
    <2> SUFFICES ASSUME want.mode = "once" PROVE OnceFits'
      BY <1>1 DEF OnceFits
    <2>1. /\ \A r \in Ref : InNest(r) \/ RowFits(descriptors[r], r, announced, fromKernel, sock)
          /\ \A i \in DOMAIN nest : RowFits(nest[i].row, nest[i].ref, announced, fromKernel, sock)
      BY DEF OnceInv, OnceFits
    <2> QED  BY <1>4, <2>1 DEF OnceFits
  <1> QED  BY <1>2, <1>3, <1>5 DEF OnceInv

LEMMA OnceQuietCalls ==
    ASSUME TypeOK, OnceStarts, OnceInv, [Next]_vars,
           AddAll \/ RefreshNext \/ RefreshDone \/ GotAll \/ Timeout \/ MainTail
    PROVE  OnceInv'
  <1>1. /\ pc # "aborted" /\ UNCHANGED <<sock, announced, fromKernel, nest>>
        /\ \A r \in Ref : \/ descriptors'[r] = descriptors[r]
                          \/ descriptors'[r] = NULL /\ want.mode # "once"
    <2>1. CASE AddAll
      BY <2>1 DEF AddAll, tableVars
    <2>2. CASE RefreshNext
      BY <2>2 DEF RefreshNext, tableVars
    <2>3. CASE RefreshDone
      BY <2>3 DEF RefreshDone, kernelVars, tableVars
    <2>4. CASE GotAll
      BY <2>4 DEF GotAll, tableVars
    <2>5. CASE Timeout
      BY <2>5 DEF Timeout, tableVars
    <2>6. CASE MainTail
      <3>1. /\ pc # "aborted" /\ UNCHANGED <<sock, announced, fromKernel, nest>>
            /\ \/ descriptors' = descriptors
               \/ want.mode # "once" /\ descriptors' = [r \in Ref |-> NULL]
        BY <2>6 DEF MainTail, kernelVars
      <3> QED  BY <3>1
    <2> QED  BY <2>1, <2>2, <2>3, <2>4, <2>5, <2>6
  <1> QED  BY <1>1, OnceQuiet

\* The kernel or a socket takes a step.
LEMMA KernelKeepsRight ==
    ASSUME KernelTypeOK, SourcesRight, Environment \/ Kernel
    PROVE  SourcesRight'
  <1>0. /\ sock \in [Ref -> [live : BOOLEAN, inc : Nat, state : SockState]]
        /\ fromKernel \in Seq(Message) /\ KernelTypeOK'
    BY EnvironmentType, KernelType DEF KernelTypeOK
  <1>1. ASSUME NEW m \in Message, fromKernel' = Append(fromKernel, m),
               m.type = "SRC_DESC" => m.state \in SocketState(ProviderOf[m.srcref])
        PROVE  \A i \in DOMAIN fromKernel' :
                 fromKernel'[i].type = "SRC_DESC" =>
                     fromKernel'[i].state \in SocketState(ProviderOf[fromKernel'[i].srcref])
    <2>1. \A i \in DOMAIN fromKernel' : (\E j \in DOMAIN fromKernel : fromKernel'[i] = fromKernel[j])
                                          \/ fromKernel'[i] = m
      BY <1>0, <1>1, AppendElements
    <2> QED  BY <1>1, <2>1 DEF SourcesRight
  <1>2. CASE Environment
    <2>1. PICK r \in Ref : Open(r) \/ Close(r) \/ Change(r)
      BY <1>2 DEF Environment
    <2>2. \A q \in Ref : sock'[q].state \in SocketState(ProviderOf[q])
      <3>1. CASE Open(r)
        BY <1>0, <3>1 DEF Open, SourcesRight
      <3>2. CASE Close(r)
        BY <1>0, <3>2 DEF Close, SourcesRight
      <3>3. CASE Change(r)
        BY <1>0, <3>3 DEF Change, SourcesRight
      <3> QED  BY <2>1, <3>1, <3>2, <3>3
    <2>3. \/ fromKernel' = fromKernel
          \/ \E m \in Message : fromKernel' = Append(fromKernel, m) /\ m.type # "SRC_DESC"
      BY <2>1, Messages DEF Open, Close, Change
    <2> QED  BY <1>1, <2>2, <2>3 DEF SourcesRight
  <1>3. CASE Kernel
    <2>1. sock' = sock
      BY <1>3 DEF Kernel, AnnounceSource, CountSource, AnswerAddAll, RefuseAddAll, AnswerGetDesc,
                  AnswerQuery, AnswerNone
    <2>2. CASE AnswerGetDesc
      <3> DEFINE r == Head(toKernel).srcref
                 d == [type |-> "SRC_DESC", srcref |-> r,
                       inc |-> sock[r].inc, state |-> sock[r].state]
      <3>1. r \in Ref
        <4>1. Head(toKernel) \in Request
          BY <2>2, HeadTailProperties DEF AnswerGetDesc, Handling, KernelTypeOK
        <4> QED  BY <2>2, <4>1, RequestFields DEF AnswerGetDesc, Handling
      <3>2. fromKernel' = Append(fromKernel, IF r \in announced THEN d ELSE [type |-> "ERROR"])
        BY <2>2 DEF AnswerGetDesc, Reply
      <3>3. /\ d \in Message /\ d.srcref = r /\ d.state = sock[r].state
            /\ [type |-> "ERROR"] \in Message
        BY <1>0, <3>1, Messages
      <3>4. d.state \in SocketState(ProviderOf[d.srcref])
        BY <3>1, <3>3 DEF SourcesRight
      <3> HIDE DEF d, r
      <3> QED  BY <1>1, <2>1, <3>2, <3>3, <3>4 DEF SourcesRight
    <2>3. CASE ~AnswerGetDesc
      <3>1. PICK m : fromKernel' = Append(fromKernel, m) /\ m.type # "SRC_DESC"
        <4>1. ASSUME NEW r \in Ref, AnnounceSource(r) \/ CountSource(r)
              PROVE  \E m : fromKernel' = Append(fromKernel, m) /\ m.type # "SRC_DESC"
          <5>1. CASE AnnounceSource(r)
            BY <5>1 DEF AnnounceSource
          <5>2. CASE CountSource(r)
            <6>1. PICK n \in 1 .. MaxRx : fromKernel' =
                    Append(fromKernel, [type |-> "SRC_COUNTS", srcref |-> r, rx |-> n])
              BY <5>2 DEF CountSource
            <6> QED  BY <6>1
          <5> QED  BY <4>1, <5>1, <5>2
        <4>2. CASE AnswerAddAll \/ RefuseAddAll \/ AnswerQuery \/ AnswerNone
          <5>1. PICK t \in {"SUCCESS", "ERROR"} : fromKernel' = Append(fromKernel, [type |-> t])
            BY <4>2, NstatAssumption
               DEF NstatAssumption, AnswerAddAll, RefuseAddAll, AnswerQuery, AnswerNone, Reply
          <5> QED  BY <5>1
        <4> QED  BY <1>3, <2>3, <4>1, <4>2 DEF Kernel
      <3>2. m \in Message
        <4>1. /\ fromKernel' \in Seq(Message) /\ Len(fromKernel) \in Nat
              /\ DOMAIN fromKernel' = 1 .. Len(fromKernel')
          BY <1>0, LenProperties DEF KernelTypeOK
        <4>2. Len(fromKernel') = Len(fromKernel) + 1 /\ fromKernel'[Len(fromKernel) + 1] = m
          BY <1>0, <3>1
        <4>3. Len(fromKernel) + 1 \in 1 .. Len(fromKernel')
          BY <4>1, <4>2
        <4> QED  BY <4>1, <4>2, <4>3, ElementOfSeq
      <3> QED  BY <1>1, <2>1, <3>1, <3>2 DEF SourcesRight
    <2> QED  BY <2>2, <2>3
  <1> QED  BY <1>2, <1>3

LEMMA OnceInvKernel ==
    ASSUME TypeOK, KernelOrder, OnceInv, Environment \/ Kernel, UNCHANGED lsockVars
    PROVE  OnceInv'
  <1>0. KernelTypeOK /\ UNCHANGED <<descriptors, want, pc, nest>>
    BY DEF TypeOK, lsockVars
  <1>1. DescOrder' /\ Reannounced'
    BY <1>0, KernelKeepsAnew, KernelReannounces DEF KernelOrder, OnceInv
  <1>2. RowsRight'
    <2>1. SourcesRight'
      BY <1>0, KernelKeepsRight DEF OnceInv, RowsRight
    <2> QED  BY <1>0, <2>1 DEF OnceInv, RowsRight, RowRight
  <1>3. NestStands'
    <2>1. ASSUME NEW i \in DOMAIN nest
          PROVE  \A r : r = nest[i].ref => IsKnown(r)' /\ AnewBehind(r, 0)'
      <3>1. \A r : r = nest[i].ref => IsKnown(r) /\ AnewBehind(r, 0)
        BY DEF OnceInv, NestStands
      <3>2. \A r : IsKnown(r) => IsKnown(r)'
        BY <1>0, KernelKeepsOrder
      <3>3. \A r : IsKnown(r) /\ AnewBehind(r, 0) => AnewBehind(r, 0)'
        BY <1>0, KernelKeepsAnew DEF OnceInv
      <3> QED  BY <3>1, <3>2, <3>3
    <2> QED  BY <1>0, <2>1 DEF NestStands
  \* A source that stays keeps its socket; one that comes is announced.
  <1>4. ASSUME NEW r, NEW row, RowFits(row, r, announced, fromKernel, sock)
        PROVE  RowFits(row, r, announced', fromKernel', sock')
    <2>1. LiveAnnounced' /\ (NothingSent \/ \E m \in Message : Sent(m))
      BY <1>0, EnvironmentSends, KernelSends DEF KernelOrder
    <2>2. \A r1 \in announced' : r1 \in announced \/ Member(Announcement(r1), fromKernel')
      BY <1>0, KernelReannounces DEF KernelOrder, OnceInv
    <2>3. \A m : Member(m, fromKernel) => Member(m, fromKernel')
      BY <1>0, MembersKept DEF KernelOrder
    <2>4. \A r1 \in announced' : r1 \in announced => sock'[r1].inc = sock[r1].inc
      BY <2>1 DEF NothingSent, Sent, Kept
    <2> QED  BY <1>4, <2>2, <2>3, <2>4 DEF RowFits
  <1>5. \A r : InNest(r)' <=> InNest(r)
    BY <1>0 DEF InNest
  <1>6. OnceFits'
    BY <1>0, <1>4, <1>5 DEF OnceInv, OnceFits
  <1> QED  BY <1>1, <1>2, <1>3, <1>6 DEF OnceInv

LEMMA OnceInvHolds == Spec => []OnceInv
  <1>1. Init => OnceInv
    <2> SUFFICES ASSUME Init PROVE OnceInv
      OBVIOUS
    <2>1. announced = {} /\ fromKernel = <<>> /\ nest = <<>>
      BY DEF Init, KernelInit, LsockInit
    <2>2. \A r \in Ref : sock[r].state \in SocketState(ProviderOf[r])
      BY DEF Init, KernelInit
    <2>3. \A r \in Ref : descriptors[r].kind = "NULL"
      BY DEF Init, LsockInit, NULL
    <2>4. RowsRight
      BY <2>1, <2>2, <2>3, EmptySeq DEF RowsRight, SourcesRight, RowRight
    <2>5. DescOrder /\ Reannounced /\ NestStands /\ OnceFits
      BY <2>1, EmptySeq DEF DescOrder, Reannounced, NestStands, OnceFits, RowFits
    <2> QED  BY <2>4, <2>5 DEF OnceInv
  <1>2. TypeOK /\ RowsInv /\ OnceStarts /\ OnceInv /\ [Next]_vars => OnceInv'
    <2> SUFFICES ASSUME TypeOK, RowsInv, OnceStarts, OnceInv, [Next]_vars PROVE OnceInv'
      OBVIOUS
    <2>0. KernelOrder
      BY DEF RowsInv
    <2>1. CASE Client
      BY <2>0, <2>1, OnceReceive, OnceQuietCalls DEF Client
    <2>2. CASE (Environment \/ Kernel) /\ UNCHANGED lsockVars
      BY <2>0, <2>2, OnceInvKernel
    <2>3. CASE UNCHANGED vars
      BY <2>3 DEF vars, kernelVars, lsockVars, OnceInv, DescOrder, Reannounced, NestStands,
                  AnewBehind, AnnouncedBehind, IsKnown, RemovalBehind, Announcement, Removal,
                  RowsRight, SourcesRight, RowRight, OnceFits, RowFits, InNest
    <2> QED  BY <2>1, <2>2, <2>3 DEF Next, Terminated
  <1> QED  BY <1>1, <1>2, TypeCorrect, RowsInvHolds, OnceStartsHolds, PTL DEF Spec

\* If the kernel answers within select's time-out, lsock once prints every source
\* that is announced when it exits, for the socket it has then, however the answers
\* were shared out among addAll, refreshSrc and main.
THEOREM OnceIsComplete == PromptKernel => (Spec => OnceShowsAll)
  <1> SUFFICES ASSUME PromptKernel PROVE Spec => OnceShowsAll
    OBVIOUS
  <1> DEFINE Complete == want.mode = "once" /\ pc # "exit" /\ pc' = "exit" =>
        \A r \in announced : screen'[r].kind = "text" /\ screen'[r].inc = sock[r].inc
  <1>1. TypeOK /\ RowsInv /\ OnceStarts /\ OnceWatches /\ OnceInv /\ [Next]_vars => Complete
    <2> SUFFICES ASSUME TypeOK, RowsInv, OnceStarts, OnceWatches, OnceInv, [Next]_vars,
                        want.mode = "once", pc # "exit", pc' = "exit", NEW r \in announced
                 PROVE  screen'[r].kind = "text" /\ screen'[r].inc = sock[r].inc
      OBVIOUS
    <2>1. Timeout
      <3>1. ~(AddAll \/ RefreshNext \/ RefreshDone \/ GotAll)
        BY DEF AddAll, RefreshNext, RefreshDone, GotAll
      <3>2. ~Receive
        <4>1. Receive => pc = "main" /\ Head(fromKernel).type = "SUCCESS" /\ fromKernel # <<>>
          BY ReadDoesSo DEF ReadDoes
        <4>2. pc = "main" /\ fromKernel # <<>> => Head(fromKernel).type # "SUCCESS"
          BY TailTypes DEF OnceStarts, TypeOK, KernelTypeOK
        <4> QED  BY <4>1, <4>2
      <3>3. ~MainTail
        BY DEF MainTail
      <3> QED  BY <3>1, <3>2, <3>3 DEF Next, Client, Terminated, vars, lsockVars
    <2>2. /\ pc = "main" /\ nest = <<>> /\ fromKernel = <<>> /\ toKernel = <<>>
          /\ screen' = Printed(descriptors, want)
      BY <2>1 DEF Timeout
    <2>3. r \in Ref /\ descriptors \in Rows
      BY DEF TypeOK, KernelTypeOK, TableTypeOK, Rows
    <2>4. ~InNest(r) /\ ~Asked(r) /\ ~Member(Announcement(r), fromKernel)
      BY <2>2, EmptySeq DEF InNest, Asked, Requested, PendingDesc, Pending, Member
    <2>5. descriptors[r] # NULL /\ (descriptors[r].kind = "text" => descriptors[r].inc = sock[r].inc)
      BY <2>2, <2>3, <2>4 DEF OnceInv, OnceFits, RowFits
    <2>6. descriptors[r] # Reading
      BY <2>2, <2>3, <2>4 DEF RowsInv, RowAsked
    <2>7. descriptors[r] \in Text /\ descriptors[r].kind = "text"
      BY <2>3, <2>5, <2>6 DEF Rows, Text
    <2>8. descriptors[r].state \in SocketState(ProviderOf[r])
      BY <2>3, <2>7 DEF OnceInv, RowsRight, RowRight
    <2>9. Wanted(ProviderOf[r]) /\ want.listen
      BY DEF OnceWatches, OnceStarts
    <2>10. Shown(descriptors[r], want)
      BY <2>7, <2>8, <2>9 DEF Shown, SocketState, Wanted
    <2> QED  BY <2>2, <2>3, <2>5, <2>7, <2>10 DEF Printed
  <1> QED  BY <1>1, TypeCorrect, RowsInvHolds, OnceStartsHolds, OnceWatchesHolds, OnceInvHolds, PTL
           DEF Spec, OnceShowsAll
=============================================================================
