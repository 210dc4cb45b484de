----------------------------- MODULE NstatKernel -----------------------------
(***************************************************************************)
(* The kernel side of the com.apple.network.statistics control socket, as  *)
(* src/src/lsock.c uses it (external: the kernel is not in the tree).      *)
(*                                                                         *)
(* The kernel owns the sockets of the machine.  A client watches providers *)
(* with ADD_ALL_SRCS, is told about each socket of a watched provider by   *)
(* SRC_ADDED and SRC_REMOVED, and asks for descriptions and counts.        *)
(* toKernel carries requests, fromKernel everything the kernel sends; both *)
(* are FIFO, one datagram per element.                                     *)
(***************************************************************************)
EXTENDS Naturals, Sequences

CONSTANTS
    MAX_DESC,      \* number of source references the client has room for
    ProviderOf,    \* the provider of each source reference
    MaxInc,        \* bound: sockets opened under each source reference
    MaxChange,     \* bound: TCP state changes over a run
    MaxRx,         \* bound: byte counts are 0..MaxRx
    AddAllReply,   \* answers the kernel may give to ADD_ALL_SRCS
    NoneReply      \* answers it may give to a request of unknown type 0

Ref == 0 .. MAX_DESC - 1
TcpProvider == {"TCP_KERNEL", "TCP_USERLAND"}
UdpProvider == {"UDP_KERNEL", "UDP_USERLAND"}
Provider == TcpProvider \cup UdpProvider

\* What a description says of a socket, as far as lsock tells rows apart.
\* CLOSED is a TCP socket in state CLOSED whose row holds a "(".
SockState == {"N/A", "LISTENING", "ESTABLISHED", "CLOSED"}

ASSUME NstatAssumption ==
    /\ MAX_DESC \in Nat \ {0}
    /\ ProviderOf \in [Ref -> Provider]
    /\ MaxInc \in [Ref -> Nat] /\ MaxChange \in Nat /\ MaxRx \in Nat \ {0}
    /\ AddAllReply \subseteq {"SUCCESS", "ERROR"}
    /\ NoneReply \subseteq {"SUCCESS", "ERROR"}

VARIABLES
    sock,        \* per reference: is a socket live, its incarnation, its state
    announced,   \* references the client was sent SRC_ADDED for, not yet removed
    watched,     \* providers the client has subscribed to
    changes,     \* TCP state changes so far
    toKernel,    \* requests written by the client and not yet handled
    fromKernel   \* messages the client has not read yet

kernelVars == <<sock, announced, watched, changes, toKernel, fromKernel>>

Request ==
    [type : {"ADD_ALL_SRCS"}, provider : Provider]
        \cup [type : {"GET_SRC_DESC"}, srcref : Ref]
        \cup [type : {"QUERY_SRC"}, done : SUBSET Ref]
        \cup [type : {"NONE"}]

Message ==
    [type : {"SUCCESS", "ERROR"}]
        \cup [type : {"SRC_ADDED", "SRC_REMOVED"}, srcref : Ref]
        \cup [type : {"SRC_COUNTS"}, srcref : Ref, rx : 0 .. MaxRx]
        \cup [type : {"SRC_DESC"}, srcref : Ref, inc : Nat, state : SockState]

SocketState(p) ==
    IF p \in UdpProvider THEN {"N/A"} ELSE SockState \ {"N/A"}

KernelTypeOK ==
    /\ sock \in [Ref -> [live : BOOLEAN, inc : Nat, state : SockState]]
    /\ announced \subseteq Ref
    /\ watched \subseteq Provider
    /\ changes \in Nat
    /\ toKernel \in Seq(Request)
    /\ fromKernel \in Seq(Message)

KernelInit ==
    /\ \E live \in SUBSET Ref :
         \E st \in [Ref -> SockState] :
            /\ \A r \in Ref : st[r] \in SocketState(ProviderOf[r])
            /\ sock = [r \in Ref |->
                        [live |-> r \in live, inc |-> IF r \in live THEN 1 ELSE 0,
                         state |-> st[r]]]
    /\ announced = {}
    /\ watched = {}
    /\ changes = 0
    /\ toKernel = <<>>
    /\ fromKernel = <<>>

-----------------------------------------------------------------------------
(* Sockets come, change state and go at any time.                          *)

\* A socket opens under a free reference; a watching client is told at once.
Open(r) ==
    /\ ~sock[r].live
    /\ sock[r].inc < MaxInc[r]
    /\ \E s \in SocketState(ProviderOf[r]) :
         sock' = [sock EXCEPT ![r] = [live |-> TRUE, inc |-> @.inc + 1, state |-> s]]
    /\ IF ProviderOf[r] \in watched
       THEN /\ announced' = announced \cup {r}
            /\ fromKernel' = Append(fromKernel, [type |-> "SRC_ADDED", srcref |-> r])
       ELSE UNCHANGED <<announced, fromKernel>>
    /\ UNCHANGED <<watched, changes, toKernel>>

\* A socket goes away; a client that knew it is told.
Close(r) ==
    /\ sock[r].live
    /\ sock' = [sock EXCEPT ![r].live = FALSE]
    /\ announced' = announced \ {r}
    /\ fromKernel' = IF r \in announced
                     THEN Append(fromKernel, [type |-> "SRC_REMOVED", srcref |-> r])
                     ELSE fromKernel
    /\ UNCHANGED <<watched, changes, toKernel>>

\* A TCP socket changes state; nobody is told.
Change(r) ==
    /\ sock[r].live
    /\ changes < MaxChange
    /\ changes' = changes + 1
    /\ \E s \in SocketState(ProviderOf[r]) \ {sock[r].state} :
         sock' = [sock EXCEPT ![r].state = s]
    /\ UNCHANGED <<announced, watched, toKernel, fromKernel>>

-----------------------------------------------------------------------------
(* Requests are handled in the order they were written.                    *)

Handling(type) == toKernel # <<>> /\ Head(toKernel).type = type

Reply(m) ==
    /\ toKernel' = Tail(toKernel)
    /\ fromKernel' = Append(fromKernel, m)

Unannounced(p) ==
    {r \in Ref \ announced : sock[r].live /\ ProviderOf[r] = p}

\* ADD_ALL_SRCS announces every live socket of the provider, then answers.
AnnounceSource(r) ==
    /\ Handling("ADD_ALL_SRCS")
    /\ r \in Unannounced(Head(toKernel).provider)
    /\ announced' = announced \cup {r}
    /\ fromKernel' = Append(fromKernel, [type |-> "SRC_ADDED", srcref |-> r])
    /\ UNCHANGED <<sock, watched, changes, toKernel>>

AnswerAddAll ==
    /\ Handling("ADD_ALL_SRCS")
    /\ Unannounced(Head(toKernel).provider) = {}
    /\ "SUCCESS" \in AddAllReply
    /\ watched' = watched \cup {Head(toKernel).provider}
    /\ Reply([type |-> "SUCCESS"])
    /\ UNCHANGED <<sock, announced, changes>>

RefuseAddAll ==
    /\ Handling("ADD_ALL_SRCS")
    /\ "ERROR" \in AddAllReply
    /\ Reply([type |-> "ERROR"])
    /\ UNCHANGED <<sock, announced, watched, changes>>

\* GET_SRC_DESC is answered by a description, or by an error for a dead source.
AnswerGetDesc ==
    /\ Handling("GET_SRC_DESC")
    /\ LET r == Head(toKernel).srcref IN
         Reply(IF r \in announced
               THEN [type |-> "SRC_DESC", srcref |-> r,
                     inc |-> sock[r].inc, state |-> sock[r].state]
               ELSE [type |-> "ERROR"])
    /\ UNCHANGED <<sock, announced, watched, changes>>

\* QUERY_SRC for all references: one SRC_COUNTS per source, then success.
CountSource(r) ==
    /\ Handling("QUERY_SRC")
    /\ r \in announced \ Head(toKernel).done
    /\ toKernel' = <<[Head(toKernel) EXCEPT !.done = @ \cup {r}]>> \o Tail(toKernel)
    /\ \E n \in 1 .. MaxRx :
         fromKernel' = Append(fromKernel, [type |-> "SRC_COUNTS", srcref |-> r, rx |-> n])
    /\ UNCHANGED <<sock, announced, watched, changes>>

AnswerQuery ==
    /\ Handling("QUERY_SRC")
    /\ announced \subseteq Head(toKernel).done
    /\ Reply([type |-> "SUCCESS"])
    /\ UNCHANGED <<sock, announced, watched, changes>>

\* The request querySources writes with hdr.type = 0.
AnswerNone ==
    /\ Handling("NONE")
    /\ \E t \in NoneReply : Reply([type |-> t])
    /\ UNCHANGED <<sock, announced, watched, changes>>

Environment == \E r \in Ref : Open(r) \/ Close(r) \/ Change(r)

Kernel ==
    \/ \E r \in Ref : AnnounceSource(r) \/ CountSource(r)
    \/ AnswerAddAll \/ RefuseAddAll \/ AnswerGetDesc \/ AnswerQuery \/ AnswerNone
=============================================================================
