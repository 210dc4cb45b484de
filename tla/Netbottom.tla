------------------------------ MODULE Netbottom ------------------------------
(***************************************************************************)
(* netbottom (src/src/netbottom.c): prints a line for each network source. *)
(* The NetworkStatistics framework (external) reports sources and calls    *)
(* blocks on the main queue, one at a time.  Each process has one slot of  *)
(* pidNetworkInfos, which the description of any of its sources overwrites *)
(* and which the line is printed from.                                     *)
(***************************************************************************)
EXTENDS Naturals, Sequences

CONSTANTS
    Sources,     \* network sources
    Socket,      \* the process, provider and address family of each
    TcpStates,   \* the states of a TCP source
    MaxMoves     \* bound: changes of state

ASSUME NetbottomAssumption ==
    /\ Socket \in [Sources -> [pid : Nat, provider : {"TCP", "UDP"}, family : {4, 6}]]
    /\ MaxMoves \in Nat

VARIABLES
    state,       \* of each source, "gone" when it is not there
    moves,       \* changes of state so far
    reported,    \* the sources the framework has reported
    mainQueue,   \* blocks to be called, with their source and its state
    pidNetworkInfos,   \* the slots in use, maxProcNum of them
    lines        \* the lines printed, with the source and state they are for

netVars == <<state, moves, reported, mainQueue, pidNetworkInfos, lines>>

NetInit ==
    /\ state \in [Sources -> TcpStates \cup {"gone"}]
    /\ moves = 0 /\ reported = {} /\ mainQueue = <<>>
    /\ pidNetworkInfos = <<>> /\ lines = <<>>

-----------------------------------------------------------------------------
(* The framework                                                           *)

\* A source that is there is reported, once.
Report(s) ==
    /\ state[s] # "gone" /\ s \notin reported
    /\ reported' = reported \cup {s}
    /\ mainQueue' = Append(mainQueue, [block |-> "callback", source |-> s])
    /\ UNCHANGED <<state, moves, pidNetworkInfos, lines>>

\* A source comes, changes state or goes.  Nothing is called, as netbottom sets
\* no block for it; one that has gone after its report does not come back.
Move(s) ==
    /\ moves < MaxMoves /\ moves' = moves + 1
    /\ s \in reported => state[s] # "gone"
    /\ \E st \in TcpStates \cup {"gone"} : state' = [state EXCEPT ![s] = st]
    /\ UNCHANGED <<reported, mainQueue, pidNetworkInfos, lines>>

-----------------------------------------------------------------------------
(* The blocks                                                              *)

Called(block) == mainQueue # <<>> /\ Head(mainQueue).block = block

\* Mutant: the call back is answered before what is already waiting.
callback_block_first ==
    /\ Called("callback")
    /\ LET s == Head(mainQueue).source IN
         mainQueue' = IF state[s] = "gone" THEN Tail(mainQueue)
                      ELSE <<[block |-> "description", source |-> s, state |-> state[s]]>>
    /\ UNCHANGED <<state, moves, reported, pidNetworkInfos, lines>>

\* Each new source is asked for its description, which a source that has gone
\* by now does not give.
callback_block ==
    /\ Called("callback")
    /\ LET s == Head(mainQueue).source IN
         mainQueue' = Tail(mainQueue) \o
             (IF state[s] = "gone" THEN <<>>
              ELSE <<[block |-> "description", source |-> s, state |-> state[s]]>>)
    /\ UNCHANGED <<state, moves, reported, pidNetworkInfos, lines>>

SlotsOf(pid) == {k \in DOMAIN pidNetworkInfos : pidNetworkInfos[k].pid = pid}

\* The first slot of that process, or the next that is free.
findSlotForPid(pid) ==
    IF SlotsOf(pid) = {} THEN Len(pidNetworkInfos) + 1
    ELSE CHOOSE k \in SlotsOf(pid) : \A j \in SlotsOf(pid) : k <= j

\* Mutant: the state is printed whatever the provider.
StateColumnAny(slot) == slot.tcpState

StateColumn(slot) == IF slot.provider = "TCP" THEN slot.tcpState ELSE ""

Line(slot) ==
    [pid |-> slot.pid, provider |-> slot.provider, family |-> slot.family,
     state |-> StateColumn(slot), color |-> slot.tcpState]

\* What a description leaves in a slot: only TCP ones have a state.
Filled(old, sock, st) ==
    [pid |-> sock.pid, provider |-> sock.provider, family |-> sock.family,
     tcpState |-> IF sock.provider = "TCP" THEN st ELSE old.tcpState]

\* calloc
Blank == [tcpState |-> ""]

description_callback_block ==
    /\ Called("description")
    /\ LET d == Head(mainQueue)
           sock == Socket[d.source]
           k == findSlotForPid(sock.pid)
           slot == Filled(IF k \in DOMAIN pidNetworkInfos THEN pidNetworkInfos[k] ELSE Blank,
                          sock, d.state)
       IN  /\ pidNetworkInfos' = [j \in DOMAIN pidNetworkInfos \cup {k} |->
                                    IF j = k THEN slot ELSE pidNetworkInfos[j]]
           /\ lines' = Append(lines, [source |-> d.source, was |-> d.state, line |-> Line(slot)])
    /\ mainQueue' = Tail(mainQueue)
    /\ UNCHANGED <<state, moves, reported>>

NetStep == callback_block \/ description_callback_block
Framework == \E s \in Sources : Report(s)

NetNext == NetStep \/ Framework \/ \E s \in Sources : Move(s)

-----------------------------------------------------------------------------
(* Properties                                                              *)

NetTypeOK ==
    /\ state \in [Sources -> TcpStates \cup {"gone"}]
    /\ moves \in 0 .. MaxMoves /\ reported \subseteq Sources
    /\ \A i \in DOMAIN mainQueue :
         \/ mainQueue[i] \in [block : {"callback"}, source : reported]
         \/ mainQueue[i] \in [block : {"description"}, source : reported, state : TcpStates]
    /\ DOMAIN pidNetworkInfos = 1 .. Len(pidNetworkInfos)
    /\ \A k \in DOMAIN pidNetworkInfos :
         pidNetworkInfos[k] \in [pid : Nat, provider : {"TCP", "UDP"}, family : {4, 6},
                                 tcpState : TcpStates \cup {""}]

\* Every line is that of its source in the state it was described in, although
\* it is printed from a slot that holds what other sources of the process left.
\* (Its color is not: a UDP line has that of the last TCP source of the process.)
LinesAreExact ==
    \A i \in DOMAIN lines :
        LET l == lines[i].line
            sock == Socket[lines[i].source]
        IN  /\ <<l.pid, l.provider, l.family>> = <<sock.pid, sock.provider, sock.family>>
            /\ l.state = IF sock.provider = "TCP" THEN lines[i].was ELSE ""

\* A source that stays is printed in the end, and none is printed twice.
SourcesArePrinted ==
    /\ [](\A i, j \in DOMAIN lines : lines[i].source = lines[j].source => i = j)
    /\ \A s \in Sources :
         (s \in reported) ~> (state[s] = "gone" \/ \E i \in DOMAIN lines : lines[i].source = s)
=============================================================================
