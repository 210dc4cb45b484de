------------------------------ MODULE MCMonitors ------------------------------
(***************************************************************************)
(* Tools that watch something outside: files, network sources, sockets,    *)
(* the log of a device, packets.  A behaviour exercises one of them.       *)
(***************************************************************************)
EXTENDS Monitors, TLC

CONSTANT Tools    \* the tools to exercise

lsockVars == <<kernelVars, oldVars>>
vars == <<filemonVars, netVars, jurpleVars, lsockVars, bpfVars>>

MCCommands ==
    {o \in Option : o.link \/ o.stop \/ o.file} \ {[link |-> TRUE, stop |-> TRUE, file |-> FALSE, proc |-> TRUE]}
LinkCommand == {[link |-> TRUE, stop |-> FALSE, file |-> FALSE, proc |-> FALSE]}

\* A process with a TCP source and a UDP one, and another process.
MCSocket ==
    (1 :> [pid |-> 8, provider |-> "TCP", family |-> 4]) @@
    (2 :> [pid |-> 8, provider |-> "UDP", family |-> 6]) @@
    (3 :> [pid |-> 9, provider |-> "TCP", family |-> 4])

\* A TCP source and a UDP one, whose reference is used again.
MCProviderOf == (0 :> "TCP_KERNEL") @@ (1 :> "UDP_USERLAND")
MCMaxInc == [r \in Ref |-> IF r = 0 THEN 2 ELSE 1]
MCWidths == (0 :> {1}) @@ (1 :> {2})
MCWants == {w \in Wants : w.tcp /\ w.listen /\ (w.curses => w.udp)}

\* 6 is TCP, 80 the port.  Options may look like the port, fragments and other
\* protocols have no ports, and a packet may be cut behind the first.
APacket(ethertype, protocol, fragment, hlen, src, dst, option, size) ==
    [ethertype |-> ethertype, protocol |-> protocol, fragment |-> fragment, hlen |-> hlen,
     src |-> src, dst |-> dst, option |-> option, size |-> size]
MCFrames ==
    {APacket(2048, 6, 0, 20, 80, 9, 0, 54), APacket(2048, 6, 0, 24, 9, 80, 5, 61),
     APacket(2048, 6, 0, 24, 9, 9, 80, 61), APacket(2048, 6, 8192 + 185, 20, 80, 80, 0, 60),
     APacket(2048, 6, 8192, 20, 9, 80, 0, 200), APacket(2048, 17, 0, 20, 80, 80, 0, 60),
     APacket(34525, 6, 0, 20, 80, 80, 0, 60),
     APacket(2048, 6, 0, 20, 80, 80, 0, 36), APacket(2048, 6, 0, 20, 9, 80, 0, 36)}

-----------------------------------------------------------------------------

FilemonIdle ==
    /\ procs = [p \in Pids |-> None] /\ fs = {} /\ suspended = {} /\ queue = <<>>
    /\ overflow = FALSE /\ posted = <<>> /\ deeds = 0 /\ runs = 0
    /\ opts = [link |-> FALSE, stop |-> FALSE, file |-> FALSE, proc |-> FALSE]
    /\ doing = "exit" /\ buf = <<>> /\ lastPID = 0 /\ procName = None /\ autolink = 0
    /\ output = <<>>
NetIdle ==
    /\ state = [s \in Sources |-> "gone"] /\ moves = 0 /\ reported = {} /\ mainQueue = <<>>
    /\ pidNetworkInfos = <<>> /\ lines = <<>>

LsockIdle ==
    /\ sock = [r \in Ref |-> [live |-> FALSE, inc |-> 0, state |-> "N/A"]]
    /\ announced = {} /\ watched = {} /\ changes = 0 /\ toKernel = <<>> /\ fromKernel = <<>>
    /\ rows17 = [r \in Ref |-> NoRow] /\ modded = {} /\ screen17 = [r \in Ref |-> NoRow]
    /\ lines17 = [k \in 1 .. Height |-> EmptyLine] /\ missed = {}
    /\ wants = [curses |-> TRUE, udp |-> TRUE, tcp |-> TRUE, listen |-> TRUE]
    /\ lsock17 = "setup"

VARIABLE tool    \* the one this behaviour exercises

Init ==
    /\ tool \in Tools
    /\ IF tool = "filemon" THEN FilemonInit ELSE FilemonIdle
    /\ IF tool = "netbottom" THEN NetInit ELSE NetIdle
    /\ JurpleInit
    /\ IF tool = "lsock-17-1" THEN KernelInit /\ OldLsockInit ELSE LsockIdle
    /\ BpfInit

Next ==
    \/ tool = "filemon" /\ FilemonNext /\ UNCHANGED <<tool, netVars, jurpleVars, lsockVars, bpfVars>>
    \/ tool = "netbottom" /\ NetNext /\ UNCHANGED <<tool, filemonVars, jurpleVars, lsockVars, bpfVars>>
    \/ tool = "jurple" /\ JurpleNext /\ UNCHANGED <<tool, filemonVars, netVars, lsockVars, bpfVars>>
    \/ tool = "lsock-17-1" /\ OldLsockNext /\ UNCHANGED <<tool, filemonVars, netVars, jurpleVars, bpfVars>>
    \/ tool = "bpf" /\ BpfNext /\ UNCHANGED <<tool, filemonVars, netVars, jurpleVars, lsockVars>>

Spec ==
    /\ Init /\ [][Next]_<<tool, vars>>
    /\ WF_vars(tool = "filemon" /\ FilemonStep /\ UNCHANGED <<tool, netVars, jurpleVars, lsockVars, bpfVars>>)
    /\ WF_vars(tool = "netbottom" /\ (NetStep \/ Framework) /\ UNCHANGED <<tool, filemonVars, jurpleVars, lsockVars, bpfVars>>)
=============================================================================
