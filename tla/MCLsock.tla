------------------------------- MODULE MCLsock -------------------------------
(***************************************************************************)
(* Instances of Lsock for TLC: which provider owns each source reference,  *)
(* and which command lines are tried.                                      *)
(***************************************************************************)
EXTENDS Lsock, TLC

\* One TCP and one UDP source.
MCTcpUdp == (0 :> "TCP_KERNEL") @@ (1 :> "UDP_USERLAND")
\* Two UDP sources: no row is ever CLOSED.
MCUdp == (0 :> "UDP_KERNEL") @@ (1 :> "UDP_USERLAND")
\* How often each reference is used.
EachOnce == [r \in Ref |-> 1]
FirstTwice == [r \in Ref |-> IF r = 0 THEN 2 ELSE 1]

Arg(t, u, m) == [udp |-> u, tcp |-> t, listen |-> TRUE, mode |-> m]
UdpModes == {Arg(FALSE, TRUE, "once"), Arg(FALSE, TRUE, "curses")}
Udp == {Arg(FALSE, TRUE, "once")}
TcpOnce == {Arg(TRUE, FALSE, "once")}
Full == {Arg(TRUE, TRUE, "curses")}
Nc == {Arg(FALSE, TRUE, "nc")}
=============================================================================
