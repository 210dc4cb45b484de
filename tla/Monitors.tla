------------------------------- MODULE Monitors -------------------------------
(***************************************************************************)
(* The tools that watch something outside: filemon watches files, netbottom*)
(* and the first lsock network sources, jurple_console the log of a        *)
(* device, bpf packets.                                                    *)
(***************************************************************************)
EXTENDS Filemon, Netbottom, Jurple, OldLsock, Bpf

\* Each of them is well typed: what is queued, buffered and remembered is of its
\* kind and within its bounds.
MonitorsTypeOK == FilemonTypeOK /\ NetTypeOK /\ JurpleTypeOK /\ OldLsockTypeOK /\ BpfTypeOK
=============================================================================
