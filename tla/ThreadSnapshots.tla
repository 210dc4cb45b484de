---------------------------- MODULE ThreadSnapshots ----------------------------
(***************************************************************************)
(* The two programs that print what the kernel knows of all threads:       *)
(* stackshot, and 5-2-stack-snapshot, which asks for the older form.       *)
(***************************************************************************)
EXTENDS Stackshot, StackSnapshot

\* Both programs are in step with the items of what they print.
SnapshotsAreTold == ItemsAreTold /\ TraceIsTold
=============================================================================
