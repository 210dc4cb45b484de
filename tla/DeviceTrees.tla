------------------------------ MODULE DeviceTrees ------------------------------
(***************************************************************************)
(* The two programs that print device trees: dtize, which reads a file as  *)
(* it goes, and imagine (6-bonus), which walks through an image in memory. *)
(***************************************************************************)
EXTENDS Dtize, Imagine

\* Both programs are in step with the trees they print.
DeviceTreesAreTold == TreeIsTold /\ ImageTreeIsTold
=============================================================================
