------------------------------- MODULE OtaFiles -------------------------------
(***************************************************************************)
(* What ota does around the walk over an archive (src/src/ota.c): it       *)
(* decodes pbzx, compares two archives and extracts files.                 *)
(***************************************************************************)
EXTENDS OtaPbzx, OtaDiff, OtaExtract

\* Each of the three is well typed: the room left in doPBZX's buffer lies in it,
\* doDiff compares entries that both archives have (but for an empty name), and
\* extractFile leaves files, directories and links.
FilesTypeOK == PbzxTypeOK /\ DiffTypeOK /\ ExtractTypeOK
=============================================================================
