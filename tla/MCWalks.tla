-------------------------------- MODULE MCWalks --------------------------------
(***************************************************************************)
(* Tools that walk a structure made elsewhere.  joker walks kernel caches, *)
(* and their compression (lzss, which joker contains); ojtool, smut, vmmap *)
(* stackshot, lsdtrip and dtize walk listings, tables, address spaces,     *)
(* snapshots, dictionaries and trees.  A behaviour exercises one part.     *)
(***************************************************************************)
EXTENDS MCLzss, MCJoker, MCInspect

VARIABLE part    \* what this behaviour exercises

jokerVars == <<vars, kextVars, kextractVars, tablesVars, scanVars>>
inspectVars == <<ojtoolVars, smutVars, vmmapVars, stackshotVars, traceVars, lsdtripVars, dtizeVars, imagineVars>>
allVars == <<part, jokerVars, inspectVars>>

WalksInit ==
    /\ part \in {"lzss", "kexts", "kextract", "tables", "scan", "ojtool", "smut", "vmmap", "stackshot", "trace",
                "lsdtrip", "dtize", "imagine"}
    /\ Init /\ (part # "lzss" => text = <<>> /\ dstlen = CHOOSE room \in Rooms : TRUE)
    /\ IF part = "kexts" THEN KextsInit ELSE KextsIdle
    /\ IF part = "kextract" THEN KextractInit ELSE KextractIdle
    /\ IF part = "tables" THEN TablesInit ELSE TablesIdle
    /\ IF part = "scan" THEN ScanInit ELSE ScanIdle
    /\ IF part = "ojtool" THEN OjtoolInit ELSE OjtoolIdle
    /\ IF part = "smut" THEN SmutInit ELSE SmutIdle
    /\ IF part = "vmmap" THEN VmmapInit ELSE VmmapIdle
    /\ IF part = "stackshot" THEN StackshotInit ELSE StackshotIdle
    /\ IF part = "trace" THEN StackSnapshotInit ELSE StackSnapshotIdle
    /\ IF part = "lsdtrip" THEN LsdtripInit ELSE LsdtripIdle
    /\ IF part = "dtize" THEN DtizeInit ELSE DtizeIdle
    /\ IF part = "imagine" THEN ImagineInit ELSE ImagineIdle

Ended ==
    /\ CASE part = "lzss" -> FALSE
         [] part = "kexts" -> KextsEnded
         [] part = "kextract" -> KextractEnded
         [] part = "tables" -> TablesEnded
         [] part = "scan" -> ScanEnded
         [] part = "ojtool" -> OjtoolEnded
         [] part = "smut" -> SmutEnded
         [] part = "vmmap" -> VmmapEnded
         [] part = "stackshot" -> StackshotEnded
         [] part = "trace" -> StackSnapshotEnded
         [] part = "lsdtrip" -> LsdtripEnded
         [] part = "dtize" -> DtizeEnded
         [] OTHER -> ImagineEnded
    /\ UNCHANGED allVars

JokerNext ==
    /\ \/ part = "lzss" /\ Next /\ UNCHANGED <<kextVars, kextractVars, tablesVars, scanVars>>
       \/ part = "kexts" /\ KextsNext /\ UNCHANGED <<vars, kextractVars, tablesVars, scanVars>>
       \/ part = "kextract" /\ KextractNext /\ UNCHANGED <<vars, kextVars, tablesVars, scanVars>>
       \/ part = "tables" /\ TablesNext /\ UNCHANGED <<vars, kextVars, kextractVars, scanVars>>
       \/ part = "scan" /\ ScanNext /\ UNCHANGED <<vars, kextVars, kextractVars, tablesVars>>
    /\ UNCHANGED <<part, inspectVars>>

InspectNext ==
    /\ \/ part = "ojtool" /\ OjtoolNext /\ UNCHANGED <<smutVars, vmmapVars, stackshotVars, traceVars, lsdtripVars, dtizeVars, imagineVars>>
       \/ part = "smut" /\ SmutNext /\ UNCHANGED <<ojtoolVars, vmmapVars, stackshotVars, traceVars, lsdtripVars, dtizeVars, imagineVars>>
       \/ part = "vmmap" /\ VmmapNext /\ UNCHANGED <<ojtoolVars, smutVars, stackshotVars, traceVars, lsdtripVars, dtizeVars, imagineVars>>
       \/ part = "stackshot" /\ StackshotNext /\ UNCHANGED <<ojtoolVars, smutVars, vmmapVars, traceVars, lsdtripVars, dtizeVars, imagineVars>>
       \/ part = "trace" /\ StackSnapshotNext /\ UNCHANGED <<ojtoolVars, smutVars, vmmapVars, stackshotVars, lsdtripVars, dtizeVars, imagineVars>>
       \/ part = "lsdtrip" /\ LsdtripNext /\ UNCHANGED <<ojtoolVars, smutVars, vmmapVars, stackshotVars, traceVars, dtizeVars, imagineVars>>
       \/ part = "dtize" /\ DtizeNext /\ UNCHANGED <<ojtoolVars, smutVars, vmmapVars, stackshotVars, traceVars, lsdtripVars, imagineVars>>
       \/ part = "imagine" /\ ImagineNext /\ UNCHANGED <<ojtoolVars, smutVars, vmmapVars, stackshotVars, traceVars, lsdtripVars, dtizeVars>>
    /\ UNCHANGED <<part, jokerVars>>

WalksNext == JokerNext \/ InspectNext \/ Ended

WalksSpec == WalksInit /\ [][WalksNext]_allVars

-----------------------------------------------------------------------------

\* The parts are well typed.
WalksTypeOK ==
    /\ TypeOK /\ KextsTypeOK /\ KextractTypeOK /\ TablesTypeOK /\ ScanTypeOK
    /\ OjtoolTypeOK /\ SmutTypeOK /\ VmmapTypeOK /\ StackshotTypeOK /\ StackSnapshotTypeOK
    /\ LsdtripTypeOK /\ DtizeTypeOK /\ ImagineTypeOK
=============================================================================
