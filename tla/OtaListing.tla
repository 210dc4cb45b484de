------------------------------ MODULE OtaListing ------------------------------
(***************************************************************************)
(* What "ota -l" promises of a command line of archives: their intact      *)
(* entries are printed, in order, each once; a damaged entry costs no      *)
(* other.  Excepted are the last three headers of a legacy archive, where  *)
(* the walk stops, and archives some of whose contents look like headers,  *)
(* which promise only that offsets increase.                               *)
(***************************************************************************)
EXTENDS Integers, Sequences

CONSTANTS Header, Archives

VARIABLES
    files,     \* archives to list, the current one first
    open,      \* it is being listed
    printed,   \* the entries printed of it
    gone       \* the program has died in the middle

vars == <<files, open, printed, gone>>

\* The entries a reader may count on.
Intact(a) ==
    {e \in a.entries :
        IF a.kind = "yaa" THEN ~a.at[e + 1].exits /\ a.at[e + 1].rc > 0
        ELSE /\ a.at[e + 1].magic = "known" /\ a.at[e + 1].zero /\ a.at[e + 1].nameLen > 0
             /\ e + 3 * Header < Len(a.at)}

\* No bytes but those of an entry look like a header.
Plain(a) ==
    a.kind = "legacy" =>
        \A p \in 0 .. Len(a.at) - 1 : p \notin a.entries => a.at[p + 1].magic = "other"

Promised(a) == IF Plain(a) THEN Intact(a) ELSE {}
Printable(a) == IF Plain(a) THEN a.entries ELSE 0 .. Len(a.at) - 1

Printed == {printed[i] : i \in DOMAIN printed}

Init ==
    /\ files \in Seq(Archives)
    /\ open = FALSE
    /\ printed = <<>>
    /\ gone = FALSE

OpenFile ==
    /\ files # <<>> /\ Head(files).kind # "ecc"
    /\ ~open /\ ~gone
    /\ open' = TRUE
    /\ printed' = <<>>
    /\ UNCHANGED <<files, gone>>

SkipFile ==
    /\ files # <<>> /\ Head(files).kind = "ecc"
    /\ ~open /\ ~gone
    /\ files' = Tail(files)
    /\ UNCHANGED <<open, printed, gone>>

\* The next entry is printed; no intact one is passed over.
PrintEntry ==
    /\ open
    /\ \E e \in Printable(Head(files)) :
         /\ \A i \in DOMAIN printed : printed[i] < e
         /\ \A i \in Promised(Head(files)) \ Printed : e <= i
         /\ printed' = Append(printed, e)
    /\ UNCHANGED <<files, open, gone>>

\* An archive is done when all its intact entries have been printed.
CloseFile ==
    /\ open
    /\ Promised(Head(files)) \subseteq Printed
    /\ files' = Tail(files)
    /\ open' = FALSE
    /\ UNCHANGED <<printed, gone>>

Die ==
    /\ open
    /\ open' = FALSE /\ gone' = TRUE
    /\ UNCHANGED <<files, printed>>

Next == OpenFile \/ SkipFile \/ PrintEntry \/ CloseFile \/ Die

Spec == Init /\ [][Next]_vars
=============================================================================
