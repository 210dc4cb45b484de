------------------------------- MODULE OldLsock -------------------------------
(***************************************************************************)
(* The first lsock (src/src/17-1-lsock.c): the same list of sockets, by a  *)
(* single loop that takes one message at a time and never waits for an     *)
(* answer.  A new source is described later, a CLOSED row asks for itself  *)
(* again, and whatever has changed is printed after each message.          *)
(*                                                                         *)
(* In the scrolling mode ("nc", or output that is no terminal) a row is    *)
(* printed once, which descriptorsModded is for; in curses mode all rows   *)
(* are written again each time, over what is there: only what follows the  *)
(* last is cleared, and the whole screen after a key.                      *)
(*                                                                         *)
(* Not every message arrives, and no write is checked: "sometimes not all  *)
(* sockets show ... some notifications don't make it" (lines 52-53).       *)
(***************************************************************************)
EXTENDS NstatKernel, FiniteSets

CONSTANTS
    Provider2, Provider3,   \* the kernel's names for providers 2 and 3
    Commands17,             \* what the arguments and the terminal may leave, see below
    Keys17,                 \* the keys that may be pressed
    Widths17,               \* how long the text of a source's row may be
    Height,                 \* lines of the terminal below the headings
    Lossy                   \* bound: references of which something may get lost

\* wantCurses, wantUDP, wantTCP and wantListen.
Wants == [curses : BOOLEAN, udp : BOOLEAN, tcp : BOOLEAN, listen : BOOLEAN]

ASSUME OldLsockAssumption ==
    /\ Provider2 \in TcpProvider /\ Provider3 \in UdpProvider
    /\ Commands17 \subseteq {w \in Wants : (w.udp \/ w.tcp) /\ w.listen}
    /\ Keys17 \subseteq {"U", "T", "L", "other"}
    /\ Widths17 \in [Ref -> SUBSET (Nat \ {0})] /\ Height \in Nat /\ Lossy \subseteq Ref

VARIABLES
    rows17,     \* descriptors
    modded,     \* descriptorsModded: the rows that have not been printed
    screen17,   \* in the scrolling mode, the row last printed of each reference
    lines17,    \* in curses mode, the lines of the screen
    missed,     \* references of which a message, or the request for it, was lost
    wants,
    lsock17     \* "setup", "loop", "tail", "failed", or "crashed"

oldVars == <<rows17, modded, screen17, lines17, missed, wants, lsock17>>

NoRow == [inc |-> 0, state |-> "N/A", width |-> 0]
Row17 == [inc : Nat, state : SockState, width : Nat]

\* A line begins with a row, of which source it does not say, and has text up to extent.
Line17 == [ref : Ref, row : Row17, extent : Nat]
EmptyLine == [ref |-> 0, row |-> NoRow, extent |-> 0]
Longer(a, b) == IF a >= b THEN a ELSE b

OldLsockInit ==
    /\ rows17 = [r \in Ref |-> NoRow]
    /\ modded = {}
    /\ screen17 = [r \in Ref |-> NoRow] /\ lines17 = [k \in 1 .. Height |-> EmptyLine]
    /\ missed = {}
    /\ wants \in Commands17
    /\ lsock17 = "setup"

-----------------------------------------------------------------------------
(* Before the loop                                                         *)

\* setupSocket: another client of the control socket makes connect fail.
SetupSocketFails ==
    /\ lsock17 = "setup"
    /\ lsock17' = "failed"
    /\ UNCHANGED <<kernelVars, rows17, modded, screen17, lines17, missed, wants>>

AddAll17(sent, provider) == IF sent THEN <<[type |-> "ADD_ALL_SRCS", provider |-> provider]>> ELSE <<>>

\* Both providers are added before anything is read, if they can be.
SetupSocket ==
    /\ lsock17 = "setup"
    /\ \E udp, tcp \in BOOLEAN :
         /\ (udp => wants.udp) /\ (tcp => wants.tcp)
         /\ toKernel' = AddAll17(udp, Provider3) \o AddAll17(tcp, Provider2)
    /\ lsock17' = "loop"
    /\ UNCHANGED <<sock, announced, watched, changes, fromKernel>>
    /\ UNCHANGED <<rows17, modded, screen17, lines17, missed, wants>>

-----------------------------------------------------------------------------
(* One message                                                             *)

ReadOld(types) ==
    /\ lsock17 = "loop"
    /\ fromKernel # <<>> /\ Head(fromKernel).type \in types
    /\ fromKernel' = Tail(fromKernel)

\* A message that does not make it.
MessageLost ==
    /\ ReadOld({"SRC_ADDED", "SRC_REMOVED", "SRC_DESC"})
    /\ Head(fromKernel).srcref \in Lossy
    /\ missed' = missed \cup {Head(fromKernel).srcref}
    /\ UNCHANGED <<sock, announced, watched, changes, toKernel>>
    /\ UNCHANGED <<rows17, modded, screen17, lines17, wants, lsock17>>

\* GET_SRC_DESC, if the write does not fail.
refreshSrc(r) ==
    \/ /\ toKernel' = Append(toKernel, [type |-> "GET_SRC_DESC", srcref |-> r])
       /\ UNCHANGED missed
    \/ r \in Lossy /\ missed' = missed \cup {r} /\ UNCHANGED toKernel

SourceAdded ==
    /\ ReadOld({"SRC_ADDED"})
    /\ LET r == Head(fromKernel).srcref IN
         /\ refreshSrc(r)
         /\ modded' = modded \cup {r}
    /\ lsock17' = "tail"
    /\ UNCHANGED <<sock, announced, watched, changes, rows17, screen17, lines17, wants>>

\* Mutant: the row of a source that has gone stays.
SourceRemovedKept ==
    /\ ReadOld({"SRC_REMOVED"})
    /\ LET r == Head(fromKernel).srcref IN
         IF wants.curses /\ rows17[r] = NoRow
         THEN lsock17' = "crashed" /\ UNCHANGED modded
         ELSE lsock17' = "tail" /\ modded' = modded \cup {r}
    /\ UNCHANGED <<sock, announced, watched, changes, toKernel>>
    /\ UNCHANGED <<rows17, screen17, lines17, missed, wants>>

\* Dashes as long as the row, from the second column of the line that the reference
\* says, whatever is there; 0 says the message above the lines.
Dashed(r) ==
    IF wants.curses /\ r \in DOMAIN lines17
    THEN [lines17 EXCEPT ![r] = [EmptyLine EXCEPT !.extent = Longer(lines17[r].extent, 1 + rows17[r].width)]]
    ELSE lines17

\* Of a source that has not been described there is no row: strlen is given NULL.
SourceRemoved ==
    /\ ReadOld({"SRC_REMOVED"})
    /\ LET r == Head(fromKernel).srcref IN
         IF wants.curses /\ rows17[r] = NoRow
         THEN lsock17' = "crashed" /\ UNCHANGED <<rows17, modded, lines17>>
         ELSE /\ lsock17' = "tail"
              /\ rows17' = [rows17 EXCEPT ![r] = NoRow]
              /\ modded' = modded \cup {r}
              /\ lines17' = Dashed(r)
    /\ UNCHANGED <<sock, announced, watched, changes, toKernel, screen17, missed, wants>>

RowOf(m, width) == [inc |-> m.inc, state |-> m.state, width |-> width]

\* Mutant: a CLOSED row does not ask for itself again.
SourceDescribedOnce ==
    /\ ReadOld({"SRC_DESC"})
    /\ LET m == Head(fromKernel) IN
         /\ \E width \in Widths17[m.srcref] : rows17' = [rows17 EXCEPT ![m.srcref] = RowOf(m, width)]
         /\ modded' = modded \cup {m.srcref}
    /\ lsock17' = "tail"
    /\ UNCHANGED <<sock, announced, watched, changes, toKernel, screen17, lines17, missed, wants>>

\* print_nstat_msg; print_tcp_descriptor asks again for a CLOSED row that also
\* names its process, as all do here, and does not wait.
SourceDescribed ==
    /\ ReadOld({"SRC_DESC"})
    /\ LET m == Head(fromKernel) IN
         /\ \E width \in Widths17[m.srcref] : rows17' = [rows17 EXCEPT ![m.srcref] = RowOf(m, width)]
         /\ modded' = modded \cup {m.srcref}
         /\ IF m.state = "CLOSED" THEN refreshSrc(m.srcref) ELSE UNCHANGED <<toKernel, missed>>
    /\ lsock17' = "tail"
    /\ UNCHANGED <<sock, announced, watched, changes, screen17, lines17, wants>>

\* Successes, errors and counts change nothing.
OtherMessage ==
    /\ ReadOld({"SUCCESS", "ERROR", "SRC_COUNTS"})
    /\ lsock17' = "tail"
    /\ UNCHANGED <<sock, announced, watched, changes, toKernel>>
    /\ UNCHANGED <<rows17, modded, screen17, lines17, missed, wants>>

\* Only curses mode goes on without a message.
NoMessage ==
    /\ lsock17 = "loop" /\ wants.curses /\ fromKernel = <<>>
    /\ lsock17' = "tail"
    /\ UNCHANGED <<kernelVars, rows17, modded, screen17, lines17, missed, wants>>

-----------------------------------------------------------------------------
(* The end of the loop                                                     *)

\* print_descriptors: a row is UDP if it has "N/A" where TCP has a state.
Wanted17(r, w) ==
    /\ rows17[r] # NoRow
    /\ IF rows17[r].state = "N/A" THEN w.udp ELSE w.tcp
    /\ rows17[r].state = "LISTENING" => w.listen

Shown17(w) == {r \in Ref : Wanted17(r, w)}

\* One line for each row that is wanted, in the order of the references.
LineOf(r, w) == Cardinality({q \in Shown17(w) : q <= r})
LastOn(k, w) == k = Height \/ k = Cardinality(Shown17(w))

\* mvwaddstr clears nothing behind the row; clrtobot does behind the last line that
\* is on the terminal, and erase did everywhere if a key was pressed.
Drawn(r, k, w, erased) ==
    [ref |-> r, row |-> rows17[r],
     extent |-> IF erased \/ LastOn(k, w) THEN rows17[r].width
                ELSE Longer(lines17[k].extent, rows17[r].width)]

DrawLines(w, erased) ==
    lines17' = [k \in 1 .. Height |->
                  IF \E r \in Shown17(w) : LineOf(r, w) = k
                  THEN Drawn(CHOOSE r \in Shown17(w) : LineOf(r, w) = k, k, w, erased)
                  ELSE EmptyLine]

print_descriptors(w, wantRefresh) ==
    /\ IF w.curses THEN DrawLines(w, wantRefresh) /\ UNCHANGED screen17
       ELSE /\ screen17' = [r \in Ref |->
                              IF Wanted17(r, w) /\ r \in modded THEN rows17[r] ELSE screen17[r]]
            /\ UNCHANGED lines17
    /\ modded' = {r \in modded : ~Wanted17(r, w)}

Key(key, w) ==
    CASE key = "U" -> [w EXCEPT !.udp = ~@]
      [] key = "T" -> [w EXCEPT !.tcp = ~@]
      [] key = "L" -> [w EXCEPT !.listen = ~@]
      [] OTHER -> w

\* getch in curses mode, then all is printed.
LoopTail ==
    /\ lsock17 = "tail"
    /\ \E key \in {"ERR"} \cup (IF wants.curses THEN Keys17 ELSE {}) :
         /\ wants' = Key(key, wants)
         /\ print_descriptors(wants', key # "ERR")
    /\ lsock17' = "loop"
    /\ UNCHANGED <<kernelVars, rows17, missed>>

OldLsockStep ==
    \/ SetupSocket \/ SetupSocketFails
    \/ SourceAdded \/ SourceRemoved \/ SourceDescribed \/ OtherMessage \/ NoMessage
    \/ LoopTail

OldLsockNext ==
    \/ OldLsockStep
    \/ MessageLost
    \/ (Environment \/ Kernel) /\ UNCHANGED oldVars

-----------------------------------------------------------------------------
(* Properties                                                              *)

OldLsockTypeOK ==
    /\ KernelTypeOK
    /\ rows17 \in [Ref -> Row17] /\ screen17 \in [Ref -> Row17]
    /\ lines17 \in [1 .. Height -> Line17]
    /\ modded \subseteq Ref /\ missed \subseteq Ref
    /\ wants \in Wants
    /\ lsock17 \in {"setup", "loop", "tail", "failed", "crashed"}

Underway(r) ==
    \/ \E i \in DOMAIN toKernel : toKernel[i] = [type |-> "GET_SRC_DESC", srcref |-> r]
    \/ \E i \in DOMAIN fromKernel : fromKernel[i].type \in {"SRC_ADDED", "SRC_DESC"} /\ fromKernel[i].srcref = r
RemovalUnderway(r) ==
    \E i \in DOMAIN fromKernel : fromKernel[i] = [type |-> "SRC_REMOVED", srcref |-> r]

\* A row is that of the socket which has its reference now, or its removal has
\* not been read; nothing is repeated of one that has gone.
RowIsCurrent(r) ==
    rows17[r] # NoRow => (r \in announced /\ rows17[r].inc = sock[r].inc) \/ RemovalUnderway(r)

\* A source without a row, or whose row is CLOSED, will be described again: no
\* answer is lost although nobody waits for it.
RowIsFollowed(r) ==
    r \in announced /\ (rows17[r] = NoRow \/ rows17[r].state = "CLOSED")
        => Underway(r) \/ RemovalUnderway(r)

\* What is wanted has been printed as it is, though in the scrolling mode it is
\* printed only when it was changed.
RowIsPrinted(r) ==
    lsock17 = "loop" /\ Wanted17(r, wants) =>
        IF wants.curses
        THEN LET k == LineOf(r, wants) IN
             k <= Height => /\ lines17[k].ref = r /\ lines17[k].row = rows17[r]
                            /\ lines17[k].extent >= rows17[r].width
        ELSE screen17[r] = rows17[r]

\* No line begins with anything else, and the last has nothing behind its row;
\* others may end in what is left of a longer one.
LinesAreRows ==
    lsock17 = "loop" =>
        \A k \in 1 .. Height : lines17[k] # EmptyLine =>
            LET r == lines17[k].ref IN
            /\ Wanted17(r, wants) /\ LineOf(r, wants) = k
            /\ LastOn(k, wants) => lines17[k].extent = rows17[r].width

\* The rows of sources of which nothing was lost are those of the sockets, and are
\* described again as long as they may change; and all rows that are wanted, and no
\* others, have been printed as they are.
OldRowsAreTrue ==
    lsock17 # "crashed" =>
        /\ \A r \in Ref \ missed : RowIsCurrent(r) /\ RowIsFollowed(r)
        /\ \A r \in Ref : RowIsPrinted(r)
        /\ LinesAreRows
=============================================================================
