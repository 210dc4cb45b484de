-------------------------------- MODULE Lsock --------------------------------
(***************************************************************************)
(* lsock (src/src/lsock.c): the list of network sockets kept by a client   *)
(* of the kernel's statistics socket.  The client is one thread; all the   *)
(* nondeterminism comes from the kernel, which sends notifications between *)
(* any two of its steps, and from the keyboard.                            *)
(*                                                                         *)
(* addAll subscribes to a provider and then asks again for the description *)
(* of every row; refreshSrc writes one request and reads ONE message,      *)
(* which need not be its answer; formatting a CLOSED row calls refreshSrc  *)
(* before the row is stored, so message handling nests.                    *)
(***************************************************************************)
EXTENDS NstatKernel

CONSTANTS
    Args,          \* what main's arguments may leave in the want variables
    Keys,          \* keys the user may press in curses mode
    StackLimit,    \* nested refreshSrc calls the stack has room for
    PromptKernel   \* TRUE: the kernel answers within select's 0.1 second

\* wantUDP, wantTCP and the listen filter; mode stands for wantCurses and wantOnce.
Want == [udp : BOOLEAN, tcp : BOOLEAN, listen : BOOLEAN,
         mode : {"curses", "nc", "once"}]

ASSUME LsockAssumption ==
    /\ Args \subseteq {w \in Want : (w.tcp \/ w.udp) /\ w.listen}
    /\ Keys \subseteq {"U", "T", "L", "Q"}
    /\ StackLimit \in Nat
    /\ PromptKernel \in BOOLEAN

VARIABLES
    descriptors,       \* the rows: NULL, the literal "reading", or allocated text
    descriptorCounts,  \* the last byte count of each reference
    screen,            \* the rows print_descriptors last wrote
    want,              \* the mode and the filters, see Want
    flags,             \* main's tcpAdded, udpAdded, gettingCounts, gotCounts
    pc,                \* what the client is doing
    todo,              \* the providers addAll has still to add, head first
    startup,           \* addAll runs before main's loop, not inside it
    src,               \* addAll's loop variable
    nest               \* rows formatted by print_tcp_descriptor, not yet stored

tableVars == <<descriptors, descriptorCounts>>
callVars  == <<todo, startup>>
lsockVars == <<descriptors, descriptorCounts, screen, want, flags, pc, todo,
               startup, src, nest>>
vars == <<kernelVars, lsockVars>>

NULL == [kind |-> "NULL"]
Reading == [kind |-> "reading"]
Text == [kind : {"text"}, inc : Nat, state : SockState, rx : 0 .. MaxRx]

PC == {"addAll", "addWait", "refresh", "refreshWait", "gotAll", "main", "query",
       "tail", "exit", "aborted"}

TableTypeOK ==
    /\ descriptors \in [Ref -> {NULL, Reading} \cup Text]
    /\ descriptorCounts \in [Ref -> 0 .. MaxRx]
    /\ screen \in [Ref -> {NULL} \cup Text]

ControlTypeOK ==
    /\ want \in Want
    /\ flags \in [tcpAdded : BOOLEAN, udpAdded : BOOLEAN,
                  gettingCounts : BOOLEAN, gotCounts : BOOLEAN]
    /\ pc \in PC
    /\ todo \in Seq(Provider)
    /\ startup \in BOOLEAN
    /\ src \in 0 .. MAX_DESC

NestTypeOK == nest \in Seq([ref : Ref, row : Text])

TypeOK == KernelTypeOK /\ TableTypeOK /\ ControlTypeOK /\ NestTypeOK

LsockInit ==
    /\ descriptors = [r \in Ref |-> NULL]
    /\ descriptorCounts = [r \in Ref |-> 0]
    /\ screen = [r \in Ref |-> NULL]
    /\ want \in Args
    /\ flags = [tcpAdded |-> FALSE, udpAdded |-> FALSE,
                gettingCounts |-> FALSE, gotCounts |-> FALSE]
    /\ pc = "addAll"
    /\ todo = (IF want.tcp THEN <<"TCP_KERNEL", "TCP_USERLAND">> ELSE <<>>)
              \o (IF want.udp THEN <<"UDP_KERNEL", "UDP_USERLAND">> ELSE <<>>)
    /\ startup = TRUE
    /\ src = 0
    /\ nest = <<>>

Init == KernelInit /\ LsockInit

-----------------------------------------------------------------------------
(* print_descriptors: rows of a filtered kind, and "reading", are skipped. *)

Shown(row, filter) ==
    /\ row.kind = "text"
    /\ IF row.state = "N/A" THEN filter.udp ELSE filter.tcp
    /\ row.state = "LISTENING" => filter.listen

Printed(rows, filter) ==
    [r \in Ref |-> IF Shown(rows[r], filter) THEN rows[r] ELSE NULL]

write(req) == toKernel' = Append(toKernel, req)

-----------------------------------------------------------------------------
(* addAll                                                                  *)

\* The request, before the loop that reads the answer.
AddAll ==
    /\ pc = "addAll"
    /\ write([type |-> "ADD_ALL_SRCS", provider |-> Head(todo)])
    /\ pc' = "addWait"
    /\ UNCHANGED <<sock, announced, watched, changes, fromKernel, tableVars,
                   screen, want, flags, callVars, src, nest>>

\* Mutant: refreshSrc reads without having written its request.
RefreshUnrequested ==
    /\ pc = "refresh"
    /\ \E s \in Ref :
         /\ s >= src /\ descriptors[s] # NULL
         /\ \A t \in src .. (s - 1) : descriptors[t] = NULL
         /\ src' = s
    /\ pc' = "refreshWait"
    /\ UNCHANGED <<kernelVars, tableVars, screen, want, flags, callVars, nest>>

\* Its second loop: refreshSrc for the next row that is not NULL ...
RefreshNext ==
    /\ pc = "refresh"
    /\ \E s \in Ref :
         /\ s >= src /\ descriptors[s] # NULL
         /\ \A t \in src .. (s - 1) : descriptors[t] = NULL
         /\ src' = s
         /\ write([type |-> "GET_SRC_DESC", srcref |-> s])
    /\ pc' = "refreshWait"
    /\ UNCHANGED <<sock, announced, watched, changes, fromKernel, tableVars,
                   screen, want, flags, callVars, nest>>

\* ... until there is none, when addAll returns to its caller.
RefreshDone ==
    /\ pc = "refresh"
    /\ \A t \in Ref : t >= src => descriptors[t] = NULL
    /\ todo' = Tail(todo)
    /\ pc' = CASE Len(todo) > 1 -> "addAll"
               [] Len(todo) <= 1 /\ startup -> "main"
               [] OTHER -> "gotAll"
    /\ src' = 0
    /\ startup' = (startup /\ Len(todo) > 1)
    /\ UNCHANGED <<kernelVars, tableVars, screen, want, flags, nest>>

-----------------------------------------------------------------------------
(* Reading and handling one message.                                       *)

ReadNext(type) ==
    /\ pc \in {"addWait", "refreshWait", "query", "main"}
    /\ fromKernel # <<>>
    /\ Head(fromKernel).type = type
    /\ fromKernel' = Tail(fromKernel)

\* The pending print_tcp_descriptor calls return, innermost first, and each
\* caller stores its row: the outermost row of a reference stays.
OutermostCall(r) ==
    {i \in DOMAIN nest : /\ nest[i].ref = r
                         /\ \A j \in DOMAIN nest : nest[j].ref = r => i <= j}

Unwind(rows) ==
    [r \in Ref |-> IF OutermostCall(r) = {} THEN rows[r]
                   ELSE nest[CHOOSE i \in OutermostCall(r) : TRUE].row]

\* Mutant: the refresh loop forgets to advance.
ReturnSameSrc(rows) ==
    /\ descriptors' = Unwind(rows)
    /\ nest' = <<>>
    /\ pc' = CASE pc = "addWait" -> "addWait"
               [] pc = "refreshWait" -> "refresh"
               [] OTHER -> "tail"
    /\ src' = src

\* Mutant: the loop variable also advances for messages addAll reads.
ReturnAdvance(rows) ==
    /\ descriptors' = Unwind(rows)
    /\ nest' = <<>>
    /\ pc' = CASE pc = "addWait" -> "addWait"
               [] pc = "refreshWait" -> "refresh"
               [] OTHER -> "tail"
    /\ src' = src + 1

\* process_nstat_msg returns to the reader, with its table rows.
Return(rows) ==
    /\ descriptors' = Unwind(rows)
    /\ nest' = <<>>
    /\ pc' = CASE pc = "addWait" -> "addWait"
               [] pc = "refreshWait" -> "refresh"
               [] OTHER -> "tail"
    /\ src' = IF pc = "refreshWait" THEN src + 1 ELSE src

\* Mutant: a new source is noted, but its description is not asked for.
SrcAddedSilent ==
    /\ ReadNext("SRC_ADDED")
    /\ LET r == Head(fromKernel).srcref IN
         /\ descriptorCounts' = [descriptorCounts EXCEPT ![r] = 0]
         /\ Return([descriptors EXCEPT ![r] = Reading])
    /\ UNCHANGED <<sock, announced, watched, changes, toKernel, screen, want, flags,
                   callVars>>

\* SRC_ADDED: a new row without text, and a request for its description.
SrcAdded ==
    /\ ReadNext("SRC_ADDED")
    /\ LET r == Head(fromKernel).srcref IN
         /\ descriptorCounts' = [descriptorCounts EXCEPT ![r] = 0]
         /\ Return([descriptors EXCEPT ![r] = Reading])
         /\ write([type |-> "GET_SRC_DESC", srcref |-> r])
    /\ UNCHANGED <<sock, announced, watched, changes, screen, want, flags, callVars>>

\* Mutant: the row is freed but stays in the table.
SrcRemovedKept ==
    /\ ReadNext("SRC_REMOVED")
    /\ Return(descriptors)
    /\ UNCHANGED <<sock, announced, watched, changes, toKernel, descriptorCounts,
                   screen, want, flags, callVars>>

\* SRC_REMOVED of a row: its text is freed, and curses mode prints at once.
SrcRemoved ==
    /\ ReadNext("SRC_REMOVED")
    /\ LET r == Head(fromKernel).srcref
           rows == [descriptors EXCEPT ![r] = NULL]
       IN  /\ screen' = IF want.mode = "curses" /\ descriptors[r] # NULL
                        THEN Printed(rows, want) ELSE screen
           /\ Return(rows)
    /\ UNCHANGED <<sock, announced, watched, changes, toKernel, descriptorCounts,
                   want, flags, callVars>>

\* The same when the row is the string literal "reading": the allocator is
\* handed a pointer it never returned, and may abort the process.
FreeLiteral ==
    /\ ReadNext("SRC_REMOVED")
    /\ descriptors[Head(fromKernel).srcref] = Reading
    /\ pc' = "aborted"
    /\ nest' = <<>>
    /\ UNCHANGED <<sock, announced, watched, changes, toKernel, tableVars, screen,
                   want, flags, callVars, src>>

\* Mutant: the counts are kept, but update_provider_statistics is not called.
SrcCountsOnly ==
    /\ ReadNext("SRC_COUNTS")
    /\ LET r == Head(fromKernel).srcref IN
         descriptorCounts' = [descriptorCounts EXCEPT ![r] = Head(fromKernel).rx]
    /\ Return(descriptors)
    /\ UNCHANGED <<sock, announced, watched, changes, toKernel, screen, want,
                   flags, callVars>>

\* SRC_COUNTS: the counts are kept, and rewritten in the row if it has text.
SrcCounts ==
    /\ ReadNext("SRC_COUNTS")
    /\ LET r == Head(fromKernel).srcref
           n == Head(fromKernel).rx
       IN  /\ descriptorCounts' = [descriptorCounts EXCEPT ![r] = n]
           /\ Return(IF descriptors[r].kind = "text"
                     THEN [descriptors EXCEPT ![r] = [@ EXCEPT !.rx = n]]
                     ELSE descriptors)
    /\ UNCHANGED <<sock, announced, watched, changes, toKernel, screen, want,
                   flags, callVars>>

\* The text print_udp_descriptor and print_tcp_descriptor format.
RowText(m) == [kind |-> "text", inc |-> m.inc, state |-> m.state,
               rx |-> descriptorCounts[m.srcref]]

\* SRC_DESC: the row gets its text.
SrcDesc ==
    /\ ReadNext("SRC_DESC")
    /\ LET m == Head(fromKernel) IN
         /\ m.state # "CLOSED"
         /\ Return([descriptors EXCEPT ![m.srcref] = RowText(m)])
    /\ UNCHANGED <<sock, announced, watched, changes, toKernel, descriptorCounts,
                   screen, want, flags, callVars>>

\* SRC_DESC of a CLOSED socket: print_tcp_descriptor calls refreshSrc, which
\* reads another message, before its own row is stored.
SrcDescClosed ==
    /\ ReadNext("SRC_DESC")
    /\ LET m == Head(fromKernel) IN
         /\ m.state = "CLOSED"
         /\ Len(nest) < StackLimit
         /\ nest' = Append(nest, [ref |-> m.srcref, row |-> RowText(m)])
         /\ write([type |-> "GET_SRC_DESC", srcref |-> m.srcref])
    /\ UNCHANGED <<sock, announced, watched, changes, tableVars, screen, want,
                   flags, pc, callVars, src>>

\* Every description of a CLOSED socket nests one call deeper.
StackOverflow ==
    /\ ReadNext("SRC_DESC")
    /\ Head(fromKernel).state = "CLOSED"
    /\ Len(nest) >= StackLimit
    /\ pc' = "aborted"
    /\ nest' = <<>>
    /\ UNCHANGED <<sock, announced, watched, changes, toKernel, tableVars, screen,
                   want, flags, callVars, src>>

\* An error is printed or ignored, whoever reads it.  addAll keeps reading.
ReadError ==
    /\ ReadNext("ERROR")
    /\ Return(descriptors)
    /\ UNCHANGED <<sock, announced, watched, changes, toKernel, descriptorCounts,
                   screen, want, flags, callVars>>

\* A success ends addAll's first loop if addAll reads it ...
AddAllSuccess ==
    /\ ReadNext("SUCCESS")
    /\ pc = "addWait" /\ nest = <<>>
    /\ pc' = "refresh"
    /\ src' = 0
    /\ UNCHANGED <<sock, announced, watched, changes, toKernel, tableVars, screen,
                   want, flags, callVars, nest>>

\* ... makes main add the TCP providers, or the UDP ones once it has ...
MainSuccess ==
    /\ ReadNext("SUCCESS")
    /\ pc = "main" /\ nest = <<>>
    /\ IF ~flags.tcpAdded
       THEN /\ flags' = [flags EXCEPT !.tcpAdded = TRUE]
            /\ todo' = <<"TCP_USERLAND", "TCP_KERNEL">>
       ELSE /\ flags' = [flags EXCEPT !.udpAdded = TRUE]
            /\ todo' = <<"UDP_KERNEL", "UDP_USERLAND">>
    /\ pc' = "addAll"
    /\ UNCHANGED <<sock, announced, watched, changes, toKernel, tableVars, screen,
                   want, startup, src, nest>>

\* ... and is only printed by refreshSrc and querySources.
OtherSuccess ==
    /\ ReadNext("SUCCESS")
    /\ pc \notin {"addWait", "main"} \/ nest # <<>>
    /\ Return(descriptors)
    /\ UNCHANGED <<sock, announced, watched, changes, toKernel, descriptorCounts,
                   screen, want, flags, callVars>>

-----------------------------------------------------------------------------
(* main's loop                                                             *)

\* The end of main's case 0: ask for the counts once, then note they came.
GotAll ==
    /\ pc = "gotAll"
    /\ IF flags.tcpAdded /\ flags.udpAdded
       THEN IF ~flags.gettingCounts
            THEN /\ flags' = [flags EXCEPT !.gettingCounts = TRUE]
                 /\ write([type |-> "QUERY_SRC", done |-> {}])
            ELSE /\ flags' = [flags EXCEPT !.gotCounts = TRUE]
                 /\ UNCHANGED toKernel
       ELSE UNCHANGED <<flags, toKernel>>
    /\ pc' = "tail"
    /\ UNCHANGED <<sock, announced, watched, changes, fromKernel, tableVars, screen,
                   want, callVars, src, nest>>

\* Mutant: in curses mode a timeout queries without printing.
TimeoutUnprinted ==
    /\ pc = "main" /\ nest = <<>>
    /\ want.mode # "nc"
    /\ fromKernel = <<>>
    /\ PromptKernel => toKernel = <<>>
    /\ IF want.mode = "once"
       THEN pc' = "exit" /\ UNCHANGED toKernel
       ELSE pc' = "query" /\ write([type |-> "NONE"])
    /\ UNCHANGED <<sock, announced, watched, changes, fromKernel, tableVars, screen,
                   want, flags, callVars, src, nest>>

\* select timed out: print, then exit ("once") or call querySources.
Timeout ==
    /\ pc = "main" /\ nest = <<>>
    /\ want.mode # "nc"
    /\ fromKernel = <<>>
    /\ PromptKernel => toKernel = <<>>
    /\ screen' = Printed(descriptors, want)
    /\ IF want.mode = "once"
       THEN pc' = "exit" /\ UNCHANGED toKernel
       ELSE pc' = "query" /\ write([type |-> "NONE"])
    /\ UNCHANGED <<sock, announced, watched, changes, fromKernel, tableVars, want,
                   flags, callVars, src, nest>>

Toggled(key) ==
    CASE key = "U" -> [want EXCEPT !.udp = ~@]
      [] key = "T" -> [want EXCEPT !.tcp = ~@]
      [] key = "L" -> [want EXCEPT !.listen = ~@]
      [] OTHER -> want

\* The end of main's loop: a key in curses mode, then the table is printed
\* once counts have come; nc mode forgets it.
MainTail ==
    /\ pc = "tail"
    /\ \E key \in {"none"} \cup (IF want.mode = "curses" THEN Keys ELSE {}) :
         /\ want' = Toggled(key)
         /\ pc' = IF key = "Q" THEN "exit" ELSE "main"
         /\ IF key # "Q" /\ want.mode # "once" /\ flags.gotCounts
            THEN /\ screen' = Printed(descriptors, want')
                 /\ descriptors' = IF want.mode = "nc" THEN [r \in Ref |-> NULL]
                                   ELSE descriptors
            ELSE UNCHANGED <<screen, descriptors>>
    /\ UNCHANGED <<kernelVars, descriptorCounts, flags, callVars, src, nest>>

-----------------------------------------------------------------------------

Receive ==
    \/ SrcAdded \/ SrcRemoved \/ FreeLiteral \/ SrcCounts \/ SrcDesc
    \/ SrcDescClosed \/ StackOverflow
    \/ ReadError \/ AddAllSuccess \/ MainSuccess \/ OtherSuccess

Client ==
    \/ AddAll \/ RefreshNext \/ RefreshDone \/ Receive
    \/ GotAll \/ Timeout \/ MainTail

Terminated == pc \in {"exit", "aborted"} /\ UNCHANGED vars

Next ==
    \/ Client
    \/ (Environment \/ Kernel) /\ UNCHANGED lsockVars
    \/ Terminated

\* The client thread and the kernel keep running; sockets need not change.
Fairness == WF_vars(Client) /\ WF_vars(Kernel /\ UNCHANGED lsockVars)

Spec == Init /\ [][Next]_vars
FairSpec == Spec /\ Fairness

-----------------------------------------------------------------------------
(* Properties                                                              *)

Pending(m) == \E i \in DOMAIN fromKernel : fromKernel[i] = m
PendingDesc(r) ==
    \E i \in DOMAIN fromKernel :
        fromKernel[i].type = "SRC_DESC" /\ fromKernel[i].srcref = r
Requested(req) == \E i \in DOMAIN toKernel : toKernel[i] = req

\* addAll runs for a provider, and its second loop refreshes a real reference.
CallsOK ==
    /\ pc \in {"addAll", "addWait", "refresh", "refreshWait"} => todo # <<>>
    /\ pc = "refreshWait" => src \in Ref

\* While refreshSrc or querySources blocks in read(2), a message is there or
\* a request is with the kernel: the client and the kernel never wait for
\* each other, however the answers were shared out among the readers.
ReadIsAnswered ==
    pc \in {"refreshWait", "query"} \/ (nest # <<>> /\ pc # "aborted") =>
        toKernel # <<>> \/ fromKernel # <<>>

\* A row without text will get it: process_nstat_msg asked for a description
\* that is with the kernel, or on its way, or held by a nested call, or the
\* source is gone and its removal is on its way.
RowIsDescribed ==
    pc # "aborted" =>
      \A r \in Ref : descriptors[r] = Reading =>
        \/ Requested([type |-> "GET_SRC_DESC", srcref |-> r])
        \/ PendingDesc(r)
        \/ Pending([type |-> "SRC_REMOVED", srcref |-> r])
        \/ \E i \in DOMAIN nest : nest[i].ref = r

\* A row with text is that of the live socket of its reference, or the
\* removal of that socket has not been read yet.
RowIsLive(r) ==
    \/ r \in announced /\ sock[r].inc = descriptors[r].inc
    \/ Pending([type |-> "SRC_REMOVED", srcref |-> r])

\* Rows never outlive their socket, except those of CLOSED sockets (whose
\* row is stored after a nested refresh that may have read the removal).
NoGhostRow ==
    \A r \in Ref :
        descriptors[r].kind = "text" /\ descriptors[r].state # "CLOSED" => RowIsLive(r)

\* The counts a row shows are the last the client was sent, so that toggling
\* or reprinting never goes back to older ones (same exception).
CountsShown ==
    \A r \in Ref :
        descriptors[r].kind = "text" /\ descriptors[r].state # "CLOSED" =>
            descriptors[r].rx = descriptorCounts[r]

\* lsock once prints every source the kernel has announced when it exits
\* (ChangeLog: "all descriptors are shown, always (no race, etc)").
OnceShowsAll ==
    [][want.mode = "once" /\ pc # "exit" /\ pc' = "exit" =>
         \A r \in announced : screen'[r].kind = "text" /\ screen'[r].inc = sock[r].inc]_vars

Listed(r) == screen[r].kind = "text" /\ screen[r].inc = sock[r].inc

\* Once sockets stop coming and going, the full-screen table settles on
\* exactly the live sockets of the watched providers.
ScreenConverges ==
    <>[](pc \in {"aborted", "exit"}
           \/ \A r \in Ref : IF sock[r].live /\ ProviderOf[r] \in watched
                             THEN Listed(r) ELSE screen[r] = NULL)

\* lsock once never waits for ever, whatever the order of the answers.
OnceEnds == want.mode = "once" ~> pc \in {"exit", "aborted"}

-----------------------------------------------------------------------------
(* Claims of the source that its code does not keep.                       *)

\* Usage, line 915: "lsock nc: Run in filter mode, ongoing".
NcPrints ==
    (\E r \in Ref : []<>(descriptors[r].kind = "text")) => <>(\E r \in Ref : screen[r] # NULL)
=============================================================================
