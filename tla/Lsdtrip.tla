-------------------------------- MODULE Lsdtrip --------------------------------
(***************************************************************************)
(* lsdtrip (src/src/lsdtrip.m): asks LaunchServices one question and shows *)
(* the answer.  Dictionaries are shown by keyDumper, which calls itself    *)
(* for what is in them and has one static buffer for keys and strings,     *)
(* which are taken to fit it.                                              *)
(***************************************************************************)
EXTENDS Integers, Sequences
LOCAL INSTANCE SequencesExt

CONSTANTS
    Sessions,   \* the command, and what LaunchServices has to say
    NoKey, NoArgument, NoID

\* What a dictionary or an array has in it is a record [key, kind, name, items],
\* with NoKey in an array.  name: the text of a string or a date, and what tells
\* any two values apart.  kind: "string", "number", "boolean", "url", "date",
\* "array", "dict", "asn" (of an application), or "other".
\* dicts: the answer, or the notifications as they come.  claims: what comes back
\* for a URL: nothing, something else, or an array of applications.
Session ==
    [verb : STRING, argument : STRING \cup {NoArgument}, mobile : BOOLEAN, cfshow : BOOLEAN,
     apps : Seq([id : STRING \cup {NoID}]), claims : Seq({"none", "odd", "array"}), others : Nat,
     front : {"none", "odd", "asn"}]

ASSUME LsdtripAssumption ==
    \A s \in Sessions :
        /\ [f \in (DOMAIN s) \ {"dicts"} |-> s[f]] \in Session
        /\ \A k \in DOMAIN s.dicts : s.dicts[k].kind = "dict"

VARIABLES
    session,
    lsdtrip,        \* "start", "apps", "urls", "dump", "listen" or "done"
    next,           \* how many applications, URLs or dictionaries were taken
    calls,          \* the calls of keyDumper still to come, from the innermost on
    buf,            \* its buffer
    shown,          \* what was shown
    advertising,    \* whether there is an advertising identifier
    status          \* the exit status

lsdtripVars == <<session, lsdtrip, next, calls, buf, shown, advertising, status>>

verb == session.verb
argument == session.argument
verbose == argument = "-v"

LsdtripInit ==
    /\ session \in Sessions
    /\ lsdtrip = "start" /\ next = 0
    /\ calls = <<>> /\ buf = ""
    /\ shown = <<>>
    /\ advertising = TRUE
    /\ status = 0

Exit(code) == lsdtrip' = "done" /\ status' = code
Show(what) == shown' = shown \o what
Nothing == Show(<<>>)

-----------------------------------------------------------------------------
(* keyDumper                                                               *)

Call(key, label, item, nested) == [key |-> key, label |-> label, item |-> item, nested |-> nested]

\* dumpDict, and a dictionary within: one call for each key.
Entries(dict, nested) ==
    [j \in DOMAIN dict.items |-> Call(dict.items[j].key, <<>>, dict.items[j], nested)]

\* An array calls with no key and has printed its own, and an index, before: that
\* of a copy of buf.
Elements(call, held) ==
    [j \in DOMAIN call.item.items |-> Call(NoKey, <<held, j>>, call.item.items[j], call.nested)]

\* Mutant: no copy is made, so that the label is what buf holds when it is printed.
LabelInBuffer(call) == IF call.key # NoKey THEN <<call.key>> ELSE <<buf, call.label[2]>>

LabelOf(call) == IF call.key # NoKey THEN <<call.key>> ELSE call.label

\* A number narrower than 64 bits is printed with what was on the stack; a URL is
\* followed by what is printed for unknown types.  Without a key nothing is
\* written to buf but strings and dates.
LinesOf(call) ==
    LET line(what) == [label |-> LabelOf(call), nested |-> call.nested, name |-> call.item.name, what |-> what]
    IN  CASE call.item.kind = "array" -> {<<>>}
          [] call.item.kind = "number" -> {<<line("number")>>, <<line("garbage")>>}
          [] call.item.kind = "url" -> {<<line("url"), line("again")>>}
          [] call.item.kind = "other" -> {<<line("todo")>>}
          [] OTHER -> {<<line(call.item.kind)>>}

keyDumper ==
    /\ calls # <<>>
    /\ LET call == Head(calls)
           held == IF call.key = NoKey THEN buf ELSE call.key
           within == CASE call.item.kind = "array" -> Elements(call, held)
                       [] call.item.kind = "dict" -> Entries(call.item, TRUE)
                       [] OTHER -> <<>>
       IN  /\ \E lines \in LinesOf(call) : Show(lines)
           /\ buf' = IF call.item.kind \in {"string", "date"} THEN call.item.name ELSE held
           /\ calls' = within \o Tail(calls)
    /\ UNCHANGED <<session, lsdtrip, next, advertising, status>>

\* "Set CFSHOW=1 to use CFshow in place of J's dumping function".
dumpDict ==
    /\ next' = next + 1
    /\ LET dict == session.dicts[next + 1] IN
       IF session.cfshow
       THEN Show(<<[whole |-> dict.name]>>) /\ UNCHANGED calls
       ELSE Nothing /\ calls' = Entries(dict, FALSE)

-----------------------------------------------------------------------------
(* Commands                                                                *)

Starts(verbs) == lsdtrip = "start" /\ verb \in verbs

\* "Status" and which: others are not known.
Statuses == {"appstatus", "notificationstatus", "portstatus", "sessionstatus", "memorystatus"}
AskedOfMac == Statuses \cup {"oddstatus", "visible", "front", "metainfo", "shmem", "listen"}
AskedOfMobile == {"open"}
AskedOfBoth ==
    {"apps", "app", "publicurls", "privateurls", "plugins", "types", "whohas", "advid", "launch", "dump"}
Known == AskedOfBoth \cup IF session.mobile THEN AskedOfMobile ELSE AskedOfMac

\* dumpApp, with the details of its bundle or without.
dumpApp(app, details) == [app |-> app, details |-> details]

wantedBundleID == IF verb = "app" THEN argument ELSE NoArgument

AppsStart ==
    /\ Starts({"apps", "app"})
    /\ IF verb = "app" /\ argument = NoArgument
       THEN Exit(5)
       ELSE lsdtrip' = "apps" /\ UNCHANGED status
    /\ UNCHANGED <<session, next, calls, buf, shown, advertising>>

\* An application without an identifier is shown even if one is wanted.
NextApp ==
    /\ lsdtrip = "apps" /\ next < Len(session.apps)
    /\ next' = next + 1
    /\ LET id == session.apps[next + 1].id IN
       IF id # NoID /\ wantedBundleID # NoArgument
       THEN IF id = wantedBundleID
            THEN Show(<<dumpApp(next + 1, TRUE)>>) /\ Exit(0)
            ELSE Nothing /\ UNCHANGED <<lsdtrip, status>>
       ELSE Show(<<dumpApp(next + 1, verbose)>>) /\ UNCHANGED <<lsdtrip, status>>
    /\ UNCHANGED <<session, calls, buf, advertising>>

AppsEnd ==
    /\ lsdtrip = "apps" /\ next = Len(session.apps)
    /\ Exit(IF wantedBundleID = NoArgument THEN 0 ELSE 2)
    /\ UNCHANGED <<session, next, calls, buf, shown, advertising>>

\* dumpURL: with the applications that claim it, if so asked.  The tool exits if
\* there is no answer.
dumpURL(claims, details) ==
    IF details /\ claims # "array"
    THEN Nothing /\ Exit(IF claims = "none" THEN 1 ELSE 2)
    ELSE Show(<<[url |-> next + 1, details |-> details]>>)
         /\ IF verb = "whohas" THEN Exit(0) ELSE UNCHANGED <<lsdtrip, status>>

URLsStart ==
    /\ Starts({"publicurls", "privateurls"})
    /\ IF session.mobile THEN lsdtrip' = "urls" /\ UNCHANGED status ELSE Exit(0)
    /\ UNCHANGED <<session, next, calls, buf, shown, advertising>>

NextURL ==
    /\ lsdtrip = "urls" /\ next < Len(session.claims)
    /\ next' = next + 1
    /\ dumpURL(session.claims[next + 1], verbose)
    /\ UNCHANGED <<session, calls, buf, advertising>>

URLsEnd ==
    /\ lsdtrip = "urls" /\ next = Len(session.claims)
    /\ Exit(0)
    /\ UNCHANGED <<session, next, calls, buf, shown, advertising>>

Whohas ==
    /\ Starts({"whohas"})
    /\ IF argument = NoArgument THEN Exit(3) /\ Nothing ELSE dumpURL(session.claims[1], TRUE)
    /\ UNCHANGED <<session, next, calls, buf, advertising>>

\* Commands that show a list, one element after the other; shmem is one, of the
\* applications in a page shared with the server.
ListAll ==
    /\ Starts({"plugins", "types", "visible", "shmem"} \cap Known)
    /\ Show([k \in 1 .. session.others |-> [element |-> k]])
    /\ Exit(0)
    /\ UNCHANGED <<session, next, calls, buf, advertising>>

Advid ==
    /\ Starts({"advid"})
    /\ IF argument = "clear"
       THEN advertising' = FALSE /\ Nothing
       ELSE Show(<<[advid |-> advertising]>>) /\ UNCHANGED advertising
    /\ Exit(0)
    /\ UNCHANGED <<session, next, calls, buf>>

\* The status does not tell whether anything was launched.
Launch ==
    /\ Starts({"launch", "open"} \cap Known)
    /\ Exit(IF argument = NoArgument THEN 3 ELSE 0)
    /\ UNCHANGED <<session, next, calls, buf, shown, advertising>>

\* The whole database, by LaunchServices itself.
DumpDatabase ==
    /\ Starts({"dump"})
    /\ \E rc \in {0, 1} : Exit(rc)
    /\ UNCHANGED <<session, next, calls, buf, shown, advertising>>

Answered == lsdtrip' = "dump" /\ dumpDict /\ UNCHANGED status

FrontApp ==
    /\ Starts({"front"} \cap Known)
    /\ IF session.front = "asn" /\ verbose
       THEN Answered
       ELSE /\ Exit(CASE session.front = "none" -> 2 [] session.front = "odd" -> 3 [] OTHER -> 0)
            /\ Show(IF session.front = "asn" THEN <<[frontName |-> TRUE]>> ELSE <<>>)
            /\ UNCHANGED <<next, calls>>
    /\ UNCHANGED <<session, buf, advertising>>

MetaInfo ==
    /\ Starts((Statuses \cup {"metainfo", "oddstatus"}) \cap Known)
    /\ IF verb = "oddstatus" \/ (verb = "metainfo" /\ session.dicts = <<>>)
       THEN Exit(IF verb = "oddstatus" THEN 5 ELSE 0) /\ Nothing /\ UNCHANGED <<next, calls>>
       ELSE session.dicts # <<>> /\ Answered
    /\ UNCHANGED <<session, buf, advertising>>

DumpEnd ==
    /\ lsdtrip = "dump" /\ calls = <<>>
    /\ Exit(0)
    /\ UNCHANGED <<session, next, calls, buf, shown, advertising>>

Listen ==
    /\ Starts({"listen"} \cap Known)
    /\ lsdtrip' = "listen"
    /\ UNCHANGED <<session, next, calls, buf, shown, advertising, status>>

\* notificationCallbackFunc, called by the run loop, which is in no other call.
Notified ==
    /\ lsdtrip = "listen" /\ calls = <<>> /\ next < Len(session.dicts)
    /\ dumpDict
    /\ UNCHANGED <<session, lsdtrip, buf, advertising, status>>

\* Without a command, with one that is not known or not on this system, or with
\* "running", which is not yet there.
Usage ==
    /\ lsdtrip = "start" /\ verb \notin Known
    /\ Exit(0)
    /\ UNCHANGED <<session, next, calls, buf, shown, advertising>>

LsdtripNext ==
    \/ AppsStart \/ NextApp \/ AppsEnd \/ URLsStart \/ NextURL \/ URLsEnd \/ Whohas
    \/ ListAll \/ Advid \/ Launch \/ DumpDatabase \/ FrontApp \/ MetaInfo \/ DumpEnd
    \/ Listen \/ Notified \/ Usage \/ keyDumper

LsdtripEnded ==
    \/ lsdtrip = "done"
    \/ lsdtrip = "listen" /\ calls = <<>> /\ next = Len(session.dicts)

-----------------------------------------------------------------------------
(* Properties                                                              *)

LsdtripTypeOK ==
    /\ lsdtrip \in {"start", "apps", "urls", "dump", "listen", "done"}
    /\ next \in Nat /\ status \in 0 .. 5 /\ advertising \in BOOLEAN
    /\ calls # <<>> => lsdtrip \in {"dump", "listen"}

\* What a dictionary has in it, in order: each value under its own key, or under
\* that of its array and an index.
RECURSIVE Contents(_, _, _)
Contents(item, label, nested) ==
    LET here == <<[label |-> label, nested |-> nested, name |-> item.name]>>
        within(l, n) == FlattenSeq([j \in DOMAIN item.items |-> Contents(item.items[j], l[j], n)])
    IN  CASE item.kind = "array" -> within([j \in DOMAIN item.items |-> <<label[1], j>>], nested)
          [] item.kind = "dict" -> here \o within([j \in DOMAIN item.items |-> <<item.items[j].key>>], TRUE)
          [] OTHER -> here

ContentsOf(dict) ==
    FlattenSeq([j \in DOMAIN dict.items |-> Contents(dict.items[j], <<dict.items[j].key>>, FALSE)])

\* An array in an array has no key, and prints what the buffer holds.
RECURSIVE HasArrayInArray(_)
HasArrayInArray(item) ==
    \E j \in DOMAIN item.items :
        \/ item.kind = "array" /\ item.items[j].kind = "array"
        \/ HasArrayInArray(item.items[j])

Lines ==
    LET told == SelectSeq(shown, LAMBDA l : "what" \in DOMAIN l /\ l.what # "again")
    IN  [k \in DOMAIN told |-> [label |-> told[k].label, nested |-> told[k].nested, name |-> told[k].name]]

DumpsAreExact ==
    LET asked == verb \in Statuses \cup {"metainfo", "front", "listen"}
        contents == FlattenSeq([k \in 1 .. next |-> ContentsOf(session.dicts[k])])
    IN  asked /\ ~session.cfshow /\ ~(\E k \in DOMAIN session.dicts : HasArrayInArray(session.dicts[k])) =>
            IsPrefix(Lines, contents) /\ (calls = <<>> => Lines = contents)

AppIsFound ==
    LET wanted == {k \in DOMAIN session.apps : session.apps[k].id = argument}
        named == \A k \in DOMAIN session.apps : session.apps[k].id # NoID
    IN  verb = "app" /\ argument # NoArgument /\ named /\ lsdtrip = "done" =>
            IF wanted = {}
            THEN shown = <<>> /\ status = 2
            ELSE \E k \in wanted : (\A j \in wanted : k <= j) /\ shown = <<dumpApp(k, TRUE)>> /\ status = 0

\* What is asked is shown, and nothing else.  Of a dictionary each value is shown
\* under its own key, although all calls of keyDumper write to one buffer, in
\* order and once; of the applications the one that is wanted, if there is one,
\* and it is an error if there is none.
ShowsWhatIsAsked == DumpsAreExact /\ AppIsFound
=============================================================================
