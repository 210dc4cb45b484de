------------------------------- MODULE Filemon -------------------------------
(***************************************************************************)
(* filemon (src/src/filemon.c): a client of /dev/fsevents that shows what  *)
(* processes do to files and may, at once, link every new file (-l) and    *)
(* stop the process that made it (-s).                                     *)
(*                                                                         *)
(* Processes and files change between any two of its system calls, events  *)
(* wait in a queue of the kernel, and linking makes an event of its own.   *)
(* The kernel's part is external: src/ has only its client.                *)
(***************************************************************************)
EXTENDS Naturals, Sequences, FiniteSets

CONSTANTS
    Pids, Self,     \* process ids, and that of filemon
    Programs,       \* what a process may run
    Files,          \* the paths processes create
    Filtered,       \* those that contain the string given with -f
    Commands,       \* the options it may be started with
    Depth,          \* event_queue_depth: 100 in the code
    MaxDeeds,       \* bound: what other processes do
    MaxRuns         \* bound: how often filemon is started

\* The options -l and -s, and whether there are filters -f and -p.
Option == [link : BOOLEAN, stop : BOOLEAN, file : BOOLEAN, proc : BOOLEAN]

ASSUME FilemonAssumption ==
    /\ Self \in Pids
    /\ Filtered \subseteq Files
    /\ Commands \subseteq Option
    /\ Depth \in Nat \ {0} /\ MaxDeeds \in Nat /\ MaxRuns \in Nat

VARIABLES
    procs,       \* the program that each process runs
    fs,          \* the paths that exist: <<file>>, or <<file, n>> for file.filemon.n
    suspended,   \* the processes that have been sent SIGSTOP
    queue,       \* events waiting to be read
    overflow,    \* some found the queue full since the last read
    posted,      \* history: all events since filemon was started
    deeds, runs, \* counters for the bounds
    opts,        \* the options of this run
    doing,       \* what filemon is doing
    buf,         \* the events read and not looked at
    lastPID, procName,   \* of getProcName
    autolink,    \* number of the next link
    output       \* the lines printed: [id, pid, name], or Dropped

fseventVars == <<procs, fs, suspended, queue, overflow, posted, deeds>>
filemonVars == <<fseventVars, runs, opts, doing, buf, lastPID, procName, autolink, output>>

None == "none"
Dropped == [id |-> 0]     \* FSE_EVENTS_DROPPED
IsPath(x) == Len(x) \in 1 .. 2 /\ x[1] \in Files /\ (Len(x) = 2 => x[2] \in Nat)

FilemonInit ==
    /\ \E others \in [Pids \ {Self} -> Programs \cup {None}] :
         procs = [p \in Pids |-> IF p = Self THEN "filemon" ELSE others[p]]
    /\ fs = {} /\ suspended = {}
    /\ queue = <<>> /\ overflow = FALSE /\ posted = <<>>
    /\ deeds = 0 /\ runs = 0
    /\ opts \in Commands
    /\ doing = "start"
    /\ buf = <<>> /\ lastPID = 0 /\ procName = None /\ autolink = 0
    /\ output = <<>>

-----------------------------------------------------------------------------
(* The kernel and the other processes                                      *)

Listening == doing \notin {"start", "exit"}

\* An event is queued, or found to be one too many.
Post(type, pid, path) ==
    LET e == [id |-> Len(posted) + 1, type |-> type, pid |-> pid, path |-> path]
    IN  IF ~Listening THEN UNCHANGED <<queue, overflow, posted>>
        ELSE /\ posted' = Append(posted, e)
             /\ IF Len(queue) < Depth
                THEN queue' = Append(queue, e) /\ UNCHANGED overflow
                ELSE overflow' = TRUE /\ UNCHANGED queue

Other(p) == p # Self /\ deeds < MaxDeeds /\ deeds' = deeds + 1
Running(p) == procs[p] # None /\ p \notin suspended

CreateFile(p, f) ==
    /\ Other(p) /\ Running(p) /\ <<f>> \notin fs
    /\ fs' = fs \cup {<<f>>}
    /\ Post("create", p, <<f>>)
    /\ UNCHANGED <<procs, suspended>>

DeleteFile(p, f) ==
    /\ Other(p) /\ Running(p) /\ <<f>> \in fs
    /\ fs' = fs \ {<<f>>}
    /\ Post("delete", p, <<f>>)
    /\ UNCHANGED <<procs, suspended>>

ExitProcess(p) ==
    /\ Other(p) /\ procs[p] # None
    /\ procs' = [procs EXCEPT ![p] = None]
    /\ suspended' = suspended \ {p}
    /\ UNCHANGED <<fs, queue, overflow, posted>>

\* A process id may be used again.
Spawn(p, program) ==
    /\ Other(p) /\ procs[p] = None
    /\ procs' = [procs EXCEPT ![p] = program]
    /\ UNCHANGED <<fs, suspended, queue, overflow, posted>>

Others ==
    /\ \E p \in Pids :
         \/ \E f \in Files : CreateFile(p, f) \/ DeleteFile(p, f)
         \/ ExitProcess(p)
         \/ \E program \in Programs : Spawn(p, program)
    /\ UNCHANGED <<runs, opts, doing, buf, lastPID, procName, autolink, output>>

-----------------------------------------------------------------------------
(* main                                                                    *)

At(where) == doing = where /\ Self \notin suspended

\* The options are looked at, and /dev/fsevents is opened and cloned.
Start ==
    /\ At("start") /\ runs < MaxRuns
    /\ runs' = runs + 1
    /\ doing' = IF opts.stop /\ ~opts.file /\ ~opts.proc THEN "exit" ELSE "read"
    /\ autolink' = IF opts.link THEN 1 ELSE 0
    /\ UNCHANGED <<fseventVars, opts, buf, lastPID, procName, output>>

\* A read takes all that is waiting, after the notice of an overflow.
Read ==
    /\ At("read") /\ (queue # <<>> \/ overflow)
    /\ buf' = (IF overflow THEN <<Dropped>> ELSE <<>>) \o queue
    /\ queue' = <<>> /\ overflow' = FALSE
    /\ doing' = "event"
    /\ UNCHANGED <<procs, fs, suspended, posted, deeds, runs, opts, lastPID, procName,
                   autolink, output>>

event == Head(buf)

\* The end of the buffer.
ReadOn ==
    /\ At("event") /\ buf = <<>>
    /\ doing' = "read"
    /\ UNCHANGED <<fseventVars, runs, opts, buf, lastPID, procName, autolink, output>>

\* Mutant: the notice is passed over like an event.
PassNotice ==
    /\ At("event") /\ buf # <<>> /\ event = Dropped
    /\ output' = Append(output, Dropped)
    /\ buf' = Tail(buf)
    /\ UNCHANGED <<fseventVars, runs, opts, doing, lastPID, procName, autolink>>

\* "Some events dropped": the rest of the buffer is not looked at.
EventsDropped ==
    /\ At("event") /\ buf # <<>> /\ event = Dropped
    /\ output' = Append(output, Dropped)
    /\ buf' = <<>>
    /\ UNCHANGED <<fseventVars, runs, opts, doing, lastPID, procName, autolink>>

\* The name is looked up unless the previous event was of the same process.
GetProcName(pid) ==
    /\ procName' = IF pid # lastPID THEN procs[pid] ELSE procName
    /\ lastPID' = pid

\* With any -p, no process is interesting.
Interesting(e) ==
    /\ ~opts.proc
    /\ opts.file => e.path[1] \in Filtered

\* Mutant: filemon's own links are linked as well.
ToLinkAny(e) == opts.link /\ e.type = "create"

ToLink(e) == opts.link /\ e.type = "create" /\ e.pid # Self

ToStop(e) == opts.stop /\ e.type = "create"

\* What follows once an event has been printed, or linked.
Done == doing' = "event" /\ buf' = Tail(buf)

ShowEvent ==
    /\ At("event") /\ buf # <<>> /\ event # Dropped
    /\ GetProcName(event.pid)
    /\ IF ~Interesting(event)
       THEN Done /\ UNCHANGED output
       ELSE /\ output' = Append(output, [id |-> event.id, pid |-> event.pid, name |-> procName'])
            /\ IF ToLink(event) THEN doing' = "link" /\ UNCHANGED buf
               ELSE IF ToStop(event) THEN doing' = "stop" /\ UNCHANGED buf
               ELSE Done
    /\ UNCHANGED <<fseventVars, runs, opts, autolink>>

\* Mutant: a process whose file could not be linked is not stopped.
AfterLinkWarned == Done

\* Mutant: the event is consumed before it is looked at again.
AfterLinkConsumed == buf' = Tail(buf) /\ doing' = IF ToStop(event) THEN "stop" ELSE "event"

AfterLink == IF ToStop(event) THEN doing' = "stop" /\ UNCHANGED buf ELSE Done

linkName == Append(event.path, autolink)

AutoLink ==
    /\ At("link") /\ event.path \in fs /\ linkName \notin fs
    /\ fs' = fs \cup {linkName}
    /\ autolink' = autolink + 1
    /\ Post("create", Self, linkName)
    /\ AfterLink
    /\ UNCHANGED <<procs, suspended, deeds, runs, opts, lastPID, procName, output>>

\* "Unable to autolink - file must have been deleted already"
LinkWarning ==
    /\ At("link") /\ (event.path \notin fs \/ linkName \in fs)
    /\ AfterLink
    /\ UNCHANGED <<fseventVars, runs, opts, lastPID, procName, autolink, output>>

\* kill(pid, SIGSTOP), whoever has that process id by now.
AutoStop ==
    /\ At("stop")
    /\ suspended' = IF procs[event.pid] # None THEN suspended \cup {event.pid} ELSE suspended
    /\ Done
    /\ UNCHANGED <<procs, fs, queue, overflow, posted, deeds, runs, opts, lastPID,
                   procName, autolink, output>>

\* The user ends filemon, and may start it again; the files stay.
Quit ==
    /\ Listening /\ runs < MaxRuns
    /\ doing' = "start"
    /\ queue' = <<>> /\ overflow' = FALSE /\ posted' = <<>>
    /\ buf' = <<>> /\ lastPID' = 0 /\ procName' = None /\ autolink' = 0
    /\ output' = <<>>
    /\ suspended' = suspended \ {Self}
    /\ UNCHANGED <<procs, fs, deeds, runs, opts>>

FilemonStep ==
    Start \/ Read \/ ReadOn \/ EventsDropped \/ ShowEvent \/ AutoLink \/ LinkWarning \/ AutoStop

FilemonNext == FilemonStep \/ Others \/ Quit

-----------------------------------------------------------------------------
(* Properties                                                              *)

IsEvent(e) == e.id \in Nat /\ e.type \in {"create", "delete"} /\ e.pid \in Pids /\ IsPath(e.path)

FilemonTypeOK ==
    /\ procs \in [Pids -> Programs \cup {None, "filemon"}]
    /\ (\A path \in fs : IsPath(path)) /\ suspended \subseteq Pids
    /\ Len(queue) <= Depth /\ overflow \in BOOLEAN
    /\ \A s \in {queue, posted} : \A i \in DOMAIN s : IsEvent(s[i])
    /\ \A i \in DOMAIN buf : buf[i] = Dropped \/ IsEvent(buf[i])
    /\ deeds \in Nat /\ runs \in Nat /\ opts \in Option
    /\ doing \in {"start", "exit", "read", "event", "link", "stop"}
    /\ doing \in {"link", "stop"} => buf # <<>> /\ event # Dropped
    /\ lastPID \in Pids \cup {0}
    /\ procName \in Programs \cup {None, "filemon"}
    /\ autolink \in Nat

\* Of two lines printed one after the other, the second is of a later event,
\* and every event in between was filtered out: wherever an interesting event
\* is missing, "Some events dropped" stands in its place.  This is why the rest
\* of the buffer goes unseen: its events come before those that were dropped.
GapsAreMarked ==
    \A i \in 1 .. Len(output) - 1 :
        Dropped \notin {output[i], output[i + 1]} =>
            /\ output[i].id < output[i + 1].id
            /\ \A j \in output[i].id + 1 .. output[i + 1].id - 1 : ~Interesting(posted[j])

\* Links are never linked again, although each is a new file that the filter
\* lets through: filemon does not feed on its own events.
NoFeedback == \A path \in fs : Len(path) <= 2

\* With -s, a process that makes an interesting file is stopped, or has ended
\* before, unless events were dropped, or filemon is ended or has stopped itself
\* (as it does when it reads the event of a link of its own).
CreatorsAreStopped ==
    \A p \in Pids :
        (\E i \in DOMAIN queue : queue[i].pid = p /\ ToStop(queue[i]) /\ Interesting(queue[i]))
        ~> \/ p \in suspended \/ procs[p] = None
           \/ Self \in suspended \/ posted = <<>>
           \/ Dropped \in {output[i] : i \in DOMAIN output}

-----------------------------------------------------------------------------
(* A claim of the source that its code does not keep.                      *)

\* Line 440: "Unable to autolink %s - file must have been deleted already".
WarningIsTrue == [][LinkWarning => event.path \notin fs]_filemonVars
=============================================================================
