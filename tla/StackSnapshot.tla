----------------------------- MODULE StackSnapshot -----------------------------
(***************************************************************************)
(* src/src/5-2-stack-snapshot.c: prints what the stack_snapshot system     *)
(* call returns.  Tasks and threads follow each other without any index;   *)
(* what the program does not know it looks through for the next magic.     *)
(***************************************************************************)
EXTENDS Integers, Sequences, FiniteSets

CONSTANT Traces    \* what the kernel may return

\* Load infos ("other") are not known to the program.  is64: of a task.  user and
\* kern: how many frames follow a thread.
TraceItem == [kind : {"io", "task", "thread", "mem", "other"}, is64 : BOOLEAN,
              user : Nat, kern : Nat]
\* kframe: how large the frames of this kernel are.
Trace == [granted : BOOLEAN, kframe : {8, 16}, content : Seq(TraceItem)]

ASSUME StackSnapshotAssumption == Traces \subseteq Trace

VARIABLES
    trace,
    tracer,     \* "start", "walk", "stuck", "done" or "failed"
    traceOff,   \* off
    is64bit,    \* of the last task met
    warn,       \* "Seeking to next magic" has been said
    traceLines  \* what was printed: items, with the sizes taken for their frames

traceVars == <<trace, tracer, traceOff, is64bit, warn, traceLines>>

-----------------------------------------------------------------------------
(* The buffer                                                              *)

inTrace == trace.content

\* sizeof of the structures, which are packed, and of 24 bytes of load infos.
StructSize(kind) ==
    CASE kind = "io" -> 45 [] kind = "task" -> 30 [] kind = "thread" -> 41 [] OTHER -> 24

UserFrame(wide) == IF wide THEN 16 ELSE 8

\* Frames are as wide as the task they are of.
WideAt(k) ==
    \E t \in 1 .. k : /\ inTrace[t].kind = "task" /\ inTrace[t].is64
                      /\ \A u \in t + 1 .. k : inTrace[u].kind # "task"

ItemSize(k) ==
    StructSize(inTrace[k].kind)
        + (IF inTrace[k].kind = "thread"
           THEN inTrace[k].user * UserFrame(WideAt(k)) + inTrace[k].kern * trace.kframe ELSE 0)

ItemOffsets ==
    LET from[k \in 1 .. Len(inTrace) + 1] == IF k = 1 THEN 0 ELSE from[k - 1] + ItemSize(k - 1)
    IN  from
traceEnd == ItemOffsets[Len(inTrace) + 1]

\* The item whose magic is at off, if one is.
MagicAt(at17) == {k \in DOMAIN inTrace : inTrace[k].kind # "other" /\ ItemOffsets[k] = at17}

-----------------------------------------------------------------------------

StackSnapshotInit ==
    /\ trace \in Traces
    /\ tracer = "start" /\ traceOff = 0
    /\ is64bit = FALSE /\ warn = FALSE
    /\ traceLines = <<>>

CallSnapshot ==
    /\ tracer = "start"
    /\ tracer' = IF trace.granted THEN "walk" ELSE "failed"
    /\ UNCHANGED <<trace, traceOff, is64bit, warn, traceLines>>

Walking(kind) ==
    /\ tracer = "walk" /\ traceOff < traceEnd
    /\ \E k \in MagicAt(traceOff) : inTrace[k].kind = kind
Met == CHOOSE k \in MagicAt(traceOff) : TRUE

\* It does not reset the warning.
DumpMemAndIo ==
    /\ Walking("io")
    /\ traceLines' = Append(traceLines, [item |-> Met, frames |-> 0])
    /\ traceOff' = traceOff + StructSize("io")
    /\ UNCHANGED <<trace, tracer, is64bit, warn>>

\* Mutant: what was learnt of an earlier 64-bit task is kept.
DumpTaskOnce ==
    /\ Walking("task")
    /\ traceLines' = Append(traceLines, [item |-> Met, frames |-> 0])
    /\ is64bit' = (is64bit \/ inTrace[Met].is64)
    /\ traceOff' = traceOff + StructSize("task")
    /\ warn' = FALSE
    /\ UNCHANGED <<trace, tracer>>

DumpTask ==
    /\ Walking("task")
    /\ traceLines' = Append(traceLines, [item |-> Met, frames |-> 0])
    /\ is64bit' = inTrace[Met].is64
    /\ traceOff' = traceOff + StructSize("task")
    /\ warn' = FALSE
    /\ UNCHANGED <<trace, tracer>>

\* User frames as wide as the task, then kernel frames of 16 bytes.
DumpThread ==
    /\ Walking("thread")
    /\ LET frames17 == inTrace[Met].user * UserFrame(is64bit) + inTrace[Met].kern * 16 IN
         /\ traceLines' = Append(traceLines, [item |-> Met, frames |-> frames17])
         /\ traceOff' = traceOff + StructSize("thread") + frames17
    /\ warn' = FALSE
    /\ UNCHANGED <<trace, tracer, is64bit>>

\* "MEM magic" is printed, and again for ever: off stays where it is.
MeetMem ==
    /\ Walking("mem")
    /\ tracer' = "stuck"
    /\ UNCHANGED <<trace, traceOff, is64bit, warn, traceLines>>

\* "Seeking to next magic" is said once for the bytes up to the next.
SeekMagic ==
    /\ tracer = "walk" /\ traceOff < traceEnd /\ MagicAt(traceOff) = {}
    /\ traceLines' = IF warn THEN traceLines ELSE Append(traceLines, [item |-> 0, frames |-> 0])
    /\ warn' = TRUE
    /\ traceOff' = traceOff + 1
    /\ UNCHANGED <<trace, tracer, is64bit>>

WalkedAll ==
    /\ tracer = "walk" /\ traceOff >= traceEnd
    /\ tracer' = "done"
    /\ UNCHANGED <<trace, traceOff, is64bit, warn, traceLines>>

StackSnapshotNext ==
    \/ CallSnapshot
    \/ DumpMemAndIo \/ DumpTask \/ DumpThread \/ MeetMem \/ SeekMagic \/ WalkedAll

StackSnapshotEnded == tracer \in {"stuck", "done", "failed"}

-----------------------------------------------------------------------------
(* Properties                                                              *)

StackSnapshotTypeOK ==
    /\ tracer \in {"start", "walk", "stuck", "done", "failed"}
    /\ traceOff \in Nat /\ is64bit \in BOOLEAN /\ warn \in BOOLEAN
    /\ \A n \in DOMAIN traceLines : traceLines[n].item \in 0 .. Len(inTrace) /\ traceLines[n].frames \in Nat

Printable(k) == inTrace[k].kind \notin {"other", "mem"}
ToldLines == {n \in DOMAIN traceLines : traceLines[n].item # 0}
ToldItems == {traceLines[n].item : n \in ToldLines}

\* Items are told in their order and each once.  From a kernel whose frames have
\* 16 bytes none is passed over, up to the first that stops the walk, and the
\* frames of a thread are all its own: the width follows the tasks, and the
\* search behind one item ends at the next, with one warning.
TraceIsTold ==
    /\ \A m, n \in ToldLines : m < n => traceLines[m].item < traceLines[n].item
    /\ trace.kframe = 16 =>
         /\ \A n \in ToldLines :
              LET k == traceLines[n].item IN traceLines[n].frames = ItemSize(k) - StructSize(inTrace[k].kind)
         /\ ToldItems = {k \in DOMAIN inTrace : Printable(k) /\ tracer # "start" /\ ItemOffsets[k] < traceOff}
         /\ \A n \in DOMAIN traceLines : traceLines[n].item = 0 /\ n > 1 => traceLines[n - 1].item # 0
         /\ tracer = "done" => traceOff = traceEnd
=============================================================================
