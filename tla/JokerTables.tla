----------------------------- MODULE JokerTables ------------------------------
(***************************************************************************)
(* The rest of joker (src/src/joker.c): main opens a kernel, which may be  *)
(* compressed, and prints its tables: Mach traps, MIG subsystems, sysctls; *)
(* system calls are in JokerScan.                                          *)
(*                                                                         *)
(* sysctls are printed with the names of their parents, which are read off *)
(* the nodes of the same section in passes before.                         *)
(***************************************************************************)
EXTENDS Integers, Sequences

CONSTANTS
    MaxNamespaces,  \* room for names of nodes: 256
    Files           \* the files that may be given

\* magic: what main's switch makes of the first word.  compressed: whether
\* "complzss" is found, and a kernel behind it; inner is what it decompresses to.
Magic == {"macho", "img3", "fat", "other"}
Layer == [magic : Magic, compressed : {"no", "nothing", "kernel"}]

\* node: no handler, names the children of arg1.  outside: beyond the section.
\* kperf: "kperf" is in its own name.
Oid == [parent : Nat, arg1 : Nat, name : Nat, node : BOOLEAN, outside : BOOLEAN,
        kperf : BOOLEAN]

\* nums: the numbers joker has names for, in order, of which the last ends the
\* table; max: its own, or the kernel's.
Subsystem == [nums : Seq(Nat), max : Nat, kernelMax : Nat]

File == [layers : Seq(Layer), traps : Seq(Nat), subsystems : Seq(Subsystem),
         oids : Seq(Oid)]

ASSUME TablesAssumption ==
    /\ MaxNamespaces \in Nat
    /\ Files \subseteq File
    /\ \A f \in Files : /\ f.layers # <<>> /\ f.traps # <<>>
                        /\ \A i \in DOMAIN f.subsystems : LET sub == f.subsystems[i] IN
                              sub.nums # <<>> /\ sub.max <= sub.nums[Len(sub.nums)]

VARIABLES
    joker,          \* what main is doing, or how it ended
    mmapped,        \* the file, its outer layers removed
    is64,           \* how often a 64-bit header was met
    pass, oid,      \* doSysctls: which pass, and where it is
    namespaces,     \* sysctlNamespaces
    sysctls,        \* the sysctls printed, with their names
    tables          \* the lines printed of the other tables

tablesVars == <<joker, mmapped, is64, pass, oid, namespaces, sysctls, tables>>
sysctlVars == <<pass, oid, namespaces, sysctls>>

TablesInit ==
    /\ mmapped \in Files
    /\ joker = "open"
    /\ is64 = 0
    /\ pass = 0 /\ oid = Len(mmapped.oids)
    /\ namespaces = <<>> /\ sysctls = <<>>
    /\ tables = {}

-----------------------------------------------------------------------------
(* main                                                                    *)

layer == Head(mmapped.layers)

OpenMachO ==
    /\ joker = "open" /\ layer.magic = "macho"
    /\ is64' = is64 + 1
    /\ joker' = "tables"
    /\ UNCHANGED <<mmapped, sysctlVars, tables>>

OpenOther ==
    /\ joker = "open" /\ layer.magic \in {"img3", "fat"}
    /\ joker' = "refused"
    /\ UNCHANGED <<mmapped, is64, sysctlVars, tables>>

\* tryLZSS, and again from the beginning with what it decompressed.
Decompressed ==
    /\ joker = "open" /\ layer.magic = "other"
    /\ IF layer.compressed = "kernel" /\ Len(mmapped.layers) > 1
       THEN mmapped' = [mmapped EXCEPT !.layers = Tail(@)] /\ UNCHANGED joker
       ELSE joker' = "refused" /\ UNCHANGED mmapped
    /\ UNCHANGED <<is64, sysctlVars, tables>>

-----------------------------------------------------------------------------
(* The other tables                                                        *)

\* dumpMachTraps: the first trap is kern_invalid, and so are its likes.
MachTraps ==
    LET t == mmapped.traps IN
    {<<"trap", i - 1, t[i]>> : i \in {j \in DOMAIN t : t[j] # 0 /\ t[j] # t[1]}}

\* dumpMIGSubsystem: routines are passed over by the gaps between the numbers.
RoutineAt(nums) ==
    LET at[f \in DOMAIN nums] == IF f = 1 THEN 0 ELSE at[f - 1] + (nums[f] - nums[f - 1])
    IN  at

MIGRoutines(sub) ==
    LET last == IF sub.max > sub.kernelMax THEN sub.kernelMax ELSE sub.max IN
    {<<"routine", sub.nums[f], RoutineAt(sub.nums)[f]>> :
        f \in {g \in DOMAIN sub.nums : \A h \in 1 .. g : sub.nums[h] < last}}

PrintTables ==
    /\ joker = "tables"
    /\ tables' = MachTraps
                   \cup UNION {MIGRoutines(mmapped.subsystems[i]) : i \in DOMAIN mmapped.subsystems}
    /\ joker' = "sysctls"
    /\ UNCHANGED <<mmapped, is64, sysctlVars>>

-----------------------------------------------------------------------------
(* doSysctls                                                               *)

Numsysctls == Len(mmapped.oids)
this == mmapped.oids[oid]

Named(addr) == {k \in DOMAIN namespaces : namespaces[k].addr = addr}
Lowest(S) == CHOOSE x \in S : \A y \in S : x <= y

\* sysctlName: behind the name of the parent, if that is known by now.
sysctlName(o) ==
    IF Named(o.parent) = {} THEN <<o.name>>
    ELSE Append(namespaces[Lowest(Named(o.parent))].name, o.name)

addSysctlNamespace(addr, name) ==
    IF Len(namespaces) = MaxNamespaces THEN joker' = "overrun" /\ UNCHANGED namespaces
    ELSE namespaces' = Append(namespaces, [addr |-> addr, name |-> name]) /\ UNCHANGED joker

\* Mutant: the nodes are read in the order of the section.
PassForwards ==
    LET o == mmapped.oids[Numsysctls + 1 - oid] IN
    /\ joker = "sysctls" /\ pass < 2 /\ oid > 0
    /\ IF o.outside \/ ~o.node \/ pass = 0 THEN UNCHANGED <<namespaces, joker>>
       ELSE addSysctlNamespace(o.arg1, sysctlName(o))
    /\ oid' = oid - 1
    /\ UNCHANGED <<mmapped, is64, pass, sysctls, tables>>

\* "get namespaces - works better in reverse!": the first time only for what
\* kperf's parent is, which needs no name; the second time for all nodes.
PassNode ==
    /\ joker = "sysctls" /\ pass < 2 /\ oid > 0
    /\ IF this.outside \/ ~this.node \/ (pass = 0 /\ ~this.kperf)
       THEN UNCHANGED <<namespaces, joker>>
       ELSE IF pass = 0 THEN addSysctlNamespace(this.parent, <<>>)
       ELSE addSysctlNamespace(this.arg1, sysctlName(this))
    /\ oid' = oid - 1
    /\ UNCHANGED <<mmapped, is64, pass, sysctls, tables>>

PassEnd ==
    /\ joker = "sysctls" /\ pass < 2 /\ oid = 0
    /\ pass' = pass + 1
    /\ oid' = IF pass = 0 THEN Numsysctls ELSE 1
    /\ UNCHANGED <<joker, mmapped, is64, namespaces, sysctls, tables>>

PrintSysctl ==
    /\ joker = "sysctls" /\ pass = 2 /\ oid <= Numsysctls
    /\ sysctls' = IF this.outside \/ this.node THEN sysctls
                  ELSE Append(sysctls, [oid |-> oid, name |-> sysctlName(this)])
    /\ oid' = oid + 1
    /\ UNCHANGED <<joker, mmapped, is64, pass, namespaces, tables>>

SysctlsEnd ==
    /\ joker = "sysctls" /\ pass = 2 /\ oid > Numsysctls
    /\ joker' = "done"
    /\ UNCHANGED <<mmapped, is64, sysctlVars, tables>>

TablesNext ==
    \/ OpenMachO \/ OpenOther \/ Decompressed
    \/ PrintTables
    \/ PassNode \/ PassEnd \/ PrintSysctl \/ SysctlsEnd

-----------------------------------------------------------------------------
(* Properties                                                              *)

TablesTypeOK ==
    /\ joker \in {"idle", "open", "tables", "sysctls", "done", "refused", "overrun"}
    /\ mmapped.layers # <<>> /\ is64 \in {0, 1}
    /\ joker \in {"tables", "sysctls", "done"} => is64 = 1 /\ layer.magic = "macho"
    /\ pass \in 0 .. 2 /\ oid \in 0 .. Numsysctls + 1
    /\ Len(namespaces) <= MaxNamespaces
    /\ \A k \in DOMAIN sysctls : sysctls[k].oid \in DOMAIN mmapped.oids

\* The node whose children an oid is of, 0 for the children of the root.
NodesAt(addr) == {k \in DOMAIN mmapped.oids : mmapped.oids[k].node /\ mmapped.oids[k].arg1 = addr}
ParentOf(o) == IF NodesAt(o.parent) = {} THEN 0 ELSE Lowest(NodesAt(o.parent))

\* Each node comes behind its sub-nodes, has an address of its own, and is in
\* the section; kperf is a child of the root.
WellLaidOut ==
    \A k \in DOMAIN mmapped.oids :
        LET o == mmapped.oids[k] IN
        /\ o.node => NodesAt(o.arg1) = {k} /\ ~o.outside /\ ParentOf(o) \in {0} \cup (k + 1 .. Numsysctls)
        /\ o.kperf => ParentOf(o) = 0

\* From a child of the root down to an oid.
Paths(k) ==
    {path \in UNION {[1 .. n -> DOMAIN mmapped.oids] : n \in 1 .. Numsysctls + 1} :
        /\ path[Len(path)] = k /\ ParentOf(mmapped.oids[path[1]]) = 0
        /\ \A n \in 1 .. Len(path) - 1 : path[n] = ParentOf(mmapped.oids[path[n + 1]])}
FullNames(k) == {[n \in DOMAIN path |-> mmapped.oids[path[n]].name] : path \in Paths(k)}

\* Every sysctl is printed once, in the order of the section, and with all the names
\* above its own, if the section is laid out as "works better in reverse!" (line
\* 2867) has it: a chain of nodes is resolved in one pass.
SysctlNamesAreFull ==
    WellLaidOut =>
        /\ \A k \in DOMAIN sysctls : sysctls[k].name \in FullNames(sysctls[k].oid)
        /\ \A k, later \in DOMAIN sysctls : k < later => sysctls[k].oid < sysctls[later].oid
        /\ joker = "done" =>
             {sysctls[k].oid : k \in DOMAIN sysctls}
               = {k \in DOMAIN mmapped.oids : ~mmapped.oids[k].node /\ ~mmapped.oids[k].outside}
=============================================================================
