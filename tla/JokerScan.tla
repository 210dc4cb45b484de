------------------------------- MODULE JokerScan -------------------------------
(***************************************************************************)
(* The main program of joker (src/src/joker.c): which tables its arguments *)
(* ask for, what kernel it has been given, and where the table of system   *)
(* calls is, which no symbol tells: it is looked for by what its first     *)
(* entries look like, from the beginning to the end of the file, and in    *)
(* 64-bit kernels in the section of constants.                             *)
(***************************************************************************)
EXTENDS JokerTables

CONSTANTS
    CommandLines,   \* sequences of options
    Kernels,        \* the files that may be given
    MaxSyscalls,    \* how many system calls there are taken to be, by class
    NoAddress,      \* what is read where the table is not, or what was never set
    VectorAddress   \* the address of the exception vector

Options == {"-k", "-K", "-S", "-a", "-m", "-s", "-j", "-v"}

\* Something that the scan recognizes.  at: a place, where the entry 0 of a table
\* of system calls would be if it is taken for one.
Signs == {"version", "arm vector", "before 8", "from 8"}
Mark == [sign : Signs, at : Nat]

\* version: the first number of LC_SOURCE_VERSION, 0 if there is none.  large: more
\* than 2000000 bytes.  constants: whether there is a section of them, and
\* signatures: where in it entry 0 would be by what looks like entry 3.
\* table and calls: where the table really is, behind the header that the file
\* begins with, and the addresses in it.
Kernel == [large : BOOLEAN, is64 : BOOLEAN, version : Nat, marks : Seq(Mark),
           constants : BOOLEAN, signatures : SUBSET Nat, table : Nat \ {0}, calls : Seq(Nat)]

Classes == {"older", "24xx", "27xx", "32xx", "37xx"}

ASSUME ScanAssumption ==
    /\ \A c \in CommandLines : c \in Seq(Options)
    /\ \A k \in Kernels :
         /\ k.large \in BOOLEAN /\ k.is64 \in BOOLEAN /\ k.constants \in BOOLEAN
         /\ k.version \in Nat /\ k.marks \in Seq(Mark) /\ k.signatures \subseteq Nat
         /\ k.table \in Nat \ {0} /\ k.calls \in Seq(Nat) /\ Len(k.calls) > 38
    /\ MaxSyscalls \in [Classes -> Nat]
    /\ NoAddress \notin Nat /\ VectorAddress \notin Nat

VARIABLES
    arguments, kernel,
    scanner,        \* "options", "scan", "constants", "tables"; or how it ended
    markAt,         \* i, mark by mark
    xnuSig,         \* whether the version was met
    sysent,         \* where the table is taken to be; 0: NULL
    sysentAddr,     \* what is said of it: a place, or the vector
    dumped          \* the tables shown, the system calls with their addresses

scanVars == <<arguments, kernel, scanner, markAt, xnuSig, sysent, sysentAddr, dumped>>

ScanInit ==
    /\ arguments \in CommandLines /\ kernel \in Kernels
    /\ scanner = "options" /\ markAt = 1
    /\ xnuSig = FALSE /\ sysent = 0 /\ sysentAddr = NoAddress
    /\ dumped = {}

-----------------------------------------------------------------------------
(* The arguments                                                           *)

\* -k and -K turn system calls and Mach tables off again.
Asks(option, asked) ==
    CASE option = "-k" -> (asked \ {"unix", "mach"}) \cup {"kexts"}
      [] option = "-K" -> (asked \ {"unix", "mach"}) \cup {"kextract"}
      [] option = "-S" -> asked \cup {"sysctls"}
      [] option = "-a" -> asked \cup {"sysctls", "kexts", "unix", "mach"}
      [] option = "-m" -> asked \cup {"mach"}
      [] option = "-s" -> asked \cup {"unix"}
      [] OTHER -> asked
Requested ==
    LET upto[n \in 0 .. Len(arguments)] == IF n = 0 THEN {} ELSE Asks(arguments[n], upto[n - 1])
    IN  upto[Len(arguments)]

\* -v counts as the first argument only.
showVersion == arguments # <<>> /\ Head(arguments) = "-v"

\* What the version makes of a kernel.
Class ==
    LET v == kernel.version IN
    CASE ~kernel.large \/ v < 2423 -> "older"
      [] OTHER -> CASE v >= 3705 -> "37xx" [] v >= 3216 -> "32xx" [] v >= 2780 -> "27xx" [] OTHER -> "24xx"
From8 == Class \in {"27xx", "32xx", "37xx"}

OpenKernel ==
    /\ scanner = "options"
    /\ scanner' = "scan"
    /\ UNCHANGED <<arguments, kernel, markAt, xnuSig, sysent, sysentAddr, dumped>>

-----------------------------------------------------------------------------
(* The scan                                                                *)

mark == kernel.marks[markAt]
Scanning == scanner = "scan" /\ kernel.large /\ markAt <= Len(kernel.marks)

\* "/xnu-", the first time: with -v, that is all.
ScanVersion ==
    /\ Scanning /\ mark.sign = "version"
    /\ xnuSig' = TRUE
    /\ scanner' = IF ~xnuSig /\ showVersion THEN "version" ELSE scanner
    /\ markAt' = markAt + 1
    /\ UNCHANGED <<arguments, kernel, sysent, sysentAddr, dumped>>

\* ARMExcVector leaves its address where that of the system calls is kept.
ScanVector ==
    /\ Scanning /\ mark.sign = "arm vector"
    /\ sysentAddr' = VectorAddress
    /\ markAt' = markAt + 1
    /\ UNCHANGED <<arguments, kernel, scanner, xnuSig, sysent, dumped>>

\* Each of its kind replaces the one before.
ScanSysent ==
    /\ Scanning /\ mark.sign \in {"before 8", "from 8"}
    /\ IF From8 <=> mark.sign = "from 8"
       THEN sysent' = mark.at /\ sysentAddr' = (IF From8 THEN mark.at ELSE sysentAddr)
       ELSE UNCHANGED <<sysent, sysentAddr>>
    /\ markAt' = markAt + 1
    /\ UNCHANGED <<arguments, kernel, scanner, xnuSig, dumped>>

ScanEnd ==
    /\ scanner = "scan" /\ ~Scanning
    /\ scanner' = IF sysent = 0 /\ kernel.is64 THEN "constants" ELSE "tables"
    /\ UNCHANGED <<arguments, kernel, markAt, xnuSig, sysent, sysentAddr, dumped>>

Highest(S) == CHOOSE x \in S : \A y \in S : x >= y
Earliest(S) == CHOOSE x \in S : \A y \in S : x <= y

\* Mutant: every entry that looks alike is taken, the last at last.
ScanConstantsLast ==
    /\ scanner = "constants"
    /\ IF ~kernel.constants
       THEN scanner' = "return" /\ UNCHANGED <<sysent, sysentAddr>>
       ELSE /\ scanner' = "tables"
            /\ IF kernel.signatures = {} THEN UNCHANGED <<sysent, sysentAddr>>
               ELSE sysent' = Highest(kernel.signatures) /\ sysentAddr' = sysent'
    /\ UNCHANGED <<arguments, kernel, markAt, xnuSig, dumped>>

\* Without such a section main returns; else the first entry that looks like the
\* entry 3 is it, though the entry 4 looks the same.
ScanConstants ==
    /\ scanner = "constants"
    /\ IF ~kernel.constants
       THEN scanner' = "return" /\ UNCHANGED <<sysent, sysentAddr>>
       ELSE /\ scanner' = "tables"
            /\ IF kernel.signatures = {} THEN UNCHANGED <<sysent, sysentAddr>>
               ELSE sysent' = Earliest(kernel.signatures) /\ sysentAddr' = sysent'
    /\ UNCHANGED <<arguments, kernel, markAt, xnuSig, dumped>>

-----------------------------------------------------------------------------
(* The tables                                                              *)

\* The address in the n-th entry.  The sizes of entries are those of the class.
CallAt(n) == IF sysent = kernel.table /\ n < Len(kernel.calls) THEN kernel.calls[n + 1] ELSE NoAddress

\* enosys and old, of which nothing is printed: the entries 0 and 8; 8 and 38; or,
\* before, entry 4, or in class 24xx something that is no address.
Suppressed ==
    CASE kernel.is64 -> {CallAt(0), CallAt(8)}
      [] ~kernel.is64 /\ From8 -> {CallAt(8), CallAt(38)}
      [] OTHER -> IF Class = "24xx" THEN {} ELSE {CallAt(4)}

SyscallLines ==
    {<<"unix", n, CallAt(n)>> : n \in {m \in 0 .. MaxSyscalls[Class] - 1 : CallAt(m) \notin Suppressed}}

KextMethod == IF Class = "37xx" THEN 1 ELSE 2

DumpTables ==
    /\ scanner = "tables"
    /\ dumped' = {<<what, 0, 0>> : what \in Requested \cap {"mach", "sysctls"}}
                   \cup (IF "unix" \in Requested /\ sysent # 0
                         THEN SyscallLines \cup {<<"address", 0, sysentAddr>>} ELSE {})
                   \cup {<<what, 0, KextMethod>> : what \in Requested \cap {"kexts", "kextract"}}
    /\ scanner' = "done"
    /\ UNCHANGED <<arguments, kernel, markAt, xnuSig, sysent, sysentAddr>>

ScanNext ==
    \/ OpenKernel
    \/ ScanVersion \/ ScanVector \/ ScanSysent \/ ScanEnd \/ ScanConstants
    \/ DumpTables

ScanEnded == scanner \in {"done", "version", "return"}

-----------------------------------------------------------------------------
(* Properties                                                              *)

ScanTypeOK ==
    /\ scanner \in {"options", "scan", "constants", "tables", "done", "version", "return"}
    /\ markAt \in 1 .. Len(kernel.marks) + 1 /\ xnuSig \in BOOLEAN /\ sysent \in Nat
    /\ sysentAddr \in Nat \cup {NoAddress, VectorAddress}

\* The marks that are taken for the table.
TakenFor ==
    {n \in DOMAIN kernel.marks : kernel.large /\ kernel.marks[n].sign = (IF From8 THEN "from 8" ELSE "before 8")}

\* Marks and signatures that are not the table are before it where the last counts,
\* and behind it where the first does.
Findable ==
    IF TakenFor # {} THEN kernel.marks[Highest(TakenFor)].at = kernel.table
    ELSE kernel.is64 /\ kernel.signatures # {} /\ Earliest(kernel.signatures) = kernel.table

\* Only a mark of iOS 8 and later tells the address, which a vector behind it replaces;
\* the constants tell it too.  Of a table found by a mark of older kernels the address
\* is what happened to be in the variable, or that of a vector.
AddressKnown ==
    TakenFor # {} =>
        /\ From8
        /\ \A n \in DOMAIN kernel.marks :
             n > Highest(TakenFor) => kernel.marks[n].sign # "arm vector"

ToSuppress == {kernel.calls[9]} \cup (IF kernel.is64 THEN {kernel.calls[1]} ELSE {kernel.calls[39]})

\* Every system call is printed with the address that is the kernel's own for that
\* number, and of 64-bit kernels, and others from iOS 8 on, all but enosys and old
\* are, unless the table is longer than it is taken to be: with look-alikes before
\* it in the file, or behind it in the constants.  In kernels from iOS 8 on without a
\* vector behind the table, and in those where it is found in the constants, the
\* address said to be that of the table is; for others this says nothing of it.
SyscallsAreReal ==
    scanner = "done" /\ "unix" \in Requested /\ Findable =>
        /\ \A line \in dumped :
             line[1] = "unix" /\ line[3] # NoAddress => line[3] = kernel.calls[line[2] + 1]
        /\ kernel.is64 \/ From8 =>
             \A n \in 0 .. MaxSyscalls[Class] - 1 :
               n < Len(kernel.calls) => ((<<"unix", n, kernel.calls[n + 1]>> \in dumped) <=> kernel.calls[n + 1] \notin ToSuppress)
        /\ AddressKnown =>
             {line \in dumped : line[1] = "address"} = {<<"address", 0, kernel.table>>}

\* The tables that joker prints are the kernel's: sysctls have their full names, and
\* system calls their own addresses (doSysctls and main of joker).
TablesAreExact == SysctlNamesAreFull /\ SyscallsAreReal
=============================================================================
