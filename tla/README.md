# newosxbook-tools: models, checks and proofs

The repository is a collection of some forty independent command-line tools for
macOS and iOS, each one C (or Objective-C) file, that read kernel, firmware or
archive data structures and print them.  There are no tests; what a tool
promises is said in its header comment, its ChangeLog and its usage text.  This
directory holds TLA+ models of the tools that have state worth reasoning about,
TLC configurations that check them on small instances, and TLAPS proofs.

## 1. Inventory

| Tool | State it keeps | Operations | What is hard | What makes it correct |
|---|---|---|---|---|
| `lsock.c` | a table of rows per kernel source reference, counts, filters, what has been subscribed to | subscribe (`addAll`), refresh a description, handle a message, query, print, keys | the kernel sends notifications between any two steps; answers are read by whoever reads next; message handling nests; select timeouts | every wait is answered, rows match live sockets, `once` shows everything, the screen converges |
| `ota.c` | a position in one or several mapped archives, a `pbzx` output buffer, two positions in a diff | walk entries, resynchronise on damage, decode `YAA1` and `pbzx`, extract, diff | damaged and truncated input, one position variable shared by several files, stale pointers into two archives | no intact entry is skipped or listed twice, walks end, buffer accounting, the diff reports what differs |
| `lzss.c` | ring buffer, 256 binary search trees in three arrays | insert, delete, compress, decompress | tree surgery on a ring that overwrites itself; output limits | trees stay consistent with the window; decompression inverts compression |
| `filemon.c` | event buffer, process-name cache, filters, link and stop options | parse arguments, read events, filter, auto-link, auto-stop | pids are reused, its own link(2) produces events, events are lost | reports name the right process, the tool never acts on itself |
| `netbottom.c` | connection table and one slot per process, filled by callbacks | description, counts and removal callbacks, print | callbacks out of order, values of an earlier socket in a reused slot | a row's state is its own |
| `jurple_console.c` | attached device, relay buffer | device attached/detached callbacks, relay loop | the callback blocks the run loop; partial reads | what is printed is what was received |
| `joker.c` | mapped kernel cache, kext list, table positions | LZSS fallback, kext extraction, symbolication, sysctl, Mach trap and MIG walks | pointers into untrusted tables, several passes over one file | kexts have their own names and addresses, ranges are those of kexts, files are as their headers say |
| `stackshot.c` | container nesting | one call, walk items | nested containers, padding | each item is told once, as deep as it is |
| `5-2-stack-snapshot.c` | position, width of the last task, whether it has warned | one call, walk tasks and threads | no index: sizes follow from earlier items, unknown ones are looked through | each item once, frames are those of their thread |
| `smut.c` | position in the SMBIOS table | walk structures, find a string | sizes read from the data | the walk ends at the terminator |
| `ojtool.c` | one saved line, symbol tables | filter disassembly lines with one line of delay | the last line, lines without an address | every line is passed on once, in order |
| `12-1-vmmap.c` | the region being merged | walk and coalesce regions | merge condition, end of the address space | printed regions cover what the kernel reported |
| `lsdtrip.m` | the buffer of the recursive dumper; what a command has shown | command dispatch, dump applications, URLs and dictionaries, notifications | recursion over a shared buffer, answers that are missing | what is asked is shown, each value under its own key |
| `17-1-lsock.c` | an older socket table, what of it is to be printed, filters | handle a message, ask for a description, print, keys | as `lsock.c`; nothing is waited for | rows match live sockets and are followed, what is wanted is printed |
| `17-25-bpf.c` | packet buffer and position | find a device, install a filter program, walk a buffer | offsets counted by hand, several packets per read, alignment | the packets that match are printed, each once |
| `6-bonus.c` (imagine) | type of the image, recursion over nodes | walk tags, dump a device tree | sizes from data, a node's place is what its siblings' calls return | each node once, with its own name and properties |
| `dtize.c` | position in a file, nesting | recursive dump of nodes and properties | sizes from data, truncation | each property once, as deep as its node |
| `seedutil.m` | none | command dispatch | - | commands do what they say |
| `mistool.c`, `kmem.c`, `sbtool.c`, `sandbox_exec.c`, `18-1-JKextstat.c` | none | one call and its printing | - | - |
| book examples (`19-3-iter.c`, `19-4-iter.c`, `utun.c`, `mslist.c`, `bat.c`, `mach_task_for_*.c`, `p.c`, `msg.c`, `lstacks.c`, `4-5-interpose.c`, `power.c`, `csops.c`, `ktrace_example.c`, `gcd.c`, `dyld_example.c`) | none | one system interface each | - | - |
| `ioreg.c` | - | Apple's ioreg, third party | - | - |
| `amfidebilitate.c`, `inject.c`, `platformize.c`, `shaihulud.c` | - | change other processes | - | out of the scope of this development |

The tools do not call one another.  Each interacts with the outside: the kernel
(`lsock`, `filemon`, `netbottom`, `stackshot`, `vmmap`), a device
(`jurple_console`), other command-line tools (`ojtool`) or files (`ota`,
`joker`, `lzss`, which `joker` contains a copy of, `smut`, `dtize`).

`PROJECT.json` lists every component with its status, every hazard with the line
where it bites and the properties that would catch it, and for each definition
the source lines it stands for.

## 2. Plan

The most intricate behaviour comes first; each step ends with its runs and, where
the tool has an invariant worth it, a proof module.

1. `lsock`: `NstatKernel` (external), `Lsock`, `LsockProofs`.  **Done.**
2. `ota`: the walk (`OtaArchive`) and what it promises (`OtaListing`), the `pbzx`
   buffer (`OtaPbzx`), the diff (`OtaDiff`), extraction (`OtaExtract`), and `OtaProofs`.
   **Done.**
3. `lzss` (`Lzss`); the monitors `filemon`, `netbottom`, `jurple_console`.  **Done.**
4. The walks over structures that somebody else laid out: `joker` (`JokerKexts`,
   `JokerKextract`, `JokerTables`).  **Done**, but for its policies.
5. The other walks: `ojtool` (`Ojtool`), `smut` (`Smut`), `vmmap` (`Vmmap`),
   `stackshot` (`Stackshot`), `lsdtrip` (`Lsdtrip`), `dtize` (`Dtize`).  **Done.**
6. What was left of the tools that keep state: the older `lsock` (`OldLsock`, against the
   same kernel), `bpf` (`Bpf`), `5-2-stack-snapshot` (`StackSnapshot`), `imagine`
   (`Imagine`), the main program of `joker` (`JokerScan`).  **Done**; left are the
   policies of `joker`.
7. The proofs, in the order of what the tools promise: the rows of both `lsock`
   (`NstatProofs`, `LsockProofs`, `OldLsockProofs`), the relay, the lines, the
   packets and the events (`MonitorsProofs`), the refinement `OtaArchive` => `OtaListing`,
   the buffer, extraction and the diff (`OtaProofs`), the walks of `ojtool`, `vmmap`,
   `stackshot`, `5-2-stack-snapshot`, `dtize`, `imagine` and `smut` (`WalksProofs`), the
   kexts and the tables of `joker` and the trees of `lzss` (`JokerProofs`); the types of what `ota`
   keeps and of the monitors (`OtaFiles`, `Monitors`).  **Done.**
8. What could be proved next: the types of the walks.  That the match of `Lzss` is the longest would also need the order of the strings
   in a tree.

## 3. The models and the code

A tool is a sequential program; what happens between two of its steps is done by
the kernel, a framework, a device or another process, modelled as *environment*
actions of the same module (or of `NstatKernel`).  A step of a model runs from
one place where the tool can observe the outside (a `read`, a `select`, a
callback, an `alloca` that may fail) or loop, to the next.

### lsock

| Model | Code |
|---|---|
| `toKernel`, `fromKernel` | the two directions of the control socket, FIFO datagrams |
| `Environment`, `Kernel` | sockets open, change state and close; the kernel handles one request, or reports a change (external) |
| `AddAll`, `AddAllSuccess`, `RefreshNext`, `RefreshDone` | `addAll`: the request, its wait for a success, its second loop over the table |
| `write`, `Return`, `nest` | `refreshSrc`'s one request and one message, at the top level and inside message handling |
| `SrcAdded`, `SrcRemoved`, `FreeLiteral`, `SrcCounts`, `SrcDesc`, `SrcDescClosed` | the cases of `process_nstat_msg` |
| `MainSuccess`, `Timeout`, `GotAll`, `MainTail` | `main`'s loop: `select`, `querySources`, printing, keys |

A row is `NULL`, the string literal `"reading"` or allocated text; its text is the
incarnation and the state of the socket it was described from.  `nest` is the
call stack: `print_tcp_descriptor` calls `refreshSrc` for a `CLOSED` row *before*
its row is stored.  `free` of the literal (line 749) either goes through or aborts.

### ota

`OtaArchive` does not model bytes: `at[p]` is what the code reads when it takes
offset `p` for a header.  This is enough for damaged headers, contents that look
like headers and truncation.  `pos` is the global of that name; the `YAA` walk has
its own, `yaaPos`, and yet checks the magic at the global: both are there.
Which walk a file gets depends on its first four bytes alone (955, `Marked`), so an
archive of either kind can be read as one of the other; `View` is what each kind
reads.  `AcceptEntry`, `CorruptEntry`, `ResyncFalse`, `ResyncFound` are the loop of
lines 984-1040, `Yaa*` that of 940-980.  The search for a header may find one in what
is mapped behind the archive (`Slack`, `ResyncBehind`), which ends the walk, or
leave the mapping; that and an exhausted stack are the states `outside` and `aborted`.

`OtaListing` is the abstract specification: of each file, in the order of the
command line, the intact entries are printed in order and once.  The mapping is
`files <- args, open <- Walking, printed <- listed`.

`OtaPbzx` keeps the three sizes of `doPBZX`, with a nondeterministic decoder (the
XZ library is not in the repository).  `OtaDiff` keeps the positions of
`doDiff` and the pointer it forgets to move, `OtaExtract` the file system that
`extractFile` changes.  What is extracted depends on the kind of archive
(`Extracted`): a legacy walk passes over empty entries (1060), a YAA walk over
none, and it makes links itself (848-854, `ExtractYaaLink`), whatever name is asked for and
without the directories above them.  Links that are there or were unpacked are followed
as the system calls follow them (`Resolve`, and `Slot` for `mkdir` and `symlink`,
which do not follow the last one), two hops far.  `OtaFiles` joins the three, and `MCOtaFiles` runs one of them in
each behaviour.

### lzss

`Lzss` is `compress_lzss` with its ring buffer and its trees, an iteration of a
loop per step; `insert_node` and `delete_node` are actions on the three arrays of
the code, with the code's indices.  Decompression is an operator; the checksum is
not modelled.

### joker

`JokerKexts` is `doKexts`.  Method 1 looks for keys in `__PRELINK_INFO`, which is a
sequence of tokens here, each with the kext it belongs to, so that a key of the
wrong kext shows; method 2 steps through the pages of `__PRELINK_TEXT`.
`JokerKextract` puts a kext together from its segments and names its stubs; a unit
of the file is the place in the cache it was copied from, and of the descriptors
it is kept whether the lowest is free, as the code takes 0 for "not opened".
`JokerTables` is `main`'s opening of a file, compressed or not, and the tables of
traps, routines and sysctls; the passes of `doSysctls` are taken node by node.
`JokerScan` is the rest of `main`: its options, what it makes of the version, the
scan of the file and of the section of constants for the table of system calls, and
which entries of it are shown (with `-j` they go to the companion file instead).  Place 0
of a kernel is its header, so that 0 is where no table is (`sysent` NULL).  A
kernel is the places the scan recognises (`marks`, `signatures`), the place where
the table is, and the addresses in it.  The inputs are in `MCJoker`.

### ojtool, smut, vmmap, the stack snapshots, lsdtrip, dtize, imagine

| Model | Code |
|---|---|
| `Ojtool`: `KeepLine`, `PassLine` | an iteration of `main`'s loop over otool's output, for a line that is kept (`savedLine`) and for one that is not; `Flushed` is `resolveAndFlush` and its caller |
| `Smut`: `Parse`, `getSMBString`, `StringsEnd` | `parseSMBIOS`' loop over structures, by type; where it looks for the next |
| `Vmmap`: `FirstRegion`, `Ask`, `AskFails`, `AskAgain`, `AskEnds`, `WrapAround`, `Compare`, `Tell` | `show_regions`, whose second call of `mach_vm_region` follows a new `task_for_pid`; `Change` is the other process (external) |
| `Stackshot`: `GetStackshot`, `HandleItem` | `main`, and `handle_kcdata_item` with `dump_array` for one item |
| `Lsdtrip`: an action per command, `NextApp`, `NextURL`, `keyDumper`, `Notified` | the branches of `main`, their loops, one call of `keyDumper`, the callback of `listen` |
| `StackSnapshot`: `CallSnapshot`, `DumpTask`, `DumpThread`, `DumpMemAndIo`, `MeetMem`, `SeekMagic` | `main` of `5-2-stack-snapshot.c`: one magic, or one byte that is none, per step |
| `Imagine`: `TypeTag`, `DataTag`, ..; `DumpProperty`, `PrintNode`, `DumpChild`, `ReturnNode` | `main`'s loop over tags with `doData`; `dumpTreeNode`'s loop over properties, its output, its calls of itself and its return |
| `Dtize`: `GetCounts`, `GetProperty`, `BeginChildren`, `NextChild`, `EndNode`, `AnotherNode` | `getDTNode`'s reads and loops, `main`'s loop |

In `Ojtool` an address is a number and what jtool says of it is membership in one
of the tables it fills; the text of a line is left out, as is its operand's.  In
`Smut` a table is structures at places that follow from their sizes, and a byte is
of one of its strings or a NUL (`KindAt`).  The program does not know of which: `Offset` is
all it has, and a structure is recognised where one begins only.  In `Vmmap` the five attributes compared are three, two of which are
compared with each other as in the code.  In `Stackshot` an item has a size, and
its place follows from the sizes before it; the walk computes it from the
padding.  In `Lsdtrip` a text is the name of its value, which is enough to see under
which key a value is shown; `calls` is what the calls of `keyDumper` under way have
still to do, and `buf` the buffer they share.  In `Dtize` a file is the parts of its
tree with the places they begin at; `nodes` is the call stack of `getDTNode`.
In `StackSnapshot` a trace is a sequence of items
with the number of frames behind each, and the width the kernel gives them.  In
`Imagine` a tree is in the file's order, with what the byte behind a value is
(`ZeroBehind`); `treeCalls` is the stack of `dumpTreeNode`, with what it keeps of a node.
`MCWalks` runs one of these eight, a part of `joker`, or `Lzss`, in each behaviour; the
inputs are in `MCInspect`.  It joins the properties of tools of one kind: `KextsAreExact`
is `InfoIsExact` and `RangesAreExact` of the two methods, `TablesAreExact`
`SysctlNamesAreFull` and `SyscallsAreReal`, `SnapshotsAreTold` `ItemsAreTold` and
`TraceIsTold` (in `ThreadSnapshots`), `DeviceTreesAreTold` `TreeIsTold` and `ImageTreeIsTold` (in
`DeviceTrees`); of `OtaDiff`, `DifferencesAreExact` is `ChangesAreExact` and `CutRemovalsAreExact`.
What a device tree is (`IsTree`), for `dtize` and `imagine` alike, is said in `TreeShape`.

### filemon, netbottom, jurple_console, the first lsock, bpf

`Filemon`: processes, files and the event queue are the environment; `Read`,
`ShowEvent`, `EventsDropped`, `AutoLink`, `LinkWarning`, `AutoStop` the loop of
`main`.  `filemon`'s own `link(2)` makes an event, and `kill` hits whoever has the
process id by then.  `Netbottom`: the framework queues blocks on the main queue;
each block is a step.  `Jurple`: notifications, the callback that relays in place,
and a buffer whose bytes are kept, since what is printed depends on what an
earlier message left.  `OldLsock` talks to the kernel of `NstatKernel`: `SourceAdded`,
`SourceRemoved`, `SourceDescribed` and `OtherMessage` are the cases of `main`'s switch,
`LoopTail` its keys and `print_descriptors`.  The program says in its header (BUGS, 52-53) that
"sometimes not all sockets show" and "some notifications don't make it": so a message to the
client may get lost (`MessageLost`), and a request as well, since no `write` is checked
(`refreshSrc`, `SetupSocket`); `missed` remembers of which references.  In curses mode the
screen is a line for each row of the terminal (`lines17`): `mvwaddstr` writes a row over
what is there and clears nothing behind it (`Drawn`), so that the end of a longer row, or of the
dashes drawn for a source that goes (598, `Dashed`), stays; only `clrtobot` behind the last
row and, after a key, `erase` clear.  `extent` is how far a line has text.  `Bpf` has the filter program as the code
builds it (`insns`), the machine that runs it instruction by instruction (`Exec`,
`Accepts`) and the two buffers of a device (external), and the steps of `main`; the IP
headers of packets are well formed (20 to 60 bytes); `WalkPacket` is one turn of the loop in
`read_packets`.  `Monitors` joins the five, and `MCMonitors` runs one of them in each behaviour.

## 4. Runs

| Run | Question | Bounds |
|---|---|---|
| `Lsock_udp` | do rows, `once` and the full screen follow sources that come and go? | 2 UDP references, one used twice (`MaxInc`), counts 0..`MaxRx` = 1, a kernel that answers within 0.1 s (`PromptKernel`) |
| `Lsock_full` | the same safety with nested refreshes, the T key, slow answers and failed subscriptions | 1 TCP and 1 UDP reference, `StackLimit` = 2 nested calls |
| `Lsock_once_hang`, `Lsock_nc` | two claims of the usage text that fail | `MaxChange` = 1 state change; 2 UDP references |
| `OtaArchive_walk` | is every intact entry listed, once, in order, and does the walk end? | up to 3 segments, `Header` = 2 units, `Slack` = 1, damage and look-alikes anywhere; two files |
| `OtaArchive_yaa`, `OtaArchive_iterate` | two claims about `YAA` that fail | up to 3 segments; two files |
| `OtaFiles_all` | buffer, diff, extraction | `OUT_BUFSIZE` = 4, `IntMax` = 50 (one growth of 40 fits), `SkipBytes` = 10, 3 names, archives of both kinds with 2 entries to unpack (3 where one directory is in another) at 5 paths, over 5 states of what was there |
| `OtaFiles_removed` | a claim about the diff that fails | as above |
| `Walks_all` | `lzss`: are the trees sound, the match longest, the code decodable? `joker`: are kexts listed with what is theirs, written as their headers say, stubs and sysctls fully named, system calls shown with their addresses? The others: does every line, structure, region, item, value, node and property come out once, in order and with what is its own? | `N` = 16, `F` = 4, three characters; 3 kexts in 4 pages of 2 units, `Enough` = 2; up to 3 segments in pages of 4 units, 3 kexts a batch, 4 stubs; 4 sysctls, `MaxNamespaces` = 4; 2 marks, 41 system calls; listings of 4 lines; tables of 3 structures of up to 3 strings; 3 regions in `Top` = 8 units, `HighAddress` = 6, `MaxLines` = 3 (1000 in the code), `MaxChanges` = 1; snapshots and traces of 4 items; dictionaries of 3 values, two deep; trees of 4 nodes, three deep, `ValueLen` = 8, `Mask` = 16; images of 4 tags, trees of 4 nodes, `MaxProperties` = 2 (20 in the code) |
| `Monitors_all` | does what is shown stay true to processes, sockets, messages and packets that come and go? | `Depth` = 2 events queued, `MaxDeeds` = 3, 3 process ids, `BUFSIZE` = 4 with `Cleared` = 2, `MaxMoves` = 1, `MaxMessages` = 3; 1 TCP and 1 UDP reference with rows 2 and 1 wide (`Widths17`) on `Height` = 2 lines, `MaxChange` = 1, `Lossy` = one of the two; `MaxFrames` = 4 packets of 9 kinds in buffers of `BufLen` = 130, `BpfDevices` = 2 (255 in the code) |
| `Monitors_relink` | a warning that is not true | `MaxRuns` = 2 |

Why the bounds are enough.  *lsock*: a ghost row or a lost description needs one
reference that is closed and used again while one of its messages is under way,
which `MaxInc` = 2 gives; a wrong reader needs one other reference; deeper nesting
repeats what two levels do (a third reader of one message).  *ota*: each iteration
sees one entry, the next candidate and the end of the archive, so that three
segments give every pair of neighbours and an end; the widths 0-2 put names,
contents and false headers before, on and behind a header's boundary.  *pbzx*: 16
full chunks force the growth and then the limit of `int`.  *lzss*: `2F < N` as in
the code; texts of 18 bytes write over the beginning of the ring, and the words of
`Sentences` begin alike so that nodes with two children are deleted.  *joker*: with
three kexts there is one before, between and behind, and dictionaries may lack
or swap keys; segments lie below, in, and at the end of `__PRELINK_DATA`, end
before, on and behind a page; a kext whose stubs fail is followed by one that
finds descriptor 0 free; nodes nest two deep in any order.  *ojtool*: two kept
lines in a row between a label and a line that is not kept take four lines.
*smut*: strings of one to three characters, and none, before each other.  *vmmap*:
with one change of the regions a run may shrink, grow or vanish under the walk;
three lines reach the limit of lines.  *stackshot*: sizes on and off the multiple
of 16, two containers nested.  *lsdtrip*: two elements behind each other with a
text, a dictionary or nothing between.  *dtize*: lengths on and off a multiple of
four, with and without flags, above the limit; a child with a child before a
second one.  *filemon*:
dropping takes `Depth` + 1 events between two reads; a process id is reused with
two deeds.  *the first lsock*: as `lsock`, with a
TCP reference that is used twice; what is lost of one reference must not touch the
other; two rows of different length on two lines take each other's place as they come
and go, so that tails occur.  *bpf*: packets with and without options, to
and from the port, fragments, others and cut ones; of four packets two may fit a buffer,
so that both are full and one is lost.  *stack snapshots*: two tasks of either width,
each with a thread or an unknown item behind it.  *imagine*: a child with a child,
and a sibling behind it, with values of each padding and a node without properties.
*joker's scan*: two marks are each other's neighbours in any order; the limits
39 to 43 are below, at and above the number of calls.  *jurple_console*: a message may be shorter than, equal to and longer
than the part that is cleared, or fill the buffer.

`CHECK_DEADLOCK FALSE` stands where a program may wait for ever: for the kernel's
next notification (`Lsock_full`, the two violations of `lsock`) or for the next
event (`Monitors_*`).

**Fairness.**  `Lsock` assumes weak fairness of the client (one thread that blocks
only in `read` and `select`) and of the kernel's answers; none of the sockets, so
that the machine may be idle.  `OtaArchive` assumes that the program keeps running.
`MCMonitors` assumes it of `filemon`'s thread, and of `netbottom`'s main queue with
the framework's answers; processes, files and sources are not fair.

## 5. Proofs

Each theorem holds for every value of the constants that satisfies the named
assumption of its module.

* `LsockProofs!TypeCorrect`: `TypeOK` is not inductive alone, as `RefreshNext`
  indexes the table with `src` and `AddAll` takes the head of `todo`; `CallsOK`
  adds that a provider is at hand while `addAll` runs and that `src` is a
  reference while a refresh is waited for.  One lemma per handler.
* `LsockProofs!ReadsAreAnswered`: whenever `refreshSrc` (nested or not) or
  `querySources` blocks, there is a request with the kernel or a message to
  read.  Inductive with the two facts above: each request gets at least one
  message, and each reader that goes on waiting has just written one.
* `LsockProofs!RowsAreDescribed`, `!NoRowIsAGhost`, `!CountsAreShown`: by
  `RowsInv`.  What a row says can only be judged against what is still under way, so
  the invariant speaks of the queue: a source is announced before anything is said of
  it and its removal is sent behind all that was (`KernelOrder`, from `NstatProofs`);
  a row is that of its live source or its removal is in the queue (`RowStands`); a
  row without text has its description asked for, under way, or in a pending call
  (`RowAsked`); and only `CLOSED` rows are in pending calls (`NestIsClosed`), which is
  why they are excepted.
* `LsockProofs!OnceIsComplete`: under `PromptKernel`, `OnceShowsAll`.  `OnceInv` says that
  a row is that of the source announced under its reference, or that the announcement of
  that source is still to be read (`OnceFits`); with both queues empty only the first is
  left, and `RowsInv` rules out a row without text.  What makes it inductive is the rows
  in pending calls, which are stored after later messages were read: a source whose row
  waits there cannot be the next to be announced (`NestStands`, from `DescOrder`: behind a
  description a new announcement is only sent after a removal, and reading a removal
  ends the calls).  `OnceStarts` counts the subscriptions: `main` reads no success that
  would make it add providers the arguments left out, so `OnceWatches` holds and no row is
  filtered away.
* `OldLsockProofs!OldRowsStayTrue`: `OldInv`, on the same order of the kernel's
  messages.  A lost message is one that is read and not handled, so the order is kept for all
  references, and what is said of a row is said of those not in `missed`.  It adds that behind the removal of a reference that is in use again its
  announcement is sent (`Reannounced`), that a socket that lives has been counted
  (`LiveCounted`), and that a row which is not to be printed stands on the screen
  as it is (`ScrolledBy`).  That each row has a line of its own is a fact about the sizes
  of finite sets (`LinesDiffer`), and what is drawn over follows from the code's order of
  writing (`DrawnLines`, `DrawnType`).
* `NstatProofs` has no theorem of its own.  Its lemmas say what the two queues are
  like after the kernel, the sockets or a reader take a step (`KernelKeepsOrder`,
  `ReadKeepsOrder`, `KernelKeepsAnew`, `KernelReannounces`, `RequestIsAnswered`); both clients use them.
* `OtaProofs!TypeCorrect` and `!OrderCorrect`: the walk never lists a byte
  twice.  `OrderCorrect` needs that a cursor only grows, and that an entry listed
  last ends where the cursor is.
* `OtaProofs!WalkImplementsListing`: the refinement of `OtaListing` that the
  run `OtaArchive_walk` checks.  It holds of archives that are laid out as archives are
  (`Laid`: entries follow each other, and each YAA entry has its mark), with any
  damage to the headers; that the archives of the run are such is an assumption TLC
  evaluates (`MCLaid`).  The invariant (`Place`): no promised entry before the cursor
  is missing, and the cursor stands at an entry, or behind the last, unless the
  walk is searching.
* `OtaProofs!BufferIsAlwaysAccounted`, `!NothingIsLost`: by `PbzxInv`, which adds
  that while the decoder reads there is room for one more chunk of
  `OUT_BUFSIZE` (`RoomLeft`); this is what the growth rule keeps, and why intact
  chunks lose nothing.
* `OtaProofs!FreshFilesAreExact`: by `ExtractInv`.  What is there was there before, or was
  made for an entry that was extracted, as its directory, as one on the way to it, or as
  itself (`Originates`); so when the turn of an entry comes only directories are on the way
  to it and what is at its place can be replaced (`NothingInTheWay`), no link is met
  (`StraightIs`), the loop of `mkdir` makes the directories that are missing (`ParentsAre`),
  and nothing touches it later.  `Sane` is what this needs of the archive and of the files
  that are there; `TopDown` what entries need for which no directories are made, which are
  directories themselves and the links of YAA archives (`Alone`).
* `OtaProofs!DifferencesExact`: by `DiffInv`.  `DiffPlaces` bounds the two positions by
  the entries, beyond which the walk ends.  Two archives that name the same files in the
  same places are walked in step (`InStep`): each comparison is of entries of one
  number.  If the second is the first without some entries, both positions divide
  the kept ones alike (`Divided`), so that a search that fails is for one that is gone.
  This needs an archive that ends where it is cut, and no name that is part of
  another; with a tail the search goes on behind the end, and the run `OtaFiles_removed`
  shows what comes of that.
* `OtaProofs!FilesAreTyped`: `FilesTypeOK`, of the three specifications at once.  `PbzxInv` bounds
  what is left of the buffer, and with it every size below `IntMax`; `DiffInv` says that
  the two entries that are compared are there; of the file system it takes that following
  links leads to a path, and that every call leaves nodes (`CallsAreTyped`).
* `MonitorsProofs!RelaysExactly`: by `JurpleInv`, which says what is left in the buffer
  (`BufferIsKnown`): bytes behind the part that is cleared, at places that an
  earlier message reached.
* `MonitorsProofs!NetLinesAreExact` and `!PrintedOnce`: by `NetInv`.  At most one block
  waits for a source and none once its line is printed (`OneBlockEach`); the block that
  prints fills the slot it then prints, so that it does not matter which socket of
  the process filled it before.
* `MonitorsProofs!BpfPacketsAreExact`: by `BpfInv`, which says that what the filter
  accepted is what was printed, what is left of the buffer that is walked, and the two
  buffers of the device, in this order, and that the walk stands at a header or at the
  end (`AtHeader`).  It rests on two facts about the code: places in a buffer
  grow by the step of the walk (`OffsetsStep`, `OffsetsGrow`), and the program accepts
  exactly the packets that match (`AcceptsMatching`), shown by running it on
  every way through it.  The states of the machine are a sequence
  that is computed step by step; that there is one is shown by induction over a set of
  numbers (`LeastElement`, `Stepwise` of `InductionLemmas`), which needs no operator as a
  parameter.
* `MonitorsProofs!GapsAreAlwaysMarked` and `!NeverFeedsBack`: by `FilemonInv`.  Events
  are numbered; n of them lie before the buffer, those in the buffer follow, and
  then those in the queue, unless some were lost, when a notice is read before
  anything else (`BufferFollows`, `QueueIsLast`); of the first n, all behind the
  last line were filtered out (`LinesFollow`).  That no link is linked again needs that
  only `filemon` makes names of more than one part (`Event`).
* `MonitorsProofs!MonitorsAreTyped`: `MonitorsTypeOK`, of the five specifications at once.
  Beside the invariants above it takes that a link is made for an event of a path of one
  part (`LinkIsPath`), so that no path has three; that what `jurple_console` prints of its
  buffer holds no 0 and stays within it (`StringsAre`, `ReceiveTyped`); and that the
  device of `bpf` stores a packet only where there is room (`BpfRoom`).

* `WalksProofs!OjtoolResolves`: by `OjtoolInv`, where the line that is kept is always the one
  before, with its own number; what is printed up to there resolves each value with
  the address of the line behind it.
* `WalksProofs!VmmapTells`: by `VmmapInv`.  A line is a run of regions that follow each other
  without a change of protection (`RunIs`); of a process that leaves its regions alone
  every region up to the end of the pending line is told, or in it (`ToldUpTo`).  Once
  the regions have changed only the order of the lines is left.
* `WalksProofs!SnapshotsAreAlwaysTold`: of both programs at once, each with its own invariant.
  By `StackshotInv`, `off` is the place of an item, those before it are told, and
  `inContainer` is how many of them begin a container less how many end one
  (`StackshotAt`); that the padding skipped leads to the next place is arithmetic
  (`AlignedIs`).  By `TraceInv`, the position is that of an item or within one that
  is not known (`InStep`), and the width is that of the last task before it.  The places
  of the items are sums of sizes; that there are such sums, and that they grow, is
  shown in `InductionLemmas` (`SumsExist`, `SumsGrow`).
* `WalksProofs!DeviceTreesAreAlwaysTold`: of `dtize` and `imagine` at once, for every tree whose
  counts are true (`IsTree`), however deep.  Both walk a tree by recursion, driven by
  counts alone, so the invariants (`DtizeInv`, `ImagineInv`) say of the stack of calls that
  it is as deep as the part that comes next, that the children each call has still to
  make are those behind that part (`Rest`), and that the place kept is where that part
  begins; the lines told are those of all parts before it.  That the last return is
  the end of the tree follows, as nothing is left beside the root.  For `imagine` it is also
  said what the innermost call has copied of the properties of its node (`Copying`), and
  that the place a call returns is not used where there are no properties (`Between`).
* `WalksProofs!StructuresStayInStep`: of `smut`, for every table.  By `SmutInv`, `Offset` is where
  structure k begins, and those before it are printed (`InStepWith`).  The walk only
  sees NULs, so most of the proof says where they are: behind the fixed part every byte is
  of a string or the NUL behind one (`StringsCover`, `KindsAre`); no two NULs follow each other
  before the end of a structure (`NoTwoNULs`); the n-th NUL that `getSMBString` counts is the
  one behind the n-th string (`NthIs`, `StringIsFound`).  Both ways to look for the end,
  from the first byte and, without strings, from the second, then end behind the
  structure (`StringsFromFirst`, `StringsFromSecond`).  `Usual` is needed: a first string of one
  character has a NUL as its second byte, and of the two NULs behind an OEM structure
  without strings only the first is passed (section 6).
* `JokerProofs!KextsAreWhole`: by `KextractInv`.  Each segment copied stands where its
  patched header says (`SegmentStands`), the first at 0 and the others behind the
  first page, so that the later writes of headers do not touch them.  It
  rests on `WellFormed` kexts.
* `JokerProofs!CompanionsAreExact`: by `CompanionInv`.  As long as each earlier kext with stubs
  could name one (`NamedBefore`), descriptor 0 is not free and "not opened" means what the
  code takes it for; then the stubs named are the good ones before the current, in order.
* `JokerProofs!KextsAreListed`: by `TextInv` and `InfoInv`.  Method 2 (`Walked`) stands behind
  the last place a kext begins at, between which and the next page nothing begins, and
  has listed up to there; that a kext that is large is the only reason to go astray
  follows, as its neighbours are the ones compared.  `Identify` ends at the last name
  of a chain whose links are shorter than the data, all its own if the kext is
  set apart.  Method 1, in an orderly cache, stands at the first key of the dictionary
  behind those listed (`InfoInv`).

* `JokerProofs!TablesAreTheKernels`: by `TablesInv` and `ScanInv`, one for each module.  A
  namespace is what a path of nodes from the root spells (`IsNamespace`), or nothing for
  what lies above them; behind the place of the second pass all nodes have theirs
  (`MetAreNamed`), so that the node above is known when a name is put together.
  That paths are no longer than there are nodes left comes with it: each node is before
  the one above it.  In the scan, `sysent` is the place of the last mark that counts
  of those before (`FoundBefore`).  The address has a variable of its own: it is `sysent` only
  behind a mark of iOS 8 or later and as long as no vector is met (`AddressBefore`), so the
  theorem promises it under `AddressKnown`.
* `JokerProofs!TreesStaySound`: by `LzssInv`.  That the trees are linked both ways is
  not enough for `delete_node`: the node it fetches from the left tree must be below
  the deleted one, and not its parent.  So the invariant says that each node can be given a
  depth, greater than its parent's (`Ranked`), and that the search goes down.  Three
  lemmas about any three arrays do the surgery: a leaf is added (`AttachKeeps`), a node
  takes the place of another with its children (`ReplaceKeeps`), a node with one
  child goes (`UnlinkKeeps`).  `insert_node` is the first or the second; `delete_node` of a
  node with two children is the third, for the node fetched, and then the second,
  although the code does both at once.  That only strings of the window are nodes is told by
  how far each is before `r` (`Back`): the first strings are inserted from `r - 1` down,
  the string that is deleted is the one `N - F` back, and the one inserted next is new.

`OldLsock`, `Jurple`, `Netbottom`, `Bpf`, `Filemon`, `OtaExtract`, `OtaDiff`, `Ojtool`, `Vmmap`,
`Stackshot`, `StackSnapshot`, `Dtize`, `Imagine`, `Smut`, `JokerKextract`, `JokerKexts`, `JokerTables`,
`JokerScan` and `OtaPbzx` have no specification of their own, since the runs
compose them in `MCMonitors`, `MCOtaFiles` and `MCWalks`; `OldLsockSpec`, `JurpleSpec`,
`NetSpec`, `BpfSpec`, `FilemonSpec`, `ExtractSpec`, `DiffSpec`, `OjtoolSpec`, `VmmapSpec`,
`StackshotSpec`, `StackSnapshotSpec`, `DtizeSpec`, `ImagineSpec`, `SmutSpec`, `PbzxSpec`, `KextractSpec`, `KextsSpec`, `TablesSpec` and `ScanSpec` are the initial predicate and the next-state relation that
those modules take of each.

Only model-checked: liveness (`WalkEnds`, `OnceEnds`, `ScreenConverges`,
`CreatorsAreStopped` and the others under fairness); the other two properties of
`Lzss` (`LongestMatch`, `RoundTrip`); all of `Lsdtrip` (which has
RECURSIVE operators); the types of the modules in `MCWalks`, beyond what the
invariants above include of them (`WalksTypeOK` is also of `Lsdtrip`).  What the
recursive functions of `Lzss` (decompression) compute for every text would take
induction over data and stays with TLC.

## 6. What the code does otherwise than it says

The runs named `Lsock_once_hang`, `Lsock_nc`, `OtaArchive_yaa`, `OtaArchive_iterate`,
`OtaFiles_removed` and `Monitors_relink` each find a behaviour that refutes a
sentence of the source; `findings` in `PROJECT.json` quotes it.  Others were met
while modelling and are part of the models, or lie below their level:

* `lsock`: after an error reply `addAll` never returns, contrary to the comment at
  865 (878-881); `free` of the literal `"reading"` (749); `lsock tcp` subscribes
  to one protocol only (1026-1031); references are not compared with `MAX_DESC`;
  `read`'s result is not looked at (491); descriptions are never freed (792).
* `ota`: names on the stack exhaust it (1038, ChangeLog 45); the search after
  damage is bounded only after it has found something (999, ChangeLog 47); a file
  whose first entry has lost its "YAA1" is walked as a legacy archive (955);
  entries within three headers of the end are never listed (984); an entry with
  magic 0x310 is not found by the search (996) although it is accepted (990); a
  raw `pbzx` chunk is copied without regard to the room (596); in a diff, files
  shorter than 1,000,000 bytes wrap an unsigned difference (317), entry and
  position after a search are stale (376), the first entries and those only in
  the second file are never reported; extraction leaves the tail of an older,
  longer file (235, no `O_TRUNC`) and writes through links that are there; of legacy
  archives it creates no empty files and no directories without content (1060); links of
  YAA archives are made whether or not their name is asked for, and not if the directory
  above them is not there yet (852-854).
* `lzss`: the first `F` strings are inserted newest first, so that for a text that
  begins with spaces the oldest of equal strings stays (273, comment at 148).
* `joker`: method 2 prints a kext when it meets the next, so the last one is never
  listed, and a large one ends the walk (2665, against "correctly gets all kext
  names!", 39); names are looked for beyond the data (1133); `-K` with a part of a
  name works with method 2 only (usage 3255, the arguments of `strstr` are swapped
  at 2592); a dictionary without an address takes that of the next (2533), and
  without an identifier that of the next, whose kext is then passed over; an
  address right behind `__PRELINK_DATA` counts as in it (2364); the search for
  the end of a kext has no bound (2295); without stubs to name, descriptor 0 is
  closed (2249), and a companion file that gets it is continued under a wrong name
  (2202); pointers of a kext that is not split are looked for at address 0 (2178);
  "Aborting" after a wrong size does not abort (3192); 256 names of nodes are
  not checked for (2777).  In `main`: `-k` and `-K` behind `-s`, `-m` or `-a` turn
  these off (3276-3277); of several tables the scan finds the last counts (3620-3646),
  of several entries in the constants the first (3688-3696); the address it says
  the table has (3720) is not set by a mark of kernels before iOS 8 (3637, 3646), when it is
  whatever the variable happened to hold (3235, not initialized), and is that of the exception
  vector if one is met behind the mark, or, in those kernels, at all (3576); enosys and old are
  looked for at entry 4 before iOS 7, and between entries on iOS 7 (3729-3734), so
  that another call is left out or none; without a section of constants it ends
  before kexts and sysctls (3676); the number of calls is fixed by version, which may
  be more than the table has (3748).
* `filemon`: with any `-p` nothing is interesting (201-206, usage 186); `-e` is
  parsed and not used (271-282); an eleventh filter is written past the table
  (296-308); with `-l` and `-s` it stops itself; `kill` may hit a reused process id
  (462); an argument of unknown type ends it with status 0 (156).
* `netbottom`: a UDP line has the color of the process's last TCP source; slots are
  not bounded (293).
* `jurple_console`: clearing `buf[0]` is not enough, contrary to the comment at
  111, as the tail of a message of 128 bytes or more shows through after a
  shorter one (126); a full buffer is not terminated (115, 124); other devices
  wait until the first is detached; one that is gone before its callback makes
  the tool exit.
* `ojtool`: the value before a label is computed with the address of the line
  itself, as a label has none (comment at 22-27); a last line that is kept is
  lost; `JToolFuncStarts` is never asked, as `JToolComp` is `""` and not `NULL` (650,
  against the header, 41); behind a name from the GOT the rest of the line is
  printed again (505-591); a stub one beyond the lazy bindings is `(null)`
  (730); lines about a line that should be ignored are not (115-120).
* `smut`: a first string of one character is taken for the end of the strings (785),
  and an OEM structure without strings for one with (664-696), after which the
  walk is out of step; number 0, which means none, prints the first string
  (184); a structure of type 127 does not end the walk.
* `vmmap`: the last lines of a map that ends at or beyond 0x4000000 are not printed
  (313; the comment says 0x40000000); `shared` is compared with `reserved` (324), so
  that a shared region is joined with a private one before it, and two shared
  ones are not; the count of images is set before their list is read.
* the first `lsock`: what its BUGS comment admits (52-53) is in the model, as messages that get
  lost and writes that fail, and nothing makes up for it, since nothing is asked again: a
  source whose announcement or description is lost never shows, and the row of one whose
  removal is lost stays; in curses mode a shorter row keeps the end of the longer one that
  its line had (238), and dashes are drawn over whatever row stands at the line that is the
  number of the reference (598); in curses mode it crashes when a source goes that has not been
  described (598); a `CLOSED` row asks for itself for as long as it is one (413);
  `setupSocket`'s `-1` is the only failure it looks at; it never asks for counts.
* `bpf`: the filter is said to select packets by protocol and port (143); later
  fragments, and packets cut before the port, are not selected; any error but
  `EBUSY` ends the search for a device.
* `5-2-stack-snapshot`: an item of memory alone (`0xabcddcba`) is met again for ever
  (298); frames of the kernel are taken for 16 bytes (292), so that those of a 32-bit
  kernel put the walk out of step; an item of memory and I/O does not reset the
  warning (254).
* `imagine`: a value whose next byte is not 0 is shown as `(null)`, and one without a 0
  before it with what the buffer held (77-87); the name of a node without one is an
  uninitialised pointer (135); behind a node without properties children are looked for at
  address 0 (146); a tag of length 0 is met for ever (257-306).
* `stackshot`: the first line shows what was on the stack, if its item has nothing
  to say (629).
* `lsdtrip`: an array in an array is shown under whatever `keyDumper`'s buffer holds
  (203); a narrow number is printed with four bytes of the stack (177), a negative
  or real one as something else; a URL is followed by "@TODO" (191-195); `app` shows
  applications without an identifier before the one that is wanted (868), `-v` ends a
  list of URLs at the first that has no answer (691); `launch` and a command that is
  not known exit with 0.
* `dtize`: a file that ends early makes it print empty nodes for ever, as its position
  no longer changes (194-199), and the last property again for each that is missing;
  the length of the tree is compared with a position that includes the header (194),
  so that a tree of up to 53 bytes is not read.

## 7. What is not modelled, and why

* formatting, colors, curses and terminal handling: no property is about them;
* failures of system calls on the socket of `lsock.c` (those of `17-1-lsock.c` are), and
  of memory allocation;
* of the curses mode of `17-1-lsock.c`: the line of messages above the rows, and rows longer than
  the terminal is wide, which would go on in the next line;
* what the file system does beyond the rules `OtaExtract` has for `open`, `mkdir` and
  `symlink`: links that lead through more than two others, and permissions of
  directories;
* the XZ decoder, the kernels, frameworks and devices: external, modelled by the
  behaviour the code relies on;
* the packing of `lzss` units into bits;
* of `joker`: policies and sandbox profiles, the auto-disassembly with `-j`; the
  ARM64 vectors, which the scan only prints;
* `lsdtrip`'s `monitor-notyet`; `seedutil` and the one-call tools, which have no state; `ioreg.c`
  (third party); tools that change other processes (out of scope).
