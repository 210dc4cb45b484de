---------------------------------- MODULE Bpf ----------------------------------
(***************************************************************************)
(* src/src/17-25-bpf.c: prints the packets of an interface that a program  *)
(* handed to the kernel selects.  The kernel runs it over each packet and  *)
(* collects what it accepts in a buffer, which is read and walked.         *)
(*                                                                         *)
(* The device (external) has two buffers of the same size: one is filled   *)
(* while the other waits to be read, and what fits in neither is lost.     *)
(***************************************************************************)
EXTENDS Integers, Sequences, FiniteSets

CONSTANTS
    Frames,       \* the packets the interface may see
    MaxFrames,    \* bound: how many of them
    BpfDevices,   \* how many devices are tried: 255
    BufLen,       \* what BIOCGBLEN says
    Protocol, Port

HdrLen == 18      \* bh_hdrlen of an Ethernet device
BPF_WORDALIGN(n) == ((n + 3) \div 4) * 4

\* ethertype .. dst are fields of the headers, option the first word of an IP
\* option; hlen is the length of the IP header, which is well formed, and size
\* that of the packet.
Frame == [ethertype : Nat, protocol : Nat, fragment : Nat, hlen : {4 * n : n \in 5 .. 15},
          src : Nat, dst : Nat, option : Nat, size : Nat]
ETHERTYPE_IP == 2048

ASSUME BpfAssumption ==
    /\ Frames \subseteq Frame /\ MaxFrames \in Nat /\ BpfDevices \in Nat \ {0}
    /\ BufLen \in Nat /\ BufLen > HdrLen

VARIABLES
    bpf,        \* what main is doing, or how it ended
    devNumber,     \* the device tried
    filtered,   \* BIOCSETF was done
    store, hold,    \* the two buffers of the kernel, packet by packet
    accepted,   \* the packets that got into a buffer since
    frames,     \* packets seen on the interface
    chunk, walkAt,   \* what was read, and where it is walked
    frameLines  \* the packets printed

bpfVars == <<bpf, devNumber, filtered, store, hold, accepted, frames, chunk, walkAt, frameLines>>
deviceVars == <<filtered, store, hold, accepted, frames>>
walkVars == <<chunk, walkAt, frameLines>>

BpfInit ==
    /\ bpf = "open" /\ devNumber = 0
    /\ filtered = FALSE /\ store = <<>> /\ hold = <<>> /\ accepted = <<>> /\ frames = 0
    /\ chunk = <<>> /\ walkAt = 0 /\ frameLines = <<>>

-----------------------------------------------------------------------------
(* The program of installFilter, and the machine that runs it (external)   *)

Insn(op, k, jt, jf) == [op |-> op, k |-> k, jt |-> jt, jf |-> jf]

\* Mutant: the source port is looked for behind an IP header without options.
insnsFixed ==
    << Insn("ld", 12, 0, 0), Insn("jeq", ETHERTYPE_IP, 0, 10), Insn("ld", 23, 0, 0),
       Insn("jeq", Protocol, 0, 8), Insn("ld", 20, 0, 0), Insn("jset", 8191, 6, 0),
       Insn("ldx_msh", 14, 0, 0), Insn("ld", 34, 0, 0), Insn("jeq", Port, 2, 0),
       Insn("ld_ind", 16, 0, 0), Insn("jeq", Port, 0, 1), Insn("ret", 1, 0, 0), Insn("ret", 0, 0, 0) >>

insns ==
    << Insn("ld", 12, 0, 0),                 \* ethertype
       Insn("jeq", ETHERTYPE_IP, 0, 10),
       Insn("ld", 23, 0, 0),                 \* protocol
       Insn("jeq", Protocol, 0, 8),
       Insn("ld", 20, 0, 0),                 \* fragment offset
       Insn("jset", 8191, 6, 0),
       Insn("ldx_msh", 14, 0, 0),            \* length of the IP header
       Insn("ld_ind", 14, 0, 0),             \* source port
       Insn("jeq", Port, 2, 0),
       Insn("ld_ind", 16, 0, 0),             \* destination port
       Insn("jeq", Port, 0, 1),
       Insn("ret", 1, 0, 0),
       Insn("ret", 0, 0, 0) >>

\* The field of two bytes, or of one for the protocol, at an offset.
Field(f, offset) ==
    CASE offset = 12 -> f.ethertype
      [] offset = 20 -> f.fragment
      [] offset = 23 -> f.protocol
      [] offset = 14 + f.hlen -> f.src
      [] offset = 16 + f.hlen -> f.dst
      [] OTHER -> f.option
Within(f, offset) == offset + (IF offset = 23 THEN 1 ELSE 2) <= f.size

\* jset 0x1fff tells whether any of the low 13 bits is set.
Jumps(i, a) == IF i.op = "jeq" THEN a = i.k ELSE a % (i.k + 1) # 0

\* The machine: pc is the next instruction or 0 at the end, a the accumulator, x
\* the index register.
Executing(pc, a, x) == [pc |-> pc, a |-> a, x |-> x, accept |-> FALSE]
Accepted == [pc |-> 0, a |-> 0, x |-> 0, accept |-> TRUE]
Rejected == [pc |-> 0, a |-> 0, x |-> 0, accept |-> FALSE]

\* One instruction over a packet: a load from outside it rejects it.
Exec(f, m) ==
    LET i == insns[m.pc]
        Load(k) == IF Within(f, k) THEN Executing(m.pc + 1, Field(f, k), m.x) ELSE Rejected
    IN  CASE i.op = "ret" -> IF i.k # 0 THEN Accepted ELSE Rejected
          [] i.op = "ldx_msh" ->
               IF i.k < f.size THEN Executing(m.pc + 1, m.a, f.hlen) ELSE Rejected
          [] i.op = "ld" -> Load(i.k)
          [] i.op = "ld_ind" -> Load(m.x + i.k)
          [] OTHER -> Executing(m.pc + 1 + (IF Jumps(i, m.a) THEN i.jt ELSE i.jf), m.a, m.x)

\* Whether a packet is accepted; as all jumps are forward, there are no more steps
\* than instructions.
Accepts(f) ==
    LET at[n \in 1 .. Len(insns) + 1] ==
          IF n = 1 THEN Executing(1, 0, 0)
          ELSE LET m == at[n - 1] IN IF m.pc = 0 THEN m ELSE Exec(f, m)
    IN  at[Len(insns) + 1].accept

-----------------------------------------------------------------------------
(* The device (external)                                                   *)

CapLen(f) == IF HdrLen + f.size > BufLen THEN BufLen - HdrLen ELSE f.size

\* Each packet begins at a multiple of four; what was read ends with the last.
OffsetsIn(packets) ==
    LET begin[i \in 1 .. Len(packets)] ==
          IF i = 1 THEN 0 ELSE begin[i - 1] + BPF_WORDALIGN(HdrLen + CapLen(packets[i - 1]))
    IN  begin
Extent(packets) ==
    IF packets = <<>> THEN 0
    ELSE OffsetsIn(packets)[Len(packets)] + HdrLen + CapLen(packets[Len(packets)])

\* A packet comes: until there is a program all are accepted.
Capture ==
    /\ bpf \in {"dlt", "filter", "read", "walk"} /\ frames < MaxFrames
    /\ frames' = frames + 1
    /\ \E f \in Frames :
         IF filtered /\ ~Accepts(f) THEN UNCHANGED <<store, hold, accepted>>
         ELSE IF Extent(Append(store, f)) <= BufLen
         THEN /\ store' = Append(store, f)
              /\ accepted' = Append(accepted, f)
              /\ UNCHANGED hold
         ELSE IF hold = <<>>
         THEN /\ hold' = store
              /\ store' = <<f>>
              /\ accepted' = Append(accepted, f)
         ELSE UNCHANGED <<store, hold, accepted>>
    /\ UNCHANGED <<bpf, devNumber, filtered, walkVars>>

-----------------------------------------------------------------------------
(* main                                                                    *)

\* open_dev: only a device that another program has open makes it go on.
TryDevice ==
    /\ bpf = "open" /\ devNumber < BpfDevices
    /\ \/ bpf' = "options" /\ UNCHANGED devNumber
       \/ devNumber' = devNumber + 1 /\ UNCHANGED bpf
       \/ bpf' = "failed" /\ UNCHANGED devNumber
    /\ UNCHANGED <<deviceVars, walkVars>>

NoDevice ==
    /\ bpf = "open" /\ devNumber = BpfDevices
    /\ bpf' = "failed"
    /\ UNCHANGED <<devNumber, deviceVars, walkVars>>

\* set_options: from BIOCSETIF on packets are collected.
SetOptions ==
    /\ bpf = "options"
    /\ bpf' \in {"dlt", "failed"}
    /\ UNCHANGED <<devNumber, deviceVars, walkVars>>

\* check_dlt: the program's offsets are those of Ethernet.
CheckDlt ==
    /\ bpf = "dlt"
    /\ bpf' \in {"filter", "failed"}
    /\ UNCHANGED <<devNumber, deviceVars, walkVars>>

InstallFilterFails ==
    /\ bpf = "filter"
    /\ bpf' = "failed"
    /\ UNCHANGED <<devNumber, deviceVars, walkVars>>

\* installFilter; BIOCSETF also empties the buffers (external).
InstallFilter ==
    /\ bpf = "filter"
    /\ filtered' = TRUE /\ store' = <<>> /\ hold' = <<>> /\ accepted' = <<>>
    /\ bpf' = "read"
    /\ UNCHANGED <<devNumber, frames, walkVars>>

\* read waits for a buffer; with BIOCIMMEDIATE one that is not full will do.
ReadPackets ==
    /\ bpf = "read" /\ (hold # <<>> \/ store # <<>>)
    /\ IF hold # <<>> THEN chunk' = hold /\ hold' = <<>> /\ UNCHANGED store
       ELSE chunk' = store /\ store' = <<>> /\ UNCHANGED hold
    /\ walkAt' = 0
    /\ bpf' = "walk"
    /\ UNCHANGED <<devNumber, filtered, accepted, frames, frameLines>>

\* The interface has gone: read_packets returns.
ReadPacketsFails ==
    /\ bpf = "read"
    /\ bpf' = "failed"
    /\ UNCHANGED <<devNumber, deviceVars, walkVars>>

\* Mutant: the next packet is looked for where this one ends.
WalkPacketUnaligned ==
    /\ bpf = "walk" /\ walkAt < Extent(chunk)
    /\ \E i \in DOMAIN chunk :
         /\ OffsetsIn(chunk)[i] = walkAt
         /\ frameLines' = Append(frameLines, chunk[i])
         /\ walkAt' = walkAt + HdrLen + CapLen(chunk[i])
    /\ UNCHANGED <<bpf, devNumber, deviceVars, chunk>>

\* The packet whose header is at p.
WalkPacket ==
    /\ bpf = "walk" /\ walkAt < Extent(chunk)
    /\ \E i \in DOMAIN chunk :
         /\ OffsetsIn(chunk)[i] = walkAt
         /\ frameLines' = Append(frameLines, chunk[i])
         /\ walkAt' = walkAt + BPF_WORDALIGN(HdrLen + CapLen(chunk[i]))
    /\ UNCHANGED <<bpf, devNumber, deviceVars, chunk>>

WalkEnd ==
    /\ bpf = "walk" /\ walkAt >= Extent(chunk)
    /\ bpf' = "read"
    /\ UNCHANGED <<devNumber, deviceVars, walkVars>>

BpfNext ==
    \/ Capture
    \/ TryDevice \/ NoDevice \/ SetOptions \/ CheckDlt \/ InstallFilterFails \/ InstallFilter
    \/ ReadPackets \/ ReadPacketsFails \/ WalkPacket \/ WalkEnd

-----------------------------------------------------------------------------
(* Properties                                                              *)

BpfTypeOK ==
    /\ bpf \in {"open", "options", "dlt", "filter", "read", "walk", "failed"}
    /\ devNumber \in 0 .. BpfDevices /\ filtered \in BOOLEAN /\ frames \in 0 .. MaxFrames
    /\ Extent(store) <= BufLen /\ Extent(hold) <= BufLen /\ walkAt \in Nat
    /\ \A packets \in {store, hold, accepted, chunk, frameLines} :
            \A i \in DOMAIN packets : packets[i] \in Frames

\* "dump IPv4 packets matching Protocol and Port only" (line 143): the port is
\* in a packet, at one end or the other, unless it is a later fragment or cut.
Matching(f) ==
    /\ f.ethertype = ETHERTYPE_IP /\ f.protocol = Protocol /\ f.fragment % 8192 = 0
    /\ f.size >= 16 + f.hlen
    /\ f.src = Port \/ (f.dst = Port /\ f.size >= 18 + f.hlen)

\* What is still to be printed of the buffer being walked.
Ahead ==
    LET walked == Cardinality({i \in DOMAIN chunk : OffsetsIn(chunk)[i] < walkAt}) IN
    IF bpf = "walk" THEN SubSeq(chunk, walked + 1, Len(chunk)) ELSE <<>>

\* The program accepts the packets that match, and what it accepted and had room
\* is printed, each once and in the order of coming, or waits: the walk meets the
\* headers whatever the lengths, and nothing from before the program is left.
PacketsAreExact ==
    filtered =>
        /\ \A f \in Frames : Accepts(f) <=> Matching(f)
        /\ accepted = frameLines \o Ahead \o hold \o store
        /\ bpf = "walk" => walkAt >= Extent(chunk) \/ \E i \in DOMAIN chunk : OffsetsIn(chunk)[i] = walkAt
=============================================================================
