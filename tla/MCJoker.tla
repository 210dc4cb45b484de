-------------------------------- MODULE MCJoker --------------------------------
(***************************************************************************)
(* What joker is given: small caches, kexts and tables.                    *)
(***************************************************************************)
EXTENDS JokerKexts, JokerKextract, JokerScan

-----------------------------------------------------------------------------
(* Caches: up to three kexts, in text of four pages of two units           *)

Key(k, n) == [key |-> k, kext |-> n]
Dictionary(n) ==
    {<<Key("name", n), Key("identifier", n), Key("address", n)>>,
     <<Key("name", n), Key("address", n), Key("identifier", n)>>}
OddDictionary(n) ==
    {<<Key("name", n), Key("identifier", n)>>,
     <<Key("identifier", n), Key("name", n), Key("address", n)>>}
Dictionaries(n) == Dictionary(n) \cup OddDictionary(n)
Infos == {<<>>} \cup {a \o b \o c : a \in Dictionaries(1), b \in Dictionaries(2), c \in Dictionaries(3)}

\* Headers are at pages; what is between two pages may look like one.
Texts2 == {t \in [1 .. 8 -> {"kext", "macho", "other"}] :
             /\ t[2] = "other" /\ t[4] \in {"other", "macho"} /\ t[6] = "other" /\ t[8] = "other"}
PlacesIn(t) ==
    LET ks == {u \in {0, 2, 4, 6} : t[u + 1] = "kext"}
    IN  [i \in 1 .. 3 |->
           IF \E u \in ks : Cardinality({v \in ks : v < u}) = i - 1
           THEN CHOOSE u \in ks : Cardinality({v \in ks : v < u}) = i - 1 ELSE 1]

Data == [i \in 1 .. 3 |-> [off |-> 3 * i, size |-> 2]]
\* The names of kexts: of one, of all, one more in the third, none in the second.
MCStrings ==
    {{<<3 * i, i>> : i \in 1 .. 3}, {<<3, 1>>, <<6, 2>>, <<9, 3>>, <<10, 3>>}, {<<3, 1>>, <<5, 3>>},
     {<<4, 1>>, <<6, 2>>, <<9, 3>>}}

OrderlyText == <<"kext", "other", "kext", "other", "kext", "other", "other", "other">>
MCCaches ==
    {[info |-> i, text |-> OrderlyText, place |-> PlacesIn(OrderlyText), data |-> Data,
      strings |-> {<<3 * k, k>> : k \in 1 .. 3}] : i \in Infos}
    \cup {[info |-> <<>>, text |-> t, place |-> PlacesIn(t), data |-> Data, strings |-> s] :
            t \in Texts2, s \in MCStrings}
MCRequests ==
    {r \in [method : {1, 2}, listing : BOOLEAN, asked : {{}, {2}, {1, 2, 3}}] :
        r.listing <=> r.asked = {}}

-----------------------------------------------------------------------------
(* Kexts to write: pages of four units, __PRELINK_DATA at addresses 40-44  *)

Seg(vmaddr, off, n, sections) ==
    [vmaddr |-> vmaddr, fileoff |-> off, filesize |-> n, sections |-> sections]
Sec(off, n) == [offset |-> off, size |-> n]

\* The header's segment; then one that lies elsewhere, perhaps in the data.
FirstSegments == {Seg(10, 0, n, <<Sec(2, 1)>>) : n \in {3, 4, 5}}
NextSegments ==
    {Seg(v, 20, n, s) : v \in {30, 40, 43, 44}, n \in {1, 4, 6},
                        s \in {<<Sec(20, 1)>>, <<Sec(0, 3), Sec(20, 1)>>}}
    \cup {Seg(30, 20, 0, <<>>)}
LastSegments == {Seg(34, 28, 2, <<Sec(28, 1), Sec(29, 1)>>)}

\* Whether its pointer is known matters of a stub only if both others hold.
AStub == {s \in [pattern : BOOLEAN, inGot : BOOLEAN, known : BOOLEAN] :
             (s.pattern \/ s.inGot) /\ (s.known => s.pattern /\ s.inGot)}
FewStubs == {<<>>} \cup {<<a>> : a \in AStub} \cup {<<a, b>> : a, b \in AStub}
GoodStub == [pattern |-> TRUE, inGot |-> TRUE, known |-> TRUE]
BadStub == [GoodStub EXCEPT !.inGot = FALSE]

AKext(split, segs, stubs) == [base |-> 100, size |-> 6, split |-> split, segments |-> segs, stubs |-> stubs]
MCBatches ==
    {<<AKext(TRUE, <<a, b, c>>, <<GoodStub>>)>> :
        a \in FirstSegments, b \in NextSegments, c \in LastSegments}
    \cup {<<AKext(s, <<CHOOSE a \in FirstSegments : TRUE>>, x),
            AKext(t, <<CHOOSE a \in FirstSegments : TRUE>>, y),
            AKext(FALSE, <<>>, z)>> :
              s, t \in BOOLEAN, x, y \in FewStubs,
              z \in {<<GoodStub, BadStub, GoodStub, GoodStub>>, <<GoodStub>>, <<BadStub>>}}

-----------------------------------------------------------------------------
(* Tables: up to three sysctls below nodes                                 *)

AnOid(above, arg1, name, node, outside, kp) ==
    [parent |-> above, arg1 |-> arg1, name |-> name, node |-> node, outside |-> outside, kperf |-> kp]
\* 9 is the root; nodes have the addresses 1 and 2, and name 7 is kperf.
OidsOf(n) ==
    {AnOid(p, a, m, TRUE, FALSE, m = 7) : p \in {9, 1, 2}, a \in {1, 2}, m \in {n, 7}}
    \cup {AnOid(p, 0, n, FALSE, o, FALSE) : p \in {9, 1, 2}, o \in BOOLEAN}
OidSets == {<<a, b, c>> : a \in OidsOf(1), b \in OidsOf(2), c \in OidsOf(3)}
             \cup {<<AnOid(1, 0, 1, FALSE, FALSE, FALSE), AnOid(2, 1, 2, TRUE, FALSE, FALSE),
                     AnOid(9, 2, 3, TRUE, FALSE, FALSE), x>> : x \in OidsOf(4)}

Layers == {<<[magic |-> m, compressed |-> "no"]>> : m \in Magic}
            \cup {<<[magic |-> "other", compressed |-> c], [magic |-> m, compressed |-> "no"]>> :
                    m \in Magic, c \in {"no", "nothing", "kernel"}}
MachO == <<[magic |-> "macho", compressed |-> "no"]>>

AFile(l, o) ==
    [layers |-> l, traps |-> <<1, 1, 5, 0>>, oids |-> o,
     subsystems |-> <<[nums |-> <<3, 4, 6, 7>>, max |-> 7, kernelMax |-> 8]>>]
MCFiles == {AFile(l, <<>>) : l \in Layers} \cup {AFile(MachO, o) : o \in OidSets}

-----------------------------------------------------------------------------
(* Kernels with 41 system calls, whose table is at place 50                *)

\* 100 is called enosys and 101 old, by 64-bit kernels.
MCCalls == [n \in 1 .. 41 |-> IF n \in {1, 7, 39} THEN 100 ELSE IF n \in {9, 12} THEN 101 ELSE n]
MCMaxSyscalls ==
    [c \in Classes |-> CASE c = "older" -> 39 [] c = "24xx" -> 40 [] c = "27xx" -> 41 [] c = "32xx" -> 42 [] OTHER -> 43]
AMark(sign, place50) == [sign |-> sign, at |-> place50]
Marks ==
    {AMark("version", 0), AMark("arm vector", 0)} \cup {AMark(s, q) : s \in {"before 8", "from 8"}, q \in {30, 50}}
AKernel(l, w, v, m, c, s) ==
    [large |-> l, is64 |-> w, version |-> v, marks |-> m, constants |-> c, signatures |-> s,
     table |-> 50, calls |-> MCCalls]
MCKernels ==
    {AKernel(TRUE, TRUE, v, m, TRUE, s) :
        v \in {2423, 3705}, s \in {{}, {50, 53}, {47, 50, 53}}, m \in UNION {[1 .. n -> Marks] : n \in 0 .. 2}}
    \cup {AKernel(TRUE, FALSE, v, m, TRUE, {}) :
            v \in {0, 2422, 2423, 2780, 3216, 3705}, m \in UNION {[1 .. n -> Marks] : n \in 1 .. 2}}
    \cup {AKernel(l, w, 3705, <<AMark("version", 0), AMark("version", 0)>>, c, {50}) : l, w, c \in BOOLEAN}
MCCommandLines ==
    {<<"-s">>, <<"-k", "-s">>, <<"-v">>, <<"-a", "-K">>, <<"-j", "-m", "-S">>}

-----------------------------------------------------------------------------
(* A part of joker that a behaviour does not exercise                      *)

KextsIdle ==
    /\ finder = "idle" /\ at = 0 /\ prev = None /\ kexts = 0
    /\ cache = [info |-> <<>>, text |-> <<>>, place |-> <<>>, data |-> <<>>, strings |-> {}]
    /\ request = [method |-> 2, listing |-> TRUE, asked |-> {}]
    /\ lines = <<>> /\ ranges = <<>> /\ kextracted = <<>>
KextractIdle ==
    /\ writer = "idle" /\ batch = <<>> /\ current = 1 /\ lc = 1 /\ kextCopy = <<>> /\ out = <<>>
    /\ stub = 1 /\ fd = "none" /\ companion = <<>> /\ stdin = "open"
ScanIdle ==
    /\ scanner = "done" /\ arguments = <<>> /\ markAt = 1 /\ xnuSig = FALSE /\ sysent = 0
    /\ kernel = AKernel(FALSE, FALSE, 0, <<>>, FALSE, {})
    /\ sysentAddr = NoAddress /\ dumped = {}
TablesIdle ==
    /\ joker = "idle" /\ mmapped = AFile(MachO, <<>>) /\ is64 = 0 /\ pass = 0 /\ oid = 0
    /\ namespaces = <<>> /\ sysctls = <<>> /\ tables = {}

KextsEnded == finder \in {"done", "astray", "outside"}
KextractEnded == writer \in {"done", "failed", "died"}
TablesEnded == joker \in {"done", "refused", "overrun"}
=============================================================================
