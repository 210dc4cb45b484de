------------------------------- MODULE MCInspect -------------------------------
(***************************************************************************)
(* What the tools that inspect a system find: small listings, tables,      *)
(* address spaces and snapshots, dictionaries and device trees.            *)
(***************************************************************************)
EXTENDS Ojtool, Smut, Vmmap, ThreadSnapshots, Lsdtrip, DeviceTrees

UpTo(n, Options) == UNION {[1 .. m -> Options] : m \in 0 .. n}

-----------------------------------------------------------------------------
(* Listings of up to four lines, the k-th at address 10 * k                *)

Instruction(k, ref, target, known) ==
    [address |-> 10 * k, ref |-> ref, target |-> target, known |-> known]
ListingLines(k) ==
    {[address |-> 0, ref |-> NoNumber, target |-> 0, known |-> FALSE],
     Instruction(k, 5, 0, FALSE), Instruction(k, -3, 0, FALSE), Instruction(k, 5, 0, TRUE),
     Instruction(k, NoNumber, 0, FALSE), Instruction(k, NoNumber, 20, FALSE),
     Instruction(k, NoNumber, 106, FALSE), Instruction(k, NoNumber, 112, FALSE),
     Instruction(k, NoNumber, 118, TRUE)}
MCListings ==
    {l \in UNION {[1 .. n -> UNION {ListingLines(k) : k \in 1 .. 4}] : n \in 0 .. 2} :
        \A k \in DOMAIN l : l[k] \in ListingLines(k)}
    \cup {<<a, b, c, d>> : a \in ListingLines(1), b \in ListingLines(2), c \in ListingLines(3),
                           d \in ListingLines(4)}
MCJTools ==
    {[got |-> {}, objc |-> {}, strings |-> {}, comp |-> {}, stubsStart |-> 0, stubsEnd |-> 0, bindLines |-> 0],
     [got |-> {25}, objc |-> {25, 35}, strings |-> {27, 37, 45}, comp |-> {20, 30},
      stubsStart |-> 100, stubsEnd |-> 113, bindLines |-> 3]}

-----------------------------------------------------------------------------
(* Tables of up to three structures                                        *)

AStructure(type, length, strs, nums) ==
    [type |-> type, length |-> length, strings |-> strs, numbers |-> nums]
Structures ==
    {AStructure("other", n, s, m) :
        n \in {4, 6}, s \in {<<>>, <<1>>, <<2>>, <<2, 1>>, <<1, 2>>, <<3, 1, 2>>},
        m \in {<<>>, <<1, 2>>, <<3, 0>>}}
    \cup {AStructure("oem", 5, s, <<>>) : s \in {<<>>, <<1>>, <<2, 1>>}}
MCTables == UNION {[1 .. n -> Structures] : n \in 0 .. 2}
              \cup {<<a, b, c>> : a, b \in {s \in Structures : s.numbers = <<3, 0>> /\ s.length = 4},
                             c \in {s \in Structures : s.length = 5}}

-----------------------------------------------------------------------------
(* Address spaces of eight units, with up to three regions                 *)

ARegion(from, to, kind) ==
    [start |-> from, end |-> to, dyld |-> kind = "code", reserved |-> FALSE,
     protection |-> IF kind = "code" THEN "rx" ELSE "rw", shared |-> kind = "shared"]
Kinds == {"code", "private", "shared"}
Spaces == {<<0, 2, 2, 4, 4, 8>>, <<0, 2, 3, 5, 5, 7>>, <<1, 3, 3, 4, 5, 6>>}
MCSpaces ==
    {<<ARegion(b[1], b[2], k[1]), ARegion(b[3], b[4], k[2]), ARegion(b[5], b[6], k[3])>> :
        b \in Spaces, k \in [1 .. 3 -> Kinds]}
    \cup {<<ARegion(1, 5, k)>> : k \in Kinds} \cup {<<>>}

-----------------------------------------------------------------------------
(* Snapshots of up to four items                                           *)

AnItem(kind, size, element, elements) ==
    [kind |-> kind, size |-> size, element |-> element, elements |-> elements]
SnapshotItems ==
    {AnItem(k, n, "none", 0) : k \in {"begin", "end"}, n \in {0, 4}}
    \cup {AnItem(k, n, "none", 0) : k \in {"text", "append"}, n \in {12, 16}}
    \cup {AnItem(k, 8, "none", 0) : k \in {"direct", "silent"}}
    \cup {AnItem("array", 20 * n, e, n) : e \in {"text", "direct"}, n \in {0, 2}}
MCSnapshots ==
    {[granted |-> TRUE, magic |-> TRUE, items |-> i] : i \in UpTo(3, SnapshotItems)}
    \cup {[granted |-> TRUE, magic |-> TRUE, items |-> i] :
            i \in [1 .. 4 -> {s \in SnapshotItems : s.size \in {0, 4, 12} /\ s.kind # "array"}]}
    \cup {[granted |-> g, magic |-> FALSE, items |-> <<>>] : g \in BOOLEAN}

-----------------------------------------------------------------------------
(* Traces of up to four items, in which a 32-bit task follows a 64-bit one *)

ATraceItem(kind, wide, u, k) == [kind |-> kind, is64 |-> wide, user |-> u, kern |-> k]
TraceItems ==
    {ATraceItem(x, FALSE, 0, 0) : x \in {"io", "mem", "other"}}
    \cup {ATraceItem("task", w, 0, 0) : w \in BOOLEAN}
    \cup {ATraceItem("thread", FALSE, u, k) : u \in {0, 2}, k \in {0, 1}}
MCTraces ==
    {[granted |-> TRUE, kframe |-> w, content |-> i] : w \in {8, 16}, i \in UpTo(3, TraceItems)}
    \cup {[granted |-> TRUE, kframe |-> 16, content |-> <<a, b, c, d>>] :
            a, c \in {t \in TraceItems : t.kind = "task"}, b, d \in {t \in TraceItems : t.kind \in {"thread", "other"}}}
    \cup {[granted |-> FALSE, kframe |-> 16, content |-> <<>>]}

-----------------------------------------------------------------------------
(* Dictionaries of up to three values, which may hold others               *)

AValue(key, kind, name, inside) == [key |-> key, kind |-> kind, name |-> name, items |-> inside]
Leaf(key, kind, name) == AValue(key, kind, name, <<>>)
Within ==   \* what is in an array or in a dictionary: with a key in the latter
    LET leaves(a, b) == {<<Leaf(a, x, "one"), Leaf(b, y, "two")>> : x, y \in {"string", "date", "number"}}
    IN  [array |-> leaves(NoKey, NoKey) \cup {<<>>}
                     \cup {<<Leaf(NoKey, "string", "one"), AValue(NoKey, "array", "a", <<Leaf(NoKey, "asn", "x")>>),
                             Leaf(NoKey, "url", "two")>>}
                     \cup {<<AValue(NoKey, "dict", "d", i), Leaf(NoKey, "boolean", "last")>> : i \in leaves("k5", "k6")},
         dict |-> leaves("k3", "k4")
                     \cup {<<AValue("k3", "array", "a", i), Leaf("k4", "url", "last")>> : i \in leaves(NoKey, NoKey)}]
MCDicts ==
    {AValue(NoKey, "dict", "answer", <<AValue("k1", w, "inner", i), last>>) :
        w \in {"array"}, i \in Within.array,
        last \in {Leaf("k2", x, "end") : x \in {"string", "other", "asn"}}}
    \cup {AValue(NoKey, "dict", "answer", <<Leaf("k0", "string", "begin"), AValue("k1", "dict", "inner", i),
                                           Leaf("k2", "boolean", "end")>>) : i \in Within.dict}
ADict == CHOOSE d \in MCDicts : TRUE

ASession(v, a, mobile) ==
    [verb |-> v, argument |-> a, mobile |-> mobile, cfshow |-> FALSE,
     apps |-> <<[id |-> "x"]>>, claims |-> <<"array">>, others |-> 2, front |-> "asn", dicts |-> <<ADict>>]
Verbs == AskedOfBoth \cup AskedOfMac \cup AskedOfMobile \cup {"running", ""}
MCSessions ==
    {ASession(v, a, mobile) : v \in Verbs, a \in {NoArgument, "-v", "clear"}, mobile \in BOOLEAN}
    \cup {[ASession(v, a, FALSE) EXCEPT !.apps = l] :
            v \in {"app", "apps"}, a \in {"x", "y", NoArgument},
            l \in UpTo(3, {[id |-> "x"], [id |-> "y"], [id |-> NoID]})}
    \cup {[ASession(v, a, TRUE) EXCEPT !.claims = l] :
            v \in {"publicurls", "whohas"}, a \in {"-v", "url"}, l \in UpTo(2, {"none", "odd", "array"}) \ {<<>>}}
    \cup {[ASession("front", a, FALSE) EXCEPT !.front = f] : a \in {"-v", NoArgument}, f \in {"none", "odd"}}
    \cup {[ASession("metainfo", NoArgument, FALSE) EXCEPT !.cfshow = c, !.dicts = d] :
            c \in BOOLEAN, d \in {<<>>} \cup {<<a>> : a \in MCDicts}}
    \cup {[ASession("listen", NoArgument, FALSE) EXCEPT !.dicts = <<a, b>>] :
            a \in MCDicts, b \in {d \in MCDicts : Len(d.items) = 3 /\ d.items[2].items[1].kind = "array"}}

-----------------------------------------------------------------------------
(* Device trees of up to four nodes                                        *)

Counts(d, p, c) == [part |-> "counts", depth |-> d, properties |-> p, children |-> c, length |-> 0, zeros |-> FALSE]
AProperty(d, n, z) ==
    [part |-> "property", depth |-> d, properties |-> 0, children |-> 0, length |-> n, zeros |-> z]
Properties(d) == {AProperty(d, n, z) : n \in {0, 3, 4, 8, 9, 16 + 5}, z \in BOOLEAN}
TreeParts ==
    {<<Counts(0, 0, 0)>>}
    \cup {<<Counts(0, 2, 0), a, b>> : a, b \in Properties(0)}
    \cup {<<Counts(0, 1, 2), a, Counts(1, 1, 1), b, Counts(2, 1, 0), c, Counts(1, 1, 0), a2>> :
            a \in Properties(0), b, a2 \in Properties(1), c \in Properties(2)}
MCTrees ==
    {[header |-> TRUE, parts |-> q, cut |-> 0] :
        q \in {r \in TreeParts : Len(r) = 8 => r[8].zeros /\ ~r[6].zeros /\ ~r[4].zeros}}
    \cup {[header |-> h, parts |-> q, cut |-> c] :
            h \in BOOLEAN, c \in 1 .. 3, q \in {r \in TreeParts : Len(r) = 3}}

-----------------------------------------------------------------------------
(* Images of up to four tags, with trees of up to three nodes              *)

ANode(d, n, c) ==
    [part |-> "node", depth |-> d, properties |-> n, children |-> c, named |-> FALSE, length |-> 0, closed |-> FALSE]
AnImageProperty(d, name, n, c) ==
    [part |-> "property", depth |-> d, properties |-> 0, children |-> 0, named |-> name, length |-> n, closed |-> c]
NameOf(d) == {AnImageProperty(d, TRUE, n, TRUE) : n \in {4, 7}}
ValueOf(d) == {AnImageProperty(d, FALSE, n, c) : n \in {0, 5, 8}, c \in BOOLEAN}
ImageTrees ==
    {<<ANode(0, 1, 0), a>> : a \in NameOf(0) \cup ValueOf(0)}
    \cup {<<ANode(0, 2, 0), b, a>> : a \in NameOf(0), b \in ValueOf(0)}
    \cup {<<ANode(0, 3, 0), a, b, b>> : a \in NameOf(0), b \in ValueOf(0)}
    \cup {<<ANode(0, 1, 2), a, ANode(1, 2, 1), b, c, ANode(2, 1, 0), e, ANode(1, 0, 0)>> :
            a \in NameOf(0), b \in NameOf(1), c \in ValueOf(1), e \in ValueOf(2)}
    \cup {<<ANode(0, 1, 2), a, ANode(1, 0, 0), ANode(1, 0, 0)>> : a \in ValueOf(0)}
    \cup {<<ANode(0, 1, 1), a, ANode(1, 1, 2), b, ANode(2, 1, 0), c, ANode(2, 1, 0), e>> :
            a \in NameOf(0), b \in NameOf(1), c, e \in NameOf(2)}
ATag(kind, dtre, t) == [kind |-> kind, dtre |-> dtre, tree |-> t]
TypeTags == {ATag("type", d, <<>>) : d \in BOOLEAN} \cup {ATag("other", FALSE, <<>>)}
Tails == {<<>>, <<ATag("zeros", FALSE, <<>>)>>}
MCImages ==
    {[magic |-> TRUE, dump |-> TRUE, tags |-> <<ATag("type", TRUE, <<>>), ATag("data", FALSE, t)>> \o z] :
        t \in ImageTrees, z \in Tails}
    \cup {[magic |-> m, dump |-> d, tags |-> <<a, ATag("data", FALSE, t), b, ATag("data", FALSE, t)>>] :
            m, d \in BOOLEAN, a, b \in TypeTags, t \in {u \in ImageTrees : Len(u) = 2}}

-----------------------------------------------------------------------------
(* A tool that a behaviour does not exercise                               *)

NothingFound == CHOOSE j \in JTools : j.comp = {}
OjtoolIdle ==
    /\ listing = <<>> /\ jtool = NothingFound
    /\ upto = 1 /\ rip = 0 /\ saved = 0 /\ hexNum = 0 /\ otoolKnewThis = FALSE /\ printed = <<>>
SmutIdle == smbios = <<>> /\ Offset = 0 /\ structures = <<>>
VmmapIdle ==
    /\ regions = <<>> /\ changes = 0 /\ vmmap = "done" /\ pending = <<>> /\ told = <<>> /\ images = "none"
StackshotIdle ==
    /\ snapshot = [granted |-> FALSE, magic |-> FALSE, items |-> <<>>]
    /\ stackshot = "done" /\ off = 0 /\ inContainer = 0 /\ Output = "garbage" /\ report = <<>>
StackSnapshotIdle ==
    /\ trace = [granted |-> FALSE, kframe |-> 16, content |-> <<>>]
    /\ tracer = "failed" /\ traceOff = 0 /\ is64bit = FALSE /\ warn = FALSE /\ traceLines = <<>>
LsdtripIdle ==
    /\ session = ASession("", NoArgument, FALSE)
    /\ lsdtrip = "done" /\ next = 0 /\ calls = <<>> /\ buf = "" /\ shown = <<>>
    /\ advertising = TRUE /\ status = 0
ImagineIdle ==
    /\ image = [magic |-> FALSE, dump |-> FALSE, tags |-> <<>>]
    /\ imagine = "failed" /\ tagAt = 1 /\ imageType = FALSE /\ treeCalls = <<>> /\ imageLines = <<>>
DtizeIdle ==
    /\ tree = [header |-> FALSE, parts |-> <<>>, cut |-> 0]
    /\ dtize = "done" /\ place = 0 /\ nodes = <<>> /\ indent = 0 /\ propertyLines = <<>>
=============================================================================
