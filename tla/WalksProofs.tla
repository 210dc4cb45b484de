----------------------------- MODULE WalksProofs ------------------------------
(***************************************************************************)
(* Proofs about the programs that walk over a structure made elsewhere:    *)
(* the lines of ojtool, the regions of vmmap, the snapshots of all threads *)
(* that stackshot and 5-2-stack-snapshot print, the device trees of dtize  *)
(* and imagine, and the structures of smut.                                *)
(***************************************************************************)
EXTENDS Ojtool, Smut, Vmmap, ThreadSnapshots, DeviceTrees, InductionLemmas,
        SequenceTheorems, FiniteSetTheorems, TLAPS

-----------------------------------------------------------------------------
(* ojtool                                                                  *)

OjtoolSpec == OjtoolInit /\ [][OjtoolNext]_ojtoolVars

Words == {"rip", "objc", "string", "got", "again", "function",
          "symbol", "not a stub", "(null)", "stub", "verbatim"}
Out == [line : Nat, what : Words, value : Int]

Kept == IF saved = 0 THEN 0 ELSE 1

\* The number kept is that of the line before.
OjtoolInv ==
    /\ listing \in Seq(OtoolLine) /\ jtool \in JTool
    /\ upto \in 1 .. Len(listing) + 1 /\ rip \in Nat
    /\ saved \in {0, upto - 1} /\ hexNum \in Int
    /\ saved # 0 => listing[saved].ref # NoNumber /\ hexNum = listing[saved].ref
    /\ printed \in Seq(Out) /\ Resolves(printed, upto - 1 - Kept)

\* One more entry: of the next line, or no line of its own.
LEMMA OneMoreLine ==
    ASSUME NEW shown \in Seq(Out), NEW n \in Nat, Resolves(shown, n), NEW e \in Out
    PROVE  /\ Append(shown, e) \in Seq(Out)
           /\ e.line = 0 \/ e.what = "again" => Resolves(Append(shown, e), n)
           /\ /\ e.line = n + 1 /\ e.what # "again"
              /\ listing[n + 1].ref # NoNumber /\ listing[n + 1 + 1].address # 0 =>
                    e.value = listing[n + 1 + 1].address + listing[n + 1].ref
              => Resolves(Append(shown, e), n + 1)
  <1> DEFINE more == Append(shown, e)
             last == Len(shown) + 1
  <1>1. /\ more \in Seq(Out) /\ Len(shown) \in Nat /\ DOMAIN shown = 1 .. Len(shown)
        /\ DOMAIN more = 1 .. last /\ more[last] = e
        /\ \A k \in 1 .. Len(shown) : more[k] = shown[k]
    OBVIOUS
  <1>2. \A k \in 1 .. last : k \in 1 .. Len(shown) \/ k = last
    BY <1>1
  <1> HIDE DEF more
  <1>3. ASSUME e.line = 0 \/ e.what = "again" PROVE Resolves(more, n)
    <2>1. PassedAt(more) = PassedAt(shown) /\ PassedAt(shown) \subseteq 1 .. Len(shown)
      BY <1>1, <1>2, <1>3 DEF PassedAt
    <2>2. \A k \in PassedAt(shown) : more[k] = shown[k]
      BY <1>1, <2>1
    <2>3. {more[k].line : k \in PassedAt(more)} = {shown[k].line : k \in PassedAt(shown)}
      BY <2>1, <2>2
    <2> QED  BY <2>1, <2>2, <2>3 DEF Resolves
  <1>4. ASSUME e.line = n + 1, e.what # "again",
               listing[n + 1].ref # NoNumber /\ listing[n + 1 + 1].address # 0 =>
                    e.value = listing[n + 1 + 1].address + listing[n + 1].ref
        PROVE  Resolves(more, n + 1)
    <2>1. PassedAt(more) = PassedAt(shown) \cup {last} /\ PassedAt(shown) \subseteq 1 .. Len(shown)
      BY <1>1, <1>2, <1>4 DEF PassedAt
    <2>2. \A k \in PassedAt(shown) : more[k] = shown[k] /\ shown[k].line \in 1 .. n /\ k < last
      BY <1>1, <2>1 DEF Resolves
    <2>3. {more[k].line : k \in PassedAt(more)} = 1 .. n + 1
      <3>1. {more[k].line : k \in PassedAt(more)} = {shown[k].line : k \in PassedAt(shown)} \cup {n + 1}
        BY <1>1, <1>4, <2>1, <2>2
      <3>2. {shown[k].line : k \in PassedAt(shown)} = 1 .. n
        BY DEF Resolves
      <3>3. (1 .. n) \cup {n + 1} = 1 .. n + 1
        OBVIOUS
      <3>4. {more[k].line : k \in PassedAt(more)} = (1 .. n) \cup {n + 1}
        BY <3>1, <3>2, Zenon
      <3> QED  BY <3>3, <3>4, Zenon
    <2>4. ASSUME NEW j \in PassedAt(more), NEW k \in PassedAt(more), j < k
          PROVE  more[j].line < more[k].line
      <3>1. CASE k = last
        <4>1. j # last /\ j \in PassedAt(shown)
          BY <1>1, <2>1, <2>4, <3>1
        <4>2. more[j].line \in 1 .. n /\ more[k].line = n + 1
          BY <1>1, <1>4, <2>2, <3>1, <4>1
        <4> QED  BY <4>2
      <3>2. CASE k # last
        <4>1. j \in PassedAt(shown) /\ k \in PassedAt(shown)
          BY <1>1, <2>1, <2>2, <2>4, <3>2
        <4> QED  BY <2>2, <2>4, <4>1 DEF Resolves
      <3> QED  BY <3>1, <3>2
    <2>5. ASSUME NEW k \in PassedAt(more),
                 listing[more[k].line].ref # NoNumber, listing[more[k].line + 1].address # 0
          PROVE  more[k].value = listing[more[k].line + 1].address + listing[more[k].line].ref
      <3>1. CASE k = last
        BY <1>1, <1>4, <2>5, <3>1
      <3>2. CASE k # last
        BY <2>1, <2>2, <2>5, <3>2 DEF Resolves
      <3> QED  BY <3>1, <3>2
    <2> QED  BY <2>3, <2>4, <2>5 DEF Resolves
  <1> QED  BY <1>1, <1>3, <1>4 DEF more

LEMMA Concats ==
    ASSUME NEW S, NEW shown \in Seq(S)
    PROVE  /\ shown \o <<>> = shown
           /\ \A e \in S : shown \o <<e>> = Append(shown, e)
           /\ \A d, e \in S : shown \o <<d, e>> = Append(Append(shown, d), e)
  <1>1. ASSUME NEW e \in S PROVE shown \o <<e>> = Append(shown, e)
    BY AppendIsConcat
  <1>2. ASSUME NEW d \in S, NEW e \in S PROVE shown \o <<d, e>> = Append(Append(shown, d), e)
    <2>1. <<d>> \in Seq(S) /\ <<e>> \in Seq(S) /\ <<d, e>> = <<d>> \o <<e>>
      <3>1. <<d>> \in Seq(S) /\ <<e>> \in Seq(S) /\ <<d, e>> = Append(<<d>>, e)
        OBVIOUS
      <3> QED  BY <3>1, AppendIsConcat
    <2>2. shown \o <<d, e>> = (shown \o <<d>>) \o <<e>>
      BY <2>1, ConcatAssociative
    <2>3. Append(shown, d) \in Seq(S) /\ shown \o <<d>> = Append(shown, d)
      BY <1>1
    <2> QED  BY <2>2, <2>3, AppendIsConcat
  <1> QED  BY <1>1, <1>2, ConcatEmptySeq

LEMMA LineIs ==
    ASSUME OjtoolInv, upto <= Len(listing)
    PROVE  /\ upto \in 1 .. Len(listing) /\ Len(listing) \in Nat
           /\ input = listing[upto] /\ input.address \in Nat /\ input.target \in Nat
           /\ input.ref \in Int \cup {NoNumber}
           /\ Rip \in Nat /\ Resolved \in Int
           /\ input.address # 0 => Rip = input.address
  <1>1. upto \in 1 .. Len(listing) /\ Len(listing) \in Nat /\ input \in OtoolLine
    BY DEF OjtoolInv, input
  <1>2. Rip \in Nat
    BY <1>1 DEF OjtoolInv, OtoolLine, Rip
  <1>3. Resolved \in Int
    BY <1>2 DEF OjtoolInv, Resolved
  <1>4. input.address # 0 => Rip = input.address
    BY DEF Rip
  <1>5. input.address \in Nat /\ input.target \in Nat /\ input.ref \in Int \cup {NoNumber}
    BY <1>1 DEF OtoolLine
  <1>6. input = listing[upto]
    BY DEF input
  <1> QED  BY <1>1, <1>2, <1>3, <1>4, <1>5, <1>6

\* The line kept is that before, and its number is relative to the address read now.
LEMMA FlushedIs ==
    ASSUME OjtoolInv, upto <= Len(listing)
    PROVE  /\ printed \o Flushed \in Seq(Out)
           /\ Resolves(printed \o Flushed, upto - 1)
  <1>1. /\ upto \in 1 .. Len(listing) /\ Len(listing) \in Nat /\ Resolved \in Int
        /\ printed \in Seq(Out) /\ Resolves(printed, upto - 1 - Kept)
    BY LineIs DEF OjtoolInv
  <1>2. CASE saved = 0
    <2>1. Flushed = <<>> /\ Kept = 0
      BY <1>2 DEF Flushed, Kept
    <2>2. upto - 1 - 0 = upto - 1
      BY <1>1
    <2> QED  BY <1>1, <2>1, <2>2, Concats
  <1>3. CASE saved # 0
    <2>1. /\ saved = upto - 1 /\ saved \in Nat /\ saved + 1 = upto /\ Kept = 1
          /\ upto - 1 - Kept \in Nat /\ upto - 1 - Kept + 1 = saved /\ saved - 1 \in Nat
          /\ upto - 1 - Kept = saved - 1 /\ saved - 1 + 1 = saved
      BY <1>1, <1>3 DEF OjtoolInv, Kept
    <2>2. listing[saved + 1].address # 0 => Resolved = listing[saved + 1].address + listing[saved].ref
      BY <1>1, <1>3, <2>1, LineIs DEF OjtoolInv, Resolved, input
    <2>3. ASSUME NEW what \in Words, what # "again"
          PROVE  /\ Entry(saved, what, Resolved) \in Out
                 /\ printed \o <<Entry(saved, what, Resolved)>> \in Seq(Out)
                 /\ printed \o <<Entry(saved, what, Resolved)>> = Append(printed, Entry(saved, what, Resolved))
                 /\ Resolves(printed \o <<Entry(saved, what, Resolved)>>, saved)
      <3> DEFINE e == Entry(saved, what, Resolved)
      <3>1. e \in Out /\ e.line = saved /\ e.what = what /\ e.value = Resolved
        BY <1>1, <2>1 DEF Entry, Out, Words
      <3> HIDE DEF e
      <3>2. printed \o <<e>> = Append(printed, e)
        BY <1>1, <3>1, Concats
      <3>3. Append(printed, e) \in Seq(Out) /\ Resolves(Append(printed, e), saved - 1 + 1)
        BY <1>1, <2>1, <2>2, <2>3, <3>1, OneMoreLine
      <3> QED  BY <2>1, <3>1, <3>2, <3>3 DEF e
    <2>4. CASE \E what \in {"objc", "string", "rip"} : Flushed = <<Entry(saved, what, Resolved)>>
      <3>1. PICK what \in {"objc", "string", "rip"} : Flushed = <<Entry(saved, what, Resolved)>>
        BY <2>4
      <3>2. what \in Words /\ what # "again"
        BY DEF Words
      <3> QED  BY <2>1, <2>3, <3>1, <3>2
    <2>5. CASE Flushed = <<Entry(saved, "got", Resolved), Entry(saved, "again", Resolved)>>
      <3> DEFINE e == Entry(saved, "got", Resolved)
                 a == Entry(saved, "again", Resolved)
      <3>1. e \in Out /\ a \in Out /\ a.what = "again"
        BY <1>1, <2>1 DEF Entry, Out, Words
      <3>2. printed \o <<e>> = Append(printed, e) /\ Resolves(Append(printed, e), saved)
        <4>1. "got" \in Words /\ "got" # "again"
          BY DEF Words
        <4> QED  BY <2>3, <4>1
      <3> HIDE DEF e, a
      <3>3. printed \o <<e, a>> = Append(Append(printed, e), a) /\ Append(printed, e) \in Seq(Out)
        BY <1>1, <3>1, Concats
      <3>4. /\ Append(Append(printed, e), a) \in Seq(Out)
            /\ Resolves(Append(Append(printed, e), a), saved)
        BY <2>1, <3>1, <3>2, <3>3, OneMoreLine
      <3> QED  BY <2>1, <2>5, <3>3, <3>4 DEF e, a
    <2> QED  BY <1>3, <2>4, <2>5 DEF Flushed
  <1> QED  BY <1>2, <1>3

LEMMA KeepKeeps ==
    ASSUME OjtoolInv, KeepLine
    PROVE  OjtoolInv'
  <1>1. /\ upto <= Len(listing) /\ input.ref # NoNumber /\ printed' = printed \o Flushed
        /\ saved' = upto /\ hexNum' = input.ref /\ rip' = Rip /\ upto' = upto + 1
        /\ listing' = listing /\ jtool' = jtool
    BY DEF KeepLine, ReadNext
  <1>2. /\ upto \in 1 .. Len(listing) /\ Len(listing) \in Nat /\ input = listing[upto]
        /\ input.ref \in Int /\ Rip \in Nat
    BY <1>1, LineIs
  <1>3. printed' \in Seq(Out) /\ Resolves(printed', upto - 1)
    BY <1>1, FlushedIs
  <1>4. Kept' = 1 /\ upto' - 1 - 1 = upto - 1 /\ upto' - 1 = upto
    BY <1>1, <1>2 DEF Kept
  <1>5. Resolves(printed, upto - 1 - Kept)'
    BY <1>1, <1>3, <1>4 DEF Resolves
  <1> QED  BY <1>1, <1>2, <1>3, <1>4, <1>5 DEF OjtoolInv

LEMMA PassKeeps ==
    ASSUME OjtoolInv, PassLine
    PROVE  OjtoolInv'
  <1>1. /\ upto <= Len(listing) /\ input.ref = NoNumber
        /\ printed' = printed \o Flushed \o FunctionName \o PassedOn
        /\ saved' = 0 /\ hexNum' = 0 /\ rip' = Rip /\ upto' = upto + 1
        /\ listing' = listing /\ jtool' = jtool
    BY DEF PassLine, ReadNext
  <1>2. /\ upto \in 1 .. Len(listing) /\ Len(listing) \in Nat /\ input = listing[upto]
        /\ input.target \in Nat /\ Rip \in Nat /\ upto - 1 \in Nat /\ upto - 1 + 1 = upto
    BY <1>1, LineIs
  <1> DEFINE a == printed \o Flushed
             b == a \o FunctionName
  <1>3. a \in Seq(Out) /\ Resolves(a, upto - 1)
    BY <1>1, FlushedIs
  <1> HIDE DEF a
  <1>4. b \in Seq(Out) /\ Resolves(b, upto - 1)
    <2> DEFINE e == Entry(0, "function", Rip)
    <2>1. e \in Out /\ e.line = 0
      BY <1>2 DEF Entry, Out, Words
    <2>2. FunctionName = <<>> \/ FunctionName = <<e>>
      BY DEF FunctionName
    <2> HIDE DEF e
    <2>3. b = a \/ b = Append(a, e)
      BY <1>3, <2>1, <2>2, Concats
    <2> QED  BY <1>2, <1>3, <2>1, <2>3, OneMoreLine
  <1> HIDE DEF b
  <1>5. PICK e \in Out : PassedOn = <<e>> /\ e.line = upto /\ e.what # "again"
    <2>1. StubNumber \in Int
      <3>1. jtool.stubsStart \in Nat
        BY DEF OjtoolInv, JTool
      <3>2. \A n \in Int : n \div 6 \in Int
        OBVIOUS
      <3>3. input.target - jtool.stubsStart \in Int
        BY <1>2, <3>1
      <3> QED  BY <3>2, <3>3 DEF StubNumber
    <2>2. ASSUME NEW what \in Words, what # "again", NEW value \in Int,
                 PassedOn = <<Entry(upto, what, value)>>
          PROVE  \E e \in Out : PassedOn = <<e>> /\ e.line = upto /\ e.what # "again"
      <3>1. Entry(upto, what, value) \in Out
        BY <1>2 DEF Entry, Out
      <3>2. Entry(upto, what, value).line = upto /\ Entry(upto, what, value).what # "again"
        BY <2>2 DEF Entry
      <3> QED  BY <2>2, <3>1, <3>2
    <2>3. \A what \in {"symbol", "not a stub", "(null)", "stub", "verbatim"} :
            what \in Words /\ what # "again"
      BY DEF Words
    <2>4. \/ PassedOn = <<Entry(upto, "symbol", input.target)>>
          \/ PassedOn = <<Entry(upto, "not a stub", StubNumber)>>
          \/ PassedOn = <<Entry(upto, "(null)", StubNumber)>>
          \/ PassedOn = <<Entry(upto, "stub", StubNumber)>>
          \/ PassedOn = <<Entry(upto, "verbatim", 0)>>
      BY DEF PassedOn
    <2>5. input.target \in Int /\ 0 \in Int
      BY <1>2
    <2> QED  BY <2>1, <2>2, <2>3, <2>4, <2>5
  <1>6. printed' = Append(b, e)
    BY <1>1, <1>4, <1>5, Concats DEF a, b
  <1>7. printed' \in Seq(Out) /\ Resolves(printed', upto)
    BY <1>1, <1>2, <1>4, <1>5, <1>6, OneMoreLine
  <1>8. Kept' = 0 /\ upto' - 1 - 0 = upto
    BY <1>1, <1>2 DEF Kept
  <1>9. Resolves(printed, upto - 1 - Kept)'
    BY <1>1, <1>7, <1>8 DEF Resolves
  <1>10. /\ listing' \in Seq(OtoolLine) /\ jtool' \in JTool
         /\ upto' \in 1 .. Len(listing') + 1 /\ rip' \in Nat
    BY <1>1, <1>2 DEF OjtoolInv
  <1>11. saved' \in {0, upto' - 1} /\ hexNum' \in Int
    BY <1>1
  <1> QED  BY <1>1, <1>7, <1>9, <1>10, <1>11 DEF OjtoolInv

\* Lines 464-777: every line is passed on, in order and once, and what a number
\* stands for is relative to the next instruction, which is read later.
THEOREM OjtoolResolves == OjtoolSpec => []LinesAreResolved
  <1>1. OjtoolInit => OjtoolInv
    <2> SUFFICES ASSUME OjtoolInit PROVE OjtoolInv
      OBVIOUS
    <2>1. listing \in Seq(OtoolLine) /\ jtool \in JTool
      BY OjtoolAssumption DEF OjtoolInit
    <2>2. printed = <<>> /\ <<>> \in Seq(Out) /\ upto = 1 /\ saved = 0
      BY EmptySeq DEF OjtoolInit
    <2>3. PassedAt(<<>>) = {} /\ 1 .. 0 = {}
      BY DEF PassedAt
    <2>4. Resolves(printed, upto - 1 - Kept)
      <3>1. upto - 1 - Kept = 0
        BY <2>2 DEF Kept
      <3> QED  BY <2>2, <2>3, <3>1 DEF Resolves
    <2> QED  BY <2>1, <2>2, <2>4 DEF OjtoolInit, OjtoolInv
  <1>2. OjtoolInv /\ [OjtoolNext]_ojtoolVars => OjtoolInv'
    <2> SUFFICES ASSUME OjtoolInv, [OjtoolNext]_ojtoolVars PROVE OjtoolInv'
      OBVIOUS
    <2>1. CASE KeepLine
      BY <2>1, KeepKeeps
    <2>2. CASE PassLine
      BY <2>2, PassKeeps
    <2>3. CASE UNCHANGED ojtoolVars
      BY <2>3 DEF ojtoolVars, OjtoolInv, Resolves, Kept
    <2> QED  BY <2>1, <2>2, <2>3 DEF OjtoolNext
  <1>3. OjtoolInv => LinesAreResolved
    BY DEF OjtoolInv, LinesAreResolved, Kept
  <1> QED  BY <1>1, <1>2, <1>3, PTL DEF OjtoolSpec

-----------------------------------------------------------------------------
(* vmmap                                                                   *)

VmmapSpec == VmmapInit /\ [][VmmapNext]_vmmapVars

Lines == [from : Nat, to : Nat, info : Region, subregions : Nat]

\* The line is for the regions from the lo-th to the hi-th.
RunIs(space, run, lo, hi) ==
    /\ lo <= hi /\ run.subregions = hi - lo + 1
    /\ run.from = space[lo].start /\ run.to = space[hi].end
    /\ \A j \in lo .. hi : space[j].protection = run.info.protection
    /\ \A a \in run.from .. run.to - 1 :
          \E j \in lo .. hi : a \in space[j].start .. space[j].end - 1
IsRun(space, run) == \E lo, hi \in DOMAIN space : RunIs(space, run, lo, hi)

Asking == vmmap \in {"ask", "again"}
Seen(region, address) == 1 < region.end /\ region.end <= address
IsTold(runs, region) == \E k \in DOMAIN runs : Covers(runs[k], region)

ToldInOrder(runs) == \A j, k \in DOMAIN runs : j < k => runs[j].to < runs[k].to

\* The lines up to an address.
ToldUpTo(space, runs, address) ==
    \A j \in DOMAIN space : Seen(space[j], address) => IsTold(runs, space[j])

\* A process that leaves its regions alone.
LeftAlone ==
    changes = 0 =>
        /\ \A k \in DOMAIN told : IsRun(regions, told[k])
        /\ told # <<>> => ToldUpTo(regions, told, told[Len(told)].to)
        /\ Asking => IsRun(regions, pending) /\ ToldUpTo(regions, Append(told, pending), pending.to)

VmmapInv ==
    /\ regions \in AddressSpaces /\ changes \in Nat
    /\ told \in Seq(Lines) /\ ToldInOrder(told)
    /\ vmmap \in {"first", "ask", "again", "done"}
    /\ vmmap = "first" => told = <<>>
    /\ Asking => /\ pending \in Lines /\ pending.to <= Top
                 /\ ToldInOrder(Append(told, pending))
    /\ LeftAlone

LEMMA SpacesAre ==
    ASSUME NEW space \in AddressSpaces
    PROVE  /\ Len(space) \in Nat /\ DOMAIN space = 1 .. Len(space)
           /\ \A k \in DOMAIN space :
                /\ space[k] \in Region /\ space[k].start \in Nat /\ space[k].end \in Nat
                /\ space[k].start < space[k].end /\ space[k].end <= Top
           /\ \A j, k \in DOMAIN space : j < k => space[j].end <= space[k].start
  <1>1. space \in Seq(Region)
    BY VmmapAssumption DEF VmmapAssumption
  <1>2. Len(space) \in Nat /\ DOMAIN space = 1 .. Len(space)
        /\ \A k \in DOMAIN space : space[k] \in Region
    BY <1>1
  <1>3. \A k \in DOMAIN space : space[k].start \in Nat /\ space[k].end \in Nat
    BY <1>2 DEF Region
  <1> QED  BY <1>2, <1>3, VmmapAssumption DEF VmmapAssumption

\* The region asked for is the first that ends beyond the address.
LEMMA FirstBeyond ==
    ASSUME regions \in AddressSpaces, NEW address \in Nat, Beyond(address) # {}
    PROVE  \E m \in DOMAIN regions :
              /\ RegionAt(address) = regions[m] /\ regions[m].end > address
              /\ \A j \in DOMAIN regions : j < m => regions[j].end <= address
  <1> DEFINE B == Beyond(address)
  <1>1. DOMAIN regions = 1 .. Len(regions) /\ Len(regions) \in Nat
        /\ \A k \in DOMAIN regions : regions[k].end \in Nat
    BY SpacesAre
  <1>2. B \subseteq Nat /\ B # {}
    BY <1>1 DEF Beyond
  <1>3. \E k \in B : \A j \in B : k <= j
    BY <1>2, LeastElement
  <1> DEFINE m == CHOOSE k \in B : \A j \in B : k <= j
  <1>4. m \in B /\ \A j \in B : m <= j
    BY <1>3
  <1>5. RegionAt(address) = regions[m]
    BY DEF RegionAt
  <1> HIDE DEF m
  <1>6. m \in DOMAIN regions /\ regions[m].end > address
    BY <1>4 DEF Beyond
  <1>7. ASSUME NEW j \in DOMAIN regions, j < m PROVE regions[j].end <= address
    <2>1. j \notin B
      BY <1>1, <1>4, <1>6, <1>7
    <2>2. ~(regions[j].end > address)
      BY <2>1 DEF Beyond
    <2> QED  BY <1>1, <2>2
  <1> QED  BY <1>5, <1>6, <1>7

\* Only the regions a line was made of lie within it.
LEMMA RunCovers ==
    ASSUME NEW space \in AddressSpaces, NEW run, NEW lo \in DOMAIN space, NEW hi \in DOMAIN space,
           RunIs(space, run, lo, hi)
    PROVE  {j \in DOMAIN space : Covers(run, space[j])} = lo .. hi
  <1>1. /\ DOMAIN space = 1 .. Len(space) /\ Len(space) \in Nat
        /\ \A k \in DOMAIN space : space[k].start \in Nat /\ space[k].end \in Nat
                                     /\ space[k].start < space[k].end
        /\ \A j, k \in DOMAIN space : j < k => space[j].end <= space[k].start
    BY SpacesAre
  <1>2. run.from = space[lo].start /\ run.to = space[hi].end /\ lo <= hi
    BY DEF RunIs
  <1>3. lo .. hi \subseteq DOMAIN space
    BY <1>1
  <1>4. ASSUME NEW j \in lo .. hi PROVE Covers(run, space[j])
    <2>1. j \in DOMAIN space /\ (j = lo \/ lo < j) /\ (j = hi \/ j < hi)
      BY <1>1, <1>3
    <2>2. space[lo].start <= space[j].start
      BY <1>1, <2>1
    <2>3. space[j].end <= space[hi].end
      BY <1>1, <2>1
    <2> QED  BY <1>2, <2>2, <2>3 DEF Covers
  <1>5. ASSUME NEW j \in DOMAIN space, Covers(run, space[j]) PROVE j \in lo .. hi
    <2>1. space[lo].start <= space[j].start /\ space[j].end <= space[hi].end
      BY <1>2, <1>5 DEF Covers
    <2>2. ~(j < lo)
      BY <1>1, <2>1
    <2>3. ~(hi < j)
      BY <1>1, <2>1
    <2> QED  BY <1>1, <2>2, <2>3
  <1> QED  BY <1>3, <1>4, <1>5

\* One line more, and what the others are afterwards.
LEMMA LineMore ==
    ASSUME NEW runs \in Seq(Lines), NEW run \in Lines
    PROVE  /\ Append(runs, run) \in Seq(Lines) /\ Append(runs, run) # <<>>
           /\ Len(Append(runs, run)) = Len(runs) + 1 /\ Append(runs, run)[Len(runs) + 1] = run
           /\ DOMAIN runs = 1 .. Len(runs) /\ Len(runs) \in Nat
           /\ DOMAIN Append(runs, run) = 1 .. Len(runs) + 1
           /\ \A k \in DOMAIN runs : runs[k] \in Lines /\ Append(runs, run)[k] = runs[k]
  OBVIOUS

\* A line that ends further on may follow instead.
LEMMA OrderKept ==
    ASSUME NEW runs \in Seq(Lines), NEW run \in Lines, NEW next \in Lines,
           ToldInOrder(Append(runs, run)), run.to < next.to
    PROVE  ToldInOrder(Append(runs, next)) /\ ToldInOrder(Append(Append(runs, run), next))
  <1> DEFINE one == Append(runs, run)
             other == Append(runs, next)
             two == Append(one, next)
             n == Len(runs)
  <1>1. /\ one \in Seq(Lines) /\ Len(one) = n + 1 /\ one[n + 1] = run /\ n \in Nat
        /\ DOMAIN one = 1 .. n + 1 /\ DOMAIN runs = 1 .. n
        /\ \A k \in 1 .. n : runs[k] \in Lines /\ one[k] = runs[k]
    BY LineMore
  <1>2. DOMAIN other = 1 .. n + 1 /\ other[n + 1] = next /\ \A k \in 1 .. n : other[k] = runs[k]
    BY <1>1, LineMore
  <1>3. DOMAIN two = 1 .. n + 2 /\ two[n + 2] = next /\ \A k \in 1 .. n + 1 : two[k] = one[k]
    BY <1>1, LineMore
  <1> HIDE DEF one, other, two, n
  <1>4. \A k \in 1 .. n : runs[k].to \in Nat /\ runs[k].to < run.to
    <2>1. \A k \in 1 .. n : k \in DOMAIN one /\ n + 1 \in DOMAIN one /\ k < n + 1
      BY <1>1
    <2> QED  BY <1>1, <2>1 DEF ToldInOrder, one, Lines
  <1>5. run.to \in Nat /\ next.to \in Nat /\ run.to < next.to
    BY DEF Lines
  <1>6. \A j, k \in 1 .. n + 1 : j < k => one[j].to < one[k].to
    BY <1>1 DEF ToldInOrder, one
  <1>7. ToldInOrder(other)
    <2> SUFFICES ASSUME NEW j \in 1 .. n + 1, NEW k \in 1 .. n + 1, j < k PROVE other[j].to < other[k].to
      BY <1>2 DEF ToldInOrder
    <2>1. j \in 1 .. n /\ (k = n + 1 \/ k \in 1 .. n)
      BY <1>1
    <2>2. CASE k = n + 1
      BY <1>2, <1>4, <1>5, <2>1, <2>2
    <2>3. CASE k \in 1 .. n
      <3>1. one[j].to < one[k].to
        BY <1>6
      <3> QED  BY <1>1, <1>2, <2>1, <2>3, <3>1
    <2> QED  BY <2>1, <2>2, <2>3
  <1>8. ToldInOrder(two)
    <2> SUFFICES ASSUME NEW j \in 1 .. n + 2, NEW k \in 1 .. n + 2, j < k PROVE two[j].to < two[k].to
      BY <1>3 DEF ToldInOrder
    <2>1. j \in 1 .. n + 1 /\ (j = n + 1 \/ j \in 1 .. n) /\ (k = n + 2 \/ k \in 1 .. n + 1)
      BY <1>1
    <2>2. CASE k = n + 2
      <3>1. two[j] = one[j] /\ (one[j] = run \/ (one[j].to \in Nat /\ one[j].to < run.to))
        BY <1>1, <1>3, <1>4, <2>1
      <3> QED  BY <1>3, <1>5, <2>2, <3>1
    <2>3. CASE k \in 1 .. n + 1
      BY <1>3, <1>6, <2>1, <2>3
    <2> QED  BY <2>1, <2>2, <2>3
  <1> QED  BY <1>7, <1>8 DEF one, other, two

\* The first line, and one of one region.
LEMMA OneRegion ==
    ASSUME NEW space \in AddressSpaces, NEW m \in DOMAIN space
    PROVE  /\ Run(space[m]) \in Lines /\ Run(space[m]).to = space[m].end
           /\ IsRun(space, Run(space[m]))
  <1> DEFINE run == Run(space[m])
  <1>1. /\ DOMAIN space = 1 .. Len(space) /\ Len(space) \in Nat /\ space[m] \in Region
        /\ space[m].start \in Nat /\ space[m].end \in Nat
    BY SpacesAre
  <1>2. /\ run.from = space[m].start /\ run.to = space[m].end /\ run.info = space[m]
        /\ run.subregions = 1 /\ run \in Lines
    BY <1>1 DEF Run, Lines
  <1> HIDE DEF run
  <1>3. m \in Int /\ m .. m = {m} /\ m - m + 1 = 1 /\ m <= m
    BY <1>1
  <1>4. RunIs(space, run, m, m)
    BY <1>2, <1>3 DEF RunIs
  <1> QED  BY <1>2, <1>4 DEF IsRun, run

\* An adjacent region is joined to the line.
LEMMA RunGrows ==
    ASSUME NEW space \in AddressSpaces, NEW run \in Lines, NEW next \in Lines, NEW m \in DOMAIN space,
           IsRun(space, run), space[m].start = run.to, space[m].protection = run.info.protection,
           \A j \in DOMAIN space : j < m => space[j].end <= run.to,
           next.from = run.from, next.to = space[m].end, next.info = run.info,
           next.subregions = run.subregions + 1
    PROVE  IsRun(space, next)
  <1>1. /\ DOMAIN space = 1 .. Len(space) /\ Len(space) \in Nat
        /\ \A k \in DOMAIN space : space[k].start \in Nat /\ space[k].end \in Nat
                                   /\ space[k].start < space[k].end
        /\ \A j, k \in DOMAIN space : j < k => space[j].end <= space[k].start
    BY SpacesAre
  <1>2. PICK lo \in DOMAIN space, hi \in DOMAIN space : RunIs(space, run, lo, hi)
    BY DEF IsRun
  <1>3. lo <= hi /\ run.subregions = hi - lo + 1 /\ run.from = space[lo].start /\ run.to = space[hi].end
    BY <1>2 DEF RunIs
  \* It is the one behind the last region of the line.
  <1>4. m = hi + 1
    <2>1. ~(m < hi)
      BY <1>1, <1>3
    <2>2. m # hi
      BY <1>1, <1>3
    <2>3. ASSUME hi + 1 < m PROVE FALSE
      <3>1. hi + 1 \in DOMAIN space /\ hi < hi + 1
        BY <1>1, <2>3
      <3>2. space[hi + 1].end <= space[hi].end /\ space[hi].end <= space[hi + 1].start
        BY <1>1, <1>3, <2>3, <3>1
      <3> QED  BY <1>1, <3>1, <3>2
    <2> QED  BY <1>1, <2>1, <2>2, <2>3
  <1>5. lo <= m /\ next.subregions = m - lo + 1 /\ next.from = space[lo].start
    BY <1>1, <1>3, <1>4
  <1>6. \A j \in lo .. m : j = m \/ j \in lo .. hi
    BY <1>1, <1>4
  <1>7. \A j \in lo .. m : space[j].protection = next.info.protection
    BY <1>2, <1>6 DEF RunIs
  <1>8. ASSUME NEW a \in next.from .. next.to - 1
        PROVE  \E j \in lo .. m : a \in space[j].start .. space[j].end - 1
    <2>1. CASE a < run.to
      <3>1. a \in run.from .. run.to - 1
        BY <1>1, <1>3, <2>1
      <3>2. PICK j \in lo .. hi : a \in space[j].start .. space[j].end - 1
        BY <1>2, <3>1 DEF RunIs
      <3>3. j \in lo .. m
        BY <1>1, <1>4
      <3> QED  BY <3>2, <3>3
    <2>2. CASE ~(a < run.to)
      <3>1. a \in space[m].start .. space[m].end - 1
        BY <1>1, <1>3, <2>2
      <3>2. m \in lo .. m
        BY <1>1, <1>5
      <3> QED  BY <3>1, <3>2
    <2> QED  BY <2>1, <2>2
  <1>9. RunIs(space, next, lo, m)
    BY <1>5, <1>7, <1>8 DEF RunIs
  <1> QED  BY <1>9 DEF IsRun

\* The lines go on without a region left out.
LEMMA UpToNext ==
    ASSUME NEW space \in AddressSpaces, NEW runs \in Seq(Lines), NEW run \in Lines, NEW next \in Lines,
           NEW m \in DOMAIN space,
           ToldUpTo(space, Append(runs, run), run.to),
           \A j \in DOMAIN space : j < m => space[j].end <= run.to,
           Covers(next, space[m]), next.to = space[m].end
    PROVE  /\ ToldUpTo(space, Append(Append(runs, run), next), next.to)
           /\ next.from = run.from /\ run.to <= next.to => ToldUpTo(space, Append(runs, next), next.to)
  <1> DEFINE one == Append(runs, run)
             other == Append(runs, next)
             two == Append(one, next)
             n == Len(runs)
  <1>1. /\ one \in Seq(Lines) /\ Len(one) = n + 1 /\ one[n + 1] = run /\ n \in Nat
        /\ DOMAIN one = 1 .. n + 1
        /\ \A k \in 1 .. n : one[k] = runs[k]
    BY LineMore
  <1>2. DOMAIN other = 1 .. n + 1 /\ other[n + 1] = next /\ \A k \in 1 .. n : other[k] = runs[k]
    BY <1>1, LineMore
  <1>3. DOMAIN two = 1 .. n + 2 /\ two[n + 2] = next /\ \A k \in 1 .. n + 1 : two[k] = one[k]
    BY <1>1, LineMore
  <1>4. /\ DOMAIN space = 1 .. Len(space) /\ Len(space) \in Nat
        /\ \A k \in DOMAIN space : space[k].start \in Nat /\ space[k].end \in Nat
                                   /\ space[k].start < space[k].end
        /\ \A j, k \in DOMAIN space : j < k => space[j].end <= space[k].start
    BY SpacesAre
  <1> HIDE DEF one, other, two, n
  \* It is the next region, or was told before.
  <1>5. ASSUME NEW j \in DOMAIN space, Seen(space[j], next.to)
        PROVE  j = m \/ IsTold(one, space[j])
    <2>1. ~(m < j)
      BY <1>4, <1>5 DEF Seen
    <2>2. CASE j < m
      <3>1. Seen(space[j], run.to)
        BY <1>5, <2>2 DEF Seen
      <3> QED  BY <3>1 DEF ToldUpTo, one
    <2> QED  BY <1>4, <2>1, <2>2
  <1>6. ToldUpTo(space, two, next.to)
    <2> SUFFICES ASSUME NEW j \in DOMAIN space, Seen(space[j], next.to) PROVE IsTold(two, space[j])
      BY DEF ToldUpTo
    <2>1. CASE j = m
      <3>1. n + 2 \in DOMAIN two /\ Covers(two[n + 2], space[j])
        BY <1>1, <1>3, <2>1
      <3> QED  BY <3>1 DEF IsTold
    <2>2. CASE IsTold(one, space[j])
      <3>1. PICK k \in 1 .. n + 1 : Covers(one[k], space[j])
        BY <1>1, <2>2 DEF IsTold
      <3>2. k \in DOMAIN two /\ Covers(two[k], space[j])
        BY <1>1, <1>3, <3>1
      <3> QED  BY <3>2 DEF IsTold
    <2> QED  BY <1>5, <2>1, <2>2
  <1>7. ASSUME next.from = run.from, run.to <= next.to PROVE ToldUpTo(space, other, next.to)
    <2> SUFFICES ASSUME NEW j \in DOMAIN space, Seen(space[j], next.to) PROVE IsTold(other, space[j])
      BY DEF ToldUpTo
    <2>1. n + 1 \in DOMAIN other
      BY <1>1, <1>2
    <2>2. CASE j = m
      <3>1. Covers(other[n + 1], space[j])
        BY <1>2, <2>2
      <3> QED  BY <2>1, <3>1 DEF IsTold
    <2>3. CASE IsTold(one, space[j])
      <3>1. PICK k \in 1 .. n + 1 : Covers(one[k], space[j])
        BY <1>1, <2>3 DEF IsTold
      <3>2. k \in 1 .. n \/ k = n + 1
        BY <1>1
      <3>3. CASE k \in 1 .. n
        <4>1. k \in DOMAIN other /\ Covers(other[k], space[j])
          BY <1>1, <1>2, <3>1, <3>3
        <4> QED  BY <4>1 DEF IsTold
      <3>4. CASE k = n + 1
        <4>1. run.from \in Nat /\ run.to \in Nat /\ next.to \in Nat
          BY DEF Lines
        <4>2. Covers(other[n + 1], space[j])
          BY <1>1, <1>2, <1>4, <1>7, <3>1, <3>4, <4>1 DEF Covers
        <4> QED  BY <2>1, <4>2 DEF IsTold
      <3> QED  BY <3>2, <3>3, <3>4
    <2> QED  BY <1>5, <2>2, <2>3
  <1> QED  BY <1>6, <1>7 DEF one, other, two

\* The next region is joined to the line, or the line is printed and begun anew.
LEMMA CompareKeeps ==
    ASSUME VmmapInv, Asking, Beyond(pending.to) # {}, Compare(RegionAt(pending.to)),
           regions' = regions, changes' = changes
    PROVE  VmmapInv'
  <1>0. /\ regions \in AddressSpaces /\ changes \in Nat /\ told \in Seq(Lines)
        /\ ToldInOrder(told) /\ pending \in Lines /\ pending.to <= Top
        /\ ToldInOrder(Append(told, pending)) /\ pending.to \in Nat
    BY DEF VmmapInv, Lines
  <1>1. PICK m \in DOMAIN regions :
            /\ RegionAt(pending.to) = regions[m] /\ regions[m].end > pending.to
            /\ \A j \in DOMAIN regions : j < m => regions[j].end <= pending.to
    BY <1>0, FirstBeyond
  <1>2. /\ regions[m] \in Region /\ regions[m].start \in Nat /\ regions[m].end \in Nat
        /\ regions[m].start < regions[m].end /\ regions[m].end <= Top
    BY <1>0, SpacesAre
  <1>3. changes = 0 =>
          /\ \A k \in DOMAIN told : IsRun(regions, told[k])
          /\ told # <<>> => ToldUpTo(regions, told, told[Len(told)].to)
          /\ IsRun(regions, pending) /\ ToldUpTo(regions, Append(told, pending), pending.to)
    BY DEF VmmapInv, LeftAlone
  <1>4. CASE Differs(regions[m])
    <2> DEFINE next == Run(regions[m])
               one == Append(told, pending)
    <2>1. told' = one /\ pending' = next /\ vmmap' \in {"ask", "done"}
      BY <1>1, <1>4 DEF Compare, Tell
    <2>2. next \in Lines /\ next.to = regions[m].end /\ IsRun(regions, next)
      BY <1>0, OneRegion
    <2>3. Covers(next, regions[m])
      BY <1>2 DEF Covers, Run
    <2> HIDE DEF next
    <2>4. /\ one \in Seq(Lines) /\ one # <<>> /\ one[Len(one)] = pending
          /\ DOMAIN one = 1 .. Len(told) + 1 /\ DOMAIN told = 1 .. Len(told) /\ Len(told) \in Nat
          /\ one[Len(told) + 1] = pending /\ \A k \in DOMAIN told : one[k] = told[k]
      BY <1>0, LineMore
    <2>5. ToldInOrder(Append(one, next))
      BY <1>0, <1>1, <2>2, OrderKept
    <2>6. ASSUME changes = 0 PROVE LeftAlone'
      <3>1. \A k \in DOMAIN one : IsRun(regions, one[k])
        <4> SUFFICES ASSUME NEW k \in DOMAIN one PROVE IsRun(regions, one[k])
          OBVIOUS
        <4>1. k \in DOMAIN told \/ k = Len(told) + 1
          BY <2>4
        <4> QED  BY <1>3, <2>4, <2>6, <4>1
      <3>2. ToldUpTo(regions, one, one[Len(one)].to)
        BY <1>3, <2>4, <2>6
      <3>3. ToldUpTo(regions, Append(one, next), next.to)
        BY <1>0, <1>1, <1>3, <2>2, <2>3, <2>6, UpToNext
      <3> HIDE DEF one
      <3> QED  BY <2>1, <2>2, <3>1, <3>2, <3>3 DEF LeftAlone
    <2> HIDE DEF one
    <2>7. LeftAlone'
      <3>1. CASE changes # 0
        BY <3>1 DEF LeftAlone
      <3> QED  BY <2>6, <3>1
    <2> QED  BY <1>0, <1>2, <2>1, <2>2, <2>4, <2>5, <2>7 DEF VmmapInv, one
  <1>5. CASE ~Differs(regions[m])
    <2> DEFINE next == [pending EXCEPT !.to = @ + regions[m].end - regions[m].start,
                                       !.subregions = @ + 1]
    <2>1. told' = told /\ pending' = next /\ vmmap' = "ask"
      BY <1>1, <1>5 DEF Compare
    <2>2. regions[m].start = pending.to /\ regions[m].protection = pending.info.protection
      BY <1>5 DEF Differs
    <2>3. pending.to + regions[m].end - regions[m].start = regions[m].end
      BY <1>0, <1>2, <2>2
    <2>4. /\ next \in Lines /\ next.from = pending.from /\ next.to = regions[m].end
          /\ next.info = pending.info /\ next.subregions = pending.subregions + 1
      <3>1. next = [from |-> pending.from, to |-> regions[m].end, info |-> pending.info,
                    subregions |-> pending.subregions + 1]
        <4>1. pending = [from |-> pending.from, to |-> pending.to, info |-> pending.info,
                         subregions |-> pending.subregions]
          BY <1>0 DEF Lines
        <4>2. next = [pending EXCEPT !.to = regions[m].end, !.subregions = pending.subregions + 1]
          BY <2>3, Zenon
        <4> HIDE DEF next
        <4> QED  BY <4>1, <4>2
      <3>2. pending.from \in Nat /\ pending.info \in Region /\ pending.subregions + 1 \in Nat
        BY <1>0 DEF Lines
      <3> HIDE DEF next
      <3>3. next \in Lines
        BY <1>2, <3>1, <3>2 DEF Lines
      <3> QED  BY <3>1, <3>3
    <2> HIDE DEF next
    <2>5. ToldInOrder(Append(told, next))
      BY <1>0, <1>1, <2>4, OrderKept
    <2>6. ASSUME changes = 0 PROVE LeftAlone'
      <3>1. IsRun(regions, next)
        BY <1>0, <1>1, <1>3, <2>2, <2>4, <2>6, RunGrows
      <3>2. pending.from <= pending.to
        <4>1. PICK lo \in DOMAIN regions, hi \in DOMAIN regions : RunIs(regions, pending, lo, hi)
          BY <1>3, <2>6 DEF IsRun
        <4>2. lo <= hi /\ pending.from = regions[lo].start /\ pending.to = regions[hi].end
          BY <4>1 DEF RunIs
        <4>3. regions[lo].start <= regions[hi].end
          <5>1. lo = hi \/ lo < hi
            BY <1>0, <4>2, SpacesAre
          <5> QED  BY <1>0, <5>1, SpacesAre
        <4> QED  BY <4>2, <4>3
      <3>3. Covers(next, regions[m])
        BY <1>0, <1>2, <2>2, <2>4, <3>2 DEF Covers, Lines
      <3>4. ToldUpTo(regions, Append(told, next), next.to)
        BY <1>0, <1>1, <1>2, <1>3, <2>4, <2>6, <3>3, UpToNext
      <3> QED  BY <1>3, <2>1, <2>6, <3>1, <3>4 DEF LeftAlone
    <2>7. LeftAlone'
      <3>1. CASE changes # 0
        BY <3>1 DEF LeftAlone
      <3> QED  BY <2>6, <3>1
    <2> QED  BY <1>0, <1>2, <2>1, <2>4, <2>5, <2>7 DEF VmmapInv
  <1> QED  BY <1>4, <1>5

\* The last line is printed.
LEMMA TellKeeps ==
    ASSUME VmmapInv, Asking, Tell("done"), UNCHANGED <<regions, changes, pending>>
    PROVE  VmmapInv'
  <1> DEFINE one == Append(told, pending)
  <1>1. told' = one /\ vmmap' = "done" /\ regions' = regions /\ changes' = changes
    BY DEF Tell
  <1>2. /\ regions \in AddressSpaces /\ changes \in Nat /\ told \in Seq(Lines)
        /\ pending \in Lines /\ ToldInOrder(one)
    BY DEF VmmapInv
  <1>3. /\ one \in Seq(Lines) /\ one # <<>> /\ one[Len(one)] = pending
        /\ DOMAIN one = 1 .. Len(told) + 1 /\ DOMAIN told = 1 .. Len(told) /\ Len(told) \in Nat
        /\ one[Len(told) + 1] = pending /\ \A k \in DOMAIN told : one[k] = told[k]
    BY <1>2, LineMore
  <1>4. changes = 0 =>
          /\ \A k \in DOMAIN told : IsRun(regions, told[k])
          /\ IsRun(regions, pending) /\ ToldUpTo(regions, one, pending.to)
    BY DEF VmmapInv, LeftAlone
  <1> HIDE DEF one
  <1>5. changes = 0 => \A k \in DOMAIN one : IsRun(regions, one[k])
    <2> SUFFICES ASSUME changes = 0, NEW k \in DOMAIN one PROVE IsRun(regions, one[k])
      OBVIOUS
    <2>1. k \in DOMAIN told \/ k = Len(told) + 1
      BY <1>3
    <2> QED  BY <1>3, <1>4, <2>1
  <1>6. LeftAlone'
    BY <1>1, <1>3, <1>4, <1>5 DEF LeftAlone, Asking
  <1> QED  BY <1>1, <1>2, <1>3, <1>6 DEF VmmapInv, Asking

LEMMA FirstKeeps ==
    ASSUME VmmapInv, FirstRegion
    PROVE  VmmapInv'
  <1>0. /\ regions \in AddressSpaces /\ changes \in Nat /\ told = <<>> /\ told \in Seq(Lines)
        /\ ToldInOrder(told)
    BY DEF VmmapInv, FirstRegion
  <1>1. regions' = regions /\ changes' = changes /\ told' = told
    BY DEF FirstRegion
  <1>2. CASE Beyond(1) = {}
    <2>1. vmmap' = "done"
      BY <1>2 DEF FirstRegion
    <2>2. LeftAlone'
      BY <1>0, <1>1, <2>1 DEF LeftAlone, Asking
    <2> QED  BY <1>0, <1>1, <2>1, <2>2 DEF VmmapInv, Asking
  <1>3. CASE Beyond(1) # {}
    <2>1. PICK m \in DOMAIN regions :
              /\ RegionAt(1) = regions[m] /\ regions[m].end > 1
              /\ \A j \in DOMAIN regions : j < m => regions[j].end <= 1
      BY <1>0, <1>3, FirstBeyond
    <2> DEFINE next == Run(regions[m])
               one == Append(told, next)
    <2>2. vmmap' = "ask" /\ pending' = next
      BY <1>3, <2>1 DEF FirstRegion
    <2>3. next \in Lines /\ next.to = regions[m].end /\ IsRun(regions, next)
      BY <1>0, OneRegion
    <2>4. /\ DOMAIN regions = 1 .. Len(regions) /\ Len(regions) \in Nat
          /\ \A k \in DOMAIN regions : regions[k].start \in Nat /\ regions[k].end \in Nat
                                       /\ regions[k].start < regions[k].end /\ regions[k].end <= Top
          /\ \A j, k \in DOMAIN regions : j < k => regions[j].end <= regions[k].start
      BY <1>0, SpacesAre
    <2>5. Covers(next, regions[m])
      BY <2>4 DEF Covers, Run
    <2> HIDE DEF next
    <2>6. DOMAIN one = {1} /\ one[1] = next
      <3>1. DOMAIN one = 1 .. Len(told) + 1 /\ one[Len(told) + 1] = next /\ Len(told) = 0
        BY <1>0, <2>3, LineMore
      <3> QED  BY <3>1
    <2> HIDE DEF one
    <2>7. ToldInOrder(one)
      BY <2>6 DEF ToldInOrder
    <2>8. ToldUpTo(regions, one, next.to)
      <3> SUFFICES ASSUME NEW j \in DOMAIN regions, Seen(regions[j], next.to) PROVE IsTold(one, regions[j])
        BY DEF ToldUpTo
      <3>1. ~(j < m)
        BY <2>1, <2>4 DEF Seen
      <3>2. ~(m < j)
        BY <2>3, <2>4 DEF Seen
      <3>3. j = m
        BY <2>4, <3>1, <3>2
      <3> QED  BY <2>5, <2>6, <3>3 DEF IsTold
    <2>9. LeftAlone'
      BY <1>0, <1>1, <2>2, <2>3, <2>8 DEF LeftAlone, one
    <2> QED  BY <1>0, <1>1, <2>2, <2>3, <2>4, <2>7, <2>9 DEF VmmapInv, one
  <1> QED  BY <1>2, <1>3

LEMMA VmmapStep == VmmapInv /\ [VmmapNext]_vmmapVars => VmmapInv'
  <1> SUFFICES ASSUME VmmapInv, [VmmapNext]_vmmapVars PROVE VmmapInv'
    OBVIOUS
  \* Nothing is claimed of what is in between.
  <1>1. CASE Change
    <2>1. /\ regions' \in AddressSpaces /\ changes' \in Nat /\ changes' # 0
          /\ vmmap' = vmmap /\ pending' = pending /\ told' = told
      BY <1>1 DEF Change, VmmapInv
    <2>2. LeftAlone'
      BY <2>1 DEF LeftAlone
    <2> QED  BY <2>1, <2>2 DEF VmmapInv, Asking
  <1>2. CASE FirstRegion
    BY <1>2, FirstKeeps
  <1>3. CASE WrapAround
    BY <1>3, TellKeeps DEF WrapAround, Asking
  <1>4. CASE Ask
    BY <1>4, CompareKeeps DEF Ask, Asking
  <1>5. CASE AskFails
    BY <1>5 DEF AskFails, VmmapInv, LeftAlone, Asking
  <1>6. CASE AskAgain
    BY <1>6, CompareKeeps DEF AskAgain, Asking
  <1>7. CASE AskEnds
    <2>1. CASE Tell("done")
      BY <1>7, <2>1, TellKeeps DEF AskEnds, Asking
    <2>2. CASE vmmap' = "done" /\ UNCHANGED <<told, images>>
      <3>1. told' = told /\ regions' = regions /\ changes' = changes
        BY <1>7, <2>2 DEF AskEnds
      <3>2. LeftAlone'
        BY <2>2, <3>1 DEF VmmapInv, LeftAlone, Asking
      <3> QED  BY <2>2, <3>1, <3>2 DEF VmmapInv, Asking
    <2> QED  BY <1>7, <2>1, <2>2 DEF AskEnds
  <1>8. CASE UNCHANGED vmmapVars
    BY <1>8 DEF vmmapVars, VmmapInv, LeftAlone, Asking
  <1> QED  BY <1>1, <1>2, <1>3, <1>4, <1>5, <1>6, <1>7, <1>8 DEF VmmapNext

\* Lines 244-389: whatever the process does meanwhile, each line ends beyond the one
\* before; if it does nothing, the lines cover every region up to the last line, and
\* nothing else.
THEOREM VmmapTells == VmmapSpec => []RegionsAreTold
  <1>1. VmmapInit => VmmapInv
    <2> SUFFICES ASSUME VmmapInit PROVE VmmapInv
      OBVIOUS
    <2>1. told = <<>> /\ <<>> \in Seq(Lines) /\ DOMAIN <<>> = {} /\ ~Asking
      BY EmptySeq DEF VmmapInit, Asking
    <2>2. ToldInOrder(told) /\ LeftAlone
      BY <2>1 DEF ToldInOrder, LeftAlone
    <2> QED  BY <2>1, <2>2 DEF VmmapInit, VmmapInv
  <1>2. VmmapInv => RegionsAreTold
    <2> SUFFICES ASSUME VmmapInv PROVE RegionsAreTold
      OBVIOUS
    <2>1. \A j, k \in DOMAIN told : j < k => told[j].to < told[k].to
      BY DEF VmmapInv, ToldInOrder
    <2>2. ASSUME changes = 0, NEW k \in DOMAIN told, NEW within,
                 within = {j \in DOMAIN regions : Covers(told[k], regions[j])}
          PROVE  /\ Cardinality(within) = told[k].subregions
                 /\ \A j \in within : regions[j].protection = told[k].info.protection
                 /\ \A a \in told[k].from .. told[k].to - 1 :
                       \E j \in within : a \in regions[j].start .. regions[j].end - 1
      <3>1. IsRun(regions, told[k])
        BY <2>2 DEF VmmapInv, LeftAlone
      <3>2. PICK lo \in DOMAIN regions, hi \in DOMAIN regions : RunIs(regions, told[k], lo, hi)
        BY <3>1 DEF IsRun
      <3>3. within = lo .. hi
        BY <2>2, <3>2, RunCovers DEF VmmapInv
      <3>4. lo \in Int /\ hi \in Int /\ lo <= hi
        BY <3>2, SpacesAre DEF VmmapInv, RunIs
      <3>5. Cardinality(lo .. hi) = hi - lo + 1
        BY <3>4, FS_Interval
      <3> QED  BY <3>2, <3>3, <3>5 DEF RunIs
    <2>3. ASSUME changes = 0, NEW j \in DOMAIN regions,
                 told # <<>> /\ regions[j].end <= told[Len(told)].to /\ regions[j].end > 1
          PROVE  \E k \in DOMAIN told : Covers(told[k], regions[j])
      <3>1. ToldUpTo(regions, told, told[Len(told)].to)
        BY <2>3 DEF VmmapInv, LeftAlone
      <3>2. Seen(regions[j], told[Len(told)].to)
        BY <2>3, SpacesAre DEF VmmapInv, Seen
      <3> QED  BY <3>1, <3>2 DEF ToldUpTo, IsTold
    <2> QED  BY <2>1, <2>2, <2>3 DEF RegionsAreTold
  <1> QED  BY <1>1, <1>2, VmmapStep, PTL DEF VmmapSpec

-----------------------------------------------------------------------------
(* stackshot                                                               *)

StackshotSpec == StackshotInit /\ [][StackshotNext]_stackshotVars

ItemRoom == [k \in 1 .. Len(items) |-> Header + Aligned(items[k].size)]

LEMMA ItemsAre ==
    ASSUME snapshot \in Snapshots
    PROVE  /\ items \in Seq(Item) /\ Len(items) \in Nat /\ DOMAIN items = 1 .. Len(items)
           /\ \A k \in 1 .. Len(items) : items[k] \in Item
  <1>1. items \in Seq(Item)
    BY StackshotAssumption DEF StackshotAssumption, Snapshot, items
  <1> QED  BY <1>1, LenProperties, ElementOfSeq

\* What is skipped brings the next item to where it begins.
LEMMA AlignedIs ==
    ASSUME NEW item \in Item
    PROVE  /\ Aligned(item.size) \in Nat /\ Skipped(item) \in Nat /\ item.size \in Nat
           /\ item.size + Skipped(item) = Aligned(item.size)
  <1>1. \A n \in Nat : /\ ((n + 15) \div 16) * 16 \in Nat
                       /\ n + (IF n % 16 = 0 THEN 0 ELSE 16 - (n % 16)) = ((n + 15) \div 16) * 16
    OBVIOUS
  <1>2. item.size \in Nat
    BY DEF Item
  <1>3. Aligned(item.size) = ((item.size + 15) \div 16) * 16
    BY <1>2 DEF Aligned, Header
  <1>4. Skipped(item) = IF item.size % 16 = 0 THEN 0 ELSE 16 - (item.size % 16)
    BY DEF Skipped, Header
  <1> DEFINE n == item.size
  <1>5. /\ ((n + 15) \div 16) * 16 \in Nat
        /\ n + (IF n % 16 = 0 THEN 0 ELSE 16 - (n % 16)) = ((n + 15) \div 16) * 16
    BY <1>1, <1>2
  <1>6. (IF n % 16 = 0 THEN 0 ELSE 16 - (n % 16)) \in Nat
    BY <1>2
  <1>7. n \in Nat /\ Aligned(n) = ((n + 15) \div 16) * 16
        /\ Skipped(item) = IF n % 16 = 0 THEN 0 ELSE 16 - (n % 16)
    BY <1>2, <1>3, <1>4
  <1> HIDE DEF n
  <1>8. Aligned(n) \in Nat /\ Skipped(item) \in Nat /\ n \in Nat /\ n + Skipped(item) = Aligned(n)
    BY <1>5, <1>6, <1>7, Zenon
  <1> QED  BY <1>8 DEF n

LEMMA PlacesAre ==
    ASSUME snapshot \in Snapshots
    PROVE  /\ \A k \in 1 .. Len(items) + 1 : Places[k] \in Nat
           /\ Places[1] = Header /\ BufferSize = Places[Len(items) + 1]
           /\ \A k \in 1 .. Len(items) : Places[k + 1] = Places[k] + (Header + Aligned(items[k].size))
           /\ \A j, k \in 1 .. Len(items) + 1 : j < k => Places[j] < Places[k]
  <1> DEFINE n == Len(items)
             Q(f) == f = [k \in 1 .. n + 1 |->
                            IF k = 1 THEN Header ELSE f[k - 1] + Header + Aligned(items[k - 1].size)]
  <1>1. n \in Nat /\ \A k \in 1 .. n : Aligned(items[k].size) \in Nat
    BY ItemsAre, AlignedIs
  <1>2. Header \in Nat /\ Header = 16
    BY DEF Header
  <1>3. /\ ItemRoom \in [1 .. n -> Nat \ {0}] /\ ItemRoom \in [1 .. n -> Nat]
        /\ \A k \in 1 .. n : ItemRoom[k] = Header + Aligned(items[k].size)
    BY <1>1, <1>2 DEF ItemRoom
  <1>4. \A f : SumsOf(f, Header, ItemRoom, n) <=> Q(f)
    <2> DEFINE S(f) == [k \in 1 .. n + 1 |-> IF k = 1 THEN Header ELSE f[k - 1] + ItemRoom[k - 1]]
               R(f) == [k \in 1 .. n + 1 |->
                            IF k = 1 THEN Header ELSE f[k - 1] + Header + Aligned(items[k - 1].size)]
    <2>1. SUFFICES ASSUME NEW f, f = S(f) \/ f = R(f) PROVE S(f) = R(f)
      BY Zenon DEF SumsOf
    <2>2. \A k \in 1 .. n + 1 : k # 1 => k - 1 \in 1 .. n + 1 /\ k - 1 \in 1 .. n
      BY <1>1
    <2>0. 1 \in 1 .. n + 1
      BY <1>1
    <2> DEFINE Bad == {k \in 1 .. n + 1 : ~(f[k] \in Nat)}
    <2>3. Bad = {}
      <3> SUFFICES ASSUME Bad # {} PROVE FALSE
        OBVIOUS
      <3>1. PICK k \in Bad : \A j \in Bad : k <= j
        <4>1. Bad \subseteq Nat
          BY <1>1
        <4> HIDE DEF Bad
        <4> QED  BY <4>1, LeastElement
      <3>2. k # 1
        BY <1>2, <2>1
      <3>3. k - 1 \notin Bad /\ k - 1 \in 1 .. n + 1 /\ k - 1 \in 1 .. n
        <4>1. k - 1 \in 1 .. n + 1 /\ k - 1 \in 1 .. n /\ ~(k <= k - 1)
          BY <2>2, <3>2, <1>1
        <4> HIDE DEF Bad
        <4> QED  BY <3>1, <4>1
      <3>4. f[k - 1] \in Nat
        BY <3>3
      <3>5. f[k] = f[k - 1] + ItemRoom[k - 1] \/ f[k] = f[k - 1] + Header + Aligned(items[k - 1].size)
        BY <2>1, <3>2
      <3>6. ItemRoom[k - 1] \in Nat /\ Aligned(items[k - 1].size) \in Nat
        BY <1>1, <1>3, <3>3
      <3>7. f[k] \in Nat
        BY <1>2, <3>4, <3>5, <3>6
      <3> QED  BY <3>7
    <2>4. \A k \in 1 .. n + 1 : k # 1 =>
            f[k - 1] + ItemRoom[k - 1] = f[k - 1] + Header + Aligned(items[k - 1].size)
      <3> TAKE k \in 1 .. n + 1
      <3> SUFFICES ASSUME k # 1
                   PROVE  f[k - 1] + ItemRoom[k - 1] = f[k - 1] + Header + Aligned(items[k - 1].size)
        OBVIOUS
      <3>1. k - 1 \in 1 .. n /\ f[k - 1] \in Nat
        BY <2>2, <2>3
      <3>2. ItemRoom[k - 1] = Header + Aligned(items[k - 1].size) /\ Aligned(items[k - 1].size) \in Nat
        BY <1>1, <1>3, <3>1
      <3> HIDE DEF n
      <3> QED  BY <1>2, <3>1, <3>2
    <2> HIDE DEF n
    <2> QED  BY <2>4
  <1>5. Places = CHOOSE g : Q(g)
    BY DEF Places
  <1>6. SumsOf(Places, Header, ItemRoom, n)
    <2> HIDE DEF n, Q
    <2>1. \E f : SumsOf(f, Header, ItemRoom, n)
      BY <1>1, <1>2, <1>3, SumsExist
    <2>2. \E f : Q(f)
      BY <1>4, <2>1
    <2>3. Q(Places)
      BY <1>5, <2>2
    <2> QED  BY <1>4, <2>3
  <1>7. /\ Places \in [1 .. n + 1 -> Nat] /\ Places[1] = Header
        /\ \A k \in 1 .. n : Places[k + 1] = Places[k] + ItemRoom[k]
        /\ \A j, k \in 1 .. n + 1 : j < k => Places[j] < Places[k]
    <2> DEFINE places == Places
               room == ItemRoom
               first == Header
    <2>1. n \in Nat /\ first \in Nat /\ room \in [1 .. n -> Nat \ {0}] /\ SumsOf(places, first, room, n)
      BY <1>1, <1>2, <1>3, <1>6
    <2> HIDE DEF n, places, room, first, Q
    <2>2. /\ places \in [1 .. n + 1 -> Nat] /\ places[1] = first
          /\ \A k \in 1 .. n : places[k + 1] = places[k] + room[k]
          /\ \A j, k \in 1 .. n + 1 : j < k => places[j] < places[k]
      BY <2>1, SumsGrow
    <2> QED  BY <2>2 DEF places, room, first
  <1> QED  BY <1>3, <1>7 DEF BufferSize

\* What a report says of the items before item k, when it says it of each.
ReportLine == [item : Nat, tabs : Int, what : {"at once", "empty", "garbage", "text", "garbage and text"}]

LinesOf(r) == {n \in DOMAIN r : r[n].what # "at once"}

Before(its, k, kind) == Cardinality({j \in 1 .. k - 1 : its[j].kind = kind})
Opened(its, k) == Before(its, k, "begin") - Before(its, k, "end")
OpenIn(its, k) == Before(its, k, "begin") - (Before(its, k, "end") + (IF its[k].kind = "end" THEN 1 ELSE 0))

LineIsRight(its, line) ==
    (\A k \in DOMAIN its : OpenIn(its, k) >= 0) =>
        line.tabs = OpenIn(its, line.item) /\ (line.item > 1 => line.what \in {"text", "empty"})

Told(its, r, k) ==
    /\ \A n \in DOMAIN r : r[n].item \in 1 .. k - 1
    /\ {r[n].item : n \in LinesOf(r)} = 1 .. k - 1
    /\ \A m \in LinesOf(r), n \in DOMAIN r : m < n => r[m].item < r[n].item
    /\ \A n \in LinesOf(r) : LineIsRight(its, r[n])

LEMMA OpenIs == \A k : OpenAt(k) = OpenIn(items, k)
  BY Zenon DEF OpenAt, OpenIn, Before

LEMMA BeforeIs ==
    ASSUME NEW its, NEW kind
    PROVE  /\ Before(its, 1, kind) = 0
           /\ \A k \in Nat \ {0} :
                /\ Before(its, k, kind) \in Nat
                /\ Before(its, k + 1, kind) = Before(its, k, kind) + (IF its[k].kind = kind THEN 1 ELSE 0)
  <1> DEFINE B(k) == {j \in 1 .. k - 1 : its[j].kind = kind}
  <1>1. \A k \in Nat \ {0} : IsFiniteSet(B(k)) /\ Cardinality(B(k)) \in Nat
    <2> TAKE k \in Nat \ {0}
    <2>1. B(k) \subseteq 1 .. k - 1 /\ IsFiniteSet(1 .. k - 1)
      BY FS_Interval
    <2>2. IsFiniteSet(B(k))
      BY <2>1, FS_Subset
    <2> QED  BY <2>2, FS_CardinalityType
  <1>2. B(1) = {}
    OBVIOUS
  <1>3. Before(its, 1, kind) = 0
    BY <1>2, FS_EmptySet DEF Before
  <1>4. ASSUME NEW k \in Nat \ {0}
        PROVE  Before(its, k + 1, kind) = Before(its, k, kind) + (IF its[k].kind = kind THEN 1 ELSE 0)
    <2>1. \A j : j \in 1 .. (k + 1) - 1 <=> j \in 1 .. k - 1 \/ j = k
      OBVIOUS
    <2>2. ~(k \in 1 .. k - 1)
      OBVIOUS
    <2>3. CASE its[k].kind = kind
      <3>1. B(k + 1) = B(k) \cup {k} /\ k \notin B(k)
        BY <2>1, <2>2, <2>3
      <3> HIDE DEF B
      <3>2. Cardinality(B(k + 1)) = Cardinality(B(k)) + 1
        BY <1>1, <3>1, FS_AddElement
      <3> QED  BY <2>3, <3>2 DEF Before, B
    <2>4. CASE its[k].kind # kind
      <3>1. B(k + 1) = B(k)
        BY <2>1, <2>2, <2>4
      <3> HIDE DEF B
      <3>2. Cardinality(B(k + 1)) = Cardinality(B(k)) + 0
        BY <1>1, <3>1
      <3> QED  BY <2>4, <3>2 DEF Before, B
    <2> QED  BY <2>3, <2>4
  <1>5. \A k \in Nat \ {0} : Before(its, k, kind) \in Nat
    BY <1>1 DEF Before
  <1> QED  BY <1>3, <1>4, <1>5

LEMMA UpTo ==
    ASSUME NEW k \in Nat \ {0}
    PROVE  /\ (k + 1) - 1 = k /\ k \in Nat
           /\ \A i : i \in 1 .. k <=> i \in 1 .. k - 1 \/ i = k
           /\ \A i \in 1 .. k - 1 : i < k
  OBVIOUS

LEMMA Ends ==
    ASSUME NEW l \in Nat, NEW p \in Nat
    PROVE  /\ \A n \in l + 1 .. l + p : /\ n - l \in 1 .. p /\ n \in 1 .. l + p
                                      /\ n \in 1 .. l + p + 1 /\ ~(n <= l)
           /\ \A n \in 1 .. l : /\ n \in 1 .. l + p /\ n \in 1 .. l + p + 1
                              /\ n <= l + p /\ n <= l /\ n < l + p + 1
           /\ l + p + 1 \in 1 .. l + p + 1 /\ ~(l + p + 1 <= l + p) /\ (l + p + 1) - (l + p) = 1
           /\ \A n \in 1 .. l + p + 1 : /\ n \in 1 .. l \/ n \in l + 1 .. l + p \/ n = l + p + 1
                                      /\ n <= l + p + 1
           /\ \A n \in l + 1 .. l + p : n <= l + p
  OBVIOUS

LEMMA LineBehind ==
    ASSUME NEW S, NEW r \in Seq(S), NEW P \in Seq(S), NEW first, \A n \in 1 .. Len(P) : P[n] = first,
           NEW line \in S, NEW s, s = r \o P \o <<line>>
    PROVE  /\ s \in Seq(S) /\ DOMAIN s = 1 .. Len(r) + Len(P) + 1
           /\ \A n \in 1 .. Len(r) : s[n] = r[n]
           /\ \A n \in Len(r) + 1 .. Len(r) + Len(P) : s[n] = first
           /\ s[Len(r) + Len(P) + 1] = line
  <1> DEFINE Q == <<line>>
             o == r \o P
             l == Len(r)
             p == Len(P)
  <1>1. P \in Seq(S) /\ p \in Nat /\ \A n \in 1 .. p : P[n] = first
    BY LenProperties
  <1>2. Q \in Seq(S) /\ Len(Q) = 1 /\ Q[1] = line
    OBVIOUS
  <1>3. l \in Nat
    BY LenProperties
  <1>0. s = o \o Q
    OBVIOUS
  <1> HIDE DEF Q
  <1>4. o \in Seq(S) /\ Len(o) = l + p /\ \A n \in 1 .. l + p : o[n] = IF n <= l THEN r[n] ELSE P[n - l]
    BY <1>1, ConcatProperties
  <1> HIDE DEF o, p
  <1>5. /\ s \in Seq(S) /\ Len(s) = l + p + 1
        /\ \A n \in 1 .. l + p + 1 : s[n] = IF n <= l + p THEN o[n] ELSE Q[n - (l + p)]
    <2> DEFINE t == o \o Q
    <2>1. s = t
      BY <1>0
    <2>2. t \in Seq(S) /\ Len(t) = Len(o) + Len(Q)
      <3>1. o \in Seq(S) /\ Q \in Seq(S)
        BY <1>2, <1>4
      <3> QED  BY <3>1, ConcatProperties
    <2>3. \A n \in 1 .. Len(o) + Len(Q) : t[n] = IF n <= Len(o) THEN o[n] ELSE Q[n - Len(o)]
      BY <1>2, <1>4, ConcatProperties
    <2>4. Len(o) = l + p /\ Len(Q) = 1
      BY <1>2, <1>4
    <2> HIDE DEF l, t
    <2> QED  BY <2>1, <2>2, <2>3, <2>4, Zenon
  <1> HIDE DEF l
  <1>6. DOMAIN s = 1 .. l + p + 1
    BY <1>5, LenProperties
  <1>7. \A n \in 1 .. l : s[n] = r[n]
    BY <1>1, <1>3, <1>4, <1>5, Ends
  <1>8. \A n \in l + 1 .. l + p : s[n] = first
    <2> TAKE n \in l + 1 .. l + p
    <2>1. n - l \in 1 .. p /\ n \in 1 .. l + p /\ n \in 1 .. l + p + 1 /\ ~(n <= l) /\ n <= l + p
      BY <1>1, <1>3, Ends
    <2> QED  BY <1>1, <1>4, <1>5, <2>1
  <1>9. s[l + p + 1] = line
    <2>1. l + p + 1 \in 1 .. l + p + 1 /\ ~(l + p + 1 <= l + p) /\ (l + p + 1) - (l + p) = 1
      BY <1>1, <1>3, Ends
    <2> QED  BY <1>2, <1>5, <2>1
  <1> QED  BY <1>5, <1>6, <1>7, <1>8, <1>9 DEF l, p

\* An item is told by what is printed at once, and its line behind it.
Tells(its, k, first, line) ==
    /\ first \in ReportLine /\ first.item = k /\ first.what = "at once"
    /\ line \in ReportLine /\ line.item = k /\ line.what # "at once" /\ LineIsRight(its, line)

LEMMA TellsOne ==
    ASSUME NEW its, NEW r \in Seq(ReportLine), NEW k \in Nat \ {0}, Told(its, r, k),
           NEW P \in Seq(ReportLine), NEW first, \A n \in 1 .. Len(P) : P[n] = first,
           NEW line, Tells(its, k, first, line),
           NEW s, s = r \o P \o <<line>>
    PROVE  s \in Seq(ReportLine) /\ Told(its, s, k + 1)
  <1> DEFINE l == Len(r)
             p == Len(P)
             last == l + p + 1
  <1>1. first \in ReportLine /\ line \in ReportLine
    BY Zenon DEF Tells
  <1>2. l \in Nat /\ p \in Nat /\ DOMAIN r = 1 .. l
    BY LenProperties
  <1>3. /\ s \in Seq(ReportLine) /\ DOMAIN s = 1 .. last
        /\ \A n \in 1 .. l : s[n] = r[n]
        /\ \A n \in l + 1 .. l + p : s[n] = first
        /\ s[last] = line
    BY <1>1, LineBehind
  <1> HIDE DEF l, p
  <1>4. /\ \A n \in 1 .. last : n \in 1 .. l \/ n \in l + 1 .. l + p \/ n = last
        /\ \A n \in 1 .. last : n <= last
        /\ \A n \in 1 .. l : n \in 1 .. last /\ n < last
        /\ \A n \in l + 1 .. l + p : n \in 1 .. last
        /\ last \in 1 .. last
    BY <1>2, Ends
  <1>5. last \in Nat
    BY <1>2
  <1> HIDE DEF last
  <1>6. /\ (k + 1) - 1 = k /\ k \in Nat
        /\ \A i : i \in 1 .. k <=> i \in 1 .. k - 1 \/ i = k
        /\ \A i \in 1 .. k - 1 : i < k
    BY UpTo
  <1> DEFINE R == LinesOf(r)
             L == LinesOf(s)
             old == 1 .. k - 1
             places == 1 .. l
  <1>7. /\ first.item = k /\ first.what = "at once"
        /\ line.item = k /\ line.what # "at once" /\ LineIsRight(its, line)
    BY Zenon DEF Tells
  <1>8. /\ \A n \in places : r[n].item \in old
        /\ {r[n].item : n \in R} = old
        /\ \A m \in R, n \in places : m < n => r[m].item < r[n].item
        /\ \A n \in R : LineIsRight(its, r[n])
    BY <1>2, Zenon DEF Told
  <1>9. R \subseteq places
    BY <1>2 DEF LinesOf
  <1>10. \A n : n \in L <=> n \in R \/ n = last
    BY <1>2, <1>3, <1>4, <1>7 DEF LinesOf
  <1> HIDE DEF R, L, old, places
  <1>11. \A n \in 1 .. last : \/ n \in places /\ s[n] = r[n] /\ r[n].item \in old
                              \/ s[n].item = k /\ ~(n \in places)
    <2>1. \A n \in places : n < last /\ n \in 1 .. last
      BY <1>4 DEF places
    <2>2. \A n \in l + 1 .. l + p : ~(n \in places)
      BY <1>2 DEF places
    <2>3. ~(last \in places)
      BY <1>5, <2>1
    <2> QED  BY <1>3, <1>4, <1>7, <1>8, <2>2, <2>3 DEF places
  <1>12. \A n \in DOMAIN s : s[n].item \in 1 .. k
    BY <1>3, <1>6, <1>11 DEF old
  <1>13. {s[n].item : n \in L} = 1 .. k
    <2>1. \A i : i \in 1 .. k <=> i \in old \/ i = k
      BY <1>6 DEF old
    <2>2. {s[n].item : n \in L} = {r[n].item : n \in R} \cup {k}
      <3>1. \A n \in R : s[n] = r[n]
        BY <1>3, <1>9 DEF places
      <3>2. s[last].item = k
        BY <1>3, <1>7
      <3>3. \A n \in L : (n \in R /\ s[n].item = r[n].item) \/ s[n].item = k
        BY <1>10, <3>1, <3>2
      <3>4. \A n \in R : n \in L /\ s[n].item = r[n].item
        BY <1>10, <3>1
      <3>5. last \in L /\ s[last].item = k
        BY <1>10, <3>2
      <3>6. ASSUME NEW i \in {s[n].item : n \in L} PROVE i \in {r[n].item : n \in R} \cup {k}
        BY <3>3
      <3>7. ASSUME NEW i \in {r[n].item : n \in R} PROVE i \in {s[n].item : n \in L}
        BY <3>4
      <3>8. k \in {s[n].item : n \in L}
        BY <3>5
      <3> QED  BY <3>6, <3>7, <3>8
    <2> QED  BY <1>8, <2>1, <2>2
  <1>14. ASSUME NEW m \in L, NEW n \in DOMAIN s, m < n
         PROVE  s[m].item < s[n].item
    <2>1. m # last
      BY <1>3, <1>4, <1>5, <1>14
    <2>2. m \in R /\ m \in places /\ s[m] = r[m] /\ r[m].item \in old
      BY <1>3, <1>8, <1>9, <1>10, <2>1 DEF places
    <2>3. CASE n \in places
      BY <1>3, <1>8, <1>14, <2>2, <2>3 DEF places
    <2>4. CASE n \notin places
      BY <1>3, <1>6, <1>11, <2>2, <2>4 DEF old
    <2> QED  BY <2>3, <2>4
  <1>15. \A n \in L : LineIsRight(its, s[n])
    BY <1>3, <1>7, <1>8, <1>9, <1>10 DEF places
  <1>16. Told(its, s, k + 1)
    <2>1. 1 .. (k + 1) - 1 = 1 .. k
      BY <1>6, Zenon
    <2> QED  BY <1>12, <1>13, <1>14, <1>15, <2>1, Zenon DEF Told, L
  <1> QED  BY <1>3, <1>16

\* How far stackshot has come.
StackshotAt(k) ==
    /\ Told(items, report, k)
    /\ inContainer = Opened(items, k)
    /\ k = 1 \/ Output = "empty"
    /\ stackshot = "start" => k = 1
    /\ stackshot = "walk" => off = Places[k]
    /\ stackshot = "done" /\ snapshot.granted /\ snapshot.magic => k = Len(items) + 1

\* Every item before the next has been told, and the depth is what they opened.
StackshotInv ==
    /\ snapshot \in Snapshots
    /\ stackshot \in {"start", "walk", "done"}
    /\ Output \in {"garbage", "empty"}
    /\ report \in Seq(ReportLine)
    /\ \E k \in 1 .. Len(items) + 1 : StackshotAt(k)

LEMMA StackshotBegins == StackshotInit => StackshotInv
  <1> SUFFICES ASSUME StackshotInit PROVE StackshotInv
    OBVIOUS
  <1> USE DEF StackshotInit
  <1>1. report \in Seq(ReportLine) /\ DOMAIN report = {}
    OBVIOUS
  <1>2. 1 \in 1 .. Len(items) + 1
    BY ItemsAre
  <1>3. Told(items, report, 1)
    BY <1>1 DEF Told, LinesOf
  <1>4. Opened(items, 1) = 0
    BY BeforeIs DEF Opened
  <1>5. StackshotAt(1)
    BY <1>3, <1>4 DEF StackshotAt
  <1> QED  BY <1>1, <1>2, <1>5 DEF StackshotInv

\* The walk stands at one item only.
LEMMA OnePlace ==
    ASSUME snapshot \in Snapshots, NEW j \in 1 .. Len(items) + 1, NEW k \in 1 .. Len(items) + 1,
           Places[j] = Places[k]
    PROVE  j = k
  <1>1. /\ Places[j] \in Nat /\ Places[k] \in Nat
        /\ j < k => Places[j] < Places[k]
        /\ k < j => Places[k] < Places[j]
    BY PlacesAre
  <1>2. ~(j < k) /\ ~(k < j)
    BY <1>1
  <1> QED  BY <1>2, ItemsAre

LEMMA AtOnceIs ==
    ASSUME NEW item \in Item
    PROVE  PrintedAtOnce(item) \in Nat
  <1>1. item.elements \in Nat
    BY DEF Item
  <1>2. item.elements - Dumped(item) \in Nat
    BY <1>1 DEF Dumped
  <1>3. PrintedAtOnce(item) \in {1, item.elements - Dumped(item), 0}
    BY DEF PrintedAtOnce
  <1> QED  BY <1>2, <1>3

\* What is said of an item.
LEMMA TellsItem ==
    ASSUME snapshot \in Snapshots, NEW k \in 1 .. Len(items),
           inContainer = Opened(items, k), k = 1 \/ Output = "empty", Output \in {"garbage", "empty"}
    PROVE  Tells(items, k, [item |-> k, tabs |-> 0, what |-> "at once"],
                 [item |-> k, tabs |-> Indent(items[k]), what |-> Formatted(items[k])])
  <1> DEFINE item == items[k]
             line == [item |-> k, tabs |-> Indent(item), what |-> Formatted(item)]
  <1>1. item \in Item /\ k \in Nat /\ k \in DOMAIN items
    BY ItemsAre
  <1>2. Before(items, k, "begin") \in Nat /\ Before(items, k, "end") \in Nat
    <2>1. k \in Nat \ {0}
      BY ItemsAre
    <2> QED  BY <2>1, BeforeIs
  <1>3. Tabs(item) = OpenIn(items, k) /\ OpenIn(items, k) \in Int
    BY <1>2 DEF Tabs, Opened, OpenIn
  <1>4. Indent(item) \in Int /\ (OpenIn(items, k) >= 0 => Indent(item) = OpenIn(items, k))
    BY <1>3 DEF Indent
  <1>5. /\ Formatted(item) \in {"empty", "garbage", "text", "garbage and text"}
        /\ k > 1 => Formatted(item) \in {"text", "empty"}
    <2> DEFINE before == IF Indent(item) > 0 THEN "empty" ELSE Output
               it == item
    <2>1. before \in {"empty", "garbage"} /\ (k > 1 => before = "empty")
      BY <1>1
    <2>2. Formatted(it) = CASE it.kind = "text" -> "text"
                            [] it.kind = "array" /\ Dumped(it) > 0 -> "text"
                            [] it.kind = "append" -> IF before = "empty" THEN "text" ELSE "garbage and text"
                            [] OTHER -> before
      BY DEF Formatted
    <2> HIDE DEF before, it
    <2>3. CASE it.kind = "text"
      BY <2>2, <2>3 DEF it
    <2>4. CASE it.kind = "array" /\ Dumped(it) > 0
      BY <2>2, <2>4 DEF it
    <2>5. CASE it.kind = "append"
      BY <2>1, <2>2, <2>5 DEF it
    <2>6. CASE ~(it.kind = "text") /\ ~(it.kind = "array" /\ Dumped(it) > 0) /\ ~(it.kind = "append")
      BY <2>1, <2>2, <2>6 DEF it
    <2> QED  BY <2>3, <2>4, <2>5, <2>6
  <1> HIDE DEF item
  <1>6. line \in ReportLine /\ line.item = k /\ line.what # "at once"
    BY <1>1, <1>4, <1>5 DEF ReportLine
  <1>7. LineIsRight(items, line)
    BY <1>1, <1>4, <1>5 DEF LineIsRight
  <1>8. [item |-> k, tabs |-> 0, what |-> "at once"] \in ReportLine
    BY <1>1 DEF ReportLine
  <1> QED  BY <1>6, <1>7, <1>8 DEF Tells, item

LEMMA ItemHandled ==
    ASSUME StackshotInv, HandleItem
    PROVE  StackshotInv'
  <1> USE DEF StackshotInv
  <1>1. /\ stackshot = "walk" /\ stackshot' = stackshot /\ snapshot' = snapshot
        /\ Output' = "empty" /\ off < BufferSize
    BY DEF HandleItem
  <1>2. PICK k \in 1 .. Len(items) + 1 : StackshotAt(k)
    OBVIOUS
  <1>3. off = Places[k]
    BY <1>1, <1>2 DEF StackshotAt
  <1> DEFINE Line(j) == [item |-> j, tabs |-> Indent(items[j]), what |-> Formatted(items[j])]
             AtOnce(j) == [item |-> j, tabs |-> 0, what |-> "at once"]
             Depth(j) == inContainer + (CASE items[j].kind = "begin" -> 1
                                          [] items[j].kind = "end" -> -1
                                          [] OTHER -> 0)
             Handles(j) ==
               /\ Places[j] = off
               /\ report' = report \o [n \in 1 .. PrintedAtOnce(items[j]) |-> AtOnce(j)] \o <<Line(j)>>
               /\ inContainer' = Depth(j)
               /\ off' = off + items[j].size + Header + Skipped(items[j])
  <1>4. \E j \in DOMAIN items : Handles(j)
    BY DEF HandleItem
  <1>5. k \in 1 .. Len(items) /\ Handles(k)
    <2>1. PICK j \in DOMAIN items : Handles(j)
      BY <1>4
    <2>2. j \in 1 .. Len(items) /\ j \in 1 .. Len(items) + 1 /\ Places[j] = Places[k]
      <3>1. Places[j] = Places[k]
        BY <1>3, <2>1
      <3>2. j \in 1 .. Len(items) /\ Len(items) \in Nat
        BY ItemsAre
      <3> QED  BY <3>1, <3>2
    <2>3. j = k
      BY <2>2, OnePlace
    <2> QED  BY <2>1, <2>2, <2>3
  <1>6. /\ Told(items, report, k) /\ inContainer = Opened(items, k) /\ (k = 1 \/ Output = "empty")
        /\ k \in Nat \ {0}
    BY <1>2 DEF StackshotAt
  <1>7. Tells(items, k, AtOnce(k), Line(k))
    BY <1>5, <1>6, TellsItem
  <1>8. report' \in Seq(ReportLine) /\ Told(items, report', k + 1)
    <2>1. PrintedAtOnce(items[k]) \in Nat
      BY <1>5, ItemsAre, AtOnceIs
    <2> DEFINE its == items
               r == report
               first == AtOnce(k)
               line == Line(k)
               P == [n \in 1 .. PrintedAtOnce(items[k]) |-> AtOnce(k)]
               s == report'
    <2>2. s = r \o P \o <<line>>
      BY <1>5
    <2>3. Tells(its, k, first, line) /\ Told(its, r, k) /\ r \in Seq(ReportLine)
      BY <1>6, <1>7
    <2>4. P \in Seq(ReportLine) /\ \A n \in 1 .. Len(P) : P[n] = first
      <3>1. first \in ReportLine
        BY <2>3 DEF Tells
      <3> DEFINE p == PrintedAtOnce(items[k])
      <3>2. p \in Nat /\ P = [n \in 1 .. p |-> first]
        BY <2>1
      <3> HIDE DEF p, P, first
      <3> QED  BY <3>1, <3>2
    <2> HIDE DEF StackshotInv, its, r, s, P, first, line
    <2>5. s \in Seq(ReportLine) /\ Told(its, s, k + 1)
      BY <1>6, <2>2, <2>3, <2>4, TellsOne
    <2> QED  BY <2>5 DEF its, s
  <1>9. inContainer' = Opened(items, k + 1)
    <2>1. /\ Before(items, k, "begin") \in Nat /\ Before(items, k, "end") \in Nat
          /\ Before(items, k + 1, "begin")
                = Before(items, k, "begin") + (IF items[k].kind = "begin" THEN 1 ELSE 0)
          /\ Before(items, k + 1, "end")
                = Before(items, k, "end") + (IF items[k].kind = "end" THEN 1 ELSE 0)
      BY <1>6, BeforeIs
    <2>2. inContainer' = Depth(k)
      BY <1>5
    <2>3. items[k].kind = "begin" \/ items[k].kind = "end"
          \/ (items[k].kind # "begin" /\ items[k].kind # "end")
      OBVIOUS
    <2> QED  BY <1>6, <2>1, <2>2 DEF Opened
  <1>10. k + 1 \in 1 .. Len(items) + 1 /\ off' = Places[k + 1]
    <2>1. off' = off + items[k].size + Header + Skipped(items[k])
      BY <1>5
    <2>2. /\ Aligned(items[k].size) \in Nat /\ Skipped(items[k]) \in Nat /\ items[k].size \in Nat
          /\ items[k].size + Skipped(items[k]) = Aligned(items[k].size)
      BY <1>5, ItemsAre, AlignedIs
    <2>3. Places[k + 1] = Places[k] + (Header + Aligned(items[k].size)) /\ Places[k] \in Nat
      BY <1>5, PlacesAre
    <2>4. off' = Places[k + 1]
      BY <1>3, <2>1, <2>2, <2>3, SMTT(30) DEF Header
    <2>5. k + 1 \in 1 .. Len(items) + 1
      <3>1. k \in 1 .. Len(items) /\ Len(items) \in Nat
        BY <1>5, ItemsAre
      <3> QED  BY <3>1
    <2> QED  BY <2>4, <2>5
  <1>11. items' = items /\ Places' = Places
    BY <1>1 DEF items, Places, Aligned, Header
  <1>12. StackshotAt(k + 1)'
    BY <1>1, <1>6, <1>8, <1>9, <1>10, <1>11 DEF StackshotAt
  <1> QED  BY <1>1, <1>8, <1>10, <1>11, <1>12

LEMMA StackshotGoesOn ==
    ASSUME StackshotInv, [StackshotNext]_stackshotVars
    PROVE  StackshotInv'
  <1> USE DEF StackshotInv
  <1>0. PICK k \in 1 .. Len(items) + 1 : StackshotAt(k)
    OBVIOUS
  <1>1. ASSUME snapshot' = snapshot PROVE items' = items /\ Places' = Places
    BY <1>1 DEF items, Places, Aligned, Header
  <1>2. CASE GetStackshot
    <2>1. snapshot' = snapshot /\ report' = report /\ Output' = Output /\ inContainer' = inContainer
      BY <1>2 DEF GetStackshot
    <2>2. k = 1
      BY <1>0, <1>2 DEF StackshotAt, GetStackshot
    <2>3. Places[1] = Header
      BY PlacesAre
    <2>4. \/ stackshot' = "walk" /\ off' = Header
          \/ stackshot' = "done" /\ ~(snapshot.granted /\ snapshot.magic)
      BY <1>2 DEF GetStackshot
    <2>5. StackshotAt(k)'
      BY <1>0, <1>1, <2>1, <2>2, <2>3, <2>4 DEF StackshotAt
    <2> QED  BY <1>1, <2>1, <2>4, <2>5
  <1>3. CASE HandleItem
    BY <1>3, ItemHandled
  <1>4. CASE EndBuffer
    <2>1. /\ stackshot = "walk" /\ off >= BufferSize /\ stackshot' = "done"
          /\ snapshot' = snapshot /\ report' = report /\ Output' = Output /\ inContainer' = inContainer
      BY <1>4 DEF EndBuffer
    <2>2. off = Places[k]
      BY <1>0, <2>1 DEF StackshotAt
    <2>3. k = Len(items) + 1
      <3>1. Places[k] \in Nat /\ Places[Len(items) + 1] \in Nat /\ BufferSize = Places[Len(items) + 1]
            /\ (k < Len(items) + 1 => Places[k] < Places[Len(items) + 1])
        BY PlacesAre, ItemsAre
      <3>2. ~(k < Len(items) + 1)
        BY <2>1, <2>2, <3>1
      <3> QED  BY <3>2, ItemsAre
    <2>4. StackshotAt(k)'
      BY <1>0, <1>1, <2>1, <2>3 DEF StackshotAt
    <2> QED  BY <1>1, <2>1, <2>4
  <1>5. CASE UNCHANGED stackshotVars
    <2>1. snapshot' = snapshot /\ report' = report /\ Output' = Output /\ inContainer' = inContainer
          /\ stackshot' = stackshot /\ off' = off
      BY <1>5 DEF stackshotVars
    <2>2. StackshotAt(k)'
      BY <1>0, <1>1, <2>1 DEF StackshotAt
    <2> QED  BY <1>1, <2>1, <2>2
  <1> QED  BY <1>2, <1>3, <1>4, <1>5 DEF StackshotNext

LEMMA StackshotTells == StackshotInv => ItemsAreTold
  <1> SUFFICES ASSUME StackshotInv, Nested PROVE ItemsAreTold
    BY DEF ItemsAreTold
  <1>1. PICK k \in 1 .. Len(items) + 1 : StackshotAt(k)
    BY DEF StackshotInv
  <1>2. ItemLines = LinesOf(report) /\ TheirItems = 1 .. k - 1
    BY <1>1 DEF ItemLines, TheirItems, LinesOf, StackshotAt, Told
  <1>3. stackshot = "walk" => off = Places[k] /\ TheirItems = 1 .. k - 1
    BY <1>1, <1>2 DEF StackshotAt
  <1>4. stackshot = "done" /\ snapshot.granted /\ snapshot.magic => TheirItems = DOMAIN items
    <2> SUFFICES ASSUME stackshot = "done", snapshot.granted, snapshot.magic
                 PROVE  TheirItems = DOMAIN items
      OBVIOUS
    <2>1. k = Len(items) + 1
      BY <1>1 DEF StackshotAt
    <2>2. snapshot \in Snapshots
      BY DEF StackshotInv
    <2>3. DOMAIN items = 1 .. Len(items) /\ k - 1 = Len(items)
      BY <2>1, <2>2, ItemsAre
    <2> QED  BY <1>2, <2>3
  <1>5. \A m \in ItemLines, n \in DOMAIN report : m < n => report[m].item < report[n].item
    BY <1>1, <1>2 DEF StackshotAt, Told
  <1>6. \A n \in ItemLines : LineIsRight(items, report[n])
    BY <1>1, <1>2 DEF StackshotAt, Told
  <1>7. \A n \in ItemLines : /\ report[n].tabs = OpenAt(report[n].item)
                             /\ report[n].item > 1 => report[n].what \in {"text", "empty"}
    BY <1>6, OpenIs DEF LineIsRight, Nested
  <1> QED  BY <1>1, <1>3, <1>4, <1>5, <1>7 DEF ItemsAreTold

LEMMA StackshotIsTold == StackshotSpec => []ItemsAreTold
  <1>1. StackshotSpec => []StackshotInv
    BY StackshotBegins, StackshotGoesOn, PTL DEF StackshotSpec
  <1> QED  BY <1>1, StackshotTells, PTL

-----------------------------------------------------------------------------
(* 5-2-stack-snapshot                                                      *)

StackSnapshotSpec == StackSnapshotInit /\ [][StackSnapshotNext]_traceVars

LEMMA TraceIs ==
    ASSUME trace \in Traces
    PROVE  /\ inTrace \in Seq(TraceItem) /\ Len(inTrace) \in Nat /\ DOMAIN inTrace = 1 .. Len(inTrace)
           /\ \A k \in 1 .. Len(inTrace) : inTrace[k] \in TraceItem
           /\ trace.kframe \in {8, 16}
  <1>1. inTrace \in Seq(TraceItem) /\ trace.kframe \in {8, 16}
    BY StackSnapshotAssumption DEF StackSnapshotAssumption, Trace, inTrace
  <1> QED  BY <1>1, LenProperties, ElementOfSeq

LEMMA StructSizesAre == \A kind : StructSize(kind) \in Nat \ {0}
  BY DEF StructSize

\* The frames that follow an item.
FramesOf(k) == ItemSize(k) - StructSize(inTrace[k].kind)

LEMMA ItemSizesAre ==
    ASSUME trace \in Traces, NEW k \in 1 .. Len(inTrace)
    PROVE  /\ ItemSize(k) \in Nat \ {0} /\ FramesOf(k) \in Nat
           /\ ItemSize(k) = StructSize(inTrace[k].kind) + FramesOf(k)
           /\ FramesOf(k) = IF inTrace[k].kind = "thread"
                            THEN inTrace[k].user * UserFrame(WideAt(k)) + inTrace[k].kern * trace.kframe
                            ELSE 0
  <1> DEFINE frames == IF inTrace[k].kind = "thread"
                       THEN inTrace[k].user * UserFrame(WideAt(k)) + inTrace[k].kern * trace.kframe
                       ELSE 0
             struct == StructSize(inTrace[k].kind)
  <1>1. inTrace[k].user \in Nat /\ inTrace[k].kern \in Nat
    BY TraceIs DEF TraceItem
  <1>2. UserFrame(WideAt(k)) \in {8, 16} /\ trace.kframe \in {8, 16}
    BY TraceIs DEF UserFrame
  <1>3. \A a, b \in Nat : \A u, v \in {8, 16} : a * u + b * v \in Nat
    OBVIOUS
  <1>4. frames \in Nat
    BY <1>1, <1>2, <1>3
  <1>5. ItemSize(k) = struct + frames
    BY DEF ItemSize
  <1>6. struct \in Nat \ {0}
    BY StructSizesAre
  <1>7. FramesOf(k) = ItemSize(k) - struct
    BY DEF FramesOf
  <1> HIDE DEF frames, struct
  <1>8. ItemSize(k) \in Nat \ {0} /\ FramesOf(k) = frames /\ ItemSize(k) = struct + FramesOf(k)
    BY <1>4, <1>5, <1>6, <1>7
  <1> QED  BY <1>4, <1>8 DEF frames, struct

\* The width follows the tasks.
LEMMA WideIs ==
    ASSUME trace \in Traces
    PROVE  /\ WideAt(0) = FALSE
           /\ \A k \in 1 .. Len(inTrace) :
                /\ inTrace[k].kind = "task" => WideAt(k) = inTrace[k].is64
                /\ inTrace[k].kind # "task" => WideAt(k) = WideAt(k - 1)
  <1>1. WideAt(0) = FALSE
    BY DEF WideAt
  <1>2. ASSUME NEW k \in 1 .. Len(inTrace)
        PROVE  /\ inTrace[k].kind = "task" => WideAt(k) = inTrace[k].is64
               /\ inTrace[k].kind # "task" => WideAt(k) = WideAt(k - 1)
    <2>1. inTrace[k].is64 \in BOOLEAN /\ k \in Nat \ {0}
      BY TraceIs DEF TraceItem
    <2>2. /\ \A t : t \in 1 .. k <=> t \in 1 .. k - 1 \/ t = k
          /\ \A t \in 1 .. k - 1 : k \in t + 1 .. k
          /\ \A t \in 1 .. k - 1 : \A u : u \in t + 1 .. k <=> u \in t + 1 .. k - 1 \/ u = k
          /\ \A u : ~(u \in k + 1 .. k)
      BY <2>1
    <2>3. CASE inTrace[k].kind = "task"
      <3>1. WideAt(k) <=> inTrace[k].is64
        BY <2>2, <2>3 DEF WideAt
      <3>2. WideAt(k) \in BOOLEAN
        BY DEF WideAt
      <3> QED  BY <2>1, <2>3, <3>1, <3>2
    <2>4. CASE inTrace[k].kind # "task"
      <3>1. WideAt(k) <=> WideAt(k - 1)
        BY <2>2, <2>4 DEF WideAt
      <3>2. WideAt(k) \in BOOLEAN /\ WideAt(k - 1) \in BOOLEAN
        BY DEF WideAt
      <3> QED  BY <2>4, <3>1, <3>2
    <2> QED  BY <2>3, <2>4
  <1> QED  BY <1>1, <1>2

\* Where the items are: each behind the one before.
Grows(spot, n) ==
    /\ \A k \in 1 .. n + 1 : spot[k] \in Nat
    /\ \A j, k \in 1 .. n + 1 : j < k => spot[j] < spot[k]

LEMMA ItemOffsetsAre ==
    ASSUME trace \in Traces
    PROVE  /\ ItemOffsets[1] = 0 /\ Grows(ItemOffsets, Len(inTrace))
           /\ \A k \in 1 .. Len(inTrace) : ItemOffsets[k + 1] = ItemOffsets[k] + ItemSize(k)
  <1> DEFINE n == Len(inTrace)
             sizes == [k \in 1 .. n |-> ItemSize(k)]
             Q(f) == f = [k \in 1 .. n + 1 |-> IF k = 1 THEN 0 ELSE f[k - 1] + ItemSize(k - 1)]
  <1>1. n \in Nat /\ \A k \in 1 .. n : ItemSize(k) \in Nat \ {0}
    BY TraceIs, ItemSizesAre
  <1>2. /\ sizes \in [1 .. n -> Nat \ {0}] /\ sizes \in [1 .. n -> Nat]
        /\ \A k \in 1 .. n : sizes[k] = ItemSize(k)
    BY <1>1
  <1>3. \A f : SumsOf(f, 0, sizes, n) <=> Q(f)
    <2>1. \A k \in 1 .. n + 1 : k # 1 => sizes[k - 1] = ItemSize(k - 1)
      <3> TAKE k \in 1 .. n + 1
      <3>1. k # 1 => k - 1 \in 1 .. n
        BY <1>1
      <3> QED  BY <1>2, <3>1
    <2> HIDE DEF n, sizes
    <2> QED  BY <2>1 DEF SumsOf
  <1>4. ItemOffsets = CHOOSE g : Q(g)
    BY DEF ItemOffsets
  <1>5. SumsOf(ItemOffsets, 0, sizes, n)
    <2> HIDE DEF n, Q, sizes
    <2>1. \E f : SumsOf(f, 0, sizes, n)
      BY <1>1, <1>2, SumsExist
    <2>2. \E f : Q(f)
      BY <1>3, <2>1
    <2>3. Q(ItemOffsets)
      BY <1>4, <2>2
    <2> QED  BY <1>3, <2>3
  <1>6. /\ ItemOffsets \in [1 .. n + 1 -> Nat] /\ ItemOffsets[1] = 0
        /\ \A k \in 1 .. n : ItemOffsets[k + 1] = ItemOffsets[k] + sizes[k]
        /\ \A j, k \in 1 .. n + 1 : j < k => ItemOffsets[j] < ItemOffsets[k]
    <2> DEFINE spot == ItemOffsets
    <2>1. SumsOf(spot, 0, sizes, n)
      BY <1>5
    <2> HIDE DEF n, sizes, spot, Q
    <2>2. /\ spot \in [1 .. n + 1 -> Nat] /\ spot[1] = 0
          /\ \A k \in 1 .. n : spot[k + 1] = spot[k] + sizes[k]
          /\ \A j, k \in 1 .. n + 1 : j < k => spot[j] < spot[k]
      BY <1>1, <1>2, <2>1, SumsGrow
    <2> QED  BY <2>2 DEF spot
  <1> QED  BY <1>2, <1>6 DEF Grows

\* What was printed up to an offset: n items are at these places, and those
\* shown are printed with these frames.
TraceLine == [item : Nat, frames : Nat]

ToldOf(ls) == {m \in DOMAIN ls : ls[m].item # 0}

Recorded(n, spot, ls, ahead, warned) ==
    /\ \A m \in ToldOf(ls) : ls[m].item \in 1 .. n /\ spot[ls[m].item] < ahead
    /\ \A l, m \in ToldOf(ls) : l < m => ls[l].item < ls[m].item
    /\ \A m \in DOMAIN ls : ls[m].item = 0 /\ m > 1 => ls[m - 1].item # 0
    /\ \A m \in DOMAIN ls : ls[m].item = 0 /\ m = Len(ls) => warned

AllRecorded(n, spot, shown, frames, ls, ahead) ==
    /\ \A m \in ToldOf(ls) : ls[m].frames = frames[ls[m].item]
    /\ {ls[m].item : m \in ToldOf(ls)} = {k \in 1 .. n : k \in shown /\ spot[k] < ahead}

Adds(ls, line, s) == s = Append(ls, line)

LEMMA Appended ==
    ASSUME NEW ls \in Seq(TraceLine), NEW line \in TraceLine, NEW s, Adds(ls, line, s)
    PROVE  /\ s \in Seq(TraceLine) /\ Len(s) = Len(ls) + 1 /\ Len(ls) \in Nat
           /\ DOMAIN ls = 1 .. Len(ls) /\ DOMAIN s = 1 .. Len(ls) + 1
           /\ \A m \in 1 .. Len(ls) : s[m] = ls[m]
           /\ s[Len(ls) + 1] = line
           /\ line.item # 0 => ToldOf(s) = ToldOf(ls) \cup {Len(ls) + 1}
           /\ line.item = 0 => ToldOf(s) = ToldOf(ls)
           /\ ToldOf(ls) \subseteq 1 .. Len(ls)
  <1> DEFINE l == Len(ls)
  <1>1. /\ s \in Seq(TraceLine) /\ Len(s) = l + 1
        /\ \A m \in 1 .. l : s[m] = ls[m]
        /\ s[l + 1] = line
    BY AppendProperties DEF Adds
  <1>2. l \in Nat /\ DOMAIN ls = 1 .. l /\ DOMAIN s = 1 .. l + 1
    BY <1>1, LenProperties
  <1>3. \A m : m \in 1 .. l + 1 <=> m \in 1 .. l \/ m = l + 1
    BY <1>2
  <1>4. /\ line.item # 0 => ToldOf(s) = ToldOf(ls) \cup {l + 1}
        /\ line.item = 0 => ToldOf(s) = ToldOf(ls)
    <2> HIDE DEF l
    <2>1. \A m : m \in ToldOf(s) <=> m \in ToldOf(ls) \/ (m = l + 1 /\ line.item # 0)
      BY <1>1, <1>2, <1>3 DEF ToldOf
    <2> QED  BY <2>1
  <1> QED  BY <1>1, <1>2, <1>4 DEF ToldOf

LEMMA RecordsItem ==
    ASSUME NEW n \in Nat, NEW spot, Grows(spot, n), NEW ls \in Seq(TraceLine),
           NEW k \in 1 .. n, NEW warned, Recorded(n, spot, ls, spot[k], warned),
           NEW line \in TraceLine, line.item = k, NEW s, Adds(ls, line, s),
           NEW ahead \in Nat, spot[k] < ahead, NEW after
    PROVE  /\ s \in Seq(TraceLine) /\ Recorded(n, spot, s, ahead, after)
           /\ \A shown, frames :
                AllRecorded(n, spot, shown, frames, ls, spot[k])
                  /\ k \in shown /\ line.frames = frames[k] /\ ahead = spot[k + 1]
                    => AllRecorded(n, spot, shown, frames, s, ahead)
  <1> DEFINE l == Len(ls)
             f == line.frames
             now == spot[k]
             Old == ToldOf(ls)
  <1>1. line.item = k /\ line.frames = f /\ k # 0
    OBVIOUS
  <1> HIDE DEF f
  <1>2. /\ s \in Seq(TraceLine) /\ Len(s) = l + 1 /\ l \in Nat
        /\ DOMAIN ls = 1 .. l /\ DOMAIN s = 1 .. l + 1
        /\ \A m \in 1 .. l : s[m] = ls[m]
        /\ s[l + 1] = line
        /\ ToldOf(s) = Old \cup {l + 1}
        /\ Old \subseteq 1 .. l
    BY <1>1, Appended
  <1>3. /\ \A m : m \in 1 .. l + 1 <=> m \in 1 .. l \/ m = l + 1
        /\ \A m \in 1 .. l : m < l + 1 /\ m # l + 1 /\ m - 1 \in 0 .. l
        /\ \A m \in 1 .. l : m > 1 => m - 1 \in 1 .. l
    BY <1>2
  <1>4. now \in Nat /\ k \in 1 .. n + 1 /\ k + 1 \in 1 .. n + 1 /\ k < k + 1
    BY DEF Grows
  <1>5. \A j \in 1 .. n : /\ spot[j] \in Nat
                          /\ spot[j] < now => j < k
                          /\ spot[j] < spot[k + 1] <=> spot[j] < now \/ j = k
    <2> TAKE j \in 1 .. n
    <2>1. j \in 1 .. n + 1 /\ k \in 1 .. n + 1 /\ k + 1 \in 1 .. n + 1
      OBVIOUS
    <2>2. /\ spot[j] \in Nat /\ spot[k] \in Nat /\ spot[k + 1] \in Nat
          /\ j < k => spot[j] < spot[k]
          /\ k < j => spot[k] < spot[j]
          /\ spot[k] < spot[k + 1]
          /\ k + 1 < j => spot[k + 1] < spot[j]
      BY <2>1, <1>4 DEF Grows
    <2>3. j = k \/ j < k \/ j = k + 1 \/ k + 1 < j
      OBVIOUS
    <2>4. CASE j = k
      BY <2>2, <2>4
    <2>5. CASE j < k
      BY <2>2, <2>5
    <2>6. CASE j = k + 1
      BY <2>2, <2>6
    <2>7. CASE k + 1 < j
      BY <2>2, <2>7
    <2> QED  BY <2>3, <2>4, <2>5, <2>6, <2>7
  <1>6. /\ \A m \in Old : ls[m].item \in 1 .. n /\ spot[ls[m].item] < now
        /\ \A i, m \in Old : i < m => ls[i].item < ls[m].item
        /\ \A m \in 1 .. l : ls[m].item = 0 /\ m > 1 => ls[m - 1].item # 0
    BY <1>2, Zenon DEF Recorded
  <1> HIDE DEF Old, l, now
  <1>7. /\ s[l + 1].item = k /\ s[l + 1].frames = f
        /\ \A m \in Old : /\ m \in 1 .. l /\ s[m] = ls[m] /\ ls[m].item \in 1 .. n
                          /\ spot[ls[m].item] < now /\ ls[m].item < k
    BY <1>1, <1>2, <1>5, <1>6
  <1>8. \A m \in ToldOf(s) : s[m].item \in 1 .. n /\ spot[s[m].item] < ahead
    <2>1. \A a, b \in Nat : a < b /\ b < ahead => a < ahead
      OBVIOUS
    <2>2. now < ahead
      BY DEF now
    <2>3. \A m \in Old : spot[s[m].item] < ahead
      BY <1>4, <1>5, <1>7, <2>1, <2>2
    <2> QED  BY <1>2, <1>7, <2>2, <2>3 DEF now
  <1>9. ASSUME NEW i \in ToldOf(s), NEW m \in ToldOf(s), i < m PROVE s[i].item < s[m].item
    <2>1. i \in Old
      <3> SUFFICES ASSUME i = l + 1 PROVE FALSE
        BY <1>2
      <3>1. m \in 1 .. l \/ m = l + 1
        BY <1>2
      <3> QED  BY <1>2, <1>9, <3>1
    <2>2. CASE m \in Old
      BY <1>6, <1>7, <1>9, <2>1, <2>2
    <2>3. CASE m = l + 1
      BY <1>7, <2>1, <2>3
    <2> QED  BY <1>2, <2>2, <2>3
  <1>10. \A m \in DOMAIN s : s[m].item = 0 /\ m > 1 => s[m - 1].item # 0
    BY <1>1, <1>2, <1>3, <1>6
  <1>11. \A m \in DOMAIN s : s[m].item = 0 /\ m = Len(s) => after
    BY <1>1, <1>2
  <1>12. Recorded(n, spot, s, ahead, after)
    BY <1>8, <1>9, <1>10, <1>11, Zenon DEF Recorded
  <1>13. ASSUME NEW shown, NEW frames, AllRecorded(n, spot, shown, frames, ls, spot[k]),
                k \in shown, line.frames = frames[k], ahead = spot[k + 1]
         PROVE  AllRecorded(n, spot, shown, frames, s, ahead)
    <2>1. /\ \A m \in Old : ls[m].frames = frames[ls[m].item]
          /\ {ls[m].item : m \in Old} = {j \in 1 .. n : j \in shown /\ spot[j] < now}
      BY <1>13 DEF AllRecorded, Old, now
    <2>2. \A m \in ToldOf(s) : s[m].frames = frames[s[m].item]
      BY <1>1, <1>2, <1>7, <1>13, <2>1
    <2>3. {s[m].item : m \in ToldOf(s)} = {ls[m].item : m \in Old} \cup {k}
      <3>1. \A m \in ToldOf(s) : (m \in Old /\ s[m].item = ls[m].item) \/ s[m].item = k
        BY <1>2, <1>7
      <3>2. \A m \in Old : m \in ToldOf(s) /\ s[m].item = ls[m].item
        BY <1>2, <1>7
      <3>3. l + 1 \in ToldOf(s) /\ s[l + 1].item = k
        BY <1>2, <1>7
      <3>4. ASSUME NEW i \in {s[m].item : m \in ToldOf(s)} PROVE i \in {ls[m].item : m \in Old} \cup {k}
        BY <3>1
      <3>5. ASSUME NEW i \in {ls[m].item : m \in Old} PROVE i \in {s[m].item : m \in ToldOf(s)}
        BY <3>2
      <3>6. k \in {s[m].item : m \in ToldOf(s)}
        BY <3>3
      <3> QED  BY <3>4, <3>5, <3>6
    <2>4. {j \in 1 .. n : j \in shown /\ spot[j] < ahead}
            = {j \in 1 .. n : j \in shown /\ spot[j] < now} \cup {k}
      BY <1>5, <1>13
    <2> QED  BY <2>1, <2>2, <2>3, <2>4, Zenon DEF AllRecorded
  <1> QED  BY <1>2, <1>12, <1>13

LEMMA RecordsWarning ==
    ASSUME NEW n, NEW spot, NEW ls \in Seq(TraceLine), NEW ahead, Recorded(n, spot, ls, ahead, FALSE),
           NEW line \in TraceLine, line.item = 0, NEW s, Adds(ls, line, s)
    PROVE  /\ s \in Seq(TraceLine) /\ Recorded(n, spot, s, ahead, TRUE)
           /\ \A shown, frames : AllRecorded(n, spot, shown, frames, ls, ahead)
                                   => AllRecorded(n, spot, shown, frames, s, ahead)
  <1> DEFINE l == Len(ls)
             Old == ToldOf(ls)
  <1>2. /\ s \in Seq(TraceLine) /\ Len(s) = l + 1 /\ l \in Nat
        /\ DOMAIN ls = 1 .. l /\ DOMAIN s = 1 .. l + 1
        /\ \A m \in 1 .. l : s[m] = ls[m]
        /\ s[l + 1] = line
        /\ ToldOf(s) = Old /\ Old \subseteq 1 .. l
    BY Appended
  <1>3. /\ \A m : m \in 1 .. l + 1 <=> m \in 1 .. l \/ m = l + 1
        /\ \A m \in 1 .. l : m > 1 => m - 1 \in 1 .. l
        /\ (l + 1) - 1 = l /\ (l + 1 > 1 => l \in 1 .. l)
    BY <1>2
  <1>4. /\ \A m \in Old : ls[m].item \in 1 .. n /\ spot[ls[m].item] < ahead
        /\ \A i, m \in Old : i < m => ls[i].item < ls[m].item
        /\ \A m \in 1 .. l : ls[m].item = 0 /\ m > 1 => ls[m - 1].item # 0
        /\ \A m \in 1 .. l : ~(ls[m].item = 0 /\ m = l)
    BY <1>2, Zenon DEF Recorded
  <1>5. \A m \in Old : s[m] = ls[m]
    BY <1>2
  <1>6. \A m \in DOMAIN s : s[m].item = 0 /\ m > 1 => s[m - 1].item # 0
    <2> TAKE m \in DOMAIN s
    <2>1. CASE m \in 1 .. l
      BY <1>2, <1>3, <1>4, <2>1
    <2>2. CASE m = l + 1
      <3>1. m > 1 => l \in 1 .. l /\ s[m - 1] = ls[l]
        BY <1>2, <1>3, <2>2
      <3> QED  BY <1>4, <3>1
    <2> QED  BY <1>2, <1>3, <2>1, <2>2
  <1> HIDE DEF Old, l
  <1>7. Recorded(n, spot, s, ahead, TRUE)
    BY <1>2, <1>4, <1>5, <1>6 DEF Recorded
  <1>8. ASSUME NEW shown, NEW frames, AllRecorded(n, spot, shown, frames, ls, ahead)
        PROVE  AllRecorded(n, spot, shown, frames, s, ahead)
    BY <1>2, <1>5, <1>8 DEF AllRecorded, Old
  <1> QED  BY <1>2, <1>7, <1>8

LEMMA RecordedOn ==
    ASSUME NEW n \in Nat, NEW spot, Grows(spot, n), NEW ls, NEW ahead \in Nat, NEW warned,
           Recorded(n, spot, ls, ahead, warned),
           NEW more \in Nat, ahead <= more, NEW after, warned => after
    PROVE  Recorded(n, spot, ls, more, after)
  <1>1. \A m \in ToldOf(ls) : ls[m].item \in 1 .. n /\ spot[ls[m].item] < ahead
    BY DEF Recorded
  <1>2. \A j \in 1 .. n : spot[j] \in Nat
    BY DEF Grows
  <1>3. \A a \in Nat : a < ahead => a < more
    OBVIOUS
  <1>4. \A m \in ToldOf(ls) : ls[m].item \in 1 .. n /\ spot[ls[m].item] < more
    BY <1>1, <1>2, <1>3
  <1> QED  BY <1>4 DEF Recorded

LEMMA AllRecordedOn ==
    ASSUME NEW n \in Nat, NEW spot, Grows(spot, n), NEW ls, NEW ahead \in Nat, NEW shown, NEW frames,
           AllRecorded(n, spot, shown, frames, ls, ahead), \A k \in 1 .. n : k \in shown => spot[k] # ahead
    PROVE  AllRecorded(n, spot, shown, frames, ls, ahead + 1)
  <1>1. \A j \in 1 .. n : j \in shown => (spot[j] < ahead <=> spot[j] < ahead + 1)
    BY DEF Grows
  <1>2. {k \in 1 .. n : k \in shown /\ spot[k] < ahead} = {k \in 1 .. n : k \in shown /\ spot[k] < ahead + 1}
    BY <1>1
  <1> QED  BY <1>2 DEF AllRecorded

Shown == {k \in 1 .. Len(inTrace) : Printable(k)}
Frames == [k \in 1 .. Len(inTrace) |-> FramesOf(k)]

\* The walk is at item k, or seeks to the next one from within it.
InStep(k) ==
    /\ \/ traceOff = ItemOffsets[k]
       \/ /\ k <= Len(inTrace) /\ inTrace[k].kind = "other"
          /\ ItemOffsets[k] < traceOff /\ traceOff < ItemOffsets[k + 1]
    /\ is64bit = WideAt(k - 1)

TraceInv ==
    /\ trace \in Traces
    /\ tracer \in {"start", "walk", "stuck", "done", "failed"}
    /\ traceOff \in Nat /\ warn \in BOOLEAN
    /\ traceLines \in Seq(TraceLine)
    /\ Recorded(Len(inTrace), ItemOffsets, traceLines, traceOff, warn)
    /\ tracer = "start" => traceOff = 0
    /\ trace.kframe = 16 =>
         /\ AllRecorded(Len(inTrace), ItemOffsets, Shown, Frames, traceLines, traceOff)
         /\ \E k \in 1 .. Len(inTrace) + 1 : InStep(k)
         /\ tracer = "done" => traceOff = traceEnd

LEMMA TraceBegins == StackSnapshotInit => TraceInv
  <1> SUFFICES ASSUME StackSnapshotInit PROVE TraceInv
    OBVIOUS
  <1> USE DEF StackSnapshotInit
  <1>1. traceLines \in Seq(TraceLine) /\ DOMAIN traceLines = {}
    OBVIOUS
  <1>2. trace \in Traces /\ Len(inTrace) \in Nat /\ traceOff = 0
    BY TraceIs
  <1>3. Recorded(Len(inTrace), ItemOffsets, traceLines, traceOff, warn)
    BY <1>1 DEF Recorded, ToldOf
  <1>4. AllRecorded(Len(inTrace), ItemOffsets, Shown, Frames, traceLines, traceOff)
    <2>1. \A k \in 1 .. Len(inTrace) : ~(ItemOffsets[k] < 0)
      BY <1>2, ItemOffsetsAre DEF Grows
    <2>2. {k \in 1 .. Len(inTrace) : k \in Shown /\ ItemOffsets[k] < 0} = {}
      BY <2>1
    <2>3. ToldOf(traceLines) = {}
      BY <1>1 DEF ToldOf
    <2> QED  BY <1>2, <2>2, <2>3 DEF AllRecorded
  <1>5. InStep(1) /\ 1 \in 1 .. Len(inTrace) + 1
    <2>1. ItemOffsets[1] = 0 /\ WideAt(0) = FALSE
      BY <1>2, ItemOffsetsAre, WideIs
    <2>2. 1 - 1 = 0
      OBVIOUS
    <2>3. is64bit = WideAt(1 - 1)
      BY <2>1, <2>2
    <2>4. 1 \in 1 .. Len(inTrace) + 1
      BY <1>2
    <2> QED  BY <1>2, <2>1, <2>3, <2>4 DEF InStep
  <1>6. tracer = "start" /\ warn \in BOOLEAN /\ traceOff \in Nat
    OBVIOUS
  <1> QED  BY <1>1, <1>2, <1>3, <1>4, <1>5, <1>6 DEF TraceInv

LEMMA TraceFixed ==
    ASSUME trace' = trace
    PROVE  /\ inTrace' = inTrace /\ ItemOffsets' = ItemOffsets /\ traceEnd' = traceEnd
           /\ Shown' = Shown /\ Frames' = Frames
           /\ \A k : WideAt(k)' = WideAt(k)
  <1>1. inTrace' = inTrace
    BY DEF inTrace
  <1>2. \A k : WideAt(k)' = WideAt(k)
    BY <1>1 DEF WideAt
  <1>3. ItemOffsets' = ItemOffsets
    BY DEF ItemOffsets, ItemSize, StructSize, UserFrame, WideAt, inTrace
  <1>4. traceEnd' = traceEnd
    BY <1>1, <1>3 DEF traceEnd
  <1>5. Shown' = Shown
    BY <1>1 DEF Shown, Printable
  <1>6. Frames' = Frames
    BY DEF Frames, FramesOf, ItemSize, StructSize, UserFrame, WideAt, inTrace
  <1> QED  BY <1>1, <1>2, <1>3, <1>4, <1>5, <1>6

\* What the walk meets is the item that begins there.
LEMMA MetIs ==
    ASSUME TraceInv, NEW kind, Walking(kind)
    PROVE  /\ Met \in 1 .. Len(inTrace) /\ ItemOffsets[Met] = traceOff
           /\ inTrace[Met].kind = kind /\ kind # "other"
           /\ \A k \in 1 .. Len(inTrace) + 1 : InStep(k) => k = Met
  <1>1. trace \in Traces
    BY DEF TraceInv
  <1>2. PICK k \in MagicAt(traceOff) : inTrace[k].kind = kind
    BY DEF Walking
  <1>3. Met \in MagicAt(traceOff)
    BY <1>2 DEF Met
  <1>4. /\ k \in 1 .. Len(inTrace) /\ ItemOffsets[k] = traceOff /\ inTrace[k].kind # "other"
        /\ Met \in 1 .. Len(inTrace) /\ ItemOffsets[Met] = traceOff
    BY <1>1, <1>2, <1>3, TraceIs DEF MagicAt
  <1> DEFINE n == Len(inTrace)
             spot == ItemOffsets
             met == Met
  <1>5. n \in Nat /\ Grows(spot, n)
    BY <1>1, TraceIs, ItemOffsetsAre
  <1>6. k \in 1 .. n /\ spot[k] = traceOff /\ met \in 1 .. n /\ spot[met] = traceOff
    BY <1>4
  <1>7. ASSUME NEW i \in 1 .. n + 1, InStep(i) PROVE i = met
    <2>1. \/ traceOff = spot[i]
          \/ i \in 1 .. n /\ spot[i] < traceOff /\ traceOff < spot[i + 1]
      BY <1>5, <1>7 DEF InStep
    <2> HIDE DEF n, spot, met
    <2>2. i < met => spot[i] < spot[met]
      BY <1>5, <1>6 DEF Grows
    <2>3. met < i => spot[met] < spot[i]
      BY <1>5, <1>6 DEF Grows
    <2>4. spot[i] \in Nat /\ spot[met] \in Nat
      BY <1>5, <1>6 DEF Grows
    <2>5. CASE traceOff = spot[i]
      BY <1>5, <1>6, <2>2, <2>3, <2>4, <2>5
    <2>6. CASE i \in 1 .. n /\ spot[i] < traceOff /\ traceOff < spot[i + 1]
      <3>1. i + 1 \in 1 .. n + 1 /\ i \in Nat /\ met \in Nat
        BY <1>5, <1>6, <2>6
      <3>2. spot[i + 1] \in Nat /\ (i + 1 < met => spot[i + 1] < spot[met])
        BY <1>5, <1>6, <3>1 DEF Grows
      <3>3. ~(met < i) /\ met # i /\ ~(i + 1 < met) /\ met # i + 1
        BY <1>6, <2>3, <2>4, <2>6, <3>2
      <3> QED  BY <3>1, <3>3
    <2> QED  BY <2>1, <2>5, <2>6
  <1>8. k = met
    <2> HIDE DEF n, spot, met
    <2>1. /\ k < met => spot[k] < spot[met]
          /\ met < k => spot[met] < spot[k]
          /\ spot[k] \in Nat
      BY <1>5, <1>6 DEF Grows
    <2> QED  BY <1>5, <1>6, <2>1
  <1> QED  BY <1>2, <1>4, <1>7, <1>8

\* An item is told.
LEMMA ItemTold ==
    ASSUME TraceInv, NEW kind, Walking(kind), kind \in {"io", "task", "thread"},
           NEW f \in Nat, traceLines' = Append(traceLines, [item |-> Met, frames |-> f]),
           traceOff' = traceOff + StructSize(kind) + f,
           trace' = trace, tracer' = tracer, warn' \in BOOLEAN,
           trace.kframe = 16 => f = FramesOf(Met) /\ is64bit' = WideAt(Met)
    PROVE  TraceInv'
  <1>0. PICK k \in 1 .. Len(inTrace) : k = Met
    BY MetIs
  <1> DEFINE n == Len(inTrace)
             spot == ItemOffsets
             line == [item |-> k, frames |-> f]
             ls == traceLines
             s == traceLines'
             ahead == traceOff'
             struct == StructSize(kind)
  <1>1. /\ trace \in Traces /\ ls \in Seq(TraceLine) /\ traceOff \in Nat
        /\ Recorded(n, spot, ls, traceOff, warn)
        /\ tracer = "walk"
    BY DEF TraceInv, Walking
  <1>2. n \in Nat /\ Grows(spot, n) /\ \A j \in 1 .. n : spot[j + 1] = spot[j] + ItemSize(j)
    BY <1>1, TraceIs, ItemOffsetsAre
  <1>3. /\ k \in 1 .. n /\ spot[k] = traceOff /\ inTrace[k].kind = kind
        /\ \A j \in 1 .. n + 1 : InStep(j) => j = k
    BY <1>0, MetIs
  <1>4. struct \in Nat \ {0}
    BY StructSizesAre
  <1>5. ahead = traceOff + struct + f
    OBVIOUS
  <1>6. ahead \in Nat /\ traceOff < ahead
    <2> HIDE DEF ahead, struct
    <2> QED  BY <1>1, <1>4, <1>5
  <1>7. line \in TraceLine /\ line.item = k /\ line.frames = f
    BY <1>2, <1>3 DEF TraceLine
  <1>8. Adds(ls, line, s)
    BY <1>0 DEF Adds
  <1>9. /\ s \in Seq(TraceLine) /\ Recorded(n, spot, s, ahead, warn')
        /\ \A shown, frames :
             AllRecorded(n, spot, shown, frames, ls, spot[k])
               /\ k \in shown /\ line.frames = frames[k] /\ ahead = spot[k + 1]
                 => AllRecorded(n, spot, shown, frames, s, ahead)
    <2> DEFINE after == warn'
    <2> HIDE DEF n, spot, line, ls, s, ahead, after
    <2>1. spot[k] < ahead /\ Recorded(n, spot, ls, spot[k], warn)
      BY <1>1, <1>3, <1>6
    <2>2. /\ s \in Seq(TraceLine) /\ Recorded(n, spot, s, ahead, after)
          /\ \A shown, frames :
               AllRecorded(n, spot, shown, frames, ls, spot[k])
                 /\ k \in shown /\ line.frames = frames[k] /\ ahead = spot[k + 1]
                   => AllRecorded(n, spot, shown, frames, s, ahead)
      BY <1>1, <1>2, <1>3, <1>6, <1>7, <1>8, <2>1, RecordsItem
    <2> QED  BY <2>2 DEF after
  <1>10. ASSUME trace.kframe = 16
         PROVE  /\ AllRecorded(n, spot, Shown, Frames, s, ahead)
                /\ k + 1 \in 1 .. n + 1 /\ ahead = spot[k + 1]
    <2>1. k \in Shown /\ Frames[k] = FramesOf(k)
      BY <1>3 DEF Shown, Frames, Printable
    <2>2. line.frames = Frames[k]
      BY <1>0, <1>7, <1>10, <2>1
    <2>3. ahead = spot[k + 1]
      <3>1. ItemSize(k) = struct + f
        BY <1>0, <1>1, <1>3, <1>10, ItemSizesAre
      <3>2. spot[k + 1] = spot[k] + ItemSize(k)
        BY <1>2, <1>3
      <3> HIDE DEF spot, struct, ahead
      <3> QED  BY <1>1, <1>3, <1>4, <1>5, <3>1, <3>2
    <2>4. AllRecorded(n, spot, Shown, Frames, ls, spot[k])
      <3>1. AllRecorded(n, spot, Shown, Frames, ls, traceOff)
        BY <1>10 DEF TraceInv
      <3> HIDE DEF spot, n, ls
      <3> QED  BY <1>3, <3>1
    <2>5. AllRecorded(n, spot, Shown, Frames, s, ahead)
      <3> HIDE DEF spot, n, ls, line, s, ahead
      <3> QED  BY <1>9, <2>1, <2>2, <2>3, <2>4
    <2>6. k + 1 \in 1 .. n + 1
      <3> HIDE DEF n
      <3> QED  BY <1>2, <1>3
    <2> QED  BY <2>3, <2>5, <2>6
  <1>11. /\ n' = n /\ spot' = spot /\ Shown' = Shown /\ Frames' = Frames
         /\ \A j : WideAt(j)' = WideAt(j)
    BY TraceFixed
  <1>12. /\ trace' \in Traces /\ tracer' = "walk" /\ trace'.kframe = trace.kframe
         /\ Recorded(n, spot, traceLines, traceOff, warn)'
    BY <1>1, <1>9, <1>11
  <1>13. ASSUME trace.kframe = 16
         PROVE  /\ AllRecorded(n, spot, Shown, Frames, traceLines, traceOff)'
                /\ (k + 1 \in 1 .. n + 1) /\ InStep(k + 1)'
    <2>1. AllRecorded(n, spot, Shown, Frames, traceLines, traceOff)'
      BY <1>10, <1>11, <1>13
    <2>2. k \in Nat /\ (k + 1) - 1 = k
      <3> HIDE DEF n
      <3> QED  BY <1>2, <1>3
    <2>3. is64bit' = WideAt((k + 1) - 1)
      BY <1>0, <1>13, <2>2
    <2>4. InStep(k + 1)'
      BY <1>10, <1>11, <1>13, <2>3 DEF InStep
    <2> QED  BY <1>10, <1>13, <2>1, <2>4
  <1>14. trace'.kframe = 16 =>
           /\ AllRecorded(n, spot, Shown, Frames, traceLines, traceOff)'
           /\ \E j \in 1 .. n' + 1 : InStep(j)'
           /\ tracer' # "done"
    BY <1>11, <1>12, <1>13
  <1> QED  BY <1>6, <1>9, <1>12, <1>14 DEF TraceInv

\* The search behind an item goes on by one byte.
LEMMA MagicSought ==
    ASSUME TraceInv, SeekMagic
    PROVE  TraceInv'
  <1> DEFINE n == Len(inTrace)
             spot == ItemOffsets
             ls == traceLines
             s == traceLines'
  <1>1. /\ trace \in Traces /\ ls \in Seq(TraceLine) /\ traceOff \in Nat /\ warn \in BOOLEAN
        /\ Recorded(n, spot, ls, traceOff, warn)
        /\ trace.kframe = 16 => /\ AllRecorded(n, spot, Shown, Frames, ls, traceOff)
                                /\ \E k \in 1 .. n + 1 : InStep(k)
    BY DEF TraceInv
  <1>2. /\ tracer = "walk" /\ traceOff < traceEnd /\ MagicAt(traceOff) = {}
        /\ traceLines' = (IF warn THEN traceLines ELSE Append(traceLines, [item |-> 0, frames |-> 0]))
        /\ warn' = TRUE /\ traceOff' = traceOff + 1
        /\ trace' = trace /\ tracer' = tracer /\ is64bit' = is64bit
    BY DEF SeekMagic
  <1>3. /\ n \in Nat /\ Grows(spot, n) /\ DOMAIN inTrace = 1 .. n
        /\ \A j \in 1 .. n : spot[j + 1] = spot[j] + ItemSize(j)
    BY <1>1, TraceIs, ItemOffsetsAre
  <1>4. \A k \in 1 .. n : spot[k] = traceOff => inTrace[k].kind = "other"
    BY <1>2, <1>3 DEF MagicAt
  <1>5. \A k \in 1 .. n : k \in Shown => spot[k] # traceOff
    BY <1>4 DEF Shown, Printable
  <1>6. traceOff' \in Nat /\ traceOff <= traceOff'
    BY <1>1, <1>2
  <1>7. /\ s \in Seq(TraceLine) /\ Recorded(n, spot, s, traceOff', TRUE)
        /\ trace.kframe = 16 => AllRecorded(n, spot, Shown, Frames, s, traceOff + 1)
    <2>1. /\ s \in Seq(TraceLine) /\ Recorded(n, spot, s, traceOff, TRUE)
          /\ trace.kframe = 16 => AllRecorded(n, spot, Shown, Frames, s, traceOff)
      <3>1. CASE warn
        <4>1. s = ls /\ warn = TRUE
          BY <1>1, <1>2, <3>1
        <4> HIDE DEF n, spot, ls, s
        <4> QED  BY <1>1, <4>1
      <3>2. CASE ~warn
        <4> DEFINE line == [item |-> 0, frames |-> 0]
        <4>1. line \in TraceLine /\ line.item = 0
          BY DEF TraceLine
        <4>2. Adds(ls, line, s) /\ warn = FALSE
          BY <1>1, <1>2, <3>2 DEF Adds
        <4>3. Recorded(n, spot, ls, traceOff, FALSE)
          BY <1>1, <4>2
        <4> HIDE DEF n, spot, ls, s, line
        <4>4. /\ s \in Seq(TraceLine) /\ Recorded(n, spot, s, traceOff, TRUE)
              /\ \A shown, frames : AllRecorded(n, spot, shown, frames, ls, traceOff)
                                      => AllRecorded(n, spot, shown, frames, s, traceOff)
          BY <1>1, <4>1, <4>2, <4>3, RecordsWarning
        <4> QED  BY <1>1, <4>4
      <3> QED  BY <3>1, <3>2
    <2> DEFINE next == traceOff'
    <2> HIDE DEF n, spot, ls, s, next
    <2>2. next \in Nat /\ traceOff <= next
      BY <1>6 DEF next
    <2>3. Recorded(n, spot, s, next, TRUE)
      BY <1>1, <1>3, <2>1, <2>2, RecordedOn
    <2>4. trace.kframe = 16 => AllRecorded(n, spot, Shown, Frames, s, traceOff + 1)
      BY <1>1, <1>3, <1>5, <2>1, AllRecordedOn
    <2> QED  BY <2>1, <2>3, <2>4 DEF next
  <1>8. /\ n' = n /\ spot' = spot /\ Shown' = Shown /\ Frames' = Frames
        /\ inTrace' = inTrace /\ \A j : WideAt(j)' = WideAt(j)
    BY <1>2, TraceFixed
  <1>9. ASSUME trace.kframe = 16
        PROVE  \E k \in 1 .. n + 1 : InStep(k)'
    <2>1. PICK k \in 1 .. n + 1 : InStep(k)
      BY <1>1, <1>9
    <2>2. k \in 1 .. n /\ inTrace[k].kind = "other" /\ spot[k] <= traceOff /\ traceOff < spot[k + 1]
      <3>1. CASE traceOff = spot[k]
        <4>1. traceOff < spot[n + 1]
          BY <1>2 DEF traceEnd
        <4> HIDE DEF n, spot
        <4>2. k # n + 1 /\ k \in 1 .. n
          BY <1>1, <1>3, <3>1, <4>1
        <4>3. spot[k] < spot[k + 1] /\ spot[k] \in Nat
          BY <1>3, <4>2 DEF Grows
        <4> QED  BY <1>1, <1>4, <3>1, <4>2, <4>3
      <3>2. CASE traceOff # spot[k]
        <4>1. k <= n /\ inTrace[k].kind = "other" /\ spot[k] < traceOff /\ traceOff < spot[k + 1]
          BY <2>1, <3>2 DEF InStep
        <4> HIDE DEF n, spot
        <4>2. k \in 1 .. n /\ spot[k] \in Nat
          BY <1>3, <4>1 DEF Grows
        <4> QED  BY <1>1, <4>1, <4>2
      <3> QED  BY <3>1, <3>2
    <2>3. k + 1 \in 1 .. n + 1 /\ (k + 1) - 1 = k /\ k <= n
      <3> HIDE DEF n
      <3> QED  BY <1>3, <2>2
    <2>4. spot[k] \in Nat /\ spot[k + 1] \in Nat
      <3> HIDE DEF n, spot
      <3> QED  BY <1>3, <2>3 DEF Grows
    <2>5. is64bit = WideAt(k - 1) /\ WideAt(k) = WideAt(k - 1)
      BY <1>1, <2>1, <2>2, WideIs DEF InStep
    <2>6. CASE traceOff + 1 = spot[k + 1]
      <3>1. is64bit' = WideAt((k + 1) - 1) /\ traceOff' = spot[k + 1]
        BY <1>2, <2>3, <2>5, <2>6
      <3> DEFINE j == k + 1
      <3>2. InStep(j)'
        BY <1>8, <3>1 DEF InStep
      <3> QED  BY <2>3, <3>2
    <2>7. CASE traceOff + 1 # spot[k + 1]
      <3>1. spot[k] < traceOff' /\ traceOff' < spot[k + 1]
        <4> DEFINE a == spot[k]
                   b == spot[k + 1]
        <4>1. a \in Nat /\ b \in Nat /\ a <= traceOff /\ traceOff < b /\ traceOff + 1 # b
          BY <2>2, <2>4, <2>7
        <4> HIDE DEF a, b
        <4>2. a < traceOff + 1 /\ traceOff + 1 < b
          BY <1>1, <4>1
        <4> QED  BY <1>2, <4>2 DEF a, b
      <3>2. InStep(k)'
        BY <1>2, <1>8, <2>2, <2>3, <2>5, <3>1 DEF InStep
      <3> QED  BY <3>2
    <2> QED  BY <2>6, <2>7
  <1>10. Recorded(n, spot, traceLines, traceOff, warn)'
    BY <1>2, <1>7, <1>8
  <1>11. trace'.kframe = 16 =>
           /\ AllRecorded(n, spot, Shown, Frames, traceLines, traceOff)'
           /\ \E j \in 1 .. n' + 1 : InStep(j)'
           /\ tracer' # "done"
    BY <1>2, <1>7, <1>8, <1>9
  <1> QED  BY <1>1, <1>2, <1>6, <1>7, <1>10, <1>11 DEF TraceInv

LEMMA TraceGoesOn ==
    ASSUME TraceInv, [StackSnapshotNext]_traceVars
    PROVE  TraceInv'
  <1>0. trace \in Traces
    BY DEF TraceInv
  <1>1. CASE CallSnapshot
    <2>1. /\ trace' = trace /\ traceOff' = traceOff /\ is64bit' = is64bit /\ warn' = warn
          /\ traceLines' = traceLines /\ tracer' \in {"walk", "failed"}
      BY <1>1 DEF CallSnapshot
    <2> QED  BY <2>1, TraceFixed DEF TraceInv, InStep
  <1>2. ASSUME NEW kind \in {"io", "task", "thread"}, Walking(kind)
        PROVE  Met \in 1 .. Len(inTrace) /\ inTrace[Met].kind = kind
               /\ (trace.kframe = 16 => is64bit = WideAt(Met - 1))
    <2>1. /\ Met \in 1 .. Len(inTrace) /\ inTrace[Met].kind = kind
          /\ \A k \in 1 .. Len(inTrace) + 1 : InStep(k) => k = Met
      BY <1>2, MetIs
    <2>2. trace.kframe = 16 => \E k \in 1 .. Len(inTrace) + 1 : InStep(k)
      BY DEF TraceInv
    <2> QED  BY <2>1, <2>2 DEF InStep
  <1>3. CASE DumpMemAndIo
    <2>1. /\ Walking("io") /\ traceLines' = Append(traceLines, [item |-> Met, frames |-> 0])
          /\ traceOff' = traceOff + StructSize("io")
          /\ trace' = trace /\ tracer' = tracer /\ is64bit' = is64bit /\ warn' = warn
      BY <1>3 DEF DumpMemAndIo
    <2>2. traceOff \in Nat /\ StructSize("io") \in Nat /\ warn \in BOOLEAN
      BY StructSizesAre DEF TraceInv
    <2>3. traceOff' = traceOff + StructSize("io") + 0
      BY <2>1, <2>2
    <2>4. Met \in 1 .. Len(inTrace) /\ inTrace[Met].kind = "io"
          /\ (trace.kframe = 16 => is64bit = WideAt(Met - 1))
      BY <1>2, <2>1
    <2>5. trace.kframe = 16 => 0 = FramesOf(Met) /\ is64bit' = WideAt(Met)
      BY <1>0, <2>1, <2>4, WideIs, ItemSizesAre
    <2> QED  BY <2>1, <2>2, <2>3, <2>5, ItemTold
  <1>4. CASE DumpTask
    <2>1. /\ Walking("task") /\ traceLines' = Append(traceLines, [item |-> Met, frames |-> 0])
          /\ traceOff' = traceOff + StructSize("task")
          /\ trace' = trace /\ tracer' = tracer /\ is64bit' = inTrace[Met].is64 /\ warn' = FALSE
      BY <1>4 DEF DumpTask
    <2>2. traceOff \in Nat /\ StructSize("task") \in Nat
      BY StructSizesAre DEF TraceInv
    <2>3. traceOff' = traceOff + StructSize("task") + 0
      BY <2>1, <2>2
    <2>4. Met \in 1 .. Len(inTrace) /\ inTrace[Met].kind = "task"
      BY <1>2, <2>1
    <2>5. 0 = FramesOf(Met) /\ is64bit' = WideAt(Met)
      BY <1>0, <2>1, <2>4, WideIs, ItemSizesAre
    <2>6. /\ Walking("task") /\ traceLines' = Append(traceLines, [item |-> Met, frames |-> 0])
          /\ trace' = trace /\ tracer' = tracer /\ warn' \in BOOLEAN
      BY <2>1
    <2> QED  BY <2>3, <2>5, <2>6, ItemTold
  <1>5. CASE DumpThread
    <2> DEFINE frames == inTrace[Met].user * UserFrame(is64bit) + inTrace[Met].kern * 16
    <2>1. /\ Walking("thread") /\ traceLines' = Append(traceLines, [item |-> Met, frames |-> frames])
          /\ traceOff' = traceOff + StructSize("thread") + frames
          /\ trace' = trace /\ tracer' = tracer /\ is64bit' = is64bit /\ warn' = FALSE
      BY <1>5 DEF DumpThread
    <2>2. Met \in 1 .. Len(inTrace) /\ inTrace[Met].kind = "thread"
          /\ (trace.kframe = 16 => is64bit = WideAt(Met - 1))
      BY <1>2, <2>1
    <2>3. frames \in Nat
      <3>1. inTrace[Met].user \in Nat /\ inTrace[Met].kern \in Nat
        BY <1>0, <2>2, TraceIs DEF TraceItem
      <3>2. UserFrame(is64bit) \in {8, 16}
        BY DEF UserFrame
      <3>3. \A a, b \in Nat : \A u \in {8, 16} : a * u + b * 16 \in Nat
        OBVIOUS
      <3> QED  BY <3>1, <3>2, <3>3
    <2>4. trace.kframe = 16 => frames = FramesOf(Met) /\ is64bit' = WideAt(Met)
      <3>1. WideAt(Met) = WideAt(Met - 1)
        BY <1>0, <2>2, WideIs
      <3>2. FramesOf(Met) = inTrace[Met].user * UserFrame(WideAt(Met)) + inTrace[Met].kern * trace.kframe
        BY <1>0, <2>2, ItemSizesAre
      <3> QED  BY <2>1, <2>2, <3>1, <3>2
    <2> HIDE DEF frames
    <2> QED  BY <2>1, <2>3, <2>4, ItemTold
  <1>6. CASE MeetMem
    <2>1. /\ trace' = trace /\ traceOff' = traceOff /\ is64bit' = is64bit /\ warn' = warn
          /\ traceLines' = traceLines /\ tracer' = "stuck"
      BY <1>6 DEF MeetMem
    <2> QED  BY <2>1, TraceFixed DEF TraceInv, InStep
  <1>7. CASE SeekMagic
    BY <1>7, MagicSought
  <1>8. CASE WalkedAll
    <2>1. /\ trace' = trace /\ traceOff' = traceOff /\ is64bit' = is64bit /\ warn' = warn
          /\ traceLines' = traceLines /\ tracer' = "done" /\ tracer = "walk" /\ traceOff >= traceEnd
      BY <1>8 DEF WalkedAll
    <2>2. ASSUME trace.kframe = 16 PROVE traceOff = traceEnd
      <3> DEFINE n == Len(inTrace)
                 spot == ItemOffsets
      <3>1. PICK k \in 1 .. n + 1 : InStep(k)
        BY <2>2 DEF TraceInv
      <3>2. n \in Nat /\ Grows(spot, n) /\ traceOff \in Nat /\ traceOff >= spot[n + 1]
        BY <1>0, <2>1, TraceIs, ItemOffsetsAre DEF TraceInv, traceEnd
      <3>3. \/ traceOff = spot[k]
            \/ k \in 1 .. n /\ traceOff < spot[k + 1]
        BY <3>1, <3>2 DEF InStep
      <3> HIDE DEF n, spot
      <3>4. n + 1 \in 1 .. n + 1 /\ spot[n + 1] \in Nat /\ spot[k] \in Nat
        BY <3>2 DEF Grows
      <3>5. CASE traceOff = spot[k]
        <4>1. k < n + 1 => spot[k] < spot[n + 1]
          BY <3>2, <3>4 DEF Grows
        <4>2. k = n + 1
          BY <3>2, <3>4, <3>5, <4>1
        <4> QED  BY <3>5, <4>2 DEF n, spot, traceEnd
      <3>6. CASE k \in 1 .. n /\ traceOff < spot[k + 1]
        <4>1. k + 1 \in 1 .. n + 1
          BY <3>2, <3>6
        <4>2. spot[k + 1] \in Nat /\ (k + 1 = n + 1 \/ spot[k + 1] < spot[n + 1])
          BY <3>2, <3>4, <4>1 DEF Grows
        <4>3. FALSE
          BY <3>2, <3>4, <3>6, <4>2
        <4> QED  BY <4>3
      <3> QED  BY <3>3, <3>5, <3>6
    <2> QED  BY <2>1, <2>2, TraceFixed DEF TraceInv, InStep
  <1>9. CASE UNCHANGED traceVars
    <2>1. /\ trace' = trace /\ traceOff' = traceOff /\ is64bit' = is64bit /\ warn' = warn
          /\ traceLines' = traceLines /\ tracer' = tracer
      BY <1>9 DEF traceVars
    <2> QED  BY <2>1, TraceFixed DEF TraceInv, InStep
  <1> QED  BY <1>1, <1>3, <1>4, <1>5, <1>6, <1>7, <1>8, <1>9 DEF StackSnapshotNext

LEMMA TraceTells == TraceInv => TraceIsTold
  <1> SUFFICES ASSUME TraceInv PROVE TraceIsTold
    OBVIOUS
  <1>1. /\ trace \in Traces /\ traceLines \in Seq(TraceLine) /\ traceOff \in Nat
        /\ Recorded(Len(inTrace), ItemOffsets, traceLines, traceOff, warn)
        /\ tracer = "start" => traceOff = 0
    BY DEF TraceInv
  <1>2. ToldLines = ToldOf(traceLines)
    BY DEF ToldLines, ToldOf
  <1>3. \A m, n \in ToldLines : m < n => traceLines[m].item < traceLines[n].item
    BY <1>1, <1>2 DEF Recorded
  <1>4. \A n \in DOMAIN traceLines : traceLines[n].item = 0 /\ n > 1 => traceLines[n - 1].item # 0
    BY <1>1 DEF Recorded
  <1>5. ASSUME trace.kframe = 16
        PROVE  /\ \A n \in ToldLines :
                    LET k == traceLines[n].item IN
                    traceLines[n].frames = ItemSize(k) - StructSize(inTrace[k].kind)
               /\ ToldItems = {k \in DOMAIN inTrace :
                                 Printable(k) /\ tracer # "start" /\ ItemOffsets[k] < traceOff}
               /\ tracer = "done" => traceOff = traceEnd
    <2>1. /\ AllRecorded(Len(inTrace), ItemOffsets, Shown, Frames, traceLines, traceOff)
          /\ tracer = "done" => traceOff = traceEnd
      BY <1>5 DEF TraceInv
    <2>2. \A n \in ToldLines : traceLines[n].item \in 1 .. Len(inTrace)
                               /\ traceLines[n].frames = Frames[traceLines[n].item]
      BY <1>1, <1>2, <2>1 DEF Recorded, AllRecorded
    <2>3. \A k \in 1 .. Len(inTrace) : Frames[k] = ItemSize(k) - StructSize(inTrace[k].kind)
      BY DEF Frames, FramesOf
    <2>4. \A k \in 1 .. Len(inTrace) : /\ k \in Shown <=> Printable(k)
                                       /\ ItemOffsets[k] < traceOff => tracer # "start"
      BY <1>1, ItemOffsetsAre DEF Shown, Grows
    <2>5. ToldItems = {k \in 1 .. Len(inTrace) : k \in Shown /\ ItemOffsets[k] < traceOff}
      BY <1>2, <2>1 DEF ToldItems, AllRecorded
    <2>6. DOMAIN inTrace = 1 .. Len(inTrace)
      BY <1>1, TraceIs
    <2>7. ToldItems = {k \in DOMAIN inTrace :
                         Printable(k) /\ tracer # "start" /\ ItemOffsets[k] < traceOff}
      BY <2>4, <2>5, <2>6
    <2> QED  BY <2>1, <2>2, <2>3, <2>7
  <1> QED  BY <1>3, <1>4, <1>5 DEF TraceIsTold

LEMMA TraceIsAlwaysTold == StackSnapshotSpec => []TraceIsTold
  <1>1. StackSnapshotSpec => []TraceInv
    BY TraceBegins, TraceGoesOn, PTL DEF StackSnapshotSpec
  <1> QED  BY <1>1, TraceTells, PTL

\* stackshot and 5-2-stack-snapshot, each running as it does, stay in step with
\* what the kernel gave them: whatever the items and their sizes, each item is
\* told in order and once, at the depth its containers have and in nobody else's
\* words (handle_kcdata_item), with as many frames as it has and the right width.
THEOREM SnapshotsAreAlwaysTold == StackshotSpec /\ StackSnapshotSpec => []SnapshotsAreTold
  <1>1. ItemsAreTold /\ TraceIsTold => SnapshotsAreTold
    BY DEF SnapshotsAreTold
  <1> QED  BY <1>1, StackshotIsTold, TraceIsAlwaysTold, PTL

-----------------------------------------------------------------------------
(* Device trees: parts, and the calls that walk over them                 *)

\* What the lemmas need of a sequence of parts.
ArePartsOf(ps) ==
    /\ Len(ps) \in Nat /\ DOMAIN ps = 1 .. Len(ps)
    /\ \A k \in 1 .. Len(ps) : ps[k].depth \in Nat /\ ps[k].properties \in Nat /\ ps[k].children \in Nat

\* Part k, if it is a property, changes nothing; a node of the depth is the first
\* of its kind; a deeper one changes nothing; and one that is less deep ends them.
LEMMA BesideFrom ==
    ASSUME NEW ps, ArePartsOf(ps), NEW k \in 1 .. Len(ps), NEW d \in Nat
    PROVE  /\ k \notin NodesOf(ps) => Beside(ps, k, d) = Beside(ps, k + 1, d)
           /\ k \in NodesOf(ps) /\ ps[k].depth > d => Beside(ps, k, d) = Beside(ps, k + 1, d)
           /\ k \in NodesOf(ps) /\ ps[k].depth < d => Beside(ps, k, d) = {}
           /\ k \in NodesOf(ps) /\ ps[k].depth = d =>
                 Beside(ps, k, d) = {k} \cup Beside(ps, k + 1, d) /\ k \notin Beside(ps, k + 1, d)
  <1>1. NodesOf(ps) \subseteq 1 .. Len(ps) /\ Len(ps) \in Nat /\ \A j \in 1 .. Len(ps) : ps[j].depth \in Nat
    BY DEF NodesOf, ArePartsOf
  <1>2. \A j \in 1 .. Len(ps) : k <= j <=> (j = k \/ k + 1 <= j)
    BY <1>1
  <1>3. ASSUME k \notin NodesOf(ps) PROVE Beside(ps, k, d) = Beside(ps, k + 1, d)
    BY <1>1, <1>2, <1>3 DEF Beside
  <1>4. ASSUME k \in NodesOf(ps), ps[k].depth > d PROVE Beside(ps, k, d) = Beside(ps, k + 1, d)
    BY <1>1, <1>2, <1>4 DEF Beside
  <1>5. ASSUME k \in NodesOf(ps), ps[k].depth < d PROVE Beside(ps, k, d) = {}
    BY <1>1, <1>2, <1>5 DEF Beside
  <1>6. ASSUME k \in NodesOf(ps), ps[k].depth = d
        PROVE  Beside(ps, k, d) = {k} \cup Beside(ps, k + 1, d) /\ k \notin Beside(ps, k + 1, d)
    <2>1. k \in Beside(ps, k, d) /\ k \notin Beside(ps, k + 1, d)
      BY <1>1, <1>6 DEF Beside
    <2>2. \A j \in NodesOf(ps) : j # k => (j \in Beside(ps, k, d) <=> j \in Beside(ps, k + 1, d))
      BY <1>1, <1>2, <1>6 DEF Beside
    <2>3. Beside(ps, k, d) \subseteq NodesOf(ps) /\ Beside(ps, k + 1, d) \subseteq NodesOf(ps)
      BY DEF Beside
    <2> QED  BY <2>1, <2>2, <2>3
  <1> QED  BY <1>3, <1>4, <1>5, <1>6

\* They are finitely many, and none is behind the last part.
LEMMA BesideFinite ==
    ASSUME NEW ps, ArePartsOf(ps), NEW k \in Nat, NEW d \in Nat
    PROVE  /\ IsFiniteSet(Beside(ps, k, d)) /\ Cardinality(Beside(ps, k, d)) \in Nat
           /\ (Cardinality(Beside(ps, k, d)) = 0 <=> Beside(ps, k, d) = {})
           /\ (k > Len(ps) => Beside(ps, k, d) = {})
  <1>1. Len(ps) \in Nat /\ Beside(ps, k, d) \subseteq 1 .. Len(ps) /\ \A j \in Beside(ps, k, d) : k <= j
    BY DEF Beside, NodesOf, ArePartsOf
  <1>2. IsFiniteSet(1 .. Len(ps))
    BY <1>1, FS_Interval
  <1>3. IsFiniteSet(Beside(ps, k, d))
    BY <1>1, <1>2, FS_Subset
  <1>4. k > Len(ps) => Beside(ps, k, d) = {}
    BY <1>1
  <1> QED  BY <1>3, <1>4, FS_CardinalityType, FS_EmptySet

\* How many there are, from one part to the next.
LEMMA BesideNext ==
    ASSUME NEW ps, ArePartsOf(ps), NEW k \in 1 .. Len(ps), NEW d \in Nat
    PROVE  /\ k \notin NodesOf(ps) => Cardinality(Beside(ps, k, d)) = Cardinality(Beside(ps, k + 1, d))
           /\ k \in NodesOf(ps) /\ ps[k].depth > d =>
                 Cardinality(Beside(ps, k, d)) = Cardinality(Beside(ps, k + 1, d))
           /\ k \in NodesOf(ps) /\ ps[k].depth < d => Cardinality(Beside(ps, k, d)) = 0
           /\ k \in NodesOf(ps) /\ ps[k].depth = d =>
                 Cardinality(Beside(ps, k, d)) = Cardinality(Beside(ps, k + 1, d)) + 1
  <1> DEFINE here == Beside(ps, k, d)
             next == Beside(ps, k + 1, d)
  <1>1. IsFiniteSet(next)
    <2>1. k + 1 \in Nat
      OBVIOUS
    <2> QED  BY <2>1, BesideFinite
  <1>2. \A S : IsFiniteSet(S) /\ k \notin S => Cardinality(S \cup {k}) = Cardinality(S) + 1
    BY FS_AddElement
  <1>3. /\ k \notin NodesOf(ps) => here = next
        /\ k \in NodesOf(ps) /\ ps[k].depth > d => here = next
        /\ k \in NodesOf(ps) /\ ps[k].depth < d => here = {}
        /\ k \in NodesOf(ps) /\ ps[k].depth = d => here = {k} \cup next /\ k \notin next
    BY BesideFrom
  <1> HIDE DEF here, next
  <1>4. next \cup {k} = {k} \cup next /\ Cardinality({}) = 0
    BY FS_EmptySet
  <1>5. /\ k \notin NodesOf(ps) => Cardinality(here) = Cardinality(next)
        /\ k \in NodesOf(ps) /\ ps[k].depth > d => Cardinality(here) = Cardinality(next)
        /\ k \in NodesOf(ps) /\ ps[k].depth < d => Cardinality(here) = 0
        /\ k \in NodesOf(ps) /\ ps[k].depth = d => Cardinality(here) = Cardinality(next) + 1
    BY <1>1, <1>2, <1>3, <1>4
  <1> QED  BY <1>5 DEF here, next

\* How many nodes of a depth are still to come.
Rest(ps, k, depth) == Cardinality(Beside(ps, k, depth))

\* One more call, the innermost.
LEMMA CallIn ==
    ASSUME NEW S, NEW s \in Seq(S), NEW c \in S
    PROVE  /\ <<c>> \o s \in Seq(S) /\ Len(<<c>> \o s) = Len(s) + 1 /\ (<<c>> \o s)[1] = c
           /\ \A i \in 2 .. Len(s) + 1 : (<<c>> \o s)[i] = s[i - 1]
  <1>1. <<c>> \in Seq(S) /\ Len(<<c>>) = 1 /\ <<c>>[1] = c
    OBVIOUS
  <1>2. Len(s) \in Nat
    OBVIOUS
  <1> DEFINE one == <<c>>
  <1> HIDE DEF one
  <1>3. one \o s \in Seq(S) /\ Len(one \o s) = Len(s) + 1 /\ (one \o s)[1] = c
        /\ \A i \in 2 .. Len(s) + 1 : (one \o s)[i] = s[i - 1]
    <2>1. one \in Seq(S) /\ Len(one) = 1 /\ one[1] = c
      BY <1>1 DEF one
    <2>2. one \o s \in Seq(S) /\ Len(one \o s) = Len(one) + Len(s)
          /\ \A i \in 1 .. Len(one) + Len(s) : (one \o s)[i] = IF i <= Len(one) THEN one[i] ELSE s[i - Len(one)]
      BY <2>1, ConcatProperties
    <2> QED  BY <1>2, <2>1, <2>2
  <1> QED  BY <1>3 DEF one

\* The innermost call changes.
LEMMA CallChanges ==
    ASSUME NEW S, NEW s \in Seq(S), Len(s) > 0, NEW c \in S
    PROVE  /\ [s EXCEPT ![1] = c] \in Seq(S) /\ Len([s EXCEPT ![1] = c]) = Len(s)
           /\ [s EXCEPT ![1] = c][1] = c
           /\ \A i \in 2 .. Len(s) : [s EXCEPT ![1] = c][i] = s[i]
  <1>1. 1 \in 1 .. Len(s) /\ Len(s) \in Nat
    OBVIOUS
  <1> QED  BY <1>1, ExceptSeq

\* The innermost call returns.
LEMMA CallOut ==
    ASSUME NEW S, NEW s \in Seq(S), Len(s) > 0
    PROVE  /\ Tail(s) \in Seq(S) /\ Len(Tail(s)) = Len(s) - 1
           /\ \A i \in 1 .. Len(s) - 1 : Tail(s)[i] = s[i + 1]
  <1>1. s # <<>>
    OBVIOUS
  <1> QED  BY <1>1, HeadTailProperties

-----------------------------------------------------------------------------
(* dtize                                                                   *)

DtizeSpec == DtizeInit /\ [][DtizeNext]_dtizeVars

LEMMA PartsAre ==
    ASSUME tree \in Trees
    PROVE  /\ tree.parts \in Seq(Part) /\ ArePartsOf(tree.parts)
           /\ \A k \in 1 .. Len(tree.parts) :
                 tree.parts[k] \in Part /\ Length(tree.parts[k]) \in Nat /\ SizeOf(tree.parts[k]) \in Nat \ {0}
  <1>1. tree.parts \in Seq(Part)
    BY DtizeAssumption
  <1>2. Len(tree.parts) \in Nat /\ DOMAIN tree.parts = 1 .. Len(tree.parts)
        /\ \A k \in 1 .. Len(tree.parts) : tree.parts[k] \in Part
    BY <1>1, LenProperties, ElementOfSeq
  <1>3. \A part \in Part : part.depth \in Nat /\ part.properties \in Nat /\ part.children \in Nat /\ part.length \in Nat
    BY DEF Part
  <1>4. \A part \in Part : Length(part) \in Nat
    <2>1. Mask \in Nat /\ Mask > 0
      BY DtizeAssumption
    <2>2. \A n \in Nat : n % Mask \in Nat
      BY <2>1
    <2> QED  BY <1>3, <2>2 DEF Length
  <1>5. \A part \in Part : SizeOf(part) \in Nat \ {0}
    <2> TAKE part \in Part
    <2>1. \A n \in Nat : 36 + ((n + 3) \div 4) * 4 \in Nat \ {0}
      OBVIOUS
    <2>2. 36 + ((Length(part) + 3) \div 4) * 4 \in Nat \ {0}
      BY <1>4, <2>1
    <2> QED  BY <2>2 DEF SizeOf, CountsSize, NameSize
  <1> QED  BY <1>1, <1>2, <1>3, <1>4, <1>5 DEF ArePartsOf

\* Where the parts begin: each behind the ones before it.
LEMMA BeginsAre ==
    ASSUME tree \in Trees
    PROVE  /\ \A k \in 1 .. Len(tree.parts) + 1 : BeginOf[k] \in Nat
           /\ BeginOf[1] = HeaderSize
           /\ \A k \in 1 .. Len(tree.parts) : BeginOf[k + 1] = BeginOf[k] + SizeOf(tree.parts[k])
           /\ \A j, k \in 1 .. Len(tree.parts) + 1 : j < k => BeginOf[j] < BeginOf[k]
  <1> DEFINE n == Len(tree.parts)
             Q(f) == f = [k \in 1 .. n + 1 |-> IF k = 1 THEN HeaderSize ELSE f[k - 1] + SizeOf(tree.parts[k - 1])]
             sizes == [k \in 1 .. n |-> SizeOf(tree.parts[k])]
             begins == BeginOf
             first == HeaderSize
  <1>1. n \in Nat /\ sizes \in [1 .. n -> Nat \ {0}] /\ sizes \in [1 .. n -> Nat] /\ first \in Nat
    BY PartsAre DEF ArePartsOf, HeaderSize
  <1>2. \A f : SumsOf(f, first, sizes, n) <=> Q(f)
    <2>1. \A k \in 1 .. n + 1 : k # 1 => sizes[k - 1] = SizeOf(tree.parts[k - 1])
      BY <1>1
    <2> HIDE DEF n, sizes
    <2> QED  BY <2>1 DEF SumsOf
  <1>3. begins = CHOOSE g : Q(g)
    BY DEF BeginOf
  <1>4. \A k \in 1 .. n : sizes[k] = SizeOf(tree.parts[k])
    OBVIOUS
  <1>5. SumsOf(begins, first, sizes, n)
    <2> HIDE DEF n, Q, sizes, begins, first
    <2>1. \E f : SumsOf(f, first, sizes, n)
      BY <1>1, SumsExist
    <2> QED  BY <1>2, <1>3, <2>1
  <1>6. /\ begins \in [1 .. n + 1 -> Nat] /\ begins[1] = first
        /\ \A k \in 1 .. n : begins[k + 1] = begins[k] + sizes[k]
        /\ \A j, k \in 1 .. n + 1 : j < k => begins[j] < begins[k]
    <2> HIDE DEF n, Q, sizes, begins, first
    <2> QED  BY <1>1, <1>5, SumsGrow
  <1> QED  BY <1>4, <1>6

\* The padding leads to where the next part begins.
LEMMA PaddedIs == \A n \in Nat : PAD32(n) = ((n + 3) \div 4) * 4
  <1> SUFFICES ASSUME NEW n \in Nat PROVE PAD32(n) = ((n + 3) \div 4) * 4
    OBVIOUS
  <1>1. PICK q \in Nat, m \in 0 .. 3 : n = 4 * q + m
    <2>1. n \div 4 \in Nat /\ n % 4 \in 0 .. 3 /\ n = 4 * (n \div 4) + (n % 4)
      OBVIOUS
    <2> QED  BY <2>1
  <1>2. n % 4 = m
    BY <1>1
  <1>3. n + ((4 - (n % 4)) % 4) = 4 * q + (IF m = 0 THEN 0 ELSE 4)
    BY <1>1, <1>2
  <1>4. ((n + 3) \div 4) * 4 = 4 * q + (IF m = 0 THEN 0 ELSE 4)
    BY <1>1
  <1> QED  BY <1>3, <1>4 DEF PAD32

LEMMA HereIs ==
    ASSUME tree \in Trees, NEW k \in 1 .. Len(tree.parts), place = BeginOf[k]
    PROVE  Here = {k}
  <1>1. DOMAIN tree.parts = 1 .. Len(tree.parts) /\ Len(tree.parts) \in Nat
    BY PartsAre DEF ArePartsOf
  <1>2. \A j \in 1 .. Len(tree.parts) : BeginOf[j] = BeginOf[k] => j = k
    <2> TAKE j \in 1 .. Len(tree.parts)
    <2>1. BeginOf[j] \in Nat /\ BeginOf[k] \in Nat /\ (j < k => BeginOf[j] < BeginOf[k])
          /\ (k < j => BeginOf[k] < BeginOf[j])
      BY <1>1, BeginsAre
    <2> QED  BY <1>1, <2>1
  <1> QED  BY <1>1, <1>2 DEF Here

\* Before the last part there is more of a complete file, and behind it there is not.
LEMMA EndIs ==
    ASSUME tree \in Trees, Complete
    PROVE  /\ FileEnd = BeginOf[Len(tree.parts) + 1] /\ FileEnd \in Nat /\ HeaderSize < totalLen /\ totalLen < FileEnd
           /\ totalLen \in Nat
           /\ \A k \in 1 .. Len(tree.parts) : BeginOf[k] \in Nat /\ BeginOf[k] < FileEnd
  <1>1. Len(tree.parts) \in Nat /\ Len(tree.parts) + 1 - 0 = Len(tree.parts) + 1
    BY PartsAre DEF ArePartsOf
  <1>2. FileEnd = BeginOf[Len(tree.parts) + 1]
    BY <1>1 DEF FileEnd, Complete
  <1>3. FileEnd \in Nat /\ \A k \in 1 .. Len(tree.parts) : BeginOf[k] \in Nat /\ BeginOf[k] < FileEnd
    BY <1>1, <1>2, BeginsAre
  <1>4. totalLen = FileEnd - 53 /\ HeaderSize = 53 /\ totalLen > HeaderSize
    BY <1>2 DEF totalLen, Complete, HeaderSize
  <1> QED  BY <1>2, <1>3, <1>4

NodeCall == [properties : Nat, children : Nat, inChildren : BOOLEAN]
PropertyLine == [part : Nat, indent : Nat, as : {"stale", "integer", "NULL", "string"}]

\* What getDTNode may have called, the innermost first, when part k is to be read.
CallsAt(k) ==
    \A i \in 1 .. Len(nodes) :
       /\ nodes[i].children = Rest(tree.parts, IF dtize = "counts" THEN k + 1 ELSE k, Len(nodes) - i + 1)
       /\ i > 1 \/ dtize = "counts" => nodes[i].inChildren /\ nodes[i].properties = 0

\* The innermost has the parts up to the next node to read, which is no deeper
\* than a child of it.
ReadingAt(k) ==
    LET behind == k + nodes[1].properties IN
    /\ k > 1 /\ Len(nodes) > 0 /\ behind <= Len(tree.parts) + 1
    /\ \A i \in k .. behind - 1 : i \in PropertiesOf(tree.parts) /\ tree.parts[i].depth = Len(nodes) - 1
    /\ behind <= Len(tree.parts) => behind \in NodesOf(tree.parts) /\ tree.parts[behind].depth <= Len(nodes)
    /\ nodes[1].inChildren => nodes[1].properties = 0
    /\ indent = IF nodes[1].inChildren THEN Len(nodes) ELSE Len(nodes) - 1

LinesUpTo(k) ==
    /\ PrintedParts = {j \in PropertiesOf(tree.parts) : j < k}
    /\ \A n \in DOMAIN propertyLines :
          /\ propertyLines[n].part \in PropertiesOf(tree.parts)
          /\ propertyLines[n].indent = tree.parts[propertyLines[n].part].depth
          /\ \A m \in 1 .. n - 1 : propertyLines[m].part < propertyLines[n].part

AtPart(k) ==
    /\ place = BeginOf[k] /\ CallsAt(k) /\ LinesUpTo(k)
    /\ dtize = "main" => nodes = <<>> /\ indent = 0 /\ k \in {1, Len(tree.parts) + 1}
    /\ dtize = "counts" => k \in NodesOf(tree.parts) /\ tree.parts[k].depth = Len(nodes) /\ indent = Len(nodes)
    /\ dtize = "read" => ReadingAt(k)
    /\ dtize = "done" => k = Len(tree.parts) + 1

DtizeTypes ==
    /\ dtize \in {"start", "main", "counts", "read", "done"}
    /\ nodes \in Seq(NodeCall) /\ indent \in Nat /\ propertyLines \in Seq(PropertyLine)

DtizeInv ==
    /\ tree \in Trees
    /\ Complete =>
          /\ DtizeTypes
          /\ dtize = "start" => nodes = <<>> /\ indent = 0 /\ propertyLines = <<>>
          /\ dtize # "start" => \E k \in 1 .. Len(tree.parts) + 1 : AtPart(k)

LEMMA SameTree ==
    ASSUME tree' = tree
    PROVE  /\ BeginOf' = BeginOf /\ Complete' = Complete /\ totalLen' = totalLen /\ FileEnd' = FileEnd
  <1>1. BeginOf' = BeginOf
    BY DEF BeginOf
  <1> QED  BY <1>1 DEF Complete, totalLen, FileEnd

LEMMA GetCountsKeeps ==
    ASSUME tree \in Trees, Complete, DtizeTypes, NEW k \in 1 .. Len(tree.parts) + 1, AtPart(k), GetCounts,
           NEW m, m = k + 1
    PROVE  DtizeTypes' /\ m \in 1 .. Len(tree.parts) + 1 /\ AtPart(m)'
  <1> DEFINE ps == tree.parts
             h == Len(nodes)
             c == Node(ps[k].properties, ps[k].children, FALSE)
  <1>1. /\ dtize = "counts" /\ dtize' = "read" /\ tree' = tree /\ indent' = indent /\ propertyLines' = propertyLines
        /\ h \in Nat /\ ArePartsOf(ps) /\ k \in NodesOf(ps) /\ ps[k].depth = h /\ indent = h /\ place = BeginOf[k]
    BY PartsAre DEF GetCounts, AtPart, DtizeTypes
  <1>2. k \in 1 .. Len(ps) /\ Len(ps) \in Nat /\ DOMAIN ps = 1 .. Len(ps) /\ ps[k].part # "property" /\ m \in 1 .. Len(ps) + 1
    BY <1>1 DEF NodesOf, ArePartsOf
  <1>3. ps[k] \in Part /\ ps[k].part = "counts" /\ SizeOf(ps[k]) = CountsSize
    <2>1. ps[k] \in Part
      BY <1>2, PartsAre
    <2> QED  BY <1>2, <2>1 DEF Part, SizeOf
  <1>4. Here = {k} /\ ~(place >= FileEnd)
    BY <1>1, <1>2, HereIs, EndIs
  <1>5. nodes' = <<c>> \o nodes /\ place' = BeginOf[m]
    <2>1. nodes' = <<c>> \o nodes /\ place' = place + CountsSize
      BY <1>4 DEF GetCounts
    <2>2. BeginOf[m] = BeginOf[k] + SizeOf(ps[k])
      BY <1>2, BeginsAre
    <2> QED  BY <1>1, <1>3, <2>1, <2>2
  <1>6. c \in NodeCall /\ c.properties = ps[k].properties /\ c.children = ps[k].children /\ c.inChildren = FALSE
    BY <1>2, <1>1 DEF ArePartsOf, Node, NodeCall
  <1>7. /\ nodes' \in Seq(NodeCall) /\ Len(nodes') = h + 1 /\ nodes'[1] = c
        /\ \A i \in 2 .. h + 1 : nodes'[i] = nodes[i - 1]
    <2>1. nodes \in Seq(NodeCall)
      BY DEF DtizeTypes
    <2>2. \A x \in NodeCall : LET s == <<x>> \o nodes IN
             s \in Seq(NodeCall) /\ Len(s) = h + 1 /\ s[1] = x /\ \A i \in 2 .. h + 1 : s[i] = nodes[i - 1]
      BY <2>1, CallIn
    <2> HIDE DEF c, h
    <2> QED  BY <1>5, <1>6, <2>2
  <1>8. IsNodeOf(ps, k)
    BY <1>1 DEF Complete, IsTree
  <1>9. CallsAt(m)'
    <2>1. \A i \in 1 .. h : nodes[i].children = Rest(ps, m, h - i + 1) /\ nodes[i].inChildren /\ nodes[i].properties = 0
      BY <1>1 DEF AtPart, CallsAt
    <2>2. c.children = Rest(ps, m, h + 1)
      BY <1>1, <1>6, <1>8 DEF IsNodeOf, Rest
    <2>3. ASSUME NEW i \in 1 .. h + 1
          PROVE  nodes'[i].children = Rest(ps, m, h + 1 - i + 1) /\ (i > 1 => nodes'[i].inChildren /\ nodes'[i].properties = 0)
      <3>1. CASE i = 1
        <4>1. h + 1 - i + 1 = h + 1 /\ ~(i > 1)
          BY <1>1, <3>1
        <4> HIDE DEF h, c
        <4> QED  BY <1>7, <2>2, <3>1, <4>1
      <3>2. CASE i # 1
        <4>1. i \in 2 .. h + 1 /\ i - 1 \in 1 .. h /\ h + 1 - i + 1 = h - (i - 1) + 1
          BY <1>1, <3>2
        <4> HIDE DEF h, c
        <4> QED  BY <1>7, <2>1, <4>1
      <3> QED  BY <3>1, <3>2
    <2> HIDE DEF h, c
    <2>4. PICK g : g = h + 1
      OBVIOUS
    <2>5. \A i \in 1 .. g : nodes'[i].children = Rest(ps, m, g - i + 1)
                           /\ (i > 1 => nodes'[i].inChildren /\ nodes'[i].properties = 0)
      <3> TAKE i \in 1 .. g
      <3>1. i \in 1 .. h + 1 /\ g - i + 1 = h + 1 - i + 1
        BY <1>1, <2>4
      <3>2. /\ nodes'[i].children = Rest(ps, m, h + 1 - i + 1)
            /\ i > 1 => nodes'[i].inChildren /\ nodes'[i].properties = 0
        BY <2>3, <3>1
      <3> QED  BY <3>1, <3>2
    <2>6. Len(nodes') = g /\ dtize' = "read" /\ tree' = tree
      BY <1>1, <1>7, <2>4
    <2> QED  BY <2>5, <2>6 DEF CallsAt
  <1>10. ReadingAt(m)'
    <2>1. m + ps[k].properties = Behind(ps, k) /\ Behind(ps, k) \in Nat
      <3>1. ps[k].properties \in Nat /\ k \in Nat /\ m = k + 1
        BY <1>1, <1>2 DEF ArePartsOf
      <3> HIDE DEF ps
      <3> QED  BY <3>1 DEF Behind
    <2>2. /\ Behind(ps, k) <= Len(ps) + 1
          /\ \A i \in m .. Behind(ps, k) - 1 : i \in PropertiesOf(ps) /\ ps[i].depth = h
          /\ Behind(ps, k) <= Len(ps) => Behind(ps, k) \in NodesOf(ps) /\ ps[Behind(ps, k)].depth <= h + 1
      BY <1>1, <1>8 DEF IsNodeOf
    <2>3. m > 1 /\ Len(nodes') > 0 /\ Len(nodes') - 1 = h /\ indent' = Len(nodes') - 1
      BY <1>1, <1>2, <1>7
    <2> HIDE DEF h
    <2> QED  BY <1>1, <1>6, <1>7, <2>1, <2>2, <2>3 DEF ReadingAt
  <1>11. LinesUpTo(m)'
    <2>1. \A j \in PropertiesOf(ps) : j < k <=> j < m
      BY <1>2 DEF PropertiesOf
    <2>2. PrintedParts' = PrintedParts /\ LinesUpTo(k)
      BY <1>1 DEF PrintedParts, AtPart
    <2> QED  BY <1>1, <2>1, <2>2 DEF LinesUpTo
  <1>12. DtizeTypes'
    BY <1>1, <1>7 DEF DtizeTypes
  <1>13. AtPart(m)'
    <2> HIDE DEF c, h
    <2> QED  BY <1>1, <1>5, <1>9, <1>10, <1>11, SameTree DEF AtPart
  <1> QED  BY <1>2, <1>12, <1>13

\* The state of a call of getDTNode that reads.
LEMMA ReadIs ==
    ASSUME tree \in Trees, Complete, DtizeTypes, NEW k \in 1 .. Len(tree.parts) + 1, AtPart(k), dtize = "read"
    PROVE  /\ ReadingAt(k) /\ CallsAt(k) /\ k > 1 /\ LinesUpTo(k) /\ place = BeginOf[k]
           /\ Len(nodes) \in Nat \ {0} /\ Len(tree.parts) \in Nat /\ ArePartsOf(tree.parts)
           /\ DOMAIN tree.parts = 1 .. Len(tree.parts)
           /\ nodes[1] \in NodeCall /\ nodes[1].properties \in Nat /\ nodes[1].children \in Nat
           /\ nodes[1].inChildren \in BOOLEAN
           /\ \A i \in 1 .. Len(nodes) :
                 /\ nodes[i].children = Rest(tree.parts, k, Len(nodes) - i + 1)
                 /\ i > 1 => nodes[i].inChildren /\ nodes[i].properties = 0
           /\ k + nodes[1].properties <= Len(tree.parts) + 1
           /\ \A i \in k .. k + nodes[1].properties - 1 :
                 i \in PropertiesOf(tree.parts) /\ tree.parts[i].depth = Len(nodes) - 1
           /\ k + nodes[1].properties <= Len(tree.parts) =>
                 /\ k + nodes[1].properties \in NodesOf(tree.parts)
                 /\ tree.parts[k + nodes[1].properties].depth <= Len(nodes)
           /\ nodes[1].inChildren => nodes[1].properties = 0
           /\ indent = IF nodes[1].inChildren THEN Len(nodes) ELSE Len(nodes) - 1
  <1>1. ReadingAt(k) /\ CallsAt(k) /\ LinesUpTo(k) /\ place = BeginOf[k] /\ Len(nodes) > 0 /\ k > 1
    BY DEF AtPart, ReadingAt
  <1>2. nodes \in Seq(NodeCall)
    BY DEF DtizeTypes
  <1>3. nodes[1] \in NodeCall
    BY <1>1, <1>2
  <1>4. nodes[1].properties \in Nat /\ nodes[1].children \in Nat /\ nodes[1].inChildren \in BOOLEAN
    BY <1>3 DEF NodeCall
  <1>5. Len(nodes) \in Nat \ {0}
    BY <1>1, <1>2
  <1>6. Len(tree.parts) \in Nat /\ ArePartsOf(tree.parts) /\ DOMAIN tree.parts = 1 .. Len(tree.parts)
    BY PartsAre DEF ArePartsOf
  <1>7. \A i \in 1 .. Len(nodes) :
                 /\ nodes[i].children = Rest(tree.parts, k, Len(nodes) - i + 1)
                 /\ i > 1 => nodes[i].inChildren /\ nodes[i].properties = 0
    BY <1>1 DEF CallsAt
  <1> QED  BY <1>1, <1>3, <1>4, <1>5, <1>6, <1>7, <1>1 DEF ReadingAt

LEMMA GetPropertyKeeps ==
    ASSUME tree \in Trees, Complete, DtizeTypes, NEW k \in 1 .. Len(tree.parts) + 1, AtPart(k), GetProperty,
           NEW m, m = k + 1
    PROVE  DtizeTypes' /\ m \in 1 .. Len(tree.parts) + 1 /\ AtPart(m)'
  <1> DEFINE ps == tree.parts
             h == Len(nodes)
             c == [nodes[1] EXCEPT !.properties = @ - 1]
             line == [part |-> k, indent |-> indent, as |-> Printed(ps[k])]
  <1>1. dtize = "read" /\ tree' = tree /\ indent' = indent /\ nodes[1].properties > 0
    BY DEF GetProperty
  <1>2. /\ ReadingAt(k) /\ place = BeginOf[k] /\ LinesUpTo(k)
        /\ h \in Nat \ {0} /\ Len(ps) \in Nat /\ ArePartsOf(ps) /\ DOMAIN ps = 1 .. Len(ps)
        /\ nodes[1] \in NodeCall /\ nodes[1].properties \in Nat
    BY <1>1, ReadIs
  <1>2a. \A i \in 1 .. h :
                             /\ nodes[i].children = Rest(ps, k, h - i + 1)
                             /\ i > 1 => nodes[i].inChildren /\ nodes[i].properties = 0
    BY <1>1, ReadIs
  <1>2b.
        /\ k + nodes[1].properties <= Len(ps) + 1
        /\ \A i \in k .. k + nodes[1].properties - 1 : i \in PropertiesOf(ps) /\ ps[i].depth = h - 1
        /\ k + nodes[1].properties <= Len(ps) =>
              k + nodes[1].properties \in NodesOf(ps) /\ ps[k + nodes[1].properties].depth <= h
        /\ nodes[1].inChildren => nodes[1].properties = 0
        /\ indent = IF nodes[1].inChildren THEN h ELSE h - 1
    BY <1>1, ReadIs
  <1>3. /\ k \in PropertiesOf(ps) /\ ps[k].depth = h - 1 /\ k \in 1 .. Len(ps) /\ m \in 1 .. Len(ps) + 1 /\ k \notin NodesOf(ps)
        /\ ~nodes[1].inChildren /\ indent = h - 1
    <2>1. k \in k .. k + nodes[1].properties - 1
      BY <1>1, <1>2
    <2>2. k \in PropertiesOf(ps) /\ ps[k].depth = h - 1 /\ ~nodes[1].inChildren /\ indent = h - 1
      <3>1. k \in PropertiesOf(ps) /\ ps[k].depth = h - 1
        BY <1>2b, <2>1
      <3>2. nodes[1].properties # 0
        BY <1>1, <1>2
      <3>3. ~nodes[1].inChildren
        BY <1>2b, <3>2
      <3>4. indent = h - 1
        BY <1>2b, <3>3
      <3> QED  BY <3>1, <3>3, <3>4
    <2>3. k \in 1 .. Len(ps) /\ k \notin NodesOf(ps)
      BY <1>2, <2>2 DEF PropertiesOf, NodesOf
    <2>4. m \in 1 .. Len(ps) + 1
      <3>1. Len(ps) \in Nat
        BY <1>2
      <3> HIDE DEF ps
      <3> QED  BY <2>3, <3>1
    <2> HIDE DEF h
    <2> QED  BY <2>2, <2>3, <2>4
  <1>4. Here = {k} /\ ~(place >= FileEnd)
    BY <1>2, <1>3, HereIs, EndIs
  <1>5. Length(ps[k]) \in Nat /\ ~(Length(ps[k]) > ValueLen) /\ SizeOf(ps[k]) = NameSize + PAD32(Length(ps[k]))
        /\ SizeOf(ps[k]) \in Nat
    <2>1. Length(ps[k]) \in Nat /\ ps[k].part = "property" /\ SizeOf(ps[k]) \in Nat
      BY <1>3, PartsAre DEF PropertiesOf
    <2>2. Length(ps[k]) <= ValueLen /\ ValueLen \in Nat
      BY <1>2, <1>3, DtizeAssumption DEF Complete
    <2>3. SizeOf(ps[k]) = NameSize + ((Length(ps[k]) + 3) \div 4) * 4
      BY <2>1 DEF SizeOf
    <2>4. ((Length(ps[k]) + 3) \div 4) * 4 = PAD32(Length(ps[k]))
      BY <2>1, PaddedIs
    <2> QED  BY <2>1, <2>2, <2>3, <2>4
  <1>6. /\ dtize' = dtize /\ place' = BeginOf[m]
        /\ nodes' = [nodes EXCEPT ![1] = c] /\ propertyLines' = Append(propertyLines, line)
    <2>1. dtize' = dtize /\ place' = place + NameSize + PAD32(Length(ps[k])) /\ propertyLines' = Append(propertyLines, line)
      BY <1>4, <1>5 DEF GetProperty
    <2>2. BeginOf[m] = BeginOf[k] + SizeOf(ps[k]) /\ BeginOf[k] \in Nat
      BY <1>3, BeginsAre
    <2>3. nodes' = [nodes EXCEPT ![1] = c]
      BY DEF GetProperty
    <2>4. PAD32(Length(ps[k])) \in Int /\ NameSize \in Nat
      BY <1>5 DEF PAD32, NameSize
    <2>5. place' = BeginOf[m]
      BY <1>2, <1>5, <2>1, <2>2, <2>4
    <2> QED  BY <2>1, <2>3, <2>5
  <1>7. c \in NodeCall /\ c.properties = nodes[1].properties - 1 /\ c.children = nodes[1].children
        /\ c.inChildren = nodes[1].inChildren
    BY <1>1, <1>2 DEF NodeCall
  <1>8. /\ nodes' \in Seq(NodeCall) /\ Len(nodes') = h /\ nodes'[1] = c
        /\ \A i \in 2 .. h : nodes'[i] = nodes[i]
    <2>1. nodes \in Seq(NodeCall)
      BY DEF DtizeTypes
    <2> HIDE DEF c
    <2> QED  BY <1>2, <1>6, <1>7, <2>1, CallChanges
  <1>9. line \in PropertyLine
    <2>1. Printed(ps[k]) \in {"integer", "NULL", "string"}
      BY DEF Printed
    <2>2. indent \in Nat
      BY DEF DtizeTypes
    <2> QED  BY <1>3, <2>1, <2>2 DEF PropertyLine
  <1>10. CallsAt(m)'
    <2>1. \A i \in 1 .. h : Rest(ps, k, h - i + 1) = Rest(ps, m, h - i + 1)
      <3> TAKE i \in 1 .. h
      <3>1. h - i + 1 \in Nat
        BY <1>2
      <3> HIDE DEF h
      <3> QED  BY <1>2, <1>3, <3>1, BesideNext DEF Rest
    <2>2. \A i \in 1 .. h : /\ nodes'[i].children = Rest(ps, m, h - i + 1)
                            /\ i > 1 => nodes'[i].inChildren /\ nodes'[i].properties = 0
      <3> TAKE i \in 1 .. h
      <3>1. CASE i = 1
        <4>1. i \in 1 .. h /\ ~(i > 1)
          BY <3>1
        <4> HIDE DEF h, c, line
        <4> QED  BY <1>2, <1>2a, <1>7, <1>8, <2>1, <3>1, <4>1
      <3>2. CASE i # 1
        <4>1. i \in 2 .. h
          BY <1>2, <3>2
        <4> HIDE DEF h, c, line
        <4> QED  BY <1>2, <1>2a, <1>8, <2>1, <4>1
      <3> QED  BY <3>1, <3>2
    <2> HIDE DEF h, c, line
    <2> QED  BY <1>1, <1>6, <1>8, <2>2 DEF CallsAt
  <1>11. ReadingAt(m)'
    <2> HIDE DEF h, c, line
    <2>1. m + c.properties = k + nodes[1].properties /\ m \in Nat /\ c.properties \in Nat
      <3>1. PICK p : p = nodes[1].properties
        OBVIOUS
      <3>2. p \in Nat /\ p > 0 /\ c.properties = p - 1 /\ k \in Nat
        BY <1>1, <1>2, <1>7, <3>1
      <3>3. m + (p - 1) = k + p /\ m \in Nat /\ p - 1 \in Nat
        BY <3>2
      <3> QED  BY <3>1, <3>2, <3>3
    <2>2. PICK b : b = m + c.properties /\ b = k + nodes[1].properties
      BY <2>1
    <2>3. /\ b <= Len(ps) + 1
          /\ \A i \in m .. b - 1 : i \in PropertiesOf(ps) /\ ps[i].depth = h - 1
          /\ b <= Len(ps) => b \in NodesOf(ps) /\ ps[b].depth <= h
      <3>1. b <= Len(ps) + 1 /\ (b <= Len(ps) => b \in NodesOf(ps) /\ ps[b].depth <= h)
        BY <1>2b, <2>2
      <3>2. k \in Nat /\ m = k + 1 /\ b \in Nat
        BY <1>2, <2>1, <2>2
      <3>3. \A i \in k .. b - 1 : i \in PropertiesOf(ps) /\ ps[i].depth = h - 1
        <4> HIDE DEF ps
        <4>1. PICK p : p = nodes[1].properties
          OBVIOUS
        <4>2. \A i \in k .. k + p - 1 : i \in PropertiesOf(ps) /\ ps[i].depth = h - 1
          BY <1>2b, <4>1
        <4>3. p \in Nat /\ b = k + p
          BY <1>2, <2>2, <4>1
        <4> QED  BY <3>2, <4>2, <4>3, SMTT(30)
      <3>4. \A i \in m .. b - 1 : i \in k .. b - 1
        BY <3>2
      <3> QED  BY <3>1, <3>3, <3>4
    <2>4. ~c.inChildren
      BY <1>3, <1>7
    <2>5. h > 0
      BY <1>2
    <2>6. /\ Len(nodes') > 0 /\ b = m + nodes'[1].properties
          /\ \A i \in m .. b - 1 : i \in PropertiesOf(ps) /\ ps[i].depth = Len(nodes') - 1
          /\ b <= Len(ps) => b \in NodesOf(ps) /\ ps[b].depth <= Len(nodes')
          /\ ~nodes'[1].inChildren
          /\ indent' = Len(nodes') - 1
      BY <1>1, <1>3, <1>8, <2>2, <2>3, <2>4, <2>5
    <2> QED  BY <1>1, <2>3, <2>6 DEF ReadingAt
  <1>12. propertyLines' \in Seq(PropertyLine) /\ Len(propertyLines') = Len(propertyLines) + 1 /\ Len(propertyLines) \in Nat
         /\ propertyLines'[Len(propertyLines) + 1] = line
         /\ \A n \in 1 .. Len(propertyLines) : propertyLines'[n] = propertyLines[n]
    <2>1. propertyLines \in Seq(PropertyLine)
      BY DEF DtizeTypes
    <2> HIDE DEF line
    <2> QED  BY <1>6, <1>9, <2>1, AppendProperties
  <1>13. LinesUpTo(m)'
    <2> DEFINE z == Len(propertyLines)
    <2>1. DOMAIN propertyLines = 1 .. z /\ DOMAIN propertyLines' = 1 .. z + 1 /\ z \in Nat
      BY <1>12 DEF DtizeTypes
    <2>2. line.part = k /\ line.indent = h - 1
      BY <1>3
    <2> HIDE DEF z, line
    <2>3. propertyLines'[z + 1] = line /\ \A n \in 1 .. z : propertyLines'[n] = propertyLines[n]
      BY <1>12 DEF z
    <2>4. PrintedParts' = PrintedParts \cup {k}
      BY <2>1, <2>2, <2>3 DEF PrintedParts
    <2>5. {j \in PropertiesOf(ps) : j < m} = {j \in PropertiesOf(ps) : j < k} \cup {k}
      BY <1>2, <1>3 DEF PropertiesOf
    <2>6. \A n \in 1 .. z : propertyLines[n].part \in PropertiesOf(ps) /\ propertyLines[n].part < k
      BY <1>2, <2>1 DEF LinesUpTo, PrintedParts
    <2>7. ASSUME NEW n \in 1 .. z + 1
          PROVE  /\ propertyLines'[n].part \in PropertiesOf(ps)
                 /\ propertyLines'[n].indent = ps[propertyLines'[n].part].depth
                 /\ \A o \in 1 .. n - 1 : propertyLines'[o].part < propertyLines'[n].part
      <3>1. CASE n = z + 1
        <4>1. \A o \in 1 .. n - 1 : o \in 1 .. z
          BY <2>1, <3>1
        <4> HIDE DEF h
        <4> QED  BY <1>3, <2>2, <2>3, <2>6, <3>1, <4>1
      <3>2. CASE n # z + 1
        <4>1. n \in 1 .. z /\ \A o \in 1 .. n - 1 : o \in 1 .. z
          BY <2>1, <3>2
        <4> QED  BY <1>2, <2>1, <2>3, <4>1 DEF LinesUpTo
      <3> QED  BY <3>1, <3>2
    <2> QED  BY <1>1, <1>2, <2>1, <2>4, <2>5, <2>7 DEF LinesUpTo
  <1>14. DtizeTypes'
    BY <1>1, <1>6, <1>8, <1>12 DEF DtizeTypes
  <1>15. AtPart(m)'
    <2> HIDE DEF c, h, line
    <2> QED  BY <1>1, <1>6, <1>10, <1>11, <1>13, SameTree DEF AtPart
  <1> QED  BY <1>3, <1>14, <1>15

\* The lines stay as they are, up to the same part.
LEMMA LinesStay ==
    ASSUME NEW k, LinesUpTo(k), UNCHANGED <<tree, propertyLines>>
    PROVE  LinesUpTo(k)'
  <1>1. PrintedParts' = PrintedParts
    BY DEF PrintedParts
  <1> QED  BY <1>1 DEF LinesUpTo

LEMMA BeginChildrenKeeps ==
    ASSUME tree \in Trees, Complete, DtizeTypes, NEW k \in 1 .. Len(tree.parts) + 1, AtPart(k), BeginChildren
    PROVE  DtizeTypes' /\ AtPart(k)'
  <1> DEFINE ps == tree.parts
             h == Len(nodes)
             c == [nodes[1] EXCEPT !.inChildren = TRUE]
  <1>1. /\ dtize = "read" /\ dtize' = "read" /\ tree' = tree /\ place' = place /\ propertyLines' = propertyLines
        /\ indent' = indent + 1 /\ nodes[1].properties = 0 /\ ~nodes[1].inChildren
        /\ nodes' = [nodes EXCEPT ![1] = c]
    BY DEF BeginChildren
  <1>2. /\ place = BeginOf[k] /\ LinesUpTo(k) /\ h \in Nat \ {0} /\ Len(ps) \in Nat /\ nodes[1] \in NodeCall
    BY <1>1, ReadIs
  <1>3. \A i \in 1 .. h :
          /\ nodes[i].children = Rest(ps, k, h - i + 1)
          /\ i > 1 => nodes[i].inChildren /\ nodes[i].properties = 0
    BY <1>1, ReadIs
  <1>4. /\ k + 0 <= Len(ps) + 1 /\ k + 0 = k
        /\ k <= Len(ps) => k \in NodesOf(ps) /\ ps[k].depth <= h
        /\ indent = h - 1 /\ k > 1
    BY <1>1, ReadIs
  <1>5. c \in NodeCall /\ c.properties = 0 /\ c.children = nodes[1].children /\ c.inChildren = TRUE
    BY <1>1, <1>2 DEF NodeCall
  <1>6. /\ nodes' \in Seq(NodeCall) /\ Len(nodes') = h /\ nodes'[1] = c
        /\ \A i \in 2 .. h : nodes'[i] = nodes[i]
    <2>1. nodes \in Seq(NodeCall)
      BY DEF DtizeTypes
    <2> HIDE DEF c
    <2> QED  BY <1>1, <1>2, <1>5, <2>1, CallChanges
  <1>7. indent' = h
    BY <1>1, <1>2, <1>4
  <1> HIDE DEF h, c
  <1>8. CallsAt(k)'
    <2>1. \A i \in 1 .. h : i = 1 \/ i \in 2 .. h
      BY <1>2
    <2>2. \A i \in 1 .. h :
            /\ nodes'[i].children = Rest(ps, k, h - i + 1)
            /\ i > 1 => nodes'[i].inChildren /\ nodes'[i].properties = 0
      <3> TAKE i \in 1 .. h
      <3>1. CASE i = 1
        BY <1>2, <1>3, <1>5, <1>6, <3>1
      <3>2. CASE i \in 2 .. h
        BY <1>3, <1>6, <3>2
      <3> QED  BY <2>1, <3>1, <3>2
    <2> QED  BY <1>1, <1>6, <2>2 DEF CallsAt
  <1>9. ReadingAt(k)'
    <2>1. k + nodes'[1].properties = k /\ nodes'[1].inChildren /\ nodes'[1].properties = 0 /\ Len(nodes') = h /\ h > 0
      BY <1>2, <1>4, <1>5, <1>6
    <2>2. \A i \in k .. k - 1 : FALSE
      BY <1>2
    <2> QED  BY <1>1, <1>4, <1>7, <2>1, <2>2 DEF ReadingAt
  <1>10. DtizeTypes'
    BY <1>1, <1>2, <1>6, <1>7 DEF DtizeTypes
  <1> QED  BY <1>1, <1>2, <1>8, <1>9, <1>10, SameTree, LinesStay DEF AtPart

LEMMA NextChildKeeps ==
    ASSUME tree \in Trees, Complete, DtizeTypes, NEW k \in 1 .. Len(tree.parts) + 1, AtPart(k), NextChild
    PROVE  DtizeTypes' /\ AtPart(k)'
  <1> DEFINE ps == tree.parts
             h == Len(nodes)
             c == [nodes[1] EXCEPT !.children = @ - 1]
  <1>1. /\ dtize = "read" /\ dtize' = "counts" /\ tree' = tree /\ place' = place /\ propertyLines' = propertyLines
        /\ indent' = indent /\ nodes[1].inChildren /\ nodes[1].children > 0
        /\ nodes' = [nodes EXCEPT ![1] = c]
    BY DEF NextChild
  <1>2. /\ place = BeginOf[k] /\ LinesUpTo(k) /\ h \in Nat \ {0} /\ Len(ps) \in Nat /\ nodes[1] \in NodeCall
        /\ nodes[1].children \in Nat /\ ArePartsOf(ps) /\ nodes[1].properties = 0
    BY <1>1, ReadIs
  <1>3. \A i \in 1 .. h :
          /\ nodes[i].children = Rest(ps, k, h - i + 1)
          /\ i > 1 => nodes[i].inChildren /\ nodes[i].properties = 0
    BY <1>1, ReadIs
  <1>4. /\ k <= Len(ps) => k \in NodesOf(ps) /\ ps[k].depth <= h
        /\ indent = h /\ k > 1
    <2>1. k + nodes[1].properties = k
      BY <1>2
    <2> QED  BY <1>1, <2>1, ReadIs
  <1>5. c \in NodeCall /\ c.properties = 0 /\ c.children = nodes[1].children - 1 /\ c.inChildren = TRUE
    BY <1>1, <1>2 DEF NodeCall
  <1>6. /\ nodes' \in Seq(NodeCall) /\ Len(nodes') = h /\ nodes'[1] = c
        /\ \A i \in 2 .. h : nodes'[i] = nodes[i]
    <2>1. nodes \in Seq(NodeCall)
      BY DEF DtizeTypes
    <2> HIDE DEF c
    <2> QED  BY <1>1, <1>2, <1>5, <2>1, CallChanges
  <1> HIDE DEF c
  \* There is a child: the next part is one.
  <1>7. k \in 1 .. Len(ps) /\ k \in NodesOf(ps) /\ ps[k].depth = h
    <2>1. nodes[1].children = Rest(ps, k, h)
      <3>1. 1 \in 1 .. h /\ h - 1 + 1 = h
        BY <1>2
      <3> HIDE DEF h
      <3> QED  BY <1>3, <3>1
    <2>2. Beside(ps, k, h) # {}
      <3>1. k \in Nat /\ h \in Nat
        BY <1>2
      <3>2. Rest(ps, k, h) # 0
        BY <1>1, <1>2, <2>1
      <3>3. Cardinality(Beside(ps, k, h)) # 0
        BY <3>2 DEF Rest
      <3> QED  BY <3>3, FS_EmptySet
    <2>3. k \in Nat /\ h \in Nat /\ ~(k > Len(ps))
      <3>1. k \in Nat /\ h \in Nat
        BY <1>2
      <3> QED  BY <1>2, <2>2, <3>1, BesideFinite
    <2>4. k \in 1 .. Len(ps) /\ ps[k].depth \in Nat
      BY <1>2, <2>3 DEF ArePartsOf
    <2>5. ~(ps[k].depth < h)
      BY <1>2, <1>4, <2>2, <2>3, <2>4, BesideFrom
    <2> QED  BY <1>2, <1>4, <2>3, <2>4, <2>5
  <1>8. \A i \in 1 .. h :
          /\ Rest(ps, k, h - i + 1) = Rest(ps, k + 1, h - i + 1) + (IF i = 1 THEN 1 ELSE 0)
          /\ Rest(ps, k + 1, h - i + 1) \in Nat
    <2> TAKE i \in 1 .. h
    <2>1. h - i + 1 \in Nat /\ k + 1 \in Nat /\ (i = 1 => h - i + 1 = h) /\ (i # 1 => h - i + 1 < h)
      BY <1>2
    <2>2. Rest(ps, k + 1, h - i + 1) \in Nat
      BY <1>2, <2>1, BesideFinite DEF Rest
    <2> HIDE DEF h
    <2>3. CASE i = 1
      <3>1. Rest(ps, k, h) = Rest(ps, k + 1, h) + 1
        BY <1>2, <1>7, BesideNext DEF Rest
      <3> QED  BY <2>1, <2>2, <2>3, <3>1
    <2>4. CASE i # 1
      <3>1. ps[k].depth > h - i + 1
        BY <1>2, <1>7, <2>1, <2>4
      <3>2. Rest(ps, k, h - i + 1) = Rest(ps, k + 1, h - i + 1)
        BY <1>2, <1>7, <2>1, <3>1, BesideNext DEF Rest
      <3> QED  BY <2>2, <2>4, <3>2
    <2> QED  BY <2>2, <2>3, <2>4
  <1> HIDE DEF h
  <1>9. CallsAt(k)'
    <2>1. \A i \in 1 .. h : i = 1 \/ i \in 2 .. h
      BY <1>2
    <2>2. \A i \in 1 .. h :
            /\ nodes'[i].children = Rest(ps, k + 1, h - i + 1)
            /\ nodes'[i].inChildren /\ nodes'[i].properties = 0
      <3> TAKE i \in 1 .. h
      <3>1. CASE i = 1
        <4>1. nodes[1].children = Rest(ps, k, h - i + 1) /\ 1 \in 1 .. h
          BY <1>2, <1>3, <3>1
        <4>2. nodes[1].children - 1 = Rest(ps, k + 1, h - i + 1)
          BY <1>8, <3>1, <4>1
        <4> QED  BY <1>5, <1>6, <3>1, <4>2
      <3>2. CASE i \in 2 .. h
        <4>1. Rest(ps, k, h - i + 1) = Rest(ps, k + 1, h - i + 1) /\ i > 1
          <5>1. i > 1 /\ i # 1
            BY <3>2
          <5> QED  BY <1>8, <5>1
        <4> QED  BY <1>3, <1>6, <3>2, <4>1
      <3> QED  BY <2>1, <3>1, <3>2
    <2> QED  BY <1>1, <1>6, <2>2 DEF CallsAt
  <1>10. DtizeTypes'
    BY <1>1, <1>2, <1>6, <1>4 DEF DtizeTypes
  <1> QED  BY <1>1, <1>2, <1>4, <1>6, <1>7, <1>9, <1>10, SameTree, LinesStay DEF AtPart

LEMMA EndNodeKeeps ==
    ASSUME tree \in Trees, Complete, DtizeTypes, NEW k \in 1 .. Len(tree.parts) + 1, AtPart(k), EndNode
    PROVE  DtizeTypes' /\ AtPart(k)'
  <1> DEFINE ps == tree.parts
             h == Len(nodes)
  <1>1. /\ dtize = "read" /\ dtize' = (IF h = 1 THEN "main" ELSE "read") /\ tree' = tree /\ place' = place
        /\ propertyLines' = propertyLines /\ indent' = indent - 1 /\ nodes[1].inChildren /\ nodes[1].children = 0
        /\ nodes' = Tail(nodes)
    BY DEF EndNode
  <1>2. /\ place = BeginOf[k] /\ LinesUpTo(k) /\ h \in Nat \ {0} /\ Len(ps) \in Nat /\ nodes[1] \in NodeCall
        /\ ArePartsOf(ps) /\ nodes[1].properties = 0
    BY <1>1, ReadIs
  <1>3. \A i \in 1 .. h :
          /\ nodes[i].children = Rest(ps, k, h - i + 1)
          /\ i > 1 => nodes[i].inChildren /\ nodes[i].properties = 0
    BY <1>1, ReadIs
  <1>4. /\ k <= Len(ps) => k \in NodesOf(ps) /\ ps[k].depth <= h
        /\ indent = h /\ k > 1
    <2>1. k + nodes[1].properties = k
      BY <1>2
    <2> QED  BY <1>1, <2>1, ReadIs
  <1>5. nodes' \in Seq(NodeCall) /\ Len(nodes') = h - 1 /\ \A i \in 1 .. h - 1 : nodes'[i] = nodes[i + 1]
    <2>1. nodes \in Seq(NodeCall)
      BY DEF DtizeTypes
    <2> QED  BY <1>1, <1>2, <2>1, CallOut
  \* There is no child: the next part, if there is one, is less deep.
  <1>6. k <= Len(ps) => ps[k].depth < h /\ ps[k].depth \in Nat /\ k \in 1 .. Len(ps)
    <2> SUFFICES ASSUME k <= Len(ps) PROVE ps[k].depth < h /\ ps[k].depth \in Nat /\ k \in 1 .. Len(ps)
      OBVIOUS
    <2>1. nodes[1].children = Rest(ps, k, h)
      <3>1. 1 \in 1 .. h /\ h - 1 + 1 = h
        BY <1>2
      <3> HIDE DEF h
      <3> QED  BY <1>3, <3>1
    <2>2. k \in 1 .. Len(ps) /\ h \in Nat /\ k \in Nat /\ k \in NodesOf(ps)
      BY <1>2, <1>4
    <2>3. Beside(ps, k, h) = {}
      BY <1>1, <1>2, <2>1, <2>2, BesideFinite DEF Rest
    <2>4. ps[k].depth # h
      BY <1>2, <2>2, <2>3, BesideFrom
    <2>5. ps[k].depth \in Nat
      BY <1>2, <2>2 DEF ArePartsOf
    <2> QED  BY <1>4, <2>2, <2>4, <2>5
  <1> HIDE DEF h
  <1>7. CallsAt(k)' /\ \A i \in 1 .. h - 1 : nodes'[i].inChildren /\ nodes'[i].properties = 0
    <2>1. \A i \in 1 .. h - 1 :
            /\ nodes'[i].children = Rest(ps, k, h - 1 - i + 1)
            /\ nodes'[i].inChildren /\ nodes'[i].properties = 0
      <3> TAKE i \in 1 .. h - 1
      <3>1. i + 1 \in 1 .. h /\ i + 1 > 1 /\ h - (i + 1) + 1 = h - 1 - i + 1
        BY <1>2
      <3> QED  BY <1>3, <1>5, <3>1
    <2>2. dtize' # "counts"
      BY <1>1
    <2> QED  BY <1>1, <1>5, <2>1, <2>2 DEF CallsAt
  <1>8. DtizeTypes'
    BY <1>1, <1>2, <1>4, <1>5 DEF DtizeTypes
  <1>9. CASE h = 1
    <2>1. k = Len(ps) + 1
      <3> SUFFICES ASSUME k <= Len(ps) PROVE FALSE
        BY <1>2
      <3>1. ps[k].depth = 0 /\ k \in NodesOf(ps)
        BY <1>4, <1>6, <1>9
      <3>2. k = 1
        BY <3>1 DEF Complete, IsTree, IsNodeOf
      <3>3. k > 1
        BY <1>1, ReadIs
      <3> QED  BY <3>2, <3>3
    <2>2. nodes' = <<>>
      BY <1>5, <1>9
    <2>3. indent' = 0
      BY <1>1, <1>4, <1>9
    <2> QED  BY <1>1, <1>2, <1>7, <1>8, <1>9, <2>1, <2>2, <2>3, SameTree, LinesStay DEF AtPart
  <1>10. CASE h # 1
    <2>1. dtize' = "read" /\ h - 1 > 0 /\ 1 \in 1 .. h - 1
      BY <1>1, <1>2, <1>10
    <2>2. nodes'[1].inChildren /\ nodes'[1].properties = 0 /\ k + nodes'[1].properties = k /\ k <= Len(ps) + 1
      BY <1>2, <1>7, <2>1
    <2>3. k <= Len(ps) => k \in NodesOf(ps) /\ ps[k].depth <= h - 1
      BY <1>2, <1>4, <1>6
    <2>4. indent' = h - 1 /\ Len(nodes') = h - 1 /\ Len(nodes') > 0 /\ \A i \in k .. k - 1 : FALSE
      BY <1>1, <1>2, <1>4, <1>5, <2>1
    <2>5. ReadingAt(k)'
      BY <1>1, <1>4, <2>2, <2>3, <2>4 DEF ReadingAt
    <2> QED  BY <1>1, <1>2, <1>7, <1>8, <2>1, <2>5, SameTree, LinesStay DEF AtPart
  <1> QED  BY <1>9, <1>10

LEMMA CheckHeaderKeeps ==
    ASSUME tree \in Trees, Complete, DtizeTypes, nodes = <<>>, indent = 0, propertyLines = <<>>, CheckHeader
    PROVE  DtizeTypes' /\ AtPart(1)' /\ 1 \in 1 .. Len(tree.parts) + 1
  <1>1. /\ dtize' = "main" /\ place' = HeaderSize /\ UNCHANGED <<tree, nodes, indent, propertyLines>>
        /\ Len(nodes) = 0 /\ Len(tree.parts) \in Nat
    BY PartsAre DEF CheckHeader, Complete, ArePartsOf
  <1>2. LinesUpTo(1)'
    <2>1. PropertiesOf(tree.parts) \subseteq Nat \ {0}
      BY PartsAre DEF PropertiesOf, ArePartsOf
    <2>2. DOMAIN propertyLines' = {}
      BY <1>1
    <2>3. PrintedParts' = {}
      BY <2>2 DEF PrintedParts
    <2>4. {j \in PropertiesOf(tree.parts) : j < 1} = {}
      BY <2>1
    <2> QED  BY <1>1, <2>2, <2>3, <2>4 DEF LinesUpTo
  <1>3. CallsAt(1)'
    BY <1>1 DEF CallsAt
  <1>4. place' = BeginOf[1]
    BY <1>1, BeginsAre
  <1> QED  BY <1>1, <1>2, <1>3, <1>4, SameTree DEF AtPart, DtizeTypes

LEMMA AnotherNodeKeeps ==
    ASSUME tree \in Trees, Complete, DtizeTypes, NEW k \in 1 .. Len(tree.parts) + 1, AtPart(k), AnotherNode
    PROVE  DtizeTypes' /\ AtPart(k)'
  <1> DEFINE ps == tree.parts
  <1>1. /\ dtize = "main" /\ UNCHANGED <<tree, place, nodes, indent, propertyLines>>
        /\ dtize' = IF place < totalLen THEN "counts" ELSE "done"
        /\ nodes = <<>> /\ Len(nodes) = 0 /\ indent = 0 /\ k \in {1, Len(ps) + 1} /\ place = BeginOf[k] /\ LinesUpTo(k)
    BY DEF AnotherNode, AtPart
  <1>2. CallsAt(k)'
    BY <1>1 DEF CallsAt
  <1>3. 1 \in NodesOf(ps) /\ ps[1].depth = 0 /\ Len(ps) \in Nat /\ 1 \in 1 .. Len(ps)
    <2>1. 1 \in NodesOf(ps) /\ ps[1].depth = 0
      BY DEF Complete, IsTree, IsNodeOf
    <2> QED  BY <2>1, PartsAre DEF NodesOf, ArePartsOf
  <1>4. CASE k = 1
    <2>1. place < totalLen
      BY <1>1, <1>4, BeginsAre, EndIs
    <2>2. dtize' = "counts"
      BY <1>1, <2>1
    <2> QED  BY <1>1, <1>2, <1>3, <1>4, <2>2, SameTree, LinesStay DEF AtPart, DtizeTypes
  <1>5. CASE k # 1
    <2>1. k = Len(ps) + 1
      BY <1>1, <1>5
    <2>2. ~(place < totalLen)
      BY <1>1, <2>1, EndIs
    <2>3. dtize' = "done"
      BY <1>1, <2>2
    <2> QED  BY <1>1, <1>2, <2>1, <2>3, SameTree, LinesStay DEF AtPart, DtizeTypes
  <1> QED  BY <1>4, <1>5

LEMMA DtizeGoesOn == DtizeInv /\ [DtizeNext]_dtizeVars => DtizeInv'
  <1> SUFFICES ASSUME DtizeInv, [DtizeNext]_dtizeVars PROVE DtizeInv'
    OBVIOUS
  <1>1. tree \in Trees /\ tree' = tree
    BY DEF DtizeInv, DtizeNext, dtizeVars, CheckHeader, AnotherNode, GetCounts, GetProperty, BeginChildren, NextChild, EndNode
  <1>2. Complete' = Complete
    BY <1>1, SameTree
  <1>3. SUFFICES ASSUME Complete
                 PROVE  /\ DtizeTypes'
                        /\ dtize' = "start" => nodes' = <<>> /\ indent' = 0 /\ propertyLines' = <<>>
                        /\ dtize' # "start" => \E k \in 1 .. Len(tree.parts) + 1 : AtPart(k)'
    BY <1>1, <1>2 DEF DtizeInv
  <1>4. DtizeTypes
    BY <1>3 DEF DtizeInv
  <1>5. CASE dtize = "start"
    <2>1. nodes = <<>> /\ indent = 0 /\ propertyLines = <<>>
      BY <1>3, <1>5 DEF DtizeInv
    <2>2. CASE CheckHeader
      <3>1. dtize' = "main"
        BY <1>3, <2>2 DEF CheckHeader, Complete
      <3> QED  BY <1>1, <1>3, <1>4, <2>1, <2>2, <3>1, CheckHeaderKeeps
    <2>3. CASE UNCHANGED dtizeVars
      BY <1>4, <1>5, <2>1, <2>3 DEF dtizeVars, DtizeTypes
    <2> QED
      BY <1>5, <2>2, <2>3 DEF DtizeNext, AnotherNode, GetCounts, GetProperty, BeginChildren, NextChild, EndNode
  <1>6. CASE dtize # "start"
    <2>1. PICK k \in 1 .. Len(tree.parts) + 1 : AtPart(k)
      BY <1>3, <1>6 DEF DtizeInv
    <2>2. SUFFICES DtizeTypes' /\ dtize' # "start" /\ \E j \in 1 .. Len(tree.parts) + 1 : AtPart(j)'
      OBVIOUS
    <2>3. PICK m : m = k + 1
      OBVIOUS
    <2>4. CASE AnotherNode
      <3>1. dtize' # "start"
        BY <2>4 DEF AnotherNode
      <3> QED  BY <1>1, <1>3, <1>4, <2>1, <2>4, <3>1, AnotherNodeKeeps
    <2>5. CASE GetCounts
      <3>1. dtize' # "start"
        BY <2>5 DEF GetCounts
      <3>2. DtizeTypes' /\ m \in 1 .. Len(tree.parts) + 1 /\ AtPart(m)'
        BY <1>1, <1>3, <1>4, <2>1, <2>3, <2>5, GetCountsKeeps
      <3> QED  BY <3>1, <3>2
    <2>6. CASE GetProperty
      <3>1. DtizeTypes' /\ m \in 1 .. Len(tree.parts) + 1 /\ AtPart(m)'
        BY <1>1, <1>3, <1>4, <2>1, <2>3, <2>6, GetPropertyKeeps
      <3>2. dtize' # "start"
        BY <1>6, <2>6 DEF GetProperty
      <3> QED  BY <3>1, <3>2
    <2>7. CASE BeginChildren
      <3>1. dtize' # "start"
        BY <2>7 DEF BeginChildren
      <3> QED  BY <1>1, <1>3, <1>4, <2>1, <2>7, <3>1, BeginChildrenKeeps
    <2>8. CASE NextChild
      <3>1. dtize' # "start"
        BY <2>8 DEF NextChild
      <3> QED  BY <1>1, <1>3, <1>4, <2>1, <2>8, <3>1, NextChildKeeps
    <2>9. CASE EndNode
      <3>1. dtize' # "start"
        BY <2>9 DEF EndNode
      <3> QED  BY <1>1, <1>3, <1>4, <2>1, <2>9, <3>1, EndNodeKeeps
    <2>10. CASE UNCHANGED dtizeVars
      <3>1. DtizeTypes' /\ dtize' # "start" /\ UNCHANGED <<tree, dtize, place, nodes, indent, propertyLines>>
        BY <1>4, <1>6, <2>10 DEF dtizeVars, DtizeTypes
      <3>2. CallsAt(k)' /\ LinesUpTo(k)'
        <4>1. CallsAt(k) /\ LinesUpTo(k)
          BY <2>1 DEF AtPart
        <4> QED  BY <3>1, <4>1, LinesStay DEF CallsAt
      <3>3. ReadingAt(k)' = ReadingAt(k)
        BY <3>1 DEF ReadingAt
      <3>4. AtPart(k)'
        BY <2>1, <3>1, <3>2, <3>3, SameTree DEF AtPart
      <3> QED  BY <3>1, <3>4
    <2> QED
      BY <1>6, <2>4, <2>5, <2>6, <2>7, <2>8, <2>9, <2>10 DEF DtizeNext, CheckHeader
  <1> QED  BY <1>5, <1>6

LEMMA DtizeTells == DtizeInv => TreeIsTold
  <1> SUFFICES ASSUME DtizeInv, Complete PROVE TreeIsTold
    BY DEF TreeIsTold
  <1> DEFINE ps == tree.parts
  <1>1. tree \in Trees /\ DtizeTypes
    BY DEF DtizeInv
  <1>2. dtize # "error"
    BY <1>1 DEF DtizeTypes
  <1>3. CASE dtize = "start"
    <2>1. propertyLines = <<>> /\ ~OutOfStep
      BY <1>3 DEF DtizeInv, OutOfStep
    <2> QED  BY <1>2, <1>3, <2>1 DEF TreeIsTold
  <1>4. CASE dtize # "start"
    <2>1. PICK k \in 1 .. Len(ps) + 1 : AtPart(k)
      BY <1>4 DEF DtizeInv
    <2>2. Len(ps) \in Nat /\ DOMAIN ps = 1 .. Len(ps)
      BY <1>1, PartsAre DEF ArePartsOf
    <2>3. LinesUpTo(k) /\ place = BeginOf[k]
      BY <2>1 DEF AtPart
    <2>4. ~OutOfStep
      <3>1. CASE dtize = "counts"
        <4>1. k \in NodesOf(ps) /\ k \in 1 .. Len(ps)
          BY <2>1, <2>2, <3>1 DEF AtPart, NodesOf
        <4>2. k \in Here /\ ps[k].part # "property" /\ ps[k] \in Part
          BY <1>1, <2>2, <2>3, <4>1, HereIs, PartsAre DEF NodesOf
        <4>3. ps[k].part = "counts"
          BY <4>2 DEF Part
        <4> QED  BY <3>1, <4>2, <4>3 DEF OutOfStep
      <3>2. CASE dtize = "read"
        <4>1. SUFFICES ASSUME nodes[1].properties > 0 PROVE \E j \in Here : ps[j].part = "property"
          BY <3>2 DEF OutOfStep
        <4>2. /\ nodes[1].properties \in Nat
              /\ \A i \in k .. k + nodes[1].properties - 1 : i \in PropertiesOf(ps) /\ ps[i].depth = Len(nodes) - 1
          BY <1>1, <2>1, <3>2, ReadIs
        <4>3. k \in k .. k + nodes[1].properties - 1
          BY <2>2, <4>1, <4>2
        <4>4. k \in PropertiesOf(ps)
          BY <4>2, <4>3
        <4>5. k \in 1 .. Len(ps) /\ ps[k].part = "property"
          BY <2>2, <4>4 DEF PropertiesOf
        <4>6. k \in Here
          BY <1>1, <2>3, <4>5, HereIs
        <4> QED  BY <4>5, <4>6
      <3> QED  BY <3>1, <3>2 DEF OutOfStep
    <2>5. PropertiesOf(ps) \subseteq 1 .. Len(ps)
      BY <2>2 DEF PropertiesOf
    <2>6. ASSUME NEW n \in DOMAIN propertyLines
          PROVE  LET line == propertyLines[n] IN
                 /\ line.part \in PropertiesOf(ps) /\ line.indent = ps[line.part].depth
                 /\ \A m \in 1 .. n - 1 : propertyLines[m].part < line.part
                 /\ \A j \in PropertiesOf(ps) : j < line.part => j \in PrintedParts
      <3>1. propertyLines[n].part \in {j \in PropertiesOf(ps) : j < k}
        BY <2>3 DEF LinesUpTo, PrintedParts
      <3>2. \A j \in PropertiesOf(ps) : j < propertyLines[n].part => j \in {i \in PropertiesOf(ps) : i < k}
        BY <2>2, <2>5, <3>1
      <3> QED  BY <2>3, <3>1, <3>2 DEF LinesUpTo
    <2>7. dtize = "done" => PrintedParts = PropertiesOf(ps) /\ place = FileEnd
      <3> SUFFICES ASSUME dtize = "done" PROVE PrintedParts = PropertiesOf(ps) /\ place = FileEnd
        OBVIOUS
      <3>1. k = Len(ps) + 1
        BY <2>1 DEF AtPart
      <3>2. {j \in PropertiesOf(ps) : j < k} = PropertiesOf(ps)
        BY <2>2, <2>5, <3>1
      <3>3. place = FileEnd
        BY <1>1, <2>3, <3>1, EndIs
      <3> QED  BY <2>3, <3>2, <3>3 DEF LinesUpTo
    <2> QED  BY <1>2, <2>4, <2>6, <2>7 DEF TreeIsTold
  <1> QED  BY <1>3, <1>4

LEMMA DtizeIsInStep == DtizeSpec => []TreeIsTold
  <1>1. DtizeInit => DtizeInv
    <2> SUFFICES ASSUME DtizeInit PROVE DtizeInv
      OBVIOUS
    <2>1. <<>> \in Seq(NodeCall) /\ <<>> \in Seq(PropertyLine)
      BY EmptySeq
    <2> QED  BY <2>1 DEF DtizeInit, DtizeInv, DtizeTypes
  <1> QED  BY <1>1, DtizeGoesOn, DtizeTells, PTL DEF DtizeSpec

-----------------------------------------------------------------------------
(* imagine                                                                 *)

ImagineSpec == ImagineInit /\ [][ImagineNext]_imagineVars

ShownValue == [property : Nat, value : {"own", "mixed", "(null)"}]
NodeLine == [tag : Nat, node : Nat, indent : Nat, name : Nat, values : Seq(ShownValue)]
DumpCall == [node : Nat, indent : Nat, properties : Nat, children : Nat, dtp : Nat, offset : Int, name : Nat,
             values : Seq(ShownValue), named : BOOLEAN]

LEMMA TagsAre ==
    ASSUME image \in Images
    PROVE  /\ Len(image.tags) \in Nat /\ DOMAIN image.tags = 1 .. Len(image.tags)
           /\ image.magic \in BOOLEAN /\ image.dump \in BOOLEAN
           /\ \A t \in 1 .. Len(image.tags) :
                 /\ image.tags[t].dtre \in BOOLEAN
                 /\ image.tags[t].tree \in Seq(ImagePart) /\ ArePartsOf(image.tags[t].tree)
                 /\ \A k \in 1 .. Len(image.tags[t].tree) :
                       /\ image.tags[t].tree[k].part \in {"node", "property"}
                       /\ image.tags[t].tree[k].length \in Nat /\ image.tags[t].tree[k].named \in BOOLEAN
  <1>1. image.tags \in Seq(ImageTag) /\ image.magic \in BOOLEAN /\ image.dump \in BOOLEAN
    BY ImagineAssumption
  <1>2. Len(image.tags) \in Nat /\ DOMAIN image.tags = 1 .. Len(image.tags)
        /\ \A t \in 1 .. Len(image.tags) : image.tags[t] \in ImageTag
    BY <1>1, LenProperties, ElementOfSeq
  <1>3. ASSUME NEW ps \in Seq(ImagePart)
        PROVE  /\ ArePartsOf(ps)
               /\ \A k \in 1 .. Len(ps) :
                     ps[k].part \in {"node", "property"} /\ ps[k].length \in Nat /\ ps[k].named \in BOOLEAN
    <2>1. Len(ps) \in Nat /\ DOMAIN ps = 1 .. Len(ps) /\ \A k \in 1 .. Len(ps) : ps[k] \in ImagePart
      BY LenProperties, ElementOfSeq
    <2>2. \A part \in ImagePart : /\ part.depth \in Nat /\ part.properties \in Nat /\ part.children \in Nat
                                  /\ part.part \in {"node", "property"} /\ part.length \in Nat /\ part.named \in BOOLEAN
      BY DEF ImagePart
    <2> QED  BY <2>1, <2>2 DEF ArePartsOf
  <1>4. \A tag \in ImageTag : tag.dtre \in BOOLEAN /\ tag.tree \in Seq(ImagePart)
    BY DEF ImageTag
  <1> QED  BY <1>1, <1>2, <1>3, <1>4

RoomOf(part) == IF part.part = "node" THEN NodeSize ELSE PropertySize + Up4(part.length)

LEMMA RoundedIs ==
    /\ \A n \in Nat : Up4(n) \in Nat /\ Up4(n) % 4 = 0
    /\ \A a, n \in Nat : a % 4 = 0 => Up4(a + PropertySize + n) = a + (PropertySize + Up4(n))
  <1>1. \A n \in Nat : ((n + 3) \div 4) * 4 \in Nat /\ (((n + 3) \div 4) * 4) % 4 = 0
    OBVIOUS
  <1>2. \A a, n \in Nat : a % 4 = 0 => ((a + 36 + n + 3) \div 4) * 4 = a + (36 + ((n + 3) \div 4) * 4)
    OBVIOUS
  <1> QED  BY <1>1, <1>2 DEF Up4, PropertySize

\* Where the parts of a tree begin: at multiples of four, each behind the ones before it.
LEMMA PartsBegin ==
    ASSUME image \in Images, tagAt \in 1 .. Len(image.tags)
    PROVE  /\ \A k \in 1 .. Len(Parts) + 1 : PartBegin[k] \in Nat /\ PartBegin[k] % 4 = 0
           /\ PartBegin[1] = 0
           /\ \A k \in 1 .. Len(Parts) : PartBegin[k + 1] = PartBegin[k] + RoomOf(Parts[k])
           /\ \A j, k \in 1 .. Len(Parts) + 1 : j < k => PartBegin[j] < PartBegin[k]
  <1> DEFINE n == Len(Parts)
             Q(f) == f = [k \in 1 .. n + 1 |-> IF k = 1 THEN 0 ELSE f[k - 1] +
                            (IF Parts[k - 1].part = "node" THEN NodeSize ELSE PropertySize + Up4(Parts[k - 1].length))]
             sizes == [k \in 1 .. n |-> RoomOf(Parts[k])]
             begins == PartBegin
  <1>0. n \in Nat /\ \A k \in 1 .. n : Parts[k].length \in Nat
    BY TagsAre DEF Parts, theTag, ArePartsOf
  <1>4. \A k \in 1 .. n : sizes[k] = RoomOf(Parts[k]) /\ sizes[k] \in Nat \ {0} /\ sizes[k] % 4 = 0
    <2> TAKE k \in 1 .. n
    <2>1. Up4(Parts[k].length) \in Nat /\ Up4(Parts[k].length) % 4 = 0
      BY <1>0, RoundedIs
    <2>2. \A x \in Nat : x % 4 = 0 => 36 + x \in Nat \ {0} /\ (36 + x) % 4 = 0
      OBVIOUS
    <2>3. RoomOf(Parts[k]) \in Nat \ {0} /\ RoomOf(Parts[k]) % 4 = 0
      BY <2>1, <2>2 DEF RoomOf, NodeSize, PropertySize
    <2> QED  BY <2>3
  <1>1. n \in Nat /\ sizes \in [1 .. n -> Nat \ {0}] /\ sizes \in [1 .. n -> Nat]
    BY <1>0, <1>4
  <1>2. \A f : SumsOf(f, 0, sizes, n) <=> Q(f)
    <2>1. \A k \in 1 .. n + 1 : k # 1 => sizes[k - 1] =
             IF Parts[k - 1].part = "node" THEN NodeSize ELSE PropertySize + Up4(Parts[k - 1].length)
      <3> TAKE k \in 1 .. n + 1
      <3>1. k # 1 => k - 1 \in 1 .. n
        BY <1>1
      <3> HIDE DEF sizes, n
      <3> QED  BY <1>4, <3>1 DEF RoomOf
    <2> HIDE DEF n, sizes
    <2> QED  BY <2>1 DEF SumsOf
  <1>3. begins = CHOOSE g : Q(g)
    BY DEF PartBegin
  <1>5. SumsOf(begins, 0, sizes, n)
    <2> HIDE DEF n, Q, sizes, begins
    <2>1. \E f : SumsOf(f, 0, sizes, n)
      BY <1>1, SumsExist
    <2> QED  BY <1>2, <1>3, <2>1
  <1>6. /\ begins \in [1 .. n + 1 -> Nat] /\ begins[1] = 0
        /\ \A k \in 1 .. n : begins[k + 1] = begins[k] + sizes[k]
        /\ \A j, k \in 1 .. n + 1 : j < k => begins[j] < begins[k]
    <2> HIDE DEF n, Q, sizes, begins
    <2> QED  BY <1>1, <1>5, SumsGrow
  <1>7. \A k \in 1 .. n + 1 : begins[k] % 4 = 0
    <2> DEFINE Bad == {k \in 1 .. n + 1 : begins[k] % 4 # 0}
    <2> HIDE DEF n, Q, sizes, begins
    <2> SUFFICES ASSUME Bad # {} PROVE FALSE
      OBVIOUS
    <2>1. Bad \subseteq Nat
      BY <1>1
    <2>2. PICK k \in Bad : \A j \in Bad : k <= j
      <3> HIDE DEF Bad
      <3> QED  BY <2>1, LeastElement
    <2>3. k \in 2 .. n + 1
      BY <1>1, <1>6
    <2>4. k - 1 \in 1 .. n /\ k - 1 \in 1 .. n + 1 /\ ~(k <= k - 1) /\ (k - 1) + 1 = k
      BY <1>1, <2>3
    <2>5. k - 1 \notin Bad
      <3> HIDE DEF Bad
      <3> QED  BY <2>2, <2>4
    <2>6. begins[k - 1] % 4 = 0 /\ begins[k - 1] \in Nat /\ sizes[k - 1] % 4 = 0 /\ sizes[k - 1] \in Nat
      BY <1>4, <1>6, <2>4, <2>5
    <2>7. begins[k] = begins[k - 1] + sizes[k - 1]
      BY <1>6, <2>4
    <2>8. \A x, y \in Nat : x % 4 = 0 /\ y % 4 = 0 => (x + y) % 4 = 0
      OBVIOUS
    <2>9. begins[k] % 4 = 0
      BY <2>6, <2>7, <2>8
    <2> QED  BY <2>9
  <1> QED  BY <1>4, <1>6, <1>7

\* Nothing else begins there.
LEMMA PartIsAt ==
    ASSUME image \in Images, tagAt \in 1 .. Len(image.tags), NEW k \in 1 .. Len(Parts), NEW kind
    PROVE  PartsAt(PartBegin[k], kind) = IF Parts[k].part = kind THEN {k} ELSE {}
  <1>1. DOMAIN Parts = 1 .. Len(Parts) /\ Len(Parts) \in Nat
    BY TagsAre DEF Parts, theTag, ArePartsOf
  <1>2. \A j \in 1 .. Len(Parts) : PartBegin[j] = PartBegin[k] => j = k
    <2> TAKE j \in 1 .. Len(Parts)
    <2>1. PartBegin[j] \in Nat /\ PartBegin[k] \in Nat /\ (j < k => PartBegin[j] < PartBegin[k])
          /\ (k < j => PartBegin[k] < PartBegin[j])
      BY <1>1, PartsBegin
    <2> QED  BY <1>1, <2>1
  <1> QED  BY <1>1, <1>2 DEF PartsAt

AllTrees == \A t \in DOMAIN image.tags : image.tags[t].kind = "data" => IsTree(image.tags[t].tree)

TypeBefore(t) ==
    \E s \in 1 .. t - 1 : /\ image.tags[s].kind = "type" /\ image.tags[s].dtre
                          /\ \A u \in s + 1 .. t - 1 : image.tags[u].kind # "type"

PrintedUpTo(bound) == PrintedNodes = {b \in AskedNodes : InOrder(b, bound)}
LinesAreRight ==
    \A n \in DOMAIN imageLines :
        LET at == <<imageLines[n].tag, imageLines[n].node>> IN
        /\ at \in AskedNodes /\ IsLineOf(imageLines[n], imageLines[n].tag, imageLines[n].node)
        /\ \A m \in 1 .. n - 1 : InOrder(<<imageLines[m].tag, imageLines[m].node>>, at)

\* What the innermost call, c, has copied from the properties of its node.
NamesUpTo(c, k) == {i \in c.node + 1 .. k - 1 : Parts[i].named}
Copying(c, k) ==
    /\ c.node + 1 + Len(c.values) = k /\ c.properties + Len(c.values) = Parts[c.node].properties
    /\ c.dtp = PartBegin[k] /\ c.offset = (IF c.values = <<>> THEN NoPlace ELSE PartBegin[k])
    /\ IF NamesUpTo(c, k) = {} THEN c.name = Garbage
                               ELSE c.name \in NamesUpTo(c, k) /\ \A i \in NamesUpTo(c, k) : i <= c.name
    /\ \A i \in 1 .. Len(c.values) :
          /\ c.values[i].property = c.node + i
          /\ Parts[c.node + i].length % 4 # 0 => c.values[i].value # "(null)"

NoValues == imageLines # <<>> /\ imageLines[Len(imageLines)].values = <<>>
Between(c, k) ==
    /\ c.properties = 0
    /\ k <= Len(Parts) => k \in NodesOf(Parts) /\ Parts[k].depth <= Len(treeCalls)
    /\ c.offset \in {NoPlace, PartBegin[k]} /\ (c.offset = NoPlace => NoValues)

\* The calls of dumpTreeNode when the part k is the next.
DumpsAt(k) ==
    \A i \in 1 .. Len(treeCalls) :
       /\ treeCalls[i].node \in NodesOf(Parts) /\ treeCalls[i].node < k
       /\ Parts[treeCalls[i].node].depth = Len(treeCalls) - i /\ treeCalls[i].indent = Len(treeCalls) - i + 1
       /\ treeCalls[i].children = Rest(Parts, k, Len(treeCalls) - i + 1)
       /\ i > 1 => treeCalls[i].named /\ treeCalls[i].properties = 0

InTheTree(k) ==
    /\ tagAt \in 1 .. Len(image.tags) /\ TreeAskedFor(tagAt)
    /\ Len(treeCalls) > 0 /\ DumpsAt(k)
    /\ IF treeCalls[1].named THEN Between(treeCalls[1], k) /\ PrintedUpTo(<<tagAt, k>>)
                             ELSE Copying(treeCalls[1], k) /\ PrintedUpTo(<<tagAt, treeCalls[1].node>>)

ImagineTypes ==
    /\ imagine \in {"start", "tags", "tree", "done", "failed", "stuck", "crashed"}
    /\ tagAt \in 1 .. Len(image.tags) + 1
    /\ treeCalls \in Seq(DumpCall) /\ imageLines \in Seq(NodeLine)

ImagineInv ==
    /\ image \in Images
    /\ AllTrees =>
          /\ ImagineTypes /\ LinesAreRight
          /\ imageType = TypeBefore(tagAt)
          /\ imagine \notin {"start", "failed"} => image.magic
          /\ imagine = "done" => tagAt = Len(image.tags) + 1
          /\ imagine \notin {"tree", "crashed"} => PrintedUpTo(<<tagAt, 0>>)
          /\ imagine = "tree" => \E k \in 1 .. Len(Parts) + 1 : InTheTree(k)
          /\ imagine = "crashed" => NoValues /\ \E k \in Nat : PrintedUpTo(<<tagAt, k>>)

LEMMA SameImage ==
    ASSUME image' = image
    PROVE  /\ AskedNodes' = AskedNodes /\ AllTrees' = AllTrees
           /\ \A t : TypeBefore(t)' = TypeBefore(t) /\ TreeAskedFor(t)' = TreeAskedFor(t)
           /\ \A line, t, k : IsLineOf(line, t, k)' = IsLineOf(line, t, k)
           /\ tagAt' = tagAt => Parts' = Parts /\ PartBegin' = PartBegin
  <1>1. \A t : TreeAskedFor(t)' = TreeAskedFor(t)
    BY DEF TreeAskedFor
  <1>2. AskedNodes' = AskedNodes
    BY DEF AskedNodes, TreeAskedFor
  <1>3. tagAt' = tagAt => Parts' = Parts
    BY DEF Parts, theTag
  <1>4. tagAt' = tagAt => PartBegin' = PartBegin
    BY <1>3 DEF PartBegin
  <1> QED  BY <1>1, <1>2, <1>3, <1>4 DEF AllTrees, TypeBefore, IsLineOf

\* The nodes to be printed are pairs of a tag whose tree is asked for and a node of it.
LEMMA AskedAre ==
    ASSUME image \in Images
    PROVE  /\ \A b \in AskedNodes :
                 /\ b[1] \in 1 .. Len(image.tags) /\ TreeAskedFor(b[1]) /\ b[2] \in NodesOf(image.tags[b[1]].tree)
                 /\ b[2] \in 1 .. Len(image.tags[b[1]].tree) /\ b = <<b[1], b[2]>>
           /\ \A t \in 1 .. Len(image.tags) : \A k \in NodesOf(image.tags[t].tree) :
                 TreeAskedFor(t) => <<t, k>> \in AskedNodes
  <1>1. DOMAIN image.tags = 1 .. Len(image.tags)
        /\ \A t \in 1 .. Len(image.tags) : DOMAIN image.tags[t].tree = 1 .. Len(image.tags[t].tree)
    BY TagsAre DEF ArePartsOf
  <1>2. ASSUME NEW b \in AskedNodes
        PROVE  /\ b[1] \in 1 .. Len(image.tags) /\ TreeAskedFor(b[1]) /\ b[2] \in NodesOf(image.tags[b[1]].tree)
               /\ b[2] \in 1 .. Len(image.tags[b[1]].tree) /\ b = <<b[1], b[2]>>
    <2>1. PICK t \in {s \in DOMAIN image.tags : TreeAskedFor(s)} : b \in {t} \X NodesOf(image.tags[t].tree)
      BY DEF AskedNodes
    <2>2. b[1] = t /\ b[2] \in NodesOf(image.tags[t].tree) /\ b = <<b[1], b[2]>>
      BY <2>1
    <2> QED  BY <1>1, <2>1, <2>2 DEF NodesOf
  <1>3. ASSUME NEW t \in 1 .. Len(image.tags), NEW k \in NodesOf(image.tags[t].tree), TreeAskedFor(t)
        PROVE  <<t, k>> \in AskedNodes
    BY <1>1, <1>3 DEF AskedNodes
  <1> QED  BY <1>2, <1>3

\* What the type of a tree is, behind one more tag.
LEMMA TypeOn ==
    ASSUME image \in Images, NEW t \in 1 .. Len(image.tags)
    PROVE  /\ image.tags[t].kind = "type" => TypeBefore(t + 1) = image.tags[t].dtre
           /\ image.tags[t].kind # "type" => TypeBefore(t + 1) = TypeBefore(t)
  <1>0. Len(image.tags) \in Nat /\ image.tags[t].dtre \in BOOLEAN
    BY TagsAre
  <1>1. t + 1 - 1 = t /\ \A s \in 1 .. t : s = t \/ s \in 1 .. t - 1
    BY <1>0
  <1>2. \A s \in 1 .. t - 1 : s \in 1 .. t /\ t \in s + 1 .. t /\ \A u \in s + 1 .. t : u = t \/ u \in s + 1 .. t - 1
    BY <1>0
  <1>3. \A u \in t + 1 .. t : FALSE
    BY <1>0
  <1>4. \A s \in 1 .. t - 1 : \A u \in s + 1 .. t - 1 : u \in s + 1 .. t
    BY <1>0
  <1>5. t \in 1 .. t
    BY <1>0
  <1>6. CASE image.tags[t].kind = "type"
    <2>1. TypeBefore(t + 1) <=> image.tags[t].dtre
      BY <1>1, <1>2, <1>3, <1>5, <1>6 DEF TypeBefore
    <2> QED  BY <1>0, <1>6, <2>1 DEF TypeBefore
  <1>7. CASE image.tags[t].kind # "type"
    <2>1. TypeBefore(t + 1) <=> TypeBefore(t)
      BY <1>1, <1>2, <1>4, <1>7, SMTT(30) DEF TypeBefore
    <2> QED  BY <1>7, <2>1 DEF TypeBefore
  <1> QED  BY <1>6, <1>7

\* The same nodes are printed if they are the same up to another bound.
LEMMA UpToToo ==
    ASSUME NEW x, NEW y, PrintedUpTo(x), UNCHANGED <<image, imageLines>>,
           \A b \in AskedNodes : InOrder(b, x) <=> InOrder(b, y)
    PROVE  PrintedUpTo(y)'
  <1>1. AskedNodes' = AskedNodes /\ PrintedNodes' = PrintedNodes
    BY SameImage DEF PrintedNodes
  <1> QED  BY <1>1 DEF PrintedUpTo, InOrder

LEMMA LinesStayRight ==
    ASSUME LinesAreRight, UNCHANGED <<image, imageLines>>
    PROVE  LinesAreRight'
  <1>1. AskedNodes' = AskedNodes
    BY SameImage
  <1>2. ASSUME NEW n \in DOMAIN imageLines
        PROVE  IsLineOf(imageLines[n], imageLines[n].tag, imageLines[n].node)'
    <2>1. IsLineOf(imageLines[n], imageLines[n].tag, imageLines[n].node)
      BY DEF LinesAreRight
    <2>2. PICK line : line = imageLines[n]
      OBVIOUS
    <2>3. IsLineOf(line, line.tag, line.node)'
      BY <2>1, <2>2 DEF IsLineOf
    <2> QED  BY <2>2, <2>3 DEF IsLineOf
  <1>3. DOMAIN imageLines' = DOMAIN imageLines
    OBVIOUS
  <1> QED  BY <1>1, <1>2, <1>3 DEF LinesAreRight, InOrder

\* A tag is passed over whose nodes are not to be printed, or are all printed.
LEMMA TagPassed ==
    ASSUME image \in Images, tagAt \in 1 .. Len(image.tags), NEW u \in Nat, PrintedUpTo(<<tagAt, u>>),
           UNCHANGED <<image, imageLines>>, tagAt' = tagAt + 1,
           TreeAskedFor(tagAt) => u > Len(Parts)
    PROVE  PrintedUpTo(<<tagAt, 0>>)'
  <1>1. PICK t \in 1 .. Len(image.tags) : t = tagAt
    OBVIOUS
  <1>2. Len(image.tags) \in Nat /\ (TreeAskedFor(t) => Len(image.tags[t].tree) < u) /\ PrintedUpTo(<<t, u>>)
    <2>1. Len(image.tags[t].tree) \in Nat
      BY TagsAre DEF ArePartsOf
    <2> QED  BY <1>1, <2>1, TagsAre DEF Parts, theTag
  <1>3. \A b \in AskedNodes : InOrder(b, <<t, u>>) <=> InOrder(b, <<t + 1, 0>>)
    <2> TAKE b \in AskedNodes
    <2>1. /\ b[1] \in 1 .. Len(image.tags) /\ TreeAskedFor(b[1]) /\ b[2] \in 1 .. Len(image.tags[b[1]].tree)
      BY AskedAre
    <2>2. b[1] = t => b[2] < u
      BY <1>2, <2>1
    <2>3. b[1] \in Nat /\ b[2] \in Nat
      BY <1>2, <2>1
    <2>4. t \in Nat
      BY <1>2
    <2> QED  BY <2>2, <2>3, <2>4 DEF InOrder
  <1>4. PICK y : y = <<t + 1, 0>>
    OBVIOUS
  <1>5. PrintedUpTo(y)'
    BY <1>2, <1>3, <1>4, UpToToo
  <1>6. <<tagAt, 0>>' = y
    BY <1>1, <1>4
  <1> QED  BY <1>5, <1>6 DEF PrintedUpTo

\* What holds of a tree and its tag while it is dumped.
LEMMA TreeIs ==
    ASSUME image \in Images, AllTrees, tagAt \in 1 .. Len(image.tags), TreeAskedFor(tagAt)
    PROVE  /\ ArePartsOf(Parts) /\ Len(Parts) \in Nat /\ DOMAIN Parts = 1 .. Len(Parts) /\ IsTree(Parts)
           /\ theTag.kind = "data" /\ image.magic /\ tagAt \in Nat /\ Len(image.tags) \in Nat
           /\ NodesOf(Parts) \subseteq 1 .. Len(Parts)
           /\ \A k \in 1 .. Len(Parts) : Parts[k].part = "node" <=> k \in NodesOf(Parts)
  <1>1. ArePartsOf(Parts) /\ Len(image.tags) \in Nat /\ DOMAIN image.tags = 1 .. Len(image.tags)
        /\ \A k \in 1 .. Len(Parts) : Parts[k].part \in {"node", "property"}
    BY TagsAre DEF Parts, theTag
  <1>2. theTag.kind = "data" /\ image.magic /\ tagAt \in Nat
    BY <1>1 DEF TreeAskedFor, theTag
  <1>3. IsTree(Parts)
    BY <1>1, <1>2 DEF AllTrees, Parts, theTag
  <1> QED  BY <1>1, <1>2, <1>3 DEF ArePartsOf, NodesOf

LEMMA TypeIsStill ==
    ASSUME NEW t, image' = image, tagAt' = t
    PROVE  TypeBefore(tagAt)' = TypeBefore(t)
  BY DEF TypeBefore

\* A tag whose tree is not dumped.
LEMMA PassingKeeps ==
    ASSUME ImagineInv, AllTrees, imagine = "tags", tagAt \in 1 .. Len(image.tags), ~TreeAskedFor(tagAt),
           UNCHANGED <<image, imagine, treeCalls, imageLines>>, tagAt' = tagAt + 1,
           imageType' = IF theTag.kind = "type" THEN theTag.dtre ELSE imageType
    PROVE  ImagineInv'
  <1>1. image \in Images /\ ImagineTypes /\ LinesAreRight /\ image.magic /\ PrintedUpTo(<<tagAt, 0>>)
        /\ imageType = TypeBefore(tagAt)
    BY DEF ImagineInv
  <1>2. ImagineTypes'
    BY <1>1 DEF ImagineTypes
  <1>3. PrintedUpTo(<<tagAt, 0>>)'
    BY <1>1, TagPassed
  <1>4. LinesAreRight'
    BY <1>1, LinesStayRight
  <1>5. imageType' = TypeBefore(tagAt)'
    <2>1. PICK t \in 1 .. Len(image.tags) : t = tagAt
      OBVIOUS
    <2>2. PICK m : m = t + 1
      OBVIOUS
    <2>3. imageType' = TypeBefore(m)
      BY <1>1, <2>1, <2>2, TypeOn DEF theTag
    <2>4. TypeBefore(tagAt)' = TypeBefore(m)
      BY <2>1, <2>2, TypeIsStill
    <2> QED  BY <2>3, <2>4
  <1> QED  BY <1>1, <1>2, <1>3, <1>4, <1>5 DEF ImagineInv

LEMMA OutsideKeeps ==
    ASSUME ImagineInv, AllTrees, UNCHANGED <<image, tagAt, imageType, treeCalls, imageLines>>,
           imagine \notin {"tree", "crashed"}, imagine' \in {"tags", "done", "failed", "stuck"},
           imagine' # "failed" => image.magic, imagine' = "done" => tagAt = Len(image.tags) + 1
    PROVE  ImagineInv'
  <1>1. image \in Images /\ ImagineTypes /\ LinesAreRight /\ PrintedUpTo(<<tagAt, 0>>)
        /\ imageType = TypeBefore(tagAt)
    BY DEF ImagineInv
  <1>2. ImagineTypes' /\ LinesAreRight'
    BY <1>1, LinesStayRight DEF ImagineTypes
  <1>3. PrintedUpTo(<<tagAt, 0>>)'
    <2>1. AskedNodes' = AskedNodes /\ PrintedNodes' = PrintedNodes
      BY SameImage DEF PrintedNodes
    <2> QED  BY <1>1, <2>1 DEF PrintedUpTo, InOrder
  <1>4. imageType' = TypeBefore(tagAt)'
    BY <1>1, TypeIsStill
  <1> QED  BY <1>1, <1>2, <1>3, <1>4 DEF ImagineInv

\* doData begins with the root of a tree.
LEMMA RootKeeps ==
    ASSUME ImagineInv, AllTrees, imagine = "tags", tagAt \in 1 .. Len(image.tags), TreeAskedFor(tagAt),
           UNCHANGED <<image, tagAt, imageType, imageLines>>, imagine' = "tree", treeCalls' = <<TreeCall(1, 1)>>
    PROVE  ImagineInv'
  <1>0. PICK c : c = TreeCall(1, 1)
    OBVIOUS
  <1>1. image \in Images /\ ImagineTypes /\ LinesAreRight /\ PrintedUpTo(<<tagAt, 0>>)
        /\ imageType = TypeBefore(tagAt) /\ image.magic
    BY DEF ImagineInv
  <1>2. /\ ArePartsOf(Parts) /\ Len(Parts) \in Nat /\ DOMAIN Parts = 1 .. Len(Parts) /\ IsTree(Parts)
        /\ \A k \in 1 .. Len(Parts) : Parts[k].part = "node" <=> k \in NodesOf(Parts)
        /\ tagAt \in Nat /\ Len(image.tags) \in Nat
    BY <1>1, TreeIs
  <1>3. 1 \in NodesOf(Parts) /\ 1 \in 1 .. Len(Parts) /\ IsNodeOf(Parts, 1) /\ Parts[1].depth = 0 /\ 2 \in 1 .. Len(Parts) + 1
    <2>1. 1 \in NodesOf(Parts) /\ IsNodeOf(Parts, 1)
      BY <1>2 DEF IsTree
    <2>2. 1 \in 1 .. Len(Parts)
      BY <1>2, <2>1 DEF NodesOf
    <2> QED  BY <1>2, <2>1, <2>2 DEF IsNodeOf
  <1>4. PartBegin[1] + NodeSize = PartBegin[2] /\ PartBegin[2] \in Nat
    <2>1. PartBegin[1 + 1] = PartBegin[1] + RoomOf(Parts[1])
      BY <1>1, <1>3, PartsBegin
    <2>2. RoomOf(Parts[1]) = NodeSize
      BY <1>2, <1>3 DEF RoomOf
    <2>3. PartBegin[2] \in Nat
      BY <1>1, <1>3, PartsBegin
    <2> QED  BY <2>1, <2>2, <2>3
  <1>5. Parts[1].children = Rest(Parts, 2, 1) /\ Parts[1].properties \in Nat /\ Parts[1].children \in Nat
    BY <1>2, <1>3 DEF IsNodeOf, Rest, ArePartsOf
  <1>6. /\ c.node = 1 /\ c.indent = 1 /\ c.properties = Parts[1].properties /\ c.children = Parts[1].children
        /\ c.dtp = PartBegin[2] /\ c.offset = NoPlace /\ c.name = Garbage /\ c.values = <<>> /\ c.named = FALSE
    BY <1>0, <1>4 DEF TreeCall
  <1>7. c \in DumpCall
    <2>1. <<>> \in Seq(ShownValue)
      BY EmptySeq
    <2>2. c = [node |-> 1, indent |-> 1, properties |-> Parts[1].properties, children |-> Parts[1].children,
               dtp |-> PartBegin[2], offset |-> NoPlace, name |-> Garbage, values |-> <<>>, named |-> FALSE]
      BY <1>0, <1>4 DEF TreeCall
    <2>3. NoPlace \in Int /\ Garbage \in Nat
      BY DEF NoPlace, Garbage
    <2> QED  BY <1>4, <1>5, <2>1, <2>2, <2>3 DEF DumpCall
  <1>8. treeCalls' \in Seq(DumpCall) /\ Len(treeCalls') = 1 /\ treeCalls'[1] = c
    <2>1. \A x \in DumpCall : <<x>> \in Seq(DumpCall) /\ Len(<<x>>) = 1 /\ <<x>>[1] = x
      OBVIOUS
    <2>2. treeCalls' = <<c>>
      BY <1>0
    <2> QED  BY <1>7, <2>1, <2>2
  <1>9. Parts' = Parts /\ PartBegin' = PartBegin /\ AskedNodes' = AskedNodes /\ PrintedNodes' = PrintedNodes
    BY SameImage DEF PrintedNodes
  <1>10. DumpsAt(2)'
    <2>1. \A i \in 1 .. 1 : i = 1
      OBVIOUS
    <2>2. 1 - 1 + 1 = 1 /\ 1 < 2 /\ ~(1 > 1) /\ 1 - 1 = 0
      OBVIOUS
    <2>3. ASSUME NEW i \in 1 .. 1
          PROVE  /\ treeCalls'[i].node \in NodesOf(Parts) /\ treeCalls'[i].node < 2
                 /\ Parts[treeCalls'[i].node].depth = 1 - i /\ treeCalls'[i].indent = 1 - i + 1
                 /\ treeCalls'[i].children = Rest(Parts, 2, 1 - i + 1)
                 /\ i > 1 => treeCalls'[i].named /\ treeCalls'[i].properties = 0
      <3>1. i = 1
        BY <2>1
      <3> QED  BY <1>3, <1>5, <1>6, <1>8, <2>2, <3>1
    <2> QED  BY <1>8, <1>9, <2>3 DEF DumpsAt
  <1>11. Copying(c, 2)'
    <2>1. c.node + 1 + Len(c.values) = 2 /\ c.properties + Len(c.values) = Parts[1].properties /\ Len(c.values) = 0
      BY <1>5, <1>6
    <2>2. NamesUpTo(c, 2)' = {}
      <3>1. \A i \in 1 + 1 .. 2 - 1 : FALSE
        OBVIOUS
      <3> QED  BY <1>6, <3>1 DEF NamesUpTo
    <2>3. \A i \in 1 .. 0 : FALSE
      OBVIOUS
    <2> QED  BY <1>6, <1>9, <2>1, <2>2, <2>3 DEF Copying
  <1>12. PrintedUpTo(<<tagAt, 1>>)'
    <2>1. PICK t \in 1 .. Len(image.tags) : t = tagAt
      OBVIOUS
    <2>2. PICK y : y = <<t, 1>>
      OBVIOUS
    <2>3. PrintedUpTo(<<t, 0>>)
      BY <1>1, <2>1
    <2>4. \A b \in AskedNodes : InOrder(b, <<t, 0>>) <=> InOrder(b, <<t, 1>>)
      <3> TAKE b \in AskedNodes
      <3>1. b[1] \in 1 .. Len(image.tags) /\ b[2] \in 1 .. Len(image.tags[b[1]].tree)
        BY <1>1, AskedAre
      <3>2. b[2] \in Nat \ {0} /\ b[1] \in Nat /\ t \in Nat
        BY <1>1, <1>2, <3>1, TagsAre DEF ArePartsOf
      <3> QED  BY <3>2 DEF InOrder
    <2>5. PrintedUpTo(y)'
      BY <2>2, <2>3, <2>4, UpToToo
    <2>6. <<tagAt, 1>>' = y
      BY <2>1, <2>2
    <2> QED  BY <2>5, <2>6 DEF PrintedUpTo
  <1>13. TreeAskedFor(tagAt)'
    BY DEF TreeAskedFor
  <1>14. InTheTree(2)'
    <2>1. ~treeCalls'[1].named /\ treeCalls'[1].node = 1 /\ treeCalls'[1] = c
      BY <1>6, <1>8
    <2>2. Copying(treeCalls[1], 2)'
      BY <1>11, <2>1 DEF Copying, NamesUpTo
    <2>3. PrintedUpTo(<<tagAt, treeCalls[1].node>>)'
      BY <1>12, <2>1 DEF PrintedUpTo
    <2> QED  BY <1>8, <1>10, <1>13, <2>1, <2>2, <2>3 DEF InTheTree
  <1>15. ImagineTypes' /\ LinesAreRight' /\ imageType' = TypeBefore(tagAt)'
    BY <1>1, <1>8, LinesStayRight DEF ImagineTypes, TypeBefore
  <1> QED  BY <1>1, <1>3, <1>9, <1>14, <1>15 DEF ImagineInv

\* The call that is about to take the part k.
LEMMA CallIs ==
    ASSUME image \in Images, AllTrees, ImagineTypes, NEW k \in 1 .. Len(Parts) + 1, InTheTree(k), NEW h, h = Len(treeCalls),
           NEW c, c = treeCalls[1]
    PROVE  /\ h \in Nat \ {0} /\ call = c /\ c \in DumpCall /\ k \in Nat /\ Len(Parts) \in Nat
           /\ c.properties \in Nat /\ c.children \in Nat /\ c.named \in BOOLEAN /\ c.values \in Seq(ShownValue)
           /\ Len(c.values) \in Nat /\ c.name \in Nat /\ c.offset \in Int
           /\ c.node \in NodesOf(Parts) /\ c.node \in 1 .. Len(Parts) /\ IsNodeOf(Parts, c.node) /\ c.node < k
           /\ Parts[c.node].depth = h - 1 /\ c.indent = h /\ c.children = Rest(Parts, k, h)
           /\ Parts[c.node].properties \in Nat
           /\ c.named => Between(c, k) /\ PrintedUpTo(<<tagAt, k>>)
           /\ ~c.named => Copying(c, k) /\ PrintedUpTo(<<tagAt, c.node>>)
  <1>1. /\ ArePartsOf(Parts) /\ Len(Parts) \in Nat /\ IsTree(Parts) /\ NodesOf(Parts) \subseteq 1 .. Len(Parts)
    BY TreeIs DEF InTheTree
  <1>2. h \in Nat \ {0} /\ call = c /\ c \in DumpCall /\ k \in Nat
    <2>1. treeCalls \in Seq(DumpCall) /\ h > 0
      BY DEF ImagineTypes, InTheTree
    <2>2. h \in Nat /\ 1 \in 1 .. h /\ \A i \in 1 .. h : treeCalls[i] \in DumpCall
      BY <2>1, ElementOfSeq
    <2>3. Head(treeCalls) = treeCalls[1]
      BY <2>1, HeadTailProperties
    <2> QED  BY <1>1, <2>1, <2>2, <2>3 DEF call
  <1>3. /\ c.node \in NodesOf(Parts) /\ c.node < k /\ Parts[c.node].depth = h - 1 /\ c.indent = h - 1 + 1
        /\ c.children = Rest(Parts, k, h - 1 + 1)
    <2>1. 1 \in 1 .. h
      BY <1>2
    <2> QED  BY <2>1 DEF InTheTree, DumpsAt
  <1>4. h - 1 + 1 = h
    BY <1>2
  <1>5. /\ c.properties \in Nat /\ c.children \in Nat /\ c.named \in BOOLEAN /\ c.values \in Seq(ShownValue)
        /\ c.name \in Nat /\ c.offset \in Int /\ Len(c.values) \in Nat
    BY <1>2 DEF DumpCall
  <1>6. IsNodeOf(Parts, c.node) /\ c.node \in 1 .. Len(Parts) /\ Parts[c.node].properties \in Nat
    BY <1>1, <1>3 DEF IsTree, ArePartsOf
  <1>7. /\ c.named => Between(c, k) /\ PrintedUpTo(<<tagAt, k>>)
        /\ ~c.named => Copying(c, k) /\ PrintedUpTo(<<tagAt, c.node>>)
    BY DEF InTheTree
  <1> QED  BY <1>1, <1>2, <1>3, <1>4, <1>5, <1>6, <1>7

\* While there are properties to read, the next part is one.
LEMMA PropertyIsNext ==
    ASSUME image \in Images, AllTrees, ImagineTypes, NEW k \in 1 .. Len(Parts) + 1, InTheTree(k),
           NEW c, c = treeCalls[1], c.properties > 0
    PROVE  /\ ~c.named /\ Copying(c, k) /\ PrintedUpTo(<<tagAt, c.node>>)
           /\ k \in 1 .. Len(Parts) /\ k \notin NodesOf(Parts) /\ Parts[k].part = "property"
           /\ PartsAt(c.dtp, "property") = {k}
  <1>0. PICK h : h = Len(treeCalls)
    OBVIOUS
  <1>1. /\ k \in Nat /\ Len(Parts) \in Nat /\ c.properties \in Nat /\ Len(c.values) \in Nat
        /\ c.node \in 1 .. Len(Parts) /\ IsNodeOf(Parts, c.node)
    <2>1. k \in Nat /\ Len(Parts) \in Nat /\ c.properties \in Nat
      BY <1>0, CallIs
    <2>2. Len(c.values) \in Nat /\ c.node \in 1 .. Len(Parts) /\ IsNodeOf(Parts, c.node)
      BY <1>0, CallIs
    <2> QED  BY <2>1, <2>2
  <1>2. ~c.named
    <2> SUFFICES ASSUME c.named PROVE FALSE
      OBVIOUS
    <2>1. Between(c, k)
      BY <1>0, CallIs
    <2> QED  BY <2>1 DEF Between
  <1>3. Copying(c, k) /\ PrintedUpTo(<<tagAt, c.node>>)
    BY <1>0, <1>2, CallIs
  <1>4. DOMAIN Parts = 1 .. Len(Parts) /\ tagAt \in 1 .. Len(image.tags)
    BY TreeIs DEF InTheTree
  <1>5. k \in PropertiesOf(Parts)
    <2>1. k = c.node + 1 + Len(c.values) /\ c.properties + Len(c.values) = Parts[c.node].properties
      BY <1>3 DEF Copying
    <2>2. PICK b : b = Behind(Parts, c.node)
      OBVIOUS
    <2>3. b = c.node + Parts[c.node].properties + 1
      BY <2>2 DEF Behind
    <2>4. \A i \in c.node + 1 .. b - 1 : i \in PropertiesOf(Parts)
      BY <1>1, <2>2 DEF IsNodeOf
    <2>5. k \in c.node + 1 .. b - 1
      <3>1. PICK n, p, q : n = c.node /\ p = Len(c.values) /\ q = c.properties
        OBVIOUS
      <3>2. n \in Nat /\ p \in Nat /\ q \in Nat /\ q > 0
        BY <1>1, <3>1
      <3>3. k = n + 1 + p /\ b = n + (q + p) + 1
        BY <2>1, <2>3, <3>1
      <3>4. k \in n + 1 .. b - 1
        BY <3>2, <3>3
      <3> QED  BY <3>1, <3>4
    <2> QED  BY <2>4, <2>5
  <1>6. k \in 1 .. Len(Parts) /\ k \notin NodesOf(Parts) /\ Parts[k].part = "property"
    BY <1>1, <1>4, <1>5 DEF PropertiesOf, NodesOf
  <1>7. PartsAt(c.dtp, "property") = {k}
    <2>1. c.dtp = PartBegin[k]
      BY <1>3 DEF Copying
    <2> QED  BY <1>4, <1>6, <2>1, PartIsAt
  <1> QED  BY <1>2, <1>3, <1>6, <1>7

\* While there are children to call for, the next part is one.
LEMMA NodeIsNext ==
    ASSUME image \in Images, AllTrees, ImagineTypes, NEW k \in 1 .. Len(Parts) + 1, InTheTree(k),
           NEW c, c = treeCalls[1], c.named, c.children > 0
    PROVE  /\ Between(c, k) /\ PrintedUpTo(<<tagAt, k>>)
           /\ k \in 1 .. Len(Parts) /\ k \in NodesOf(Parts) /\ Parts[k].depth = Len(treeCalls)
           /\ PartsAt(PartBegin[k], "node") = {k}
  <1>0. PICK h, ps : h = Len(treeCalls) /\ ps = Parts
    OBVIOUS
  <1>1. h \in Nat /\ k \in Nat /\ Len(ps) \in Nat /\ c.children = Rest(ps, k, h)
    <2>1. h \in Nat /\ k \in Nat /\ Len(Parts) \in Nat
      BY <1>0, CallIs
    <2>2. c.children = Rest(Parts, k, h)
      BY <1>0, CallIs
    <2> QED  BY <1>0, <2>1, <2>2
  <1>2. Between(c, k) /\ PrintedUpTo(<<tagAt, k>>)
    BY <1>0, CallIs
  <1>3. /\ ArePartsOf(ps) /\ tagAt \in 1 .. Len(image.tags)
        /\ \A j \in 1 .. Len(ps) : ps[j].part = "node" <=> j \in NodesOf(ps)
    BY <1>0, TreeIs DEF InTheTree
  <1>4. /\ Cardinality(Beside(ps, k, h)) = 0 <=> Beside(ps, k, h) = {}
        /\ k > Len(ps) => Beside(ps, k, h) = {}
    <2>1. ArePartsOf(ps) /\ k \in Nat /\ h \in Nat
      BY <1>1, <1>3
    <2> QED  BY <2>1, BesideFinite
  <1>5. Beside(ps, k, h) # {}
    <2>1. Rest(ps, k, h) # 0
      BY <1>1
    <2> QED  BY <1>4, <2>1 DEF Rest
  <1>6. k \in 1 .. Len(ps)
    <2>1. ~(k > Len(ps)) /\ k \in 1 .. Len(ps) + 1
      BY <1>0, <1>4, <1>5
    <2> QED  BY <1>1, <2>1
  <1>7. k \in NodesOf(ps) /\ ps[k].depth = h
    <2>1. k \in NodesOf(ps) /\ ps[k].depth <= h
      BY <1>0, <1>2, <1>6 DEF Between
    <2>2. ps[k].depth \in Nat
      BY <1>3, <1>6 DEF ArePartsOf
    <2>3. ~(ps[k].depth < h)
      BY <1>1, <1>3, <1>5, <1>6, <2>1, BesideFrom
    <2> QED  BY <1>1, <2>1, <2>2, <2>3
  <1>8. PartsAt(PartBegin[k], "node") = {k}
    <2>1. k \in 1 .. Len(Parts) /\ Parts[k].part = "node"
      BY <1>0, <1>3, <1>6, <1>7
    <2> QED  BY <1>3, <2>1, PartIsAt
  <1> QED  BY <1>0, <1>2, <1>6, <1>7, <1>8

LEMMA DumpPropertyKeeps ==
    ASSUME image \in Images, AllTrees, ImagineTypes, NEW k \in 1 .. Len(Parts) + 1, InTheTree(k), DumpProperty,
           NEW m, m = k + 1
    PROVE  treeCalls' \in Seq(DumpCall) /\ m \in 1 .. Len(Parts) + 1 /\ InTheTree(m)'
  <1>0. PICK h, c : h = Len(treeCalls) /\ c = treeCalls[1]
    OBVIOUS
  <1>1. /\ h \in Nat \ {0} /\ call = c /\ c \in DumpCall /\ k \in Nat /\ Len(Parts) \in Nat
        /\ c.properties \in Nat /\ c.children \in Nat /\ c.values \in Seq(ShownValue)
        /\ Len(c.values) \in Nat /\ c.name \in Nat
        /\ c.node \in NodesOf(Parts) /\ c.node \in 1 .. Len(Parts) /\ IsNodeOf(Parts, c.node) /\ c.node < k
        /\ Parts[c.node].properties \in Nat
    <2>1. h \in Nat /\ h # 0 /\ call = c /\ k \in Nat /\ Len(Parts) \in Nat
      BY <1>0, CallIs
    <2>2. c \in DumpCall /\ c.properties \in Nat /\ c.children \in Nat /\ c.values \in Seq(ShownValue)
      BY <1>0, CallIs
    <2>3. Len(c.values) \in Nat /\ c.name \in Nat /\ c.node < k /\ c.node \in 1 .. Len(Parts)
      BY <1>0, CallIs
    <2>4. c.node \in NodesOf(Parts) /\ IsNodeOf(Parts, c.node) /\ Parts[c.node].properties \in Nat
      BY <1>0, CallIs
    <2> QED  BY <2>1, <2>2, <2>3, <2>4
  <1>2. /\ c.properties > 0 /\ ~c.named /\ Copying(c, k) /\ PrintedUpTo(<<tagAt, c.node>>)
        /\ k \in 1 .. Len(Parts) /\ k \notin NodesOf(Parts) /\ Parts[k].part = "property"
        /\ PartsAt(c.dtp, "property") = {k}
    <2>1. c.properties > 0
      BY <1>1 DEF DumpProperty
    <2> QED  BY <1>0, <2>1, PropertyIsNext
  <1>3. /\ ArePartsOf(Parts) /\ tagAt \in 1 .. Len(image.tags) /\ TreeAskedFor(tagAt)
    BY TreeIs DEF InTheTree
  <1>4. k \in 1 .. Len(Parts) /\ k \notin NodesOf(Parts) /\ Parts[k].part = "property" /\ m \in 1 .. Len(Parts) + 1
    BY <1>1, <1>2
  <1>5. PICK behind, v : /\ behind = Up4(c.dtp + PropertySize + Parts[k].length)
                         /\ v = [property |-> k, value |-> copyValue(k)]
    OBVIOUS
  <1>6. behind = PartBegin[m] /\ behind \in Nat /\ behind # NoPlace
    <2>1. c.dtp = PartBegin[k] /\ PartBegin[k] \in Nat /\ PartBegin[k] % 4 = 0
      BY <1>2, <1>3, PartsBegin DEF Copying
    <2>2. Parts[k].length \in Nat
      BY <1>3, <1>4, TagsAre DEF Parts, theTag
    <2>3. behind = PartBegin[k] + (PropertySize + Up4(Parts[k].length))
      BY <1>5, <2>1, <2>2, RoundedIs
    <2>4. RoomOf(Parts[k]) = PropertySize + Up4(Parts[k].length)
      BY <1>4 DEF RoomOf
    <2>5. PartBegin[m] = PartBegin[k] + RoomOf(Parts[k]) /\ PartBegin[m] \in Nat
      BY <1>3, <1>4, PartsBegin
    <2> QED  BY <2>3, <2>4, <2>5 DEF NoPlace
  <1>7. /\ v.property = k /\ v \in ShownValue /\ (Parts[k].length % 4 # 0 => v.value # "(null)")
    <2>1. copyValue(k) \in {"own", "mixed", "(null)"} /\ (Parts[k].length % 4 # 0 => copyValue(k) # "(null)")
      BY DEF copyValue, ZeroBehind
    <2> QED  BY <1>1, <1>5, <2>1 DEF ShownValue
  <1>8. PICK values : values = Append(c.values, v)
    OBVIOUS
  <1>9. /\ values \in Seq(ShownValue) /\ Len(values) = Len(c.values) + 1 /\ values[Len(c.values) + 1] = v
        /\ \A i \in 1 .. Len(c.values) : values[i] = c.values[i]
        /\ values # <<>>
    <2>1. \A x : Append(c.values, x)[Len(c.values) + 1] = x
      BY <1>1, AppendProperties
    <2>2. values \in Seq(ShownValue) /\ Len(values) = Len(c.values) + 1 
      BY <1>1, <1>7, <1>8, AppendProperties
    <2>3. \A i \in 1 .. Len(c.values) : values[i] = c.values[i]
      BY <1>1, <1>7, <1>8, AppendProperties
    <2>4. values # <<>>
      BY <1>1, <2>2
    <2> QED  BY <1>8, <2>1, <2>2, <2>3, <2>4
  <1>10. PICK name : name = IF Parts[k].named THEN k ELSE c.name
    OBVIOUS
  <1>11. PICK d : d = [c EXCEPT !.properties = @ - 1, !.dtp = behind, !.offset = behind, !.name = name, !.values = values]
    OBVIOUS
  <1>12. /\ d.node = c.node /\ d.indent = c.indent /\ d.children = c.children /\ d.named = c.named
         /\ d.properties = c.properties - 1 /\ d.dtp = behind /\ d.offset = behind /\ d.name = name /\ d.values = values
         /\ d \in DumpCall
    <2>1. name \in Nat /\ behind \in Int /\ c.properties - 1 \in Nat
      <3>1. c.properties - 1 \in Nat
        BY <1>1, <1>2
      <3>2. name \in Nat
        BY <1>1, <1>10
      <3> QED  BY <1>6, <3>1, <3>2
    <2> QED  BY <1>1, <1>6, <1>9, <1>11, <2>1 DEF DumpCall
  <1>13. treeCalls' = [treeCalls EXCEPT ![1] = d] /\ UNCHANGED <<image, imagine, tagAt, imageType, imageLines>>
    <2>1. PartsAt(c.dtp, "property") = {k}
      BY <1>2
    <2>2. treeCalls' = [treeCalls EXCEPT ![1] =
             [c EXCEPT !.properties = @ - 1, !.dtp = behind, !.offset = behind,
                       !.name = IF Parts[k].named THEN k ELSE @, !.values = Append(@, v)]]
      BY <1>1, <1>5, <2>1 DEF DumpProperty
    <2>3. treeCalls' = [treeCalls EXCEPT ![1] =
             [c EXCEPT !.properties = @ - 1, !.dtp = behind, !.offset = behind, !.name = name, !.values = values]]
      BY <1>8, <1>10, <2>2
    <2> QED  BY <1>11, <2>3 DEF DumpProperty
  <1>14. /\ treeCalls' \in Seq(DumpCall) /\ Len(treeCalls') = h /\ treeCalls'[1] = d
         /\ \A i \in 2 .. h : treeCalls'[i] = treeCalls[i]
    BY <1>0, <1>1, <1>12, <1>13, CallChanges DEF ImagineTypes
  <1>15. Parts' = Parts /\ PartBegin' = PartBegin /\ AskedNodes' = AskedNodes /\ PrintedNodes' = PrintedNodes
    BY <1>13, SameImage DEF PrintedNodes
  <1>16. DumpsAt(m)'
    <2>1. ASSUME NEW i \in 1 .. h
          PROVE  /\ treeCalls'[i].node \in NodesOf(Parts) /\ treeCalls'[i].node < m
                 /\ Parts[treeCalls'[i].node].depth = h - i /\ treeCalls'[i].indent = h - i + 1
                 /\ treeCalls'[i].children = Rest(Parts, m, h - i + 1)
                 /\ i > 1 => treeCalls'[i].named /\ treeCalls'[i].properties = 0
      <3>1. /\ treeCalls[i].node \in NodesOf(Parts) /\ treeCalls[i].node < k
            /\ Parts[treeCalls[i].node].depth = h - i /\ treeCalls[i].indent = h - i + 1
            /\ treeCalls[i].children = Rest(Parts, k, h - i + 1)
            /\ i > 1 => treeCalls[i].named /\ treeCalls[i].properties = 0
        BY <1>0 DEF InTheTree, DumpsAt
      <3>2. Rest(Parts, m, h - i + 1) = Rest(Parts, k, h - i + 1)
        <4>1. h - i + 1 \in Nat
          BY <1>1
        <4> QED  BY <1>3, <1>4, <4>1, BesideNext DEF Rest
      <3>3. treeCalls[i].node < m
        <4>1. treeCalls[i].node \in Nat
          BY <1>1, <1>3, <3>1, SMTT(30) DEF NodesOf
        <4> QED  BY <1>1, <3>1, <4>1
      <3>4. CASE i = 1
        BY <1>0, <1>12, <1>14, <3>1, <3>2, <3>3, <3>4
      <3>5. CASE i # 1
        <4>1. i \in 2 .. h
          BY <3>5
        <4> QED  BY <1>14, <3>1, <3>2, <3>3, <4>1
      <3> QED  BY <3>4, <3>5
    <2> QED  BY <1>14, <1>15, <2>1 DEF DumpsAt
  <1>17. Copying(d, m)'
    <2>1. d.node + 1 + Len(d.values) = m /\ d.properties + Len(d.values) = Parts[d.node].properties
      <3>1. c.node + 1 + Len(c.values) = k /\ c.properties + Len(c.values) = Parts[c.node].properties
        BY <1>2 DEF Copying
      <3>2. PICK a, b, e : a = c.node /\ b = Len(c.values) /\ e = c.properties
        OBVIOUS
      <3>3. a \in Nat /\ b \in Nat /\ e \in Nat
        BY <1>1, <3>2
      <3>4. d.node = a /\ d.properties = e - 1 /\ Len(d.values) = b + 1
        BY <1>9, <1>12, <3>2
      <3>5. k = a + 1 + b /\ e + b = Parts[a].properties
        BY <3>1, <3>2
      <3>6. a + 1 + (b + 1) = m /\ (e - 1) + (b + 1) = e + b
        BY <3>3, <3>5
      <3> QED  BY <3>4, <3>5, <3>6
    <2>2. /\ \A i \in d.node + 1 .. m - 1 : i = k \/ i \in c.node + 1 .. k - 1
          /\ k \in d.node + 1 .. m - 1 /\ \A i \in c.node + 1 .. k - 1 : i \in d.node + 1 .. m - 1 /\ i <= k
          /\ k <= k
      BY <1>1, <1>12
    <2>3. PICK names : names = NamesUpTo(c, k)
      OBVIOUS
    <2>4. IF names = {} THEN c.name = Garbage ELSE c.name \in names /\ \A i \in names : i <= c.name
      BY <1>2, <2>3 DEF Copying
    <2>5. NamesUpTo(d, m)' = IF Parts[k].named THEN names \cup {k} ELSE names
      BY <1>15, <2>2, <2>3 DEF NamesUpTo
    <2>6. \A i \in names : i <= k
      BY <2>2, <2>3 DEF NamesUpTo
    <2>7. IF NamesUpTo(d, m)' = {} THEN d.name = Garbage
             ELSE d.name \in NamesUpTo(d, m)' /\ \A i \in NamesUpTo(d, m)' : i <= d.name
      BY <1>10, <1>12, <2>2, <2>4, <2>5, <2>6
    <2>8. ASSUME NEW i \in 1 .. Len(d.values)
          PROVE  /\ d.values[i].property = d.node + i
                 /\ Parts[d.node + i].length % 4 # 0 => d.values[i].value # "(null)"
      <3>1. i = Len(c.values) + 1 \/ i \in 1 .. Len(c.values)
        BY <1>1, <1>9, <1>12
      <3>2. CASE i = Len(c.values) + 1
        <4>1. d.node + i = k
          <5>1. k = c.node + 1 + Len(c.values)
            BY <1>2 DEF Copying
          <5>2. PICK a, b : a = c.node /\ b = Len(c.values)
            OBVIOUS
          <5>3. a \in Nat /\ b \in Nat /\ d.node = a
            BY <1>1, <1>12, <5>2
          <5>4. k = a + 1 + b /\ i = b + 1
            BY <3>2, <5>1, <5>2
          <5>5. a + (b + 1) = a + 1 + b
            BY <5>3
          <5> QED  BY <5>3, <5>4, <5>5
        <4>2. d.values[i] = v
          BY <1>9, <1>12, <3>2
        <4> QED  BY <1>7, <4>1, <4>2
      <3>3. CASE i \in 1 .. Len(c.values)
        <4>1. d.values[i] = c.values[i] /\ d.node = c.node
          BY <1>9, <1>12, <3>3
        <4> QED  BY <1>2, <3>3, <4>1 DEF Copying
      <3> QED  BY <3>1, <3>2, <3>3
    <2>9. d.dtp = PartBegin[m] /\ d.values # <<>> /\ d.offset = PartBegin[m]
      BY <1>6, <1>9, <1>12
    <2> QED  BY <1>15, <2>1, <2>7, <2>8, <2>9 DEF Copying
  <1>18. PrintedUpTo(<<tagAt, c.node>>)'
    BY <1>2, <1>13, <1>15 DEF PrintedUpTo, InOrder
  <1>19. InTheTree(m)'
    <2>1. ~treeCalls'[1].named /\ treeCalls'[1].node = c.node
      BY <1>2, <1>12, <1>14
    <2>2. Copying(treeCalls[1], m)'
      BY <1>14, <1>17 DEF Copying, NamesUpTo
    <2>3. PrintedUpTo(<<tagAt, treeCalls[1].node>>)'
      BY <1>18, <2>1 DEF PrintedUpTo
    <2>4. image' = image /\ tagAt' = tagAt
      BY <1>13
    <2>5. TreeAskedFor(tagAt)'
      BY <1>3, <2>4 DEF TreeAskedFor
    <2>6. tagAt' \in 1 .. Len(image'.tags) /\ Len(treeCalls') > 0
      BY <1>1, <1>3, <1>14, <2>4
    <2> QED  BY <1>16, <2>1, <2>2, <2>3, <2>5, <2>6 DEF InTheTree
  <1> QED  BY <1>4, <1>14, <1>19

LEMMA PrintNodeKeeps ==
    ASSUME image \in Images, AllTrees, ImagineTypes, LinesAreRight, NEW k \in 1 .. Len(Parts) + 1, InTheTree(k), PrintNode
    PROVE  treeCalls' \in Seq(DumpCall) /\ imageLines' \in Seq(NodeLine) /\ InTheTree(k)' /\ LinesAreRight'
  <1>0. PICK h, c, t, ps, n : h = Len(treeCalls) /\ c = treeCalls[1] /\ t = tagAt /\ ps = Parts /\ n = Len(imageLines)
    OBVIOUS
  <1>1. /\ h \in Nat /\ h # 0 /\ call = c /\ k \in Nat /\ Len(ps) \in Nat
        /\ c \in DumpCall /\ c.properties \in Nat /\ c.values \in Seq(ShownValue)
        /\ Len(c.values) \in Nat /\ c.name \in Nat /\ c.node < k /\ c.node \in 1 .. Len(ps)
        /\ c.node \in NodesOf(ps) /\ IsNodeOf(ps, c.node) /\ ps[c.node].properties \in Nat
    <2>1. h \in Nat /\ h # 0 /\ call = c /\ k \in Nat /\ Len(Parts) \in Nat
      BY <1>0, CallIs
    <2>2. c \in DumpCall /\ c.properties \in Nat /\ c.children \in Nat /\ c.values \in Seq(ShownValue)
      BY <1>0, CallIs
    <2>3. Len(c.values) \in Nat /\ c.name \in Nat /\ c.node < k /\ c.node \in 1 .. Len(Parts)
      BY <1>0, CallIs
    <2>4. c.node \in NodesOf(Parts) /\ IsNodeOf(Parts, c.node) /\ Parts[c.node].properties \in Nat
      BY <1>0, CallIs
    <2> QED  BY <1>0, <2>1, <2>2, <2>3, <2>4
  <1>2. ps[c.node].depth = h - 1 /\ c.indent = h
    BY <1>0, CallIs
  <1>3. /\ c.properties = 0 /\ ~c.named /\ UNCHANGED <<image, imagine, tagAt, imageType>>
        /\ treeCalls' = [treeCalls EXCEPT ![1].named = TRUE]
        /\ imageLines' = Append(imageLines,
             [tag |-> t, node |-> c.node, indent |-> c.indent, name |-> c.name, values |-> c.values])
    BY <1>0, <1>1 DEF PrintNode
  <1>4. Copying(c, k) /\ PrintedUpTo(<<t, c.node>>)
    BY <1>0, <1>3, CallIs
  <1>5. /\ ArePartsOf(ps) /\ DOMAIN ps = 1 .. Len(ps) /\ t \in 1 .. Len(image.tags) /\ TreeAskedFor(t) /\ t \in Nat
        /\ Parts' = ps /\ ps = image.tags[t].tree
    <2>1. Parts' = Parts
      BY <1>3, SameImage
    <2> QED  BY <1>0, <2>1, TreeIs DEF InTheTree, Parts, theTag
  \* All its properties have been read.
  <1>6. k = Behind(ps, c.node) /\ Len(c.values) = ps[c.node].properties
    <2>1. c.node + 1 + Len(c.values) = k /\ c.properties + Len(c.values) = ps[c.node].properties
      BY <1>0, <1>4 DEF Copying
    <2>2. PICK a, b : a = c.node /\ b = Len(c.values)
      OBVIOUS
    <2>3. a \in Nat /\ b \in Nat /\ 0 + b = b
      BY <1>1, <2>2
    <2>4. b = ps[c.node].properties /\ a + 1 + b = k
      BY <1>3, <2>1, <2>2, <2>3
    <2>5. a + 1 + b = a + b + 1
      BY <2>3
    <2> QED  BY <2>2, <2>4, <2>5 DEF Behind
  <1>7. PICK line : line = [tag |-> t, node |-> c.node, indent |-> c.indent, name |-> c.name, values |-> c.values]
    OBVIOUS
  <1>8. /\ line.tag = t /\ line.node = c.node /\ line.indent = c.indent /\ line.name = c.name /\ line.values = c.values
        /\ line \in NodeLine
    <2>1. c.indent \in Nat /\ c.node \in Nat
      BY <1>1, <1>2
    <2> QED  BY <1>1, <1>5, <1>7, <2>1 DEF NodeLine
  <1>9. /\ imageLines' \in Seq(NodeLine) /\ Len(imageLines') = n + 1 /\ DOMAIN imageLines' = 1 .. n + 1 /\ n \in Nat
        /\ imageLines'[n + 1] = line /\ \A i \in 1 .. n : imageLines'[i] = imageLines[i]
        /\ imageLines' # <<>>
    <2>1. imageLines \in Seq(NodeLine) /\ imageLines' = Append(imageLines, line)
      BY <1>3, <1>7 DEF ImagineTypes
    <2>2. imageLines' \in Seq(NodeLine) /\ Len(imageLines') = n + 1 /\ n \in Nat
      BY <1>0, <1>8, <2>1, AppendProperties
    <2>3. imageLines'[n + 1] = line /\ \A i \in 1 .. n : imageLines'[i] = imageLines[i]
      BY <1>0, <1>8, <2>1, AppendProperties
    <2>4. DOMAIN imageLines' = 1 .. n + 1
      BY <2>2, LenProperties
    <2> QED  BY <2>2, <2>3, <2>4
  <1>10. PICK d : d = [c EXCEPT !.named = TRUE]
    OBVIOUS
  <1>11. /\ d.node = c.node /\ d.indent = c.indent /\ d.children = c.children /\ d.named
         /\ d.properties = c.properties /\ d.offset = c.offset
         /\ d \in DumpCall
    BY <1>1, <1>10 DEF DumpCall
  <1>12. /\ treeCalls' \in Seq(DumpCall) /\ Len(treeCalls') = h /\ treeCalls'[1] = d
         /\ \A i \in 2 .. h : treeCalls'[i] = treeCalls[i]
    <2>1. treeCalls' = [treeCalls EXCEPT ![1] = d]
      BY <1>0, <1>3, <1>10
    <2> QED  BY <1>0, <1>1, <1>11, <2>1, CallChanges DEF ImagineTypes
  <1>13. DumpsAt(k)'
    <2>1. ASSUME NEW i \in 1 .. h
          PROVE  /\ treeCalls'[i].node \in NodesOf(ps) /\ treeCalls'[i].node < k
                 /\ ps[treeCalls'[i].node].depth = h - i /\ treeCalls'[i].indent = h - i + 1
                 /\ treeCalls'[i].children = Rest(ps, k, h - i + 1)
                 /\ i > 1 => treeCalls'[i].named /\ treeCalls'[i].properties = 0
      <3>1. /\ treeCalls[i].node \in NodesOf(ps) /\ treeCalls[i].node < k
            /\ ps[treeCalls[i].node].depth = h - i /\ treeCalls[i].indent = h - i + 1
            /\ treeCalls[i].children = Rest(ps, k, h - i + 1)
            /\ i > 1 => treeCalls[i].named /\ treeCalls[i].properties = 0
        BY <1>0 DEF InTheTree, DumpsAt
      <3>4. CASE i = 1
        BY <1>0, <1>11, <1>12, <3>1, <3>4
      <3>5. CASE i # 1
        <4>1. i \in 2 .. h
          BY <3>5
        <4> QED  BY <1>12, <3>1, <4>1
      <3> QED  BY <3>4, <3>5
    <2> QED  BY <1>5, <1>12, <2>1 DEF DumpsAt
  <1>14. <<t, c.node>> \in AskedNodes /\ AskedNodes' = AskedNodes
    BY <1>0, <1>1, <1>3, <1>5, AskedAre, SameImage
  <1>15. IsLineOf(line, t, c.node)
    <2>1. line.indent = ps[c.node].depth + 1
      BY <1>1, <1>2, <1>8
    <2>2. NamesUpTo(c, k) = {i \in c.node + 1 .. Behind(ps, c.node) - 1 : ps[i].named}
      BY <1>0, <1>6 DEF NamesUpTo
    <2>3. IF NamesUpTo(c, k) = {} THEN line.name = Garbage
             ELSE line.name \in NamesUpTo(c, k) /\ \A i \in NamesUpTo(c, k) : i <= line.name
      BY <1>4, <1>8 DEF Copying
    <2>4. \A i \in DOMAIN line.values :
             /\ line.values[i].property = c.node + i
             /\ ps[c.node + i].length % 4 # 0 => line.values[i].value # "(null)"
      <3>1. DOMAIN line.values = 1 .. Len(c.values)
        BY <1>1, <1>8, LenProperties
      <3> QED  BY <1>0, <1>4, <1>8, <3>1 DEF Copying
    <2> QED  BY <1>5, <1>6, <1>8, <2>1, <2>2, <2>3, <2>4 DEF IsLineOf
  \* The nodes before the next part are those before this one, and this one.
  <1>16. {b \in AskedNodes : InOrder(b, <<t, k>>)} = {b \in AskedNodes : InOrder(b, <<t, c.node>>)} \cup {<<t, c.node>>}
    <2>1. ASSUME NEW b \in AskedNodes
          PROVE  InOrder(b, <<t, k>>) <=> InOrder(b, <<t, c.node>>) \/ b = <<t, c.node>>
      <3>1. b[1] \in 1 .. Len(image.tags) /\ b[2] \in NodesOf(image.tags[b[1]].tree) /\ b = <<b[1], b[2]>>
            /\ b[2] \in 1 .. Len(image.tags[b[1]].tree)
        BY AskedAre
      <3>2. b[1] = t => b[2] \notin c.node + 1 .. k - 1
        <4> SUFFICES ASSUME b[1] = t, b[2] \in c.node + 1 .. k - 1 PROVE FALSE
          OBVIOUS
        <4>1. b[2] \in PropertiesOf(ps)
          BY <1>1, <1>6 DEF IsNodeOf
        <4> QED  BY <1>5, <3>1, <4>1 DEF NodesOf, PropertiesOf
      <3>3. b[1] = t => (b[2] < k <=> b[2] < c.node \/ b[2] = c.node)
        <4> SUFFICES ASSUME b[1] = t PROVE b[2] < k <=> b[2] < c.node \/ b[2] = c.node
          OBVIOUS
        <4>1. b[2] \in 1 .. Len(ps)
          BY <1>5, <3>1
        <4> QED  BY <1>1, <3>2, <4>1
      <3>4. b = <<t, c.node>> <=> b[1] = t /\ b[2] = c.node
        BY <3>1
      <3>5. InOrder(b, <<t, k>>) <=> (b[1] < t \/ (b[1] = t /\ b[2] < k))
        BY DEF InOrder
      <3>6. InOrder(b, <<t, c.node>>) <=> (b[1] < t \/ (b[1] = t /\ b[2] < c.node))
        BY DEF InOrder
      <3> QED  BY <3>3, <3>4, <3>5, <3>6
    <2> QED  BY <1>14, <2>1
  <1>17. PrintedNodes' = PrintedNodes \cup {<<t, c.node>>}
    <2>1. DOMAIN imageLines = 1 .. n
      BY <1>0, LenProperties DEF ImagineTypes
    <2>2. \A i \in 1 .. n + 1 : i \in 1 .. n \/ i = n + 1
      BY <1>9
    <2>3. n + 1 \in 1 .. n + 1 /\ \A i \in 1 .. n : i \in 1 .. n + 1
      BY <1>9
    <2> QED  BY <1>8, <1>9, <2>1, <2>2, <2>3 DEF PrintedNodes
  <1>18. PrintedUpTo(<<t, k>>)'
    <2>1. PrintedNodes = {b \in AskedNodes : InOrder(b, <<t, c.node>>)}
      BY <1>4 DEF PrintedUpTo
    <2>2. PrintedNodes' = {b \in AskedNodes : InOrder(b, <<t, k>>)}
      BY <1>16, <1>17, <2>1
    <2> QED  BY <1>14, <2>2 DEF PrintedUpTo, InOrder
  <1>19. LinesAreRight'
    <2>1. DOMAIN imageLines = 1 .. n /\ n \in Nat
      BY <1>0, <1>9, LenProperties DEF ImagineTypes
    <2>2. \A i \in 1 .. n : <<imageLines[i].tag, imageLines[i].node>> \in PrintedNodes
      BY <2>1 DEF PrintedNodes
    <2>3. \A i \in 1 .. n : InOrder(<<imageLines[i].tag, imageLines[i].node>>, <<t, c.node>>)
      BY <1>4, <2>2 DEF PrintedUpTo
    <2>4. ASSUME NEW i \in 1 .. n + 1
          PROVE  LET at == <<imageLines'[i].tag, imageLines'[i].node>> IN
                 /\ at \in AskedNodes /\ IsLineOf(imageLines'[i], imageLines'[i].tag, imageLines'[i].node)
                 /\ \A m \in 1 .. i - 1 : InOrder(<<imageLines'[m].tag, imageLines'[m].node>>, at)
      <3>1. CASE i = n + 1
        <4>1. imageLines'[i] = line /\ \A m \in 1 .. i - 1 : m \in 1 .. n
          BY <1>9, <3>1
        <4>2. \A m \in 1 .. i - 1 : InOrder(<<imageLines'[m].tag, imageLines'[m].node>>, <<t, c.node>>)
          BY <1>9, <2>3, <4>1
        <4> QED  BY <1>8, <1>14, <1>15, <4>1, <4>2
      <3>2. CASE i # n + 1
        <4>1. i \in 1 .. n /\ \A m \in 1 .. i - 1 : m \in 1 .. n
          BY <2>1, <3>2
        <4>2. imageLines'[i] = imageLines[i] /\ \A m \in 1 .. i - 1 : imageLines'[m] = imageLines[m]
          BY <1>9, <4>1
        <4>3. LET at == <<imageLines[i].tag, imageLines[i].node>> IN
              /\ at \in AskedNodes /\ IsLineOf(imageLines[i], imageLines[i].tag, imageLines[i].node)
              /\ \A m \in 1 .. i - 1 : InOrder(<<imageLines[m].tag, imageLines[m].node>>, at)
          BY <2>1, <4>1 DEF LinesAreRight
        <4> QED  BY <4>2, <4>3
      <3> QED  BY <3>1, <3>2
    <2>5. image' = image /\ DOMAIN imageLines' = 1 .. n + 1
      BY <1>3, <1>9
    <2> QED  BY <1>14, <2>4, <2>5, ZenonT(30) DEF LinesAreRight, IsLineOf, InOrder
  <1>20. Between(d, k)'
    <2>1. d.properties = 0
      BY <1>3, <1>11
    <2>2. k <= Len(ps) => k \in NodesOf(ps) /\ ps[k].depth <= h
      <3>1. k <= Len(ps) => k \in NodesOf(ps) /\ ps[k].depth <= ps[c.node].depth + 1
        BY <1>1, <1>6 DEF IsNodeOf
      <3>2. ps[c.node].depth + 1 = h
        BY <1>1, <1>2
      <3> QED  BY <3>1, <3>2
    <2>3. d.offset = IF c.values = <<>> THEN NoPlace ELSE PartBegin[k]
      BY <1>4, <1>11 DEF Copying
    <2>4. PartBegin[k] # NoPlace
      <3>1. PartBegin[k] \in Nat
        BY <1>0, <1>5, PartsBegin
      <3> QED  BY <3>1 DEF NoPlace
    <2>5. d.offset = NoPlace => c.values = <<>>
      BY <2>3, <2>4
    <2>6. c.values = <<>> => NoValues'
      BY <1>8, <1>9 DEF NoValues
    <2>7. PartBegin' = PartBegin
      BY <1>3, SameImage
    <2> QED  BY <1>5, <1>12, <2>1, <2>2, <2>3, <2>5, <2>6, <2>7 DEF Between
  <1>21. InTheTree(k)'
    <2>1. t \in 1 .. Len(image'.tags) /\ tagAt' = t /\ Len(treeCalls') > 0 /\ image' = image
      BY <1>0, <1>1, <1>3, <1>5, <1>12
    <2>2. Between(treeCalls[1], k)'
      BY <1>12, <1>20 DEF Between
    <2>3. PrintedUpTo(<<tagAt, k>>)'
      BY <1>18, <2>1 DEF PrintedUpTo
    <2>4. TreeAskedFor(tagAt)'
      BY <1>5, <2>1 DEF TreeAskedFor
    <2> QED  BY <1>11, <1>12, <1>13, <2>1, <2>2, <2>3, <2>4 DEF InTheTree
  <1> QED  BY <1>9, <1>12, <1>19, <1>21

\* Without an offset there was a line without values, the last.
LEMMA NoChildKeeps ==
    ASSUME image \in Images, AllTrees, ImagineTypes, NEW k \in 1 .. Len(Parts) + 1, InTheTree(k), DumpChild,
           treeCalls[1].offset = NoPlace
    PROVE  imagine' = "crashed" /\ UNCHANGED <<image, tagAt, imageType, treeCalls, imageLines>> /\ NoValues'
           /\ PrintedUpTo(<<tagAt, k>>)'
  <1>0. PICK h, c : h = Len(treeCalls) /\ c = treeCalls[1]
    OBVIOUS
  <1>1. call = c
    BY <1>0, CallIs
  <1>2. imagine' = "crashed" /\ UNCHANGED <<image, tagAt, imageType, treeCalls, imageLines>> /\ c.named
    BY <1>0, <1>1 DEF DumpChild
  <1>3. Between(c, k) /\ PrintedUpTo(<<tagAt, k>>)
    BY <1>0, <1>2, CallIs
  <1>4. NoValues'
    <2>1. NoValues
      BY <1>0, <1>3 DEF Between
    <2> QED  BY <1>2, <2>1 DEF NoValues
  <1>5. AskedNodes' = AskedNodes /\ PrintedNodes' = PrintedNodes
    BY <1>2, SameImage DEF PrintedNodes
  <1>6. PrintedUpTo(<<tagAt, k>>)'
    BY <1>2, <1>3, <1>5 DEF PrintedUpTo, InOrder
  <1> QED  BY <1>2, <1>4, <1>6

LEMMA DumpChildKeeps ==
    ASSUME image \in Images, AllTrees, ImagineTypes, NEW k \in 1 .. Len(Parts) + 1, InTheTree(k), DumpChild,
           treeCalls[1].offset # NoPlace, NEW m, m = k + 1
    PROVE  treeCalls' \in Seq(DumpCall) /\ m \in 1 .. Len(Parts) + 1 /\ InTheTree(m)'
           /\ UNCHANGED <<image, imagine, tagAt, imageType, imageLines>>
  <1>0. PICK h, c, t, ps : h = Len(treeCalls) /\ c = treeCalls[1] /\ t = tagAt /\ ps = Parts
    OBVIOUS
  <1>1. /\ h \in Nat /\ h # 0 /\ call = c /\ k \in Nat /\ Len(ps) \in Nat
        /\ c \in DumpCall /\ c.children \in Nat
    <2>1. h \in Nat /\ h # 0 /\ call = c /\ k \in Nat /\ Len(Parts) \in Nat
      BY <1>0, CallIs
    <2>2. c \in DumpCall /\ c.children \in Nat
      BY <1>0, CallIs
    <2> QED  BY <1>0, <2>1, <2>2
  <1>2. c.indent = h /\ c.children = Rest(ps, k, h)
    <2>1. c.indent = h
      BY <1>0, CallIs
    <2>2. c.children = Rest(Parts, k, h)
      BY <1>0, CallIs, ZenonT(30)
    <2> QED  BY <1>0, <2>1, <2>2
  <1>3. UNCHANGED <<image, imagine, tagAt, imageType, imageLines>> /\ c.named /\ c.children > 0
    BY <1>0, <1>1 DEF DumpChild
  <1>4. Between(c, k) /\ PrintedUpTo(<<t, k>>)
    BY <1>0, <1>3, CallIs
  <1>5. /\ ArePartsOf(ps) /\ IsTree(ps) /\ DOMAIN ps = 1 .. Len(ps) /\ t \in 1 .. Len(image.tags) /\ TreeAskedFor(t)
        /\ Parts' = ps /\ PartBegin' = PartBegin
        /\ \A j \in 1 .. Len(ps) : ps[j].part = "node" <=> j \in NodesOf(ps)
    <2>1. Parts' = Parts /\ PartBegin' = PartBegin
      BY <1>3, SameImage
    <2> QED  BY <1>0, <2>1, TreeIs DEF InTheTree
  <1>6. c.offset = PartBegin[k] /\ c.properties = 0
    BY <1>0, <1>4 DEF Between
  <1>7. k \in 1 .. Len(ps) /\ k \in NodesOf(ps) /\ ps[k].depth = h /\ PartsAt(PartBegin[k], "node") = {k}
    BY <1>0, <1>3, NodeIsNext
  <1>8. m \in 1 .. Len(ps) + 1 /\ k < m /\ IsNodeOf(ps, k)
    BY <1>1, <1>5, <1>7 DEF IsTree
  <1>9. /\ PartBegin[k] + NodeSize = PartBegin[m] /\ PartBegin[m] \in Nat
        /\ PartsAt(c.offset, "node") = {k}
    <2>1. /\ k \in 1 .. Len(Parts) /\ m \in 1 .. Len(Parts) + 1 /\ tagAt \in 1 .. Len(image.tags)
          /\ Parts[k].part = "node"
      BY <1>0, <1>5, <1>7, <1>8
    <2>2. PartBegin[k + 1] = PartBegin[k] + RoomOf(Parts[k])
      BY <2>1, PartsBegin
    <2>3. RoomOf(Parts[k]) = NodeSize
      BY <2>1 DEF RoomOf
    <2>4. PartBegin[m] \in Nat
      BY <2>1, PartsBegin
    <2> QED  BY <1>6, <1>7, <2>2, <2>3, <2>4
  <1>10. ps[k].children = Rest(ps, m, h + 1) /\ ps[k].properties \in Nat /\ ps[k].children \in Nat
    BY <1>5, <1>7, <1>8 DEF IsNodeOf, Rest, ArePartsOf
  <1>11. PICK e : e = TreeCall(k, c.indent + 1)
    OBVIOUS
  <1>12. /\ e.node = k /\ e.indent = h + 1 /\ e.properties = ps[k].properties /\ e.children = ps[k].children
         /\ e.dtp = PartBegin[m] /\ e.offset = NoPlace /\ e.name = Garbage /\ e.values = <<>> /\ e.named = FALSE
         /\ e = [node |-> k, indent |-> h + 1, properties |-> ps[k].properties, children |-> ps[k].children,
                 dtp |-> PartBegin[m], offset |-> NoPlace, name |-> Garbage, values |-> <<>>, named |-> FALSE]
    BY <1>0, <1>2, <1>9, <1>11 DEF TreeCall
  <1>13. e \in DumpCall
    <2>1. <<>> \in Seq(ShownValue)
      BY EmptySeq
    <2>2. NoPlace \in Int /\ Garbage \in Nat /\ h + 1 \in Nat
      BY <1>1 DEF NoPlace, Garbage
    <2> QED  BY <1>1, <1>9, <1>10, <1>12, <2>1, <2>2 DEF DumpCall
  <1>14. PICK d : d = [c EXCEPT !.children = @ - 1]
    OBVIOUS
  <1>15. /\ d.node = c.node /\ d.indent = c.indent /\ d.children = c.children - 1 /\ d.named = c.named
         /\ d.properties = c.properties /\ d \in DumpCall
    <2>1. c.children - 1 \in Nat
      BY <1>1, <1>3
    <2> QED  BY <1>1, <1>14, <2>1 DEF DumpCall
  <1>16. PICK calls : calls = [treeCalls EXCEPT ![1] = d]
    OBVIOUS
  <1>17. /\ calls \in Seq(DumpCall) /\ Len(calls) = h /\ calls[1] = d
         /\ \A i \in 2 .. h : calls[i] = treeCalls[i]
    BY <1>0, <1>1, <1>15, <1>16, CallChanges DEF ImagineTypes
  <1>18. treeCalls' = <<e>> \o calls
    <2>1. \E j \in PartsAt(c.offset, "node") :
             treeCalls' = <<TreeCall(j, c.indent + 1)>> \o [treeCalls EXCEPT ![1].children = @ - 1]
      BY <1>0, <1>1 DEF DumpChild
    <2>2. treeCalls' = <<e>> \o [treeCalls EXCEPT ![1].children = @ - 1]
      BY <1>9, <1>11, <2>1
    <2>3. [treeCalls EXCEPT ![1].children = @ - 1] = calls
      BY <1>0, <1>14, <1>16
    <2> QED  BY <2>2, <2>3
  <1>19. /\ treeCalls' \in Seq(DumpCall) /\ Len(treeCalls') = h + 1 /\ treeCalls'[1] = e
         /\ \A i \in 2 .. h + 1 : treeCalls'[i] = calls[i - 1]
    BY <1>13, <1>17, <1>18, CallIn
  <1>20. DumpsAt(m)'
    <2>0. PICK g : g = h + 1
      OBVIOUS
    <2>1. ASSUME NEW i \in 1 .. g
          PROVE  /\ treeCalls'[i].node \in NodesOf(ps) /\ treeCalls'[i].node < m
                 /\ ps[treeCalls'[i].node].depth = g - i /\ treeCalls'[i].indent = g - i + 1
                 /\ treeCalls'[i].children = Rest(ps, m, g - i + 1)
                 /\ i > 1 => treeCalls'[i].named /\ treeCalls'[i].properties = 0
      <3>1. CASE i = 1
        <4>1. g - i + 1 = h + 1 /\ g - i = h /\ ~(i > 1)
          BY <1>1, <2>0, <3>1
        <4> QED  BY <1>7, <1>8, <1>10, <1>12, <1>19, <3>1, <4>1
      <3>2. CASE i # 1
        <4>1. PICK j : j = i - 1
          OBVIOUS
        <4>2. j \in 1 .. h /\ i \in 2 .. h + 1 /\ g - i + 1 = h - j + 1 /\ g - i = h - j
          BY <1>1, <2>0, <3>2, <4>1
        <4>3. /\ treeCalls[j].node \in NodesOf(ps) /\ treeCalls[j].node < k
              /\ ps[treeCalls[j].node].depth = h - j /\ treeCalls[j].indent = h - j + 1
              /\ treeCalls[j].children = Rest(ps, k, h - j + 1)
              /\ j > 1 => treeCalls[j].named /\ treeCalls[j].properties = 0
          BY <1>0, <4>2 DEF InTheTree, DumpsAt
        <4>4. treeCalls[j].node < m
          <5>1. treeCalls[j].node \in Nat
            BY <1>1, <1>5, <4>3 DEF NodesOf
          <5> QED  BY <1>1, <4>3, <5>1
        <4>5. h - j + 1 \in Nat /\ (j = 1 => h - j + 1 = h) /\ (j # 1 => h - j + 1 < h)
          BY <1>1, <4>2
        <4>6. treeCalls'[i] = calls[j]
          BY <1>19, <4>1, <4>2
        <4>7. CASE j = 1
          <5>1. Rest(ps, k, h) = Rest(ps, m, h) + 1
            BY <1>1, <1>5, <1>7, BesideNext DEF Rest
          <5>2. Rest(ps, m, h) \in Nat
            <6>1. m \in Nat
              BY <1>1
            <6> QED  BY <1>1, <1>5, <6>1, BesideFinite DEF Rest
          <5>3. d.children = Rest(ps, m, h)
            BY <1>2, <1>15, <5>1, <5>2
          <5>4. calls[j] = d /\ treeCalls[j] = c
            BY <1>0, <1>17, <4>7
          <5>5. /\ c.node \in NodesOf(ps) /\ c.node < m /\ ps[c.node].depth = g - i /\ c.indent = g - i + 1
                /\ g - i + 1 = h
            BY <4>2, <4>3, <4>4, <4>5, <4>7, <5>4
          <5>6. /\ d.node = c.node /\ d.indent = c.indent /\ d.named /\ d.properties = 0
                /\ d.children = Rest(ps, m, g - i + 1)
            BY <1>3, <1>6, <1>15, <5>3, <5>5
          <5>7. treeCalls'[i] = d
            BY <4>6, <5>4
          <5> QED  BY <5>5, <5>6, <5>7
        <4>8. CASE j # 1
          <5>1. ps[k].depth > h - j + 1
            BY <1>1, <1>7, <4>5, <4>8
          <5>2. Rest(ps, k, h - j + 1) = Rest(ps, m, h - j + 1)
            BY <1>5, <1>7, <4>5, <5>1, BesideNext DEF Rest
          <5>3. calls[j] = treeCalls[j] /\ j > 1
            <6>1. j \in 2 .. h
              BY <1>1, <4>2, <4>8
            <6> QED  BY <1>17, <6>1
          <5> QED  BY <4>2, <4>3, <4>4, <4>6, <5>2, <5>3
        <4> QED  BY <4>7, <4>8
      <3> QED  BY <3>1, <3>2
    <2>2. Len(treeCalls') = g /\ Parts' = ps
      BY <1>5, <1>19, <2>0
    <2> QED  BY <2>1, <2>2 DEF DumpsAt
  <1>21. Copying(e, m)'
    <2>1. e.node + 1 + Len(e.values) = m /\ e.properties + Len(e.values) = ps[k].properties /\ Len(e.values) = 0
      BY <1>1, <1>10, <1>12
    <2>2. NamesUpTo(e, m)' = {}
      <3>1. \A i \in k + 1 .. m - 1 : FALSE
        BY <1>1
      <3> QED  BY <1>12, <3>1 DEF NamesUpTo
    <2>3. \A i \in 1 .. 0 : FALSE
      OBVIOUS
    <2> QED  BY <1>5, <1>12, <2>1, <2>2, <2>3 DEF Copying
  <1>22. PrintedUpTo(<<t, k>>)'
    <2>1. AskedNodes' = AskedNodes /\ PrintedNodes' = PrintedNodes
      BY <1>3, SameImage DEF PrintedNodes
    <2> QED  BY <1>4, <2>1 DEF PrintedUpTo, InOrder
  <1>23. InTheTree(m)'
    <2>1. t \in 1 .. Len(image'.tags) /\ tagAt' = t /\ Len(treeCalls') > 0 /\ image' = image
      BY <1>0, <1>1, <1>3, <1>5, <1>19
    <2>2. Copying(treeCalls[1], m)'
      BY <1>19, <1>21 DEF Copying, NamesUpTo
    <2>3. PrintedUpTo(<<tagAt, treeCalls[1].node>>)'
      BY <1>12, <1>19, <1>22, <2>1 DEF PrintedUpTo
    <2>4. TreeAskedFor(tagAt)'
      BY <1>5, <2>1 DEF TreeAskedFor
    <2> QED  BY <1>12, <1>19, <1>20, <2>1, <2>2, <2>3, <2>4 DEF InTheTree
  <1> QED  BY <1>0, <1>3, <1>8, <1>19, <1>23

\* A call has printed everything below its node when it returns.
LEMMA BelowIsDone ==
    ASSUME image \in Images, AllTrees, ImagineTypes, NEW k \in 1 .. Len(Parts) + 1, InTheTree(k), ReturnNode,
           NEW h, h = Len(treeCalls), NEW c, c = treeCalls[1]
    PROVE  /\ h \in Nat /\ h # 0 /\ call = c /\ c.named /\ Between(c, k) /\ PrintedUpTo(<<tagAt, k>>)
           /\ k <= Len(Parts) => k \in NodesOf(Parts) /\ Parts[k].depth < h
           /\ h = 1 => k = Len(Parts) + 1
  <1>1. h \in Nat /\ h # 0 /\ call = c /\ k \in Nat /\ Len(Parts) \in Nat
    BY CallIs
  <1>2. c.named /\ c.children = 0 /\ c.children = Rest(Parts, k, h)
    <2>1. c.named /\ c.children = 0
      BY <1>1 DEF ReturnNode
    <2>2. c.children = Rest(Parts, k, h)
      BY CallIs
    <2> QED  BY <2>1, <2>2
  <1>3. Between(c, k) /\ PrintedUpTo(<<tagAt, k>>)
    BY <1>2, CallIs
  <1>4. ArePartsOf(Parts) /\ IsTree(Parts)
    BY TreeIs DEF InTheTree
  <1>5. k <= Len(Parts) => k \in NodesOf(Parts) /\ Parts[k].depth < h
    <2> SUFFICES ASSUME k <= Len(Parts) PROVE k \in NodesOf(Parts) /\ Parts[k].depth < h
      OBVIOUS
    <2>1. k \in 1 .. Len(Parts) /\ k \in NodesOf(Parts) /\ Parts[k].depth <= h
      BY <1>1, <1>3 DEF Between
    <2>2. Beside(Parts, k, h) = {}
      BY <1>1, <1>2, <1>4, BesideFinite DEF Rest
    <2>3. Parts[k].depth # h
      BY <1>1, <1>4, <2>1, <2>2, BesideFrom
    <2>4. Parts[k].depth \in Nat
      BY <1>4, <2>1 DEF ArePartsOf
    <2> QED  BY <1>1, <2>1, <2>3, <2>4
  <1>6. h = 1 => k = Len(Parts) + 1
    <2> SUFFICES ASSUME h = 1, k <= Len(Parts) PROVE FALSE
      BY <1>1
    <2>1. k \in NodesOf(Parts) /\ Parts[k].depth = 0
      <3>1. k \in NodesOf(Parts) /\ Parts[k].depth < 1 /\ k \in 1 .. Len(Parts)
        BY <1>1, <1>5
      <3>2. Parts[k].depth \in Nat
        BY <1>4, <3>1 DEF ArePartsOf
      <3> QED  BY <3>1, <3>2
    <2>2. k = 1
      BY <1>4, <2>1 DEF IsTree, IsNodeOf
    <2>3. c.node < k /\ c.node \in 1 .. Len(Parts)
      BY CallIs
    <2> QED  BY <1>1, <2>2, <2>3
  <1> QED  BY <1>1, <1>2, <1>3, <1>5, <1>6

LEMMA ReturnInnerKeeps ==
    ASSUME image \in Images, AllTrees, ImagineTypes, NEW k \in 1 .. Len(Parts) + 1, InTheTree(k), ReturnNode,
           Len(treeCalls) # 1
    PROVE  treeCalls' \in Seq(DumpCall) /\ InTheTree(k)' /\ UNCHANGED <<image, imagine, tagAt, imageType, imageLines>>
  <1>0. PICK h, c, t, ps, g : h = Len(treeCalls) /\ c = treeCalls[1] /\ t = tagAt /\ ps = Parts /\ g = h - 1
    OBVIOUS
  <1>1. /\ h \in Nat /\ h # 0 /\ call = c /\ Between(c, k) /\ PrintedUpTo(<<t, k>>)
        /\ k <= Len(ps) => k \in NodesOf(ps) /\ ps[k].depth < h
    BY <1>0, BelowIsDone
  <1>2. /\ treeCalls' = [Tail(treeCalls) EXCEPT ![1].offset = c.offset]
        /\ UNCHANGED <<image, imagine, tagAt, imageType, imageLines>>
    BY <1>1 DEF ReturnNode
  <1>3. /\ ArePartsOf(ps) /\ t \in 1 .. Len(image.tags) /\ TreeAskedFor(t) /\ Parts' = ps /\ PartBegin' = PartBegin
        /\ k \in Nat /\ Len(ps) \in Nat
    <2>1. Parts' = Parts /\ PartBegin' = PartBegin
      BY <1>2, SameImage
    <2>2. k \in Nat /\ Len(Parts) \in Nat
      BY <1>0, CallIs
    <2> QED  BY <1>0, <2>1, <2>2, TreeIs DEF InTheTree
  <1>4. g \in Nat /\ g > 0 /\ h = g + 1
    BY <1>0, <1>1
  <1>5. /\ Tail(treeCalls) \in Seq(DumpCall) /\ Len(Tail(treeCalls)) = g
        /\ \A i \in 1 .. g : Tail(treeCalls)[i] = treeCalls[i + 1]
    BY <1>0, <1>1, CallOut DEF ImagineTypes
  <1>6. PICK outer : outer = Tail(treeCalls)
    OBVIOUS
  <1>7. PICK d : d = [outer[1] EXCEPT !.offset = c.offset]
    OBVIOUS
  <1>8. 1 \in 1 .. g /\ outer[1] = treeCalls[2] /\ outer[1] \in DumpCall
    <2>1. 1 \in 1 .. g /\ 1 + 1 = 2
      BY <1>4
    <2>2. outer \in Seq(DumpCall) /\ Len(outer) = g
      BY <1>5, <1>6
    <2>3. outer[1] \in DumpCall
      BY <2>1, <2>2, ElementOfSeq
    <2> QED  BY <1>5, <1>6, <2>1, <2>3
  <1>9. /\ d.node = treeCalls[2].node /\ d.indent = treeCalls[2].indent /\ d.children = treeCalls[2].children
        /\ d.named = treeCalls[2].named /\ d.properties = treeCalls[2].properties /\ d.offset = c.offset /\ d \in DumpCall
    <2>1. c.offset \in Int
      BY <1>0, CallIs
    <2> QED  BY <1>7, <1>8, <2>1 DEF DumpCall
  <1>10. /\ treeCalls' \in Seq(DumpCall) /\ Len(treeCalls') = g /\ treeCalls'[1] = d
         /\ \A i \in 2 .. g : treeCalls'[i] = treeCalls[i + 1]
    <2>1. treeCalls' = [outer EXCEPT ![1] = d]
      BY <1>2, <1>6, <1>7
    <2>2. outer \in Seq(DumpCall) /\ Len(outer) > 0 /\ Len(outer) = g
      BY <1>4, <1>5, <1>6
    <2>3. /\ treeCalls' \in Seq(DumpCall) /\ Len(treeCalls') = g /\ treeCalls'[1] = d
          /\ \A i \in 2 .. g : treeCalls'[i] = outer[i]
      BY <1>9, <2>1, <2>2, CallChanges
    <2>4. \A i \in 2 .. g : outer[i] = treeCalls[i + 1]
      BY <1>4, <1>5, <1>6
    <2> QED  BY <2>3, <2>4
  <1>11. ASSUME NEW i \in 1 .. g
         PROVE  /\ treeCalls'[i].node \in NodesOf(ps) /\ treeCalls'[i].node < k
                /\ ps[treeCalls'[i].node].depth = g - i /\ treeCalls'[i].indent = g - i + 1
                /\ treeCalls'[i].children = Rest(ps, k, g - i + 1)
                /\ treeCalls'[i].named /\ treeCalls'[i].properties = 0
    <2>1. PICK j : j = i + 1
      OBVIOUS
    <2>2. j \in 1 .. h /\ j > 1 /\ h - j = g - i /\ h - j + 1 = g - i + 1
      BY <1>4, <2>1
    <2>3. /\ treeCalls[j].node \in NodesOf(ps) /\ treeCalls[j].node < k
          /\ ps[treeCalls[j].node].depth = h - j /\ treeCalls[j].indent = h - j + 1
          /\ treeCalls[j].children = Rest(ps, k, h - j + 1)
          /\ treeCalls[j].named /\ treeCalls[j].properties = 0
      BY <1>0, <2>2 DEF InTheTree, DumpsAt
    <2>4. CASE i = 1
      <3>1. j = 2 /\ treeCalls'[i] = d
        BY <1>10, <2>1, <2>4
      <3> QED  BY <1>9, <2>2, <2>3, <3>1
    <2>5. CASE i # 1
      <3>1. i \in 2 .. g
        BY <1>4, <2>5
      <3>2. treeCalls'[i] = treeCalls[j]
        BY <1>10, <2>1, <3>1
      <3> QED  BY <2>2, <2>3, <3>2
    <2> QED  BY <2>4, <2>5
  <1>12. DumpsAt(k)'
    BY <1>3, <1>10, <1>11 DEF DumpsAt
  <1>13. Between(d, k)'
    <2>1. d.properties = 0
      BY <1>8, <1>10, <1>11
    <2>2. k <= Len(ps) => k \in NodesOf(ps) /\ ps[k].depth <= g
      <3> SUFFICES ASSUME k <= Len(ps) PROVE k \in NodesOf(ps) /\ ps[k].depth <= g
        OBVIOUS
      <3>1. k \in 1 .. Len(ps)
        BY <1>0, <1>3
      <3>2. ps[k].depth \in Nat
        BY <1>3, <3>1 DEF ArePartsOf
      <3> QED  BY <1>1, <1>4, <3>2
    <2>3. d.offset \in {NoPlace, PartBegin[k]} /\ (d.offset = NoPlace => NoValues)
      BY <1>1, <1>9 DEF Between
    <2>4. NoValues' = NoValues
      BY <1>2 DEF NoValues
    <2> QED  BY <1>3, <1>10, <2>1, <2>2, <2>3, <2>4 DEF Between
  <1>14. PrintedUpTo(<<t, k>>)'
    <2>1. AskedNodes' = AskedNodes /\ PrintedNodes' = PrintedNodes
      BY <1>2, SameImage DEF PrintedNodes
    <2> QED  BY <1>1, <2>1 DEF PrintedUpTo, InOrder
  <1>15. InTheTree(k)'
    <2>1. t \in 1 .. Len(image'.tags) /\ tagAt' = t /\ Len(treeCalls') > 0 /\ image' = image
      BY <1>0, <1>2, <1>3, <1>4, <1>10
    <2>2. Between(treeCalls[1], k)'
      BY <1>10, <1>13 DEF Between
    <2>3. PrintedUpTo(<<tagAt, k>>)'
      BY <1>14, <2>1 DEF PrintedUpTo
    <2>4. TreeAskedFor(tagAt)'
      BY <1>3, <2>1 DEF TreeAskedFor
    <2>5. treeCalls'[1].named
      BY <1>8, <1>11
    <2> QED  BY <1>12, <2>1, <2>2, <2>3, <2>4, <2>5 DEF InTheTree
  <1> QED  BY <1>2, <1>10, <1>15

LEMMA ReturnRootKeeps ==
    ASSUME ImagineInv, AllTrees, imagine = "tree", NEW k \in 1 .. Len(Parts) + 1, InTheTree(k), ReturnNode,
           Len(treeCalls) = 1
    PROVE  ImagineInv'
  <1>1. /\ image \in Images /\ ImagineTypes /\ LinesAreRight /\ image.magic /\ imageType = TypeBefore(tagAt)
    BY DEF ImagineInv
  <1>2. PICK t, c : t = tagAt /\ c = treeCalls[1]
    OBVIOUS
  <1>3. PrintedUpTo(<<tagAt, k>>) /\ k = Len(Parts) + 1
    BY <1>1, <1>2, BelowIsDone
  <1>4. treeCalls' = <<>> /\ imagine' = "tags" /\ tagAt' = tagAt + 1 /\ UNCHANGED <<image, imageType, imageLines>>
    BY DEF ReturnNode
  <1>5. tagAt \in 1 .. Len(image.tags) /\ theTag.kind = "data" /\ tagAt \in Nat /\ Len(image.tags) \in Nat
        /\ Len(Parts) \in Nat /\ k \in Nat /\ k > Len(Parts)
    BY <1>1, <1>3, TreeIs DEF InTheTree
  <1>6. PrintedUpTo(<<tagAt, 0>>)'
    BY <1>1, <1>3, <1>4, <1>5, TagPassed
  <1>7. imageType' = TypeBefore(tagAt)'
    <2>1. PICK m : m = t + 1
      OBVIOUS
    <2>2. imageType' = TypeBefore(m)
      BY <1>1, <1>2, <1>4, <1>5, <2>1, TypeOn DEF theTag
    <2>3. TypeBefore(tagAt)' = TypeBefore(m)
      BY <1>2, <1>4, <2>1, TypeIsStill
    <2> QED  BY <2>2, <2>3
  <1>8. ImagineTypes'
    <2>1. <<>> \in Seq(DumpCall)
      BY EmptySeq
    <2> QED  BY <1>1, <1>4, <1>5, <2>1 DEF ImagineTypes
  <1>9. LinesAreRight'
    BY <1>1, <1>4, LinesStayRight
  <1> QED  BY <1>1, <1>4, <1>6, <1>7, <1>8, <1>9 DEF ImagineInv

\* A step in the tree of a tag.
LEMMA InTheTreeKeeps ==
    ASSUME ImagineInv, AllTrees, imagine = "tree", UNCHANGED <<image, imagine, tagAt, imageType>>,
           treeCalls' \in Seq(DumpCall), imageLines' \in Seq(NodeLine), LinesAreRight',
           NEW k \in 1 .. Len(Parts) + 1, InTheTree(k)'
    PROVE  ImagineInv'
  <1>1. image \in Images /\ ImagineTypes /\ image.magic /\ imageType = TypeBefore(tagAt)
    BY DEF ImagineInv
  <1>2. ImagineTypes'
    BY <1>1 DEF ImagineTypes
  <1>3. imageType' = TypeBefore(tagAt)'
    BY <1>1, TypeIsStill
  <1>4. Parts' = Parts
    BY SameImage
  <1> QED  BY <1>1, <1>2, <1>3, <1>4 DEF ImagineInv

LEMMA StutterKeeps ==
    ASSUME ImagineInv, AllTrees, UNCHANGED imagineVars
    PROVE  ImagineInv'
  <1>1. UNCHANGED <<image, imagine, tagAt, imageType, treeCalls, imageLines>>
    BY DEF imagineVars
  <1>2. image \in Images /\ ImagineTypes /\ LinesAreRight /\ imageType = TypeBefore(tagAt)
    BY DEF ImagineInv
  <1>3. Parts' = Parts /\ PartBegin' = PartBegin /\ AskedNodes' = AskedNodes /\ PrintedNodes' = PrintedNodes
    BY <1>1, SameImage DEF PrintedNodes
  <1>4. ImagineTypes' /\ LinesAreRight' /\ imageType' = TypeBefore(tagAt)'
    BY <1>1, <1>2, LinesStayRight, TypeIsStill DEF ImagineTypes
  <1>5. NoValues' = NoValues
    BY <1>1 DEF NoValues
  <1>6. CASE imagine = "tree"
    <2>1. PICK k \in 1 .. Len(Parts) + 1 : InTheTree(k)
      BY <1>6 DEF ImagineInv
    <2>2. DumpsAt(k)' = DumpsAt(k)
      BY <1>1, <1>3 DEF DumpsAt
    <2>3. PICK c, t : c = treeCalls[1] /\ t = tagAt
      OBVIOUS
    <2>4. Between(c, k)' = Between(c, k)
      BY <1>1, <1>3, <1>5 DEF Between
    <2>5. Copying(c, k)' = Copying(c, k)
      BY <1>1, <1>3 DEF Copying, NamesUpTo
    <2>6. treeCalls'[1] = c /\ tagAt' = t /\ Len(treeCalls') = Len(treeCalls) /\ image' = image
      BY <1>1, <2>3
    <2>7. TreeAskedFor(t)' = TreeAskedFor(t)
      BY <1>1 DEF TreeAskedFor
    <2>8. CASE c.named
      <3>1. Between(c, k) /\ PrintedUpTo(<<t, k>>)
        BY <2>1, <2>3, <2>8 DEF InTheTree
      <3>2. Between(treeCalls[1], k)'
        BY <2>4, <2>6, <3>1 DEF Between
      <3>3. PrintedUpTo(<<tagAt, k>>)'
        BY <1>3, <2>6, <3>1 DEF PrintedUpTo, InOrder
      <3>4. TreeAskedFor(tagAt)'
        BY <2>1, <2>3, <2>6 DEF InTheTree, TreeAskedFor
      <3>5. InTheTree(k)'
        BY <2>1, <2>2, <2>3, <2>6, <2>8, <3>2, <3>3, <3>4 DEF InTheTree
      <3> QED  BY <1>1, <1>2, <1>4, <1>6, <2>1, <3>5, InTheTreeKeeps DEF ImagineTypes
    <2>9. CASE ~c.named
      <3>1. Copying(c, k) /\ PrintedUpTo(<<t, c.node>>)
        BY <2>1, <2>3, <2>9 DEF InTheTree
      <3>2. Copying(treeCalls[1], k)'
        BY <2>5, <2>6, <3>1 DEF Copying, NamesUpTo
      <3>3. PrintedUpTo(<<tagAt, treeCalls[1].node>>)'
        BY <1>3, <2>6, <3>1 DEF PrintedUpTo, InOrder
      <3>4. TreeAskedFor(tagAt)'
        BY <2>1, <2>3, <2>6 DEF InTheTree, TreeAskedFor
      <3>5. InTheTree(k)'
        BY <2>1, <2>2, <2>3, <2>6, <2>9, <3>2, <3>3, <3>4 DEF InTheTree
      <3> QED  BY <1>1, <1>2, <1>4, <1>6, <2>1, <3>5, InTheTreeKeeps DEF ImagineTypes
    <2> QED  BY <2>8, <2>9
  <1>7. CASE imagine = "crashed"
    <2>1. PICK k \in Nat : PrintedUpTo(<<tagAt, k>>)
      BY <1>7 DEF ImagineInv
    <2>2. PrintedUpTo(<<tagAt, k>>)'
      BY <1>1, <1>3, <2>1 DEF PrintedUpTo, InOrder
    <2> QED  BY <1>1, <1>2, <1>4, <1>5, <1>7, <2>2 DEF ImagineInv
  <1>8. CASE imagine \notin {"tree", "crashed"}
    <2>1. PrintedUpTo(<<tagAt, 0>>)'
      <3>1. PrintedUpTo(<<tagAt, 0>>)
        BY <1>8 DEF ImagineInv
      <3> QED  BY <1>1, <1>3, <3>1 DEF PrintedUpTo, InOrder
    <2> QED  BY <1>1, <1>2, <1>4, <1>8, <2>1 DEF ImagineInv
  <1> QED  BY <1>6, <1>7, <1>8

LEMMA ImagineGoesOn == ImagineInv /\ [ImagineNext]_imagineVars => ImagineInv'
  <1> SUFFICES ASSUME ImagineInv, [ImagineNext]_imagineVars PROVE ImagineInv'
    OBVIOUS
  <1>1. image \in Images /\ image' = image
    BY DEF ImagineInv, ImagineNext, imagineVars, CheckImage, TypeTag, OtherTag, ZerosTag, TagsEnd, DataTag,
           DumpProperty, PrintNode, DumpChild, ReturnNode
  <1>2. AllTrees' = AllTrees
    BY <1>1, SameImage
  <1>3. SUFFICES ASSUME AllTrees PROVE ImagineInv'
    BY <1>1, <1>2 DEF ImagineInv
  <1>4. /\ ImagineTypes /\ LinesAreRight /\ imageType = TypeBefore(tagAt)
        /\ imagine = "tags" => image.magic
    BY <1>3 DEF ImagineInv
  <1>5. Len(image.tags) \in Nat /\ DOMAIN image.tags = 1 .. Len(image.tags) /\ image.magic \in BOOLEAN
        /\ \A t \in 1 .. Len(image.tags) : image.tags[t].dtre \in BOOLEAN
    BY <1>1, TagsAre
  <1>6. ASSUME NEW kind, AtTag(kind)
        PROVE  /\ imagine = "tags" /\ tagAt \in 1 .. Len(image.tags) /\ theTag.kind = kind
               /\ kind # "data" => ~TreeAskedFor(tagAt)
    <2>1. tagAt \in 1 .. Len(image.tags)
      BY <1>4, <1>5, <1>6 DEF AtTag, ImagineTypes
    <2> QED  BY <1>6, <2>1 DEF AtTag, TreeAskedFor, theTag
  <1>7. CASE CheckImage
    BY <1>1, <1>3, <1>5, <1>7, OutsideKeeps DEF CheckImage
  <1>8. CASE TypeTag
    BY <1>3, <1>6, <1>8, PassingKeeps DEF TypeTag
  <1>9. CASE OtherTag
    BY <1>3, <1>6, <1>9, PassingKeeps DEF OtherTag
  <1>10. CASE ZerosTag
    BY <1>3, <1>4, <1>6, <1>10, OutsideKeeps DEF ZerosTag
  <1>11. CASE TagsEnd
    <2>1. tagAt = Len(image.tags) + 1
      BY <1>4, <1>5, <1>11 DEF TagsEnd, ImagineTypes
    <2> QED  BY <1>3, <1>4, <1>11, <2>1, OutsideKeeps DEF TagsEnd
  <1>12. CASE DataTag
    <2>1. imagine = "tags" /\ tagAt \in 1 .. Len(image.tags) /\ theTag.kind = "data"
      BY <1>6, <1>12 DEF DataTag
    <2>2. TreeAskedFor(tagAt) <=> imageType /\ Parts[1].properties <= MaxProperties /\ image.dump
      BY <1>4, <2>1 DEF TreeAskedFor, TypeBefore, Parts, theTag
    <2>3. CASE TreeAskedFor(tagAt)
      BY <1>1, <1>3, <1>12, <2>1, <2>2, <2>3, RootKeeps DEF DataTag
    <2>4. CASE ~TreeAskedFor(tagAt)
      BY <1>1, <1>3, <1>12, <2>1, <2>2, <2>4, PassingKeeps DEF DataTag
    <2> QED  BY <2>3, <2>4
  <1>13. CASE UNCHANGED imagineVars
    BY <1>3, <1>13, StutterKeeps
  <1>14. CASE imagine = "tree"
    <2>1. PICK k \in 1 .. Len(Parts) + 1 : InTheTree(k)
      BY <1>3, <1>14 DEF ImagineInv
    <2>2. PICK m : m = k + 1
      OBVIOUS
    <2>3. CASE DumpProperty
      <3>1. UNCHANGED <<image, imagine, tagAt, imageType, imageLines>>
        BY <2>3 DEF DumpProperty
      <3>2. treeCalls' \in Seq(DumpCall) /\ m \in 1 .. Len(Parts) + 1 /\ InTheTree(m)'
        BY <1>1, <1>3, <1>4, <2>1, <2>2, <2>3, DumpPropertyKeeps
      <3>3. LinesAreRight' /\ imageLines' \in Seq(NodeLine)
        BY <1>4, <3>1, LinesStayRight DEF ImagineTypes
      <3> QED  BY <1>3, <1>14, <3>1, <3>2, <3>3, InTheTreeKeeps
    <2>4. CASE PrintNode
      <3>1. UNCHANGED <<image, imagine, tagAt, imageType>>
        BY <2>4 DEF PrintNode
      <3>2. treeCalls' \in Seq(DumpCall) /\ imageLines' \in Seq(NodeLine) /\ InTheTree(k)' /\ LinesAreRight'
        BY <1>1, <1>3, <1>4, <2>1, <2>4, PrintNodeKeeps
      <3> QED  BY <1>3, <1>14, <2>1, <3>1, <3>2, InTheTreeKeeps
    <2>5. CASE DumpChild
      <3>1. CASE treeCalls[1].offset = NoPlace
        <4>1. /\ imagine' = "crashed" /\ UNCHANGED <<image, tagAt, imageType, treeCalls, imageLines>> /\ NoValues'
              /\ PrintedUpTo(<<tagAt, k>>)'
          BY <1>1, <1>3, <1>4, <2>1, <2>5, <3>1, NoChildKeeps
        <4>2. LinesAreRight' /\ ImagineTypes' /\ imageType' = TypeBefore(tagAt)'
          BY <1>4, <4>1, LinesStayRight, TypeIsStill DEF ImagineTypes
        <4>3. image.magic /\ k \in Nat
          <5>1. image.magic
            BY <1>3, <1>14 DEF ImagineInv
          <5>2. Len(Parts) \in Nat
            BY <1>1, <1>3, <2>1, TreeIs DEF InTheTree
          <5> QED  BY <5>1, <5>2
        <4> QED  BY <1>1, <4>1, <4>2, <4>3 DEF ImagineInv
      <3>2. CASE treeCalls[1].offset # NoPlace
        <4>1. /\ treeCalls' \in Seq(DumpCall) /\ m \in 1 .. Len(Parts) + 1 /\ InTheTree(m)'
              /\ UNCHANGED <<image, imagine, tagAt, imageType, imageLines>>
          BY <1>1, <1>3, <1>4, <2>1, <2>2, <2>5, <3>2, DumpChildKeeps
        <4>2. LinesAreRight' /\ imageLines' \in Seq(NodeLine)
          BY <1>4, <4>1, LinesStayRight DEF ImagineTypes
        <4> QED  BY <1>3, <1>14, <4>1, <4>2, InTheTreeKeeps
      <3> QED  BY <3>1, <3>2
    <2>6. CASE ReturnNode
      <3>1. CASE Len(treeCalls) = 1
        BY <1>3, <1>14, <2>1, <2>6, <3>1, ReturnRootKeeps
      <3>2. CASE Len(treeCalls) # 1
        <4>1. /\ treeCalls' \in Seq(DumpCall) /\ InTheTree(k)'
              /\ UNCHANGED <<image, imagine, tagAt, imageType, imageLines>>
          BY <1>1, <1>3, <1>4, <2>1, <2>6, <3>2, ReturnInnerKeeps
        <4>2. LinesAreRight' /\ imageLines' \in Seq(NodeLine)
          BY <1>4, <4>1, LinesStayRight DEF ImagineTypes
        <4> QED  BY <1>3, <1>14, <2>1, <4>1, <4>2, InTheTreeKeeps
      <3> QED  BY <3>1, <3>2
    <2> QED
      BY <1>14, <1>13, <2>3, <2>4, <2>5, <2>6 DEF ImagineNext, CheckImage, TypeTag, OtherTag, ZerosTag, TagsEnd, DataTag, AtTag
  <1> QED
    BY <1>7, <1>8, <1>9, <1>10, <1>11, <1>12, <1>14, <1>13
       DEF ImagineNext, DumpProperty, PrintNode, DumpChild, ReturnNode, InCall

\* Up to some place all nodes are printed, and none behind it.
LEMMA SomeBound ==
    ASSUME ImagineInv, AllTrees
    PROVE  \E t, k \in Nat : PrintedUpTo(<<t, k>>)
  <1>1. image \in Images /\ ImagineTypes
    BY DEF ImagineInv
  <1>2. tagAt \in Nat
    BY <1>1, TagsAre DEF ImagineTypes
  <1>3. CASE imagine = "tree"
    <2>1. PICK k \in 1 .. Len(Parts) + 1 : InTheTree(k)
      BY <1>3 DEF ImagineInv
    <2>2. PICK h, c : h = Len(treeCalls) /\ c = treeCalls[1]
      OBVIOUS
    <2>3. k \in Nat /\ c.node \in 1 .. Len(Parts) /\ Len(Parts) \in Nat
      BY <1>1, <2>1, <2>2, CallIs
    <2>4. c.node \in Nat
      BY <2>3
    <2>5. CASE PrintedUpTo(<<tagAt, k>>)
      BY <1>2, <2>3, <2>5
    <2>6. CASE PrintedUpTo(<<tagAt, c.node>>)
      BY <1>2, <2>4, <2>6
    <2> QED  BY <2>1, <2>2, <2>5, <2>6 DEF InTheTree
  <1>4. CASE imagine = "crashed"
    BY <1>2, <1>4 DEF ImagineInv
  <1>5. CASE imagine \notin {"tree", "crashed"}
    <2>1. PrintedUpTo(<<tagAt, 0>>) /\ 0 \in Nat
      BY <1>5 DEF ImagineInv
    <2> QED  BY <1>2, <2>1
  <1> QED  BY <1>3, <1>4, <1>5

LEMMA ImagineTells == ImagineInv => ImageTreeIsTold
  <1> SUFFICES ASSUME ImagineInv, AllTrees
               PROVE  /\ ~ImagineAstray
                      /\ \A n \in DOMAIN imageLines :
                            LET line == imageLines[n]
                                at == <<line.tag, line.node>>
                            IN  /\ at \in AskedNodes /\ IsLineOf(line, line.tag, line.node)
                                /\ \A m \in 1 .. n - 1 : InOrder(<<imageLines[m].tag, imageLines[m].node>>, at)
                                /\ \A b \in AskedNodes : InOrder(b, at) => b \in PrintedNodes
                      /\ imagine = "done" => PrintedNodes = AskedNodes
                      /\ imagine = "crashed" => imageLines[Len(imageLines)].values = <<>>
    BY DEF ImageTreeIsTold, AllTrees
  <1>1. image \in Images /\ ImagineTypes /\ LinesAreRight
    BY DEF ImagineInv
  <1>2. \A b \in AskedNodes : b[1] \in Nat /\ b[2] \in Nat /\ b[1] <= Len(image.tags)
    <2> TAKE b \in AskedNodes
    <2>1. b[1] \in 1 .. Len(image.tags) /\ b[2] \in 1 .. Len(image.tags[b[1]].tree)
      BY <1>1, AskedAre
    <2>2. Len(image.tags) \in Nat
      BY <1>1, TagsAre
    <2> QED  BY <2>1, <2>2
  <1>3. ~ImagineAstray
    <2> SUFFICES ASSUME ImagineAstray PROVE FALSE
      OBVIOUS
    <2>1. imagine = "tree"
      BY DEF ImagineAstray, InCall
    <2>2. PICK k \in 1 .. Len(Parts) + 1 : InTheTree(k)
      BY <2>1 DEF ImagineInv
    <2>3. PICK h, c : h = Len(treeCalls) /\ c = treeCalls[1]
      OBVIOUS
    <2>4. call = c
      BY <1>1, <2>2, <2>3, CallIs
    <2>5. CASE c.properties > 0 /\ PartsAt(c.dtp, "property") = {}
      <3>1. PartsAt(c.dtp, "property") = {k}
        BY <1>1, <2>2, <2>3, <2>5, PropertyIsNext
      <3> QED  BY <2>5, <3>1
    <2>6. CASE c.named /\ c.children > 0 /\ c.offset # NoPlace /\ PartsAt(c.offset, "node") = {}
      <3>1. Between(c, k) /\ PartsAt(PartBegin[k], "node") = {k}
        BY <1>1, <2>2, <2>3, <2>6, NodeIsNext
      <3>2. c.offset = PartBegin[k]
        BY <2>6, <3>1 DEF Between
      <3> QED  BY <2>6, <3>1, <3>2
    <2> QED  BY <2>4, <2>5, <2>6 DEF ImagineAstray
  <1>4. PICK t, k \in Nat : PrintedUpTo(<<t, k>>)
    BY SomeBound
  <1>5. ASSUME NEW n \in DOMAIN imageLines, NEW at, at = <<imageLines[n].tag, imageLines[n].node>>,
               NEW b \in AskedNodes, InOrder(b, at)
        PROVE  b \in PrintedNodes
    <2>1. at \in PrintedNodes
      BY <1>5 DEF PrintedNodes
    <2>2. at \in AskedNodes /\ InOrder(at, <<t, k>>)
      BY <1>4, <2>1 DEF PrintedUpTo
    <2>3. at[1] < t \/ (at[1] = t /\ at[2] < k)
      BY <2>2 DEF InOrder
    <2>4. b[1] < at[1] \/ (b[1] = at[1] /\ b[2] < at[2])
      BY <1>5 DEF InOrder
    <2>5. /\ at[1] \in Nat /\ at[2] \in Nat
          /\ b[1] \in Nat /\ b[2] \in Nat
      BY <1>2, <2>2
    <2>6. b[1] < t \/ (b[1] = t /\ b[2] < k)
      BY <2>3, <2>4, <2>5
    <2>7. InOrder(b, <<t, k>>)
      BY <2>6 DEF InOrder
    <2> QED  BY <1>4, <2>7 DEF PrintedUpTo
  <1>6. imagine = "done" => PrintedNodes = AskedNodes
    <2> SUFFICES ASSUME imagine = "done" PROVE PrintedNodes = AskedNodes
      OBVIOUS
    <2>1. tagAt = Len(image.tags) + 1 /\ PrintedUpTo(<<tagAt, 0>>)
      BY DEF ImagineInv
    <2>2. \A b \in AskedNodes : InOrder(b, <<tagAt, 0>>)
      <3> TAKE b \in AskedNodes
      <3>1. b[1] \in Nat /\ b[1] <= Len(image.tags) /\ Len(image.tags) \in Nat
        BY <1>1, <1>2, TagsAre
      <3>2. b[1] < tagAt
        BY <2>1, <3>1
      <3> QED  BY <3>2 DEF InOrder
    <2> QED  BY <2>1, <2>2 DEF PrintedUpTo
  <1>7. imagine = "crashed" => imageLines[Len(imageLines)].values = <<>>
    BY DEF ImagineInv, NoValues
  <1>8. ASSUME NEW n \in DOMAIN imageLines
        PROVE  LET line == imageLines[n]
                   at == <<line.tag, line.node>>
               IN  /\ at \in AskedNodes /\ IsLineOf(line, line.tag, line.node)
                   /\ \A m \in 1 .. n - 1 : InOrder(<<imageLines[m].tag, imageLines[m].node>>, at)
                   /\ \A b \in AskedNodes : InOrder(b, at) => b \in PrintedNodes
    BY <1>1, <1>5, <1>8 DEF LinesAreRight
  <1> QED  BY <1>3, <1>6, <1>7, <1>8

LEMMA ImagineIsInStep == ImagineSpec => []ImageTreeIsTold
  <1>1. ImagineInit => ImagineInv
    <2> SUFFICES ASSUME ImagineInit, AllTrees PROVE ImagineInv
      BY DEF ImagineInit, ImagineInv
    <2>1. /\ image \in Images /\ imagine = "start" /\ tagAt = 1 /\ imageType = FALSE
          /\ treeCalls = <<>> /\ imageLines = <<>>
      BY DEF ImagineInit
    <2>2. Len(image.tags) \in Nat
      BY <2>1, TagsAre
    <2>3. ImagineTypes
      <3>1. <<>> \in Seq(DumpCall) /\ <<>> \in Seq(NodeLine)
        BY EmptySeq
      <3> QED  BY <2>1, <2>2, <3>1 DEF ImagineTypes
    <2>4. LinesAreRight /\ PrintedNodes = {}
      <3>1. DOMAIN imageLines = {}
        BY <2>1
      <3> QED  BY <3>1 DEF LinesAreRight, PrintedNodes
    <2>5. ~TypeBefore(tagAt)
      <3>1. \A s \in 1 .. 1 - 1 : FALSE
        OBVIOUS
      <3> QED  BY <2>1, <3>1 DEF TypeBefore
    <2>6. PrintedUpTo(<<tagAt, 0>>)
      <3>1. \A b \in AskedNodes : ~InOrder(b, <<1, 0>>)
        <4> TAKE b \in AskedNodes
        <4>1. b[1] \in 1 .. Len(image.tags) /\ b[2] \in 1 .. Len(image.tags[b[1]].tree)
          BY <2>1, AskedAre
        <4>2. b[1] \in Nat \ {0} /\ b[2] \in Nat
          BY <2>1, <2>2, <4>1, TagsAre DEF ArePartsOf
        <4> QED  BY <4>2 DEF InOrder
      <3> QED  BY <2>1, <2>4, <3>1 DEF PrintedUpTo
    <2>7. imageType = TypeBefore(tagAt)
      BY <2>1, <2>5 DEF TypeBefore
    <2> QED  BY <2>1, <2>3, <2>4, <2>6, <2>7 DEF ImagineInv
  <1> QED  BY <1>1, ImagineGoesOn, ImagineTells, PTL DEF ImagineSpec

\* dtize and imagine, each running as it does, print every device tree there is in
\* step: whatever the shapes and sizes, each node and property once, in order, as
\* deep as it is and under its own name; the sizes that dumpTreeNode returns and the
\* padding of dtize always lead to the next part.
THEOREM DeviceTreesAreAlwaysTold == DtizeSpec /\ ImagineSpec => []DeviceTreesAreTold
  <1>1. TreeIsTold /\ ImageTreeIsTold => DeviceTreesAreTold
    BY DEF DeviceTreesAreTold
  <1> QED  BY <1>1, DtizeIsInStep, ImagineIsInStep, PTL

-----------------------------------------------------------------------------
(* smut: the places of structures and of their strings are sums of their   *)
(* sizes, and which byte is a NUL follows from them.                       *)

SmutSpec == SmutInit /\ [][SmutNext]_smutVars

\* The strings of a structure begin behind its fixed part, each behind the NUL of
\* the one before.
LEMMA StringsArePlaced ==
    ASSUME NEW s \in Structure
    PROVE  LET n == Len(s.strings)
               at == StringPlaces(s)
           IN  /\ n \in Nat /\ s.length \in Nat /\ at \in [1 .. n + 1 -> Nat] /\ at[1] = s.length
               /\ \A j \in 1 .. n : s.strings[j] \in Nat \ {0} /\ at[j + 1] = at[j] + s.strings[j] + 1
               /\ \A i, j \in 1 .. n + 1 : i < j => at[i] < at[j]
  <1> DEFINE n == Len(s.strings)
             at == StringPlaces(s)
             rooms == [j \in 1 .. n |-> StringRoom(s, j)]
             Q(f) == f = [j \in 1 .. n + 1 |-> IF j = 1 THEN s.length ELSE f[j - 1] + StringRoom(s, j - 1)]
  <1>1. n \in Nat /\ s.length \in Nat /\ s.strings \in Seq(Nat \ {0}) /\ \A j \in 1 .. n : s.strings[j] \in Nat \ {0}
    BY DEF Structure
  <1>2. /\ rooms \in [1 .. n -> Nat \ {0}] /\ rooms \in [1 .. n -> Nat]
        /\ \A j \in 1 .. n : rooms[j] = s.strings[j] + 1 /\ rooms[j] = StringRoom(s, j)
    BY <1>1 DEF StringRoom
  <1>3. \A f : SumsOf(f, s.length, rooms, n) <=> Q(f)
    <2>1. \A j \in 1 .. n + 1 : j # 1 => rooms[j - 1] = StringRoom(s, j - 1)
      <3> TAKE j \in 1 .. n + 1
      <3>1. j # 1 => j - 1 \in 1 .. n
        BY <1>1
      <3> QED  BY <1>2, <3>1
    <2> HIDE DEF n, rooms
    <2> QED  BY <2>1 DEF SumsOf
  <1>4. at = CHOOSE f : Q(f)
    BY DEF StringPlaces
  <1>5. SumsOf(at, s.length, rooms, n)
    <2> HIDE DEF n, Q, rooms, at
    <2>1. \E f : SumsOf(f, s.length, rooms, n)
      BY <1>1, <1>2, SumsExist
    <2>2. Q(at)
      BY <1>3, <1>4, <2>1
    <2> QED  BY <1>3, <2>2
  <1> HIDE DEF n, rooms, Q, at
  <1>6. /\ at \in [1 .. n + 1 -> Nat] /\ at[1] = s.length
        /\ \A j \in 1 .. n : at[j + 1] = at[j] + rooms[j]
        /\ \A i, j \in 1 .. n + 1 : i < j => at[i] < at[j]
    <2> DEFINE first == s.length
    <2>1. first \in Nat /\ SumsOf(at, first, rooms, n)
      BY <1>1, <1>5
    <2> HIDE DEF first
    <2>2. /\ at \in [1 .. n + 1 -> Nat] /\ at[1] = first
          /\ \A j \in 1 .. n : at[j + 1] = at[j] + rooms[j]
          /\ \A i, j \in 1 .. n + 1 : i < j => at[i] < at[j]
      BY <1>1, <1>2, <2>1, SumsGrow
    <2> QED  BY <2>2 DEF first
  <1>7. \A j \in 1 .. n : s.strings[j] \in Nat \ {0} /\ at[j + 1] = at[j] + s.strings[j] + 1
    <2> TAKE j \in 1 .. n
    <2>1. j \in 1 .. n + 1 /\ at[j] \in Nat
      BY <1>1, <1>6
    <2>2. at[j + 1] = at[j] + rooms[j] /\ rooms[j] = s.strings[j] + 1 /\ s.strings[j] \in Nat \ {0}
      BY <1>1, <1>2, <1>6
    <2> QED  BY <2>1, <2>2
  <1> QED  BY <1>1, <1>6, <1>7 DEF n, at

\* What is behind the fixed part of a structure is in one of its strings or their
\* NULs, or behind all of them.
LEMMA StringsCover ==
    ASSUME NEW s \in Structure, NEW r \in Nat, s.length <= r, r < StringPlaces(s)[Len(s.strings) + 1]
    PROVE  \E j \in 1 .. Len(s.strings) : StringPlaces(s)[j] <= r /\ r < StringPlaces(s)[j + 1]
  <1> DEFINE n == Len(s.strings)
             at == StringPlaces(s)
             Later == {j \in 1 .. n + 1 : r < at[j]}
  <1>1. n \in Nat /\ at \in [1 .. n + 1 -> Nat] /\ at[1] = s.length /\ s.length \in Nat
    BY StringsArePlaced
  <1>2. r < at[n + 1]
    OBVIOUS
  <1> HIDE DEF n, at
  <1>3. n + 1 \in Later /\ Later \subseteq Nat
    BY <1>1, <1>2
  <1>4. PICK j \in Later : \A i \in Later : j <= i
    <2> HIDE DEF Later
    <2> QED  BY <1>3, LeastElement
  <1>5. j \in 1 .. n + 1 /\ r < at[j] /\ j # 1
    BY <1>1, <1>4
  <1>6. j - 1 \in 1 .. n /\ j - 1 \in 1 .. n + 1 /\ ~(j <= j - 1) /\ (j - 1) + 1 = j
    BY <1>1, <1>5
  <1>7. ~(r < at[j - 1]) /\ at[j - 1] \in Nat
    BY <1>1, <1>4, <1>6
  <1>8. at[j - 1] <= r /\ r < at[(j - 1) + 1]
    BY <1>5, <1>6, <1>7
  <1> QED  BY <1>6, <1>8 DEF n, at

\* Behind the strings are two NULs if there are none, and else one.
LEMMA StructureSizeIs ==
    ASSUME NEW s \in Structure
    PROVE  /\ StructureSize(s) \in Nat \ {0} /\ s.length + 1 < StructureSize(s)
           /\ s.strings = <<>> => StructureSize(s) = s.length + 2
           /\ s.strings # <<>> => StructureSize(s) = StringPlaces(s)[Len(s.strings) + 1] + 1
  <1> DEFINE n == Len(s.strings)
             at == StringPlaces(s)
  <1>1. /\ n \in Nat /\ s.length \in Nat /\ at \in [1 .. n + 1 -> Nat] /\ at[1] = s.length
        /\ \A i, j \in 1 .. n + 1 : i < j => at[i] < at[j]
    BY StringsArePlaced
  <1>2. s.strings = <<>> <=> n = 0
    BY EmptySeq DEF Structure
  <1>3. StructureSize(s) = at[n + 1] + (IF s.strings = <<>> THEN 2 ELSE 1)
    BY DEF StructureSize
  <1> HIDE DEF n, at
  <1>4. CASE s.strings = <<>>
    BY <1>1, <1>2, <1>3, <1>4
  <1>5. CASE s.strings # <<>>
    <2>1. 1 \in 1 .. n + 1 /\ n + 1 \in 1 .. n + 1 /\ 1 < n + 1
      BY <1>1, <1>2, <1>5
    <2>2. at[1] < at[n + 1] /\ at[n + 1] \in Nat /\ at[1] \in Nat
      BY <1>1, <2>1
    <2>3. StructureSize(s) = at[n + 1] + 1 /\ s.length < at[n + 1]
      BY <1>1, <1>3, <1>5, <2>2
    <2>4. StructureSize(s) \in Nat \ {0} /\ s.length + 1 < StructureSize(s)
      BY <1>1, <2>2, <2>3
    <2> QED  BY <1>5, <2>3, <2>4 DEF n, at
  <1> QED  BY <1>4, <1>5

\* The structures of a table follow each other.
LEMMA StructuresArePlaced ==
    ASSUME smbios \in SMBTables
    PROVE  LET n == Len(smbios) IN
           /\ n \in Nat /\ DOMAIN smbios = 1 .. n
           /\ \A k \in 1 .. n : smbios[k] \in Structure /\ smbios[k].length \in Nat \ {0}
                                /\ smbios[k].type \in {"oem", "other"}
                                /\ (smbios[k].type = "oem" => smbios[k].length = 5)
           /\ StructurePlaces \in [1 .. n + 1 -> Nat] /\ StructurePlaces[1] = 0
           /\ TableSize = StructurePlaces[n + 1]
           /\ \A k \in 1 .. n : StructurePlaces[k + 1] = StructurePlaces[k] + StructureSize(smbios[k])
           /\ \A j, k \in 1 .. n + 1 : j < k => StructurePlaces[j] < StructurePlaces[k]
  <1> DEFINE n == Len(smbios)
             at == StructurePlaces
             sizes == [k \in 1 .. n |-> StructureSize(smbios[k])]
             Q(f) == f = [k \in 1 .. n + 1 |-> IF k = 1 THEN 0 ELSE f[k - 1] + StructureSize(smbios[k - 1])]
  <1>1. /\ n \in Nat /\ smbios \in Seq(Structure) /\ DOMAIN smbios = 1 .. n
        /\ \A k \in 1 .. n : smbios[k] \in Structure
    BY SmutAssumption
  <1>2. \A k \in 1 .. n : /\ smbios[k].length \in Nat \ {0} /\ smbios[k].type \in {"oem", "other"}
                          /\ (smbios[k].type = "oem" => smbios[k].length = 5)
    <2> TAKE k \in 1 .. n
    <2>1. smbios[k].length > 0 /\ (smbios[k].type = "oem" => smbios[k].length = 5)
      BY <1>1, SmutAssumption
    <2>2. smbios[k].length \in Nat /\ smbios[k].type \in {"oem", "other"}
      BY <1>1 DEF Structure
    <2> QED  BY <2>1, <2>2
  <1>3. \A k \in 1 .. n : StructureSize(smbios[k]) \in Nat \ {0}
    BY <1>1, StructureSizeIs
  <1>4. /\ sizes \in [1 .. n -> Nat \ {0}] /\ sizes \in [1 .. n -> Nat]
        /\ \A k \in 1 .. n : sizes[k] = StructureSize(smbios[k])
    BY <1>3
  <1>5. \A f : SumsOf(f, 0, sizes, n) <=> Q(f)
    <2>1. \A k \in 1 .. n + 1 : k # 1 => sizes[k - 1] = StructureSize(smbios[k - 1])
      <3> TAKE k \in 1 .. n + 1
      <3>1. k # 1 => k - 1 \in 1 .. n
        BY <1>1
      <3> QED  BY <1>4, <3>1
    <2> HIDE DEF n, sizes
    <2> QED  BY <2>1 DEF SumsOf
  <1>6. at = CHOOSE f : Q(f)
    BY DEF StructurePlaces
  <1> HIDE DEF n, sizes, Q, at
  <1>7. SumsOf(at, 0, sizes, n)
    <2>1. \E f : SumsOf(f, 0, sizes, n)
      BY <1>1, <1>4, SumsExist
    <2>2. Q(at)
      BY <1>5, <1>6, <2>1
    <2> QED  BY <1>5, <2>2
  <1>8. /\ at \in [1 .. n + 1 -> Nat] /\ at[1] = 0
        /\ \A k \in 1 .. n : at[k + 1] = at[k] + sizes[k]
        /\ \A j, k \in 1 .. n + 1 : j < k => at[j] < at[k]
    BY <1>1, <1>4, <1>7, SumsGrow
  <1>9. TableSize = at[n + 1]
    BY DEF TableSize, n, at
  <1> QED  BY <1>1, <1>2, <1>4, <1>8, <1>9 DEF n, at

\* A byte within structure k.
LEMMA WithinStructure ==
    ASSUME smbios \in SMBTables, NEW k \in 1 .. Len(smbios), NEW o \in Nat,
           StructurePlaces[k] <= o, o < StructurePlaces[k + 1]
    PROVE  StructureAt(o) = k /\ o < TableSize
  <1> DEFINE n == Len(smbios)
             at == StructurePlaces
             Meets(j) == at[j] <= o /\ o < at[j + 1]
  <1>1. /\ n \in Nat /\ DOMAIN smbios = 1 .. n /\ at \in [1 .. n + 1 -> Nat] /\ TableSize = at[n + 1]
        /\ \A i, j \in 1 .. n + 1 : i < j => at[i] < at[j]
    BY StructuresArePlaced
  <1>2. StructureAt(o) = CHOOSE j \in 1 .. n : Meets(j)
    BY <1>1 DEF StructureAt
  <1>3. k \in 1 .. n /\ at[k] <= o /\ o < at[k + 1]
    OBVIOUS
  <1> HIDE DEF n, at
  <1>4. ASSUME NEW j \in 1 .. n, Meets(j) PROVE j = k
    <2>1. /\ j \in 1 .. n + 1 /\ j + 1 \in 1 .. n + 1 /\ k \in 1 .. n + 1 /\ k + 1 \in 1 .. n + 1
      BY <1>1, <1>3
    <2>2. at[j] \in Nat /\ at[j + 1] \in Nat /\ at[k] \in Nat /\ at[k + 1] \in Nat
      BY <1>1, <2>1
    <2>3. CASE j < k
      <3>1. j + 1 = k \/ j + 1 < k
        BY <1>3, <2>3
      <3>2. at[j + 1] <= at[k]
        BY <1>1, <2>1, <2>2, <3>1
      <3> QED  BY <1>3, <1>4, <2>2, <3>2
    <2>4. CASE k < j
      <3>1. k + 1 = j \/ k + 1 < j
        BY <1>3, <2>4
      <3>2. at[k + 1] <= at[j]
        BY <1>1, <2>1, <2>2, <3>1
      <3> QED  BY <1>3, <1>4, <2>2, <3>2
    <2> QED  BY <1>3, <2>3, <2>4
  <1>5. o < at[n + 1]
    <2>1. k + 1 \in 1 .. n + 1 /\ n + 1 \in 1 .. n + 1 /\ (k + 1 = n + 1 \/ k + 1 < n + 1)
      BY <1>1, <1>3
    <2>2. at[k + 1] <= at[n + 1] /\ at[k + 1] \in Nat /\ at[n + 1] \in Nat
      BY <1>1, <2>1
    <2> QED  BY <1>3, <2>2
  <1>6. StructureAt(o) = k
    <2>1. Meets(k)
      BY <1>3
    <2> HIDE DEF Meets
    <2> QED  BY <1>2, <1>3, <1>4, <2>1
  <1> QED  BY <1>1, <1>5, <1>6

LEMMA LowestIs ==
    ASSUME NEW S \in SUBSET Nat, NEW x \in S, \A y \in S : x <= y
    PROVE  LowestOf(S) = x
  <1> DEFINE Low(z) == \A y \in S : z <= y
  <1>1. x \in S /\ Low(x)
    OBVIOUS
  <1>2. LowestOf(S) = CHOOSE z \in S : Low(z)
    BY DEF LowestOf
  <1>3. LowestOf(S) \in S /\ Low(LowestOf(S))
    <2> HIDE DEF Low
    <2> QED  BY <1>1, <1>2
  <1>4. PICK z : z = LowestOf(S)
    OBVIOUS
  <1>5. z \in Nat /\ x \in Nat /\ z <= x /\ x <= z
    BY <1>3, <1>4
  <1> QED  BY <1>4, <1>5

\* What the bytes of structure k are.
LEMMA KindsAre ==
    ASSUME smbios \in SMBTables, NEW k \in 1 .. Len(smbios)
    PROVE  LET s == smbios[k]
               begin == StructurePlaces[k]
               at == StringPlaces(s)
               n == Len(s.strings)
           IN  \A r \in Nat : r < StructureSize(s) =>
                  /\ StructureAt(begin + r) = k /\ begin + r < TableSize
                  /\ r < s.length => KindAt(begin + r) = 0
                  /\ \A j \in 1 .. n :
                        /\ at[j] <= r /\ r < at[j] + s.strings[j] => KindAt(begin + r) = j
                        /\ r = at[j] + s.strings[j] => KindAt(begin + r) = NUL
                  /\ at[n + 1] <= r => KindAt(begin + r) = NUL
  <1> DEFINE s == smbios[k]
             begin == StructurePlaces[k]
             at == StringPlaces(s)
             n == Len(s.strings)
  <1>1. /\ s \in Structure /\ begin \in Nat /\ StructureSize(s) \in Nat
        /\ StructurePlaces[k + 1] = begin + StructureSize(s)
    <2>1. k \in 1 .. Len(smbios) + 1 /\ Len(smbios) \in Nat
      BY StructuresArePlaced
    <2>2. s \in Structure
      BY StructuresArePlaced
    <2> QED  BY <2>1, <2>2, StructuresArePlaced, StructureSizeIs
  <1>2. /\ n \in Nat /\ s.length \in Nat /\ at \in [1 .. n + 1 -> Nat] /\ at[1] = s.length
        /\ DOMAIN s.strings = 1 .. n
        /\ \A j \in 1 .. n : s.strings[j] \in Nat \ {0} /\ at[j + 1] = at[j] + s.strings[j] + 1
        /\ \A i, j \in 1 .. n + 1 : i < j => at[i] < at[j]
    BY <1>1, StringsArePlaced DEF Structure
  <1> SUFFICES ASSUME NEW r \in Nat, r < StructureSize(s)
               PROVE  /\ StructureAt(begin + r) = k /\ begin + r < TableSize
                      /\ r < s.length => KindAt(begin + r) = 0
                      /\ \A j \in 1 .. n :
                            /\ at[j] <= r /\ r < at[j] + s.strings[j] => KindAt(begin + r) = j
                            /\ r = at[j] + s.strings[j] => KindAt(begin + r) = NUL
                      /\ at[n + 1] <= r => KindAt(begin + r) = NUL
    OBVIOUS
  <1> DEFINE o == begin + r
             stringsAt == {j \in 1 .. n : at[j] <= r /\ r < at[j] + s.strings[j]}
  <1>3. o \in Nat /\ StructurePlaces[k] <= o /\ o < StructurePlaces[k + 1] /\ o - begin = r
    BY <1>1
  <1>4. StructureAt(o) = k /\ o < TableSize
    <2> HIDE DEF o
    <2> QED  BY <1>3, WithinStructure
  <1>5. KindAt(o) = IF r < s.length THEN 0 ELSE IF stringsAt = {} THEN NUL ELSE LowestOf(stringsAt)
    <2> DEFINE K(q, w) == IF w < q.length THEN 0
                          ELSE IF {j \in DOMAIN q.strings : StringPlaces(q)[j] <= w /\ w < StringPlaces(q)[j] + q.strings[j]} = {}
                          THEN NUL
                          ELSE LowestOf({j \in DOMAIN q.strings : StringPlaces(q)[j] <= w /\ w < StringPlaces(q)[j] + q.strings[j]})
    <2>1. KindAt(o) = K(smbios[StructureAt(o)], o - StructurePlaces[StructureAt(o)])
      BY DEF KindAt
    <2>2. KindAt(o) = K(s, r)
      <3> HIDE DEF K, o
      <3> QED  BY <1>3, <1>4, <2>1
    <2> QED  BY <1>2, <2>2
  <1> HIDE DEF n, at, begin, o, s
  <1>6. ASSUME NEW j \in 1 .. n PROVE at[j] \in Nat /\ s.length <= at[j] /\ at[j + 1] \in Nat /\ j \in 1 .. n + 1 /\ j + 1 \in 1 .. n + 1
    <2>1. 1 \in 1 .. n + 1 /\ j \in 1 .. n + 1 /\ j + 1 \in 1 .. n + 1 /\ (j = 1 \/ 1 < j)
      BY <1>2
    <2>2. at[1] = s.length /\ at[j] \in Nat /\ at[j + 1] \in Nat /\ (1 < j => at[1] < at[j])
      BY <1>2, <2>1
    <2>3. s.length <= at[j]
      BY <1>2, <2>1, <2>2
    <2> QED  BY <2>1, <2>2, <2>3
  <1>7. ASSUME NEW i \in 1 .. n, NEW j \in 1 .. n, i < j PROVE at[i] + s.strings[i] + 1 <= at[j]
    <2>1. i + 1 = j \/ i + 1 < j
      BY <1>2, <1>7
    <2>2. i + 1 \in 1 .. n + 1 /\ j \in 1 .. n + 1 /\ at[i + 1] = at[i] + s.strings[i] + 1 /\ at[j] \in Nat /\ at[i + 1] \in Nat
      BY <1>2, <1>6
    <2>3. at[i + 1] <= at[j]
      <3>1. i + 1 < j => at[i + 1] < at[j]
        BY <1>2, <2>2
      <3> QED  BY <2>1, <2>2, <3>1
    <2>4. at[i] \in Nat /\ s.strings[i] \in Nat
      BY <1>2, <1>6
    <2> QED  BY <2>2, <2>3, <2>4
  <1>8. ASSUME NEW j \in 1 .. n, at[j] <= r, r <= at[j] + s.strings[j]
        PROVE  /\ \A i \in stringsAt : i = j
               /\ r < at[j] + s.strings[j] => j \in stringsAt
               /\ ~(r < s.length)
    <2>1. ASSUME NEW i \in stringsAt PROVE i = j
      <3>1. i \in 1 .. n /\ at[i] <= r /\ r < at[i] + s.strings[i] /\ at[i] \in Nat /\ at[j] \in Nat
            /\ s.strings[i] \in Nat /\ s.strings[j] \in Nat
        BY <1>2, <1>6
      <3>2. PICK a, b, c, d : a = at[i] /\ b = at[j] /\ c = s.strings[i] /\ d = s.strings[j]
        OBVIOUS
      <3>3. /\ a \in Nat /\ b \in Nat /\ c \in Nat /\ d \in Nat /\ r \in Nat
            /\ a <= r /\ r < a + c /\ b <= r /\ r <= b + d
        BY <1>8, <3>1, <3>2
      <3>4. (i < j => a + c + 1 <= b) /\ (j < i => b + d + 1 <= a)
        BY <1>7, <3>1, <3>2
      <3>5. i \in Int /\ j \in Int
        BY <3>1
      <3> HIDE DEF stringsAt
      <3> QED  BY <3>3, <3>4, <3>5
    <2>2. r < at[j] + s.strings[j] => j \in stringsAt
      BY <1>8
    <2>3. ~(r < s.length)
      <3>1. PICK a, l : a = at[j] /\ l = s.length
        OBVIOUS
      <3>2. a \in Nat /\ l <= a /\ a <= r /\ l \in Nat /\ r \in Nat
        BY <1>2, <1>6, <1>8, <3>1
      <3> QED  BY <3>1, <3>2
    <2> HIDE DEF stringsAt
    <2> QED  BY <2>1, <2>2, <2>3
  <1>9. ASSUME NEW j \in 1 .. n, at[j] <= r, r < at[j] + s.strings[j] PROVE KindAt(o) = j
    <2>1. s.strings[j] \in Nat /\ at[j] \in Nat
      BY <1>2, <1>6
    <2>2. r <= at[j] + s.strings[j]
      BY <1>9, <2>1
    <2>3. j \in stringsAt /\ (\A i \in stringsAt : i = j) /\ ~(r < s.length)
      BY <1>8, <1>9, <2>2
    <2>4. stringsAt # {} /\ LowestOf(stringsAt) = j
      <3>1. PICK S : S = stringsAt
        OBVIOUS
      <3>2. S \in SUBSET Nat /\ j \in S /\ \A i \in S : j <= i
        <4> HIDE DEF stringsAt
        <4>1. S = {j}
          BY <2>3, <3>1, Zenon
        <4>2. j \in Nat
          OBVIOUS
        <4> QED  BY <4>1, <4>2
      <3>3. LowestOf(S) = j
        BY <3>2, LowestIs
      <3> HIDE DEF stringsAt
      <3> QED  BY <3>1, <3>2, <3>3
    <2> HIDE DEF stringsAt
    <2> QED  BY <1>5, <2>3, <2>4
  <1>10. ASSUME NEW j \in 1 .. n, r = at[j] + s.strings[j] PROVE KindAt(o) = NUL
    <2>1. s.strings[j] \in Nat /\ at[j] \in Nat
      BY <1>2, <1>6
    <2>2. at[j] <= r /\ r <= at[j] + s.strings[j] /\ ~(r < at[j] + s.strings[j])
      BY <1>10, <2>1
    <2>3. (\A i \in stringsAt : i = j) /\ ~(r < s.length) /\ j \notin stringsAt
      BY <1>8, <2>2
    <2> HIDE DEF stringsAt
    <2> QED  BY <1>5, <2>3
  <1>11. ASSUME at[n + 1] <= r PROVE KindAt(o) = NUL
    <2>1. at[n + 1] \in Nat /\ s.length <= at[n + 1]
      <3>1. 1 \in 1 .. n + 1 /\ n + 1 \in 1 .. n + 1 /\ (n + 1 = 1 \/ 1 < n + 1)
        BY <1>2
      <3> QED  BY <1>2, <3>1
    <2>2. stringsAt = {}
      <3> SUFFICES ASSUME NEW j \in stringsAt PROVE FALSE
        OBVIOUS
      <3>1. j \in 1 .. n /\ r < at[j] + s.strings[j] /\ at[j] \in Nat /\ s.strings[j] \in Nat /\ at[j + 1] \in Nat
        BY <1>2, <1>6
      <3>2. at[j + 1] = at[j] + s.strings[j] + 1 /\ (j + 1 = n + 1 \/ j + 1 < n + 1)
        BY <1>2, <3>1
      <3>3. j + 1 \in 1 .. n + 1 /\ n + 1 \in 1 .. n + 1
        BY <1>2, <3>1
      <3>4. at[j + 1] <= at[n + 1]
        BY <1>2, <2>1, <3>1, <3>2, <3>3
      <3> QED  BY <1>11, <2>1, <3>1, <3>2, <3>4
    <2> HIDE DEF stringsAt
    <2>3. ~(r < s.length)
      BY <1>2, <1>11, <2>1
    <2> QED  BY <1>5, <2>2, <2>3
  <1>12. r < s.length => KindAt(o) = 0
    <2> HIDE DEF stringsAt
    <2> QED  BY <1>5
  <1> QED  BY <1>4, <1>9, <1>10, <1>11, <1>12 DEF o

\* Between the fixed part and its last byte, no two NULs of a structure with
\* strings follow each other.
LEMMA NoTwoNULs ==
    ASSUME smbios \in SMBTables, NEW k \in 1 .. Len(smbios), smbios[k].strings # <<>>,
           NEW r \in Nat, smbios[k].length < r, r + 1 < StructureSize(smbios[k]),
           KindAt(StructurePlaces[k] + r) = NUL
    PROVE  KindAt(StructurePlaces[k] + (r - 1)) # NUL
  <1> DEFINE s == smbios[k]
             begin == StructurePlaces[k]
             at == StringPlaces(s)
             n == Len(s.strings)
  <1>1. s \in Structure /\ begin \in Nat
    <2>1. k \in 1 .. Len(smbios) + 1 /\ Len(smbios) \in Nat
      BY StructuresArePlaced
    <2> QED  BY <2>1, StructuresArePlaced
  <1>2. /\ n \in Nat /\ s.length \in Nat /\ at \in [1 .. n + 1 -> Nat]
        /\ \A j \in 1 .. n : s.strings[j] \in Nat \ {0} /\ at[j + 1] = at[j] + s.strings[j] + 1
    BY <1>1, StringsArePlaced
  <1>3. StructureSize(s) = at[n + 1] + 1 /\ at[n + 1] \in Nat
    <2>1. n + 1 \in 1 .. n + 1
      BY <1>2
    <2> QED  BY <1>1, <1>2, <2>1, StructureSizeIs
  <1>4. s.length <= r /\ r < at[n + 1] /\ r < StructureSize(s) /\ r - 1 \in Nat /\ r - 1 < StructureSize(s)
    BY <1>2, <1>3
  <1>5. PICK j \in 1 .. n : at[j] <= r /\ r < at[j + 1]
    BY <1>1, <1>4, StringsCover
  <1>6. at[j] \in Nat /\ s.strings[j] \in Nat \ {0} /\ at[j + 1] = at[j] + s.strings[j] + 1
    <2>1. j \in 1 .. n + 1
      BY <1>2
    <2> QED  BY <1>2, <2>1
  <1>7. \A q \in Nat : q < StructureSize(s) /\ at[j] <= q /\ q < at[j] + s.strings[j] => KindAt(begin + q) = j
    BY KindsAre
  <1>8. j # NUL
    BY DEF NUL
  <1> HIDE DEF n, at, begin, s
  <1>9. ~(r < at[j] + s.strings[j])
    BY <1>4, <1>5, <1>7, <1>8 DEF begin
  <1>10. at[j] <= r - 1 /\ r - 1 < at[j] + s.strings[j]
    BY <1>5, <1>6, <1>9
  <1>11. KindAt(begin + (r - 1)) = j
    BY <1>4, <1>7, <1>10
  <1> QED  BY <1>8, <1>11 DEF begin

\* The n-th of a set of numbers, the first n of which are f[1], f[2] ...
LEMMA NthIs ==
    ASSUME NEW S \in SUBSET Nat, IsFiniteSet(S), NEW n \in Nat \ {0}, NEW f \in [1 .. n -> S],
           \A i, j \in 1 .. n : i < j => f[i] < f[j],
           \A x \in S : x < f[n] => \E i \in 1 .. n : x = f[i]
    PROVE  /\ n <= Cardinality(S)
           /\ (CHOOSE x \in S : Cardinality({m \in S : m < x}) = n - 1) = f[n]
  <1> DEFINE Below(x) == {m \in S : m < x}
             g == [i \in 1 .. n - 1 |-> f[i]]
  <1>0. \A x \in S : x \in Nat
    OBVIOUS
  <1>1. /\ f[n] \in S /\ f[n] \in Nat /\ n \in 1 .. n /\ n - 1 \in Nat
        /\ \A i \in 1 .. n - 1 : i \in 1 .. n /\ i < n
    <2>1. n \in 1 .. n /\ n - 1 \in Nat /\ \A i \in 1 .. n - 1 : i \in 1 .. n /\ i < n
      OBVIOUS
    <2>2. f[n] \in S
      BY <2>1
    <2> QED  BY <1>0, <2>1, <2>2
  <1>2. \A x \in S : Below(x) \in SUBSET S /\ IsFiniteSet(Below(x)) /\ Cardinality(Below(x)) \in Nat
    <2> TAKE x \in S
    <2>1. Below(x) \in SUBSET S
      OBVIOUS
    <2> HIDE DEF Below
    <2> QED  BY <2>1, FS_Subset, FS_CardinalityType
  <1>3. Cardinality(Below(f[n])) = n - 1
    <2>1. \A i \in 1 .. n - 1 : f[i] \in Below(f[n])
      <3> TAKE i \in 1 .. n - 1
      <3>1. i \in 1 .. n /\ i < n
        BY <1>1
      <3> QED  BY <1>1, <3>1
    <2>2. \A x \in Below(f[n]) : \E i \in 1 .. n - 1 : x = f[i]
      <3> SUFFICES ASSUME NEW x \in S, x < f[n] PROVE \E i \in 1 .. n - 1 : x = f[i]
        OBVIOUS
      <3>1. PICK i \in 1 .. n : x = f[i]
        OBVIOUS
      <3>2. i # n
        BY <1>1, <3>1
      <3> QED  BY <3>1, <3>2
    <2>3. \A i, j \in 1 .. n - 1 : f[i] = f[j] => i = j
      <3> SUFFICES ASSUME NEW i \in 1 .. n - 1, NEW j \in 1 .. n - 1, f[i] = f[j] PROVE i = j
        OBVIOUS
      <3>1. i \in 1 .. n /\ j \in 1 .. n /\ f[i] \in Nat
        BY <1>1
      <3>2. ~(i < j) /\ ~(j < i)
        BY <3>1
      <3> QED  BY <3>1, <3>2
    <2> HIDE DEF Below
    <2>4. g \in Surjection(1 .. n - 1, Below(f[n])) /\ g \in Injection(1 .. n - 1, Below(f[n]))
      <3>1. g \in [1 .. n - 1 -> Below(f[n])]
        BY <2>1
      <3>2. \A x \in Below(f[n]) : \E i \in 1 .. n - 1 : g[i] = x
        BY <2>2
      <3>3. \A i, j \in 1 .. n - 1 : g[i] = g[j] => i = j
        BY <2>3
      <3> HIDE DEF g
      <3> QED  BY <3>1, <3>2, <3>3 DEF Surjection, Injection, IsInjective
    <2>5. IsFiniteSet(1 .. n - 1) /\ Cardinality(1 .. n - 1) = n - 1
      <3>1. 1 \in Int /\ n - 1 \in Int
        OBVIOUS
      <3>2. IsFiniteSet(1 .. n - 1) /\ Cardinality(1 .. n - 1) = IF 1 > n - 1 THEN 0 ELSE (n - 1) - 1 + 1
        BY <3>1, FS_Interval
      <3> QED  BY <1>1, <3>2
    <2> HIDE DEF g
    <2>6. Cardinality(Below(f[n])) = Cardinality(1 .. n - 1)
      BY <2>4, <2>5, FS_Surjection
    <2> QED  BY <2>5, <2>6
  <1>4. \A x, y \in S : x < y => Cardinality(Below(x)) < Cardinality(Below(y))
    <2> SUFFICES ASSUME NEW x \in S, NEW y \in S, x < y PROVE Cardinality(Below(x)) < Cardinality(Below(y))
      OBVIOUS
    <2>1. Below(x) \in SUBSET Below(y) /\ x \in Below(y) /\ x \notin Below(x)
      <3>1. x \in Nat /\ y \in Nat /\ x < y /\ \A m \in S : m \in Nat
        BY <1>0
      <3>2. ~(x < x) /\ \A m \in S : m < x => m < y
        <4>1. ~(x < x)
          BY <3>1
        <4>2. ASSUME NEW m \in S, m < x PROVE m < y
          <5>1. m \in Nat
            BY <1>0
          <5> QED  BY <3>1, <4>2, <5>1
        <4> QED  BY <4>1, <4>2
      <3> QED  BY <3>1, <3>2
    <2> HIDE DEF Below
    <2>2. Cardinality(Below(x)) <= Cardinality(Below(y)) /\ Cardinality(Below(y)) # Cardinality(Below(x))
      BY <1>2, <2>1, FS_Subset
    <2> QED  BY <1>2, <2>2
  <1>5. n <= Cardinality(S)
    <2>1. Below(f[n]) \in SUBSET S /\ f[n] \notin Below(f[n])
      <3>1. ~(f[n] < f[n])
        BY <1>1
      <3> QED  BY <3>1
    <2> HIDE DEF Below
    <2>2. n - 1 <= Cardinality(S) /\ n - 1 # Cardinality(S) /\ Cardinality(S) \in Nat
      BY <1>1, <1>2, <1>3, <2>1, FS_Subset, FS_CardinalityType
    <2> QED  BY <2>2
  <1>6. (CHOOSE x \in S : Cardinality(Below(x)) = n - 1) = f[n]
    <2>1. \A x \in S : Cardinality(Below(x)) = n - 1 => x = f[n]
      <3> SUFFICES ASSUME NEW x \in S, Cardinality(Below(x)) = n - 1, x # f[n] PROVE FALSE
        OBVIOUS
      <3>1. PICK y : y = f[n]
        OBVIOUS
      <3>2. x \in Nat /\ y \in Nat /\ y \in S /\ x # y
        BY <1>0, <1>1, <3>1
      <3>3. x < y \/ y < x
        BY <3>2
      <3> HIDE DEF Below
      <3>4. Cardinality(Below(x)) \in Nat /\ Cardinality(Below(y)) \in Nat /\ Cardinality(Below(y)) = n - 1
        BY <1>2, <1>3, <3>1, <3>2
      <3>5. Cardinality(Below(x)) < Cardinality(Below(y)) \/ Cardinality(Below(y)) < Cardinality(Below(x))
        BY <1>4, <3>2, <3>3
      <3> QED  BY <3>4, <3>5
    <2> HIDE DEF Below
    <2> QED  BY <1>1, <1>3, <2>1
  <1> QED  BY <1>5, <1>6

\* Reading strings that begin behind the fixed part ends behind the structure.
LEMMA StringsFromFirst ==
    ASSUME smbios \in SMBTables, NEW k \in 1 .. Len(smbios), smbios[k].strings # <<>>
    PROVE  StringsFrom(StructurePlaces[k] + smbios[k].length) = StructurePlaces[k + 1]
  <1> DEFINE s == smbios[k]
             begin == StructurePlaces[k]
             at == StringPlaces(s)
             n == Len(s.strings)
             size == StructureSize(s)
             o == begin + s.length
             Stops == {e \in o .. TableSize - 1 : KindAt(e) = NUL /\ (e = o \/ KindAt(e - 1) = NUL)}
  <1>1. /\ s \in Structure /\ begin \in Nat /\ s.length \in Nat \ {0}
        /\ StructurePlaces[k + 1] = begin + size /\ TableSize \in Nat
    <2>1. k \in 1 .. Len(smbios) + 1 /\ Len(smbios) \in Nat /\ Len(smbios) + 1 \in 1 .. Len(smbios) + 1
      BY StructuresArePlaced
    <2> QED  BY <2>1, StructuresArePlaced
  <1>2. /\ n \in Nat \ {0} /\ at \in [1 .. n + 1 -> Nat] /\ at[1] = s.length
        /\ \A j \in 1 .. n : s.strings[j] \in Nat \ {0} /\ at[j + 1] = at[j] + s.strings[j] + 1
        /\ \A i, j \in 1 .. n + 1 : i < j => at[i] < at[j]
    <2>1. n # 0
      BY <1>1, EmptySeq DEF Structure
    <2> QED  BY <1>1, <2>1, StringsArePlaced
  <1>3. size = at[n + 1] + 1 /\ size \in Nat
    BY <1>1, StructureSizeIs
  <1>4. \A r \in Nat : r < size =>
           /\ begin + r < TableSize
           /\ \A j \in 1 .. n :
                 /\ at[j] <= r /\ r < at[j] + s.strings[j] => KindAt(begin + r) = j
                 /\ r = at[j] + s.strings[j] => KindAt(begin + r) = NUL
           /\ at[n + 1] <= r => KindAt(begin + r) = NUL
    BY KindsAre
  <1>5. \A r \in Nat : s.length < r /\ r + 1 < size /\ KindAt(begin + r) = NUL => KindAt(begin + (r - 1)) # NUL
    BY NoTwoNULs
  <1>6. StringsFrom(o) = IF Stops = {} THEN Outside ELSE LowestOf(Stops) + 1
    BY DEF StringsFrom
  <1> HIDE DEF n, at, begin, s, size
  <1>7. /\ n \in 1 .. n /\ n \in 1 .. n + 1 /\ n + 1 \in 1 .. n + 1 /\ 1 \in 1 .. n /\ 1 \in 1 .. n + 1
        /\ at[n] \in Nat /\ at[n + 1] \in Nat /\ s.strings[n] \in Nat \ {0} /\ at[n + 1] = at[n] + s.strings[n] + 1
        /\ s.strings[1] \in Nat \ {0} /\ at[1] < at[n + 1]
    BY <1>2
  <1>71. PICK a, b, c, l : a = at[n + 1] /\ b = at[n] /\ c = s.strings[n] /\ l = s.length
    OBVIOUS
  <1>72. /\ a \in Nat /\ b \in Nat /\ c \in Nat \ {0} /\ a = b + c + 1 /\ l \in Nat /\ l < a
         /\ size = a + 1 /\ begin \in Nat /\ o = begin + l /\ at[1] = l
    BY <1>1, <1>2, <1>3, <1>7, <1>71
  <1> DEFINE x == begin + a
  <1>8. x \in Stops
    <2>1. KindAt(x) = NUL /\ x < TableSize
      <3>1. a \in Nat /\ a < size /\ at[n + 1] <= a
        BY <1>71, <1>72
      <3>2. \A q \in Nat : q < size /\ at[n + 1] <= q => begin + q < TableSize /\ KindAt(begin + q) = NUL
        BY <1>4
      <3>3. begin + a < TableSize /\ KindAt(begin + a) = NUL
        BY <3>1, <3>2
      <3> QED  BY <3>3
    <2>2. b + c \in Nat /\ b + c < size /\ begin + (b + c) = x - 1
      BY <1>72
    <2>3. KindAt(begin + (b + c)) = NUL
      BY <1>4, <1>7, <1>71, <2>2
    <2>4. x \in o .. TableSize - 1
      <3>1. PICK p, t, y, z : p = begin /\ t = TableSize /\ y = x /\ z = o
        OBVIOUS
      <3>2. p \in Nat /\ t \in Nat /\ a \in Nat /\ l \in Nat /\ l < a /\ y = p + a /\ z = p + l /\ y < t
        BY <1>1, <1>72, <2>1, <3>1
      <3>3. y \in z .. t - 1
        BY <3>2
      <3> QED  BY <3>1, <3>3
    <2> QED  BY <2>1, <2>2, <2>3, <2>4
  <1>9. ASSUME NEW y \in Stops PROVE x <= y
    <2> SUFFICES ASSUME y < x PROVE FALSE
      BY <1>1, <1>72
    <2>1. y \in o .. TableSize - 1 /\ KindAt(y) = NUL /\ (y = o \/ KindAt(y - 1) = NUL)
      OBVIOUS
    <2>2. PICK r : r = y - begin
      OBVIOUS
    <2>3. /\ r \in Nat /\ y = begin + r /\ y - 1 = begin + (r - 1)
          /\ l <= r /\ r < size /\ r + 1 < size /\ (y = o <=> r = l)
      <3>1. PICK p, t, q : p = begin /\ t = TableSize /\ q = o
        OBVIOUS
      <3>2. y \in p + l .. t - 1 /\ p \in Nat /\ t \in Nat /\ r = y - p /\ y < p + a /\ q = p + l
        BY <1>1, <1>72, <2>1, <2>2, <3>1
      <3>3. y \in Int /\ p + l <= y /\ l \in Nat /\ a \in Nat
        BY <1>72, <3>2
      <3>4. r \in Int /\ y = p + r
        BY <3>2, <3>3
      <3>5. l <= r /\ r < a /\ y - 1 = p + (r - 1) /\ (y = q <=> r = l)
        BY <3>2, <3>3, <3>4
      <3>6. r \in Nat
        BY <3>3, <3>4, <3>5
      <3> QED  BY <1>72, <3>1, <3>4, <3>5, <3>6
    <2>4. CASE r = l
      <3>1. at[1] <= r /\ r < at[1] + s.strings[1]
        <4>1. PICK first : first = s.strings[1]
          OBVIOUS
        <4>2. first \in Nat \ {0} /\ r < l + first
          BY <1>7, <1>72, <2>4, <4>1
        <4> QED  BY <1>72, <2>4, <4>1, <4>2
      <3>2. KindAt(begin + r) = 1
        BY <1>4, <1>7, <2>3, <3>1
      <3> QED  BY <2>1, <2>3, <3>2 DEF NUL
    <2>5. CASE r # l
      <3>1. s.length < r
        BY <1>71, <1>72, <2>3, <2>5
      <3>2. KindAt(begin + (r - 1)) = NUL
        BY <2>1, <2>3, <2>5
      <3>3. KindAt(begin + r) = NUL
        BY <2>1, <2>3
      <3> HIDE DEF Stops
      <3> QED  BY <1>5, <2>3, <3>1, <3>2, <3>3
    <2> QED  BY <2>4, <2>5
  <1>10. Stops \in SUBSET Nat
    BY <1>1
  <1> HIDE DEF Stops, x, o
  <1>11. StringsFrom(o) = x + 1
    BY <1>6, <1>8, <1>9, <1>10, LowestIs
  <1>12. x + 1 = begin + size
    BY <1>72 DEF x
  <1> QED  BY <1>1, <1>11, <1>12 DEF o, begin, s

\* Of the two NULs of a structure without strings, the second is the last.
LEMMA StringsFromSecond ==
    ASSUME smbios \in SMBTables, NEW k \in 1 .. Len(smbios), smbios[k].strings = <<>>
    PROVE  /\ KindAt(StructurePlaces[k] + smbios[k].length + 1) = NUL
           /\ StringsFrom(StructurePlaces[k] + smbios[k].length + 1) = StructurePlaces[k + 1]
  <1> DEFINE s == smbios[k]
             begin == StructurePlaces[k]
             at == StringPlaces(s)
             n == Len(s.strings)
             size == StructureSize(s)
             r == s.length + 1
             o == begin + r
             Stops == {e \in o .. TableSize - 1 : KindAt(e) = NUL /\ (e = o \/ KindAt(e - 1) = NUL)}
  <1>1. /\ s \in Structure /\ begin \in Nat /\ s.length \in Nat
        /\ StructurePlaces[k + 1] = begin + size /\ TableSize \in Nat
    <2>1. k \in 1 .. Len(smbios) + 1 /\ Len(smbios) \in Nat /\ Len(smbios) + 1 \in 1 .. Len(smbios) + 1
      BY StructuresArePlaced
    <2> QED  BY <2>1, StructuresArePlaced
  <1>2. at[n + 1] = s.length /\ size = s.length + 2
    <2>1. n = 0
      BY EmptySeq
    <2> QED  BY <1>1, <2>1, StringsArePlaced, StructureSizeIs
  <1>3. KindAt(o) = NUL /\ o < TableSize
    <2>1. r \in Nat /\ r < size /\ at[n + 1] <= r
      BY <1>1, <1>2
    <2> HIDE DEF n, at, begin, s, size, r
    <2>2. begin + r < TableSize /\ KindAt(begin + r) = NUL
      BY <2>1, KindsAre DEF n, at, begin, s, size
    <2> QED  BY <2>2
  <1>4. StringsFrom(o) = IF Stops = {} THEN Outside ELSE LowestOf(Stops) + 1
    BY DEF StringsFrom
  <1>5. o = begin + s.length + 1 /\ o + 1 = begin + size
    <2>1. PICK b, l, z : b = begin /\ l = s.length /\ z = size
      OBVIOUS
    <2>2. b \in Nat /\ l \in Nat /\ z = l + 2 /\ o = b + (l + 1)
      BY <1>1, <1>2, <2>1
    <2> HIDE DEF o, begin, s, size
    <2>3. o = b + l + 1 /\ o + 1 = b + z
      BY <2>2
    <2> QED  BY <2>1, <2>3
  <1> HIDE DEF n, at, begin, s, size, r, o
  <1>6. o \in Nat
    BY <1>1, <1>5
  <1>7. o \in Stops /\ Stops \in SUBSET Nat /\ \A y \in Stops : o <= y
    BY <1>1, <1>3, <1>6
  <1> HIDE DEF Stops
  <1>8. StringsFrom(o) = o + 1
    BY <1>4, <1>7, LowestIs
  <1> QED  BY <1>1, <1>3, <1>5, <1>8 DEF begin, s

\* The string with a number of the structure the walk is at is found.
LEMMA StringIsFound ==
    ASSUME smbios \in SMBTables, NEW k \in 1 .. Len(smbios), Offset = StructurePlaces[k],
           NEW j \in 1 .. Len(smbios[k].strings)
    PROVE  getSMBString(k, j) = <<k, j>>
  <1> DEFINE s == smbios[k]
             begin == StructurePlaces[k]
             at == StringPlaces(s)
             n == Len(s.strings)
             size == StructureSize(s)
             first == begin + s.length
             nuls == {o \in first .. TableSize - 1 : KindAt(o) = NUL}
             found == IF j - 1 = 0 THEN first
                      ELSE 1 + CHOOSE x \in nuls : Cardinality({m \in nuls : m < x}) = (j - 1) - 1
  <1>1. /\ s \in Structure /\ begin \in Nat /\ s.length \in Nat /\ TableSize \in Nat
    <2>1. k \in 1 .. Len(smbios) + 1 /\ Len(smbios) \in Nat /\ Len(smbios) + 1 \in 1 .. Len(smbios) + 1
      BY StructuresArePlaced
    <2> QED  BY <2>1, StructuresArePlaced
  <1>2. /\ n \in Nat \ {0} /\ at \in [1 .. n + 1 -> Nat] /\ at[1] = s.length
        /\ \A i \in 1 .. n : s.strings[i] \in Nat \ {0} /\ at[i + 1] = at[i] + s.strings[i] + 1
        /\ \A i, m \in 1 .. n + 1 : i < m => at[i] < at[m]
    BY <1>1, StringsArePlaced
  <1>3. size = at[n + 1] + 1 /\ size \in Nat
    <2>1. s.strings # <<>>
      BY <1>2
    <2> QED  BY <1>1, <2>1, StructureSizeIs
  <1>4. \A r \in Nat : r < size =>
           /\ StructureAt(begin + r) = k /\ begin + r < TableSize
           /\ \A i \in 1 .. n :
                 /\ at[i] <= r /\ r < at[i] + s.strings[i] => KindAt(begin + r) = i
                 /\ r = at[i] + s.strings[i] => KindAt(begin + r) = NUL
    BY KindsAre
  <1>5. \A r \in Nat : s.length <= r /\ r < at[n + 1] => \E i \in 1 .. n : at[i] <= r /\ r < at[i + 1]
    BY <1>1, StringsCover
  <1>6. j \in Nat /\ j # 0 /\ (IF j = 0 THEN 0 ELSE j - 1) = j - 1
    BY <1>2
  <1>7. getSMBString(k, j) = IF j - 1 > Cardinality(nuls) \/ found >= TableSize THEN <<Outside, 0>>
                             ELSE IF KindAt(found) = NUL THEN <<k, 0>> ELSE <<StructureAt(found), KindAt(found)>>
    BY <1>6 DEF getSMBString
  <1>8. IsFiniteSet(nuls) /\ Cardinality(nuls) \in Nat /\ nuls \in SUBSET Nat
    <2>1. PICK p, t : p = first /\ t = TableSize - 1
      OBVIOUS
    <2>2. p \in Nat /\ t \in Int /\ nuls \in SUBSET (p .. t)
      BY <1>1, <2>1
    <2>3. IsFiniteSet(p .. t) /\ p .. t \subseteq Nat
      <3>1. p \in Int /\ p .. t \subseteq Nat
        BY <2>2
      <3>2. IsFiniteSet(p .. t)
        BY <2>2, <3>1, FS_Interval
      <3> QED  BY <3>1, <3>2
    <2> HIDE DEF nuls
    <2> QED  BY <2>2, <2>3, FS_Subset, FS_CardinalityType
  <1> HIDE DEF n, at, begin, s, size
  <1>9. j \in 1 .. n /\ j \in 1 .. n + 1 /\ j + 1 \in 1 .. n + 1 /\ n + 1 \in 1 .. n + 1 /\ at[j] \in Nat
        /\ at[j] < at[n + 1] /\ at[n + 1] \in Nat /\ s.length <= at[j] /\ 1 \in 1 .. n + 1
    <2>1. j \in 1 .. n
      BY DEF n, s
    <2>2. j \in 1 .. n + 1 /\ j + 1 \in 1 .. n + 1 /\ n + 1 \in 1 .. n + 1 /\ 1 \in 1 .. n + 1
          /\ j < n + 1 /\ (j = 1 \/ 1 < j)
      <3>1. n \in Nat
        BY <1>2
      <3> QED  BY <2>1, <3>1
    <2>3. at[j] \in Nat /\ at[n + 1] \in Nat /\ at[j] < at[n + 1]
      BY <1>2, <2>2
    <2>4. s.length <= at[j]
      <3>1. 1 < j => at[1] < at[j]
        BY <1>2, <2>2
      <3> QED  BY <1>1, <1>2, <2>2, <2>3, <3>1
    <2> QED  BY <2>1, <2>2, <2>3, <2>4
  <1>10. /\ begin + at[j] < TableSize /\ StructureAt(begin + at[j]) = k /\ KindAt(begin + at[j]) = j
    <2>1. PICK a, b, c : a = at[j] /\ b = at[n + 1] /\ c = s.strings[j]
      OBVIOUS
    <2>2. a \in Nat /\ a < size /\ c \in Nat \ {0} /\ at[j] <= a /\ a < at[j] + s.strings[j]
      <3>1. a \in Nat /\ b \in Nat /\ a < b /\ size = b + 1 /\ c \in Nat \ {0}
        BY <1>2, <1>3, <1>9, <2>1
      <3>2. a < size /\ a <= a /\ a < a + c
        BY <3>1
      <3> QED  BY <2>1, <3>1, <3>2
    <2>3. begin + a < TableSize /\ StructureAt(begin + a) = k /\ KindAt(begin + a) = j
      BY <1>4, <1>9, <2>2
    <2> QED  BY <2>1, <2>3
  <1>11. found = begin + at[j] /\ j - 1 <= Cardinality(nuls)
    <2>1. CASE j = 1
      BY <1>2, <1>8, <2>1
    <2>2. CASE j # 1
      <3> DEFINE c == j - 1
                 f == [i \in 1 .. c |-> begin + at[i] + s.strings[i]]
      <3>1. c \in Nat \ {0} /\ c \in 1 .. n /\ c + 1 = j /\ \A i \in 1 .. c : i \in 1 .. n /\ i \in 1 .. n + 1 /\ i + 1 \in 1 .. n + 1
        BY <1>2, <1>9, <2>2
      <3>2. \A i \in 1 .. n : /\ at[i] \in Nat /\ s.strings[i] \in Nat \ {0} /\ at[i + 1] = at[i] + s.strings[i] + 1
                              /\ s.length <= at[i] /\ at[i] + s.strings[i] < at[n + 1]
        <4> TAKE i \in 1 .. n
        <4>1. i \in 1 .. n + 1 /\ i + 1 \in 1 .. n + 1 /\ (i = 1 \/ 1 < i) /\ (i + 1 = n + 1 \/ i + 1 < n + 1)
          BY <1>2
        <4>2. PICK a, b, d, e, l : a = at[i] /\ b = at[i + 1] /\ d = s.strings[i] /\ e = at[n + 1] /\ l = s.length
          OBVIOUS
        <4>3. a \in Nat /\ b \in Nat /\ e \in Nat /\ l \in Nat /\ d \in Nat \ {0} /\ b = a + d + 1
          BY <1>1, <1>2, <1>9, <4>1, <4>2
        <4>4. l <= a
          <5>1. 1 < i => at[1] < at[i]
            BY <1>9, <1>2, <4>1
          <5> QED  BY <1>2, <4>1, <4>2, <4>3, <5>1
        <4>5. b <= e
          <5>1. i + 1 < n + 1 => at[i + 1] < at[n + 1]
            BY <1>9, <1>2, <4>1
          <5>2. i + 1 = n + 1 => b = e
            BY <4>2
          <5>3. i + 1 < n + 1 => b < e
            BY <4>2, <5>1
          <5> QED  BY <4>1, <4>3, <5>2, <5>3
        <4>6. a + d < e
          BY <4>3, <4>5
        <4> QED  BY <4>2, <4>3, <4>4, <4>6
      <3>3. \A i \in 1 .. c : f[i] \in nuls
        <4> TAKE i \in 1 .. c
        <4>1. i \in 1 .. n /\ f[i] = begin + at[i] + s.strings[i]
          BY <3>1
        <4>2. PICK a, d, e, l : a = at[i] /\ d = s.strings[i] /\ e = at[n + 1] /\ l = s.length
          OBVIOUS
        <4>3. a \in Nat /\ d \in Nat /\ e \in Nat /\ l \in Nat /\ l <= a /\ a + d < e /\ size = e + 1 /\ begin \in Nat
          BY <1>1, <1>3, <1>9, <3>2, <4>1, <4>2
        <4>31. f[i] = begin + a + d
          BY <4>1, <4>2
        <4> HIDE DEF f
        <4>4. a + d \in Nat /\ a + d < size /\ f[i] = begin + (a + d) /\ begin + l <= begin + (a + d)
          BY <4>3, <4>31
        <4>5. KindAt(begin + (a + d)) = NUL /\ begin + (a + d) < TableSize
          BY <1>4, <4>1, <4>2, <4>4
        <4>6. begin + (a + d) \in begin + l .. TableSize - 1
          BY <1>1, <4>3, <4>4, <4>5
        <4> QED  BY <4>2, <4>4, <4>5, <4>6
      <3>4. f \in [1 .. c -> nuls]
        BY <3>3
      <3>5. \A i, m \in 1 .. c : i < m => f[i] < f[m]
        <4> SUFFICES ASSUME NEW i \in 1 .. c, NEW m \in 1 .. c, i < m PROVE f[i] < f[m]
          OBVIOUS
        <4>1. PICK a, b, d, e, g : a = at[i] /\ b = at[i + 1] /\ d = s.strings[i] /\ e = at[m] /\ g = s.strings[m]
          OBVIOUS
        <4>2. i \in 1 .. n /\ m \in 1 .. n /\ i + 1 \in 1 .. n + 1 /\ m \in 1 .. n + 1 /\ (i + 1 = m \/ i + 1 < m)
          BY <3>1
        <4>3. a \in Nat /\ d \in Nat /\ e \in Nat /\ g \in Nat /\ b = a + d + 1 /\ begin \in Nat
          BY <1>1, <3>2, <4>1, <4>2
        <4>4. b <= e
          <5>1. i + 1 < m => at[i + 1] < at[m]
            BY <1>2, <4>2
          <5>2. i + 1 = m => b = e
            BY <4>1
          <5>3. i + 1 < m => b < e
            BY <4>1, <5>1
          <5> QED  BY <4>2, <4>3, <5>2, <5>3
        <4>5. f[i] = begin + a + d /\ f[m] = begin + e + g
          BY <4>1
        <4> HIDE DEF f
        <4>6. g \in Nat /\ a + d < e
          BY <4>3, <4>4
        <4>7. begin + a + d < begin + e + g
          BY <4>3, <4>6
        <4> QED  BY <4>5, <4>7
      <3>6. f[c] = begin + at[j] - 1
        <4>1. PICK a, b, d : a = at[c] /\ b = at[j] /\ d = s.strings[c]
          OBVIOUS
        <4>2. a \in Nat /\ d \in Nat /\ at[c + 1] = a + d + 1 /\ begin \in Nat
          BY <1>1, <3>1, <3>2, <4>1
        <4>3. c \in 1 .. c /\ c + 1 = j
          BY <3>1
        <4>4. f[c] = begin + a + d
          BY <4>1, <4>3
        <4> HIDE DEF f, c
        <4>5. b = a + d + 1
          BY <4>1, <4>2, <4>3
        <4>6. begin + b - 1 = begin + a + d
          BY <4>2, <4>5
        <4> QED  BY <4>1, <4>4, <4>6
      <3>7. ASSUME NEW x \in nuls, x < f[c] PROVE \E i \in 1 .. c : x = f[i]
        <4>1. PICK r : r = x - begin
          OBVIOUS
        <4>2. PICK a, b, l : a = at[j] /\ b = at[n + 1] /\ l = s.length
          OBVIOUS
        <4>3. a \in Nat /\ b \in Nat /\ l \in Nat /\ a < b /\ size = b + 1 /\ begin \in Nat
          BY <1>1, <1>3, <1>9, <4>2
        <4>4. x \in begin + l .. TableSize - 1 /\ KindAt(x) = NUL /\ x < begin + a - 1
          BY <3>6, <3>7, <4>2
        <4>5. r \in Nat /\ x = begin + r /\ l <= r /\ r < a /\ r < b /\ r < size
          BY <1>1, <4>1, <4>3, <4>4
        <4>6. PICK i \in 1 .. n : at[i] <= r /\ r < at[i + 1]
          BY <1>5, <4>2, <4>5
        <4>7. PICK d, e : d = at[i] /\ e = s.strings[i]
          OBVIOUS
        <4>8. d \in Nat /\ e \in Nat /\ at[i + 1] = d + e + 1 /\ d <= r /\ r < d + e + 1
          BY <3>2, <4>6, <4>7
        <4>9. ~(r < d + e)
          <5>1. i # NUL
            BY DEF NUL
          <5> QED  BY <1>4, <4>4, <4>5, <4>6, <4>7, <5>1
        <4>10. r = d + e /\ x = begin + d + e
          BY <4>3, <4>5, <4>8, <4>9
        <4>11. i \in 1 .. c
          <5>1. ~(j <= i)
            <6> SUFFICES ASSUME j <= i PROVE FALSE
              OBVIOUS
            <6>1. j = i \/ j < i
              BY <1>9
            <6>2. i \in 1 .. n + 1 /\ (j < i => at[j] < at[i])
              BY <1>2, <1>9
            <6>3. a <= d
              BY <4>2, <4>3, <4>7, <4>8, <6>1, <6>2
            <6> QED  BY <4>3, <4>5, <4>8, <6>3
          <5> QED  BY <1>9, <3>1, <5>1
        <4>12. f[i] = begin + d + e
          BY <4>7, <4>11
        <4> QED  BY <4>10, <4>11, <4>12
      <3> HIDE DEF nuls, f, c
      <3>8. c <= Cardinality(nuls) /\ (CHOOSE x \in nuls : Cardinality({m \in nuls : m < x}) = c - 1) = f[c]
        BY <1>8, <3>1, <3>4, <3>5, <3>7, NthIs
      <3>9. c = j - 1 /\ ~(j - 1 = 0)
        BY <1>9, <2>2 DEF c
      <3>10. found = 1 + f[c]
        BY <3>8, <3>9
      <3>11. found = begin + at[j]
        <4>1. begin \in Nat /\ at[j] \in Nat
          BY <1>1, <1>9
        <4> QED  BY <3>6, <3>10, <4>1
      <3> QED  BY <3>8, <3>9, <3>11
    <2> QED  BY <2>1, <2>2
  <1> HIDE DEF nuls, found
  <1>12. begin + at[j] \in Nat /\ ~(j - 1 > Cardinality(nuls)) /\ ~(found >= TableSize)
    <2>1. begin + at[j] \in Nat
      BY <1>1, <1>9
    <2>2. found = begin + at[j] /\ j - 1 <= Cardinality(nuls)
      BY <1>11
    <2>3. ~(found >= TableSize)
      <3>1. PICK q : q = begin + at[j]
        OBVIOUS
      <3>2. q \in Nat /\ found = q /\ q < TableSize /\ TableSize \in Nat
        BY <1>1, <1>10, <2>1, <2>2, <3>1
      <3> QED  BY <3>2
    <2>4. ~(j - 1 > Cardinality(nuls))
      <3>1. PICK q : q = Cardinality(nuls)
        OBVIOUS
      <3>2. q \in Nat /\ j - 1 <= q
        BY <1>8, <2>2, <3>1
      <3>3. ~(j - 1 > q)
        BY <1>6, <3>2
      <3> QED  BY <3>1, <3>3
    <2> QED  BY <2>1, <2>3, <2>4
  <1>13. KindAt(found) = j /\ StructureAt(found) = k /\ j # NUL
    BY <1>6, <1>10, <1>11 DEF NUL
  <1> QED  BY <1>7, <1>12, <1>13

-----------------------------------------------------------------------------

\* The walk is at a structure, or at the end, and those before it are printed.
InStepWith(k) ==
    /\ k \in 1 .. Len(smbios) + 1 /\ Offset = StructurePlaces[k]
    /\ Len(structures) = k - 1
    /\ \A i \in 1 .. k - 1 :
          /\ structures[i].structure = i
          /\ smbios[i].type = "other" =>
               \A n \in DOMAIN smbios[i].numbers :
                 smbios[i].numbers[n] \in 1 .. Len(smbios[i].strings) =>
                     structures[i].strings[n] = <<i, smbios[i].numbers[n]>>

SmutInv ==
    /\ smbios \in SMBTables
    /\ \E S : structures \in Seq(S)
    /\ Usual => \E k \in Nat : InStepWith(k)

\* Where the walk goes from a structure.
LEMMA NextStructure ==
    ASSUME smbios \in SMBTables, Usual, NEW k \in 1 .. Len(smbios), Offset = StructurePlaces[k]
    PROVE  /\ smbios[k].type = "oem" => OemEnd = StructurePlaces[k + 1]
           /\ smbios[k].type # "oem" => StringsEnd(k) = StructurePlaces[k + 1]
  <1> DEFINE s == smbios[k]
             begin == StructurePlaces[k]
             at == StringPlaces(s)
             n == Len(s.strings)
             size == StructureSize(s)
             second == begin + s.length + 1
  <1>1. /\ s \in Structure /\ begin \in Nat /\ s.length \in Nat \ {0} /\ (s.type = "oem" => s.length = 5)
        /\ k \in DOMAIN smbios
    <2>1. k \in 1 .. Len(smbios) + 1 /\ Len(smbios) \in Nat
      BY StructuresArePlaced
    <2> QED  BY <2>1, StructuresArePlaced
  <1>2. (s.strings # <<>> => s.strings[1] > 1) /\ (s.type = "oem" => s.strings # <<>>)
    BY <1>1 DEF Usual
  <1>3. StringsEnd(k) = IF KindAt(second) = NUL THEN StringsFrom(second) ELSE StringsFrom(second - 1)
    BY DEF StringsEnd
  <1>4. second - 1 = begin + s.length
    BY <1>1
  <1>5. ASSUME s.strings # <<>> PROVE KindAt(second) # NUL
    <2>1. /\ n \in Nat \ {0} /\ at \in [1 .. n + 1 -> Nat] /\ at[1] = s.length
          /\ \A j \in 1 .. n : s.strings[j] \in Nat \ {0} /\ at[j + 1] = at[j] + s.strings[j] + 1
      <3>1. n # 0
        BY <1>1, <1>5, EmptySeq DEF Structure
      <3> QED  BY <1>1, <3>1, StringsArePlaced
    <2>2. 1 \in 1 .. n /\ s.length + 1 \in Nat /\ s.length + 1 < size
      BY <1>1, <2>1, StructureSizeIs
    <2>3. at[1] <= s.length + 1 /\ s.length + 1 < at[1] + s.strings[1]
      <3>1. PICK l, w : l = s.length /\ w = s.strings[1]
        OBVIOUS
      <3>2. l \in Nat /\ w \in Nat /\ w > 1 /\ at[1] = l
        BY <1>1, <1>2, <1>5, <2>1, <2>2, <3>1
      <3>3. l <= l + 1 /\ l + 1 < l + w
        BY <3>2
      <3> QED  BY <3>1, <3>2, <3>3
    <2>4. \A r \in Nat : r < size => \A j \in 1 .. n :
             at[j] <= r /\ r < at[j] + s.strings[j] => KindAt(begin + r) = j
      BY KindsAre
    <2> HIDE DEF n, at, begin, s, size
    <2>5. KindAt(begin + (s.length + 1)) = 1
      BY <2>2, <2>3, <2>4
    <2>6. begin + (s.length + 1) = second
      BY <1>1
    <2> QED  BY <2>5, <2>6 DEF NUL
  <1>6. ASSUME s.strings # <<>> PROVE StringsFrom(begin + s.length) = StructurePlaces[k + 1]
    BY <1>6, StringsFromFirst
  <1>7. ASSUME s.strings = <<>> PROVE KindAt(second) = NUL /\ StringsFrom(second) = StructurePlaces[k + 1]
    BY <1>7, StringsFromSecond
  <1>8. s.type = "oem" => OemEnd = StringsFrom(begin + s.length)
    BY <1>1 DEF OemEnd
  <1> HIDE DEF s, begin, second
  <1>9. (s.type = "oem" => OemEnd = StructurePlaces[k + 1]) /\ StringsEnd(k) = StructurePlaces[k + 1]
    BY <1>2, <1>3, <1>4, <1>5, <1>6, <1>7, <1>8
  <1> QED  BY <1>9 DEF s

LEMMA SameTable ==
    ASSUME smbios' = smbios
    PROVE  StructurePlaces' = StructurePlaces /\ Usual' = Usual
  BY DEF StructurePlaces, Usual

LEMMA ParseKeeps ==
    ASSUME smbios \in SMBTables, Usual, NEW k \in Nat, InStepWith(k), Parse,
           NEW S, structures \in Seq(S)
    PROVE  InStepWith(k + 1)'
  <1> DEFINE N == Len(smbios)
  <1>1. /\ N \in Nat /\ k \in 1 .. N + 1 /\ Offset = StructurePlaces[k] /\ Offset # TableSize
        /\ TableSize = StructurePlaces[N + 1] /\ smbios' = smbios
    <2>1. N \in Nat /\ TableSize = StructurePlaces[N + 1] /\ StructurePlaces \in [1 .. N + 1 -> Nat]
      BY StructuresArePlaced
    <2>2. N + 1 \in 1 .. N + 1
      BY <2>1
    <2>3. TableSize \in Nat /\ Offset \in 0 .. TableSize - 1
      BY <2>1, <2>2 DEF Parse
    <2>4. Offset # TableSize
      BY <2>3
    <2> QED  BY <2>1, <2>4 DEF InStepWith, Parse
  <1>2. k \in 1 .. N
    BY <1>1
  <1>3. StructureAt(Offset) = k
    <2>1. /\ StructurePlaces \in [1 .. N + 1 -> Nat]
          /\ \A i, j \in 1 .. N + 1 : i < j => StructurePlaces[i] < StructurePlaces[j]
      BY StructuresArePlaced
    <2>2. k \in 1 .. N + 1 /\ k + 1 \in 1 .. N + 1 /\ k < k + 1
      BY <1>1, <1>2
    <2>3. Offset \in Nat /\ StructurePlaces[k] <= Offset /\ Offset < StructurePlaces[k + 1]
      BY <1>1, <2>1, <2>2
    <2> QED  BY <1>2, <2>3, WithinStructure
  <1> DEFINE s == smbios[k]
             got == IF s.type = "oem" THEN [n \in DOMAIN s.strings |-> <<k, n>>] ELSE AskedFor(k)
             new == [structure |-> k, strings |-> got]
  <1>4. structures' = Append(structures, new) /\ Offset' = IF s.type = "oem" THEN OemEnd ELSE StringsEnd(k)
    BY <1>3 DEF Parse
  <1>5. Offset' = StructurePlaces[k + 1]
    <2> HIDE DEF new
    <2> QED  BY <1>1, <1>2, <1>4, NextStructure
  <1>6. s.type = "other" => \A n \in DOMAIN s.numbers :
           s.numbers[n] \in 1 .. Len(s.strings) => got[n] = <<k, s.numbers[n]>>
    <2> SUFFICES ASSUME s.type = "other", NEW n \in DOMAIN s.numbers, s.numbers[n] \in 1 .. Len(s.strings)
                 PROVE  got[n] = <<k, s.numbers[n]>>
      OBVIOUS
    <2>1. got[n] = getSMBString(k, s.numbers[n])
      BY DEF AskedFor
    <2> QED  BY <1>1, <1>2, <2>1, StringIsFound
  <1> HIDE DEF new, got, N
  <1>7. /\ Len(structures') = k /\ structures'[k] = new
        /\ \A i \in 1 .. k - 1 : structures'[i] = structures[i]
    <2>1. Len(structures) = k - 1 /\ k \in Nat
      BY DEF InStepWith
    <2>2. PICK T : T = S \cup {new}
      OBVIOUS
    <2>3. structures \in Seq(T) /\ new \in T
      BY <2>2
    <2>4. /\ Len(Append(structures, new)) = Len(structures) + 1
          /\ Append(structures, new)[Len(structures) + 1] = new
          /\ \A i \in 1 .. Len(structures) : Append(structures, new)[i] = structures[i]
      BY <2>3, AppendProperties
    <2> QED  BY <1>4, <2>1, <2>4
  <1>8. new.structure = k /\ new.strings = got
    BY DEF new
  <1>9. StructurePlaces' = StructurePlaces
    BY <1>1, SameTable
  <1>10. ASSUME NEW i \in 1 .. (k + 1) - 1
         PROVE  /\ structures'[i].structure = i
                /\ smbios[i].type = "other" =>
                     \A n \in DOMAIN smbios[i].numbers :
                       smbios[i].numbers[n] \in 1 .. Len(smbios[i].strings) =>
                           structures'[i].strings[n] = <<i, smbios[i].numbers[n]>>
    <2>1. CASE i = k
      BY <1>6, <1>7, <1>8, <2>1
    <2>2. CASE i # k
      <3>1. i \in 1 .. k - 1
        BY <2>2
      <3>2. structures'[i] = structures[i]
        BY <1>7, <3>1
      <3> QED  BY <3>1, <3>2 DEF InStepWith
    <2> QED  BY <2>1, <2>2
  <1>11. k + 1 \in 1 .. N + 1 /\ Len(structures') = (k + 1) - 1
    BY <1>1, <1>2, <1>7
  <1>12. Len(smbios') = N
    BY <1>1 DEF N
  <1> QED  BY <1>1, <1>5, <1>9, <1>10, <1>11, <1>12 DEF InStepWith

LEMMA SmutStepKeeps == SmutInv /\ [SmutNext]_smutVars => SmutInv'
  <1>1. ASSUME SmutInv, UNCHANGED smutVars PROVE SmutInv'
    <2>1. smbios' = smbios /\ Offset' = Offset /\ structures' = structures
      BY <1>1 DEF smutVars
    <2>2. StructurePlaces' = StructurePlaces /\ Usual' = Usual
      BY <2>1, SameTable
    <2> QED  BY <1>1, <2>1, <2>2 DEF SmutInv, InStepWith
  <1>2. ASSUME SmutInv, Parse PROVE SmutInv'
    <2>1. PICK S : structures \in Seq(S)
      BY <1>2 DEF SmutInv
    <2>2. smbios \in SMBTables /\ smbios' = smbios
      BY <1>2 DEF SmutInv, Parse
    <2>3. Usual' = Usual
      BY <2>2, SameTable
    <2>4. \E T : structures' \in Seq(T)
      <3>1. PICK new : structures' = Append(structures, new)
        BY <1>2 DEF Parse
      <3>2. structures' \in Seq(S \cup {new})
        BY <2>1, <3>1
      <3> QED  BY <3>2
    <2>5. ASSUME Usual PROVE \E k \in Nat : InStepWith(k)'
      <3>1. PICK k \in Nat : InStepWith(k)
        BY <1>2, <2>5 DEF SmutInv
      <3>2. k + 1 \in Nat /\ InStepWith(k + 1)'
        BY <1>2, <2>1, <2>2, <2>5, <3>1, ParseKeeps
      <3> QED  BY <3>2
    <2> QED  BY <2>2, <2>3, <2>4, <2>5 DEF SmutInv
  <1> QED  BY <1>1, <1>2 DEF SmutNext

\* What is printed is in step with the table.
LEMMA SmutInvShows == SmutInv => StructuresInStep
  <1> SUFFICES ASSUME SmutInv, Usual PROVE StructuresInStep
    BY DEF StructuresInStep
  <1>1. PICK k \in Nat : InStepWith(k)
    BY DEF SmutInv
  <1>2. PICK S : structures \in Seq(S)
    BY DEF SmutInv
  <1> DEFINE N == Len(smbios)
  <1>3. /\ N \in Nat /\ StructurePlaces \in [1 .. N + 1 -> Nat] /\ StructurePlaces[1] = 0
        /\ TableSize = StructurePlaces[N + 1]
        /\ \A i \in 1 .. N : /\ smbios[i] \in Structure /\ smbios[i].length \in Nat \ {0}
                              /\ StructurePlaces[i + 1] = StructurePlaces[i] + StructureSize(smbios[i])
        /\ \A i, j \in 1 .. N + 1 : i < j => StructurePlaces[i] < StructurePlaces[j]
    BY StructuresArePlaced DEF SmutInv
  <1>4. k \in 1 .. N + 1 /\ Offset = StructurePlaces[k] /\ DOMAIN structures = 1 .. k - 1 /\ Len(structures) = k - 1
    BY <1>1, <1>2 DEF InStepWith
  <1>5. ASSUME k \in 1 .. N PROVE BeginsAt(Offset) /\ Offset # TableSize
    <2>1. PICK b : b = StructurePlaces[k]
      OBVIOUS
    <2>2. k \in 1 .. N + 1 /\ N + 1 \in 1 .. N + 1 /\ k < N + 1
      BY <1>3, <1>5
    <2>3. b \in Nat /\ b < TableSize /\ TableSize \in Nat /\ b + 0 = b
      BY <1>3, <2>1, <2>2
    <2>4. KindAt(b) = 0
      <3>1. 0 \in Nat /\ 0 < smbios[k].length /\ 0 < StructureSize(smbios[k])
        BY <1>3, <1>5, StructureSizeIs
      <3>2. KindAt(b + 0) = 0
        BY <1>5, <2>1, <3>1, KindsAre DEF SmutInv
      <3> QED  BY <2>3, <3>2
    <2>5. ASSUME b # 0 PROVE KindAt(b - 1) = NUL
      <3>1. k # 1
        BY <1>3, <2>1, <2>5
      <3>2. PICK j : j = k - 1
        OBVIOUS
      <3>3. j \in 1 .. N /\ j + 1 = k /\ j \in 1 .. N + 1
        BY <1>5, <3>1, <3>2
      <3> DEFINE s == smbios[j]
                 n == Len(s.strings)
      <3>4. s \in Structure /\ b = StructurePlaces[j] + StructureSize(s)
        BY <1>3, <2>1, <3>3
      <3>5. /\ StructureSize(s) \in Nat \ {0} /\ StringPlaces(s)[n + 1] \in Nat
            /\ StringPlaces(s)[n + 1] <= StructureSize(s) - 1
        <4>1. n \in Nat /\ StringPlaces(s) \in [1 .. n + 1 -> Nat]
          BY <3>4, StringsArePlaced
        <4>2. n + 1 \in 1 .. n + 1
          BY <4>1
        <4>3. StringPlaces(s)[n + 1] \in Nat
          BY <4>1, <4>2
        <4>4. StructureSize(s) = StringPlaces(s)[n + 1] + (IF s.strings = <<>> THEN 2 ELSE 1)
          BY DEF StructureSize
        <4> HIDE DEF s, n
        <4> QED  BY <4>3, <4>4
      <3>6. PICK r : r = StructureSize(s) - 1
        OBVIOUS
      <3>7. r \in Nat /\ r < StructureSize(s) /\ StringPlaces(s)[n + 1] <= r
        BY <3>5, <3>6
      <3>8. KindAt(StructurePlaces[j] + r) = NUL
        BY <3>3, <3>7, KindsAre DEF SmutInv
      <3> HIDE DEF s, n
      <3>9. StructurePlaces[j] \in Nat
        BY <1>3, <3>3
      <3>10. StructurePlaces[j] + r = b - 1
        BY <3>4, <3>5, <3>6, <3>9
      <3> QED  BY <3>8, <3>10
    <2> QED  BY <1>4, <2>1, <2>3, <2>4, <2>5 DEF BeginsAt
  <1>6. ASSUME k \notin 1 .. N PROVE Offset = TableSize /\ Len(structures) = N
    <2>1. k = N + 1
      BY <1>3, <1>4, <1>6
    <2> QED  BY <1>3, <1>4, <2>1
  <1>7. \A i \in DOMAIN structures :
           /\ structures[i].structure = i
           /\ smbios[i].type = "other" =>
                \A n \in DOMAIN smbios[i].numbers :
                  smbios[i].numbers[n] \in 1 .. Len(smbios[i].strings) =>
                      structures[i].strings[n] = <<i, smbios[i].numbers[n]>>
    BY <1>1, <1>4 DEF InStepWith
  <1> QED  BY <1>5, <1>6, <1>7 DEF StructuresInStep

\* smut walks a table in step with its structures, each printed once and in order
\* with the strings its numbers name, as long as no first string has one character
\* and OEM structures have strings (783-796).
THEOREM StructuresStayInStep == SmutSpec => []StructuresInStep
  <1>1. SmutInit => SmutInv
    <2> SUFFICES ASSUME SmutInit PROVE SmutInv
      OBVIOUS
    <2>1. smbios \in SMBTables /\ Offset = 0 /\ structures = <<>>
      BY DEF SmutInit
    <2>2. structures \in Seq({}) /\ Len(structures) = 0
      BY <2>1
    <2>3. 1 \in 1 .. Len(smbios) + 1 /\ Offset = StructurePlaces[1]
      <3>1. Len(smbios) \in Nat /\ StructurePlaces[1] = 0
        BY <2>1, StructuresArePlaced
      <3> QED  BY <2>1, <3>1
    <2>4. InStepWith(1)
      BY <2>2, <2>3 DEF InStepWith
    <2> QED  BY <2>1, <2>2, <2>4 DEF SmutInv
  <1> QED  BY <1>1, SmutStepKeeps, SmutInvShows, PTL DEF SmutSpec
=============================================================================
