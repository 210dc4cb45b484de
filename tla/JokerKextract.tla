---------------------------- MODULE JokerKextract -----------------------------
(***************************************************************************)
(* doKextract and symbolicateKextStubs of joker (src/src/joker.c): kexts   *)
(* of a kernel cache are written to files, one after the other, and the    *)
(* stubs of each are named in a companion file.                            *)
(*                                                                         *)
(* A split kext is put together from its segments, which are scattered     *)
(* over the cache: the copy of the header is patched as they are written,  *)
(* and written over the beginning last.  A unit of a file stands for the   *)
(* place in the cache it was copied from, or is Zero.                      *)
(***************************************************************************)
EXTENDS Integers, Sequences

CONSTANTS
    KextPage,                                   \* 0x1000
    PrelinkAddr, PrelinkSize, PrelinkOffset,    \* of __PRELINK_DATA.__data
    Batches                                     \* the kexts extracted in one run

\* An offset of 0 is that of a section without contents.  A stub's code either
\* has the pattern or not, its pointer is in the GOT or not, and known if the
\* pointer can be read from the cache.
Section == [offset : Nat, size : Nat]
Segment == [vmaddr : Nat, fileoff : Nat, filesize : Nat, sections : Seq(Section)]
Stub == [pattern : BOOLEAN, inGot : BOOLEAN, known : BOOLEAN]
Kext == [base : Nat, size : Nat, split : BOOLEAN, segments : Seq(Segment), stubs : Seq(Stub)]

\* The first segment of a kext holds its header, and is not one of the data; a
\* section lies in its segment.
WellFormed(k) ==
    /\ k.segments # <<>> =>
         /\ k.segments[1].fileoff = 0 /\ k.segments[1].filesize > 0
         /\ k.segments[1].vmaddr \notin PrelinkAddr .. PrelinkAddr + PrelinkSize
    /\ \A i \in DOMAIN k.segments : \A j \in DOMAIN k.segments[i].sections :
         LET seg == k.segments[i]
             section == seg.sections[j]
         IN  section.offset # 0 =>
                /\ seg.fileoff <= section.offset
                /\ section.offset + section.size <= seg.fileoff + seg.filesize

ASSUME KextractAssumption ==
    /\ KextPage \in Nat \ {0}
    /\ PrelinkAddr \in Nat /\ PrelinkSize \in Nat /\ PrelinkOffset \in Nat
    /\ Batches \subseteq Seq(Kext) /\ <<>> \notin Batches
    /\ \A kexts \in Batches : \A k \in DOMAIN kexts : kexts[k].split => WellFormed(kexts[k])

VARIABLES
    writer,     \* "idle", what is being written, or how it ended
    batch,      \* the kexts
    current,    \* which of them
    lc,         \* the load command at hand
    kextCopy,   \* the segments of the copy, patched up to lc
    out,        \* the file
    stub,       \* the stub at hand
    fd,         \* companionFileFD: 0 ("none" or "stdin") or "other", or that of
                \* a "stray" file
    companion,  \* the lines of the companion file
    stdin       \* file descriptor 0: "open", "free", or "taken" by another file

kextractVars ==
    <<writer, batch, current, lc, kextCopy, out, stub, fd, companion, stdin>>
fileVars == <<lc, kextCopy, out>>
stubVars == <<stub, fd, companion, stdin>>

Zero == -1

kext == batch[current]

\* The first thing written: a segment, or the whole of a kext that is not split.
Begin(k) == IF k.split THEN "segments" ELSE "whole"

\* On to the next kext; a copy and a companion are new for each.
GoOn ==
    /\ fd' = "none"
    /\ IF current = Len(batch)
       THEN writer' = "done" /\ UNCHANGED <<current, fileVars, stub, companion>>
       ELSE /\ current' = current + 1
            /\ writer' = Begin(batch[current'])
            /\ lc' = 1 /\ kextCopy' = batch[current'].segments /\ out' = <<>>
            /\ stub' = 1 /\ companion' = <<>>
    /\ UNCHANGED batch

KextractInit ==
    /\ batch \in Batches
    /\ current = 1
    /\ writer = Begin(kext)
    /\ lc = 1 /\ kextCopy = kext.segments /\ out = <<>>
    /\ stub = 1 /\ fd = "none" /\ companion = <<>> /\ stdin = "open"

-----------------------------------------------------------------------------
(* doKextract                                                              *)

Copied(from, n) == [j \in 1 .. n |-> from + j - 1]

\* "Workaround for Apple's offset bug in the kernelcache!": where a segment of
\* the data is, goes by its address.
InPrelinkData(seg) ==
    PrelinkAddr <= seg.vmaddr /\ seg.vmaddr <= PrelinkAddr + PrelinkSize
Source(seg) ==
    IF InPrelinkData(seg) THEN PrelinkOffset + seg.vmaddr - PrelinkAddr
    ELSE kext.base + seg.fileoff

\* The segment is at off now.
Patched(seg, off) ==
    [seg EXCEPT !.fileoff = off,
                !.sections = [i \in DOMAIN seg.sections |->
                    IF seg.sections[i].offset = 0 THEN seg.sections[i]
                    ELSE [seg.sections[i] EXCEPT !.offset = @ - (seg.fileoff - off)]]]

\* Mutant: what follows a segment is not padded.
PaddingNone(n) == 0

\* Up to the next page boundary, or a page if it is on one.
Padding(n) == IF n = 0 THEN 0 ELSE KextPage - (n % KextPage)

\* "Unable to create file".
NotCreated ==
    /\ writer \in {"segments", "whole"} /\ lc = 1
    /\ GoOn
    /\ UNCHANGED stdin

WriteSegment ==
    /\ writer = "segments" /\ lc <= Len(kext.segments)
    /\ LET seg == kextCopy[lc]
           written == out \o Copied(Source(seg), seg.filesize)
       IN  /\ out' = written \o [j \in 1 .. Padding(Len(written)) |-> Zero]
           /\ kextCopy' = [kextCopy EXCEPT ![lc] = Patched(seg, Len(out))]
    /\ lc' = lc + 1
    /\ UNCHANGED <<writer, batch, current, stubVars>>

\* write fails, and joker exits.
WriteFails ==
    /\ writer = "segments" /\ lc <= Len(kext.segments)
    /\ writer' = "failed"
    /\ UNCHANGED <<batch, current, fileVars, stubVars>>

\* The patched header goes over the first page.
WriteHeader ==
    /\ writer = "segments" /\ lc > Len(kext.segments)
    /\ out' = Copied(kext.base, KextPage) \o SubSeq(out, KextPage + 1, Len(out))
    /\ writer' = "stubs"
    /\ UNCHANGED <<batch, current, lc, kextCopy, stubVars>>

WriteWhole ==
    /\ writer = "whole"
    /\ out' = Copied(kext.base, kext.size)
    /\ writer' = "stubs"
    /\ UNCHANGED <<batch, current, lc, kextCopy, stubVars>>

-----------------------------------------------------------------------------
(* symbolicateKextStubs                                                    *)

\* Opening a split kext takes the lowest descriptor, for good.
Opened == IF kext.split /\ stdin = "free" THEN "taken" ELSE stdin

Good(s) == s.pattern /\ s.inGot

\* Mutant: the companion file is opened for every stub.
WriteStubAnew ==
    /\ fd' = "other" /\ stdin' = Opened
    /\ companion' = IF fd = "none" THEN Append(companion, stub) ELSE companion

\* The companion file is opened for the first stub, that is, if its descriptor
\* is 0.  Its name is made from the buffer in which lines are put together, so a
\* second time it is another file that is opened.
Opening == fd \in {"none", "stdin"}
WriteStub ==
    LET zero == Opening /\ Opened = "free" IN
    /\ fd' = IF zero THEN "stdin" ELSE IF fd = "none" THEN "other"
             ELSE IF fd = "stdin" THEN "stray" ELSE fd
    /\ stdin' = IF zero THEN "taken" ELSE Opened
    /\ companion' = IF fd \in {"none", "other"} THEN Append(companion, stub) ELSE companion

HasPointer(s) == kext.split \/ s.known

NameStub ==
    /\ writer = "stubs" /\ stub <= Len(kext.stubs)
    /\ LET s == kext.stubs[stub] IN
         IF Good(s) THEN HasPointer(s) /\ WriteStub
         ELSE stdin' = Opened /\ UNCHANGED <<fd, companion>>
    /\ stub' = stub + 1
    /\ UNCHANGED <<writer, batch, current, fileVars>>

\* "Unable to open companion file": the rest of the stubs is given up.
NoCompanion ==
    /\ writer = "stubs" /\ stub <= Len(kext.stubs)
    /\ Good(kext.stubs[stub]) /\ HasPointer(kext.stubs[stub]) /\ Opening
    /\ stdin' = Opened
    /\ GoOn

\* The pointer is looked for in the kext, which is only opened if it is split.
NoPointer ==
    /\ writer = "stubs" /\ stub <= Len(kext.stubs)
    /\ Good(kext.stubs[stub]) /\ ~HasPointer(kext.stubs[stub])
    /\ writer' = "died"
    /\ UNCHANGED <<batch, current, fileVars, stubVars>>

\* The companion file is closed, and standard input if none was opened; unless
\* the kext has no stubs at all.
NextKext ==
    /\ writer = "stubs" /\ stub > Len(kext.stubs)
    /\ stdin' = IF kext.stubs # <<>> /\ Opening THEN "free" ELSE Opened
    /\ GoOn

KextractNext ==
    \/ NotCreated \/ WriteSegment \/ WriteFails \/ WriteHeader \/ WriteWhole
    \/ NameStub \/ NoCompanion \/ NoPointer \/ NextKext

-----------------------------------------------------------------------------
(* Properties                                                              *)

KextractTypeOK ==
    writer # "idle" =>
        /\ writer \in {"segments", "whole", "stubs", "done", "failed", "died"}
        /\ current \in DOMAIN batch /\ lc \in 1 .. Len(kext.segments) + 1
        /\ \A j \in DOMAIN out : out[j] \in Nat \cup {Zero}
        /\ writer = "segments" => Len(out) % KextPage = 0
        /\ stub \in 1 .. Len(kext.stubs) + 1
        /\ fd \in {"none", "stdin", "other", "stray"} /\ stdin \in {"open", "free", "taken"}
        /\ fd = "stdin" => stdin = "taken"

\* Where the contents of a segment are in the cache.
InCache(seg) ==
    IF PrelinkAddr <= seg.vmaddr /\ seg.vmaddr < PrelinkAddr + PrelinkSize
    THEN PrelinkOffset + seg.vmaddr - PrelinkAddr
    ELSE kext.base + seg.fileoff

\* The file of a split kext has at the place its patched header gives for a
\* section what the cache has for it, although nothing is where it was and the
\* header is written over the first page.  A segment that begins right behind
\* __PRELINK_DATA is taken for a part of it.
SectionsAreFound ==
    writer = "stubs" /\ kext.split =>
        \A i \in DOMAIN kext.segments :
            LET seg == kext.segments[i] IN
            seg.vmaddr # PrelinkAddr + PrelinkSize =>
                \A j \in DOMAIN seg.sections :
                    LET old == seg.sections[j].offset
                        new == kextCopy[i].sections[j].offset
                    IN  old # 0 => \A n \in 1 .. seg.sections[j].size :
                            out[new + n] = InCache(seg) + (old - seg.fileoff) + n - 1

GoodStubs(k) == {i \in DOMAIN k.stubs : Good(k.stubs[i])}

\* No kext before had stubs none of which could be named.
NamedBefore == \A k \in 1 .. current - 1 : batch[k].stubs # <<>> => GoodStubs(batch[k]) # {}

\* The companion file of a kext has a line for each stub that can be named, in
\* order, as long as no earlier kext had stubs none of which could be: closing
\* the companion file that was not opened closes standard input.
CompanionIsExact ==
    writer = "stubs" /\ stub > Len(kext.stubs) /\ NamedBefore =>
        /\ \A i, j \in DOMAIN companion : i < j => companion[i] < companion[j]
        /\ {companion[i] : i \in DOMAIN companion} = GoodStubs(kext)
=============================================================================
