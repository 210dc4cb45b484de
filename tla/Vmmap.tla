--------------------------------- MODULE Vmmap ---------------------------------
(***************************************************************************)
(* vmmap (src/src/12-1-vmmap.c): asks for the regions of another process,  *)
(* one after the other, and prints a line for each run of adjacent ones of *)
(* one kind.  The process runs on, and its regions change between calls.   *)
(***************************************************************************)
EXTENDS Integers, Sequences, FiniteSets

CONSTANTS
    AddressSpaces,  \* the regions a process may have, in order
    Top,            \* 2^64, the end of the address space: it is 0 again
    HighAddress,    \* 0x4000000
    MaxLines,       \* 1000
    MaxChanges      \* bound: how often a process changes its regions

\* protection stands for protection, max_protection and inheritance.  dyld: the
\* region begins with the header of the dynamic linker.
Region == [start : Nat, end : Nat, protection : {"rx", "rw"}, shared : BOOLEAN, reserved : BOOLEAN,
           dyld : BOOLEAN]

ASSUME VmmapAssumption ==
    /\ Top \in Nat /\ HighAddress \in Nat /\ MaxLines \in Nat \ {0} /\ MaxChanges \in Nat
    /\ \A regions \in AddressSpaces :
        /\ regions \in Seq(Region)
        /\ \A k \in DOMAIN regions : regions[k].start < regions[k].end /\ regions[k].end <= Top
        /\ \A j, k \in DOMAIN regions : j < k => regions[j].end <= regions[k].start

VARIABLES
    regions,        \* the regions of the process
    changes,        \* how often they have changed
    vmmap,          \* "first", "ask", "again" with a new port, or "done"
    pending,        \* the run of regions not printed yet: where from, where to, of which kind
    told,           \* the lines printed
    images          \* the list of images: "none", "unset", or "read"

vmmapVars == <<regions, changes, vmmap, pending, told, images>>

VmmapInit ==
    /\ regions \in AddressSpaces /\ changes = 0
    /\ vmmap = "first"
    /\ pending = <<>>
    /\ told = <<>>
    /\ images = "none"

Change ==
    /\ changes < MaxChanges /\ vmmap # "done"
    /\ regions' \in AddressSpaces \ {regions}
    /\ changes' = changes + 1
    /\ UNCHANGED <<vmmap, pending, told, images>>

\* mach_vm_region: the region an address is in, or the next.
Beyond(address) == {k \in DOMAIN regions : regions[k].end > address}
RegionAt(address) == regions[CHOOSE k \in Beyond(address) : \A j \in Beyond(address) : k <= j]

Run(region) == [from |-> region.start, to |-> region.end, info |-> region, subregions |-> 1]

\* The first call, at address 1.  There is no second if it fails.
FirstRegion ==
    /\ vmmap = "first"
    /\ IF Beyond(1) = {}
       THEN vmmap' = "done" /\ UNCHANGED pending
       ELSE vmmap' = "ask" /\ pending' = Run(RegionAt(1))
    /\ UNCHANGED <<regions, changes, told, images>>

\* findListOfBinaries: the list is allocated before its memory is read, which
\* may fail at each step.
FindBinaries ==
    images' \in IF pending.info.dyld THEN {images, "unset", "read"} ELSE {images}

Tell(then) ==
    /\ FindBinaries
    /\ told' = Append(told, pending)
    /\ vmmap' = IF Len(told) + 1 >= MaxLines THEN "done" ELSE then

\* Mutant: a region further on is not told from one that is adjacent.
DiffersInKind(region) ==
    \/ region.protection # pending.info.protection
    \/ region.shared # pending.info.reserved
    \/ region.reserved # pending.info.reserved

\* "shared" is compared with "reserved".
Differs(region) ==
    \/ region.start # pending.to
    \/ region.protection # pending.info.protection
    \/ region.shared # pending.info.reserved
    \/ region.reserved # pending.info.reserved

Compare(region) ==
    IF Differs(region)
    THEN Tell("ask") /\ pending' = Run(region)
    ELSE /\ pending' = [pending EXCEPT !.to = @ + region.end - region.start, !.subregions = @ + 1]
         /\ vmmap' = "ask"
         /\ UNCHANGED <<told, images>>

WrapAround ==
    /\ vmmap = "ask" /\ pending.to = Top
    /\ Tell("done")
    /\ UNCHANGED <<regions, changes, pending>>

Ask ==
    /\ vmmap = "ask" /\ pending.to # Top /\ Beyond(pending.to) # {}
    /\ Compare(RegionAt(pending.to))
    /\ UNCHANGED <<regions, changes>>

\* There is none, or the port is no longer valid: it is got again.
AskFails ==
    /\ vmmap = "ask" /\ pending.to # Top
    /\ vmmap' = "again"
    /\ UNCHANGED <<regions, changes, pending, told, images>>

AskAgain ==
    /\ vmmap = "again" /\ Beyond(pending.to) # {}
    /\ Compare(RegionAt(pending.to))
    /\ UNCHANGED <<regions, changes>>

\* The last line is printed only below HighAddress.
AskEnds ==
    /\ vmmap = "again" /\ Beyond(pending.to) = {}
    /\ IF pending.to >= HighAddress
       THEN vmmap' = "done" /\ UNCHANGED <<told, images>>
       ELSE Tell("done")
    /\ UNCHANGED <<regions, changes, pending>>

VmmapNext == Change \/ FirstRegion \/ WrapAround \/ Ask \/ AskFails \/ AskAgain \/ AskEnds
VmmapEnded == vmmap = "done"

-----------------------------------------------------------------------------
(* Properties                                                              *)

VmmapTypeOK ==
    /\ regions \in AddressSpaces /\ changes \in 0 .. MaxChanges
    /\ vmmap \in {"first", "ask", "again", "done"}
    /\ vmmap = "first" => pending = <<>>
    /\ vmmap \in {"ask", "again"} => pending.from < pending.to /\ pending.to <= Top
    /\ Len(told) <= MaxLines
    /\ images \in {"none", "unset", "read"}

Covers(run, region) == run.from <= region.start /\ region.end <= run.to

\* Whatever the process does to its regions meanwhile, each line ends beyond the
\* one before, so that the walk ends.  If it does nothing, the lines cover every
\* region up to the last line and no address outside of one, and a line has only
\* regions of its protection, as many as it says.
RegionsAreTold ==
    /\ \A j, k \in DOMAIN told : j < k => told[j].to < told[k].to
    /\ changes = 0 =>
         /\ \A k \in DOMAIN told :
              LET within == {j \in DOMAIN regions : Covers(told[k], regions[j])} IN
              /\ Cardinality(within) = told[k].subregions
              /\ \A j \in within : regions[j].protection = told[k].info.protection
              /\ \A a \in told[k].from .. told[k].to - 1 :
                    \E j \in within : a \in regions[j].start .. regions[j].end - 1
         /\ \A j \in DOMAIN regions :
              told # <<>> /\ regions[j].end <= told[Len(told)].to /\ regions[j].end > 1 =>
                  \E k \in DOMAIN told : Covers(told[k], regions[j])
=============================================================================
