------------------------------ MODULE JokerKexts ------------------------------
(***************************************************************************)
(* doKexts of joker (src/src/joker.c): the kexts of a kernel cache, found  *)
(* in the dictionaries of __PRELINK_INFO (method 1), or by looking for     *)
(* Mach-O headers at the pages of __PRELINK_TEXT (method 2).               *)
(*                                                                         *)
(* Both read what Apple's linker wrote, and neither parses it: method 1    *)
(* looks for the next key of a name, wherever its dictionary ends.         *)
(***************************************************************************)
EXTENDS Integers, Sequences, FiniteSets

CONSTANTS
    Page,       \* 0x1000 bytes, in the 16-byte units doKextract counts in
    Enough,     \* method 1 is trusted if it found more kexts: 50 in the code
    Caches,     \* the kernel caches that may be given
    Requests    \* what may be asked for

\* info: the keys of the dictionaries, with the kext each belongs to.  text: at
\* each unit a header of a kext, of another Mach-O, or neither.  place[k]: where
\* the load address of kext k is in text.  data[k]: its __DATA.__data, in which
\* identifyKextNew looks for names; strings: where in the file "com.apple." is,
\* and whose name it begins.
Token == [key : {"name", "identifier", "address"}, kext : Nat]
Cache == [info : Seq(Token), text : Seq({"kext", "macho", "other"}), place : Seq(Nat),
          data : Seq([off : Nat, size : Nat]), strings : SUBSET (Nat \X Nat)]

\* asked: the kexts -K names; listing: -k, nothing is extracted.
Request == [method : {1, 2}, listing : BOOLEAN, asked : SUBSET Nat]

ASSUME JokerAssumption ==
    /\ Page \in Nat \ {0} /\ Enough \in Nat
    /\ Caches \subseteq Cache /\ Requests \subseteq Request
    /\ \A c \in Caches : /\ Len(c.data) = Len(c.place) /\ IsFiniteSet(c.strings)
                         /\ \A x, y \in c.strings : x[1] = y[1] => x = y

VARIABLES
    finder,     \* "idle", the method at work, or how it ended
    cache, request,
    at,         \* where the method is: a token, or a unit of text
    prev,       \* method 2: where the last header was, or None
    kexts,      \* method 1: dictionaries seen
    lines,      \* what method 1 printed
    ranges,     \* what method 2 printed
    kextracted  \* from where to where kexts were written to files

kextVars == <<finder, cache, request, at, prev, kexts, lines, ranges, kextracted>>

None == -1

First(S) == CHOOSE x \in S : \A y \in S : x <= y

After(key, n) == {k \in DOMAIN cache.info : k > n /\ cache.info[k].key = key}
KextOf(S) == IF S = {} THEN 0 ELSE cache.info[First(S)].kext

\* strstr for the name after token n; 0 if there is none.
NameAfter(n) == IF After("name", n) = {} THEN 0 ELSE First(After("name", n))

HeaderAt(u) == cache.text[u + 1]
TextSize == Len(cache.text)

KextsInit ==
    /\ cache \in Caches /\ request \in Requests
    /\ finder = IF request.method = 1 THEN "info" ELSE "text"
    /\ at = IF request.method = 1 THEN NameAfter(0) ELSE 0
    /\ prev = None
    /\ kexts = 0
    /\ lines = <<>> /\ ranges = <<>> /\ kextracted = <<>>

-----------------------------------------------------------------------------
(* doKextract finds the end of a kext by the next header, of whatever file *)

Headers(from) == {u \in from + Page .. TextSize - 1 : HeaderAt(u) # "other"}

\* Written out, or refused for want of a header; or the search leaves the file.
Kextract(from) ==
    IF from >= TextSize \/ HeaderAt(from) = "other" THEN UNCHANGED <<kextracted, finder>>
    ELSE IF Headers(from) = {} THEN finder' = "outside" /\ UNCHANGED kextracted
    ELSE /\ kextracted' = Append(kextracted, <<from, First(Headers(from))>>)
         /\ UNCHANGED finder

-----------------------------------------------------------------------------
(* Method 1                                                                *)

\* Mutant: the identifier is looked for behind the address.
IdentifiersLate == After("identifier", First(After("address", at)))

Identifiers == After("identifier", at)

\* A name, the next address and the next identifier, be they of the same
\* dictionary or not.  The next name is looked for behind the identifier.
ListInfo ==
    /\ finder = "info" /\ at # 0 /\ After("address", at) # {}
    /\ LET id == KextOf(Identifiers)
           address == KextOf(After("address", at))
       IN  /\ lines' = IF ~request.listing THEN lines
                       ELSE Append(lines, [name |-> cache.info[at].kext, address |-> address,
                                           identifier |-> id])
           /\ IF ~request.listing /\ id # 0 /\ id \in request.asked
              THEN Kextract(cache.place[address])
              ELSE UNCHANGED <<kextracted, finder>>
           /\ at' = NameAfter(IF id = 0 THEN at ELSE First(Identifiers))
    /\ kexts' = kexts + 1
    /\ UNCHANGED <<cache, request, prev, ranges>>

\* No name is left, or no address: "trying method #2 for you", unless enough
\* kexts have been found.
EndInfo ==
    /\ finder = "info" /\ (at = 0 \/ After("address", at) = {})
    /\ finder' = IF kexts > Enough THEN "done" ELSE "text"
    /\ at' = 0
    /\ UNCHANGED <<cache, request, prev, kexts, lines, ranges, kextracted>>

-----------------------------------------------------------------------------
(* Method 2                                                                *)

Owner(u) == IF \E k \in DOMAIN cache.place : cache.place[k] = u
            THEN CHOOSE k \in DOMAIN cache.place : cache.place[k] = u ELSE 0

\* identifyKextNew: the last "com.apple." of the data, 0 if there is none.  From
\* each string the next is looked for in as many bytes as the data has, so the
\* search goes on beyond its end, to a string that no other follows so closely.
Identify(k) ==
    LET places == {x[1] : x \in cache.strings}
        Found(from) == {s \in places : from <= s /\ s < from + cache.data[k].size}
        start == Found(cache.data[k].off)
        ends == {s \in places : First(start) <= s /\ Found(s + 1) = {}}
    IN  IF k = 0 \/ start = {} THEN 0
        ELSE (CHOOSE x \in cache.strings : x[1] = First(ends))[2]

NextPage ==
    /\ finder = "text" /\ at < TextSize
    /\ at' = at + Page

\* Mutant: the header of another file begins a kext.
PassPageAny ==
    /\ NextPage
    /\ HeaderAt(at) = "other" \/ (HeaderAt(at) = "macho" /\ prev # None)
    /\ prev' = IF HeaderAt(at) = "macho" THEN at ELSE prev
    /\ UNCHANGED <<finder, cache, request, kexts, lines, ranges, kextracted>>

PassPage ==
    /\ NextPage
    /\ HeaderAt(at) = "other" \/ (HeaderAt(at) = "macho" /\ prev # None)
    /\ UNCHANGED <<finder, cache, request, prev, kexts, lines, ranges, kextracted>>

\* The first header, of whatever file, is where the first kext begins.
FirstHeader ==
    /\ NextPage
    /\ HeaderAt(at) # "other" /\ prev = None
    /\ prev' = at
    /\ UNCHANGED <<finder, cache, request, kexts, lines, ranges, kextracted>>

\* "kext size reported is greater than remaining dump bytes": one byte further,
\* and page after page, no header can be found any more.
Astray ==
    /\ finder = "text" /\ at < TextSize /\ prev # None
    /\ HeaderAt(at) = "kext" /\ at - prev + at > TextSize
    /\ finder' = "astray"
    /\ UNCHANGED <<cache, request, at, prev, kexts, lines, ranges, kextracted>>

\* A kext is printed, or extracted, when the header of the next one is met.
ListText ==
    /\ NextPage
    /\ HeaderAt(at) = "kext" /\ prev # None /\ at - prev + at <= TextSize
    /\ LET id == Identify(Owner(prev)) IN
         /\ ranges' = IF ~request.listing THEN ranges
                      ELSE Append(ranges, [from |-> prev, to |-> at, id |-> id])
         /\ IF ~request.listing /\ id \in request.asked THEN Kextract(prev)
            ELSE UNCHANGED <<kextracted, finder>>
    /\ prev' = at
    /\ UNCHANGED <<cache, request, kexts, lines>>

EndText ==
    /\ finder = "text" /\ at >= TextSize
    /\ finder' = "done"
    /\ UNCHANGED <<cache, request, at, prev, kexts, lines, ranges, kextracted>>

KextsNext ==
    \/ ListInfo \/ EndInfo
    \/ PassPage \/ FirstHeader \/ Astray \/ ListText \/ EndText

-----------------------------------------------------------------------------
(* Properties                                                              *)

KextsTypeOK ==
    /\ finder \in {"idle", "info", "text", "done", "astray", "outside"}
    /\ at \in Nat /\ prev \in Nat \cup {None} /\ kexts \in Nat
    /\ finder = "info" => at \in {0} \cup {n \in DOMAIN cache.info : cache.info[n].key = "name"}
    /\ \A n \in DOMAIN lines : lines[n].name > 0 /\ lines[n].address > 0
    /\ \A n \in DOMAIN kextracted : kextracted[n][1] + Page <= kextracted[n][2]

\* Every dictionary has its three keys, of which the name comes first, and no
\* other dictionary begins before it ends.
Orderly(info) ==
    /\ Len(info) = 3 * Len(cache.place)
    /\ \A n \in DOMAIN info :
         /\ info[n].kext = (n + 2) \div 3
         /\ info[n].key = "name" <=> n % 3 = 1
         /\ n % 3 = 2 => info[n].key # info[n + 1].key

\* In such a cache method 1 lists every kext, once and in order, with its own
\* identifier and address, although it never looks where a dictionary ends.
InfoIsExact ==
    finder # "idle" /\ request.method = 1 /\ request.listing /\ Orderly(cache.info) =>
        /\ \A n \in DOMAIN lines : lines[n] = [name |-> n, address |-> n, identifier |-> n]
        /\ finder # "info" => Len(lines) = Len(cache.place)

\* Where kexts begin for method 2: at the first header, then at those of kexts.
Begins(u) ==
    /\ u % Page = 0
    /\ \/ HeaderAt(u) = "kext"
       \/ HeaderAt(u) # "other" /\ \A v \in 0 .. u - 1 : v % Page = 0 => HeaderAt(v) = "other"

\* No other kext has a name in the data of this one, or so close behind a name of
\* its own.
Apart(k) ==
    LET size == cache.data[k].size IN
    \A x \in cache.strings :
        x[2] # k => /\ x[1] \notin cache.data[k].off .. cache.data[k].off + size - 1
                    /\ \A y \in cache.strings : y[2] = k /\ x[1] > y[1] => x[1] > y[1] + size

\* No kext but the last is larger than all that is behind it.
Fits ==
    LET begins == {u \in 0 .. TextSize - 1 : Begins(u)} IN
    \A u, v \in begins : u < v /\ (\A w \in begins : w <= u \/ w >= v) => v + (v - u) <= TextSize

\* A kext that method 2 lists ends where the next begins, none in between is
\* left out, and its name is its own if it is set apart; an extracted one ends
\* there too, or at the header of some other file within it.  When it gets to the
\* end it has listed all but the last, and it does unless one is large.
RangesAreExact ==
    /\ \A n \in DOMAIN ranges :
         LET line == ranges[n] IN
           /\ Begins(line.from) /\ Begins(line.to)
           /\ \A u \in line.from + 1 .. line.to - 1 : ~Begins(u)
           /\ n < Len(ranges) => ranges[n + 1].from = line.to
           /\ LET k == Owner(line.from) IN k # 0 /\ Apart(k) => line.id \in {0, k}
    /\ request.method = 2 =>
         \A n \in DOMAIN kextracted :
           LET from == kextracted[n][1]
               to == kextracted[n][2]
           IN  Begins(from) /\ HeaderAt(to) # "other" /\ \A u \in from + Page .. to - 1 : ~Begins(u)
    /\ finder = "done" /\ request.listing /\ (request.method = 2 \/ kexts <= Enough) =>
         \A u, v \in 0 .. TextSize - 1 : u < v /\ Begins(u) /\ Begins(v) => \E n \in DOMAIN ranges : ranges[n].from = u
    /\ Fits => finder # "astray"

\* Kexts are listed with what is theirs, whichever of the two methods finds them
\* (doKexts of joker, lines 2410-2720).
KextsAreExact == InfoIsExact /\ RangesAreExact
=============================================================================
