------------------------------ MODULE MCOtaFiles ------------------------------
(***************************************************************************)
(* The parts of ota around the archive walk, one of which a behaviour      *)
(* exercises: decoding pbzx, comparing two archives, extracting.           *)
(***************************************************************************)
EXTENDS OtaFiles, FiniteSets

vars == <<pbzxVars, diffVars, extractVars>>

-----------------------------------------------------------------------------
(* pbzx: up to four chunks; a chunk may be larger than the buffer is at first *)

MCChunk ==
    {c \in [xz : BOOLEAN, intact : BOOLEAN, whole : BOOLEAN, size : {1, 3, 4, 6}] :
        /\ c.xz \/ c.intact
        /\ c.whole \/ c.size = 1}
MCPbzxFiles == UNION {[1 .. n -> MCChunk] : n \in 0 .. 3}
                 \cup [1 .. 16 -> {[xz |-> TRUE, intact |-> TRUE, whole |-> TRUE, size |-> s] : s \in {4}}]

-----------------------------------------------------------------------------
(* diff: archives that begin with the same entry.  An entry takes at most   *)
(* four units, but the last one may be larger than SkipBytes.               *)

First == [name |-> <<9>>, size |-> 0, body |-> 0]
Distinct(s) == \A i, j \in DOMAIN s : i # j => s[i] # s[j]
OrdersOf(names, len) == {s \in UNION {[1 .. n -> names] : n \in 0 .. len} : Distinct(s)}
Orders == OrdersOf({<<1>>, <<2>>, <<3>>}, 3) \cup OrdersOf({<<1>>, <<1, 2>>, <<2>>}, 2)
Kinds == {<<0, 0>>, <<1, 0>>, <<0, 1>>}
Large == <<9, 0>>
Of(o, k) == <<First>> \o [i \in DOMAIN o |-> [name |-> o[i], size |-> k[i][1], body |-> k[i][2]]]
Plain(o) == [i \in DOMAIN o |-> <<0, 0>>]
LastLarge(k) == [i \in DOMAIN k |-> IF i = Len(k) THEN Large ELSE k[i]]
MCDiffInputs ==
    LET firsts == {Of(o, Plain(o)) : o \in Orders} \cup {Of(o, LastLarge(Plain(o))) : o \in Orders}
        seconds == UNION {{Of(o, k) : k \in [DOMAIN o -> Kinds]} : o \in Orders}
                     \cup UNION {{Of(o, LastLarge(k)) : k \in [DOMAIN o -> Kinds]} : o \in Orders}
        equal == {[file1 |-> f, file2 |-> f, exists |-> FALSE] :
                    f \in [entries : seconds, tail : {"zeros", "page", "cut"}]}
    IN  equal \cup
        [file1 : [entries : firsts, tail : {"zeros", "cut"}],
         file2 : [entries : seconds, tail : {"zeros", "page", "cut"}],
         exists : BOOLEAN]

-----------------------------------------------------------------------------
(* extraction: a file, a directory with a file and a link, a deeper file;  *)
(* links lead to the file or to the directory they are in                  *)

MCPaths == {<<1>>, <<2>>, <<2, 1>>, <<2, 2>>, <<2, 2, 1>>}
MCEntry ==
    {e \in [path : MCPaths, type : {"dir", "reg", "link", "other"}, size : 0 .. 2, body : {1},
            mode : BOOLEAN, to : {<<>>, <<1>>, <<2>>}] :
        /\ e.type = "link" <=> e.to # <<>>
        /\ e.type = "link" => e.size = 1 /\ e.to # e.path
        /\ e.type = "dir" => e.mode /\ e.size < 2
        /\ e.type = "other" => e.mode /\ e.size = 1 /\ e.path = <<1>>
        /\ e.type \in {"reg", "link"} => e.mode \/ (e.size = 1 /\ e.to # <<2>>)}
\* Three entries, a directory in a directory among them.
Nested ==
    {e \in MCEntry :
        /\ e.mode /\ e.size = 1
        /\ \/ e.type = "dir" /\ e.path \in {<<2>>, <<2, 2>>}
           \/ e.type = "reg" /\ e.path = <<2, 2, 1>>
           \/ e.type = "link" /\ e.path \in {<<2, 2>>, <<2, 2, 1>>} /\ e.to = <<1>>}
Old == [kind |-> "file", body |-> 0, size |-> 1, stale |-> 1, mode |-> TRUE]
OldFiles ==
    LET with(fs0) == [p \in MCPaths |-> IF p \in DOMAIN fs0 THEN fs0[p] ELSE Absent]
        link(p) == [kind |-> "link", to |-> p]
        locked == [Old EXCEPT !.mode = FALSE]
    IN  {with(<<>>),
         with((<<1>> :> Old) @@ (<<2>> :> Dir) @@ (<<2, 1>> :> Old)),
         with((<<1>> :> locked) @@ (<<2>> :> Dir) @@ (<<2, 2>> :> link(<<1>>))),
         with((<<2>> :> Dir) @@ (<<2, 2>> :> link(<<2>>)) @@ (<<2, 1>> :> link(<<1>>))),
         with(<<2>> :> Old)}
MCUnpackings ==
    {u \in [yaa : BOOLEAN,
            entries : UNION {[1 .. n -> MCEntry] : n \in 1 .. 2} \cup [1 .. 3 -> Nested],
            asked : {MCPaths, {<<1>>, <<2, 2, 1>>}},
            files : OldFiles] :
        u.yaa => \A i \in DOMAIN u.entries : u.entries[i].type # "other"}

-----------------------------------------------------------------------------

NoArchive == [entries |-> <<>>, tail |-> "zeros"]

PbzxIdle == /\ decoder = "idle" /\ chunks = <<>> /\ returnedSize = OUT_BUFSIZE
            /\ available = returnedSize /\ totalSize = 0 /\ wanted = 0 /\ clean = TRUE
DiffIdle == /\ differ = "idle" /\ pos1 = 2 /\ pos2 = 2 /\ last2 = 0 /\ printed = {}
            /\ input = [file1 |-> NoArchive, file2 |-> NoArchive, exists |-> FALSE]
ExtractIdle == /\ extractor = "idle" /\ current = 1
               /\ unpacking = [yaa |-> FALSE, entries |-> <<>>, asked |-> {}, files |-> [p \in Paths |-> Absent]]
               /\ fs = unpacking.files

Init ==
    \/ PbzxInit /\ DiffIdle /\ ExtractIdle
    \/ PbzxIdle /\ DiffInit /\ ExtractIdle
    \/ PbzxIdle /\ DiffIdle /\ ExtractInit

Ended ==
    /\ decoder # "reading" /\ differ \notin {"looping", "comparing"} /\ extractor # "extracting"
    /\ UNCHANGED vars

Next ==
    \/ PbzxNext /\ UNCHANGED <<diffVars, extractVars>>
    \/ DiffNext /\ UNCHANGED <<pbzxVars, extractVars>>
    \/ ExtractNext /\ UNCHANGED <<pbzxVars, diffVars>>
    \/ Ended

Spec == Init /\ [][Next]_vars
=============================================================================
