------------------------------ MODULE OtaExtract ------------------------------
(***************************************************************************)
(* extractFile of ota (src/src/ota.c), called for one entry after the      *)
(* other, and what it does to the file system.                             *)
(*                                                                         *)
(* A path is a sequence of components, from the directory in which ota     *)
(* runs.  A file is what was written last (body, size) and the bytes of an *)
(* older content that follow (stale).  Links are followed as open, mkdir   *)
(* and symlink follow them: on the way, and by open at the end as well.    *)
(***************************************************************************)
EXTENDS Integers, Sequences, Functions

CONSTANTS
    Paths,          \* the paths looked at; closed under prefixes
    Unpackings      \* entries to unpack, which are asked for, and what is there

\* mode says whether the owner may write; to is where a link leads.
Entry == [path : Paths, type : {"dir", "reg", "link", "other"}, size : Nat,
          body : Nat, mode : BOOLEAN, to : Seq(Nat)]
Absent == [kind |-> "absent"]
Dir == [kind |-> "dir"]
Node == {Absent, Dir} \cup [kind : {"link"}, to : Seq(Nat)]
           \cup [kind : {"file"}, body : Nat, size : Nat, stale : Nat, mode : BOOLEAN]

ASSUME ExtractAssumption ==
    /\ Paths \subseteq Seq(Nat)
    /\ \A p \in Paths : p # <<>> /\ \A i \in 1 .. Len(p) : SubSeq(p, 1, i) \in Paths
    /\ Unpackings \subseteq
         [yaa : BOOLEAN, entries : Seq(Entry), asked : SUBSET Paths, files : [Paths -> Node]]

VARIABLES
    extractor,  \* "idle", "extracting" or "done"
    unpacking,  \* the kind of archive, the entries, what is asked for, the old files
    current,    \* the entry at hand
    fs          \* the file system

extractVars == <<extractor, unpacking, current, fs>>

ExtractInit ==
    /\ extractor = "extracting"
    /\ unpacking \in Unpackings
    /\ current = 1
    /\ fs = unpacking.files

entry == unpacking.entries[current]

\* A legacy walk passes over empty entries, a YAA walk over none; of the others
\* those are extracted whose names match.  Links of a YAA archive always are.
Extracted(e) ==
    \/ unpacking.yaa /\ e.type = "link"
    \/ (unpacking.yaa \/ e.size > 0) /\ e.path \in unpacking.asked

-----------------------------------------------------------------------------
(* The file system                                                         *)

Parent(p) == SubSeq(p, 1, Len(p) - 1)

\* The directory ota runs in is there; beyond Paths nothing is known.
NodeAt(files, q) ==
    CASE q \in Paths -> files[q]
      [] q = <<>> -> Dir
      [] OTHER -> [kind |-> "unknown"]

\* Everything is in a directory.
Reachable(files, p) == NodeAt(files, Parent(p)).kind = "dir"
Grounded(files) == \A p \in Paths : files[p] # Absent => Reachable(files, p)

ASSUME FilesAssumption == \A u \in Unpackings : Grounded(u.files)

\* Links name what they lead to by a path without links; of links that lead to
\* links two are followed, and what is still a link then leads nowhere.
Hop(files, q) == IF NodeAt(files, q).kind = "link" THEN files[q].to ELSE q
Followed(files, q) == Hop(files, Hop(files, q))

\* What the path p names, all links followed.
Resolve(files, p) ==
    LET named[i \in 0 .. Len(p)] ==
          IF i = 0 THEN <<>> ELSE Followed(files, Append(named[i - 1], p[i]))
    IN  named[Len(p)]

\* What it names to mkdir and symlink, which follow no link at its end.
Slot(files, p) == Append(Resolve(files, Parent(p)), p[Len(p)])

\* mkdir and symlink leave alone what is there.
MakeNew(files, p, node) ==
    LET q == Slot(files, p) IN
    IF NodeAt(files, q).kind = "absent" /\ Reachable(files, q)
    THEN [files EXCEPT ![q] = node]
    ELSE files

\* Mutant: only the last directory is made.
WithParentOnly(p) == IF Len(p) > 1 THEN MakeNew(fs, Parent(p), Dir) ELSE fs

\* mkdir for each directory on the way, the outermost first; past one that neither
\* is there nor can be made, the next fail as well.
WithParents(p) ==
    LET above(i) == SubSeq(p, 1, i)
        goesOn(i) == \/ NodeAt(fs, Slot(fs, above(i))).kind = "absent"
                     \/ NodeAt(fs, Resolve(fs, above(i))).kind = "dir"
        made == {Slot(fs, above(i)) :
                   i \in {n \in 1 .. Len(p) - 1 : \A j \in 1 .. n : goesOn(j)}}
    IN  [q \in Paths |-> IF q \in made /\ fs[q].kind = "absent" THEN Dir ELSE fs[q]]

\* fchmodat, which follows no link: what stands where the link should be is
\* changed, of which only files have a mode here.
Chmod(files, e) ==
    LET q == Slot(files, e.path) IN
    IF NodeAt(files, q).kind = "file"
    THEN [files EXCEPT ![q] = [files[q] EXCEPT !.mode = e.mode]]
    ELSE files

\* What is left of an older, longer file: open does not truncate.
Left(node, e) ==
    IF node.kind = "file" /\ node.size + node.stale > e.size
    THEN node.size + node.stale - e.size
    ELSE 0

\* Whether open succeeds: not on a directory, nor on a file its owner may not write.
Opens(files, q) ==
    /\ Reachable(files, q)
    /\ NodeAt(files, q).kind \in {"absent", "file"}
    /\ NodeAt(files, q).kind = "file" => files[q].mode

\* open, fchmod and write; none of them is checked.
Dump(files, e) ==
    LET q == Resolve(files, e.path) IN
    IF Opens(files, q)
    THEN [files EXCEPT ![q] =
            [kind |-> "file", body |-> e.body, size |-> e.size,
             stale |-> Left(files[q], e), mode |-> e.mode]]
    ELSE files

-----------------------------------------------------------------------------
(* The entries                                                             *)

Link(e) == [kind |-> "link", to |-> e.to]

NextEntry == current' = current + 1 /\ UNCHANGED <<extractor, unpacking>>

Extracting == extractor = "extracting" /\ current <= Len(unpacking.entries)

PassOver == Extracting /\ ~Extracted(entry) /\ NextEntry /\ UNCHANGED fs

ExtractDir ==
    /\ Extracting /\ Extracted(entry) /\ entry.type = "dir"
    /\ fs' = MakeNew(fs, entry.path, Dir)
    /\ NextEntry

\* A link of a legacy archive, of which a name that was taken keeps its node.
ExtractLink ==
    /\ Extracting /\ Extracted(entry) /\ entry.type = "link" /\ ~unpacking.yaa
    /\ fs' = Chmod(MakeNew(WithParents(entry.path), entry.path, Link(entry)), entry)
    /\ NextEntry

\* A link of a YAA archive is made by YAAright itself, without what is above it.
ExtractYaaLink ==
    /\ Extracting /\ unpacking.yaa /\ entry.type = "link"
    /\ fs' = MakeNew(fs, entry.path, Link(entry))
    /\ NextEntry

\* A file of unknown type is complained about, and extracted.
ExtractFile ==
    /\ Extracting /\ Extracted(entry) /\ entry.type \in {"reg", "other"}
    /\ fs' = Dump(WithParents(entry.path), entry)
    /\ NextEntry

ExtractEnd ==
    /\ extractor = "extracting" /\ current > Len(unpacking.entries)
    /\ extractor' = "done"
    /\ UNCHANGED <<unpacking, current, fs>>

ExtractNext ==
    \/ PassOver \/ ExtractDir \/ ExtractLink \/ ExtractYaaLink \/ ExtractFile
    \/ ExtractEnd

ExtractSpec == ExtractInit /\ [][ExtractNext]_extractVars

-----------------------------------------------------------------------------

ExtractTypeOK ==
    extractor # "idle" =>
        /\ extractor \in {"extracting", "done"}
        /\ current \in 1 .. Len(unpacking.entries) + 1
        /\ fs \in [Paths -> Node]

Seen == {i \in DOMAIN unpacking.entries : i < current /\ Extracted(unpacking.entries[i])}

\* q is a directory above p.
OnTheWay(q, p) == \E n \in 1 .. Len(p) - 1 : q = SubSeq(p, 1, n)

\* What an entry can be unpacked over: a file that is not longer, if it may be written.
Replaceable(node, e) ==
    \/ node.kind = "absent"
    \/ node.kind = "dir" /\ e.type = "dir"
    \/ node.kind = "file" /\ e.type \in {"reg", "other"}
         /\ node.mode /\ node.size + node.stale <= e.size

\* The names in the archive differ, none is below a file or a link, of the archive
\* or of what was there before, and each is free or can be replaced.
Sane ==
    LET es == unpacking.entries
    IN  /\ \A i, j \in DOMAIN es : i # j => es[i].path # es[j].path
        /\ \A i, j \in DOMAIN es : es[i].type # "dir" => ~OnTheWay(es[i].path, es[j].path)
        /\ \A i \in DOMAIN es : Replaceable(unpacking.files[es[i].path], es[i])
        /\ \A i \in DOMAIN es, q \in Paths :
             OnTheWay(q, es[i].path) => unpacking.files[q].kind \in {"absent", "dir"}

\* Directories and links of YAA archives are made without what is above them.
Alone(e) == e.type = "dir" \/ (unpacking.yaa /\ e.type = "link")

\* What is above those comes before them in the archive, and is extracted.
TopDown ==
    LET es == unpacking.entries
    IN  \A i \in DOMAIN es, q \in Paths :
          Alone(es[i]) /\ Extracted(es[i]) /\ OnTheWay(q, es[i].path) =>
            \E j \in DOMAIN es : j < i /\ es[j].path = q /\ es[j].type = "dir" /\ Extracted(es[j])

\* What was extracted is there, a file with nothing but its own content.
There(e) ==
    CASE e.type = "dir" -> fs[e.path] = Dir
      [] e.type = "link" -> fs[e.path] = Link(e)
      [] OTHER -> fs[e.path] = [kind |-> "file", body |-> e.body, size |-> e.size,
                                stale |-> 0, mode |-> e.mode]

\* Unpacked over nothing that is in its way, each entry that is extracted is there
\* with its own content, whatever the order of the entries; directories, and links
\* of YAA archives, if the archive goes from the outside inwards.
FreshIsExact ==
    extractor # "idle" /\ Sane =>
        \A i \in Seen : ~Alone(unpacking.entries[i]) \/ TopDown => There(unpacking.entries[i])
=============================================================================
