-------------------------------- MODULE Imagine --------------------------------
(***************************************************************************)
(* imagine (src/src/6-bonus.c): prints the tags of an IMG3 file and, with  *)
(* -d, the device tree in it.  dumpTreeNode prints a node behind its       *)
(* properties, calls itself for the children, and returns how much it read.*)
(***************************************************************************)
EXTENDS TreeShape

CONSTANTS
    Images,         \* the files that may be given
    MaxProperties   \* how many the root may have: 20

\* The parts of a tree in the order of the file, each as deep as its node.
\* named: the property "name".  closed: a 0 is in its value.
ImagePart == [part : {"node", "property"}, depth : Nat, properties : Nat, children : Nat,
              named : BOOLEAN, length : Nat, closed : BOOLEAN]
\* dtre: what a TYPE tag says.  zeros: no tag, but zeros up to the end.
ImageTag == [kind : {"type", "data", "other", "zeros"}, dtre : BOOLEAN, tree : Seq(ImagePart)]

\* Lengths of tags are multiples of four.
ASSUME ImagineAssumption ==
    /\ MaxProperties \in Nat
    /\ \A i \in Images : /\ i.magic \in BOOLEAN /\ i.dump \in BOOLEAN /\ i.tags \in Seq(ImageTag)
                         /\ \A t \in DOMAIN i.tags : i.tags[t].kind = "data" => i.tags[t].tree # <<>>

VARIABLES
    image,
    imagine,        \* "start", "tags", "tree", "done", "failed", "stuck" or "crashed"
    tagAt,          \* tag
    imageType,      \* whether it is TYPE_DTRE
    treeCalls,      \* the calls of dumpTreeNode, the innermost first
    imageLines      \* the nodes printed

imagineVars == <<image, imagine, tagAt, imageType, treeCalls, imageLines>>

-----------------------------------------------------------------------------
(* The data of a tag                                                       *)

NoPlace == -1       \* offset, if a node has no properties
Garbage == 0        \* name, if none is called "name"

theTag == image.tags[tagAt]
Parts == theTag.tree

NodeSize == 8
PropertySize == 36  \* without the value
Up4(n) == ((n + 3) \div 4) * 4

PartBegin ==
    LET from[k \in 1 .. Len(Parts) + 1] ==
          IF k = 1 THEN 0
          ELSE from[k - 1] + (IF Parts[k - 1].part = "node" THEN NodeSize
                              ELSE PropertySize + Up4(Parts[k - 1].length))
    IN  from
PartsAt(offset, kind) == {k \in DOMAIN Parts : PartBegin[k] = offset /\ Parts[k].part = kind}

\* Whether the byte behind the value of a property is 0: padding is, the first of a
\* name or of the next tag is not, and counts begin with their low byte.
ZeroBehind(k) ==
    \/ Parts[k].length % 4 # 0
    \/ k < Len(Parts) /\ Parts[k + 1].part = "node" /\ Parts[k + 1].properties % 256 = 0

-----------------------------------------------------------------------------
(* main                                                                    *)

ImagineInit ==
    /\ image \in Images
    /\ imagine = "start" /\ tagAt = 1 /\ imageType = FALSE
    /\ treeCalls = <<>> /\ imageLines = <<>>

CheckImage ==
    /\ imagine = "start"
    /\ imagine' = IF image.magic THEN "tags" ELSE "failed"
    /\ UNCHANGED <<image, tagAt, imageType, treeCalls, imageLines>>

AtTag(kind) == imagine = "tags" /\ tagAt <= Len(image.tags) /\ theTag.kind = kind

TypeTag ==
    /\ AtTag("type")
    /\ imageType' = theTag.dtre
    /\ tagAt' = tagAt + 1
    /\ UNCHANGED <<image, imagine, treeCalls, imageLines>>

OtherTag ==
    /\ AtTag("other")
    /\ tagAt' = tagAt + 1
    /\ UNCHANGED <<image, imagine, imageType, treeCalls, imageLines>>

\* Its length is 0: it is met again for ever.
ZerosTag ==
    /\ AtTag("zeros")
    /\ imagine' = "stuck"
    /\ UNCHANGED <<image, tagAt, imageType, treeCalls, imageLines>>

TagsEnd ==
    /\ imagine = "tags" /\ tagAt > Len(image.tags)
    /\ imagine' = "done"
    /\ UNCHANGED <<image, tagAt, imageType, treeCalls, imageLines>>

\* A call of dumpTreeNode for the node k.
TreeCall(k, indent) ==
    [node |-> k, indent |-> indent, properties |-> Parts[k].properties, children |-> Parts[k].children,
     dtp |-> PartBegin[k] + NodeSize, offset |-> NoPlace, name |-> Garbage, values |-> <<>>, named |-> FALSE]

\* doData: of another type, with many properties, or without -d, it is passed over.
DataTag ==
    /\ AtTag("data")
    /\ IF imageType /\ Parts[1].properties <= MaxProperties /\ image.dump
       THEN treeCalls' = <<TreeCall(1, 1)>> /\ imagine' = "tree" /\ UNCHANGED tagAt
       ELSE tagAt' = tagAt + 1 /\ UNCHANGED <<treeCalls, imagine>>
    /\ UNCHANGED <<image, imageType, imageLines>>

-----------------------------------------------------------------------------
(* dumpTreeNode                                                            *)

call == Head(treeCalls)
InCall == imagine = "tree"

\* The value as it is, with what the buffer held behind it, or not at all: copyValue
\* takes a value for a string that ends right behind itself.  name is copied as a string.
copyValue(k) ==
    CASE Parts[k].named -> "own"
      [] ~Parts[k].named /\ ~ZeroBehind(k) -> "(null)"
      [] OTHER -> IF Parts[k].closed THEN "own" ELSE "mixed"

\* Mutant: no alignment behind a value.
DumpPropertyUnaligned ==
    /\ InCall /\ call.properties > 0
    /\ \E k \in PartsAt(call.dtp, "property") :
         LET behind == call.dtp + PropertySize + Parts[k].length IN
         treeCalls' = [treeCalls EXCEPT ![1] =
             [call EXCEPT !.properties = @ - 1, !.dtp = behind, !.offset = behind,
                          !.name = IF Parts[k].named THEN k ELSE @,
                          !.values = Append(@, [property |-> k, value |-> copyValue(k)])]]
    /\ UNCHANGED <<image, imagine, tagAt, imageType, imageLines>>

DumpProperty ==
    /\ InCall /\ call.properties > 0
    /\ \E k \in PartsAt(call.dtp, "property") :
         LET behind == Up4(call.dtp + PropertySize + Parts[k].length) IN
         treeCalls' = [treeCalls EXCEPT ![1] =
             [call EXCEPT !.properties = @ - 1, !.dtp = behind, !.offset = behind,
                          !.name = IF Parts[k].named THEN k ELSE @,
                          !.values = Append(@, [property |-> k, value |-> copyValue(k)])]]
    /\ UNCHANGED <<image, imagine, tagAt, imageType, imageLines>>

PrintNode ==
    /\ InCall /\ call.properties = 0 /\ ~call.named
    /\ imageLines' = Append(imageLines,
            [tag |-> tagAt, node |-> call.node, indent |-> call.indent, name |-> call.name, values |-> call.values])
    /\ treeCalls' = [treeCalls EXCEPT ![1].named = TRUE]
    /\ UNCHANGED <<image, imagine, tagAt, imageType>>

\* A child is looked for at address 0, or near it, if there is no offset.
DumpChild ==
    /\ InCall /\ call.named /\ call.children > 0
    /\ IF call.offset = NoPlace
       THEN imagine' = "crashed" /\ UNCHANGED treeCalls
       ELSE \E k \in PartsAt(call.offset, "node") :
              /\ treeCalls' = <<TreeCall(k, call.indent + 1)>>
                                \o [treeCalls EXCEPT ![1].children = @ - 1]
              /\ UNCHANGED imagine
    /\ UNCHANGED <<image, tagAt, imageType, imageLines>>

\* It returns offset - Node, which the caller adds to its own offset, Node.
ReturnNode ==
    /\ InCall /\ call.named /\ call.children = 0
    /\ IF Len(treeCalls) = 1
       THEN treeCalls' = <<>> /\ imagine' = "tags" /\ tagAt' = tagAt + 1
       ELSE /\ treeCalls' = [Tail(treeCalls) EXCEPT ![1].offset = call.offset]
            /\ UNCHANGED <<imagine, tagAt>>
    /\ UNCHANGED <<image, imageType, imageLines>>

ImagineNext ==
    \/ CheckImage \/ TypeTag \/ OtherTag \/ ZerosTag \/ TagsEnd \/ DataTag
    \/ DumpProperty \/ PrintNode \/ DumpChild \/ ReturnNode

\* It takes something else for a property or a node.
ImagineAstray ==
    /\ InCall
    /\ \/ call.properties > 0 /\ PartsAt(call.dtp, "property") = {}
       \/ call.named /\ call.children > 0 /\ call.offset # NoPlace /\ PartsAt(call.offset, "node") = {}
ImagineEnded == imagine \in {"done", "failed", "stuck", "crashed"} \/ ImagineAstray

-----------------------------------------------------------------------------
(* Properties                                                              *)

ImagineTypeOK ==
    /\ imagine \in {"start", "tags", "tree", "done", "failed", "stuck", "crashed"}
    /\ tagAt \in 1 .. Len(image.tags) + 1 /\ imageType \in BOOLEAN
    /\ InCall => treeCalls # <<>>

\* Whether the tree of a tag is asked for.
TreeAskedFor(t) ==
    /\ image.magic /\ image.dump /\ image.tags[t].kind = "data"
    /\ image.tags[t].tree[1].properties <= MaxProperties
    /\ \E s \in 1 .. t - 1 : /\ image.tags[s].kind = "type" /\ image.tags[s].dtre
                             /\ \A u \in s + 1 .. t - 1 : image.tags[u].kind # "type"

\* How a node is printed: deeper by one than it is, under the last of its properties
\* that is called "name", and with all of them, which are the parts behind it.
IsLineOf(line, t, k) ==
    LET ps == image.tags[t].tree
        names == {i \in k + 1 .. Behind(ps, k) - 1 : ps[i].named}
    IN  /\ line.tag = t /\ line.node = k /\ line.indent = ps[k].depth + 1
        /\ IF names = {} THEN line.name = Garbage
                         ELSE line.name \in names /\ \A i \in names : i <= line.name
        /\ Len(line.values) = ps[k].properties
        /\ \A i \in DOMAIN line.values :
              /\ line.values[i].property = k + i
              /\ ps[k + i].length % 4 # 0 => line.values[i].value # "(null)"

\* The nodes to be printed, and those that are.
AskedNodes ==
    UNION {{t} \X NodesOf(image.tags[t].tree) : t \in {s \in DOMAIN image.tags : TreeAskedFor(s)}}
PrintedNodes == {<<imageLines[n].tag, imageLines[n].node>> : n \in DOMAIN imageLines}

InOrder(a, b) == a[1] < b[1] \/ (a[1] = b[1] /\ a[2] < b[2])

\* Nodes are printed in the order of the file, each once, as deep as it is, under
\* its own name and with its own properties: the sizes that calls return, through
\* however many, lead to the next node.  Only a node without properties stops it.
\* A value with padding behind it is shown.
ImageTreeIsTold ==
    (\A t \in DOMAIN image.tags : image.tags[t].kind = "data" => IsTree(image.tags[t].tree)) =>
        /\ ~ImagineAstray
        /\ \A n \in DOMAIN imageLines :
              LET line == imageLines[n]
                  at == <<line.tag, line.node>>
              IN  /\ at \in AskedNodes /\ IsLineOf(line, line.tag, line.node)
                  /\ \A m \in 1 .. n - 1 : InOrder(<<imageLines[m].tag, imageLines[m].node>>, at)
                  /\ \A b \in AskedNodes : InOrder(b, at) => b \in PrintedNodes
        /\ imagine = "done" => PrintedNodes = AskedNodes
        /\ imagine = "crashed" => imageLines[Len(imageLines)].values = <<>>
=============================================================================
