--------------------------------- MODULE Dtize ---------------------------------
(***************************************************************************)
(* dtize (src/src/dtize.c): prints a device tree from an Img4 file.  A     *)
(* node is two counts, its properties, and its children; where one ends is *)
(* known only by reading it.                                               *)
(***************************************************************************)
EXTENDS TreeShape

CONSTANTS
    Trees,      \* trees that may be in a file: Seq(Part), see below
    ValueLen,   \* DEV_TREE_PROP_VALUE_LEN, 8192
    Mask        \* DEV_TREE_PROP_FLAGS_MASK, 2^28: what is at or above is a flag

\* The parts of a tree in the order of the file, each as deep as its node.  A
\* property's value may be all zeros.  length: as it is in the file.
Part == [part : {"counts", "property"}, depth : Nat, properties : Nat, children : Nat,
         length : Nat, zeros : BOOLEAN]

\* header: what is before the tree is as expected.  cut: parts that are missing.
ASSUME DtizeAssumption ==
    /\ {ValueLen, Mask} \subseteq Nat /\ ValueLen % 4 = 0 /\ ValueLen < Mask
    /\ \A t \in Trees : t.header \in BOOLEAN /\ t.parts \in Seq(Part) /\ t.cut \in 0 .. Len(t.parts)

VARIABLES
    tree,
    dtize,      \* "start", "main", "counts" or "read" in getDTNode, "done", or "error"
    place,      \* the file's position
    nodes,      \* the calls of getDTNode, the innermost first: what each has to read
    indent,
    propertyLines   \* the properties printed

dtizeVars == <<tree, dtize, place, nodes, indent, propertyLines>>

-----------------------------------------------------------------------------
(* The file                                                                *)

HeaderSize == 53    \* with a name of 29 characters
CountsSize == 8
NameSize == 36      \* the name of a property, and its length

Length(part) == part.length % Mask

\* Values begin and end at multiples of four.
SizeOf(part) ==
    IF part.part = "counts" THEN CountsSize ELSE NameSize + ((Length(part) + 3) \div 4) * 4

BeginOf ==
    LET from[k \in 1 .. Len(tree.parts) + 1] ==
            IF k = 1 THEN HeaderSize ELSE from[k - 1] + SizeOf(tree.parts[k - 1])
    IN  from
totalLen == BeginOf[Len(tree.parts) + 1] - HeaderSize
FileEnd == BeginOf[Len(tree.parts) + 1 - tree.cut]

\* The part that begins at the file's position, if one does.
Here == {k \in DOMAIN tree.parts : BeginOf[k] = place}

-----------------------------------------------------------------------------

DtizeInit ==
    /\ tree \in Trees
    /\ dtize = "start" /\ place = 0
    /\ nodes = <<>> /\ indent = 0
    /\ propertyLines = <<>>

CheckHeader ==
    /\ dtize = "start"
    /\ IF tree.header
       THEN dtize' = "main" /\ place' = HeaderSize
       ELSE dtize' = "error" /\ UNCHANGED place
    /\ UNCHANGED <<tree, nodes, indent, propertyLines>>

\* main: until the position is at the length of the tree.
AnotherNode ==
    /\ dtize = "main"
    /\ dtize' = IF place < totalLen THEN "counts" ELSE "done"
    /\ UNCHANGED <<tree, place, nodes, indent, propertyLines>>

Node(properties, children, inChildren) ==
    [properties |-> properties, children |-> children, inChildren |-> inChildren]

\* getDTNode begins.  At the end of the file nothing is read and both counts are 0.
GetCounts ==
    /\ dtize = "counts"
    /\ IF place >= FileEnd
       THEN nodes' = <<Node(0, 0, FALSE)>> \o nodes /\ UNCHANGED place
       ELSE \E k \in Here :
               /\ tree.parts[k].part = "counts"
               /\ nodes' = <<Node(tree.parts[k].properties, tree.parts[k].children, FALSE)>> \o nodes
               /\ place' = place + CountsSize
    /\ dtize' = "read"
    /\ UNCHANGED <<tree, indent, propertyLines>>

\* Mutant: the value is read without what follows it up to a multiple of four.
PAD32Not(n) == n

PAD32(n) == n + ((4 - (n % 4)) % 4)

\* As an integer, even if it is 0; as nothing; or as a string.
Printed(part) ==
    CASE Length(part) = 4 -> "integer"
      [] Length(part) = 0 \/ (Length(part) # 4 /\ part.zeros) -> "NULL"
      [] OTHER -> "string"

\* "Excessive device tree property len" ends the program.  At the end of the file
\* the last property, or what is on the stack, is printed again.
GetProperty ==
    /\ dtize = "read" /\ nodes[1].properties > 0
    /\ nodes' = [nodes EXCEPT ![1].properties = @ - 1]
    /\ IF place >= FileEnd
       THEN propertyLines' = Append(propertyLines, [part |-> 0, indent |-> indent, as |-> "stale"]) /\ UNCHANGED <<dtize, place>>
       ELSE \E k \in Here :
               LET part == tree.parts[k] IN
               /\ part.part = "property"
               /\ IF Length(part) > ValueLen
                  THEN dtize' = "error" /\ UNCHANGED <<place, propertyLines>>
                  ELSE /\ place' = place + NameSize + PAD32(Length(part))
                       /\ propertyLines' = Append(propertyLines, [part |-> k, indent |-> indent, as |-> Printed(part)])
                       /\ UNCHANGED dtize
    /\ UNCHANGED <<tree, indent>>

BeginChildren ==
    /\ dtize = "read" /\ nodes[1].properties = 0 /\ ~nodes[1].inChildren
    /\ indent' = indent + 1
    /\ nodes' = [nodes EXCEPT ![1].inChildren = TRUE]
    /\ UNCHANGED <<tree, dtize, place, propertyLines>>

NextChild ==
    /\ dtize = "read" /\ nodes[1].inChildren /\ nodes[1].children > 0
    /\ nodes' = [nodes EXCEPT ![1].children = @ - 1]
    /\ dtize' = "counts"
    /\ UNCHANGED <<tree, place, indent, propertyLines>>

EndNode ==
    /\ dtize = "read" /\ nodes[1].inChildren /\ nodes[1].children = 0
    /\ indent' = indent - 1
    /\ nodes' = Tail(nodes)
    /\ dtize' = IF Len(nodes) = 1 THEN "main" ELSE "read"
    /\ UNCHANGED <<tree, place, propertyLines>>

DtizeNext ==
    \/ CheckHeader \/ AnotherNode \/ GetCounts \/ GetProperty
    \/ BeginChildren \/ NextChild \/ EndNode

\* It is then out of step with the parts, and takes names for counts.
OutOfStep ==
    \/ dtize = "counts" /\ place < FileEnd /\ ~\E k \in Here : tree.parts[k].part = "counts"
    \/ dtize = "read" /\ nodes[1].properties > 0 /\ place < FileEnd
       /\ ~\E k \in Here : tree.parts[k].part = "property"
DtizeEnded == dtize \in {"done", "error"} \/ OutOfStep

-----------------------------------------------------------------------------
(* Properties                                                              *)

DtizeTypeOK ==
    /\ dtize \in {"start", "main", "counts", "read", "done", "error"}
    /\ place \in Nat /\ indent \in Nat
    /\ dtize = "read" => nodes # <<>>
    /\ dtize = "main" => nodes = <<>>

\* A tree not longer than what is before it is not read.
Complete ==
    /\ tree.cut = 0 /\ tree.header /\ totalLen > HeaderSize
    /\ IsTree(tree.parts)
    /\ \A k \in DOMAIN tree.parts : Length(tree.parts[k]) <= ValueLen

PrintedParts == {propertyLines[n].part : n \in DOMAIN propertyLines}

\* Of a complete file each property is printed, in order and once, as deep as its
\* node is in the tree, and the walk ends with the last: it stays in step with
\* the nodes, whatever the lengths and counts are.
TreeIsTold ==
    Complete =>
        /\ ~OutOfStep /\ dtize # "error"
        /\ \A n \in DOMAIN propertyLines :
              LET line == propertyLines[n] IN
              /\ line.part \in PropertiesOf(tree.parts) /\ line.indent = tree.parts[line.part].depth
              /\ \A m \in 1 .. n - 1 : propertyLines[m].part < line.part
              /\ \A k \in PropertiesOf(tree.parts) : k < line.part => k \in PrintedParts
        /\ dtize = "done" => PrintedParts = PropertiesOf(tree.parts) /\ place = FileEnd
=============================================================================
