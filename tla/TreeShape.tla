------------------------------- MODULE TreeShape -------------------------------
(***************************************************************************)
(* Device trees in the order of a file: a node, its properties, and then   *)
(* the nodes below it.  A node counts its properties and its children;     *)
(* each part is marked with how deep it is, which is in no file, so that   *)
(* what is read can be compared with the tree (include/dt.h).              *)
(***************************************************************************)
EXTENDS Integers, Sequences, FiniteSets

NodesOf(ps) == {k \in DOMAIN ps : ps[k].part # "property"}
PropertiesOf(ps) == {k \in DOMAIN ps : ps[k].part = "property"}

\* The nodes of a depth from part k on, up to a node that is less deep: behind a
\* node, those one deeper are its children.
Beside(ps, k, depth) ==
    {j \in NodesOf(ps) : /\ k <= j /\ ps[j].depth = depth
                         /\ \A m \in NodesOf(ps) : k <= m /\ m <= j => depth <= ps[m].depth}

\* The first part behind the properties of the node k.
Behind(ps, k) == k + ps[k].properties + 1

IsNodeOf(ps, k) ==
    /\ ps[k].depth = 0 <=> k = 1
    /\ Behind(ps, k) <= Len(ps) + 1
    /\ \A i \in k + 1 .. Behind(ps, k) - 1 : i \in PropertiesOf(ps) /\ ps[i].depth = ps[k].depth
    /\ Behind(ps, k) <= Len(ps) =>
          Behind(ps, k) \in NodesOf(ps) /\ ps[Behind(ps, k)].depth <= ps[k].depth + 1
    /\ ps[k].children = Cardinality(Beside(ps, k + 1, ps[k].depth + 1))

\* One tree, whose counts are true.
IsTree(ps) == 1 \in NodesOf(ps) /\ \A k \in NodesOf(ps) : IsNodeOf(ps, k)
=============================================================================
