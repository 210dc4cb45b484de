----------------------------- MODULE JokerProofs -----------------------------
(***************************************************************************)
(* Proofs about joker: the kexts, as they are listed and as they are       *)
(* written to files, the tables of sysctls and of system calls, and the    *)
(* trees of the compression (lzss), for rings, limits and texts of every   *)
(* size: that insert_node and delete_node keep them sound.                 *)
(***************************************************************************)
EXTENDS Lzss, JokerKexts, JokerKextract, JokerScan, InductionLemmas, SequenceTheorems, FiniteSetTheorems,
        TLAPS

-----------------------------------------------------------------------------
(* lzss: the trees, as any three arrays lt, rt and par                     *)

Places == 0 .. N - 1
Trees(lt, rt, par) ==
    /\ lt \in [0 .. N -> 0 .. N] /\ rt \in [0 .. N + Characters -> 0 .. N]
    /\ par \in [0 .. N -> 0 .. N + Characters]

Nodes(par) == {x \in Places : par[x] # NIL}

\* A node is a child of its parent, on one side, and the parent of its children.
Linked(lt, rt, par) ==
    /\ \A x \in Nodes(par) :
         IF par[x] \in Roots THEN rt[par[x]] = x
         ELSE par[x] \in Nodes(par) /\ (lt[par[x]] = x) # (rt[par[x]] = x)
    /\ \A x \in Nodes(par) : /\ lt[x] # NIL => par[lt[x]] = x
                             /\ rt[x] # NIL => par[rt[x]] = x
    /\ \A a \in Roots : rt[a] # NIL => par[rt[a]] = a

\* The strings of a tree begin with its character.
Alike(par, buf) ==
    \A x \in Nodes(par) : IF par[x] \in Roots THEN par[x] = Root(buf[x]) ELSE buf[par[x]] = buf[x]

\* A node is deeper than its parent.
Ranked(par, depth) ==
    /\ depth \in [Places -> Nat]
    /\ \A x \in Nodes(par) : par[x] \in Nodes(par) => depth[par[x]] < depth[x]

Sound(lt, rt, par, buf, depth) ==
    Trees(lt, rt, par) /\ Linked(lt, rt, par) /\ Alike(par, buf) /\ Ranked(par, depth)

LEMMA SizesAre ==
    /\ N \in Nat /\ F \in Nat /\ 1 < F /\ 2 * F < N /\ Characters \in Nat
    /\ Roots = N + 1 .. N + Characters /\ NIL = N
    /\ \A c \in Byte : Root(c) \in Roots /\ Root(c) \in Nat
    /\ Roots \cap Places = {} /\ NIL \notin Places /\ NIL \notin Roots
  <1>1. N \in Nat /\ F \in Nat /\ 1 < F /\ 2 * F < N /\ Characters \in Nat
    BY LzssAssumption DEF LzssAssumption
  <1>2. \A c \in Byte : Root(c) \in N + 1 .. N + Characters
    BY <1>1 DEF Byte, Root
  <1>3. \A a \in N + 1 .. N + Characters : \E c \in Byte : a = Root(c)
    <2> TAKE a \in N + 1 .. N + Characters
    <2>1. a - N - 1 \in Byte /\ a = Root(a - N - 1)
      BY <1>1 DEF Byte, Root
    <2> QED  BY <2>1
  <1>4. Roots = N + 1 .. N + Characters
    BY <1>2, <1>3 DEF Roots
  <1> QED  BY <1>1, <1>2, <1>4 DEF NIL, Places

\* Children are nodes, of one parent, and on one side of it.
LEMMA ChildrenAre ==
    ASSUME NEW lt, NEW rt, NEW par, Trees(lt, rt, par), Linked(lt, rt, par), NEW x \in Nodes(par)
    PROVE  /\ x \in Places /\ par[x] \in Nodes(par) \cup Roots /\ par[x] # NIL
           /\ lt[x] # NIL => lt[x] \in Nodes(par) /\ lt[x] # rt[x]
           /\ rt[x] # NIL => rt[x] \in Nodes(par)
  <1>1. x \in Places /\ par[x] \in Nodes(par) \cup Roots /\ par[x] # NIL
    BY DEF Linked, Nodes
  <1>2. x \in 0 .. N /\ N \in Nat /\ NIL = N
    BY <1>1, SizesAre DEF Places
  <1>3. lt[x] \in 0 .. N /\ rt[x] \in 0 .. N
    <2>1. x \in 0 .. N + Characters
      BY <1>2, SizesAre
    <2> QED  BY <1>2, <2>1 DEF Trees
  <1>4. lt[x] # NIL => lt[x] \in Places /\ par[lt[x]] = x /\ x # NIL
    BY <1>2, <1>3, <1>1, SizesAre DEF Linked, Places
  <1>5. rt[x] # NIL => rt[x] \in Places /\ par[rt[x]] = x /\ x # NIL
    BY <1>2, <1>3, <1>1, SizesAre DEF Linked, Places
  <1>6. lt[x] # NIL => lt[x] \in Nodes(par)
    BY <1>4 DEF Nodes
  <1>7. rt[x] # NIL => rt[x] \in Nodes(par)
    BY <1>5 DEF Nodes
  <1>8. lt[x] # NIL => lt[x] # rt[x]
    BY <1>1, <1>4, <1>6, SizesAre DEF Linked
  <1> QED  BY <1>1, <1>6, <1>7, <1>8

\* Only what nodes and roots have counts.
LEMMA OnlyNodesCount ==
    ASSUME NEW lt, NEW rt, NEW par, NEW buf, NEW depth, Sound(lt, rt, par, buf, depth),
           NEW lc2, NEW rc2, NEW par2, NEW buf2, Trees(lc2, rc2, par2),
           \A x \in Places : par2[x] = par[x],
           \A x \in Nodes(par) : lc2[x] = lt[x] /\ rc2[x] = rt[x] /\ buf2[x] = buf[x],
           \A a \in Roots : rc2[a] = rt[a]
    PROVE  Sound(lc2, rc2, par2, buf2, depth) /\ Nodes(par2) = Nodes(par)
  <1>1. Nodes(par2) = Nodes(par) /\ Nodes(par) \subseteq Places
    BY DEF Nodes
  <1>2. \A x \in Nodes(par) : /\ par2[x] = par[x] /\ par[x] \in Nodes(par) \cup Roots
                              /\ lt[x] # NIL => lt[x] \in Places
                              /\ rt[x] # NIL => rt[x] \in Places
    BY <1>1, ChildrenAre DEF Sound
  <1>3. \A a \in Roots : rt[a] # NIL => rt[a] \in Places
    <2> SUFFICES ASSUME NEW a \in Roots, rt[a] # NIL PROVE rt[a] \in Places
      OBVIOUS
    <2>1. rt[a] \in 0 .. N
      BY SizesAre DEF Sound, Trees
    <2> QED  BY <2>1, SizesAre DEF Places
  <1> HIDE DEF Nodes
  <1>4. Linked(lc2, rc2, par2)
    BY <1>1, <1>2, <1>3 DEF Sound, Linked
  <1>5. Alike(par2, buf2) /\ Ranked(par2, depth)
    BY <1>1, <1>2 DEF Sound, Alike, Ranked
  <1> QED  BY <1>1, <1>4, <1>5 DEF Sound

\* A leaf is added under a, to the right or to the left.
LEMMA AttachKeeps ==
    ASSUME NEW lt, NEW rt, NEW par, NEW buf, NEW depth, Sound(lt, rt, par, buf, depth),
           NEW n \in Places, n \notin Nodes(par), lt[n] = NIL, rt[n] = NIL,
           NEW a \in Nodes(par) \cup Roots,
           a \in Roots => a = Root(buf[n]), a \notin Roots => buf[a] = buf[n],
           NEW lc2, NEW rc2, NEW par2, Trees(lc2, rc2, par2),
           NEW side \in {"left", "right"},
           side = "right" => rt[a] = NIL, side = "left" => a \notin Roots /\ lt[a] = NIL,
           \A x \in Places : par2[x] = IF x = n THEN a ELSE par[x],
           \A x \in Places : lc2[x] = IF x = a /\ side = "left" THEN n ELSE lt[x],
           \A x \in Places \cup Roots : rc2[x] = IF x = a /\ side = "right" THEN n ELSE rt[x]
    PROVE  /\ Nodes(par2) = Nodes(par) \cup {n}
           /\ \E deep : Sound(lc2, rc2, par2, buf, deep)
  <1> DEFINE deep == [depth EXCEPT ![n] = IF a \in Roots THEN 0 ELSE depth[a] + 1]
  <1>1. /\ Trees(lt, rt, par) /\ Linked(lt, rt, par) /\ Alike(par, buf) /\ Ranked(par, depth)
        /\ n \in 0 .. N /\ n # NIL /\ a # NIL /\ a # n
        /\ Roots \cap Places = {} /\ NIL \notin Places /\ NIL \notin Roots
        /\ n \notin Roots
    BY SizesAre DEF Sound, Places, Nodes
  <1>2. \A x \in Places : par2[x] = IF x = n THEN a ELSE par[x]
    OBVIOUS
  <1>3. Nodes(par2) = Nodes(par) \cup {n}
    BY <1>1, <1>2 DEF Nodes
  <1>4. /\ \A x \in Places : lc2[x] = IF x = a /\ side = "left" THEN n ELSE lt[x]
        /\ \A x \in Places \cup Roots : rc2[x] = IF x = a /\ side = "right" THEN n ELSE rt[x]
        /\ side = "right" => rt[a] = NIL
        /\ side = "left" => a \notin Roots /\ lt[a] = NIL
        /\ side \in {"left", "right"}
    OBVIOUS
  <1>5. \A x \in Nodes(par) : /\ x \in Places /\ x # n
                              /\ par[x] \in Nodes(par) \cup Roots /\ par[x] # n
                              /\ lt[x] # NIL => lt[x] \in Nodes(par)
                              /\ rt[x] # NIL => rt[x] \in Nodes(par)
                              /\ lt[x] # NIL => par[lt[x]] = x
                              /\ rt[x] # NIL => par[rt[x]] = x
    BY <1>1, ChildrenAre DEF Linked
  <1>6. \A b \in Roots : rt[b] # NIL => rt[b] \in Nodes(par) /\ par[rt[b]] = b
    <2> SUFFICES ASSUME NEW b \in Roots, rt[b] # NIL PROVE rt[b] \in Nodes(par) /\ par[rt[b]] = b
      OBVIOUS
    <2>1. rt[b] \in 0 .. N /\ par[rt[b]] = b /\ b # NIL
      BY <1>1, SizesAre DEF Trees, Linked
    <2>2. rt[b] \in Places
      BY <2>1, SizesAre DEF Places
    <2> QED  BY <2>1, <2>2 DEF Nodes
  <1>7. Linked(lc2, rc2, par2)
    <2>1. ASSUME NEW x \in Nodes(par2)
          PROVE  IF par2[x] \in Roots THEN rc2[par2[x]] = x
                 ELSE par2[x] \in Nodes(par2) /\ (lc2[par2[x]] = x) # (rc2[par2[x]] = x)
      <3>1. CASE x = n
        <4>1. a \in Nodes(par) => a \in Places /\ lt[a] # n /\ rt[a] # n
          BY <1>1, <1>5
        <4>2. par2[x] = a /\ n \in Nodes(par2)
          BY <1>2, <1>3, <3>1
        <4>3. CASE a \in Roots
          BY <1>4, <3>1, <4>2, <4>3
        <4>4. CASE a \notin Roots
          <5>1. a \in Nodes(par) /\ a \in Nodes(par2)
            BY <1>3, <4>4
          <5> QED  BY <1>4, <3>1, <4>1, <4>2, <4>4, <5>1
        <4> QED  BY <4>3, <4>4
      <3>2. CASE x # n
        <4>1. x \in Nodes(par) /\ par2[x] = par[x]
          BY <1>2, <1>3, <3>2 DEF Nodes
        <4>2. CASE par[x] \in Roots
          <5>1. rt[par[x]] = x /\ x # NIL
            BY <1>1, <4>1, <4>2 DEF Linked, Nodes
          <5> QED  BY <1>4, <4>1, <4>2, <5>1
        <4>3. CASE par[x] \notin Roots
          <5>1. par[x] \in Nodes(par) /\ (lt[par[x]] = x) # (rt[par[x]] = x) /\ par[x] \in Places /\ x # NIL
            BY <1>1, <1>5, <4>1, <4>3 DEF Linked
          <5> QED  BY <1>3, <1>4, <3>2, <4>1, <4>3, <5>1
        <4> QED  BY <4>2, <4>3
      <3> QED  BY <3>1, <3>2
    <2>2. ASSUME NEW x \in Nodes(par2)
          PROVE  (lc2[x] # NIL => par2[lc2[x]] = x) /\ (rc2[x] # NIL => par2[rc2[x]] = x)
      <3>1. CASE x = n
        BY <1>1, <1>4, <3>1
      <3>2. CASE x # n
        <4>1. x \in Nodes(par) /\ x \in Places
          BY <1>3, <3>2 DEF Nodes
        <4>2. lt[x] # NIL => par2[lt[x]] = x
          BY <1>2, <1>5, <4>1
        <4>3. rt[x] # NIL => par2[rt[x]] = x
          BY <1>2, <1>5, <4>1
        <4>4. par2[n] = a
          BY <1>2
        <4> QED  BY <1>4, <4>1, <4>2, <4>3, <4>4
      <3> QED  BY <3>1, <3>2
    <2>3. ASSUME NEW b \in Roots, rc2[b] # NIL PROVE par2[rc2[b]] = b
      <3>1. par2[n] = a
        BY <1>2
      <3>2. rt[b] # NIL => par2[rt[b]] = b
        BY <1>2, <1>5, <1>6
      <3> QED  BY <1>4, <2>3, <3>1, <3>2
    <2> QED  BY <2>1, <2>2, <2>3 DEF Linked
  <1>8. Alike(par2, buf)
    <2> SUFFICES ASSUME NEW x \in Nodes(par2)
                 PROVE  IF par2[x] \in Roots THEN par2[x] = Root(buf[x]) ELSE buf[par2[x]] = buf[x]
      BY DEF Alike
    <2>1. CASE x = n
      BY <1>2, <2>1
    <2>2. CASE x # n
      <3>1. x \in Nodes(par) /\ par2[x] = par[x]
        BY <1>2, <1>3, <1>5, <2>2
      <3> QED  BY <1>1, <3>1 DEF Alike
    <2> QED  BY <2>1, <2>2
  <1>9. Ranked(par2, deep)
    <2>1. a \notin Roots => a \in Places /\ depth[a] \in Nat
      BY <1>1 DEF Ranked, Nodes
    <2>2. /\ deep \in [Places -> Nat]
          /\ \A x \in Places :
               deep[x] = IF x = n THEN (IF a \in Roots THEN 0 ELSE depth[a] + 1) ELSE depth[x]
      BY <1>1, <2>1 DEF Ranked
    <2> HIDE DEF deep
    <2>3. \A x \in Nodes(par) : x \in Places /\ depth[x] \in Nat
      BY <1>1 DEF Ranked, Nodes
    <2>4. ASSUME NEW x \in Nodes(par2), par2[x] \in Nodes(par2)
          PROVE  deep[par2[x]] < deep[x]
      <3>1. CASE x = n
        <4>1. par2[x] = a /\ a \in Nodes(par) /\ a \notin Roots
          BY <1>1, <1>2, <1>3, <2>4, <3>1 DEF Nodes
        <4> QED  BY <1>1, <2>1, <2>2, <2>3, <3>1, <4>1
      <3>2. CASE x # n
        <4>1. x \in Nodes(par) /\ par2[x] = par[x] /\ par[x] \in Nodes(par)
          BY <1>2, <1>3, <1>5, <2>4, <3>2
        <4>2. depth[par[x]] < depth[x]
          BY <1>1, <4>1 DEF Ranked
        <4> QED  BY <1>5, <2>2, <2>3, <3>2, <4>1, <4>2
      <3> QED  BY <3>1, <3>2
    <2> QED  BY <2>2, <2>4 DEF Ranked
  <1>10. Sound(lc2, rc2, par2, buf, deep)
    BY <1>7, <1>8, <1>9 DEF Sound
  <1> QED  BY <1>3, <1>10

\* What is known of a node o that is taken out, of its parent and its children.
LEMMA AroundIs ==
    ASSUME NEW lt, NEW rt, NEW par, NEW buf, NEW depth, Sound(lt, rt, par, buf, depth),
           NEW o \in Nodes(par)
    PROVE  /\ o \in Places /\ o # NIL /\ o \notin Roots /\ par[o] # o /\ par[o] # NIL
           /\ lt[o] # o /\ rt[o] # o
           /\ par[o] \in Roots \/ (par[o] \notin Roots /\ par[o] \in Nodes(par) /\ par[o] \in Places)
           /\ par[o] \in Roots => rt[par[o]] = o
           /\ par[o] \notin Roots => (lt[par[o]] = o) # (rt[par[o]] = o)
           /\ \A x \in Nodes(par) :
                /\ x \in Places /\ x # NIL /\ x \notin Roots
                /\ par[x] \in Roots \/ (par[x] \in Nodes(par) /\ par[x] \notin Roots)
                /\ par[x] \in Roots => rt[par[x]] = x
                /\ par[x] \notin Roots => (lt[par[x]] = x) # (rt[par[x]] = x)
                /\ par[x] = o => x \in {lt[o], rt[o]}
                /\ lt[x] # NIL => lt[x] \in Nodes(par) /\ par[lt[x]] = x
                /\ rt[x] # NIL => rt[x] \in Nodes(par) /\ par[rt[x]] = x
                /\ lt[x] # NIL => lt[x] # rt[x]
           /\ \A b \in Roots : rt[b] # NIL => rt[b] \in Nodes(par) /\ par[rt[b]] = b
  <1>1. /\ Trees(lt, rt, par) /\ Linked(lt, rt, par) /\ Ranked(par, depth)
        /\ Roots \cap Places = {} /\ NIL \notin Places /\ NIL \notin Roots
    BY SizesAre DEF Sound
  <1>2. \A x \in Nodes(par) : x \in Places /\ x # NIL /\ x \notin Roots
    BY <1>1 DEF Nodes
  <1>3. \A x \in Nodes(par) :
          /\ par[x] \in Nodes(par) \cup Roots /\ par[x] # NIL
          /\ lt[x] # NIL => lt[x] \in Nodes(par) /\ lt[x] # rt[x]
          /\ rt[x] # NIL => rt[x] \in Nodes(par)
    BY <1>1, ChildrenAre
  <1>4. \A x \in Nodes(par) :
          /\ par[x] \in Roots => rt[par[x]] = x
          /\ par[x] \notin Roots => (lt[par[x]] = x) # (rt[par[x]] = x)
          /\ lt[x] # NIL => par[lt[x]] = x
          /\ rt[x] # NIL => par[rt[x]] = x
    BY <1>1 DEF Linked
  <1>5. \A x \in Nodes(par) : par[x] # x
    <2> SUFFICES ASSUME NEW x \in Nodes(par), par[x] = x PROVE FALSE
      OBVIOUS
    <2>1. depth[x] < depth[x]
      BY <1>1 DEF Ranked
    <2>2. depth[x] \in Nat
      BY <1>1, <1>2 DEF Ranked
    <2> QED  BY <2>1, <2>2
  <1>6. \A b \in Roots : rt[b] # NIL => rt[b] \in Nodes(par) /\ par[rt[b]] = b
    <2> SUFFICES ASSUME NEW b \in Roots, rt[b] # NIL PROVE rt[b] \in Nodes(par) /\ par[rt[b]] = b
      OBVIOUS
    <2>1. rt[b] \in 0 .. N /\ par[rt[b]] = b /\ b # NIL
      BY <1>1, SizesAre DEF Trees, Linked
    <2>2. rt[b] \in Places
      BY <2>1, SizesAre DEF Places
    <2> QED  BY <2>1, <2>2 DEF Nodes
  <1>7. lt[o] # o /\ rt[o] # o
    BY <1>2, <1>4, <1>5
  <1> QED  BY <1>2, <1>3, <1>4, <1>5, <1>6, <1>7

\* A node n takes the place of o, with its children.
LEMMA ReplaceKeeps ==
    ASSUME NEW lt, NEW rt, NEW par, NEW buf, NEW depth, Sound(lt, rt, par, buf, depth),
           NEW o \in Nodes(par), NEW n \in Places, n \notin Nodes(par), buf[n] = buf[o],
           NEW lc2, NEW rc2, NEW par2, Trees(lc2, rc2, par2),
           \A x \in Places :
               par2[x] = IF x = o THEN NIL ELSE IF x = n THEN par[o]
                         ELSE IF x \in {lt[o], rt[o]} THEN n ELSE par[x],
           \A x \in Places \ {o} :
               lc2[x] = IF x = n THEN lt[o] ELSE IF x = par[o] /\ rt[x] # o THEN n ELSE lt[x],
           \A x \in (Places \ {o}) \cup Roots :
               rc2[x] = IF x = n THEN rt[o] ELSE IF x = par[o] /\ rt[x] = o THEN n ELSE rt[x]
    PROVE  /\ Nodes(par2) = (Nodes(par) \ {o}) \cup {n}
           /\ \E deep : Sound(lc2, rc2, par2, buf, deep)
  <1> DEFINE deep == [depth EXCEPT ![n] = depth[o]]
             a == par[o]
  <1>1. /\ o \in Places /\ o # NIL /\ o \notin Roots /\ a # o /\ a # NIL
        /\ lt[o] # o /\ rt[o] # o
        /\ a \in Roots \/ (a \notin Roots /\ a \in Nodes(par) /\ a \in Places)
        /\ a \in Roots => rt[a] = o
        /\ a \notin Roots => (lt[a] = o) # (rt[a] = o)
    BY AroundIs
  <1>2. \A x \in Nodes(par) :
          /\ x \in Places /\ x # NIL /\ x \notin Roots /\ x # n
          /\ par[x] \in Roots \/ (par[x] \in Nodes(par) /\ par[x] \notin Roots)
          /\ par[x] \in Roots => rt[par[x]] = x
          /\ par[x] \notin Roots => (lt[par[x]] = x) # (rt[par[x]] = x)
          /\ par[x] = o => x \in {lt[o], rt[o]}
          /\ lt[x] # NIL => lt[x] \in Nodes(par) /\ par[lt[x]] = x
          /\ rt[x] # NIL => rt[x] \in Nodes(par) /\ par[rt[x]] = x
          /\ lt[x] # NIL => lt[x] # rt[x]
    BY AroundIs
  <1>3. \A b \in Roots : rt[b] # NIL => rt[b] \in Nodes(par) /\ par[rt[b]] = b
    BY AroundIs
  <1>4. n # NIL /\ n \notin Roots /\ n # o /\ n # a
    BY <1>1, <1>2, SizesAre
  <1>5. /\ Alike(par, buf) /\ Ranked(par, depth)
    BY DEF Sound
  <1> HIDE DEF a
  <1>6. /\ par2[o] = NIL /\ par2[n] = a
        /\ \A x \in Nodes(par) \ {o} : par2[x] = IF par[x] = o THEN n ELSE par[x]
    <2>1. par2[o] = NIL /\ par2[n] = a
      BY <1>1, <1>4 DEF a
    <2>2. ASSUME NEW x \in Nodes(par) \ {o} PROVE par2[x] = IF par[x] = o THEN n ELSE par[x]
      <3>1. x \in Places /\ x # n /\ x # NIL
        BY <1>2
      <3>2. x \in {lt[o], rt[o]} <=> par[x] = o
        BY <1>2, <3>1
      <3> QED  BY <3>1, <3>2
    <2> QED  BY <2>1, <2>2
  <1>7. Nodes(par2) = (Nodes(par) \ {o}) \cup {n}
    <2>1. \A x \in Places : x \notin Nodes(par) /\ x # n => par2[x] = NIL
      <3> SUFFICES ASSUME NEW x \in Places, x \notin Nodes(par), x # n PROVE par2[x] = NIL
        OBVIOUS
      <3>1. x \notin {lt[o], rt[o]} /\ par[x] = NIL
        <4>1. x # NIL
          BY SizesAre
        <4> QED  BY <1>2, <4>1 DEF Nodes
      <3> QED  BY <3>1
    <2>2. \A x \in Nodes(par) \ {o} : par2[x] # NIL
      BY <1>2, <1>4, <1>6 DEF Nodes
    <2> QED  BY <1>1, <1>2, <1>6, <2>1, <2>2 DEF Nodes
  <1>8. /\ lc2[n] = lt[o] /\ rc2[n] = rt[o]
        /\ \A x \in Nodes(par) \ {o} : lc2[x] = IF x = a /\ rt[x] # o THEN n ELSE lt[x]
        /\ \A x \in (Nodes(par) \ {o}) \cup Roots : rc2[x] = IF x = a /\ rt[x] = o THEN n ELSE rt[x]
    BY <1>2, <1>4 DEF a
  <1>9. Linked(lc2, rc2, par2)
    <2>1. ASSUME NEW x \in Nodes(par2)
          PROVE  IF par2[x] \in Roots THEN rc2[par2[x]] = x
                 ELSE par2[x] \in Nodes(par2) /\ (lc2[par2[x]] = x) # (rc2[par2[x]] = x)
      <3>1. CASE x = n
        <4>1. CASE a \in Roots
          BY <1>1, <1>6, <1>8, <3>1, <4>1
        <4>2. CASE a \notin Roots
          <5>1. a \in Nodes(par) \ {o} /\ lt[a] # n /\ rt[a] # n
            BY <1>1, <1>2, <1>4, <4>2
          <5> QED  BY <1>1, <1>6, <1>7, <1>8, <3>1, <4>2, <5>1
        <4> QED  BY <4>1, <4>2
      <3>2. CASE x # n /\ par[x] = o
        <4>1. x \in Nodes(par) \ {o} /\ par2[x] = n /\ (lt[o] = x) # (rt[o] = x)
          BY <1>1, <1>2, <1>6, <1>7, <3>2
        <4> QED  BY <1>4, <1>7, <1>8, <4>1
      <3>3. CASE x # n /\ par[x] # o
        <4>1. x \in Nodes(par) \ {o} /\ par2[x] = par[x] /\ x # NIL
          BY <1>2, <1>6, <1>7, <3>3
        <4>2. CASE par[x] \in Roots
          <5>1. rt[par[x]] = x /\ rt[par[x]] # o
            BY <1>2, <4>1, <4>2
          <5> QED  BY <1>8, <4>1, <4>2, <5>1
        <4>3. CASE par[x] \notin Roots
          <5>1. par[x] \in Nodes(par) \ {o} /\ (lt[par[x]] = x) # (rt[par[x]] = x)
            BY <1>2, <3>3, <4>1, <4>3
          <5>2. par[x] # a => lc2[par[x]] = lt[par[x]] /\ rc2[par[x]] = rt[par[x]]
            BY <1>8, <5>1
          <5>3. par[x] = a /\ rt[a] # o => lc2[par[x]] = n /\ rc2[par[x]] = rt[par[x]] /\ lt[par[x]] = o
            BY <1>1, <1>8, <4>3, <5>1
          <5>4. par[x] = a /\ rt[a] = o => lc2[par[x]] = lt[par[x]] /\ rc2[par[x]] = n
            BY <1>1, <1>8, <5>1
          <5> QED  BY <1>7, <3>3, <4>1, <4>3, <5>1, <5>2, <5>3, <5>4
        <4> QED  BY <4>2, <4>3
      <3> QED  BY <3>1, <3>2, <3>3
    <2>2. ASSUME NEW x \in Nodes(par2)
          PROVE  (lc2[x] # NIL => par2[lc2[x]] = x) /\ (rc2[x] # NIL => par2[rc2[x]] = x)
      <3>1. CASE x = n
        <4>1. lt[o] # NIL => lt[o] \in Nodes(par) \ {o} /\ par[lt[o]] = o
          BY <1>1, <1>2
        <4>2. rt[o] # NIL => rt[o] \in Nodes(par) \ {o} /\ par[rt[o]] = o
          BY <1>1, <1>2
        <4> QED  BY <1>6, <1>8, <3>1, <4>1, <4>2
      <3>2. CASE x # n
        <4>1. x \in Nodes(par) \ {o}
          BY <1>7, <3>2
        <4>2. lt[x] # NIL => lt[x] \in Nodes(par) /\ par[lt[x]] = x /\ lt[x] # rt[x]
          BY <1>2, <4>1
        <4>3. rt[x] # NIL => rt[x] \in Nodes(par) /\ par[rt[x]] = x
          BY <1>2, <4>1
        <4>4. lt[x] # NIL /\ lt[x] # o => par2[lt[x]] = x
          BY <1>6, <4>1, <4>2
        <4>5. rt[x] # NIL /\ rt[x] # o => par2[rt[x]] = x
          BY <1>6, <4>1, <4>3
        <4>6. lt[x] = o \/ rt[x] = o => x = a /\ x \notin Roots
          BY <1>1, <1>2, <4>1, <4>2, <4>3 DEF a
        <4> QED  BY <1>1, <1>6, <1>8, <4>1, <4>2, <4>4, <4>5, <4>6
      <3> QED  BY <3>1, <3>2
    <2>3. ASSUME NEW b \in Roots, rc2[b] # NIL PROVE par2[rc2[b]] = b
      <3>1. rt[b] # NIL /\ rt[b] # o => rt[b] \in Nodes(par) \ {o} /\ par[rt[b]] = b /\ b # o
        BY <1>1, <1>3
      <3>2. rt[b] # NIL /\ rt[b] # o => par2[rt[b]] = b
        BY <1>6, <3>1
      <3>3. rt[b] = o => a = b
        BY <1>1, <1>3 DEF a
      <3> QED  BY <1>6, <1>8, <2>3, <3>2, <3>3
    <2> QED  BY <2>1, <2>2, <2>3 DEF Linked
  <1>10. Alike(par2, buf)
    <2> SUFFICES ASSUME NEW x \in Nodes(par2)
                 PROVE  IF par2[x] \in Roots THEN par2[x] = Root(buf[x]) ELSE buf[par2[x]] = buf[x]
      BY DEF Alike
    <2>1. \A y \in Nodes(par) : IF par[y] \in Roots THEN par[y] = Root(buf[y]) ELSE buf[par[y]] = buf[y]
      BY <1>5 DEF Alike
    <2>2. CASE x = n
      BY <1>6, <2>1, <2>2 DEF a
    <2>3. CASE x # n
      <3>1. x \in Nodes(par) \ {o}
        BY <1>7, <2>3
      <3> QED  BY <1>1, <1>4, <1>6, <2>1, <3>1
    <2> QED  BY <2>2, <2>3
  <1>11. Ranked(par2, deep)
    <2>1. \A x \in Places : depth[x] \in Nat
      BY <1>5 DEF Ranked
    <2>2. deep \in [Places -> Nat] /\ \A x \in Places : deep[x] = IF x = n THEN depth[o] ELSE depth[x]
      BY <1>1, <1>5 DEF Ranked
    <2> HIDE DEF deep
    <2>3. ASSUME NEW x \in Nodes(par2), par2[x] \in Nodes(par2)
          PROVE  deep[par2[x]] < deep[x]
      <3>1. \A y \in Nodes(par) : par[y] \in Nodes(par) => depth[par[y]] < depth[y]
        BY <1>5 DEF Ranked
      <3>2. CASE x = n
        <4>1. par2[x] = a /\ a \in Nodes(par) /\ a # n
          BY <1>4, <1>6, <1>7, <2>3, <3>2
        <4> QED  BY <1>2, <2>2, <3>1, <3>2, <4>1 DEF a
      <3>3. CASE x # n
        <4>1. x \in Nodes(par) \ {o} /\ x \in Places
          BY <1>2, <1>7, <3>3
        <4>2. CASE par[x] = o
          <5>1. par2[x] = n /\ depth[o] < depth[x]
            BY <1>6, <3>1, <4>1, <4>2
          <5> QED  BY <2>2, <3>3, <4>1, <5>1
        <4>3. CASE par[x] # o
          <5>1. par2[x] = par[x] /\ par[x] # n /\ par[x] \in Nodes(par)
            BY <1>2, <1>4, <1>6, <1>7, <2>3, <4>1, <4>3, SizesAre
          <5>2. depth[par[x]] < depth[x] /\ par[x] \in Places
            BY <1>2, <3>1, <4>1, <5>1
          <5> QED  BY <2>2, <3>3, <4>1, <5>1, <5>2
        <4> QED  BY <4>2, <4>3
      <3> QED  BY <3>2, <3>3
    <2> QED  BY <2>2, <2>3 DEF Ranked
  <1>12. Sound(lc2, rc2, par2, buf, deep)
    BY <1>9, <1>10, <1>11 DEF Sound
  <1> QED  BY <1>7, <1>12

\* A node o without one of its children goes, and the other takes its place.
LEMMA UnlinkKeeps ==
    ASSUME NEW lt, NEW rt, NEW par, NEW buf, NEW depth, Sound(lt, rt, par, buf, depth),
           NEW o \in Nodes(par), NEW c, (c = lt[o] /\ rt[o] = NIL) \/ (c = rt[o] /\ lt[o] = NIL),
           NEW lc2, NEW rc2, NEW par2, Trees(lc2, rc2, par2),
           \A x \in Places : par2[x] = IF x = o THEN NIL ELSE IF x = c THEN par[o] ELSE par[x],
           \A x \in Places \ {o} : lc2[x] = IF x = par[o] /\ rt[x] # o THEN c ELSE lt[x],
           \A x \in (Places \ {o}) \cup Roots : rc2[x] = IF x = par[o] /\ rt[x] = o THEN c ELSE rt[x]
    PROVE  /\ Nodes(par2) = Nodes(par) \ {o}
           /\ Sound(lc2, rc2, par2, buf, depth)
  <1> DEFINE a == par[o]
  <1>1. /\ o \in Places /\ o # NIL /\ o \notin Roots /\ a # o /\ a # NIL
        /\ lt[o] # o /\ rt[o] # o
        /\ a \in Roots \/ (a \notin Roots /\ a \in Nodes(par) /\ a \in Places)
        /\ a \in Roots => rt[a] = o
        /\ a \notin Roots => (lt[a] = o) # (rt[a] = o)
    BY AroundIs
  <1>2. \A x \in Nodes(par) :
          /\ x \in Places /\ x # NIL /\ x \notin Roots
          /\ par[x] \in Roots \/ (par[x] \in Nodes(par) /\ par[x] \notin Roots)
          /\ par[x] \in Roots => rt[par[x]] = x
          /\ par[x] \notin Roots => (lt[par[x]] = x) # (rt[par[x]] = x)
          /\ par[x] = o => x \in {lt[o], rt[o]}
          /\ lt[x] # NIL => lt[x] \in Nodes(par) /\ par[lt[x]] = x
          /\ rt[x] # NIL => rt[x] \in Nodes(par) /\ par[rt[x]] = x
          /\ lt[x] # NIL => lt[x] # rt[x]
    BY AroundIs
  <1>3. \A b \in Roots : rt[b] # NIL => rt[b] \in Nodes(par) /\ par[rt[b]] = b
    BY AroundIs
  <1>4. /\ Alike(par, buf) /\ Ranked(par, depth)
    BY DEF Sound
  <1>5. /\ c # NIL => c \in Nodes(par) \ {o} /\ par[c] = o /\ c \in Places
        /\ \A x \in Nodes(par) : par[x] = o => x = c
    BY <1>1, <1>2
  <1> HIDE DEF a
  <1>6. /\ par2[o] = NIL
        /\ \A x \in Nodes(par) \ {o} : par2[x] = IF x = c THEN a ELSE par[x]
    BY <1>1, <1>2 DEF a
  <1>7. Nodes(par2) = Nodes(par) \ {o}
    <2>1. \A x \in Places : x \notin Nodes(par) => par2[x] = NIL
      <3> SUFFICES ASSUME NEW x \in Places, x \notin Nodes(par) PROVE par2[x] = NIL
        OBVIOUS
      <3>1. x # c /\ par[x] = NIL
        <4>1. x # NIL
          BY SizesAre
        <4> QED  BY <1>5, <4>1 DEF Nodes
      <3> QED  BY <3>1
    <2>2. \A x \in Nodes(par) \ {o} : par2[x] # NIL
      BY <1>1, <1>6 DEF Nodes
    <2> QED  BY <1>1, <1>2, <1>6, <2>1, <2>2 DEF Nodes
  <1>8. /\ \A x \in Nodes(par) \ {o} : lc2[x] = IF x = a /\ rt[x] # o THEN c ELSE lt[x]
        /\ \A x \in (Nodes(par) \ {o}) \cup Roots : rc2[x] = IF x = a /\ rt[x] = o THEN c ELSE rt[x]
    BY <1>2 DEF a
  <1>9. Linked(lc2, rc2, par2)
    <2>1. ASSUME NEW x \in Nodes(par2)
          PROVE  IF par2[x] \in Roots THEN rc2[par2[x]] = x
                 ELSE par2[x] \in Nodes(par2) /\ (lc2[par2[x]] = x) # (rc2[par2[x]] = x)
      <3>0. x \in Nodes(par) \ {o} /\ x # NIL
        BY <1>2, <1>7
      <3>1. CASE x = c
        <4>1. CASE a \in Roots
          BY <1>1, <1>6, <1>8, <3>0, <3>1, <4>1
        <4>2. CASE a \notin Roots
          <5>1. a \in Nodes(par) \ {o} /\ par[c] # a
            BY <1>1, <1>5, <3>0, <3>1, <4>2
          <5>2. lt[a] # c /\ rt[a] # c
            BY <1>2, <3>0, <3>1, <5>1
          <5> QED  BY <1>1, <1>6, <1>7, <1>8, <3>0, <3>1, <4>2, <5>1, <5>2
        <4> QED  BY <4>1, <4>2
      <3>2. CASE x # c
        <4>1. par2[x] = par[x] /\ par[x] # o
          BY <1>5, <1>6, <3>0, <3>2
        <4>2. CASE par[x] \in Roots
          <5>1. rt[par[x]] = x /\ rt[par[x]] # o
            BY <1>2, <3>0, <4>2
          <5> QED  BY <1>8, <4>1, <4>2, <5>1
        <4>3. CASE par[x] \notin Roots
          <5>1. par[x] \in Nodes(par) \ {o} /\ (lt[par[x]] = x) # (rt[par[x]] = x)
            BY <1>2, <3>0, <4>1, <4>3
          <5>2. par[x] # a => lc2[par[x]] = lt[par[x]] /\ rc2[par[x]] = rt[par[x]]
            BY <1>8, <5>1
          <5>3. par[x] = a /\ rt[a] # o => lc2[par[x]] = c /\ rc2[par[x]] = rt[par[x]] /\ lt[par[x]] = o
            BY <1>1, <1>8, <4>3, <5>1
          <5>4. par[x] = a /\ rt[a] = o => lc2[par[x]] = lt[par[x]] /\ rc2[par[x]] = c
            BY <1>1, <1>8, <5>1
          <5> QED  BY <1>7, <3>0, <3>2, <4>1, <4>3, <5>1, <5>2, <5>3, <5>4
        <4> QED  BY <4>2, <4>3
      <3> QED  BY <3>1, <3>2
    <2>2. ASSUME NEW x \in Nodes(par2)
          PROVE  (lc2[x] # NIL => par2[lc2[x]] = x) /\ (rc2[x] # NIL => par2[rc2[x]] = x)
      <3>1. x \in Nodes(par) \ {o}
        BY <1>7
      <3>2. c # NIL => par2[c] = a
        BY <1>5, <1>6
      <3>3. lt[x] # NIL => lt[x] \in Nodes(par) /\ par[lt[x]] = x /\ lt[x] # rt[x]
        BY <1>2, <3>1
      <3>4. rt[x] # NIL => rt[x] \in Nodes(par) /\ par[rt[x]] = x
        BY <1>2, <3>1
      <3>5. lt[x] # NIL /\ lt[x] # o => par2[lt[x]] = x
        BY <1>5, <1>6, <3>1, <3>3
      <3>6. rt[x] # NIL /\ rt[x] # o => par2[rt[x]] = x
        BY <1>5, <1>6, <3>1, <3>4
      <3>7. lt[x] = o \/ rt[x] = o => x = a /\ x \notin Roots
        BY <1>1, <1>2, <3>1, <3>3, <3>4 DEF a
      <3> QED  BY <1>1, <1>8, <3>1, <3>2, <3>3, <3>5, <3>6, <3>7
    <2>3. ASSUME NEW b \in Roots, rc2[b] # NIL PROVE par2[rc2[b]] = b
      <3>1. rt[b] # NIL /\ rt[b] # o => rt[b] \in Nodes(par) \ {o} /\ par[rt[b]] = b /\ b # o
        BY <1>1, <1>3
      <3>2. rt[b] # NIL /\ rt[b] # o => par2[rt[b]] = b
        BY <1>5, <1>6, <3>1
      <3>3. rt[b] = o => a = b
        BY <1>1, <1>3 DEF a
      <3>4. c # NIL => par2[c] = a
        BY <1>5, <1>6
      <3> QED  BY <1>8, <2>3, <3>2, <3>3, <3>4
    <2> QED  BY <2>1, <2>2, <2>3 DEF Linked
  <1>10. Alike(par2, buf)
    <2> SUFFICES ASSUME NEW x \in Nodes(par2)
                 PROVE  IF par2[x] \in Roots THEN par2[x] = Root(buf[x]) ELSE buf[par2[x]] = buf[x]
      BY DEF Alike
    <2>1. \A y \in Nodes(par) : IF par[y] \in Roots THEN par[y] = Root(buf[y]) ELSE buf[par[y]] = buf[y]
      BY <1>4 DEF Alike
    <2>2. x \in Nodes(par) \ {o} /\ x # NIL
      BY <1>2, <1>7
    <2>3. x = c => par[x] = o /\ buf[o] = buf[x]
      BY <1>1, <1>5, <2>1, <2>2
    <2> QED  BY <1>6, <2>1, <2>2, <2>3 DEF a
  <1>11. Ranked(par2, depth)
    <2>1. \A y \in Nodes(par) : depth[y] \in Nat /\ (par[y] \in Nodes(par) => depth[par[y]] < depth[y])
      BY <1>2, <1>4 DEF Ranked
    <2>2. ASSUME NEW x \in Nodes(par2), par2[x] \in Nodes(par2)
          PROVE  depth[par2[x]] < depth[x]
      <3>1. x \in Nodes(par) \ {o} /\ x # NIL /\ par2[x] \in Nodes(par)
        BY <1>2, <1>7, <2>2
      <3>2. CASE x = c
        <4>1. par2[x] = a /\ par[x] = o /\ depth[o] < depth[x] /\ depth[a] < depth[o]
          BY <1>5, <1>6, <2>1, <3>1, <3>2 DEF a
        <4> QED  BY <2>1, <3>1, <4>1
      <3>3. CASE x # c
        BY <1>6, <2>1, <3>1, <3>3
      <3> QED  BY <3>2, <3>3
    <2> QED  BY <1>4, <2>2 DEF Ranked
  <1> QED  BY <1>7, <1>9, <1>10, <1>11 DEF Sound

-----------------------------------------------------------------------------
(* compress_lzss                                                           *)

\* How far a place is before r.
Back(x) == IF x <= r THEN r - x ELSE r - x + N

Inserting == pc \in {"descend", "replace"}

RingInv ==
    /\ pc \in PC /\ text \in Seq(Byte) /\ src \in 0 .. Len(text)
    /\ text_buf \in [0 .. N + F - 2 -> Byte]
    /\ s \in Places /\ r \in Places /\ Back(s) = N - F
    /\ known \subseteq Places /\ InTree \subseteq known
    /\ caller \in {"warm", "slide"}
    /\ pc \in {"write", "slide", "rightmost", "shift"} => caller = "slide"
    /\ \A x \in InTree : Back(x) <= N - F

\* The first strings are inserted from r - 1 downwards, and then that at r.
StartInv ==
    /\ pc = "read" => InTree = {}
    /\ pc \in {"read", "warm"} => caller = "warm"
    /\ caller = "warm" /\ (pc \in {"read", "warm"} \/ Inserting) => s = 0 /\ r = N - F
    /\ pc = "warm" => i \in 1 .. F + 1 /\ \A x \in InTree : 1 <= Back(x) /\ Back(x) < i
    /\ Inserting =>
         IF caller = "slide" THEN node = r
         ELSE /\ i \in 2 .. F + 2 /\ node = IF i - 1 <= F THEN r - (i - 1) ELSE r
              /\ \A x \in InTree : 1 <= Back(x) /\ Back(x) < i - 1

\* What the calls of insert_node and delete_node under way have found.
CallInv ==
    /\ Inserting => node \in Places /\ node \notin InTree /\ node \in known
    /\ pc = "descend" => /\ lchild[node] = NIL /\ rchild[node] = NIL
                         /\ p \in InTree \cup Roots
                         /\ p \in Roots => p = Root(text_buf[node]) /\ cmp = 1
                         /\ p \notin Roots => text_buf[p] = text_buf[node]
    /\ pc = "replace" => p \in InTree /\ text_buf[p] = text_buf[node]
    /\ pc = "rightmost" =>
         /\ s \in InTree /\ lchild[s] # NIL /\ rchild[s] # NIL /\ q \in InTree
         /\ q = lchild[s] \/ (parent[q] \in InTree /\ parent[q] # s /\ rchild[parent[q]] = q)
         /\ text_buf[q] = text_buf[s]
    /\ pc = "shift" => s \notin InTree

\* The node that delete_node looks for is below the one it deletes.
TreeInv ==
    \E depth : /\ Sound(lchild, rchild, parent, text_buf, depth)
               /\ pc = "rightmost" => depth[s] < depth[q]

LzssInv == RingInv /\ StartInv /\ CallInv /\ TreeInv

LEMMA InTreeIs == InTree = Nodes(parent) /\ InTree \subseteq Places
  BY DEF InTree, Nodes, Places

LEMMA BackIs ==
    ASSUME r \in Places
    PROVE  /\ \A x \in Places : Back(x) \in 0 .. N - 1 /\ (Back(x) = 0 <=> x = r)
           /\ \A x, y \in Places : Back(x) = Back(y) => x = y
  BY SizesAre DEF Places, Back

\* A step that leaves the trees and the ring alone, and calls neither.
LEMMA QuietKeeps ==
    ASSUME LzssInv,
           UNCHANGED <<text, src, text_buf, lchild, rchild, parent, s, r, known>>,
           pc' \in {"emit", "write", "slide", "flush", "done", "null", "shift"},
           caller' \in {"warm", "slide"},
           pc' \in {"write", "slide", "shift"} => caller' = "slide",
           pc' = "shift" => s \notin InTree
    PROVE  LzssInv'
  <1>1. InTree' = InTree /\ \A x : Back(x)' = Back(x)
    BY DEF InTree, Back
  <1>2. RingInv'
    BY <1>1 DEF LzssInv, RingInv, PC
  <1>3. StartInv'
    BY DEF StartInv, Inserting
  <1>4. CallInv'
    BY <1>1 DEF CallInv, Inserting
  <1>5. TreeInv'
    BY DEF LzssInv, TreeInv
  <1> QED  BY <1>2, <1>3, <1>4, <1>5 DEF LzssInv

LEMMA StutterKeeps ==
    ASSUME LzssInv, UNCHANGED vars
    PROVE  LzssInv'
  <1>1. UNCHANGED <<pc, text, src, text_buf, lchild, rchild, parent, s, r, i, node, p, cmp, caller, q, known>>
    BY DEF vars, treeVars, insertVars, inputVars, windowVars
  <1>2. InTree' = InTree /\ (\A x : Back(x)' = Back(x)) /\ Inserting' = Inserting
    BY <1>1 DEF InTree, Back, Inserting
  <1>3. RingInv' /\ StartInv'
    BY <1>1, <1>2 DEF LzssInv, RingInv, StartInv
  <1>4. CallInv'
    BY <1>1, <1>2 DEF LzssInv, CallInv
  <1>5. TreeInv'
    BY <1>1 DEF LzssInv, TreeInv
  <1> QED  BY <1>3, <1>4, <1>5 DEF LzssInv

LEMMA InitIs == Init => LzssInv
  <1> SUFFICES ASSUME Init PROVE LzssInv
    OBVIOUS
  <1>1. /\ N \in Nat /\ F \in Nat /\ 1 < F /\ 2 * F < N /\ Characters \in Nat /\ NIL = N
        /\ text \in Seq(Byte) /\ Space \in Byte /\ 0 \in Byte
    BY SizesAre, LzssAssumption DEF Init, LzssAssumption, Byte
  <1>2. /\ pc = "read" /\ src = 0 /\ caller = "warm" /\ s = 0 /\ r = N - F /\ known = {}
        /\ text_buf = [j \in 0 .. N + F - 2 |-> IF j < N - F THEN Space ELSE 0]
        /\ lchild = [j \in 0 .. N |-> 0]
        /\ rchild = [j \in 0 .. N + Characters |-> IF j > N THEN NIL ELSE 0]
        /\ parent = [j \in 0 .. N |-> IF j < N THEN NIL ELSE 0]
    BY DEF Init
  <1>3. InTree = {}
    BY <1>1, <1>2 DEF InTree
  <1>4. RingInv
    <2>1. s \in Places /\ r \in Places /\ Back(s) = N - F
      BY <1>1, <1>2 DEF Places, Back
    <2>2. src \in 0 .. Len(text)
      BY <1>1, <1>2
    <2>3. text_buf \in [0 .. N + F - 2 -> Byte]
      BY <1>1, <1>2
    <2> QED  BY <1>1, <1>2, <1>3, <2>1, <2>2, <2>3 DEF RingInv, PC
  <1>5. StartInv /\ CallInv
    BY <1>2, <1>3 DEF StartInv, CallInv, Inserting
  <1>6. TreeInv
    <2> DEFINE depth == [x \in Places |-> 0]
    <2>1. Trees(lchild, rchild, parent)
      BY <1>1, <1>2 DEF Trees
    <2>2. Nodes(parent) = {}
      BY <1>3, InTreeIs
    <2>3. Linked(lchild, rchild, parent)
      <3>1. \A a \in Roots : rchild[a] = NIL
        BY <1>1, <1>2, SizesAre
      <3> QED  BY <2>2, <3>1 DEF Linked
    <2>4. Alike(parent, text_buf) /\ Ranked(parent, depth)
      BY <2>2 DEF Alike, Ranked
    <2>5. Sound(lchild, rchild, parent, text_buf, depth)
      BY <2>1, <2>3, <2>4 DEF Sound
    <2> QED  BY <1>2, <2>5 DEF TreeInv
  <1> QED  BY <1>4, <1>5, <1>6 DEF LzssInv

-----------------------------------------------------------------------------
(* insert_node                                                             *)

LEMMA ReadFirstKeeps ==
    ASSUME LzssInv, ReadFirst
    PROVE  LzssInv'
  <1>1. /\ pc = "read" /\ pc' \in {"null", "warm"} /\ i' = 1
        /\ len' = (IF Len(text) < F THEN Len(text) ELSE F) /\ src' = len'
        /\ text_buf' = [j \in DOMAIN text_buf |->
                          IF j \in r .. r + len' - 1 THEN text[j - r + 1] ELSE text_buf[j]]
        /\ UNCHANGED <<text, lchild, rchild, parent, s, r, caller, known>>
    BY DEF ReadFirst, treeVars
  <1>2. /\ N \in Nat /\ F \in Nat /\ 1 < F /\ Len(text) \in Nat
        /\ text \in Seq(Byte) /\ r \in Places /\ r \in Nat
        /\ text_buf \in [0 .. N + F - 2 -> Byte]
    BY SizesAre DEF LzssInv, RingInv, Places
  <1>3. src' \in 0 .. Len(text) /\ text_buf' \in [0 .. N + F - 2 -> Byte]
    <2>1. len' \in Nat /\ len' <= Len(text)
      BY <1>1, <1>2
    <2>2. \A j \in 0 .. N + F - 2 : j \in r .. r + len' - 1 => text[j - r + 1] \in Byte
      <3> SUFFICES ASSUME NEW j \in 0 .. N + F - 2, j \in r .. r + len' - 1
                   PROVE  text[j - r + 1] \in Byte
        OBVIOUS
      <3>1. j - r + 1 \in 1 .. Len(text)
        <4>1. \A a, b, c, d \in Nat : b \in a .. a + c - 1 /\ c <= d => b - a + 1 \in 1 .. d
          OBVIOUS
        <4>2. j \in Nat
          BY <1>2
        <4> QED  BY <1>2, <2>1, <4>1, <4>2
      <3> QED  BY <1>2, <3>1
    <2> QED  BY <1>1, <1>2, <2>1, <2>2
  <1>4. InTree = {} /\ InTree' = InTree /\ \A x : Back(x)' = Back(x)
    BY <1>1 DEF LzssInv, StartInv, InTree, Back
  <1>5. RingInv'
    BY <1>1, <1>3, <1>4 DEF LzssInv, RingInv, PC
  <1>6. StartInv' /\ CallInv'
    BY <1>1, <1>2, <1>4 DEF LzssInv, StartInv, CallInv, Inserting
  <1>7. TreeInv'
    <2>1. PICK depth : Sound(lchild, rchild, parent, text_buf, depth)
      BY DEF LzssInv, TreeInv
    <2>2. Nodes(parent) = {} /\ Trees(lchild, rchild, parent)
      BY <1>4, <2>1, InTreeIs DEF Sound
    <2>3. Sound(lchild, rchild, parent, text_buf', depth)
      BY <2>1, <2>2, OnlyNodesCount
    <2> QED  BY <1>1, <2>3 DEF TreeInv
  <1> QED  BY <1>5, <1>6, <1>7 DEF LzssInv

\* The call of insert_node for a string that is not in a tree.
LEMMA InsertBegins ==
    ASSUME LzssInv, NEW n \in Places, n \notin InTree,
           text_buf' \in [0 .. N + F - 2 -> Byte],
           \A x \in InTree : text_buf'[x] = text_buf[x],
           Insert(n, text_buf'[n])
    PROVE  CallInv' /\ TreeInv' /\ InTree' = InTree
  <1> DEFINE c == text_buf'[n]
  <1>0. c \in Byte
    BY SizesAre DEF Places
  <1> HIDE DEF c
  <1>1. /\ pc' = "descend" /\ node' = n /\ p' = Root(c) /\ cmp' = 1
        /\ lchild' = [lchild EXCEPT ![n] = NIL] /\ rchild' = [rchild EXCEPT ![n] = NIL]
        /\ known' = known \cup {n} /\ parent' = parent
    BY DEF Insert, c
  <1>2. InTree' = InTree /\ InTree = Nodes(parent) /\ InTree \subseteq Places
    BY <1>1, InTreeIs DEF InTree
  <1>3. PICK depth : Sound(lchild, rchild, parent, text_buf, depth)
    BY DEF LzssInv, TreeInv
  <1>4. /\ Trees(lchild, rchild, parent) /\ n \in 0 .. N /\ n \in 0 .. N + Characters
        /\ NIL \in 0 .. N /\ n \notin Roots
    BY <1>3, SizesAre DEF Sound, Places
  <1>5. /\ Trees(lchild', rchild', parent')
        /\ lchild'[n] = NIL /\ rchild'[n] = NIL
        /\ \A x \in InTree : lchild'[x] = lchild[x] /\ rchild'[x] = rchild[x]
        /\ \A a \in Roots : rchild'[a] = rchild[a]
    <2>1. lchild \in [0 .. N -> 0 .. N] /\ rchild \in [0 .. N + Characters -> 0 .. N]
      BY <1>4 DEF Trees
    <2>2. Trees(lchild', rchild', parent')
      BY <1>1, <1>4, <2>1 DEF Trees
    <2>3. lchild'[n] = NIL /\ rchild'[n] = NIL
      BY <1>1, <1>4, <2>1
    <2>4. \A x \in Places : x # n => lchild'[x] = lchild[x] /\ rchild'[x] = rchild[x]
      <3>1. \A x \in Places : x \in 0 .. N /\ x \in 0 .. N + Characters
        BY SizesAre DEF Places
      <3> QED  BY <1>1, <2>1, <3>1
    <2>5. \A a \in Roots : rchild'[a] = rchild[a]
      <3>1. \A a \in Roots : a \in 0 .. N + Characters /\ a # n
        BY <1>4, SizesAre
      <3> QED  BY <1>1, <2>1, <3>1
    <2> QED  BY <1>2, <2>2, <2>3, <2>4, <2>5
  <1>6. Sound(lchild', rchild', parent', text_buf', depth)
    <2>1. /\ \A x \in Places : parent'[x] = parent[x]
          /\ \A x \in Nodes(parent) : /\ lchild'[x] = lchild[x] /\ rchild'[x] = rchild[x]
                                      /\ text_buf'[x] = text_buf[x]
      BY <1>1, <1>2, <1>5
    <2>2. Trees(lchild', rchild', parent') /\ \A a \in Roots : rchild'[a] = rchild[a]
      BY <1>5
    <2> DEFINE lc2 == lchild'
               rc2 == rchild'
               par2 == parent'
               buf2 == text_buf'
    <2> HIDE DEF lc2, rc2, par2, buf2
    <2>3. /\ Trees(lc2, rc2, par2) /\ \A a \in Roots : rc2[a] = rchild[a]
          /\ \A x \in Places : par2[x] = parent[x]
          /\ \A x \in Nodes(parent) : lc2[x] = lchild[x] /\ rc2[x] = rchild[x] /\ buf2[x] = text_buf[x]
      BY <2>1, <2>2 DEF lc2, rc2, par2, buf2
    <2>4. Sound(lc2, rc2, par2, buf2, depth)
      BY <1>3, <2>3, OnlyNodesCount
    <2> QED  BY <2>4 DEF lc2, rc2, par2, buf2
  <1>7. TreeInv'
    BY <1>1, <1>6 DEF TreeInv
  <1>8. p' \in Roots
    BY <1>0, <1>1, SizesAre
  <1>9. CallInv'
    BY <1>1, <1>2, <1>5, <1>8 DEF CallInv, Inserting, c
  <1> QED  BY <1>2, <1>7, <1>9

LEMMA WarmKeeps ==
    ASSUME LzssInv, Warm
    PROVE  LzssInv'
  <1> DEFINE n == IF i <= F THEN r - i ELSE r
  <1>1. /\ pc = "warm" /\ Insert(n, text_buf[n]) /\ i' = i + 1
        /\ UNCHANGED <<text, src, text_buf, s, r, caller>>
    BY DEF Warm, inputVars
  <1>2. /\ N \in Nat /\ F \in Nat /\ 1 < F /\ 2 * F < N
        /\ caller = "warm" /\ s = 0 /\ r = N - F /\ r \in Places
        /\ i \in 1 .. F + 1 /\ \A x \in InTree : 1 <= Back(x) /\ Back(x) < i
        /\ text_buf \in [0 .. N + F - 2 -> Byte]
        /\ known \subseteq Places /\ InTree \subseteq known
    BY <1>1, SizesAre DEF LzssInv, RingInv, StartInv
  <1>3. n \in Places /\ Back(n) = IF i <= F THEN i ELSE 0
    BY <1>2 DEF Places, Back
  <1> HIDE DEF n
  <1>4. n \notin InTree
    BY <1>2, <1>3
  <1>5. CallInv' /\ TreeInv' /\ InTree' = InTree
    BY <1>1, <1>2, <1>3, <1>4, InsertBegins
  <1>6. pc' = "descend" /\ node' = n /\ known' = known \cup {n} /\ \A x : Back(x)' = Back(x)
    BY <1>1 DEF Insert, Back
  <1>7. RingInv'
    BY <1>1, <1>2, <1>3, <1>5, <1>6 DEF LzssInv, RingInv, PC
  <1>8. StartInv'
    <2>1. i' \in 2 .. F + 2 /\ i' - 1 = i
      BY <1>1, <1>2
    <2> QED  BY <1>1, <1>2, <1>5, <1>6, <2>1 DEF StartInv, Inserting, n
  <1> QED  BY <1>5, <1>7, <1>8 DEF LzssInv

\* insert_node returns.
LEMMA InsertEnds ==
    ASSUME LzssInv, Inserting, Returned, InTree' \subseteq InTree \cup {node},
           UNCHANGED <<text, src, text_buf, s, r, i, caller, known>>
    PROVE  RingInv' /\ StartInv' /\ CallInv' /\ pc' # "rightmost"
  <1>1. /\ N \in Nat /\ F \in Nat /\ 1 < F /\ 2 * F < N
        /\ r \in Places /\ caller \in {"warm", "slide"} /\ node \in Places /\ node \in known
        /\ \A x \in Places : Back(x) \in 0 .. N - 1 /\ (Back(x) = 0 <=> x = r)
        /\ InTree \subseteq Places /\ InTree' \subseteq Places
        /\ \A x : Back(x)' = Back(x)
    BY SizesAre, BackIs, InTreeIs DEF LzssInv, RingInv, CallInv, Back
  <1>2. pc' = IF caller = "warm" /\ node = r THEN "emit" ELSE caller
    BY DEF Returned
  <1>3. Back(node) <= N - F
    <2>1. CASE caller = "slide"
      BY <1>1, <2>1 DEF LzssInv, StartInv
    <2>2. CASE caller = "warm"
      <3>1. i \in 2 .. F + 2 /\ node = (IF i - 1 <= F THEN r - (i - 1) ELSE r) /\ r = N - F
        BY <2>2 DEF LzssInv, StartInv
      <3> QED  BY <1>1, <3>1 DEF Back
    <2> QED  BY <1>1, <2>1, <2>2
  <1>4. RingInv'
    BY <1>1, <1>2, <1>3 DEF LzssInv, RingInv, PC
  <1>5. CASE pc' = "warm"
    <2>1. caller = "warm" /\ node # r /\ s = 0 /\ r = N - F
      BY <1>1, <1>2, <1>5 DEF LzssInv, StartInv
    <2>2. /\ i \in 2 .. F + 2 /\ node = (IF i - 1 <= F THEN r - (i - 1) ELSE r)
          /\ \A x \in InTree : 1 <= Back(x) /\ Back(x) < i - 1
      BY <2>1 DEF LzssInv, StartInv
    <2>3. i \in 1 .. F + 1 /\ Back(node) = i - 1
      BY <1>1, <2>1, <2>2 DEF Back
    <2>4. \A x \in InTree' : 1 <= Back(x) /\ Back(x) < i
      <3> SUFFICES ASSUME NEW x \in InTree \cup {node} PROVE 1 <= Back(x) /\ Back(x) < i
        OBVIOUS
      <3>1. Back(x) \in Nat
        BY <1>1
      <3> QED  BY <2>2, <2>3, <3>1
    <2> QED  BY <1>1, <1>4, <1>5, <2>1, <2>3, <2>4 DEF StartInv, CallInv, Inserting
  <1>6. CASE pc' # "warm"
    <2>1. pc' \in {"emit", "slide"}
      BY <1>1, <1>2, <1>6
    <2> QED  BY <1>4, <2>1 DEF StartInv, CallInv, Inserting
  <1> QED  BY <1>5, <1>6

\* Where insert_node is: at a root or a node, of the same character.
LEMMA DescendIs ==
    ASSUME LzssInv, pc = "descend"
    PROVE  /\ node \in Places /\ node \notin InTree /\ node # NIL /\ node \notin Roots
           /\ lchild[node] = NIL /\ rchild[node] = NIL
           /\ p \in InTree \cup Roots /\ p # node
           /\ p \in Roots => p = Root(text_buf[node]) /\ Child = rchild[p]
           /\ p \notin Roots => text_buf[p] = text_buf[node]
  <1>1. /\ node \in Places /\ node \notin InTree
        /\ lchild[node] = NIL /\ rchild[node] = NIL
        /\ p \in InTree \cup Roots
        /\ p \in Roots => p = Root(text_buf[node]) /\ cmp = 1
        /\ p \notin Roots => text_buf[p] = text_buf[node]
    BY DEF LzssInv, CallInv, Inserting
  <1>2. node # NIL /\ node \notin Roots
    BY <1>1, SizesAre
  <1> QED  BY <1>1, <1>2 DEF Child

LEMMA AttachStep ==
    ASSUME LzssInv, Attach
    PROVE  LzssInv'
  <1>1. /\ pc = "descend" /\ Child = NIL /\ Returned
        /\ parent' = [parent EXCEPT ![node] = p]
        /\ UNCHANGED <<text, src, text_buf, s, r, i, caller, known>>
    BY DEF Attach, inputVars, windowVars
  <1>2. /\ node \in Places /\ node \notin InTree
        /\ lchild[node] = NIL /\ rchild[node] = NIL
        /\ p \in InTree \cup Roots
        /\ p \in Roots => p = Root(text_buf[node]) /\ Child = rchild[p]
        /\ p \notin Roots => text_buf[p] = text_buf[node]
    BY <1>1, DescendIs
  <1>3. \/ rchild[p] = NIL /\ rchild' = [rchild EXCEPT ![p] = node] /\ lchild' = lchild
        \/ p \notin Roots /\ lchild[p] = NIL /\ lchild' = [lchild EXCEPT ![p] = node] /\ rchild' = rchild
    <2>1. CASE p \notin Roots
      BY <1>1, <2>1 DEF Attach, Child
    <2>2. CASE p \in Roots
      <3>1. cmp = 1
        BY <1>1, <2>2 DEF LzssInv, CallInv
      <3> QED  BY <1>1, <3>1 DEF Attach, Child
    <2> QED  BY <2>1, <2>2
  <1>4. PICK depth : Sound(lchild, rchild, parent, text_buf, depth)
    BY DEF LzssInv, TreeInv
  <1>5. InTree = Nodes(parent) /\ InTree' = Nodes(parent')
    <2>1. InTree' = Nodes(parent')
      BY DEF InTree, Nodes, Places
    <2> QED  BY <2>1, InTreeIs
  <1>6. Trees(lchild', rchild', parent')
    <2>1. Trees(lchild, rchild, parent) /\ node \in 0 .. N /\ p \in 0 .. N + Characters
      BY <1>2, <1>4, InTreeIs, SizesAre DEF Sound, Places
    <2> QED  BY <1>1, <1>3, <2>1 DEF Trees
  <1> DEFINE lc2 == lchild'
             rc2 == rchild'
             par2 == parent'
             Attached(side) ==
               /\ side = "right" => rchild[p] = NIL
               /\ side = "left" => p \notin Roots /\ lchild[p] = NIL
               /\ \A x \in Places : lc2[x] = IF x = p /\ side = "left" THEN node ELSE lchild[x]
               /\ \A x \in Places \cup Roots : rc2[x] = IF x = p /\ side = "right" THEN node ELSE rchild[x]
  <1> HIDE DEF lc2, rc2, par2
  <1>7. /\ Trees(lc2, rc2, par2)
        /\ \A x \in Places : par2[x] = IF x = node THEN p ELSE parent[x]
        /\ \E side \in {"left", "right"} : Attached(side)
    <2>1. /\ \A x \in Places : x \in 0 .. N /\ x \in 0 .. N + Characters
          /\ \A x \in Roots : x \in 0 .. N + Characters
      BY SizesAre DEF Places
    <2>2. /\ lchild \in [0 .. N -> 0 .. N] /\ rchild \in [0 .. N + Characters -> 0 .. N]
          /\ parent \in [0 .. N -> 0 .. N + Characters]
      BY <1>4 DEF Sound, Trees
    <2>3. \A x \in Places : par2[x] = IF x = node THEN p ELSE parent[x]
      BY <1>1, <1>2, <2>1, <2>2 DEF par2
    <2>4. CASE rchild[p] = NIL /\ rc2 = [rchild EXCEPT ![p] = node] /\ lc2 = lchild
      <3>1. \A x \in Places \cup Roots : rc2[x] = IF x = p THEN node ELSE rchild[x]
        BY <2>1, <2>2, <2>4
      <3>2. Attached("right")
        BY <2>4, <3>1
      <3> QED  BY <1>6, <2>3, <3>2 DEF lc2, rc2, par2
    <2>5. CASE p \notin Roots /\ lchild[p] = NIL /\ lc2 = [lchild EXCEPT ![p] = node] /\ rc2 = rchild
      <3>1. \A x \in Places : lc2[x] = IF x = p THEN node ELSE lchild[x]
        BY <2>1, <2>2, <2>5
      <3>2. Attached("left")
        BY <2>5, <3>1
      <3> QED  BY <1>6, <2>3, <3>2 DEF lc2, rc2, par2
    <2> QED  BY <1>3, <2>4, <2>5 DEF lc2, rc2
  <1>8. /\ Nodes(par2) = Nodes(parent) \cup {node}
        /\ \E deep : Sound(lc2, rc2, par2, text_buf, deep)
    <2>1. node \notin Nodes(parent) /\ p \in Nodes(parent) \cup Roots
      BY <1>2, <1>5
    <2>2. /\ p \in Roots => p = Root(text_buf[node])
          /\ p \notin Roots => text_buf[p] = text_buf[node]
      BY <1>2
    <2>3. PICK side \in {"left", "right"} : Attached(side)
      BY <1>7
    <2>4. /\ side = "right" => rchild[p] = NIL
          /\ side = "left" => p \notin Roots /\ lchild[p] = NIL
          /\ \A x \in Places : lc2[x] = IF x = p /\ side = "left" THEN node ELSE lchild[x]
          /\ \A x \in Places \cup Roots : rc2[x] = IF x = p /\ side = "right" THEN node ELSE rchild[x]
      BY <2>3
    <2> HIDE DEF Attached
    <2> QED  BY <1>2, <1>4, <1>7, <2>1, <2>2, <2>4, AttachKeeps
  <1>9. InTree' \subseteq InTree \cup {node}
    BY <1>5, <1>8 DEF par2
  <1>10. RingInv' /\ StartInv' /\ CallInv' /\ pc' # "rightmost"
    BY <1>1, <1>9, InsertEnds DEF Inserting
  <1>11. TreeInv'
    BY <1>1, <1>8, <1>10 DEF TreeInv, lc2, rc2, par2
  <1> QED  BY <1>10, <1>11 DEF LzssInv

LEMMA DescendStep ==
    ASSUME LzssInv, Descend
    PROVE  LzssInv'
  <1>1. /\ pc = "descend" /\ Child # NIL /\ p' = Child /\ pc' \in {"descend", "replace"}
        /\ UNCHANGED <<text, src, text_buf, lchild, rchild, parent, s, r, i, node, caller, known>>
    BY DEF Descend, inputVars, windowVars, treeVars
  <1>2. /\ node \in Places /\ node \notin InTree
        /\ lchild[node] = NIL /\ rchild[node] = NIL
        /\ p \in InTree \cup Roots
        /\ p \in Roots => p = Root(text_buf[node]) /\ Child = rchild[p]
        /\ p \notin Roots => text_buf[p] = text_buf[node]
    BY <1>1, DescendIs
  <1>3. PICK depth : Sound(lchild, rchild, parent, text_buf, depth)
    BY DEF LzssInv, TreeInv
  <1>4. InTree = Nodes(parent) /\ InTree \subseteq Places
    BY InTreeIs
  <1>5. p' \in InTree /\ p' \notin Roots /\ text_buf[p'] = text_buf[node]
    <2>1. \A y \in Nodes(parent) : IF parent[y] \in Roots THEN parent[y] = Root(text_buf[y])
                                   ELSE text_buf[parent[y]] = text_buf[y]
      BY <1>3 DEF Sound, Alike
    <2>2. CASE p \in Roots
      <3>1. /\ rchild[p] # NIL /\ p # NIL /\ p \in 0 .. N + Characters
            /\ p' = rchild[p]
        BY <1>1, <1>2, <2>2, SizesAre
      <3>2. p' \in Nodes(parent) /\ parent[p'] = p
        <4>1. rchild[p] \in 0 .. N
          BY <1>3, <3>1 DEF Sound, Trees
        <4>2. parent[rchild[p]] = p
          BY <1>3, <2>2, <3>1 DEF Sound, Linked
        <4>3. rchild[p] \in Nodes(parent)
          BY <3>1, <4>1, <4>2, SizesAre DEF Nodes, Places
        <4> QED  BY <3>1, <4>2, <4>3
      <3>3. Root(text_buf[p']) = Root(text_buf[node])
        BY <1>2, <2>1, <2>2, <3>2
      <3>4. text_buf[p'] \in Nat /\ text_buf[node] \in Nat
        <4>1. text_buf \in [0 .. N + F - 2 -> Byte] /\ p' \in Places /\ node \in Places
          BY <1>2, <1>4, <3>2 DEF LzssInv, RingInv
        <4>2. Places \subseteq 0 .. N + F - 2 /\ Byte \subseteq Nat
          BY SizesAre DEF Places, Byte
        <4> DEFINE below == p'
        <4> HIDE DEF below
        <4>3. below \in 0 .. N + F - 2 /\ node \in 0 .. N + F - 2
          BY <4>1, <4>2 DEF below
        <4>4. text_buf[below] \in Nat /\ text_buf[node] \in Nat
          BY <4>1, <4>2, <4>3
        <4> QED  BY <4>4 DEF below
      <3>5. text_buf[p'] = text_buf[node]
        BY <3>3, <3>4, SizesAre DEF Root
      <3> QED  BY <1>4, <3>2, <3>5, SizesAre
    <2>3. CASE p \notin Roots
      <3>1. p \in Nodes(parent) /\ p' \in {lchild[p], rchild[p]}
        BY <1>1, <1>2, <1>4, <2>3 DEF Child
      <3>2. p' \in Nodes(parent) /\ parent[p'] = p
        BY <1>1, <1>3, <3>1, AroundIs
      <3>3. text_buf[p'] = text_buf[p]
        BY <2>1, <2>3, <3>2
      <3> QED  BY <1>2, <1>4, <2>3, <3>2, <3>3, SizesAre
    <2> QED  BY <2>2, <2>3
  <1>6. InTree' = InTree /\ \A x : Back(x)' = Back(x)
    BY <1>1 DEF InTree, Back
  <1>7. RingInv'
    BY <1>1, <1>6 DEF LzssInv, RingInv, PC
  <1>8. StartInv'
    BY <1>1, <1>6 DEF LzssInv, StartInv, Inserting
  <1>9. CallInv'
    BY <1>1, <1>2, <1>5, <1>6 DEF LzssInv, CallInv, Inserting
  <1>10. TreeInv'
    BY <1>1, <1>3 DEF TreeInv
  <1> QED  BY <1>7, <1>8, <1>9, <1>10 DEF LzssInv

LEMMA ReplaceStep ==
    ASSUME LzssInv, Replace
    PROVE  LzssInv'
  <1> DEFINE above == parent[p]
             lt == [lchild EXCEPT ![node] = lchild[p]]
             rt == [rchild EXCEPT ![node] = rchild[p]]
  <1>1. /\ pc = "replace" /\ Returned
        /\ IF rt[above] = p
           THEN rchild' = [rt EXCEPT ![above] = node] /\ lchild' = lt
           ELSE lchild' = [lt EXCEPT ![above] = node] /\ rchild' = rt
        /\ parent' = [parent EXCEPT ![node] = parent[p], ![lchild[p]] = node,
                                    ![rchild[p]] = node, ![p] = NIL]
        /\ UNCHANGED <<text, src, text_buf, s, r, i, caller, known>>
    BY DEF Replace, inputVars, windowVars
  <1>2. /\ node \in Places /\ node \notin InTree /\ p \in InTree
        /\ text_buf[p] = text_buf[node]
    BY <1>1 DEF LzssInv, CallInv, Inserting
  <1>3. PICK depth : Sound(lchild, rchild, parent, text_buf, depth)
    BY DEF LzssInv, TreeInv
  <1>4. InTree = Nodes(parent) /\ InTree' = Nodes(parent')
    <2>1. InTree' = Nodes(parent')
      BY DEF InTree, Nodes, Places
    <2> QED  BY <2>1, InTreeIs
  <1>5. /\ p \in Places /\ p # NIL /\ p \notin Roots /\ above # p /\ above # NIL
        /\ lchild[p] # p /\ rchild[p] # p
        /\ above \in Roots \/ (above \notin Roots /\ above \in Nodes(parent) /\ above \in Places)
        /\ above \in Roots => rchild[above] = p
        /\ lchild[p] # NIL => lchild[p] \in Nodes(parent)
        /\ rchild[p] # NIL => rchild[p] \in Nodes(parent)
    BY <1>2, <1>3, <1>4, AroundIs
  <1> HIDE DEF above
  <1>6. /\ lchild \in [0 .. N -> 0 .. N] /\ rchild \in [0 .. N + Characters -> 0 .. N]
        /\ parent \in [0 .. N -> 0 .. N + Characters]
    BY <1>3 DEF Sound, Trees
  <1>7. /\ node \in 0 .. N /\ node \in 0 .. N + Characters /\ node # NIL /\ node # p /\ node # above
        /\ p \in 0 .. N /\ p \in 0 .. N + Characters /\ above \in 0 .. N + Characters
        /\ lchild[p] \in 0 .. N /\ rchild[p] \in 0 .. N /\ NIL \in 0 .. N + Characters
        /\ lchild[p] # node /\ rchild[p] # node
        /\ above \notin Roots => above \in 0 .. N
    <2>1. \A x \in Places : x \in 0 .. N /\ x \in 0 .. N + Characters
      BY SizesAre DEF Places
    <2>2. /\ Roots \subseteq 0 .. N + Characters /\ NIL \in 0 .. N + Characters
          /\ NIL \notin Places /\ Roots \cap Places = {}
      BY SizesAre
    <2>3. lchild[p] \in 0 .. N /\ rchild[p] \in 0 .. N
      BY <1>5, <1>6, <2>1
    <2>4. node # above
      BY <1>2, <1>4, <1>5, <2>2
    <2> QED  BY <1>2, <1>4, <1>5, <2>1, <2>2, <2>3, <2>4
  <1>8. /\ lt \in [0 .. N -> 0 .. N] /\ rt \in [0 .. N + Characters -> 0 .. N]
        /\ \A x \in 0 .. N : lt[x] = IF x = node THEN lchild[p] ELSE lchild[x]
        /\ \A x \in 0 .. N + Characters : rt[x] = IF x = node THEN rchild[p] ELSE rchild[x]
        /\ rt[above] = rchild[above]
    BY <1>6, <1>7
  <1> HIDE DEF lt, rt
  <1> DEFINE lc2 == lchild'
             rc2 == rchild'
             par2 == parent'
  <1>9. /\ lc2 \in [0 .. N -> 0 .. N] /\ rc2 \in [0 .. N + Characters -> 0 .. N]
        /\ \A x \in 0 .. N : lc2[x] = IF x = above /\ rchild[above] # p THEN node ELSE lt[x]
        /\ \A x \in 0 .. N + Characters : rc2[x] = IF x = above /\ rchild[above] = p THEN node ELSE rt[x]
    BY <1>1, <1>5, <1>7, <1>8
  <1>10. /\ par2 \in [0 .. N -> 0 .. N + Characters]
         /\ \A x \in 0 .. N : par2[x] = IF x = p THEN NIL ELSE IF x \in {lchild[p], rchild[p]} THEN node
                                        ELSE IF x = node THEN above ELSE parent[x]
    BY <1>1, <1>6, <1>7 DEF above
  <1> HIDE DEF lc2, rc2, par2
  <1>11. /\ Trees(lc2, rc2, par2)
         /\ \A x \in Places :
               par2[x] = IF x = p THEN NIL ELSE IF x = node THEN parent[p]
                         ELSE IF x \in {lchild[p], rchild[p]} THEN node ELSE parent[x]
         /\ \A x \in Places \ {p} :
               lc2[x] = IF x = node THEN lchild[p]
                        ELSE IF x = parent[p] /\ rchild[x] # p THEN node ELSE lchild[x]
         /\ \A x \in (Places \ {p}) \cup Roots :
               rc2[x] = IF x = node THEN rchild[p]
                        ELSE IF x = parent[p] /\ rchild[x] = p THEN node ELSE rchild[x]
    <2>1. Trees(lc2, rc2, par2)
      BY <1>9, <1>10 DEF Trees
    <2>2. /\ \A x \in Places : x \in 0 .. N /\ x \in 0 .. N + Characters
          /\ \A x \in Roots : x \in 0 .. N + Characters
      BY SizesAre DEF Places
    <2>3. \A x \in Places : par2[x] = IF x = p THEN NIL ELSE IF x = node THEN parent[p]
                                      ELSE IF x \in {lchild[p], rchild[p]} THEN node ELSE parent[x]
      BY <1>7, <1>10, <2>2 DEF above
    <2>4. \A x \in Places \ {p} :
             lc2[x] = IF x = node THEN lchild[p]
                      ELSE IF x = parent[p] /\ rchild[x] # p THEN node ELSE lchild[x]
      BY <1>7, <1>8, <1>9, <2>2 DEF above
    <2>5. \A x \in (Places \ {p}) \cup Roots :
             rc2[x] = IF x = node THEN rchild[p]
                      ELSE IF x = parent[p] /\ rchild[x] = p THEN node ELSE rchild[x]
      BY <1>7, <1>8, <1>9, <2>2 DEF above
    <2> QED  BY <2>1, <2>3, <2>4, <2>5
  <1>12. /\ Nodes(par2) = (Nodes(parent) \ {p}) \cup {node}
         /\ \E deep : Sound(lc2, rc2, par2, text_buf, deep)
    BY <1>2, <1>3, <1>4, <1>11, ReplaceKeeps
  <1>13. InTree' \subseteq InTree \cup {node}
    BY <1>4, <1>12 DEF par2
  <1>14. RingInv' /\ StartInv' /\ CallInv' /\ pc' # "rightmost"
    BY <1>1, <1>13, InsertEnds DEF Inserting
  <1>15. TreeInv'
    BY <1>1, <1>12, <1>14 DEF TreeInv, lc2, rc2, par2
  <1> QED  BY <1>14, <1>15 DEF LzssInv

-----------------------------------------------------------------------------
(* The main loop and delete_node                                           *)

LEMMA QuietSteps ==
    ASSUME LzssInv, Emit \/ WriteGroup \/ Slid \/ Flush \/ DeleteAbsent
    PROVE  LzssInv'
  <1>1. /\ UNCHANGED <<text, src, text_buf, lchild, rchild, parent, s, r, known>>
        /\ \/ pc' \in {"write", "slide"} /\ caller' = "slide"
           \/ /\ pc \in {"write", "slide"} /\ pc' \in {"emit", "slide", "flush", "done", "null"}
              /\ caller' = caller
           \/ pc = "flush" /\ pc' \in {"done", "null"} /\ caller' = caller
           \/ pc = "slide" /\ pc' = "shift" /\ parent[s] = NIL /\ caller' = caller
    BY DEF Emit, WriteGroup, Slid, Flush, DeleteAbsent, Deleting, Write, inputVars, treeVars, windowVars
  <1>2. caller \in {"warm", "slide"} /\ (pc \in {"write", "slide"} => caller = "slide")
    BY DEF LzssInv, RingInv
  <1>3. parent[s] = NIL => s \notin InTree
    BY DEF InTree
  <1> QED  BY <1>1, <1>2, <1>3, QuietKeeps

\* The node at s is no longer in a tree.
LEMMA DeleteEnds ==
    ASSUME LzssInv, pc \in {"slide", "rightmost"}, pc' = "shift",
           UNCHANGED <<text, src, text_buf, s, r, caller, known>>,
           InTree' = InTree \ {s},
           \E depth : Sound(lchild', rchild', parent', text_buf, depth)
    PROVE  LzssInv'
  <1>1. caller = "slide" /\ \A x : Back(x)' = Back(x)
    BY DEF LzssInv, RingInv, Back
  <1>2. RingInv'
    BY <1>1 DEF LzssInv, RingInv, PC
  <1>3. StartInv' /\ CallInv'
    BY <1>1 DEF StartInv, CallInv, Inserting
  <1>4. TreeInv'
    BY DEF TreeInv
  <1> QED  BY <1>2, <1>3, <1>4 DEF LzssInv

LEMMA NodesArePrimed == InTree = Nodes(parent) /\ InTree' = Nodes(parent') /\ InTree \subseteq Places
  <1>1. InTree' = Nodes(parent')
    BY DEF InTree, Nodes, Places
  <1> QED  BY <1>1, InTreeIs

LEMMA IndicesAre ==
    /\ \A x \in Places : x \in 0 .. N /\ x \in 0 .. N + Characters
    /\ \A x \in Roots : x \in 0 .. N + Characters
    /\ NIL \in 0 .. N /\ NIL \in 0 .. N + Characters
  BY SizesAre DEF Places

LEMMA DeleteSimpleStep ==
    ASSUME LzssInv, DeleteSimple
    PROVE  LzssInv'
  <1> DEFINE a == parent[s]
             c == q'
             lc2 == lchild'
             rc2 == rchild'
             par2 == parent'
  <1>1. /\ pc = "slide" /\ pc' = "shift" /\ a # NIL
        /\ UNCHANGED <<text, src, text_buf, s, r, caller, known>>
        /\ (c = lchild[s] /\ rchild[s] = NIL) \/ (c = rchild[s] /\ lchild[s] = NIL)
    BY DEF DeleteSimple, Deleting, inputVars, windowVars
  <1>2. /\ IF rchild[a] = s THEN rc2 = [rchild EXCEPT ![a] = c] /\ lc2 = lchild
                            ELSE lc2 = [lchild EXCEPT ![a] = c] /\ rc2 = rchild
        /\ par2 = [parent EXCEPT ![c] = a, ![s] = NIL]
    BY DEF DeleteSimple, Unlink
  <1>3. PICK depth : Sound(lchild, rchild, parent, text_buf, depth)
    BY DEF LzssInv, TreeInv
  <1>4. s \in InTree /\ InTree = Nodes(parent) /\ InTree' = Nodes(par2)
    BY <1>1, NodesArePrimed DEF InTree, LzssInv, RingInv, Places
  <1>5. /\ lchild \in [0 .. N -> 0 .. N] /\ rchild \in [0 .. N + Characters -> 0 .. N]
        /\ parent \in [0 .. N -> 0 .. N + Characters]
    BY <1>3 DEF Sound, Trees
  <1>6. /\ s \in Places /\ a # s /\ (a \in Roots \/ (a \notin Roots /\ a \in Places))
        /\ s \in 0 .. N /\ s \in 0 .. N + Characters /\ c \in 0 .. N
        /\ a \in Roots => rchild[a] = s
    <2>1. /\ s \in Places /\ a # s /\ (a \in Roots \/ (a \notin Roots /\ a \in Places))
          /\ a \in Roots => rchild[a] = s
      BY <1>3, <1>4, AroundIs
    <2> QED  BY <1>1, <1>5, <2>1, IndicesAre
  <1> HIDE DEF a, c, lc2, rc2, par2
  <1>7. Trees(lc2, rc2, par2)
    <2>1. a \in 0 .. N + Characters /\ (a \notin Roots => a \in 0 .. N)
      BY <1>6, IndicesAre
    <2> QED  BY <1>2, <1>5, <1>6, <2>1, IndicesAre DEF Trees
  <1>8. \A x \in Places : par2[x] = IF x = s THEN NIL ELSE IF x = c THEN parent[s] ELSE parent[x]
    BY <1>2, <1>5, <1>6, IndicesAre DEF a
  <1>9. \A x \in Places \ {s} : lc2[x] = IF x = parent[s] /\ rchild[x] # s THEN c ELSE lchild[x]
    BY <1>2, <1>5, <1>6, IndicesAre DEF a
  <1>10. \A x \in (Places \ {s}) \cup Roots : rc2[x] = IF x = parent[s] /\ rchild[x] = s THEN c ELSE rchild[x]
    BY <1>2, <1>5, <1>6, IndicesAre DEF a
  <1>11. Nodes(par2) = Nodes(parent) \ {s} /\ Sound(lc2, rc2, par2, text_buf, depth)
    BY <1>1, <1>3, <1>4, <1>7, <1>8, <1>9, <1>10, UnlinkKeeps
  <1>12. InTree' = InTree \ {s} /\ Sound(lchild', rchild', parent', text_buf, depth)
    BY <1>4, <1>11 DEF lc2, rc2, par2
  <1> QED  BY <1>1, <1>12, DeleteEnds

LEMMA DeleteSearchStep ==
    ASSUME LzssInv, DeleteSearch
    PROVE  LzssInv'
  <1>1. /\ pc' = "rightmost"
        /\ UNCHANGED <<text, src, text_buf, lchild, rchild, parent, s, r, caller, known>>
        /\ \/ pc = "slide" /\ parent[s] # NIL /\ lchild[s] # NIL /\ rchild[s] # NIL /\ q' = lchild[s]
           \/ pc = "rightmost" /\ rchild[q] # NIL /\ q' = rchild[q]
    BY DEF DeleteSearch, Deleting, inputVars, treeVars, windowVars
  <1>2. PICK depth : /\ Sound(lchild, rchild, parent, text_buf, depth)
                     /\ pc = "rightmost" => depth[s] < depth[q]
    BY DEF LzssInv, TreeInv
  <1>3. InTree = Nodes(parent) /\ InTree' = InTree /\ InTree \subseteq Places /\ \A x : Back(x)' = Back(x)
    BY <1>1, InTreeIs DEF InTree, Back
  <1>4. /\ \A x \in InTree : depth[x] \in Nat /\ (parent[x] \in InTree => depth[parent[x]] < depth[x])
        /\ \A x \in InTree : parent[x] \in InTree => text_buf[parent[x]] = text_buf[x]
    <2>1. \A x \in InTree : x \notin Roots
      BY <1>3, SizesAre
    <2> QED  BY <1>2, <1>3, <2>1 DEF Sound, Ranked, Alike
  <1>5. \A x \in InTree : /\ lchild[x] # NIL => lchild[x] \in InTree /\ parent[lchild[x]] = x
                          /\ rchild[x] # NIL => rchild[x] \in InTree /\ parent[rchild[x]] = x
    BY <1>2, <1>3, AroundIs
  <1> DEFINE q2 == q'
  <1> HIDE DEF q2
  <1>6. /\ s \in InTree /\ lchild[s] # NIL /\ rchild[s] # NIL /\ q2 \in InTree
        /\ q2 = lchild[s] \/ (parent[q2] \in InTree /\ parent[q2] # s /\ rchild[parent[q2]] = q2)
        /\ text_buf[q2] = text_buf[s] /\ depth[s] < depth[q2]
    <2>1. CASE pc = "slide"
      <3>1. s \in InTree /\ q2 = lchild[s] /\ lchild[s] # NIL /\ rchild[s] # NIL
        BY <1>1, <2>1 DEF LzssInv, RingInv, InTree, Places, q2
      <3> QED  BY <1>4, <1>5, <3>1
    <2>2. CASE pc = "rightmost"
      <3>1. /\ s \in InTree /\ lchild[s] # NIL /\ rchild[s] # NIL /\ q \in InTree
            /\ text_buf[q] = text_buf[s] /\ q2 = rchild[q] /\ rchild[q] # NIL
            /\ depth[s] < depth[q]
        BY <1>1, <1>2, <2>2 DEF LzssInv, CallInv, q2
      <3>2. q2 \in InTree /\ parent[q2] = q /\ q # s
        BY <1>4, <1>5, <3>1
      <3>3. depth[q] < depth[q2] /\ text_buf[q2] = text_buf[q]
        BY <1>4, <3>1, <3>2
      <3> QED  BY <1>4, <3>1, <3>2, <3>3
    <2> QED  BY <1>1, <2>1, <2>2
  <1>7. RingInv' /\ StartInv'
    <2>1. caller = "slide"
      BY <1>1 DEF LzssInv, RingInv
    <2>2. RingInv'
      BY <1>1, <1>3, <2>1 DEF LzssInv, RingInv, PC
    <2> QED  BY <1>1, <2>1, <2>2 DEF StartInv, Inserting
  <1>8. CallInv' /\ TreeInv'
    <2>1. CallInv'
      BY <1>1, <1>3, <1>6 DEF CallInv, Inserting, q2
    <2>2. TreeInv'
      BY <1>1, <1>2, <1>6 DEF TreeInv, q2
    <2> QED  BY <2>1, <2>2
  <1> QED  BY <1>7, <1>8 DEF LzssInv

\* With two children: the node q leaves its place to its left child, and then
\* takes that of s.
LEMMA DeleteDoubleStep ==
    ASSUME LzssInv, DeleteDouble
    PROVE  LzssInv'
  <1> DEFINE a == parent[s]
             b == parent[q]
             l == lchild[s]
             t == rchild[s]
             m == lchild[q]
             lc2 == lchild'
             rc2 == rchild'
             par2 == parent'
  <1>1. /\ pc = "rightmost" /\ pc' = "shift" /\ rchild[q] = NIL
        /\ UNCHANGED <<text, src, text_buf, s, r, caller, known>>
    BY DEF DeleteDouble, inputVars, windowVars
  <1>2. /\ s \in InTree /\ l # NIL /\ t # NIL /\ q \in InTree
        /\ q = l \/ (b \in InTree /\ b # s /\ rchild[b] = q)
        /\ text_buf[q] = text_buf[s]
    BY <1>1 DEF LzssInv, CallInv
  <1>3. PICK depth : Sound(lchild, rchild, parent, text_buf, depth) /\ depth[s] < depth[q]
    BY <1>1 DEF LzssInv, TreeInv
  <1>4. InTree = Nodes(parent) /\ InTree' = Nodes(par2) /\ InTree \subseteq Places
    BY NodesArePrimed
  <1>5. /\ lchild \in [0 .. N -> 0 .. N] /\ rchild \in [0 .. N + Characters -> 0 .. N]
        /\ parent \in [0 .. N -> 0 .. N + Characters]
    BY <1>3 DEF Sound, Trees
  <1>6. /\ q # s /\ q \in Places /\ s \in Places
        /\ a # s /\ a # q /\ a # NIL /\ b # q /\ b # NIL
        /\ l # s /\ l \in InTree /\ parent[l] = s /\ l # t
        /\ t # s /\ t \in InTree /\ parent[t] = s /\ t # q
        /\ m # s /\ m # q /\ m # l /\ m # t /\ (m # NIL => m \in InTree /\ parent[m] = q)
        /\ a \in Roots \/ (a \notin Roots /\ a \in Places)
        /\ b \notin Roots /\ b \in Places
    <2>1. \A x \in InTree : depth[x] \in Nat /\ (parent[x] \in InTree => depth[parent[x]] < depth[x])
      BY <1>3, <1>4 DEF Sound, Ranked
    <2>2. /\ s \in Places /\ a # s /\ a # NIL /\ l # s /\ t # s
          /\ a \in Roots \/ (a \notin Roots /\ a \in Places)
          /\ l \in InTree /\ parent[l] = s /\ l # t
          /\ t \in InTree /\ parent[t] = s
      BY <1>2, <1>3, <1>4, AroundIs
    <2>3. /\ q \in Places /\ b # q /\ b # NIL /\ m # q /\ (m # NIL => m \in InTree /\ parent[m] = q)
      BY <1>2, <1>3, <1>4, AroundIs
    <2>4. q # s /\ a # q
      BY <1>2, <1>3, <2>1
    <2>5. m # s /\ m # l /\ m # t
      <3>1. l # NIL /\ t # NIL /\ s # NIL
        BY <1>2, <2>2, SizesAre
      <3> QED  BY <2>2, <2>3, <2>4, <3>1
    <2>6. t # q
      BY <1>2, <2>2
    <2>7. b \notin Roots /\ b \in Places
      BY <1>2, <1>4, <2>2, SizesAre
    <2> QED  BY <2>2, <2>3, <2>4, <2>5, <2>6, <2>7
  <1>7. /\ \A x \in {s, q, l, t, m, b} : x \in 0 .. N /\ x \in 0 .. N + Characters
        /\ a \in 0 .. N + Characters /\ (a \notin Roots => a \in 0 .. N)
    BY <1>4, <1>6, IndicesAre
  <1>8. IF q = l
        THEN Unlink(lchild, [rchild EXCEPT ![q] = t], [parent EXCEPT ![t] = q], q)
        ELSE Unlink([lchild EXCEPT ![q] = l], [rchild EXCEPT ![b] = m, ![q] = t],
                    [parent EXCEPT ![m] = b, ![l] = q, ![t] = q], q)
    BY DEF DeleteDouble
  <1> HIDE DEF a, b, l, t, m, lc2, rc2, par2
  <1>9. q = l => b = s
    BY <1>6 DEF b
  <1>10. /\ lc2 \in [0 .. N -> 0 .. N] /\ rc2 \in [0 .. N + Characters -> 0 .. N]
         /\ par2 \in [0 .. N -> 0 .. N + Characters]
         /\ \A x \in Places : par2[x] = IF x = s THEN NIL ELSE IF x = q THEN a
                                        ELSE IF x \in {l, t} THEN q
                                        ELSE IF x = m /\ q # l THEN b ELSE parent[x]
         /\ \A x \in Places :
               lc2[x] = IF x = a /\ rchild[x] # s THEN q ELSE IF x = q /\ q # l THEN l ELSE lchild[x]
         /\ \A x \in Places \cup Roots :
               rc2[x] = IF x = a /\ rchild[x] = s THEN q ELSE IF x = q THEN t
                        ELSE IF x = b /\ q # l THEN m ELSE rchild[x]
    <2> DEFINE Spliced(lc0, rc0, par0) ==
                 /\ par0[s] = a
                 /\ IF rc0[a] = s THEN rc2 = [rc0 EXCEPT ![a] = q] /\ lc2 = lc0
                                  ELSE lc2 = [lc0 EXCEPT ![a] = q] /\ rc2 = rc0
                 /\ par2 = [par0 EXCEPT ![q] = a, ![s] = NIL]
    <2>1. CASE q = l
      <3> DEFINE rc0 == [rchild EXCEPT ![q] = t]
                 par0 == [parent EXCEPT ![t] = q]
      <3>1. /\ rc0 \in [0 .. N + Characters -> 0 .. N]
            /\ \A x \in 0 .. N + Characters : rc0[x] = IF x = q THEN t ELSE rchild[x]
            /\ par0 \in [0 .. N -> 0 .. N + Characters]
            /\ \A x \in 0 .. N : par0[x] = IF x = t THEN q ELSE parent[x]
        BY <1>5, <1>7
      <3>2. par0[s] = a
        BY <1>6, <1>7, <3>1 DEF a
      <3>3. Spliced(lchild, rc0, par0)
        BY <1>8, <2>1, <3>2 DEF Unlink, lc2, rc2, par2
      <3> HIDE DEF rc0, par0
      <3>4. rc0[a] = rchild[a]
        BY <1>6, <1>7, <3>1
      <3>5. /\ par2 \in [0 .. N -> 0 .. N + Characters]
            /\ \A x \in Places : par2[x] = IF x = s THEN NIL ELSE IF x = q THEN a
                                           ELSE IF x = t THEN q ELSE parent[x]
        BY <1>6, <1>7, <3>1, <3>3, IndicesAre
      <3>6. /\ lc2 \in [0 .. N -> 0 .. N]
            /\ \A x \in Places : lc2[x] = IF x = a /\ rchild[x] # s THEN q ELSE lchild[x]
        <4>1. rchild[a] # s => a \in 0 .. N
          BY <1>3, <1>2, <1>4, <1>7, AroundIs DEF a
        <4> QED  BY <1>5, <1>7, <3>3, <3>4, <4>1, IndicesAre
      <3>7. /\ rc2 \in [0 .. N + Characters -> 0 .. N]
            /\ \A x \in Places \cup Roots :
                  rc2[x] = IF x = a /\ rchild[x] = s THEN q ELSE IF x = q THEN t ELSE rchild[x]
        <4>1. CASE rchild[a] = s
          <5>1. rc2 = [rc0 EXCEPT ![a] = q]
            BY <3>3, <3>4, <4>1
          <5>2. \A x \in 0 .. N + Characters : rc2[x] = IF x = a THEN q ELSE rc0[x]
            BY <3>1, <5>1
          <5> QED  BY <1>7, <3>1, <4>1, <5>1, <5>2, IndicesAre
        <4>2. CASE rchild[a] # s
          <5>1. rc2 = rc0
            BY <3>3, <3>4, <4>2
          <5> QED  BY <3>1, <4>2, <5>1, IndicesAre
        <4> QED  BY <4>1, <4>2
      <3> QED  BY <2>1, <3>5, <3>6, <3>7
    <2>2. CASE q # l
      <3> DEFINE lc0 == [lchild EXCEPT ![q] = l]
                 rc0 == [rchild EXCEPT ![b] = m, ![q] = t]
                 par0 == [parent EXCEPT ![m] = b, ![l] = q, ![t] = q]
      <3>1. /\ lc0 \in [0 .. N -> 0 .. N]
            /\ \A x \in 0 .. N : lc0[x] = IF x = q THEN l ELSE lchild[x]
            /\ rc0 \in [0 .. N + Characters -> 0 .. N]
            /\ \A x \in 0 .. N + Characters : rc0[x] = IF x = q THEN t ELSE IF x = b THEN m ELSE rchild[x]
            /\ par0 \in [0 .. N -> 0 .. N + Characters]
            /\ \A x \in 0 .. N : par0[x] = IF x \in {l, t} THEN q ELSE IF x = m THEN b ELSE parent[x]
        BY <1>5, <1>6, <1>7
      <3>2. par0[s] = a
        BY <1>6, <1>7, <3>1 DEF a
      <3>3. Spliced(lc0, rc0, par0)
        BY <1>8, <2>2, <3>2 DEF Unlink, lc2, rc2, par2
      <3> HIDE DEF lc0, rc0, par0
      <3>4. (rc0[a] = s) = (rchild[a] = s)
        <4>1. CASE a = b
          BY <1>2, <1>6, <1>7, <2>2, <3>1, <4>1
        <4>2. CASE a # b
          BY <1>6, <1>7, <3>1, <4>2
        <4> QED  BY <4>1, <4>2
      <3>5. /\ par2 \in [0 .. N -> 0 .. N + Characters]
            /\ \A x \in Places : par2[x] = IF x = s THEN NIL ELSE IF x = q THEN a
                                           ELSE IF x \in {l, t} THEN q ELSE IF x = m THEN b ELSE parent[x]
        BY <1>6, <1>7, <3>1, <3>3, IndicesAre
      <3>6. /\ lc2 \in [0 .. N -> 0 .. N]
            /\ \A x \in Places : lc2[x] = IF x = a /\ rchild[x] # s THEN q ELSE IF x = q THEN l ELSE lchild[x]
        <4>1. rchild[a] # s => a \in 0 .. N
          BY <1>3, <1>2, <1>4, <1>7, AroundIs DEF a
        <4>2. CASE rchild[a] = s
          <5>1. lc2 = lc0
            BY <3>3, <3>4, <4>2
          <5> QED  BY <3>1, <4>2, <5>1, IndicesAre
        <4>3. CASE rchild[a] # s
          <5>1. lc2 = [lc0 EXCEPT ![a] = q]
            BY <3>3, <3>4, <4>3
          <5>2. \A x \in 0 .. N : lc2[x] = IF x = a THEN q ELSE lc0[x]
            BY <3>1, <5>1
          <5> QED  BY <1>7, <3>1, <4>1, <4>3, <5>1, <5>2, IndicesAre
        <4> QED  BY <4>2, <4>3
      <3>7. /\ rc2 \in [0 .. N + Characters -> 0 .. N]
            /\ \A x \in Places \cup Roots :
                  rc2[x] = IF x = a /\ rchild[x] = s THEN q ELSE IF x = q THEN t
                           ELSE IF x = b THEN m ELSE rchild[x]
        <4>1. CASE rchild[a] = s
          <5>1. rc2 = [rc0 EXCEPT ![a] = q]
            BY <3>3, <3>4, <4>1
          <5>2. \A x \in 0 .. N + Characters : rc2[x] = IF x = a THEN q ELSE rc0[x]
            BY <3>1, <5>1
          <5> QED  BY <1>7, <3>1, <4>1, <5>1, <5>2, IndicesAre
        <4>2. CASE rchild[a] # s
          <5>1. rc2 = rc0
            BY <3>3, <3>4, <4>2
          <5> QED  BY <3>1, <4>2, <5>1, IndicesAre
        <4> QED  BY <4>1, <4>2
      <3> QED  BY <2>2, <3>5, <3>6, <3>7
    <2> QED  BY <2>1, <2>2
  \* The trees between the two.
  <1> DEFINE lc1 == [x \in 0 .. N |-> IF x = b /\ rchild[x] # q THEN m ELSE lchild[x]]
             rc1 == [x \in 0 .. N + Characters |-> IF x = b /\ rchild[x] = q THEN m ELSE rchild[x]]
             par1 == [x \in 0 .. N |-> IF x = q THEN NIL ELSE IF x = m THEN b ELSE parent[x]]
  <1>11. /\ \A x \in Places : lc1[x] = IF x = b /\ rchild[x] # q THEN m ELSE lchild[x]
         /\ \A x \in Places \cup Roots : rc1[x] = IF x = b /\ rchild[x] = q THEN m ELSE rchild[x]
         /\ \A x \in Places : par1[x] = IF x = q THEN NIL ELSE IF x = m THEN b ELSE parent[x]
    BY IndicesAre
  <1>12. Trees(lc1, rc1, par1) /\ Trees(lc2, rc2, par2)
    BY <1>5, <1>7, <1>10, IndicesAre DEF Trees
  <1> HIDE DEF lc1, rc1, par1
  <1>13. Nodes(par1) = Nodes(parent) \ {q} /\ Sound(lc1, rc1, par1, text_buf, depth)
    <2>1. /\ \A x \in Places : par1[x] = IF x = q THEN NIL ELSE IF x = m THEN parent[q] ELSE parent[x]
          /\ \A x \in Places \ {q} : lc1[x] = IF x = parent[q] /\ rchild[x] # q THEN m ELSE lchild[x]
          /\ \A x \in (Places \ {q}) \cup Roots :
               rc1[x] = IF x = parent[q] /\ rchild[x] = q THEN m ELSE rchild[x]
      BY <1>11 DEF b
    <2>2. m = lchild[q] /\ rchild[q] = NIL
      BY <1>1 DEF m
    <2> QED  BY <1>2, <1>3, <1>4, <1>12, <2>1, <2>2, UnlinkKeeps
  <1>14. /\ s \in Nodes(par1) /\ q \notin Nodes(par1)
         /\ par1[s] = a /\ rc1[s] = t /\ lc1[s] = IF q = l THEN m ELSE l
    BY <1>2, <1>4, <1>6, <1>9, <1>11, <1>13 DEF a, l, t
  <1>15. /\ \A x \in Places :
               par2[x] = IF x = s THEN NIL ELSE IF x = q THEN par1[s]
                         ELSE IF x \in {lc1[s], rc1[s]} THEN q ELSE par1[x]
         /\ \A x \in Places \ {s} :
               lc2[x] = IF x = q THEN lc1[s] ELSE IF x = par1[s] /\ rc1[x] # s THEN q ELSE lc1[x]
         /\ \A x \in (Places \ {s}) \cup Roots :
               rc2[x] = IF x = q THEN rc1[s] ELSE IF x = par1[s] /\ rc1[x] = s THEN q ELSE rc1[x]
    <2>1. /\ q # l => rchild[b] = q /\ b # s
          /\ q = l => b = s /\ rchild[b] # q
          /\ s \notin Roots /\ q \notin Roots /\ NIL \notin Places
      BY <1>2, <1>6, <1>9, SizesAre DEF t
    <2>2. \A x \in Places \cup Roots : (rc1[x] = s) = (rchild[x] = s)
      BY <1>6, <1>11
    <2>3. \A x \in Places : par2[x] = IF x = s THEN NIL ELSE IF x = q THEN par1[s]
                                      ELSE IF x \in {lc1[s], rc1[s]} THEN q ELSE par1[x]
      <3>1. m \in Places => parent[m] = q
        BY <1>6, <2>1
      <3>2. CASE q = l
        BY <1>6, <1>10, <1>11, <1>14, <3>1, <3>2
      <3>3. CASE q # l
        BY <1>6, <1>10, <1>11, <1>14, <3>3
      <3> QED  BY <3>2, <3>3
    <2>4. \A x \in Places \ {s} :
             lc2[x] = IF x = q THEN lc1[s] ELSE IF x = par1[s] /\ rc1[x] # s THEN q ELSE lc1[x]
      <3>1. lchild[q] = m
        BY DEF m
      <3>2. CASE q = l
        BY <1>6, <1>10, <1>11, <1>14, <2>1, <2>2, <3>1, <3>2
      <3>3. CASE q # l
        BY <1>6, <1>10, <1>11, <1>14, <2>1, <2>2, <3>3
      <3> QED  BY <3>2, <3>3
    <2>5. \A x \in (Places \ {s}) \cup Roots :
             rc2[x] = IF x = q THEN rc1[s] ELSE IF x = par1[s] /\ rc1[x] = s THEN q ELSE rc1[x]
      <3>1. CASE q = l
        BY <1>6, <1>10, <1>11, <1>14, <2>1, <2>2, <3>1
      <3>2. CASE q # l
        BY <1>6, <1>10, <1>11, <1>14, <2>1, <2>2, <3>2
      <3> QED  BY <3>1, <3>2
    <2> QED  BY <2>3, <2>4, <2>5
  <1>16. /\ Nodes(par2) = (Nodes(par1) \ {s}) \cup {q}
         /\ \E deep : Sound(lc2, rc2, par2, text_buf, deep)
    BY <1>2, <1>6, <1>12, <1>13, <1>14, <1>15, ReplaceKeeps
  <1>17. InTree' = InTree \ {s} /\ \E deep : Sound(lchild', rchild', parent', text_buf, deep)
    BY <1>2, <1>4, <1>6, <1>13, <1>16 DEF lc2, rc2, par2
  <1> QED  BY <1>1, <1>17, DeleteEnds

-----------------------------------------------------------------------------
(* The window moves on                                                     *)

LEMMA WrapIs ==
    \A x \in Places : /\ (x + 1) % N = IF x = N - 1 THEN 0 ELSE x + 1
                      /\ \A k \in 0 .. N - 1 : (x - k) % N = IF k <= x THEN x - k ELSE x - k + N
  <1>1. \A n \in Nat, x \in Int : n > 0 /\ 0 <= x /\ x < n => x % n = x
    OBVIOUS
  <1>2. \A n \in Nat, x \in Int : n > 0 /\ -n < x /\ x < 0 => x % n = x + n
    OBVIOUS
  <1>3. \A n \in Nat : n > 0 => n % n = 0
    OBVIOUS
  <1> SUFFICES ASSUME NEW x \in Places
               PROVE  /\ (x + 1) % N = IF x = N - 1 THEN 0 ELSE x + 1
                      /\ \A k \in 0 .. N - 1 : (x - k) % N = IF k <= x THEN x - k ELSE x - k + N
    OBVIOUS
  <1>4. N \in Nat /\ N > 0 /\ x \in 0 .. N - 1
    BY SizesAre DEF Places
  <1>5. (x + 1) % N = IF x = N - 1 THEN 0 ELSE x + 1
    BY <1>1, <1>3, <1>4
  <1>6. ASSUME NEW k \in 0 .. N - 1
        PROVE  (x - k) % N = IF k <= x THEN x - k ELSE x - k + N
    <2>1. CASE k <= x
      BY <1>1, <1>4, <2>1
    <2>2. CASE k > x
      <3>1. x - k \in Int /\ -N < x - k /\ x - k < 0
        BY <1>4, <2>2
      <3> QED  BY <1>2, <1>4, <2>2, <3>1
    <2> QED  BY <1>4, <2>1, <2>2
  <1> QED  BY <1>5, <1>6

LEMMA MoveOnIs ==
    ASSUME LzssInv, MoveOn, s \notin InTree
    PROVE  /\ s' \in Places /\ r' \in Places /\ (Back(s) = N - F)'
           /\ r' \notin InTree
           /\ \A x \in InTree : Back(x)' <= N - F
  <1>1. /\ s \in Places /\ r \in Places /\ Back(s) = N - F
        /\ InTree \subseteq Places /\ \A x \in InTree : Back(x) <= N - F
    BY InTreeIs DEF LzssInv, RingInv
  <1>2. /\ s' = (IF s = N - 1 THEN 0 ELSE s + 1) /\ r' = (IF r = N - 1 THEN 0 ELSE r + 1)
        /\ N \in Nat /\ F \in Nat /\ 1 < F /\ 2 * F < N
    BY <1>1, WrapIs, SizesAre DEF MoveOn
  <1> DEFINE r2 == r'
             s2 == s'
             Back2(x) == IF x <= r2 THEN r2 - x ELSE r2 - x + N
  <1>3. \A x : Back(x)' = Back2(x)
    BY DEF Back
  <1>4. (Back(s) = N - F)' <=> Back2(s2) = N - F
    BY DEF Back
  <1> HIDE DEF r2, s2
  <1>5. s2 = (IF s = N - 1 THEN 0 ELSE s + 1) /\ r2 = (IF r = N - 1 THEN 0 ELSE r + 1)
    BY <1>2 DEF r2, s2
  <1>6. s2 \in Places /\ r2 \in Places
    BY <1>1, <1>2, <1>5 DEF Places
  <1>7. Back2(s2) = N - F
    BY <1>1, <1>2, <1>5 DEF Places, Back
  <1>8. Back(r2) = N - 1
    BY <1>1, <1>2, <1>5 DEF Places, Back
  <1>9. r2 \notin InTree
    BY <1>1, <1>2, <1>8
  <1>10. ASSUME NEW x \in InTree
         PROVE  Back2(x) <= N - F
    <2>1. x \in Places /\ x # s /\ Back(x) <= N - F
      BY <1>1
    <2>2. Back(x) # N - F
      BY <1>1, <2>1, BackIs
    <2> QED  BY <1>1, <1>2, <1>5, <2>1, <2>2 DEF Places, Back
  <1> QED  BY <1>3, <1>4, <1>6, <1>7, <1>9, <1>10 DEF r2, s2

\* The window has moved, and insert_node is called for the string at the new r.
LEMMA ShiftInserts ==
    ASSUME LzssInv, pc = "shift", MoveOn, Insert(r', text_buf'[r']),
           text_buf' \in [0 .. N + F - 2 -> Byte],
           \A x \in InTree : text_buf'[x] = text_buf[x],
           text' = text, src' \in 0 .. Len(text), caller' = caller
    PROVE  LzssInv'
  <1>1. s \notin InTree /\ caller = "slide"
    BY DEF LzssInv, CallInv, RingInv
  <1>2. /\ s' \in Places /\ r' \in Places /\ (Back(s) = N - F)'
        /\ r' \notin InTree
        /\ \A x \in InTree : Back(x)' <= N - F
    BY <1>1, MoveOnIs
  <1>3. CallInv' /\ TreeInv' /\ InTree' = InTree
    BY <1>2, InsertBegins
  <1>4. pc' = "descend" /\ node' = r' /\ known' = known \cup {r'}
    BY DEF Insert
  <1>5. RingInv'
    <2>1. known' \subseteq Places /\ InTree' \subseteq known'
      BY <1>2, <1>3, <1>4 DEF LzssInv, RingInv
    <2>2. text' \in Seq(Byte) /\ src' \in 0 .. Len(text')
      BY DEF LzssInv, RingInv
    <2>3. \A x \in InTree' : Back(x)' <= N - F
      BY <1>2, <1>3
    <2>4. (Back(s) = N - F)'
      BY <1>2
    <2> QED  BY <1>1, <1>2, <1>4, <2>1, <2>2, <2>3, <2>4 DEF RingInv, PC
  <1>6. StartInv'
    BY <1>1, <1>4 DEF StartInv, Inserting
  <1> QED  BY <1>3, <1>5, <1>6 DEF LzssInv

LEMMA ShiftReadStep ==
    ASSUME LzssInv, ShiftRead
    PROVE  LzssInv'
  <1>1. /\ pc = "shift" /\ src < Len(text) /\ src' = src + 1
        /\ text_buf' = PutByte(text[src + 1]) /\ MoveOn /\ Insert(r', text_buf'[r'])
        /\ text' = text /\ caller' = caller
    BY DEF ShiftRead
  <1>2. /\ text \in Seq(Byte) /\ src \in 0 .. Len(text) /\ s \notin InTree /\ s \in Places
        /\ text_buf \in [0 .. N + F - 2 -> Byte] /\ InTree \subseteq Places
    BY <1>1, InTreeIs DEF LzssInv, RingInv, CallInv
  <1>3. src' \in 0 .. Len(text) /\ text[src + 1] \in Byte
    BY <1>1, <1>2
  <1>4. /\ text_buf' \in [0 .. N + F - 2 -> Byte]
        /\ \A x \in InTree : text_buf'[x] = text_buf[x]
    <2> DEFINE c == text[src + 1]
               buf2 == text_buf'
    <2>1. buf2 = [j \in 0 .. N + F - 2 |-> IF j = s \/ (s < F - 1 /\ j = s + N) THEN c ELSE text_buf[j]]
      BY <1>1, <1>2 DEF PutByte
    <2>2. c \in Byte
      BY <1>3
    <2> HIDE DEF c, buf2
    <2>3. buf2 \in [0 .. N + F - 2 -> Byte]
      BY <1>2, <2>1, <2>2
    <2>4. \A x \in InTree : x \in 0 .. N + F - 2 /\ x # s /\ x # s + N
      BY <1>2, SizesAre DEF Places
    <2>5. \A x \in InTree : buf2[x] = text_buf[x]
      BY <2>1, <2>4
    <2> QED  BY <2>3, <2>5 DEF buf2
  <1> QED  BY <1>1, <1>3, <1>4, ShiftInserts

LEMMA ShiftEndStep ==
    ASSUME LzssInv, ShiftEnd
    PROVE  LzssInv'
  <1>1. /\ pc = "shift" /\ MoveOn
        /\ IF len' > 0 THEN Insert(r', text_buf[r'])
           ELSE pc' = "slide" /\ UNCHANGED <<lchild, rchild, parent, known>>
        /\ UNCHANGED <<text, src, text_buf, caller>>
    BY DEF ShiftEnd, inputVars, treeVars
  <1>2. /\ text \in Seq(Byte) /\ src \in 0 .. Len(text) /\ s \notin InTree /\ caller = "slide"
        /\ text_buf \in [0 .. N + F - 2 -> Byte]
    BY <1>1 DEF LzssInv, RingInv, CallInv
  <1>3. CASE len' > 0
    BY <1>1, <1>2, <1>3, ShiftInserts
  <1>4. CASE ~(len' > 0)
    <2>1. /\ s' \in Places /\ r' \in Places /\ (Back(s) = N - F)'
          /\ \A x \in InTree : Back(x)' <= N - F
      BY <1>1, <1>2, MoveOnIs
    <2>2. pc' = "slide" /\ InTree' = InTree /\ UNCHANGED <<lchild, rchild, parent, known>>
      BY <1>1, <1>4 DEF InTree
    <2>3. (Back(s) = N - F)' /\ \A x \in InTree' : Back(x)' <= N - F
      BY <2>1, <2>2
    <2>4. RingInv'
      BY <1>1, <1>2, <2>1, <2>2, <2>3 DEF LzssInv, RingInv, PC
    <2>5. StartInv' /\ CallInv'
      BY <1>1, <1>2, <2>2 DEF StartInv, CallInv, Inserting
    <2>6. TreeInv'
      BY <1>1, <2>2 DEF LzssInv, TreeInv
    <2> QED  BY <2>4, <2>5, <2>6 DEF LzssInv
  <1> QED  BY <1>3, <1>4

LEMMA NextKeeps == LzssInv /\ [Next]_vars => LzssInv'
  <1> SUFFICES ASSUME LzssInv, [Next]_vars PROVE LzssInv'
    OBVIOUS
  <1>1. CASE ReadFirst
    BY <1>1, ReadFirstKeeps
  <1>2. CASE Warm
    BY <1>2, WarmKeeps
  <1>3. CASE Attach
    BY <1>3, AttachStep
  <1>4. CASE Descend
    BY <1>4, DescendStep
  <1>5. CASE Replace
    BY <1>5, ReplaceStep
  <1>6. CASE Emit \/ WriteGroup \/ Slid \/ Flush \/ DeleteAbsent
    BY <1>6, QuietSteps
  <1>7. CASE DeleteSimple
    BY <1>7, DeleteSimpleStep
  <1>8. CASE DeleteSearch
    BY <1>8, DeleteSearchStep
  <1>9. CASE DeleteDouble
    BY <1>9, DeleteDoubleStep
  <1>10. CASE ShiftRead
    BY <1>10, ShiftReadStep
  <1>11. CASE ShiftEnd
    BY <1>11, ShiftEndStep
  <1>12. CASE UNCHANGED vars
    BY <1>12, StutterKeeps
  <1> QED  BY <1>1, <1>2, <1>3, <1>4, <1>5, <1>6, <1>7, <1>8, <1>9, <1>10, <1>11, <1>12
           DEF Next, Step, Returns

LEMMA InvIsSound == LzssInv => TreesAreSound
  <1> SUFFICES ASSUME LzssInv PROVE TreesAreSound
    OBVIOUS
  <1>1. PICK depth : Sound(lchild, rchild, parent, text_buf, depth)
    BY DEF LzssInv, TreeInv
  <1>2. /\ InTree = Nodes(parent) /\ InTree \subseteq Places /\ InTree \subseteq known
        /\ r \in Places /\ \A x \in InTree : Back(x) <= N - F
    BY InTreeIs DEF LzssInv, RingInv
  <1>3. InTree \subseteq Window \cup {r}
    <2> SUFFICES ASSUME NEW x \in InTree, x # r PROVE x \in Window
      OBVIOUS
    <2>1. Back(x) \in 1 .. N - F /\ Back(x) \in 0 .. N - 1
      BY <1>2, BackIs, SizesAre
    <2>2. (r - Back(x)) % N = IF Back(x) <= r THEN r - Back(x) ELSE r - Back(x) + N
      BY <1>2, <2>1, WrapIs
    <2>3. (r - Back(x)) % N = x
      BY <1>2, <2>1, <2>2, SizesAre DEF Places, Back
    <2> QED  BY <1>2, <2>1, <2>3 DEF Window
  <1>4. \A x \in InTree :
          /\ IF parent[x] \in Roots THEN rchild[parent[x]] = x /\ parent[x] = Root(text_buf[x])
             ELSE parent[x] \in InTree /\ (lchild[parent[x]] = x) # (rchild[parent[x]] = x)
          /\ lchild[x] # NIL => parent[lchild[x]] = x
          /\ rchild[x] # NIL => parent[rchild[x]] = x
    BY <1>1, <1>2 DEF Sound, Linked, Alike
  <1>5. \A a \in Roots : rchild[a] # NIL => parent[rchild[a]] = a
    BY <1>1 DEF Sound, Linked
  <1> QED  BY <1>3, <1>4, <1>5 DEF TreesAreSound

\* insert_node and delete_node keep the 256 trees sound, whatever the text and
\* the sizes: between two of their calls each node of the window is a child of
\* its parent on one side, the parent of its children, and in the tree of its
\* own character, and no string that has left the window is a node.
THEOREM TreesStaySound == Spec => []TreesAreSound
  <1>1. Init => LzssInv
    BY InitIs
  <1>2. LzssInv /\ [Next]_vars => LzssInv'
    BY NextKeeps
  <1>3. LzssInv => TreesAreSound
    BY InvIsSound
  <1> QED  BY <1>1, <1>2, <1>3, PTL DEF Spec
-----------------------------------------------------------------------------
(* joker: the files of split kexts                                         *)

KextractSpec == KextractInit /\ [][KextractNext]_kextractVars

\* The segment is in the file, and its copy has where.
SegmentIsAt(file, from, seg, copy, off) ==
    /\ copy.sections = [g \in DOMAIN seg.sections |->
            IF seg.sections[g].offset = 0 THEN seg.sections[g]
            ELSE [seg.sections[g] EXCEPT !.offset = @ - (seg.fileoff - off)]]
    /\ off + seg.filesize <= Len(file)
    /\ \A n \in 1 .. seg.filesize : file[off + n] = from + n - 1

\* Behind the first segment nothing is written over by the header.
SegmentStands(file, g) ==
    \E off \in Nat :
        /\ SegmentIsAt(file, Source(kext.segments[g]), kext.segments[g], kextCopy[g], off)
        /\ g = 1 => off = 0
        /\ g # 1 => KextPage <= off

Origin == Int

KextractInv ==
    /\ batch \in Batches /\ current \in DOMAIN batch
    /\ writer \in {"segments", "whole", "stubs", "done", "failed", "died"}
    /\ writer \in {"segments", "stubs"} /\ kext.split =>
         \A g \in 1 .. lc - 1 : SegmentStands(out, g)
    /\ writer = "segments" =>
         /\ kext.split /\ out \in Seq(Origin)
         /\ DOMAIN kextCopy = DOMAIN kext.segments /\ lc \in 1 .. Len(kext.segments) + 1
         /\ \A g \in lc .. Len(kext.segments) : kextCopy[g] = kext.segments[g]
         /\ IF lc = 1 THEN Len(out) = 0 ELSE KextPage <= Len(out)
    /\ writer = "whole" => ~kext.split
    /\ writer = "stubs" /\ kext.split => lc = Len(kext.segments) + 1

LEMMA KextIs ==
    ASSUME batch \in Batches, current \in DOMAIN batch
    PROVE  /\ kext \in Kext /\ kext.base \in Nat
           /\ kext.segments \in Seq(Segment) /\ Len(kext.segments) \in Nat
           /\ DOMAIN kext.segments = 1 .. Len(kext.segments)
           /\ kext.stubs \in Seq(Stub) /\ Len(kext.stubs) \in Nat
           /\ DOMAIN kext.stubs = 1 .. Len(kext.stubs)
           /\ kext.split => WellFormed(kext)
           /\ Len(batch) \in Nat /\ DOMAIN batch = 1 .. Len(batch)
  <1>1. batch \in Seq(Kext) /\ \A k \in DOMAIN batch : batch[k].split => WellFormed(batch[k])
    BY KextractAssumption DEF KextractAssumption
  <1>2. kext \in Kext /\ (kext.split => WellFormed(kext))
    BY <1>1 DEF kext
  <1>3. kext.base \in Nat /\ kext.segments \in Seq(Segment) /\ kext.stubs \in Seq(Stub)
    BY <1>2 DEF Kext
  <1> QED  BY <1>1, <1>2, <1>3

LEMMA SegmentIs ==
    ASSUME batch \in Batches, current \in DOMAIN batch, NEW g \in DOMAIN kext.segments
    PROVE  /\ kext.segments[g] \in Segment /\ kext.segments[g].fileoff \in Nat
           /\ kext.segments[g].filesize \in Nat /\ kext.segments[g].vmaddr \in Nat
           /\ Source(kext.segments[g]) \in Int
           /\ kext.segments[g].sections \in Seq(Section)
           /\ \A j \in DOMAIN kext.segments[g].sections :
                /\ kext.segments[g].sections[j].offset \in Nat
                /\ kext.segments[g].sections[j].size \in Nat
  <1> DEFINE seg == kext.segments[g]
  <1>1. seg \in Segment /\ kext.base \in Nat
    BY KextIs
  <1> HIDE DEF seg
  <1>2. seg.fileoff \in Nat /\ seg.filesize \in Nat /\ seg.vmaddr \in Nat /\ seg.sections \in Seq(Section)
    BY <1>1 DEF Segment
  <1>3. \A j \in DOMAIN seg.sections : seg.sections[j] \in Section
    BY <1>2
  <1>4. \A j \in DOMAIN seg.sections : seg.sections[j].offset \in Nat /\ seg.sections[j].size \in Nat
    BY <1>3 DEF Section
  <1>5. Source(seg) \in Int
    BY <1>1, <1>2, KextractAssumption DEF KextractAssumption, Source
  <1> QED  BY <1>1, <1>2, <1>4, <1>5 DEF seg

LEMMA Padded ==
    ASSUME NEW n \in Nat
    PROVE  Padding(n) \in Nat /\ (n # 0 => KextPage <= n + Padding(n))
  <1>1. KextPage \in Nat \ {0}
    BY KextractAssumption DEF KextractAssumption
  <1>2. n % KextPage \in 0 .. KextPage - 1
    BY <1>1
  <1>3. n % KextPage <= n
    BY <1>1
  <1> QED  BY <1>1, <1>2, <1>3 DEF Padding

\* What is copied, and what it is added to.
LEMMA CopiedAre ==
    ASSUME NEW from \in Int, NEW n \in Nat
    PROVE  /\ Copied(from, n) \in Seq(Origin) /\ Len(Copied(from, n)) = n
           /\ \A j \in 1 .. n : Copied(from, n)[j] = from + j - 1
  BY DEF Copied, Origin

LEMMA Joined ==
    ASSUME NEW a \in Seq(Origin), NEW b \in Seq(Origin)
    PROVE  /\ a \o b \in Seq(Origin) /\ Len(a \o b) = Len(a) + Len(b)
           /\ Len(a) \in Nat /\ Len(b) \in Nat
           /\ \A j \in 1 .. Len(a) : (a \o b)[j] = a[j]
           /\ \A j \in 1 .. Len(b) : (a \o b)[Len(a) + j] = b[j]
  OBVIOUS

\* The copy of a segment has its sections where the segment is now.
LEMMA PatchedSections ==
    ASSUME NEW seg \in Segment, NEW off
    PROVE  Patched(seg, off).sections = [g \in DOMAIN seg.sections |->
               IF seg.sections[g].offset = 0 THEN seg.sections[g]
               ELSE [seg.sections[g] EXCEPT !.offset = @ - (seg.fileoff - off)]]
  <1> DEFINE X == [g \in DOMAIN seg.sections |->
               IF seg.sections[g].offset = 0 THEN seg.sections[g]
               ELSE [seg.sections[g] EXCEPT !.offset = @ - (seg.fileoff - off)]]
  <1>1. Patched(seg, off) = [seg EXCEPT !.fileoff = off, !.sections = X]
    BY Zenon DEF Patched
  <1> HIDE DEF X
  <1>2. [seg EXCEPT !.fileoff = off, !.sections = X].sections = X
    BY DEF Segment
  <1> QED  BY <1>1, <1>2 DEF X

\* One more segment is in the file, padded.
LEMMA SegmentKeeps ==
    ASSUME KextractInv, WriteSegment
    PROVE  KextractInv'
  <1> DEFINE seg == kext.segments[lc]
             from == Source(seg)
             off == Len(out)
             written == out \o Copied(from, seg.filesize)
             zeros == [j \in 1 .. Padding(Len(written)) |-> Zero]
  <1>0. /\ writer = "segments" /\ writer' = "segments" /\ batch' = batch /\ current' = current
        /\ lc \in 1 .. Len(kext.segments) /\ lc' = lc + 1 /\ kext.split
        /\ kext' = kext /\ KextPage \in Nat \ {0}
    BY KextIs, KextractAssumption DEF KextractInv, WriteSegment, kext, KextractAssumption
  <1>1. /\ lc \in DOMAIN kext.segments /\ DOMAIN kextCopy = DOMAIN kext.segments
        /\ DOMAIN kext.segments = 1 .. Len(kext.segments) /\ Len(kext.segments) \in Nat
        /\ kextCopy[lc] = seg /\ out \in Seq(Origin) /\ off \in Nat
        /\ IF lc = 1 THEN off = 0 ELSE KextPage <= off
        /\ \A g \in lc .. Len(kext.segments) : kextCopy[g] = kext.segments[g]
    BY <1>0, KextIs DEF KextractInv
  <1>2. seg \in Segment /\ seg.filesize \in Nat /\ from \in Int
    BY <1>1, SegmentIs DEF KextractInv
  <1>3. /\ out' = written \o zeros
        /\ kextCopy' = [kextCopy EXCEPT ![lc] = Patched(seg, off)]
    BY <1>1 DEF WriteSegment
  <1>4. \A e : Source(e)' = Source(e)
    BY <1>0 DEF Source
  <1> HIDE DEF from, seg
  <1>5. /\ written \in Seq(Origin) /\ Len(written) = off + seg.filesize
        /\ \A h \in 1 .. off : written[h] = out[h]
        /\ \A n \in 1 .. seg.filesize : written[off + n] = from + n - 1
    <2>1. /\ Copied(from, seg.filesize) \in Seq(Origin) /\ Len(Copied(from, seg.filesize)) = seg.filesize
          /\ \A j \in 1 .. seg.filesize : Copied(from, seg.filesize)[j] = from + j - 1
      BY <1>2, CopiedAre
    <2> DEFINE copied == Copied(from, seg.filesize)
    <2> HIDE DEF copied
    <2>2. /\ out \o copied \in Seq(Origin) /\ Len(out \o copied) = Len(out) + Len(copied)
          /\ \A j \in 1 .. Len(out) : (out \o copied)[j] = out[j]
          /\ \A j \in 1 .. Len(copied) : (out \o copied)[Len(out) + j] = copied[j]
      BY <1>1, <2>1, Joined DEF copied
    <2>3. written = out \o copied
      BY DEF copied
    <2> QED  BY <2>1, <2>2, <2>3 DEF copied
  <1> HIDE DEF written
  <1>6. Len(written) \in Nat /\ Padding(Len(written)) \in Nat
        /\ (Len(written) # 0 => KextPage <= Len(written) + Padding(Len(written)))
    <2>1. Len(written) \in Nat
      BY <1>1, <1>2, <1>5
    <2> QED  BY <2>1, Padded
  <1>7. zeros \in Seq(Origin) /\ Len(zeros) = Padding(Len(written))
    BY <1>6 DEF Origin, Zero
  <1> HIDE DEF zeros
  <1>8. /\ out' \in Seq(Origin) /\ Len(out') = Len(written) + Padding(Len(written))
        /\ \A h \in 1 .. Len(written) : out'[h] = written[h]
    BY <1>3, <1>5, <1>7, Joined
  <1>9. /\ off + seg.filesize <= Len(out')
        /\ \A h \in 1 .. off : out'[h] = out[h]
        /\ \A n \in 1 .. seg.filesize : out'[off + n] = from + n - 1
    <2>1. off + seg.filesize <= Len(out')
      BY <1>1, <1>2, <1>5, <1>6, <1>8
    <2>2. \A h \in 1 .. off : h \in 1 .. Len(written)
      BY <1>1, <1>2, <1>5
    <2>3. \A n \in 1 .. seg.filesize : off + n \in 1 .. Len(written)
      BY <1>1, <1>2, <1>5
    <2> QED  BY <1>5, <1>8, <2>1, <2>2, <2>3
  \* The first segment is not empty, and padding fills the first page.
  <1>10. KextPage <= Len(out')
    <2>1. CASE lc = 1
      <3>1. seg.filesize > 0
        BY <1>0, <1>1, <2>1, KextIs DEF KextractInv, WellFormed, seg
      <3>2. Len(written) # 0
        BY <1>1, <1>2, <1>5, <3>1
      <3> QED  BY <1>6, <1>8, <3>2
    <2>2. CASE lc # 1
      BY <1>0, <1>1, <1>2, <1>9, <1>8, <2>2, LenProperties
    <2> QED  BY <2>1, <2>2
  <1>11. /\ DOMAIN kextCopy' = DOMAIN kext.segments
         /\ kextCopy'[lc] = Patched(seg, off)
         /\ \A g \in DOMAIN kext.segments : g # lc => kextCopy'[g] = kextCopy[g]
    BY <1>1, <1>3
  <1>12. ASSUME NEW g \in 1 .. lc PROVE SegmentStands(out, g)'
    <2>1. CASE g = lc
      <3>1. SegmentIsAt(out', from, seg, kextCopy'[g], off)
        BY <1>2, <1>9, <1>11, <2>1, PatchedSections DEF SegmentIsAt
      <3>2. (g = 1 => off = 0) /\ (g # 1 => KextPage <= off)
        BY <1>1, <2>1
      <3>3. kext'.segments[g] = seg /\ Source(kext.segments[g])' = from
        BY <1>0, <1>4, <2>1 DEF seg, from
      <3> HIDE DEF off
      <3> QED  BY <1>1, <3>1, <3>2, <3>3 DEF SegmentStands
    <2>2. CASE g # lc
      <3>1. g \in 1 .. lc - 1 /\ g \in DOMAIN kext.segments
        BY <1>0, <1>1, <2>2
      <3>2. SegmentStands(out, g)
        BY <1>0, <3>1 DEF KextractInv
      <3>3. PICK there \in Nat :
                /\ SegmentIsAt(out, Source(kext.segments[g]), kext.segments[g], kextCopy[g], there)
                /\ g = 1 => there = 0
                /\ g # 1 => KextPage <= there
        BY <3>2 DEF SegmentStands
      <3>4. kext.segments[g].filesize \in Nat
        BY <3>1, SegmentIs DEF KextractInv
      <3>5. there + kext.segments[g].filesize <= off
        BY <3>3 DEF SegmentIsAt
      <3>6. there + kext.segments[g].filesize <= Len(out')
        <4>1. off \in Nat /\ seg.filesize \in Nat /\ off + seg.filesize <= Len(out') /\ Len(out') \in Nat
          BY <1>1, <1>2, <1>8, <1>9, LenProperties
        <4> QED  BY <3>3, <3>4, <3>5, <4>1
      <3>7. ASSUME NEW n \in 1 .. kext.segments[g].filesize
            PROVE  out'[there + n] = Source(kext.segments[g]) + n - 1
        <4>1. there + n \in 1 .. off
          BY <1>1, <3>4, <3>5
        <4> QED  BY <1>9, <3>3, <4>1 DEF SegmentIsAt
      <3>8. SegmentIsAt(out', Source(kext.segments[g]), kext.segments[g], kextCopy'[g], there)
        BY <1>11, <2>2, <3>1, <3>3, <3>6, <3>7 DEF SegmentIsAt
      <3> QED  BY <1>0, <1>4, <3>3, <3>8 DEF SegmentStands
    <2> QED  BY <2>1, <2>2
  <1>13. \A g \in lc + 1 .. Len(kext.segments) : kextCopy'[g] = kext.segments[g]
    BY <1>0, <1>1, <1>11
  <1>14. batch' \in Batches /\ current' \in DOMAIN batch'
    BY <1>0 DEF KextractInv
  <1>15. lc' \in 1 .. Len(kext.segments) + 1 /\ lc' # 1 /\ 1 .. lc' - 1 = 1 .. lc
    <2> DEFINE z == Len(kext.segments)
    <2>1. lc \in 1 .. z /\ z \in Nat /\ lc' = lc + 1
      BY <1>0, <1>1
    <2> HIDE DEF z
    <2>2. lc' \in 1 .. z + 1 /\ lc' # 1 /\ lc' - 1 = lc
      BY <2>1
    <2> QED  BY <2>2 DEF z
  <1> HIDE DEF off
  <1> QED  BY <1>0, <1>8, <1>10, <1>11, <1>12, <1>13, <1>14, <1>15 DEF KextractInv

\* The header is written over the first page, where it was already.
LEMMA HeaderKeeps ==
    ASSUME KextractInv, WriteHeader
    PROVE  KextractInv'
  <1> DEFINE header == Copied(kext.base, KextPage)
             rest == SubSeq(out, KextPage + 1, Len(out))
  <1>0. /\ writer = "segments" /\ writer' = "stubs" /\ batch' = batch /\ current' = current
        /\ lc \in 1 .. Len(kext.segments) + 1 /\ ~(lc <= Len(kext.segments)) /\ lc' = lc /\ kext.split
        /\ kext' = kext /\ kextCopy' = kextCopy /\ KextPage \in Nat \ {0}
        /\ Len(kext.segments) \in Nat /\ DOMAIN kext.segments = 1 .. Len(kext.segments)
        /\ out \in Seq(Origin) /\ (lc # 1 => KextPage <= Len(out))
        /\ batch \in Batches /\ current \in DOMAIN batch /\ kext.base \in Nat
    BY KextIs, KextractAssumption DEF KextractInv, WriteHeader, kext, KextractAssumption
  <1>1. out' = header \o rest /\ lc = Len(kext.segments) + 1
    BY <1>0 DEF WriteHeader
  <1>2. \A e : Source(e)' = Source(e)
    BY <1>0 DEF Source
  <1>3. ASSUME NEW g \in 1 .. lc - 1 PROVE SegmentStands(out, g)'
    <2>1. g \in DOMAIN kext.segments /\ lc # 1 /\ Len(out) \in Nat /\ KextPage <= Len(out)
      BY <1>0, <1>1, LenProperties
    <2>2. /\ kext.segments[g].filesize \in Nat /\ kext.segments[g].fileoff \in Nat
          /\ Source(kext.segments[g]) \in Int
      BY <1>0, <2>1, SegmentIs
    <2>3. PICK there \in Nat :
              /\ SegmentIsAt(out, Source(kext.segments[g]), kext.segments[g], kextCopy[g], there)
              /\ g = 1 => there = 0
              /\ g # 1 => KextPage <= there
      BY <1>0 DEF KextractInv, SegmentStands
    <2>4. /\ Len(out') = Len(out)
          /\ \A h \in 1 .. KextPage : out'[h] = kext.base + h - 1
          /\ \A h \in KextPage + 1 .. Len(out) : out'[h] = out[h]
      <3>1. /\ header \in Seq(Origin) /\ Len(header) = KextPage
            /\ \A j \in 1 .. KextPage : header[j] = kext.base + j - 1
        <4>1. kext.base \in Int /\ KextPage \in Nat
          BY <1>0
        <4> QED  BY <4>1, CopiedAre
      <3>2. /\ rest \in Seq(Origin) /\ Len(rest) = Len(out) - KextPage
            /\ \A j \in 1 .. Len(out) - KextPage : rest[j] = out[KextPage + j]
        <4>1. \A k \in KextPage + 1 .. Len(out) : out[k] \in Origin
          BY <1>0, <2>1, ElementOfSeq
        <4>2. KextPage + 1 \in Int /\ Len(out) \in Int /\ KextPage + 1 <= Len(out) + 1
              /\ Len(out) - (KextPage + 1) + 1 = Len(out) - KextPage
          BY <1>0, <2>1
        <4>3. CASE KextPage = Len(out)
          <5>1. rest = <<>>
            BY <1>0, <2>1, <4>3
          <5> HIDE DEF rest
          <5> QED  BY <2>1, <4>3, <5>1
        <4>4. CASE KextPage # Len(out)
          <5>1. KextPage + 1 <= Len(out)
            BY <1>0, <2>1, <4>4
          <5>2. /\ rest \in Seq(Origin) /\ Len(rest) = Len(out) - (KextPage + 1) + 1
                /\ \A j \in 1 .. Len(out) - (KextPage + 1) + 1 : rest[j] = out[KextPage + 1 + j - 1]
            BY <4>1, <4>2, <5>1, SubSeqProperties
          <5>3. \A j \in 1 .. Len(out) - KextPage : KextPage + 1 + j - 1 = KextPage + j
            BY <1>0
          <5> HIDE DEF rest
          <5> QED  BY <4>2, <5>2, <5>3
        <4> QED  BY <4>3, <4>4
      <3> HIDE DEF header, rest
      <3>3. /\ Len(header \o rest) = Len(header) + Len(rest)
            /\ \A j \in 1 .. Len(header) : (header \o rest)[j] = header[j]
            /\ \A j \in 1 .. Len(rest) : (header \o rest)[Len(header) + j] = rest[j]
        BY <3>1, <3>2, Joined
      <3>4. ASSUME NEW h \in KextPage + 1 .. Len(out) PROVE (header \o rest)[h] = out[h]
        <4>1. h - KextPage \in 1 .. Len(rest) /\ Len(header) + (h - KextPage) = h /\ KextPage + (h - KextPage) = h
          BY <1>0, <2>1, <3>1, <3>2
        <4>2. (header \o rest)[Len(header) + (h - KextPage)] = rest[h - KextPage]
          BY <3>3, <4>1
        <4> QED  BY <3>2, <4>1, <4>2
      <3>5. Len(header) + Len(rest) = Len(out)
        BY <1>0, <2>1, <3>1, <3>2
      <3> QED  BY <1>1, <3>1, <3>3, <3>4, <3>5
    <2>5. there + kext.segments[g].filesize <= Len(out)
      BY <2>3 DEF SegmentIsAt
    <2>6. ASSUME NEW n \in 1 .. kext.segments[g].filesize
          PROVE  out'[there + n] = Source(kext.segments[g]) + n - 1
      <3>1. out[there + n] = Source(kext.segments[g]) + n - 1 /\ there + n \in 1 .. Len(out)
        BY <2>1, <2>2, <2>3, <2>5 DEF SegmentIsAt
      <3>2. CASE there + n <= KextPage
        <4>1. g = 1 /\ there = 0
          BY <1>0, <2>3, <3>2
        <4>2. /\ kext.segments[1].fileoff = 0
              /\ kext.segments[1].vmaddr \notin PrelinkAddr .. PrelinkAddr + PrelinkSize
          BY <1>0, <2>1, <4>1, KextIs DEF WellFormed
        <4>3. kext.segments[1].vmaddr \in Nat
          BY <1>0, <2>1, <4>1, SegmentIs
        <4>4. Source(kext.segments[1]) = kext.base
          BY <1>0, <4>2, <4>3, KextractAssumption DEF KextractAssumption, Source, InPrelinkData
        <4>5. n \in 1 .. KextPage /\ there + n = n
          BY <1>0, <3>2, <4>1
        <4> QED  BY <2>4, <4>1, <4>4, <4>5
      <3>3. CASE ~(there + n <= KextPage)
        <4>1. there + n \in KextPage + 1 .. Len(out)
          BY <1>0, <3>1, <3>3
        <4> QED  BY <2>4, <3>1, <4>1
      <3> QED  BY <3>2, <3>3
    <2>7. SegmentIsAt(out', Source(kext.segments[g]), kext.segments[g], kextCopy[g], there)
      BY <2>3, <2>4, <2>5, <2>6 DEF SegmentIsAt
    <2> QED  BY <1>0, <1>2, <2>3, <2>7 DEF SegmentStands
  <1> QED  BY <1>0, <1>1, <1>3 DEF KextractInv

\* The next kext begins with nothing written.
LEMMA GoOnKeeps ==
    ASSUME KextractInv, GoOn
    PROVE  KextractInv'
  <1>0. /\ batch' = batch /\ batch \in Batches /\ current \in DOMAIN batch
        /\ Len(batch) \in Nat /\ DOMAIN batch = 1 .. Len(batch)
    BY KextIs DEF KextractInv, GoOn
  <1>1. CASE current = Len(batch)
    <2>1. writer' = "done" /\ current' = current
      BY <1>1 DEF GoOn
    <2> QED  BY <1>0, <2>1 DEF KextractInv
  <1>2. CASE current # Len(batch)
    <2>1. /\ current' = current + 1 /\ kext' = batch[current'] /\ current' \in DOMAIN batch'
          /\ writer' = Begin(kext') /\ lc' = 1 /\ kextCopy' = kext'.segments /\ out' = <<>>
      BY <1>0, <1>2 DEF GoOn, kext
    <2>2. kext'.segments \in Seq(Segment)
      <3>1. batch \in Seq(Kext)
        BY <1>0, KextractAssumption DEF KextractAssumption
      <3>2. kext' \in Kext
        BY <1>0, <2>1, <3>1
      <3> QED  BY <3>2 DEF Kext
    <2>3. (writer' = "segments" => kext'.split) /\ (writer' = "whole" => ~kext'.split)
      BY <2>1 DEF Begin
    <2>4. writer' \in {"segments", "whole"}
      BY <2>1 DEF Begin
    <2>5. lc' \in 1 .. Len(kext'.segments) + 1 /\ 1 .. lc' - 1 = {}
      BY <2>1, <2>2, LenProperties
    <2>6. out' \in Seq(Origin) /\ Len(out') = 0
      BY <2>1
    <2> QED  BY <1>0, <2>1, <2>3, <2>4, <2>5, <2>6 DEF KextractInv
  <1> QED  BY <1>1, <1>2

LEMMA KextractStep == KextractInv /\ [KextractNext]_kextractVars => KextractInv'
  <1> SUFFICES ASSUME KextractInv, [KextractNext]_kextractVars PROVE KextractInv'
    OBVIOUS
  <1>1. CASE GoOn
    BY <1>1, GoOnKeeps
  <1>2. CASE WriteSegment
    BY <1>2, SegmentKeeps
  <1>3. CASE WriteHeader
    BY <1>3, HeaderKeeps
  <1>4. ASSUME UNCHANGED <<batch, current>>, writer' \in {"failed", "died"} PROVE KextractInv'
    BY <1>4 DEF KextractInv
  <1>5. CASE WriteWhole
    <2>1. /\ batch' = batch /\ current' = current /\ writer = "whole" /\ writer' = "stubs"
          /\ kext' = kext
      BY <1>5 DEF WriteWhole, kext
    <2> QED  BY <2>1 DEF KextractInv
  <1>6. ASSUME UNCHANGED <<writer, batch, current, fileVars>> PROVE KextractInv'
    <2>1. /\ writer' = writer /\ batch' = batch /\ current' = current /\ lc' = lc
          /\ kextCopy' = kextCopy /\ out' = out /\ kext' = kext
      BY <1>6 DEF fileVars, kext
    <2>2. \A e : Source(e)' = Source(e)
      BY <2>1 DEF Source
    <2>3. \A g : SegmentStands(out, g)' <=> SegmentStands(out, g)
      BY <2>1, <2>2 DEF SegmentStands
    <2> QED  BY <2>1, <2>3 DEF KextractInv
  <1>7. CASE NotCreated
    BY <1>1, <1>7 DEF NotCreated
  <1>8. CASE WriteFails
    BY <1>4, <1>8 DEF WriteFails
  <1>9. CASE NameStub
    BY <1>6, <1>9 DEF NameStub
  <1>10. CASE NoCompanion
    BY <1>1, <1>10 DEF NoCompanion
  <1>11. CASE NoPointer
    BY <1>4, <1>11 DEF NoPointer
  <1>12. CASE NextKext
    BY <1>1, <1>12 DEF NextKext
  <1>13. CASE UNCHANGED kextractVars
    BY <1>6, <1>13 DEF kextractVars, fileVars
  <1> QED  BY <1>2, <1>3, <1>5, <1>7, <1>8, <1>9, <1>10, <1>11, <1>12, <1>13 DEF KextractNext

LEMMA KextractStart == KextractInit => KextractInv
  <1> SUFFICES ASSUME KextractInit PROVE KextractInv
    OBVIOUS
  <1>1. batch \in Batches /\ batch \in Seq(Kext) /\ batch # <<>> /\ current = 1
    BY KextractAssumption DEF KextractAssumption, KextractInit
  <1>2. current \in DOMAIN batch
    BY <1>1
  <1>3. /\ writer = Begin(kext) /\ lc = 1 /\ kextCopy = kext.segments /\ out = <<>>
    BY DEF KextractInit
  <1>4. Len(kext.segments) \in Nat /\ lc \in 1 .. Len(kext.segments) + 1 /\ 1 .. lc - 1 = {}
    BY <1>1, <1>2, <1>3, KextIs
  <1>5. out \in Seq(Origin) /\ Len(out) = 0
    BY <1>3
  <1>6. /\ writer \in {"segments", "whole"} /\ (writer = "segments" => kext.split)
        /\ (writer = "whole" => ~kext.split)
    BY <1>3 DEF Begin
  <1> QED  BY <1>1, <1>2, <1>3, <1>4, <1>5, <1>6 DEF KextractInv

\* Lines 2346-2459: in the file of a split kext each section is where the patched
\* header says, with what the cache has for it, although the segments are moved and
\* the header is written over the first page.
THEOREM KextsAreWhole == KextractSpec => []SectionsAreFound
  <1>1. KextractInv => SectionsAreFound
    <2> SUFFICES ASSUME KextractInv, writer = "stubs", kext.split,
                        NEW g \in DOMAIN kext.segments,
                        kext.segments[g].vmaddr # PrelinkAddr + PrelinkSize,
                        NEW j \in DOMAIN kext.segments[g].sections,
                        kext.segments[g].sections[j].offset # 0,
                        NEW n \in 1 .. kext.segments[g].sections[j].size
                 PROVE  out[kextCopy[g].sections[j].offset + n]
                        = InCache(kext.segments[g])
                          + (kext.segments[g].sections[j].offset - kext.segments[g].fileoff) + n - 1
      BY DEF SectionsAreFound
    <2> DEFINE seg == kext.segments[g]
               section == seg.sections[j]
               m == section.offset - seg.fileoff + n
    <2>1. /\ seg.fileoff \in Nat /\ seg.filesize \in Nat /\ seg.vmaddr \in Nat
          /\ Source(seg) \in Int /\ seg.sections \in Seq(Section)
          /\ section.offset \in Nat /\ section.size \in Nat
      BY SegmentIs DEF KextractInv
    <2>2. section \in Section
      BY <2>1
    <2>3. g \in 1 .. lc - 1
      BY KextIs DEF KextractInv
    <2>4. PICK off \in Nat : SegmentIsAt(out, Source(seg), seg, kextCopy[g], off)
      BY <2>3 DEF KextractInv, SegmentStands
    <2>5. seg.fileoff <= section.offset /\ section.offset + section.size <= seg.fileoff + seg.filesize
      BY KextIs DEF KextractInv, WellFormed
    <2>6. InCache(seg) = Source(seg)
      <3>1. seg.vmaddr # PrelinkAddr + PrelinkSize
        OBVIOUS
      <3> HIDE DEF seg
      <3>2. PrelinkAddr + PrelinkSize \in Nat /\ seg.vmaddr \in Nat
        BY <2>1, KextractAssumption DEF KextractAssumption
      <3>3. seg.vmaddr < PrelinkAddr + PrelinkSize <=> seg.vmaddr <= PrelinkAddr + PrelinkSize
        BY <3>1, <3>2
      <3> QED  BY <3>3 DEF InCache, Source, InPrelinkData
    <2>7. kextCopy[g].sections[j].offset = section.offset - (seg.fileoff - off)
      <3>1. kextCopy[g].sections[j] = [section EXCEPT !.offset = section.offset - (seg.fileoff - off)]
        BY <2>4 DEF SegmentIsAt
      <3> HIDE DEF section
      <3> QED  BY <2>2, <3>1 DEF Section
    <2> DEFINE new == kextCopy[g].sections[j].offset
    <2>8. n \in 1 .. section.size /\ new = section.offset - (seg.fileoff - off)
      BY <2>7
    <2> HIDE DEF seg, section, new
    <2>9. m \in 1 .. seg.filesize /\ new + n = off + m
      <3>1. \A o, f, z, size, l \in Nat : \A k \in 1 .. z :
              f <= o /\ o + z <= f + size =>
                  o - f + k \in 1 .. size /\ o - (f - l) + k = l + (o - f + k)
        OBVIOUS
      <3>2. /\ section.offset \in Nat /\ seg.fileoff \in Nat /\ section.size \in Nat
            /\ seg.filesize \in Nat /\ off \in Nat
        BY <2>1
      <3> QED  BY <2>5, <2>8, <3>1, <3>2
    <2>10. out[off + m] = Source(seg) + m - 1
      BY <2>4, <2>9 DEF SegmentIsAt
    <2>11. Source(seg) + m - 1 = Source(seg) + (section.offset - seg.fileoff) + n - 1
      BY <2>1
    <2> HIDE DEF m
    <2> QED  BY <2>6, <2>9, <2>10, <2>11 DEF seg, section, new
  <1> QED  BY <1>1, KextractStart, KextractStep, PTL DEF KextractSpec

\* The lines of the companion file are the stubs named so far.
StubsNamed ==
    /\ companion \in Seq(Nat)
    /\ \A g, j \in DOMAIN companion : g < j => companion[g] < companion[j]
    /\ {companion[g] : g \in DOMAIN companion} = {g \in GoodStubs(kext) : g < stub}

CompanionInv ==
    /\ batch \in Batches /\ current \in DOMAIN batch
    /\ writer \in {"segments", "whole", "stubs"} /\ NamedBefore =>
         /\ stdin \in {"open", "taken"}
         /\ stub \in 1 .. Len(kext.stubs) + 1
         /\ writer # "stubs" => stub = 1
         /\ fd = IF companion = <<>> THEN "none" ELSE "other"
         /\ StubsNamed

\* A stub that can be named is; one that cannot is passed over.
LEMMA NameKeeps ==
    ASSUME CompanionInv, NameStub
    PROVE  CompanionInv'
  <1>0. /\ writer = "stubs" /\ writer' = "stubs" /\ batch' = batch /\ current' = current
        /\ kext' = kext /\ stub' = stub + 1 /\ stub <= Len(kext.stubs)
        /\ batch \in Batches /\ current \in DOMAIN batch
        /\ Len(kext.stubs) \in Nat /\ DOMAIN kext.stubs = 1 .. Len(kext.stubs)
    BY KextIs DEF NameStub, CompanionInv, kext
  <1>1. NamedBefore' <=> NamedBefore
    BY <1>0 DEF NamedBefore
  <1> SUFFICES ASSUME NamedBefore PROVE CompanionInv'
    BY <1>0, <1>1 DEF CompanionInv
  <1>2. /\ stdin \in {"open", "taken"} /\ stub \in 1 .. Len(kext.stubs) + 1
        /\ fd = IF companion = <<>> THEN "none" ELSE "other"
        /\ companion \in Seq(Nat)
        /\ \A g, j \in DOMAIN companion : g < j => companion[g] < companion[j]
        /\ {companion[g] : g \in DOMAIN companion} = {g \in GoodStubs(kext) : g < stub}
    BY <1>0 DEF CompanionInv, StubsNamed
  <1>3. Opened \in {"open", "taken"}
    BY <1>2 DEF Opened
  <1>4. GoodStubs(kext) \subseteq Nat /\ stub \in Nat /\ stub \in DOMAIN kext.stubs
    BY <1>0, <1>2 DEF GoodStubs
  <1>5. CASE Good(kext.stubs[stub])
    <2>1. WriteStub
      BY <1>5 DEF NameStub
    <2>2. fd' = "other" /\ stdin' = Opened /\ companion' = Append(companion, stub)
      BY <1>2, <1>3, <2>1 DEF WriteStub, Opening
    <2> DEFINE more == Append(companion, stub)
               n == Len(companion)
    <2>3. /\ more \in Seq(Nat) /\ n \in Nat /\ DOMAIN companion = 1 .. n /\ DOMAIN more = 1 .. n + 1
          /\ more[n + 1] = stub /\ \A g \in 1 .. n : more[g] = companion[g] /\ companion[g] \in Nat
          /\ more # <<>>
      <3>1. companion \in Seq(Nat) /\ stub \in Nat
        BY <1>2, <1>4
      <3>2. /\ more \in Seq(Nat) /\ more # <<>> /\ Len(more) = n + 1
            /\ \A g \in 1 .. n : more[g] = companion[g]
            /\ more[n + 1] = stub
        BY <3>1, AppendProperties
      <3>3. n \in Nat /\ DOMAIN companion = 1 .. n /\ \A g \in 1 .. n : companion[g] \in Nat
        BY <3>1, LenProperties, ElementOfSeq
      <3> HIDE DEF more, n
      <3>4. DOMAIN more = 1 .. n + 1
        BY <3>2, LenProperties
      <3> QED  BY <3>2, <3>3, <3>4
    <2> HIDE DEF more, n
    <2>4. \A g \in 1 .. n : companion[g] < stub
      BY <1>2, <2>3
    <2>5. ASSUME NEW g \in DOMAIN more, NEW j \in DOMAIN more, g < j PROVE more[g] < more[j]
      <3>1. g \in 1 .. n
        BY <2>3, <2>5
      <3>2. CASE j = n + 1
        BY <2>3, <2>4, <3>1, <3>2
      <3>3. CASE j # n + 1
        <4>1. j \in 1 .. n
          BY <2>3, <3>3
        <4> QED  BY <1>2, <2>3, <2>5, <3>1, <4>1
      <3> QED  BY <3>2, <3>3
    <2>6. {more[g] : g \in DOMAIN more} = {companion[g] : g \in DOMAIN companion} \cup {stub}
      <3>1. \A g \in DOMAIN more : g \in 1 .. n \/ g = n + 1
        BY <2>3
      <3>2. n + 1 \in DOMAIN more /\ \A g \in 1 .. n : g \in DOMAIN more
        BY <2>3
      <3> QED  BY <2>3, <3>1, <3>2
    <2>7. stub \in GoodStubs(kext)
      BY <1>4, <1>5 DEF GoodStubs
    <2>8. {g \in GoodStubs(kext) : g < stub + 1} = {g \in GoodStubs(kext) : g < stub} \cup {stub}
      BY <1>4, <2>7
    <2>9. StubsNamed'
      <3>1. companion' = more /\ more \in Seq(Nat) /\ stub' = stub + 1 /\ kext' = kext
        BY <1>0, <2>2, <2>3 DEF more
      <3>2. {more[g] : g \in DOMAIN more} = {g \in GoodStubs(kext) : g < stub + 1}
        BY <1>2, <2>6, <2>8
      <3>3. GoodStubs(kext)' = GoodStubs(kext)
        BY <3>1 DEF GoodStubs
      <3>4. {companion'[g] : g \in DOMAIN companion'} = {g \in GoodStubs(kext)' : g < stub'}
        BY <3>1, <3>2, <3>3
      <3> QED  BY <2>5, <3>1, <3>4 DEF StubsNamed
    <2> QED  BY <1>0, <1>2, <1>3, <2>2, <2>3, <2>9 DEF CompanionInv, more
  <1>6. CASE ~Good(kext.stubs[stub])
    <2>1. stdin' = Opened /\ fd' = fd /\ companion' = companion
      BY <1>6 DEF NameStub
    <2>2. stub \notin GoodStubs(kext)
      BY <1>6 DEF GoodStubs
    <2>3. {g \in GoodStubs(kext) : g < stub + 1} = {g \in GoodStubs(kext) : g < stub}
      BY <1>4, <2>2
    <2>4. StubsNamed'
      BY <1>0, <1>2, <2>1, <2>3 DEF StubsNamed
    <2> QED  BY <1>0, <1>2, <1>3, <2>1, <2>4 DEF CompanionInv
  <1> QED  BY <1>5, <1>6

\* The next kext has an empty companion file.
LEMMA AnewKeeps ==
    ASSUME CompanionInv, GoOn,
           NamedBefore /\ (kext.stubs # <<>> => GoodStubs(kext) # {}) => stdin' \in {"open", "taken"}
    PROVE  CompanionInv'
  <1>0. /\ batch' = batch /\ batch \in Batches /\ current \in DOMAIN batch /\ fd' = "none"
        /\ Len(batch) \in Nat /\ DOMAIN batch = 1 .. Len(batch)
    BY KextIs DEF CompanionInv, GoOn
  <1>1. CASE current = Len(batch)
    <2>1. writer' = "done" /\ current' = current
      BY <1>1 DEF GoOn
    <2> QED  BY <1>0, <2>1 DEF CompanionInv
  <1>2. CASE current # Len(batch)
    <2>1. /\ current' = current + 1 /\ kext' = batch[current'] /\ current' \in DOMAIN batch'
          /\ writer' = Begin(kext') /\ stub' = 1 /\ companion' = <<>>
      BY <1>0, <1>2 DEF GoOn, kext
    <2>2. ASSUME NamedBefore' PROVE stdin' \in {"open", "taken"}
      <3>1. \A k \in 1 .. current : batch[k].stubs # <<>> => GoodStubs(batch[k]) # {}
        <4>1. 1 .. current' - 1 = 1 .. current
          BY <1>0, <2>1
        <4> QED  BY <1>0, <2>2, <4>1 DEF NamedBefore
      <3>2. current \in 1 .. current /\ \A k \in 1 .. current - 1 : k \in 1 .. current
        BY <1>0
      <3>3. NamedBefore /\ (kext.stubs # <<>> => GoodStubs(kext) # {})
        BY <3>1, <3>2 DEF NamedBefore, kext
      <3> QED  BY <3>3
    <2>3. kext'.stubs \in Seq(Stub)
      <3>1. batch \in Seq(Kext)
        BY <1>0, KextractAssumption DEF KextractAssumption
      <3>2. kext' \in Kext
        BY <1>0, <2>1, <3>1
      <3> QED  BY <3>2 DEF Kext
    <2>4. Len(kext'.stubs) \in Nat /\ DOMAIN kext'.stubs = 1 .. Len(kext'.stubs)
      BY <2>3
    <2>5. {g \in GoodStubs(kext') : g < 1} = {}
      BY <2>4 DEF GoodStubs
    <2>6. StubsNamed'
      BY <2>1, <2>5, EmptySeq DEF StubsNamed
    <2>7. writer' \in {"segments", "whole"} /\ stub' \in 1 .. Len(kext'.stubs) + 1
      BY <2>1, <2>4 DEF Begin
    <2> QED  BY <1>0, <2>1, <2>2, <2>6, <2>7 DEF CompanionInv
  <1> QED  BY <1>1, <1>2

LEMMA CompanionStep == CompanionInv /\ [KextractNext]_kextractVars => CompanionInv'
  <1> SUFFICES ASSUME CompanionInv, [KextractNext]_kextractVars PROVE CompanionInv'
    OBVIOUS
  <1>1. ASSUME UNCHANGED <<batch, current, stub, fd, companion, stdin>>,
               \/ writer' \in {"failed", "died"} \/ writer' = writer
               \/ writer \in {"segments", "whole"} /\ writer' = "stubs"
        PROVE  CompanionInv'
    <2>1. /\ batch' = batch /\ current' = current /\ stub' = stub /\ fd' = fd
          /\ companion' = companion /\ stdin' = stdin /\ kext' = kext
      BY <1>1 DEF kext
    <2>2. (NamedBefore' <=> NamedBefore) /\ (StubsNamed' <=> StubsNamed)
      BY <2>1 DEF NamedBefore, StubsNamed
    <2> QED  BY <1>1, <2>1, <2>2 DEF CompanionInv
  <1>2. CASE NotCreated
    <2>1. writer \in {"segments", "whole"} /\ stdin' = stdin /\ GoOn
      BY <1>2 DEF NotCreated
    <2> QED  BY <2>1, AnewKeeps DEF CompanionInv
  <1>3. CASE WriteSegment
    BY <1>1, <1>3 DEF WriteSegment, stubVars
  <1>4. CASE WriteFails
    BY <1>1, <1>4 DEF WriteFails, stubVars
  <1>5. CASE WriteHeader
    BY <1>1, <1>5 DEF WriteHeader, stubVars
  <1>6. CASE WriteWhole
    BY <1>1, <1>6 DEF WriteWhole, stubVars
  <1>7. CASE NameStub
    BY <1>7, NameKeeps
  <1>8. CASE NoCompanion
    <2>1. writer = "stubs" /\ stdin' = Opened /\ GoOn
      BY <1>8 DEF NoCompanion
    <2>2. NamedBefore => Opened \in {"open", "taken"}
      BY <2>1 DEF CompanionInv, Opened
    <2> QED  BY <2>1, <2>2, AnewKeeps
  <1>9. CASE NoPointer
    BY <1>1, <1>9 DEF NoPointer, stubVars
  \* A companion file that was opened is closed, and not standard input.
  <1>10. CASE NextKext
    <2>1. /\ writer = "stubs" /\ stub > Len(kext.stubs) /\ GoOn
          /\ stdin' = IF kext.stubs # <<>> /\ Opening THEN "free" ELSE Opened
      BY <1>10 DEF NextKext
    <2>2. ASSUME NamedBefore, kext.stubs # <<>> => GoodStubs(kext) # {}
          PROVE  stdin' \in {"open", "taken"}
      <3>1. stdin \in {"open", "taken"} /\ StubsNamed
            /\ stub \in 1 .. Len(kext.stubs) + 1
            /\ fd = IF companion = <<>> THEN "none" ELSE "other"
        BY <2>1, <2>2 DEF CompanionInv
      <3>2. Opened \in {"open", "taken"}
        BY <3>1 DEF Opened
      <3>3. ASSUME kext.stubs # <<>> PROVE ~Opening
        <4>1. PICK g \in GoodStubs(kext) : TRUE
          BY <2>2, <3>3
        <4>2. g < stub
          BY <2>1, <3>1, KextIs DEF CompanionInv, GoodStubs
        <4>3. companion # <<>>
          BY <3>1, <4>2 DEF StubsNamed
        <4> QED  BY <3>1, <4>3 DEF Opening
      <3> QED  BY <2>1, <3>2, <3>3
    <2> QED  BY <2>1, <2>2, AnewKeeps
  <1>11. CASE UNCHANGED kextractVars
    BY <1>1, <1>11 DEF kextractVars
  <1> QED  BY <1>2, <1>3, <1>4, <1>5, <1>6, <1>7, <1>8, <1>9, <1>10, <1>11 DEF KextractNext

\* Lines 2098-2268: the companion file of a kext has a line for each of its stubs that
\* can be named, in order, unless an earlier kext closed standard input.
THEOREM CompanionsAreExact == KextractSpec => []CompanionIsExact
  <1>1. KextractInit => CompanionInv
    <2> SUFFICES ASSUME KextractInit PROVE CompanionInv
      OBVIOUS
    <2>1. KextractInv /\ batch \in Batches /\ current \in DOMAIN batch
      BY KextractStart DEF KextractInv
    <2>2. /\ writer = Begin(kext) /\ stub = 1 /\ fd = "none" /\ companion = <<>> /\ stdin = "open"
      BY DEF KextractInit
    <2>3. Len(kext.stubs) \in Nat /\ DOMAIN kext.stubs = 1 .. Len(kext.stubs)
      BY <2>1, KextIs
    <2>4. {g \in GoodStubs(kext) : g < 1} = {}
      BY <2>3 DEF GoodStubs
    <2>5. StubsNamed
      BY <2>2, <2>4, EmptySeq DEF StubsNamed
    <2>6. writer \in {"segments", "whole"} /\ stub \in 1 .. Len(kext.stubs) + 1
      BY <2>2, <2>3 DEF Begin
    <2> QED  BY <2>1, <2>2, <2>5, <2>6 DEF CompanionInv
  <1>2. CompanionInv => CompanionIsExact
    <2> SUFFICES ASSUME CompanionInv, writer = "stubs", stub > Len(kext.stubs), NamedBefore
                 PROVE  /\ \A g, j \in DOMAIN companion : g < j => companion[g] < companion[j]
                        /\ {companion[g] : g \in DOMAIN companion} = GoodStubs(kext)
      BY DEF CompanionIsExact
    <2>1. StubsNamed /\ stub \in 1 .. Len(kext.stubs) + 1
      BY DEF CompanionInv
    <2>2. {g \in GoodStubs(kext) : g < stub} = GoodStubs(kext)
      BY <2>1, KextIs DEF CompanionInv, GoodStubs
    <2> QED  BY <2>1, <2>2 DEF StubsNamed
  <1> QED  BY <1>1, <1>2, CompanionStep, PTL DEF KextractSpec

-----------------------------------------------------------------------------
(* joker: the list of kexts                                                *)

KextsSpec == KextsInit /\ [][KextsNext]_kextVars

\* Pages: a multiple is followed by the next, with none between.
LEMMA NextPageIs ==
    ASSUME NEW P \in Nat \ {0}, NEW a \in Nat, a % P = 0
    PROVE  (a + P) % P = 0 /\ \A u \in a + 1 .. a + P - 1 : u % P # 0
  <1>1. \A n \in Nat : n = P * (n \div P) + (n % P) /\ n \div P \in Nat /\ n % P \in 0 .. P - 1
    OBVIOUS
  <1>2. \A n, e \in Nat : \A l \in 0 .. P - 1 : n = P * e + l => n % P = l
    OBVIOUS
  <1>3. \A e, l \in Nat : e < l => P * e + P <= P * l
    OBVIOUS
  <1>4. PICK e \in Nat : a = P * e
    <2>1. a \div P \in Nat /\ a = P * (a \div P)
      BY <1>1
    <2> QED  BY <2>1
  <1>5. (a + P) % P = 0
    <2>1. e + 1 \in Nat /\ a + P = P * (e + 1) + 0 /\ 0 \in 0 .. P - 1 /\ a + P \in Nat
      BY <1>4
    <2> QED  BY <1>2, <2>1
  <1>6. \A u \in a + 1 .. a + P - 1 : u % P # 0
    <2> SUFFICES ASSUME NEW u \in a + 1 .. a + P - 1, u % P = 0 PROVE FALSE
      OBVIOUS
    <2>1. u \in Nat /\ a < u /\ u < a + P
      OBVIOUS
    <2>2. PICK l \in Nat : u = P * l
      <3>1. u \div P \in Nat /\ u = P * (u \div P)
        BY <1>1, <2>1
      <3> QED  BY <3>1
    <2>3. e < l
      <3>1. l < e => P * l + P <= P * e
        BY <1>3
      <3>2. P * l \in Nat /\ P * e \in Nat /\ (l = e => P * l = P * e)
        OBVIOUS
      <3> QED  BY <1>4, <2>1, <2>2, <3>1, <3>2
    <2>4. P * e + P <= P * l
      BY <1>3, <2>3
    <2> QED  BY <1>4, <2>1, <2>2, <2>4
  <1> QED  BY <1>5, <1>6

\* First is the least of some numbers.
LEMMA FirstIs ==
    ASSUME NEW S, S \subseteq Nat, S # {}
    PROVE  First(S) \in S /\ First(S) \in Nat /\ \A y \in S : First(S) <= y
  <1>1. \E x \in S : \A y \in S : x <= y
    BY LeastElement
  <1> DEFINE P(x) == x \in S /\ \A y \in S : x <= y
  <1>2. \E x : P(x)
    BY <1>1
  <1>3. First(S) = CHOOSE x : P(x)
    BY DEF First
  <1>4. P(First(S))
    <2> HIDE DEF P
    <2> QED  BY <1>2, <1>3
  <1> QED  BY <1>4

\* ... and there is no other.
LEMMA FirstWhich ==
    ASSUME NEW S, S \subseteq Nat, NEW n \in S, \A y \in S : n <= y
    PROVE  First(S) = n
  <1>1. First(S) \in S /\ First(S) \in Nat /\ First(S) <= n
    BY FirstIs
  <1>2. n <= First(S) /\ n \in Nat
    BY <1>1
  <1> QED  BY <1>1, <1>2

\* A finite set of pairs has a greatest first element.
LEMMA GreatestFirst ==
    ASSUME NEW S, S \subseteq Nat \X Nat, IsFiniteSet(S), S # {}
    PROVE  \E x \in S : \A y \in S : y[1] <= x[1]
  <1>1. PICK n \in Nat : ExistsSurjection(1 .. n, S)
    BY FS_NatSurjection
  <1>2. PICK f \in Surjection(1 .. n, S) : TRUE
    BY <1>1 DEF ExistsSurjection
  <1>3. f \in [1 .. n -> S] /\ \A x \in S : \E g \in 1 .. n : f[g] = x
    BY <1>2 DEF Surjection
  <1>4. \A x \in S : x[1] \in Nat
    OBVIOUS
  <1> DEFINE v == [g \in 1 .. n |-> f[g][1]]
  <1>5. v \in [1 .. n -> Nat] /\ \A x \in S : \E g \in 1 .. n : v[g] = x[1]
    BY <1>3, <1>4
  <1> HIDE DEF v
  <1> DEFINE Bound(m) == \E b \in Nat : \A g \in 1 .. m : v[g] <= b
             Unbound == {m \in Nat : m <= n /\ ~Bound(m)}
  <1>6. Unbound = {}
    <2> SUFFICES ASSUME Unbound # {} PROVE FALSE
      OBVIOUS
    <2>1. PICK m \in Unbound : \A j \in Unbound : m <= j
      <3>1. Unbound \subseteq Nat
        OBVIOUS
      <3> HIDE DEF Unbound
      <3> QED  BY <3>1, LeastElement
    <2>2. m \in Nat /\ m <= n /\ ~Bound(m)
      OBVIOUS
    <2> HIDE DEF Bound
    <2>3. m # 0
      <3>1. \A g \in 1 .. 0 : v[g] <= 0
        OBVIOUS
      <3>2. Bound(0)
        BY <3>1 DEF Bound
      <3> QED  BY <2>2, <3>2
    <2>4. m - 1 \notin Unbound /\ m - 1 \in Nat /\ m - 1 <= n
      BY <2>1, <2>2, <2>3
    <2>5. PICK b \in Nat : \A g \in 1 .. m - 1 : v[g] <= b
      BY <2>4 DEF Bound
    <2>6. v[m] \in Nat
      BY <1>5, <2>2, <2>3
    <2>7. PICK c \in Nat : b <= c /\ v[m] <= c
      <3>1. b + v[m] \in Nat /\ b <= b + v[m] /\ v[m] <= b + v[m]
        BY <2>6
      <3> QED  BY <3>1
    <2>8. \A g \in 1 .. m : v[g] <= c
      <3> SUFFICES ASSUME NEW g \in 1 .. m PROVE v[g] <= c
        OBVIOUS
      <3>1. g \in 1 .. n /\ v[g] \in Nat
        BY <1>5, <2>2
      <3>2. g = m \/ g \in 1 .. m - 1
        BY <2>2
      <3> QED  BY <2>5, <2>7, <3>1, <3>2
    <2> QED  BY <2>2, <2>7, <2>8 DEF Bound
  <1>7. PICK b \in Nat : \A y \in S : y[1] <= b
    <2>0. n <= n
      OBVIOUS
    <2>1. n <= n /\ n \notin Unbound
      <3> HIDE DEF Unbound
      <3> QED  BY <1>6, <2>0
    <2>2. Bound(n)
      BY <2>1
    <2>3. PICK b \in Nat : \A g \in 1 .. n : v[g] <= b
      BY <2>2
    <2> QED  BY <1>5, <2>3
  <1> DEFINE Above == {c \in Nat : \A y \in S : y[1] <= c}
  <1>8. PICK c \in Above : \A j \in Above : c <= j
    <2>1. Above \subseteq Nat /\ Above # {}
      BY <1>7
    <2> HIDE DEF Above
    <2> QED  BY <2>1, LeastElement
  <1>9. PICK x \in S : x[1] = c
    <2> SUFFICES ASSUME \A x \in S : x[1] # c PROVE FALSE
      OBVIOUS
    <2>1. \A y \in S : y[1] <= c - 1 /\ y[1] \in Nat
      BY <1>4, <1>8
    <2>2. c # 0
      BY <1>4, <2>1
    <2>3. c - 1 \in Above
      BY <2>1, <2>2
    <2> QED  BY <1>8, <2>3
  <1> QED  BY <1>8, <1>9

\* The name found for a kext is its own, if it is set apart.
LEMMA IdentifyIs ==
    ASSUME cache \in Caches, NEW k \in {0} \cup DOMAIN cache.place
    PROVE  Identify(k) \in Nat /\ (k # 0 /\ Apart(k) => Identify(k) \in {0, k})
  <1> DEFINE places == {x[1] : x \in cache.strings}
             size == cache.data[k].size
             off == cache.data[k].off
             Found(from) == {e \in places : from <= e /\ e < from + size}
             start == Found(off)
             ends == {e \in places : First(start) <= e /\ Found(e + 1) = {}}
             named == (CHOOSE x \in cache.strings : x[1] = First(ends))
  <1>1. cache \in Cache /\ IsFiniteSet(cache.strings) /\ Len(cache.data) = Len(cache.place)
        /\ \A x, y \in cache.strings : x[1] = y[1] => x = y
    BY JokerAssumption DEF JokerAssumption
  <1>2. cache.strings \subseteq Nat \X Nat /\ cache.place \in Seq(Nat)
        /\ cache.data \in Seq([off : Nat, size : Nat])
    BY <1>1 DEF Cache
  <1>3. \A x \in cache.strings : x[1] \in Nat /\ x[2] \in Nat /\ x = <<x[1], x[2]>>
    BY <1>2
  <1>4. /\ places \subseteq Nat
        /\ \A x \in cache.strings : x[1] \in places
        /\ \A e \in places : \E x \in cache.strings : x[1] = e
    BY <1>3
  <1>5. Identify(k) = IF k = 0 \/ start = {} THEN 0 ELSE named[2]
    BY DEF Identify
  <1> SUFFICES ASSUME k # 0, start # {}
               PROVE  named[2] \in Nat /\ (Apart(k) => named[2] = k)
    BY <1>5
  <1> HIDE DEF places
  <1>6. k \in 1 .. Len(cache.data) /\ size \in Nat /\ off \in Nat
    <2>1. k \in 1 .. Len(cache.place)
      BY <1>2
    <2>2. cache.data[k] \in [off : Nat, size : Nat]
      BY <1>1, <1>2, <2>1, ElementOfSeq
    <2> QED  BY <1>1, <2>1, <2>2
  <1>7. First(start) \in places /\ First(start) \in Nat /\ off <= First(start) /\ First(start) < off + size
    <2>1. start \subseteq Nat /\ start \subseteq places
      BY <1>4
    <2>2. First(start) \in start /\ First(start) \in Nat
      <3> HIDE DEF start
      <3> QED  BY <2>1, FirstIs
    <2> QED  BY <2>2
  <1>8. ends \subseteq Nat /\ ends # {}
    <2>1. cache.strings # {}
      BY <1>4, <1>7
    <2>2. PICK x \in cache.strings : \A y \in cache.strings : y[1] <= x[1]
      BY <1>1, <1>2, <2>1, GreatestFirst
    <2>3. \A e \in places : e <= x[1]
      BY <1>4, <2>2
    <2>4. x[1] \in places /\ x[1] \in Nat /\ First(start) <= x[1]
      BY <1>3, <1>4, <1>7, <2>3
    <2>5. Found(x[1] + 1) = {}
      <3> SUFFICES ASSUME NEW e \in places, x[1] + 1 <= e PROVE FALSE
        OBVIOUS
      <3>1. e \in Nat /\ e <= x[1]
        BY <1>4, <2>3
      <3> QED  BY <2>4, <3>1
    <2>6. x[1] \in ends
      <3> HIDE DEF places, Found
      <3> QED  BY <2>4, <2>5
    <2> QED  BY <1>4, <2>6
  <1>9. /\ First(ends) \in Nat /\ First(ends) \in ends
        /\ \A e \in ends : First(ends) <= e
    <2> HIDE DEF ends
    <2> QED  BY <1>8, FirstIs
  <1> DEFINE tail == First(ends)
  <1>10. tail \in Nat /\ tail \in places /\ First(start) <= tail
    BY <1>9
  <1>11. named \in cache.strings /\ named[1] = tail
    <2>1. \E x \in cache.strings : x[1] = tail
      BY <1>4, <1>10
    <2> HIDE DEF tail
    <2> QED  BY <2>1 DEF tail
  <1>12. named[2] \in Nat
    BY <1>3, <1>11
  <1> HIDE DEF named
  <1>13. ASSUME Apart(k) PROVE named[2] = k
    <2> SUFFICES ASSUME named[2] # k PROVE FALSE
      OBVIOUS
    <2>1. \A x \in cache.strings :
            x[2] # k => /\ x[1] \notin off .. off + size - 1
                        /\ \A y \in cache.strings : y[2] = k /\ x[1] > y[1] => x[1] > y[1] + size
      BY <1>13 DEF Apart
    <2> DEFINE Own == {e \in places : First(start) <= e /\ e <= tail /\ \E y \in cache.strings : y[1] = e /\ y[2] = k}
               Left == {tail - e : e \in Own}
    <2>2. First(start) \in Own
      <3>1. PICK x \in cache.strings : x[1] = First(start)
        BY <1>4, <1>7
      <3>2. x[1] \in off .. off + size - 1
        BY <1>6, <1>7, <3>1
      <3>3. x[2] = k
        BY <2>1, <3>2
      <3>4. First(start) <= First(start)
        BY <1>7
      <3> HIDE DEF start, tail
      <3> QED  BY <1>7, <1>10, <3>1, <3>3, <3>4
    <2> HIDE DEF tail
    <2>3. Own \subseteq Nat /\ Left \subseteq Nat /\ Left # {}
      <3>1. \A e \in Own : e \in Nat /\ e <= tail
        BY <1>4
      <3>2. \A e \in Own : tail - e \in Nat
        BY <1>10, <3>1
      <3> HIDE DEF Own
      <3> QED  BY <2>2, <3>1, <3>2
    <2>4. PICK d \in Left : \A j \in Left : d <= j
      <3> HIDE DEF Left
      <3> QED  BY <2>3, LeastElement
    <2>5. PICK e \in Own : d = tail - e
      OBVIOUS
    <2>6. \A t \in Own : t <= e
      <3> SUFFICES ASSUME NEW t \in Own PROVE t <= e
        OBVIOUS
      <3>1. tail - t \in Left /\ t \in Nat /\ e \in Nat
        BY <2>3
      <3>2. tail - e <= tail - t
        BY <2>4, <2>5, <3>1
      <3> HIDE DEF Left, Own
      <3> QED  BY <1>10, <3>1, <3>2
    <2>7. e \in Nat /\ e \in places /\ First(start) <= e /\ e <= tail
      BY <2>3
    <2>8. PICK y \in cache.strings : y[1] = e /\ y[2] = k
      OBVIOUS
    <2>9. e # tail
      BY <1>1, <1>11, <2>8
    <2>10. Found(e + 1) # {}
      <3>1. e \notin ends
        <4> HIDE DEF ends
        <4>1. e \in ends => tail <= e
          BY <1>9 DEF tail
        <4> QED  BY <1>10, <2>7, <2>9, <4>1
      <3> HIDE DEF places, Found
      <3> QED  BY <2>7, <3>1
    <2>11. PICK n \in Found(e + 1) : \A m \in Found(e + 1) : n <= m
      <3>1. Found(e + 1) \subseteq Nat
        BY <1>4
      <3> HIDE DEF Found
      <3> QED  BY <2>10, <3>1, LeastElement
    <2>12. n \in Nat /\ n \in places /\ e < n /\ n <= e + size
      <3>1. n \in places /\ n \in Nat /\ e + 1 <= n /\ n < e + 1 + size
        BY <1>4
      <3> HIDE DEF size
      <3> QED  BY <1>6, <2>7, <3>1
    <2>13. n <= tail
      <3>1. tail <= e + size => tail \in Found(e + 1)
        <4>1. tail <= e + size => e + 1 <= tail /\ tail < e + 1 + size
          <5> HIDE DEF size
          <5> QED  BY <1>6, <1>10, <2>7, <2>9
        <4> QED  BY <1>10, <4>1
      <3> HIDE DEF Found
      <3> QED  BY <1>6, <1>10, <2>7, <2>11, <2>12, <3>1
    <2>14. PICK z \in cache.strings : z[1] = n
      BY <1>4, <2>12
    <2>15. z[2] = k
      <3>1. z[2] # k => n > e + size
        BY <2>1, <2>8, <2>12, <2>14
      <3> QED  BY <1>6, <2>7, <2>12, <3>1
    <2>16. n \in Own
      BY <1>7, <2>7, <2>12, <2>13, <2>14, <2>15
    <2> HIDE DEF Own
    <2> QED  BY <2>6, <2>7, <2>12, <2>16
  <1> QED  BY <1>12, <1>13

-----------------------------------------------------------------------------
(* Method 2                                                                *)

\* A line of method 2: from where a kext begins to where the next does.
TextRange == [from : Nat, to : Nat, id : Nat]
RangeIs(line) ==
    /\ Begins(line.from) /\ Begins(line.to)
    /\ \A u \in line.from + 1 .. line.to - 1 : ~Begins(u)
    /\ LET k == Owner(line.from) IN k # 0 /\ Apart(k) => line.id \in {0, k}
RangesInv ==
    /\ ranges \in Seq(TextRange) /\ (ranges # <<>> => request.listing)
    /\ \A n \in DOMAIN ranges :
         RangeIs(ranges[n]) /\ (n < Len(ranges) => ranges[n + 1].from = ranges[n].to)

\* A kext written by method 2.
PieceIs(piece) ==
    /\ Begins(piece[1]) /\ HeaderAt(piece[2]) # "other"
    /\ \A u \in piece[1] + Page .. piece[2] - 1 : ~Begins(u)
PiecesInv ==
    request.method = 2 =>
        kextracted \in Seq(Nat \X Nat) /\ \A n \in DOMAIN kextracted : PieceIs(kextracted[n])

\* Where method 2 is: behind the last place a kext begins at, up to which all are
\* listed; or before the first.
Between(u, v) == \A w \in u + 1 .. v - 1 : w < TextSize => ~Begins(w)
ListedTo(h) ==
    request.listing => \A u \in 0 .. h - 1 : Begins(u) => \E n \in DOMAIN ranges : ranges[n].from = u
Walked ==
    /\ prev = None => /\ ranges = <<>>
                      /\ \A u \in 0 .. at - 1 : u < TextSize /\ u % Page = 0 => HeaderAt(u) = "other"
    /\ prev # None => /\ prev \in 0 .. at - 1 /\ prev < TextSize /\ Begins(prev)
                      /\ Between(prev, at)
                      /\ ranges # <<>> => ranges[Len(ranges)].to = prev
                      /\ ListedTo(prev)

AllListed ==
    \A u, v \in 0 .. TextSize - 1 : u < v /\ Begins(u) /\ Begins(v) => \E n \in DOMAIN ranges : ranges[n].from = u

TextInv ==
    /\ cache \in Caches /\ request \in Requests
    /\ kexts \in Nat /\ prev \in Nat \cup {None}
    /\ finder = "info" => request.method = 1 /\ prev = None /\ ranges = <<>>
    /\ finder = "text" => at \in Nat /\ at % Page = 0 /\ Walked
    /\ RangesInv /\ PiecesInv
    /\ finder = "done" /\ request.listing /\ (request.method = 2 \/ kexts <= Enough) => AllListed
    /\ Fits => finder # "astray"

LEMMA CacheIs ==
    ASSUME cache \in Caches, request \in Requests
    PROVE  /\ cache.text \in Seq({"kext", "macho", "other"}) /\ TextSize \in Nat
           /\ \A u \in 0 .. TextSize - 1 : HeaderAt(u) \in {"kext", "macho", "other"}
           /\ cache.place \in Seq(Nat) /\ cache.info \in Seq(Token)
           /\ request.method \in {1, 2} /\ request.listing \in BOOLEAN
           /\ Page \in Nat \ {0} /\ Enough \in Nat
  <1>1. cache \in Cache /\ request \in Request /\ Page \in Nat \ {0} /\ Enough \in Nat
    BY JokerAssumption DEF JokerAssumption
  <1>2. cache.text \in Seq({"kext", "macho", "other"})
    BY <1>1 DEF Cache
  <1>3. TextSize \in Nat
    BY <1>2, LenProperties DEF TextSize
  <1>4. \A u \in 0 .. TextSize - 1 : HeaderAt(u) \in {"kext", "macho", "other"}
    <2> SUFFICES ASSUME NEW u \in 0 .. TextSize - 1
                 PROVE  HeaderAt(u) \in {"kext", "macho", "other"}
      OBVIOUS
    <2>1. u + 1 \in 1 .. Len(cache.text)
      BY <1>3 DEF TextSize
    <2> QED  BY <1>2, <2>1, ElementOfSeq DEF HeaderAt
  <1> QED  BY <1>1, <1>2, <1>3, <1>4 DEF Cache, Request

\* Nothing that begins is inside a page.
LEMMA InPage ==
    ASSUME cache \in Caches, request \in Requests, NEW h \in Nat, h % Page = 0
    PROVE  (h + Page) % Page = 0 /\ \A u \in h + 1 .. h + Page - 1 : ~Begins(u)
  BY CacheIs, NextPageIs DEF Begins

\* Up to the next page, if nothing more begins at this one.
LEMMA BetweenOn ==
    ASSUME cache \in Caches, request \in Requests, NEW h \in Nat, h % Page = 0,
           NEW u \in 0 .. h, Between(u, h), h # u => ~Begins(h)
    PROVE  Between(u, h + Page)
  <1>1. Page \in Nat
    BY CacheIs
  <1>6. \A w \in u + 1 .. h - 1 : w < TextSize => ~Begins(w)
    BY DEF Between
  <1> SUFFICES \A w \in u + 1 .. h + Page - 1 : w < TextSize => ~Begins(w)
    <2>1. (h + Page) - 1 = h + Page - 1
      BY <1>1
    <2> QED  BY <2>1 DEF Between
  <1> TAKE w \in u + 1 .. h + Page - 1
  <1> HAVE w < TextSize
  <1>2. w \in u + 1 .. h - 1 \/ w = h \/ w \in h + 1 .. h + Page - 1
    BY <1>1
  <1>3. w = h => ~Begins(w)
    OBVIOUS
  <1>4. w \in h + 1 .. h + Page - 1 => ~Begins(w)
    BY InPage
  <1>5. w \in u + 1 .. h - 1 => ~Begins(w)
    BY <1>6
  <1> QED  BY <1>2, <1>3, <1>4, <1>5

\* The action is in the text.
LEMMA InTextIs ==
    ASSUME TextInv, finder = "text"
    PROVE  /\ cache \in Caches /\ request \in Requests
           /\ at \in Nat /\ at % Page = 0 /\ Walked /\ TextSize \in Nat /\ Page \in Nat /\ Page > 0
           /\ at + Page \in Nat /\ (at + Page) % Page = 0
           /\ prev # None => prev \in Nat /\ prev < at
  <1>1. /\ cache \in Caches /\ request \in Requests /\ at \in Nat /\ at % Page = 0 /\ Walked
        /\ prev \in Nat \cup {None}
    BY DEF TextInv
  <1>2. TextSize \in Nat /\ Page \in Nat \ {0}
    BY <1>1, CacheIs
  <1>3. (at + Page) % Page = 0
    BY <1>1, InPage
  <1>4. prev # None => prev \in 0 .. at - 1
    BY <1>1 DEF Walked
  <1> QED  BY <1>1, <1>2, <1>3, <1>4

\* What is said of the cache stays as it is.
LEMMA CacheSame ==
    ASSUME cache' = cache
    PROVE  /\ TextSize' = TextSize /\ Fits' = Fits
           /\ \A u : Begins(u)' = Begins(u) /\ HeaderAt(u)' = HeaderAt(u)
           /\ \A line : RangeIs(line)' = RangeIs(line) /\ PieceIs(line)' = PieceIs(line)
           /\ \A u, v : Between(u, v)' = Between(u, v)
  <1>1. TextSize' = TextSize /\ \A u : HeaderAt(u)' = HeaderAt(u)
    BY DEF TextSize, HeaderAt
  <1>2. \A u : Begins(u)' = Begins(u)
    BY <1>1 DEF Begins
  <1>3. Fits' = Fits /\ \A u, v : Between(u, v)' = Between(u, v)
    BY <1>1, <1>2 DEF Fits, Between
  <1>4. \A k : Owner(k)' = Owner(k) /\ Apart(k)' = Apart(k)
    BY DEF Owner, Apart
  <1>5. \A line : RangeIs(line)' = RangeIs(line) /\ PieceIs(line)' = PieceIs(line)
    BY <1>1, <1>2, <1>4 DEF RangeIs, PieceIs
  <1> QED  BY <1>1, <1>2, <1>3, <1>5

LEMMA BeginsIs ==
    ASSUME NEW u, Begins(u)
    PROVE  u % Page = 0 /\ HeaderAt(u) # "other"
  BY DEF Begins

\* Behind the first header only kexts begin.
LEMMA OnlyKexts ==
    ASSUME TextInv, finder = "text", prev # None, HeaderAt(at) # "kext"
    PROVE  ~Begins(at)
  <1>1. at \in Nat /\ prev \in 0 .. at - 1 /\ Begins(prev)
    BY DEF TextInv, Walked
  <1>2. prev % Page = 0 /\ HeaderAt(prev) # "other"
    BY <1>1, BeginsIs
  <1> QED  BY <1>1, <1>2 DEF Begins

LEMMA PassPageKeeps ==
    ASSUME TextInv, PassPage
    PROVE  TextInv'
  <1>1. /\ finder = "text" /\ at < TextSize /\ at' = at + Page
        /\ HeaderAt(at) = "other" \/ (HeaderAt(at) = "macho" /\ prev # None)
        /\ finder' = finder /\ cache' = cache /\ request' = request /\ prev' = prev /\ kexts' = kexts
        /\ ranges' = ranges /\ kextracted' = kextracted
    BY DEF PassPage, NextPage
  <1>2. /\ cache \in Caches /\ request \in Requests
        /\ at \in Nat /\ at % Page = 0 /\ Walked /\ TextSize \in Nat /\ Page \in Nat /\ Page > 0
        /\ at + Page \in Nat /\ (at + Page) % Page = 0
        /\ prev # None => prev \in Nat /\ prev < at
    BY <1>1, InTextIs
  <1>3. /\ TextSize' = TextSize /\ Fits' = Fits
        /\ \A u : Begins(u)' = Begins(u) /\ HeaderAt(u)' = HeaderAt(u)
        /\ \A line : RangeIs(line)' = RangeIs(line) /\ PieceIs(line)' = PieceIs(line)
        /\ \A u, v : Between(u, v)' = Between(u, v)
    BY <1>1, CacheSame
  <1>4. RangesInv' /\ PiecesInv'
    BY <1>1, <1>3 DEF TextInv, RangesInv, PiecesInv
  <1>5. CASE prev = None
    <2>1. /\ ranges = <<>> /\ HeaderAt(at) = "other"
          /\ \A u \in 0 .. at - 1 : u < TextSize /\ u % Page = 0 => HeaderAt(u) = "other"
      BY <1>1, <1>2, <1>5 DEF Walked
    <2>2. \A u \in 0 .. at' - 1 : u < TextSize /\ u % Page = 0 => HeaderAt(u) = "other"
      <3> SUFFICES ASSUME NEW u \in 0 .. at' - 1, u < TextSize, u % Page = 0
                   PROVE  HeaderAt(u) = "other"
        OBVIOUS
      <3>1. u \in 0 .. at - 1 \/ u = at \/ u \in at + 1 .. at + Page - 1
        BY <1>1, <1>2
      <3>2. u \notin at + 1 .. at + Page - 1
        BY <1>2, CacheIs, NextPageIs
      <3> QED  BY <2>1, <3>1, <3>2
    <2>3. Walked'
      BY <1>1, <1>3, <1>5, <2>1, <2>2 DEF Walked
    <2> QED  BY <1>1, <1>2, <1>3, <1>4, <2>3 DEF TextInv
  <1>6. CASE prev # None
    <2>1. /\ prev \in 0 .. at - 1 /\ prev < TextSize /\ Begins(prev) /\ Between(prev, at)
          /\ ranges # <<>> => ranges[Len(ranges)].to = prev
          /\ ListedTo(prev)
      BY <1>2, <1>6 DEF Walked
    <2>2. ~Begins(at)
      BY <1>1, <1>6, OnlyKexts
    <2>3. Between(prev, at') /\ prev \in 0 .. at' - 1
      <3>1. prev \in 0 .. at
        BY <1>2, <2>1
      <3>2. Between(prev, at + Page)
        BY <1>2, <2>1, <2>2, <3>1, BetweenOn
      <3> QED  BY <1>1, <1>2, <2>1, <3>2
    <2>4. ListedTo(prev)'
      BY <1>1, <1>3, <2>1 DEF ListedTo
    <2>5. Walked'
      BY <1>1, <1>3, <1>6, <2>1, <2>3, <2>4 DEF Walked
    <2> QED  BY <1>1, <1>2, <1>3, <1>4, <2>5 DEF TextInv
  <1> QED  BY <1>5, <1>6

LEMMA FirstHeaderKeeps ==
    ASSUME TextInv, FirstHeader
    PROVE  TextInv'
  <1>1. /\ finder = "text" /\ at < TextSize /\ at' = at + Page
        /\ HeaderAt(at) # "other" /\ prev = None /\ prev' = at
        /\ finder' = finder /\ cache' = cache /\ request' = request /\ kexts' = kexts
        /\ ranges' = ranges /\ kextracted' = kextracted
    BY DEF FirstHeader, NextPage
  <1>2. /\ cache \in Caches /\ request \in Requests
        /\ at \in Nat /\ at % Page = 0 /\ Walked /\ TextSize \in Nat /\ Page \in Nat /\ Page > 0
        /\ at + Page \in Nat /\ (at + Page) % Page = 0
    BY <1>1, InTextIs
  <1>3. /\ TextSize' = TextSize /\ Fits' = Fits
        /\ \A u : Begins(u)' = Begins(u) /\ HeaderAt(u)' = HeaderAt(u)
        /\ \A line : RangeIs(line)' = RangeIs(line) /\ PieceIs(line)' = PieceIs(line)
        /\ \A u, v : Between(u, v)' = Between(u, v)
    BY <1>1, CacheSame
  <1>4. RangesInv' /\ PiecesInv'
    BY <1>1, <1>3 DEF TextInv, RangesInv, PiecesInv
  <1>5. /\ ranges = <<>>
        /\ \A u \in 0 .. at - 1 : u < TextSize /\ u % Page = 0 => HeaderAt(u) = "other"
    BY <1>1, <1>2 DEF Walked
  <1>6. \A u \in 0 .. at - 1 : u < TextSize
    BY <1>1, <1>2
  <1>7. Begins(at)
    BY <1>1, <1>2, <1>5, <1>6 DEF Begins
  <1>8. Between(at, at')
    <2>1. Between(at, at) /\ at \in 0 .. at
      BY <1>2 DEF Between
    <2> QED  BY <1>1, <1>2, <2>1, BetweenOn
  <1>9. ListedTo(at)
    <2>1. \A u \in 0 .. at - 1 : ~Begins(u)
      BY <1>5, <1>6, BeginsIs
    <2> QED  BY <2>1 DEF ListedTo
  <1>10. Walked'
    <2>1. prev' # None /\ at \in 0 .. at' - 1
      BY <1>1, <1>2 DEF None
    <2>2. ListedTo(prev)'
      BY <1>1, <1>3, <1>9 DEF ListedTo
    <2> QED  BY <1>1, <1>3, <1>5, <1>7, <1>8, <2>1, <2>2 DEF Walked
  <1> QED  BY <1>1, <1>2, <1>3, <1>4, <1>10 DEF TextInv

LEMMA AstrayKeeps ==
    ASSUME TextInv, Astray
    PROVE  TextInv'
  <1>1. /\ finder = "text" /\ at < TextSize /\ prev # None
        /\ HeaderAt(at) = "kext" /\ at - prev + at > TextSize
        /\ finder' = "astray" /\ cache' = cache /\ request' = request /\ prev' = prev /\ kexts' = kexts
        /\ ranges' = ranges /\ kextracted' = kextracted
    BY DEF Astray
  <1>2. /\ cache \in Caches /\ request \in Requests
        /\ at \in Nat /\ at % Page = 0 /\ Walked /\ TextSize \in Nat
        /\ prev \in Nat /\ prev < at
    BY <1>1, InTextIs
  <1>3. /\ TextSize' = TextSize /\ Fits' = Fits
        /\ \A u : Begins(u)' = Begins(u) /\ HeaderAt(u)' = HeaderAt(u)
        /\ \A line : RangeIs(line)' = RangeIs(line) /\ PieceIs(line)' = PieceIs(line)
    BY <1>1, CacheSame
  <1>4. RangesInv' /\ PiecesInv'
    BY <1>1, <1>3 DEF TextInv, RangesInv, PiecesInv
  <1>5. Begins(prev) /\ Between(prev, at)
    BY <1>1, <1>2 DEF Walked
  <1>6. Begins(at)
    BY <1>1, <1>2 DEF Begins
  <1>7. ~Fits
    <2> DEFINE begins == {u \in 0 .. TextSize - 1 : Begins(u)}
    <2>1. prev \in begins /\ at \in begins
      BY <1>1, <1>2, <1>5, <1>6
    <2>2. \A w \in begins : w <= prev \/ w >= at
      BY <1>2, <1>5 DEF Between
    <2>3. ~(at + (at - prev) <= TextSize)
      BY <1>1, <1>2
    <2> QED  BY <1>2, <2>1, <2>2, <2>3 DEF Fits
  <1> QED  BY <1>1, <1>3, <1>4, <1>7 DEF TextInv

LEMMA EndTextKeeps ==
    ASSUME TextInv, EndText
    PROVE  TextInv'
  <1>1. /\ finder = "text" /\ at >= TextSize
        /\ finder' = "done" /\ cache' = cache /\ request' = request /\ prev' = prev /\ kexts' = kexts
        /\ ranges' = ranges /\ kextracted' = kextracted
    BY DEF EndText
  <1>2. /\ cache \in Caches /\ request \in Requests
        /\ at \in Nat /\ at % Page = 0 /\ Walked /\ TextSize \in Nat
        /\ prev # None => prev \in Nat /\ prev < at
    BY <1>1, InTextIs
  <1>3. /\ TextSize' = TextSize /\ Fits' = Fits
        /\ \A u : Begins(u)' = Begins(u) /\ HeaderAt(u)' = HeaderAt(u)
        /\ \A line : RangeIs(line)' = RangeIs(line) /\ PieceIs(line)' = PieceIs(line)
    BY <1>1, CacheSame
  <1>4. RangesInv' /\ PiecesInv'
    BY <1>1, <1>3 DEF TextInv, RangesInv, PiecesInv
  <1>5. request.listing => AllListed
    <2> SUFFICES ASSUME request.listing, NEW u \in 0 .. TextSize - 1, NEW v \in 0 .. TextSize - 1,
                        u < v, Begins(u), Begins(v)
                 PROVE  \E n \in DOMAIN ranges : ranges[n].from = u
      BY DEF AllListed
    <2>1. u \in 0 .. at - 1 /\ u < TextSize /\ v \in 0 .. at - 1 /\ v < TextSize
      BY <1>1, <1>2
    <2>2. prev # None
      BY <1>2, <2>1, BeginsIs DEF Walked
    <2>3. Between(prev, at) /\ ListedTo(prev) /\ prev \in Nat
      BY <1>2, <2>2 DEF Walked
    <2>4. ~(v \in prev + 1 .. at - 1)
      BY <2>1, <2>3 DEF Between
    <2>5. u \in 0 .. prev - 1
      BY <1>2, <2>1, <2>3, <2>4
    <2> QED  BY <2>3, <2>5 DEF ListedTo
  <1>6. request.listing => AllListed'
    BY <1>1, <1>3, <1>5 DEF AllListed
  <1> QED  BY <1>1, <1>3, <1>4, <1>6 DEF TextInv

\* What method 2 writes ends at a header, and no kext begins before it.
LEMMA PieceIsWhole ==
    ASSUME TextInv, finder = "text", at < TextSize, prev # None, HeaderAt(at) = "kext",
           Kextract(prev)
    PROVE  finder' = finder /\ (PiecesInv => (request.method = 2 =>
              kextracted' \in Seq(Nat \X Nat) /\ \A n \in DOMAIN kextracted' : PieceIs(kextracted'[n])))
  <1>1. /\ cache \in Caches /\ request \in Requests
        /\ at \in Nat /\ at % Page = 0 /\ Walked /\ TextSize \in Nat /\ Page \in Nat /\ Page > 0
        /\ prev \in Nat /\ prev < at
    BY InTextIs
  <1>2. /\ prev < TextSize /\ Begins(prev) /\ Between(prev, at)
        /\ prev % Page = 0 /\ HeaderAt(prev) # "other"
    BY <1>1, BeginsIs DEF Walked
  <1>3. prev + Page <= at
    <2>1. \A u \in prev + 1 .. prev + Page - 1 : u % Page # 0
      BY <1>1, <1>2, CacheIs, NextPageIs
    <2> QED  BY <1>1, <2>1
  <1>4. at \in Headers(prev) /\ Headers(prev) \subseteq Nat
    BY <1>1, <1>3 DEF Headers
  <1> DEFINE to == First(Headers(prev))
  <1>5. to \in Headers(prev) /\ to \in Nat /\ to <= at
    BY <1>4, FirstIs
  <1>6. HeaderAt(to) # "other" /\ to < TextSize
    BY <1>1, <1>5 DEF Headers
  <1>7. finder' = finder /\ kextracted' = Append(kextracted, <<prev, to>>)
    <2>1. ~(prev >= TextSize)
      BY <1>1, <1>2
    <2> QED  BY <1>2, <1>4, <2>1 DEF Kextract
  <1> HIDE DEF to
  <1>8. PieceIs(<<prev, to>>)
    <2>1. \A u \in prev + Page .. to - 1 : u \in prev + 1 .. at - 1 /\ u < TextSize
      BY <1>1, <1>5, <1>6
    <2>2. \A u \in prev + Page .. to - 1 : ~Begins(u)
      BY <1>2, <2>1 DEF Between
    <2> QED  BY <1>2, <1>6, <2>2 DEF PieceIs
  <1>9. <<prev, to>> \in Nat \X Nat
    BY <1>1, <1>5
  <1>10. ASSUME PiecesInv, request.method = 2
         PROVE  kextracted' \in Seq(Nat \X Nat) /\ \A n \in DOMAIN kextracted' : PieceIs(kextracted'[n])
    <2>1. kextracted \in Seq(Nat \X Nat) /\ \A n \in DOMAIN kextracted : PieceIs(kextracted[n])
      BY <1>10 DEF PiecesInv
    <2>2. /\ kextracted' \in Seq(Nat \X Nat)
          /\ \A n \in DOMAIN kextracted' : n \in DOMAIN kextracted \/ n = Len(kextracted) + 1
          /\ \A n \in DOMAIN kextracted : kextracted'[n] = kextracted[n]
          /\ kextracted'[Len(kextracted) + 1] = <<prev, to>>
      BY <1>7, <1>9, <2>1
    <2> QED  BY <1>8, <2>1, <2>2
  <1> QED  BY <1>7, <1>10

\* Another line, or none, and the list is complete up to where method 2 is.
LEMMA ListTextRanges ==
    ASSUME TextInv, ListText
    PROVE  /\ RangesInv'
           /\ ranges' # <<>> => ranges'[Len(ranges')].to = at
           /\ request.listing => \A u \in 0 .. at - 1 : Begins(u) => \E n \in DOMAIN ranges' : ranges'[n].from = u
  <1>1. /\ finder = "text" /\ at < TextSize /\ HeaderAt(at) = "kext" /\ prev # None
        /\ cache' = cache /\ request' = request
        /\ ranges' = IF ~request.listing THEN ranges
                     ELSE Append(ranges, [from |-> prev, to |-> at, id |-> Identify(Owner(prev))])
    BY DEF ListText, NextPage
  <1>2. /\ cache \in Caches /\ request \in Requests
        /\ at \in Nat /\ at % Page = 0 /\ Walked /\ TextSize \in Nat
        /\ prev \in Nat /\ prev < at
    BY <1>1, InTextIs
  <1>3. /\ prev < TextSize /\ Begins(prev) /\ Between(prev, at)
        /\ ranges # <<>> => ranges[Len(ranges)].to = prev
        /\ ListedTo(prev)
    BY <1>1, <1>2 DEF Walked
  <1>4. \A line : RangeIs(line)' = RangeIs(line)
    BY <1>1, CacheSame
  <1>5. RangesInv
    BY DEF TextInv
  <1>6. CASE ~request.listing
    <2>1. ranges' = ranges /\ ranges = <<>>
      BY <1>1, <1>5, <1>6 DEF RangesInv
    <2> QED  BY <1>1, <1>4, <1>5, <1>6, <2>1 DEF RangesInv
  <1>7. CASE request.listing
    <2> DEFINE k == Owner(prev)
               line == [from |-> prev, to |-> at, id |-> Identify(k)]
    <2>1. k \in {0} \cup DOMAIN cache.place
      BY DEF Owner
    <2>2. Identify(k) \in Nat /\ (k # 0 /\ Apart(k) => Identify(k) \in {0, k})
      BY <1>2, <2>1, IdentifyIs
    <2> HIDE DEF k
    <2>3. line \in TextRange /\ line.from = prev /\ line.to = at /\ line.id = Identify(k)
      BY <1>2, <2>2 DEF TextRange
    <2>4. RangeIs(line)
      <3>1. Begins(at)
        BY <1>1, <1>2 DEF Begins
      <3>2. \A u \in prev + 1 .. at - 1 : ~Begins(u)
        <4>1. \A u \in prev + 1 .. at - 1 : u < TextSize
          BY <1>1, <1>2
        <4> QED  BY <1>3, <4>1 DEF Between
      <3>3. Owner(line.from) = k
        BY <2>3 DEF k
      <3> HIDE DEF line
      <3> QED  BY <1>3, <2>2, <2>3, <3>1, <3>2, <3>3 DEF RangeIs
    <2>5. ranges' = Append(ranges, line)
      BY <1>1, <1>7 DEF k
    <2> HIDE DEF line
    <2>6. /\ ranges \in Seq(TextRange) /\ Len(ranges) \in Nat
          /\ \A n \in DOMAIN ranges :
               RangeIs(ranges[n]) /\ (n < Len(ranges) => ranges[n + 1].from = ranges[n].to)
      BY <1>5, LenProperties DEF RangesInv
    <2>7. /\ ranges' \in Seq(TextRange) /\ Len(ranges') = Len(ranges) + 1
          /\ DOMAIN ranges = 1 .. Len(ranges) /\ DOMAIN ranges' = 1 .. Len(ranges) + 1
          /\ \A n \in 1 .. Len(ranges) : ranges'[n] = ranges[n]
          /\ ranges'[Len(ranges) + 1] = line
      BY <2>3, <2>5, <2>6
    <2>8. \A n \in DOMAIN ranges' :
            RangeIs(ranges'[n]) /\ (n < Len(ranges') => ranges'[n + 1].from = ranges'[n].to)
      <3> SUFFICES ASSUME NEW n \in DOMAIN ranges'
                   PROVE  RangeIs(ranges'[n]) /\ (n < Len(ranges') => ranges'[n + 1].from = ranges'[n].to)
        OBVIOUS
      <3>0. n \in 1 .. Len(ranges) + 1 /\ Len(ranges) \in Nat
        BY <2>6, <2>7
      <3>1. CASE n = Len(ranges) + 1
        BY <2>4, <2>6, <2>7, <3>1
      <3>2. CASE n \in 1 .. Len(ranges) - 1
        <4>1. n \in 1 .. Len(ranges) /\ n + 1 \in 1 .. Len(ranges) /\ n < Len(ranges)
          BY <2>6, <3>2
        <4> QED  BY <2>6, <2>7, <4>1
      <3>3. CASE n = Len(ranges) /\ n # Len(ranges) + 1
        <4>1. n \in 1 .. Len(ranges)
          BY <3>0, <3>3
        <4>2. ranges # <<>>
          BY <2>7, <4>1
        <4> QED  BY <1>3, <2>3, <2>6, <2>7, <3>3, <4>1, <4>2
      <3> QED  BY <2>6, <2>7, <3>1, <3>2, <3>3
    <2>9. RangesInv'
      BY <1>1, <1>4, <1>7, <2>7, <2>8 DEF RangesInv
    <2>10. ASSUME NEW u \in 0 .. at - 1, Begins(u)
           PROVE  \E n \in DOMAIN ranges' : ranges'[n].from = u
      <3>1. CASE u < prev
        <4>1. u \in 0 .. prev - 1
          BY <1>2, <3>1
        <4>2. PICK n \in DOMAIN ranges : ranges[n].from = u
          BY <1>3, <1>7, <2>10, <4>1 DEF ListedTo
        <4>3. n \in DOMAIN ranges' /\ ranges'[n].from = u
          BY <2>6, <2>7, <4>2
        <4> QED  BY <4>3
      <3>2. CASE u = prev
        <4>1. Len(ranges) + 1 \in DOMAIN ranges' /\ ranges'[Len(ranges) + 1].from = u
          BY <2>3, <2>6, <2>7, <3>2
        <4> QED  BY <4>1
      <3>3. ~(u > prev)
        <4>1. u > prev => u \in prev + 1 .. at - 1 /\ u < TextSize
          BY <1>1, <1>2
        <4> QED  BY <1>3, <2>10, <4>1 DEF Between
      <3> QED  BY <1>2, <3>1, <3>2, <3>3
    <2>11. ranges'[Len(ranges')].to = at
      BY <2>3, <2>7
    <2> QED  BY <2>9, <2>10, <2>11
  <1> QED  BY <1>6, <1>7

LEMMA ListTextKeeps ==
    ASSUME TextInv, ListText
    PROVE  TextInv'
  <1>1. /\ finder = "text" /\ at < TextSize /\ at' = at + Page
        /\ HeaderAt(at) = "kext" /\ prev # None /\ prev' = at
        /\ cache' = cache /\ request' = request /\ kexts' = kexts
        /\ Kextract(prev) \/ (kextracted' = kextracted /\ finder' = finder)
    BY DEF ListText, NextPage
  <1>2. /\ cache \in Caches /\ request \in Requests
        /\ at \in Nat /\ at % Page = 0 /\ Walked /\ TextSize \in Nat /\ Page \in Nat /\ Page > 0
        /\ at + Page \in Nat /\ (at + Page) % Page = 0
    BY <1>1, InTextIs
  <1>3. /\ TextSize' = TextSize /\ Fits' = Fits
        /\ \A u : Begins(u)' = Begins(u) /\ HeaderAt(u)' = HeaderAt(u)
        /\ \A line : RangeIs(line)' = RangeIs(line) /\ PieceIs(line)' = PieceIs(line)
        /\ \A u, v : Between(u, v)' = Between(u, v)
    BY <1>1, CacheSame
  <1>4. PiecesInv
    BY DEF TextInv
  <1>5. finder' = finder /\ PiecesInv'
    <2>1. CASE Kextract(prev)
      <3>1. finder' = finder /\ (request.method = 2 =>
              kextracted' \in Seq(Nat \X Nat) /\ \A n \in DOMAIN kextracted' : PieceIs(kextracted'[n]))
        BY <1>1, <1>4, <2>1, PieceIsWhole
      <3> QED  BY <1>1, <1>3, <3>1 DEF PiecesInv
    <2>2. CASE kextracted' = kextracted /\ finder' = finder
      BY <1>1, <1>3, <1>4, <2>2 DEF PiecesInv
    <2> QED  BY <1>1, <2>1, <2>2
  <1>6. /\ RangesInv'
        /\ ranges' # <<>> => ranges'[Len(ranges')].to = at
        /\ request.listing => \A u \in 0 .. at - 1 : Begins(u) => \E n \in DOMAIN ranges' : ranges'[n].from = u
    BY ListTextRanges
  <1>7. Begins(at)
    BY <1>1, <1>2 DEF Begins
  <1>8. Between(at, at')
    <2>1. Between(at, at) /\ at \in 0 .. at
      BY <1>2 DEF Between
    <2> QED  BY <1>1, <1>2, <2>1, BetweenOn
  <1>9. Walked'
    <2>1. prev' # None /\ at \in 0 .. at' - 1
      BY <1>1, <1>2 DEF None
    <2>2. ListedTo(prev)'
      BY <1>1, <1>3, <1>6 DEF ListedTo
    <2> QED  BY <1>1, <1>3, <1>6, <1>7, <1>8, <2>1, <2>2 DEF Walked
  <1> QED  BY <1>1, <1>2, <1>3, <1>5, <1>6, <1>9 DEF TextInv

LEMMA ListInfoKeeps ==
    ASSUME TextInv, ListInfo
    PROVE  TextInv'
  <1>1. /\ finder = "info" /\ finder' \in {"info", "outside"}
        /\ cache' = cache /\ request' = request /\ prev' = prev /\ kexts' = kexts + 1 /\ ranges' = ranges
    BY DEF ListInfo, Kextract
  <1>2. /\ cache \in Caches /\ request \in Requests /\ kexts \in Nat
        /\ request.method = 1 /\ prev = None /\ ranges = <<>> /\ RangesInv
    BY <1>1 DEF TextInv
  <1>3. \A line : RangeIs(line)' = RangeIs(line)
    BY <1>1, CacheSame
  <1>4. RangesInv' /\ PiecesInv'
    BY <1>1, <1>2, <1>3 DEF RangesInv, PiecesInv
  <1> QED  BY <1>1, <1>2, <1>4 DEF TextInv

LEMMA EndInfoKeeps ==
    ASSUME TextInv, EndInfo
    PROVE  TextInv'
  <1>1. /\ finder = "info" /\ finder' = (IF kexts > Enough THEN "done" ELSE "text") /\ at' = 0
        /\ cache' = cache /\ request' = request /\ prev' = prev /\ kexts' = kexts /\ ranges' = ranges
    BY DEF EndInfo
  <1>2. /\ cache \in Caches /\ request \in Requests /\ kexts \in Nat
        /\ request.method = 1 /\ prev = None /\ ranges = <<>> /\ RangesInv
        /\ Page \in Nat /\ Page > 0 /\ Enough \in Nat
    BY <1>1, CacheIs DEF TextInv
  <1>3. \A line : RangeIs(line)' = RangeIs(line)
    BY <1>1, CacheSame
  <1>4. RangesInv' /\ PiecesInv'
    BY <1>1, <1>2, <1>3 DEF RangesInv, PiecesInv
  <1>5. finder' = "text" => at' \in Nat /\ at' % Page = 0 /\ Walked'
    <2>1. 0 % Page = 0 /\ \A u \in 0 .. 0 - 1 : FALSE
      BY <1>2
    <2> QED  BY <1>1, <1>2, <2>1 DEF Walked
  <1>6. finder' = "done" => ~(request'.method = 2) /\ ~(kexts' <= Enough)
    BY <1>1, <1>2
  <1> QED  BY <1>1, <1>2, <1>4, <1>5, <1>6 DEF TextInv

LEMMA TextStep ==
    ASSUME TextInv, [KextsNext]_kextVars
    PROVE  TextInv'
  <1>1. CASE UNCHANGED kextVars
    <2>1. /\ finder' = finder /\ cache' = cache /\ request' = request /\ at' = at /\ prev' = prev
          /\ kexts' = kexts /\ ranges' = ranges /\ kextracted' = kextracted
      BY <1>1 DEF kextVars
    <2>2. /\ TextSize' = TextSize /\ Fits' = Fits
          /\ \A u : Begins(u)' = Begins(u) /\ HeaderAt(u)' = HeaderAt(u)
          /\ \A line : RangeIs(line)' = RangeIs(line) /\ PieceIs(line)' = PieceIs(line)
          /\ \A u, v : Between(u, v)' = Between(u, v)
      BY <2>1, CacheSame
    <2>3. RangesInv' = RangesInv /\ PiecesInv' = PiecesInv
      BY <2>1, <2>2 DEF RangesInv, PiecesInv
    <2>4. Walked' = Walked /\ AllListed' = AllListed
      BY <2>1, <2>2 DEF Walked, ListedTo, AllListed
    <2> QED  BY <2>1, <2>2, <2>3, <2>4 DEF TextInv
  <1>2. CASE KextsNext
    BY <1>2, ListInfoKeeps, EndInfoKeeps, PassPageKeeps, FirstHeaderKeeps, AstrayKeeps, ListTextKeeps,
       EndTextKeeps DEF KextsNext
  <1> QED  BY <1>1, <1>2

LEMMA TextStart ==
    ASSUME KextsInit
    PROVE  TextInv
  <1>1. /\ cache \in Caches /\ request \in Requests /\ prev = None /\ kexts = 0
        /\ finder = (IF request.method = 1 THEN "info" ELSE "text")
        /\ at = (IF request.method = 1 THEN NameAfter(0) ELSE 0)
        /\ ranges = <<>> /\ kextracted = <<>>
    BY DEF KextsInit
  <1>2. request.method \in {1, 2} /\ Page \in Nat /\ Page > 0
    BY <1>1, CacheIs
  <1>3. RangesInv /\ PiecesInv
    BY <1>1 DEF RangesInv, PiecesInv
  <1>4. finder = "text" => at \in Nat /\ at % Page = 0 /\ Walked
    <2>1. 0 % Page = 0 /\ \A u \in 0 .. 0 - 1 : FALSE
      BY <1>2
    <2> QED  BY <1>1, <2>1 DEF Walked
  <1> QED  BY <1>1, <1>2, <1>3, <1>4 DEF TextInv

LEMMA TextTells ==
    ASSUME TextInv
    PROVE  RangesAreExact
  <1>1. RangesInv /\ PiecesInv
    BY DEF TextInv
  <1>2. \A n \in DOMAIN ranges :
          RangeIs(ranges[n]) /\ (n < Len(ranges) => ranges[n + 1].from = ranges[n].to)
    BY <1>1 DEF RangesInv
  <1>3. request.method = 2 => \A n \in DOMAIN kextracted : PieceIs(kextracted[n])
    BY <1>1 DEF PiecesInv
  <1>4. finder = "done" /\ request.listing /\ (request.method = 2 \/ kexts <= Enough) => AllListed
    BY DEF TextInv
  <1>5. Fits => finder # "astray"
    BY DEF TextInv
  <1> QED  BY <1>2, <1>3, <1>4, <1>5 DEF RangesAreExact, RangeIs, PieceIs, AllListed

-----------------------------------------------------------------------------
(* Method 1                                                                *)

\* The keys of the dictionary of kext m + 1, and the name behind them.
LEMMA DictionaryIs ==
    ASSUME cache \in Caches, request \in Requests, Orderly(cache.info),
           NEW m \in Nat, m < Len(cache.place)
    PROVE  /\ cache.info[3 * m + 1].kext = m + 1
           /\ \A key \in {"address", "identifier"} :
                /\ After(key, 3 * m + 1) # {}
                /\ First(After(key, 3 * m + 1)) \in {3 * m + 2, 3 * m + 3}
                /\ KextOf(After(key, 3 * m + 1)) = m + 1
  <1>1. /\ cache.info \in Seq(Token) /\ Len(cache.place) \in Nat
        /\ Len(cache.info) = 3 * Len(cache.place)
        /\ \A n \in DOMAIN cache.info :
             /\ cache.info[n].kext = (n + 2) \div 3
             /\ cache.info[n].key = "name" <=> n % 3 = 1
             /\ n % 3 = 2 => cache.info[n].key # cache.info[n + 1].key
    BY CacheIs, LenProperties DEF Orderly
  <1>2. DOMAIN cache.info = 1 .. 3 * Len(cache.place)
    BY <1>1, LenProperties
  <1> DEFINE a == 3 * m + 1
             b == 3 * m + 2
             c == 3 * m + 3
  <1>3. /\ a \in DOMAIN cache.info /\ b \in DOMAIN cache.info /\ c \in DOMAIN cache.info
        /\ a \in Nat /\ b \in Nat /\ c \in Nat /\ b = a + 1 /\ c = b + 1
    <2>1. 3 * m + 3 <= 3 * Len(cache.place)
      BY <1>1
    <2> QED  BY <1>2, <2>1
  <1>4. /\ (a + 2) \div 3 = m + 1 /\ (b + 2) \div 3 = m + 1 /\ (c + 2) \div 3 = m + 1
        /\ b % 3 = 2 /\ c % 3 = 0
    OBVIOUS
  <1> HIDE DEF a, b, c
  <1>5. /\ cache.info[a].kext = m + 1 /\ cache.info[b].kext = m + 1 /\ cache.info[c].kext = m + 1
        /\ cache.info[b].key # "name" /\ cache.info[c].key # "name"
        /\ cache.info[b].key # cache.info[c].key
    <2>1. \A n \in {a, b, c} : cache.info[n].kext = (n + 2) \div 3 /\ (cache.info[n].key = "name" <=> n % 3 = 1)
      BY <1>1, <1>3
    <2>2. cache.info[b].key # cache.info[b + 1].key
      BY <1>1, <1>3, <1>4
    <2>3. b % 3 # 1 /\ c % 3 # 1
      BY <1>4
    <2> QED  BY <1>3, <1>4, <2>1, <2>2, <2>3
  <1>6. cache.info[b].key \in {"address", "identifier"} /\ cache.info[c].key \in {"address", "identifier"}
    <2>1. cache.info[b] \in Token /\ cache.info[c] \in Token
      BY <1>1, <1>2, <1>3, ElementOfSeq
    <2> QED  BY <1>5, <2>1 DEF Token
  <1>7. ASSUME NEW key \in {"address", "identifier"}
        PROVE  After(key, a) # {} /\ First(After(key, a)) \in {b, c} /\ KextOf(After(key, a)) = m + 1
    <2>1. PICK n \in {b, c} : cache.info[n].key = key /\ (n = c => cache.info[b].key # key)
      BY <1>5, <1>6
    <2>2. After(key, a) \subseteq Nat /\ n \in After(key, a)
      BY <1>2, <1>3, <2>1 DEF After
    <2>3. \A y \in After(key, a) : n <= y
      <3> SUFFICES ASSUME NEW y \in After(key, a), y < n PROVE FALSE
        BY <1>3, <2>2
      <3>1. y \in Nat /\ y > a /\ cache.info[y].key = key
        BY <1>2 DEF After
      <3>2. y = b /\ n = c
        BY <1>3, <3>1
      <3> QED  BY <2>1, <3>1, <3>2
    <2>4. First(After(key, a)) = n
      BY <2>2, <2>3, FirstWhich
    <2>5. cache.info[n].kext = m + 1
      BY <1>5
    <2> QED  BY <2>2, <2>4, <2>5 DEF KextOf
  <1> QED  BY <1>5, <1>7 DEF a, b, c

LEMMA NameAfterIs ==
    ASSUME cache \in Caches, request \in Requests, Orderly(cache.info),
           NEW m \in Nat, m <= Len(cache.place), NEW g \in Nat,
           g <= 3 * m, \/ g = 0 /\ m = 0
                       \/ g \in {3 * m - 1, 3 * m}
    PROVE  NameAfter(g) = IF m < Len(cache.place) THEN 3 * m + 1 ELSE 0
  <1>1. /\ cache.info \in Seq(Token) /\ Len(cache.place) \in Nat
        /\ Len(cache.info) = 3 * Len(cache.place)
        /\ \A n \in DOMAIN cache.info : cache.info[n].key = "name" <=> n % 3 = 1
    BY CacheIs, LenProperties DEF Orderly
  <1>2. DOMAIN cache.info = 1 .. 3 * Len(cache.place)
    BY <1>1, LenProperties
  <1>3. After("name", g) \subseteq Nat
    BY <1>2 DEF After
  <1>4. \A y \in After("name", g) : y > g /\ y <= 3 * Len(cache.place) /\ y % 3 = 1
    BY <1>1, <1>2 DEF After
  <1>5. \A y \in After("name", g) : 3 * m + 1 <= y
    <2> SUFFICES ASSUME NEW y \in After("name", g), y <= 3 * m PROVE FALSE
      BY <1>3
    <2>1. y \in Nat /\ y % 3 = 1 /\ y > g
      BY <1>3, <1>4
    <2>2. y = 3 * m
      BY <2>1
    <2>3. (3 * m) % 3 = 0
      OBVIOUS
    <2> QED  BY <2>1, <2>2, <2>3
  <1>6. CASE m < Len(cache.place)
    <2>1. 3 * m + 1 <= 3 * Len(cache.place) /\ (3 * m + 1) % 3 = 1
      <3>1. \A n \in Nat : (3 * n + 1) % 3 = 1
        OBVIOUS
      <3> QED  BY <1>1, <1>6, <3>1
    <2>2. 3 * m + 1 \in After("name", g)
      <3>1. 3 * m + 1 \in DOMAIN cache.info /\ 3 * m + 1 > g
        BY <1>1, <1>2, <2>1
      <3>2. cache.info[3 * m + 1].key = "name"
        BY <1>1, <2>1, <3>1
      <3> QED  BY <3>1, <3>2 DEF After
    <2>3. First(After("name", g)) = 3 * m + 1
      BY <1>3, <1>5, <2>2, FirstWhich
    <2> QED  BY <1>6, <2>2, <2>3 DEF NameAfter
  <1>7. CASE ~(m < Len(cache.place))
    <2>1. After("name", g) = {}
      <3> SUFFICES ASSUME NEW y \in After("name", g) PROVE FALSE
        OBVIOUS
      <3>1. y \in Nat /\ 3 * m + 1 <= y /\ y <= 3 * Len(cache.place) /\ m = Len(cache.place)
        BY <1>1, <1>3, <1>4, <1>5, <1>7
      <3> QED  BY <1>1, <3>1
    <2> QED  BY <1>7, <2>1 DEF NameAfter
  <1> QED  BY <1>6, <1>7

\* What method 1 has listed, and where it is.
InfoLine == [name : Nat, address : Nat, identifier : Nat]
OwnLine(n) == [name |-> n, address |-> n, identifier |-> n]
InfoInv ==
    request.method = 1 /\ request.listing /\ Orderly(cache.info) =>
        /\ lines \in Seq(InfoLine) /\ Len(lines) <= Len(cache.place)
        /\ \A n \in 1 .. Len(lines) : lines[n] = OwnLine(n)
        /\ finder = "info" => at = IF Len(lines) < Len(cache.place) THEN 3 * Len(lines) + 1 ELSE 0
        /\ finder # "info" => Len(lines) = Len(cache.place)

LEMMA InfoStart ==
    ASSUME KextsInit
    PROVE  InfoInv
  <1> SUFFICES ASSUME request.method = 1, request.listing, Orderly(cache.info)
               PROVE  /\ lines \in Seq(InfoLine) /\ Len(lines) <= Len(cache.place)
                      /\ \A n \in 1 .. Len(lines) : lines[n] = OwnLine(n)
                      /\ finder = "info" => at = IF Len(lines) < Len(cache.place) THEN 3 * Len(lines) + 1 ELSE 0
                      /\ finder # "info" => Len(lines) = Len(cache.place)
    BY DEF InfoInv
  <1>1. cache \in Caches /\ request \in Requests /\ finder = "info" /\ at = NameAfter(0) /\ lines = <<>>
    BY DEF KextsInit
  <1>2. Len(cache.place) \in Nat /\ lines \in Seq(InfoLine) /\ Len(lines) = 0
    BY <1>1, CacheIs, LenProperties
  <1>3. at = IF 0 < Len(cache.place) THEN 3 * 0 + 1 ELSE 0
    <2>1. 0 <= 3 * 0
      OBVIOUS
    <2> QED  BY <1>1, <1>2, <2>1, NameAfterIs
  <1> QED  BY <1>1, <1>2, <1>3

LEMMA InfoStep ==
    ASSUME TextInv, InfoInv, [KextsNext]_kextVars
    PROVE  InfoInv'
  <1>1. cache' = cache /\ request' = request
    BY DEF KextsNext, kextVars, ListInfo, EndInfo, PassPage, FirstHeader, Astray, ListText, EndText
  <1>2. Orderly(cache.info)' = Orderly(cache.info)
    BY <1>1 DEF Orderly
  <1> SUFFICES ASSUME request.method = 1, request.listing, Orderly(cache.info)
               PROVE  /\ lines' \in Seq(InfoLine) /\ Len(lines') <= Len(cache.place)
                      /\ \A n \in 1 .. Len(lines') : lines'[n] = OwnLine(n)
                      /\ finder' = "info" => at' = IF Len(lines') < Len(cache.place) THEN 3 * Len(lines') + 1 ELSE 0
                      /\ finder' # "info" => Len(lines') = Len(cache.place)
    BY <1>1, <1>2 DEF InfoInv, OwnLine
  <1>3. /\ lines \in Seq(InfoLine) /\ Len(lines) <= Len(cache.place)
        /\ \A n \in 1 .. Len(lines) : lines[n] = OwnLine(n)
        /\ finder = "info" => at = IF Len(lines) < Len(cache.place) THEN 3 * Len(lines) + 1 ELSE 0
        /\ finder # "info" => Len(lines) = Len(cache.place)
    BY DEF InfoInv
  <1>4. /\ cache \in Caches /\ request \in Requests
        /\ Len(cache.place) \in Nat /\ Len(lines) \in Nat
    BY <1>3, CacheIs, LenProperties DEF TextInv
  <1> DEFINE m == Len(lines)
  <1>5. CASE ListInfo
    <2>1. finder = "info" /\ at # 0
      BY <1>5 DEF ListInfo
    <2>2. m \in Nat /\ m < Len(cache.place) /\ at = 3 * m + 1
      BY <1>3, <1>4, <2>1
    <2> HIDE DEF m
    <2>3. /\ cache.info[at].kext = m + 1
          /\ After("address", at) # {} /\ KextOf(After("address", at)) = m + 1
          /\ Identifiers # {} /\ KextOf(Identifiers) = m + 1
          /\ First(Identifiers) \in {3 * m + 2, 3 * m + 3}
      BY <1>4, <2>2, DictionaryIs DEF Identifiers
    <2>4. /\ lines' = Append(lines, OwnLine(m + 1)) /\ finder' = finder
          /\ at' = NameAfter(First(Identifiers))
      <3>1. m + 1 # 0
        BY <2>2
      <3> QED  BY <1>5, <2>3, <3>1 DEF ListInfo, OwnLine
    <2>5. at' = IF m + 1 < Len(cache.place) THEN 3 * (m + 1) + 1 ELSE 0
      <3>1. /\ m + 1 \in Nat /\ m + 1 <= Len(cache.place)
            /\ First(Identifiers) \in Nat /\ First(Identifiers) <= 3 * (m + 1)
            /\ First(Identifiers) \in {3 * (m + 1) - 1, 3 * (m + 1)}
        BY <1>4, <2>2, <2>3
      <3> QED  BY <1>4, <2>4, <3>1, NameAfterIs
    <2>6. OwnLine(m + 1) \in InfoLine
      BY <2>2 DEF OwnLine, InfoLine
    <2>7. /\ lines' \in Seq(InfoLine) /\ Len(lines') = m + 1
          /\ \A n \in 1 .. m : lines'[n] = lines[n]
          /\ lines'[m + 1] = OwnLine(m + 1)
      BY <1>3, <2>4, <2>6 DEF m
    <2>8. \A n \in 1 .. m + 1 : lines'[n] = OwnLine(n)
      <3> SUFFICES ASSUME NEW n \in 1 .. m + 1 PROVE lines'[n] = OwnLine(n)
        OBVIOUS
      <3>1. n \in 1 .. m \/ n = m + 1
        BY <2>2
      <3> QED  BY <1>3, <2>7, <3>1 DEF m
    <2>9. m + 1 <= Len(cache.place)
      BY <1>4, <2>2
    <2> QED  BY <2>1, <2>4, <2>5, <2>7, <2>8, <2>9
  <1>6. CASE EndInfo
    <2>1. finder = "info" /\ lines' = lines /\ finder' # "info" /\ (at = 0 \/ After("address", at) = {})
      BY <1>6 DEF EndInfo
    <2>2. m = Len(cache.place)
      <3> SUFFICES ASSUME m < Len(cache.place) PROVE FALSE
        BY <1>3, <1>4
      <3>1. at = 3 * m + 1 /\ m \in Nat
        BY <1>3, <1>4, <2>1
      <3> HIDE DEF m
      <3>2. at # 0 /\ After("address", at) # {}
        BY <1>4, <3>1, DictionaryIs
      <3> QED  BY <2>1, <3>2
    <2> QED  BY <1>3, <1>4, <2>1, <2>2
  <1>7. CASE PassPage \/ FirstHeader \/ Astray \/ ListText \/ EndText
    <2>1. finder = "text" /\ lines' = lines
      BY <1>7 DEF PassPage, FirstHeader, Astray, ListText, EndText, NextPage
    <2>2. finder' # "info"
      <3>1. ListText => finder' = finder
        BY DEF ListText
      <3> QED  BY <1>7, <2>1, <3>1 DEF PassPage, FirstHeader, Astray, EndText
    <2> QED  BY <1>3, <2>1, <2>2
  <1>8. CASE UNCHANGED kextVars
    <2>1. finder' = finder /\ lines' = lines /\ at' = at
      BY <1>8 DEF kextVars
    <2> QED  BY <1>3, <2>1
  <1> QED  BY <1>5, <1>6, <1>7, <1>8 DEF KextsNext

LEMMA InfoTells ==
    ASSUME TextInv, InfoInv
    PROVE  InfoIsExact
  <1> SUFFICES ASSUME request.method = 1, request.listing, Orderly(cache.info)
               PROVE  /\ \A n \in DOMAIN lines : lines[n] = OwnLine(n)
                      /\ finder # "info" => Len(lines) = Len(cache.place)
    BY DEF InfoIsExact, OwnLine
  <1>1. /\ lines \in Seq(InfoLine) /\ \A n \in 1 .. Len(lines) : lines[n] = OwnLine(n)
        /\ finder # "info" => Len(lines) = Len(cache.place)
    BY DEF InfoInv
  <1>2. DOMAIN lines = 1 .. Len(lines)
    BY <1>1, LenProperties
  <1> QED  BY <1>1, <1>2

\* Kexts are listed with what is theirs: by method 1 each dictionary that is in
\* order, once, with its own identifier and address; by method 2 each kext up to
\* where the next begins, none left out, with a name of its own if it is set
\* apart, and all but the last when it gets to the end, as it does if none is
\* larger than what is behind it (doKexts and identifyKextNew of joker).
THEOREM KextsAreListed == KextsSpec => []KextsAreExact
  <1>1. KextsInit => TextInv /\ InfoInv
    BY TextStart, InfoStart
  <1>2. TextInv /\ InfoInv /\ [KextsNext]_kextVars => TextInv' /\ InfoInv'
    BY TextStep, InfoStep
  <1>3. TextInv /\ InfoInv => KextsAreExact
    BY TextTells, InfoTells DEF KextsAreExact
  <1> QED  BY <1>1, <1>2, <1>3, PTL DEF KextsSpec

-----------------------------------------------------------------------------
(* joker: the names of sysctls                                             *)

TablesSpec == TablesInit /\ [][TablesNext]_tablesVars

\* What a path of nodes, or a path of nodes and a sysctl, spells.
Along(path) == [n \in DOMAIN path |-> mmapped.oids[path[n]].name]

\* A path to an oid, of nodes behind it: it is as short as they are few.
Leads(path, k) ==
    /\ path \in Seq(DOMAIN mmapped.oids) /\ path # <<>>
    /\ path[Len(path)] = k /\ ParentOf(mmapped.oids[path[1]]) = 0
    /\ \A n \in 1 .. Len(path) - 1 : path[n] = ParentOf(mmapped.oids[path[n + 1]])

\* A namespace is the one of a node, or of what is above all nodes.
IsNamespace(space) ==
    \/ NodesAt(space.addr) = {} /\ space.name = <<>>
    \/ \E k \in DOMAIN mmapped.oids :
         /\ mmapped.oids[k].node /\ space.addr = mmapped.oids[k].arg1
         /\ \E path : /\ Leads(path, k) /\ Len(path) <= Numsysctls - k + 1
                      /\ space.name = Along(path)

\* The nodes that have been met in the second pass have a namespace.
Met(k) == mmapped.oids[k].node /\ (pass = 2 \/ (pass = 1 /\ k > oid))
MetAreNamed == \A k \in DOMAIN mmapped.oids : Met(k) => Named(mmapped.oids[k].arg1) # {}

OidsSound ==
    /\ mmapped.oids \in Seq(Oid)
    /\ joker \in {"open", "tables"} =>
         pass = 0 /\ oid = Numsysctls /\ namespaces = <<>> /\ sysctls = <<>>
    /\ joker = "done" => pass = 2 /\ oid = Numsysctls + 1
    /\ pass \in {0, 1, 2} /\ oid \in 0 .. Numsysctls + 1 /\ (pass < 2 => oid <= Numsysctls)
    /\ pass = 2 => oid > 0
    /\ joker \in {"open", "tables", "sysctls", "done", "refused", "overrun"}

NamespacesSound ==
    /\ namespaces \in Seq([addr : Nat, name : Seq(Nat)])
    /\ \A n \in DOMAIN namespaces : IsNamespace(namespaces[n])
    /\ joker \in {"sysctls", "done"} => MetAreNamed

Printed(k) == ~mmapped.oids[k].node /\ ~mmapped.oids[k].outside
SysctlsSound ==
    /\ sysctls \in Seq([oid : DOMAIN mmapped.oids, name : Seq(Nat)])
    /\ \A k \in DOMAIN sysctls : sysctls[k].name \in FullNames(sysctls[k].oid)
    /\ \A k, later \in DOMAIN sysctls : k < later => sysctls[k].oid < sysctls[later].oid
    /\ pass < 2 => sysctls = <<>>
    /\ pass = 2 =>
         {sysctls[k].oid : k \in DOMAIN sysctls} = {k \in DOMAIN mmapped.oids : k < oid /\ Printed(k)}

TablesInv == OidsSound /\ (WellLaidOut => NamespacesSound /\ SysctlsSound)

LEMMA LowestIs ==
    ASSUME NEW S \in SUBSET Nat, S # {}
    PROVE  Lowest(S) \in S
  <1>1. \E x \in S : \A y \in S : x <= y
    BY LeastElement
  <1> QED  BY <1>1, Zenon DEF Lowest

LEMMA OidsAre ==
    ASSUME OidsSound
    PROVE  /\ Numsysctls \in Nat /\ DOMAIN mmapped.oids = 1 .. Numsysctls
           /\ \A k \in 1 .. Numsysctls : mmapped.oids[k] \in Oid
           /\ \A addr : NodesAt(addr) \in SUBSET Nat
  <1>1. mmapped.oids \in Seq(Oid) /\ Numsysctls = Len(mmapped.oids)
    BY DEF OidsSound, Numsysctls
  <1>2. Numsysctls \in Nat /\ DOMAIN mmapped.oids = 1 .. Numsysctls
        /\ \A k \in 1 .. Numsysctls : mmapped.oids[k] \in Oid
    BY <1>1
  <1> QED  BY <1>2 DEF NodesAt

LEMMA ParentIs ==
    ASSUME OidsSound, NEW o
    PROVE  /\ ParentOf(o) = 0 <=> NodesAt(o.parent) = {}
           /\ ParentOf(o) # 0 => ParentOf(o) \in NodesAt(o.parent)
  <1>1. CASE NodesAt(o.parent) = {}
    BY <1>1 DEF ParentOf
  <1>2. CASE NodesAt(o.parent) # {}
    <2>1. Lowest(NodesAt(o.parent)) \in NodesAt(o.parent)
      BY <1>2, OidsAre, LowestIs
    <2>2. 0 \notin NodesAt(o.parent)
      BY OidsAre DEF NodesAt
    <2> QED  BY <1>2, <2>1, <2>2 DEF ParentOf
  <1> QED  BY <1>1, <1>2

LEMMA NodeIs ==
    ASSUME OidsSound, WellLaidOut, NEW k \in 1 .. Numsysctls, mmapped.oids[k].node
    PROVE  /\ NodesAt(mmapped.oids[k].arg1) = {k} /\ ~mmapped.oids[k].outside
           /\ ParentOf(mmapped.oids[k]) # 0 => ParentOf(mmapped.oids[k]) \in k + 1 .. Numsysctls
  BY OidsAre DEF WellLaidOut

LEMMA FunctionIsSeq ==
    ASSUME NEW S, NEW n \in Nat, NEW f \in [1 .. n -> S]
    PROVE  f \in Seq(S) /\ Len(f) = n
  OBVIOUS

\* The path to an oid is the one to the node above it and the oid.
LEMMA LeadsOn ==
    ASSUME OidsSound, NEW j \in 1 .. Numsysctls, NEW k \in 1 .. Numsysctls,
           NEW path, Leads(path, j), ParentOf(mmapped.oids[k]) = j
    PROVE  /\ Leads(Append(path, k), k)
           /\ Along(Append(path, k)) = Append(Along(path), mmapped.oids[k].name)
  <1> DEFINE D == 1 .. Numsysctls
             depth == Len(path)
             longer == Append(path, k)
  <1>1. path \in Seq(D) /\ path # <<>> /\ path[depth] = j /\ ParentOf(mmapped.oids[path[1]]) = 0
        /\ \A n \in 1 .. depth - 1 : path[n] = ParentOf(mmapped.oids[path[n + 1]])
    BY OidsAre DEF Leads
  <1>2. depth \in Nat \ {0} /\ DOMAIN path = 1 .. depth
    BY <1>1
  <1>3. /\ longer \in Seq(D) /\ Len(longer) = depth + 1 /\ longer # <<>>
        /\ longer[depth + 1] = k /\ \A n \in 1 .. depth : longer[n] = path[n]
    BY <1>1, <1>2
  <1> HIDE DEF depth, longer, D
  <1>4. ASSUME NEW n \in 1 .. Len(longer) - 1
        PROVE  longer[n] = ParentOf(mmapped.oids[longer[n + 1]])
    <2>1. n \in 1 .. depth
      BY <1>2, <1>3
    <2>2. CASE n = depth
      BY <1>1, <1>2, <1>3, <2>1, <2>2
    <2>3. CASE n # depth
      <3>1. n \in 1 .. depth - 1 /\ n + 1 \in 1 .. depth
        BY <1>2, <2>1, <2>3
      <3> QED  BY <1>1, <1>3, <2>1, <3>1
    <2> QED  BY <2>2, <2>3
  <1>5. Leads(longer, k)
    <2>1. longer[1] = path[1]
      BY <1>2, <1>3
    <2>2. DOMAIN mmapped.oids = D
      BY OidsAre DEF D
    <2> QED  BY <1>1, <1>3, <1>4, <2>1, <2>2 DEF Leads
  <1>6. Along(longer) = Append(Along(path), mmapped.oids[k].name)
    <2>1. Along(path) = [n \in 1 .. depth |-> mmapped.oids[path[n]].name]
      BY <1>2 DEF Along
    <2>2. DOMAIN longer = 1 .. depth + 1
      BY <1>3
    <2>3. Along(longer) = [n \in 1 .. depth + 1 |-> mmapped.oids[longer[n]].name]
      BY <2>2 DEF Along
    <2> DEFINE a == Along(path)
               b == Along(longer)
               x == mmapped.oids[k].name
    <2>4. a \in Seq(Nat) /\ Len(a) = depth /\ b \in Seq(Nat) /\ Len(b) = depth + 1 /\ x \in Nat
      <3>1. \A n \in 1 .. depth : mmapped.oids[path[n]].name \in Nat
        BY <1>1, <1>2, OidsAre DEF Oid, D
      <3>2. \A n \in 1 .. depth + 1 : mmapped.oids[longer[n]].name \in Nat
        BY <1>2, <1>3, OidsAre DEF Oid, D
      <3>3. x \in Nat
        BY OidsAre DEF Oid
      <3>4. a \in [1 .. depth -> Nat] /\ b \in [1 .. depth + 1 -> Nat]
        BY <2>1, <2>3, <3>1, <3>2
      <3> HIDE DEF a, b, x
      <3>5. depth + 1 \in Nat
        BY <1>2
      <3> QED  BY <1>2, <3>3, <3>4, <3>5, FunctionIsSeq
    <2>5. \A n \in 1 .. depth : b[n] = a[n]
      BY <1>2, <1>3, <2>1, <2>3
    <2>6. b[depth + 1] = x
      BY <1>2, <1>3, <2>3
    <2> HIDE DEF a, b, x
    <2>7. b = Append(a, x)
      BY <1>2, <2>4, <2>5, <2>6
    <2> QED  BY <2>7 DEF a, b, x
  <1> QED  BY <1>5, <1>6 DEF longer

LEMMA AlongIs ==
    ASSUME OidsSound, NEW k, NEW path, Leads(path, k)
    PROVE  Along(path) \in Seq(Nat)
  <1> DEFINE z == Len(path)
             a == Along(path)
             D == 1 .. Numsysctls
  <1>1. path \in Seq(D)
    BY OidsAre DEF Leads
  <1> HIDE DEF D
  <1>2. z \in Nat /\ DOMAIN path = 1 .. z /\ \A n \in 1 .. z : path[n] \in D
    BY <1>1
  <1>3. a = [n \in 1 .. z |-> mmapped.oids[path[n]].name]
    BY <1>2 DEF Along
  <1>4. \A n \in 1 .. z : mmapped.oids[path[n]].name \in Nat
    BY <1>2, OidsAre DEF Oid, D
  <1>5. a \in [1 .. z -> Nat]
    BY <1>3, <1>4
  <1> HIDE DEF a, z
  <1>6. a \in Seq(Nat)
    BY <1>2, <1>5, FunctionIsSeq
  <1> QED  BY <1>6 DEF a

LEMMA LeadsFirst ==
    ASSUME OidsSound, NEW k \in 1 .. Numsysctls, ParentOf(mmapped.oids[k]) = 0
    PROVE  /\ Leads(<<k>>, k) /\ Len(<<k>>) = 1
           /\ Along(<<k>>) = <<mmapped.oids[k].name>>
  <1>1. DOMAIN mmapped.oids = 1 .. Numsysctls
    BY OidsAre
  <1>2. <<k>> \in Seq(1 .. Numsysctls) /\ Len(<<k>>) = 1 /\ <<k>>[1] = k /\ <<k>> # <<>> /\ DOMAIN <<k>> = 1 .. 1
    OBVIOUS
  <1> HIDE DEF Numsysctls
  <1>3. Leads(<<k>>, k)
    BY <1>1, <1>2 DEF Leads
  <1> DEFINE x == mmapped.oids[k].name
  <1>4. Along(<<k>>) = [n \in 1 .. 1 |-> mmapped.oids[<<k>>[n]].name]
    BY <1>2 DEF Along
  <1>5. Along(<<k>>) = <<x>>
    <2>1. \A n \in 1 .. 1 : mmapped.oids[<<k>>[n]].name = x
      BY <1>2
    <2>2. Along(<<k>>) = [n \in 1 .. 1 |-> x]
      BY <1>4, <2>1
    <2> HIDE DEF x
    <2> QED  BY <2>2
  <1> QED  BY <1>2, <1>3, <1>5

\* What joker calls an oid is what the path to it spells, if what is above it has
\* its namespace by then.
LEMMA NameLeads ==
    ASSUME OidsSound, WellLaidOut, NamespacesSound, NEW k \in 1 .. Numsysctls,
           NodesAt(mmapped.oids[k].parent) # {} => Named(mmapped.oids[k].parent) # {}
    PROVE  \E path : /\ Leads(path, k) /\ sysctlName(mmapped.oids[k]) = Along(path)
                     /\ Len(path) <= Numsysctls + 1
                     /\ mmapped.oids[k].node => Len(path) <= Numsysctls - k + 1
  <1> DEFINE o == mmapped.oids[k]
             z == Numsysctls
             name == sysctlName(o)
  <1>0. z \in Nat /\ k \in 1 .. z /\ o.name \in Nat
    BY OidsAre DEF Oid
  <1>1. CASE Named(o.parent) = {} \/ NodesAt(o.parent) = {}
    <2>1. NodesAt(o.parent) = {} /\ ParentOf(o) = 0
      BY <1>1, ParentIs
    <2>2. name = <<o.name>>
      <3>1. CASE Named(o.parent) = {}
        BY <3>1 DEF sysctlName
      <3>2. CASE Named(o.parent) # {}
        <4> DEFINE n == Lowest(Named(o.parent))
        <4>1. n \in DOMAIN namespaces /\ namespaces[n].addr = o.parent
          <5>1. Named(o.parent) \in SUBSET Nat
            BY DEF Named, NamespacesSound
          <5>2. n \in Named(o.parent)
            BY <3>2, <5>1, LowestIs
          <5> QED  BY <5>2 DEF Named
        <4>2. IsNamespace(namespaces[n])
          BY <4>1 DEF NamespacesSound
        <4>3. namespaces[n].name = <<>>
          <5> SUFFICES ASSUME NEW j \in DOMAIN mmapped.oids, mmapped.oids[j].node,
                              mmapped.oids[j].arg1 = o.parent
                       PROVE  FALSE
            BY <4>1, <4>2 DEF IsNamespace
          <5> QED  BY <2>1 DEF NodesAt
        <4> HIDE DEF n
        <4>4. name = Append(namespaces[n].name, o.name)
          BY <3>2 DEF sysctlName, n
        <4> QED  BY <4>3, <4>4
      <3> QED  BY <3>1, <3>2
    <2>3. Leads(<<k>>, k) /\ Len(<<k>>) = 1 /\ Along(<<k>>) = <<o.name>>
      BY <2>1, LeadsFirst
    <2>4. 1 <= z + 1 /\ 1 <= z - k + 1
      BY <1>0
    <2> HIDE DEF o, z, name
    <2> WITNESS <<k>>
    <2> QED  BY <2>2, <2>3, <2>4 DEF o, z, name
  <1>2. CASE Named(o.parent) # {} /\ NodesAt(o.parent) # {}
    <2> DEFINE n == Lowest(Named(o.parent))
    <2>1. n \in DOMAIN namespaces /\ namespaces[n].addr = o.parent
      <3>1. Named(o.parent) \in SUBSET Nat
        BY DEF Named, NamespacesSound
      <3>2. n \in Named(o.parent)
        BY <1>2, <3>1, LowestIs
      <3> QED  BY <3>2 DEF Named
    <2>2. IsNamespace(namespaces[n])
      BY <2>1 DEF NamespacesSound
    <2>0. PICK j \in DOMAIN mmapped.oids :
               /\ mmapped.oids[j].node /\ mmapped.oids[j].arg1 = o.parent
               /\ \E path : /\ Leads(path, j) /\ Len(path) <= z - j + 1
                            /\ namespaces[n].name = Along(path)
      BY <1>2, <2>1, <2>2 DEF IsNamespace
    <2>3. PICK path : /\ Leads(path, j) /\ Len(path) <= z - j + 1
                      /\ namespaces[n].name = Along(path)
      BY <2>0
    <2> HIDE DEF n
    <2>4. j \in 1 .. z
      BY OidsAre
    <2>5. NodesAt(o.parent) = {j} /\ ParentOf(o) = j
      <3>1. NodesAt(o.parent) = {j}
        BY <2>0, <2>4, NodeIs
      <3>2. ParentOf(o) # 0 /\ ParentOf(o) \in {j}
        BY <3>1, ParentIs
      <3> QED  BY <3>1, <3>2
    <2>6. o.node => j \in k + 1 .. z
      <3>1. j # 0
        BY <2>4, <1>0
      <3> QED  BY <2>5, <3>1, NodeIs
    <2>7. name = Append(Along(path), o.name)
      BY <1>2, <2>3 DEF sysctlName, n
    <2>8. Leads(Append(path, k), k) /\ Along(Append(path, k)) = Append(Along(path), o.name)
      BY <2>3, <2>4, <2>5, LeadsOn
    <2>9. Len(Append(path, k)) = Len(path) + 1 /\ Len(path) \in Nat
      <3>1. path \in Seq(DOMAIN mmapped.oids)
        BY <2>3 DEF Leads
      <3> QED  BY <3>1, LenProperties, AppendProperties, OidsAre
    <2>10. Len(path) + 1 <= z + 1 /\ (o.node => Len(path) + 1 <= z - k + 1)
      <3> HIDE DEF o, z
      <3> QED  BY <1>0, <2>3, <2>4, <2>6, <2>9
    <2> HIDE DEF o, z, name
    <2> WITNESS Append(path, k)
    <2> QED  BY <2>7, <2>8, <2>9, <2>10 DEF o, z, name
  <1> QED  BY <1>1, <1>2

LEMMA TablesSame ==
    ASSUME mmapped' = mmapped
    PROVE  /\ Numsysctls' = Numsysctls /\ WellLaidOut' = WellLaidOut
           /\ \A space : IsNamespace(space)' <=> IsNamespace(space)
           /\ \A k : FullNames(k)' = FullNames(k)
           /\ \A k : Printed(k)' <=> Printed(k)
  <1>1. Numsysctls' = Numsysctls /\ \A addr : NodesAt(addr)' = NodesAt(addr)
    BY DEF Numsysctls, NodesAt
  <1>2. \A o : ParentOf(o)' = ParentOf(o)
    BY DEF ParentOf, NodesAt
  <1>3. WellLaidOut' = WellLaidOut
    BY DEF WellLaidOut, NodesAt, ParentOf, Numsysctls
  <1>4. \A space : IsNamespace(space)' <=> IsNamespace(space)
    BY DEF IsNamespace, NodesAt, Leads, Along, ParentOf, Numsysctls
  <1>5. \A k : FullNames(k)' = FullNames(k)
    BY DEF FullNames, Paths, ParentOf, NodesAt, Numsysctls
  <1>6. \A k : Printed(k)' <=> Printed(k)
    BY DEF Printed
  <1> QED  BY <1>1, <1>3, <1>4, <1>5, <1>6

Namespace == [addr : Nat, name : Seq(Nat)]

LEMMA SpaceIs ==
    ASSUME NEW a \in Nat, NEW b \in Seq(Nat)
    PROVE  [addr |-> a, name |-> b] \in Namespace
  BY DEF Namespace

\* A namespace more.
LEMMA SpacesGrow ==
    ASSUME mmapped' = mmapped, NEW c \in Namespace, IsNamespace(c),
           namespaces \in Seq(Namespace), \A n \in DOMAIN namespaces : IsNamespace(namespaces[n]),
           namespaces' = Append(namespaces, c)
    PROVE  /\ namespaces' \in Seq(Namespace)
           /\ \A n \in DOMAIN namespaces' : IsNamespace(namespaces[n])'
           /\ \A addr : Named(addr) # {} \/ addr = c.addr => Named(addr)' # {}
  <1> DEFINE z == Len(namespaces)
             new == namespaces'
  <1>1. /\ new \in Seq(Namespace) /\ DOMAIN new = 1 .. z + 1 /\ DOMAIN namespaces = 1 .. z
        /\ z \in Nat /\ new[z + 1] = c /\ \A n \in 1 .. z : new[n] = namespaces[n]
    BY DEF Namespace
  <1>2. ASSUME NEW n \in DOMAIN new PROVE IsNamespace(namespaces[n])'
    <2> DEFINE d == new[n]
    <2>1. IsNamespace(d)
      BY <1>1
    <2> HIDE DEF d
    <2>2. PICK x : x = d
      OBVIOUS
    <2>3. IsNamespace(x)'
      BY <2>1, <2>2, TablesSame
    <2> QED  BY <2>2, <2>3 DEF d, IsNamespace, NodesAt
  <1>3. ASSUME NEW addr, Named(addr) # {} \/ addr = c.addr PROVE Named(addr)' # {}
    <2>1. Named(addr)' = {n \in 1 .. z + 1 : new[n].addr = addr}
      BY <1>1 DEF Named
    <2>2. Named(addr) = {n \in 1 .. z : namespaces[n].addr = addr}
      BY <1>1 DEF Named
    <2> HIDE DEF z, new
    <2>3. CASE Named(addr) # {}
      <3>1. PICK n \in 1 .. z : namespaces[n].addr = addr
        BY <2>2, <2>3
      <3>2. n \in 1 .. z + 1 /\ new[n].addr = addr
        BY <1>1, <3>1
      <3> QED  BY <2>1, <3>2
    <2>4. CASE addr = c.addr
      <3>1. z + 1 \in 1 .. z + 1 /\ new[z + 1].addr = addr
        BY <1>1, <2>4
      <3> QED  BY <2>1, <3>1
    <2> QED  BY <1>3, <2>3, <2>4
  <1> QED  BY <1>1, <1>2, <1>3

\* A step that adds no namespace leaves those sound.
LEMMA SpacesStay ==
    ASSUME mmapped' = mmapped, namespaces' = namespaces, NamespacesSound,
           joker' \in {"sysctls", "done"} => joker \in {"sysctls", "done"} /\ \A k \in DOMAIN mmapped.oids : Met(k)' => Met(k)
    PROVE  NamespacesSound'
  <1>1. namespaces' \in Seq([addr : Nat, name : Seq(Nat)])
    BY DEF NamespacesSound
  <1>2. ASSUME NEW n \in DOMAIN namespaces' PROVE IsNamespace(namespaces[n])'
    <2>1. PICK x : x = namespaces[n]
      OBVIOUS
    <2>2. IsNamespace(x)'
      BY <2>1, TablesSame DEF NamespacesSound
    <2> QED  BY <2>1, <2>2 DEF IsNamespace, NodesAt
  <1>3. ASSUME joker' \in {"sysctls", "done"} PROVE MetAreNamed'
    <2>1. \A addr : Named(addr)' = Named(addr)
      BY DEF Named
    <2>2. \A k \in DOMAIN mmapped.oids : Met(k) => Named(mmapped.oids[k].arg1) # {}
      BY <1>3 DEF NamespacesSound, MetAreNamed
    <2>3. \A k \in DOMAIN mmapped.oids : Met(k)' => Met(k)
      BY <1>3
    <2> SUFFICES ASSUME NEW k \in DOMAIN mmapped.oids, Met(k)'
                 PROVE  Named(mmapped.oids[k].arg1) # {}
      BY <2>1 DEF MetAreNamed, Named
    <2> QED  BY <2>2, <2>3
  <1> QED  BY <1>1, <1>2, <1>3 DEF NamespacesSound

\* Before the third pass no sysctl is printed.
LEMMA NoneYet ==
    ASSUME sysctls' = <<>>, pass' # 2 \/ oid' = 1
    PROVE  SysctlsSound'
  <1> DEFINE D == DOMAIN mmapped'.oids
  <1>1. <<>> \in Seq([oid : D, name : Seq(Nat)]) /\ DOMAIN <<>> = {}
    OBVIOUS
  <1>2. sysctls' \in Seq([oid : DOMAIN mmapped'.oids, name : Seq(Nat)]) /\ DOMAIN sysctls' = {}
    BY <1>1
  <1>3. pass' = 2 => {sysctls'[k].oid : k \in DOMAIN sysctls'} = {k \in DOMAIN mmapped'.oids : k < oid' /\ Printed(k)'}
    BY <1>2
  <1> QED  BY <1>2, <1>3 DEF SysctlsSound

LEMMA PassNodeKeeps ==
    ASSUME TablesInv, WellLaidOut, PassNode
    PROVE  NamespacesSound' /\ SysctlsSound'
  <1>1. /\ OidsSound /\ NamespacesSound /\ SysctlsSound
        /\ joker = "sysctls" /\ pass \in {0, 1} /\ oid \in 1 .. Numsysctls /\ oid' = oid - 1
        /\ mmapped' = mmapped /\ pass' = pass /\ sysctls' = sysctls /\ sysctls = <<>>
    BY DEF PassNode, TablesInv, OidsSound, SysctlsSound, Numsysctls
  <1>2. SysctlsSound'
    BY <1>1, NoneYet
  <1>3. PICK o : o = this
    OBVIOUS
  <1>4. o = mmapped.oids[oid] /\ o \in Oid /\ mmapped.oids \in Seq(Oid)
    BY <1>1, <1>3, OidsAre DEF this, OidsSound
  <1>5. \A k \in DOMAIN mmapped.oids : Met(k)' => Met(k) \/ (k = oid /\ pass = 1 /\ o.node)
    <2> SUFFICES ASSUME NEW k \in DOMAIN mmapped.oids, Met(k)', ~Met(k) PROVE k = oid /\ pass = 1 /\ o.node
      OBVIOUS
    <2>1. mmapped.oids[k].node /\ pass = 1 /\ k > oid - 1 /\ ~(k > oid)
      BY <1>1 DEF Met
    <2>2. k \in 1 .. Numsysctls /\ Numsysctls \in Nat
      BY <1>1, OidsAre
    <2>3. k = oid
      <3> HIDE DEF Met
      <3> QED  BY <1>1, <2>1, <2>2
    <2> QED  BY <1>4, <2>1, <2>3
  <1>6. CASE o.outside \/ ~o.node \/ (pass = 0 /\ ~o.kperf)
    <2>1. namespaces' = namespaces /\ joker' = joker
      BY <1>3, <1>6 DEF PassNode
    <2>2. \A k \in DOMAIN mmapped.oids : Met(k)' => Met(k)
      <3> SUFFICES ASSUME pass = 1, o.node PROVE FALSE
        BY <1>5
      <3>1. ~o.outside
        BY <1>1, <1>4, NodeIs
      <3> QED  BY <1>6, <3>1
    <2>3. NamespacesSound'
      BY <1>1, <2>1, <2>2, SpacesStay
    <2> QED  BY <1>2, <2>3
  <1>7. CASE ~(o.outside \/ ~o.node \/ (pass = 0 /\ ~o.kperf))
    <2> DEFINE addr == IF pass = 0 THEN o.parent ELSE o.arg1
               name == IF pass = 0 THEN <<>> ELSE sysctlName(o)
    <2>1. addSysctlNamespace(addr, name)
      BY <1>3, <1>7 DEF PassNode
    <2>2. CASE joker' = "overrun"
      <3>1. namespaces' = namespaces
        BY <1>1, <2>1, <2>2 DEF addSysctlNamespace
      <3>2. NamespacesSound'
        BY <1>1, <2>2, <3>1, SpacesStay
      <3> QED  BY <1>2, <3>2
    <2>3. CASE joker' # "overrun"
      <3> PICK c : c = [addr |-> addr, name |-> name]
        OBVIOUS
      <3>1. namespaces' = Append(namespaces, c) /\ joker' = joker
        BY <2>1, <2>3 DEF addSysctlNamespace
      <3>2. namespaces \in Seq(Namespace) /\ \A n \in DOMAIN namespaces : IsNamespace(namespaces[n])
        BY <1>1 DEF NamespacesSound, Namespace
      <3>3. c \in Namespace /\ IsNamespace(c)
        <4>1. CASE pass = 0
          <5>1. c = [addr |-> o.parent, name |-> <<>>]
            BY <4>1, Zenon
          <5>2. ParentOf(o) = 0
            BY <1>1, <1>4, <1>7, <4>1, OidsAre DEF WellLaidOut
          <5>3. NodesAt(o.parent) = {}
            BY <1>1, <5>2, ParentIs
          <5>4. o.parent \in Nat /\ <<>> \in Seq(Nat)
            BY <1>4 DEF Oid
          <5>5. c.addr = o.parent /\ c.name = <<>>
            BY <5>1
          <5>6. IsNamespace(c)
            BY <5>3, <5>5 DEF IsNamespace
          <5>7. c \in Namespace
            <6> HIDE DEF addr, name
            <6> QED  BY <5>1, <5>4, SpaceIs, Zenon
          <5> QED  BY <5>6, <5>7
        <4>2. CASE pass # 0
          <5>1. pass = 1 /\ c = [addr |-> o.arg1, name |-> sysctlName(o)]
            BY <1>1, <4>2
          <5>2. NodesAt(o.parent) # {} => Named(o.parent) # {}
            <6> SUFFICES ASSUME NodesAt(o.parent) # {} PROVE Named(o.parent) # {}
              OBVIOUS
            <6>1. PICK j : j = ParentOf(o)
              OBVIOUS
            <6>2. j # 0 /\ j \in NodesAt(o.parent)
              BY <1>1, <6>1, ParentIs
            <6>3. j \in oid + 1 .. Numsysctls
              BY <1>1, <1>4, <1>7, <6>1, <6>2, NodeIs
            <6>4. j > oid /\ j \in DOMAIN mmapped.oids /\ mmapped.oids[j].node /\ mmapped.oids[j].arg1 = o.parent
              BY <1>1, <6>2, <6>3 DEF NodesAt
            <6>5. Met(j)
              BY <5>1, <6>4 DEF Met
            <6> QED  BY <1>1, <6>4, <6>5 DEF NamespacesSound, MetAreNamed
          <5>3. PICK path : /\ Leads(path, oid) /\ sysctlName(o) = Along(path)
                            /\ Len(path) <= Numsysctls - oid + 1
            BY <1>1, <1>4, <1>7, <5>2, NameLeads
          <5>4. IsNamespace(c)
            BY <1>1, <1>4, <1>7, <5>1, <5>3, OidsAre DEF IsNamespace
          <5>5. sysctlName(o) \in Seq(Nat)
            BY <1>1, <5>3, AlongIs
          <5> QED  BY <1>4, <5>1, <5>4, <5>5 DEF Namespace, Oid
        <4> QED  BY <4>1, <4>2
      <3>4. /\ namespaces' \in Seq(Namespace) /\ \A n \in DOMAIN namespaces' : IsNamespace(namespaces[n])'
            /\ \A a : Named(a) # {} \/ a = c.addr => Named(a)' # {}
        BY <1>1, <3>1, <3>2, <3>3, SpacesGrow
      <3>5. MetAreNamed'
        <4> SUFFICES ASSUME NEW k \in DOMAIN mmapped.oids, Met(k)'
                     PROVE  Named(mmapped.oids[k].arg1)' # {}
          BY <1>1 DEF MetAreNamed
        <4>1. PICK a : a = mmapped.oids[k].arg1
          OBVIOUS
        <4>2. Named(a) # {} \/ a = c.addr
          <5>1. CASE Met(k)
            BY <1>1, <4>1, <5>1 DEF NamespacesSound, MetAreNamed
          <5>2. CASE ~Met(k)
            <6>1. k = oid /\ pass = 1
              BY <1>5, <5>2
            <6> QED  BY <1>4, <4>1, <6>1
          <5> QED  BY <5>1, <5>2
        <4>3. Named(a)' # {}
          BY <3>4, <4>2
        <4> QED  BY <1>1, <4>1, <4>3 DEF Named
      <3>6. NamespacesSound'
        BY <3>4, <3>5 DEF NamespacesSound, Namespace
      <3> QED  BY <1>2, <3>6
    <2> QED  BY <2>2, <2>3
  <1> QED  BY <1>6, <1>7

LEMMA PathSpells ==
    ASSUME OidsSound, NEW k, NEW path, Leads(path, k), Len(path) <= Numsysctls + 1
    PROVE  Along(path) \in FullNames(k)
  <1> DEFINE D == DOMAIN mmapped.oids
             z == Len(path)
             top == Numsysctls + 1
  <1>1. path \in Seq(D) /\ path # <<>> /\ top \in Nat
    BY OidsAre DEF Leads
  <1> HIDE DEF D
  <1>2. z \in Nat \ {0} /\ path \in [1 .. z -> D]
    BY <1>1
  <1>3. z \in 1 .. top
    BY <1>1, <1>2
  <1> HIDE DEF z, top
  <1>4. path \in UNION {[1 .. n -> D] : n \in 1 .. top}
    BY <1>2, <1>3, Zenon
  <1>5. path \in Paths(k)
    BY <1>4 DEF Paths, Leads, D, top
  <1> QED  BY <1>5 DEF FullNames, Along

Line == [oid : DOMAIN mmapped.oids, name : Seq(Nat)]

AtSysctl ==
    /\ joker = "sysctls" /\ pass = 2 /\ oid \in 1 .. Numsysctls
    /\ this = mmapped.oids[oid] /\ this \in Oid

\* In the third pass all nodes have their namespaces.
LEMMA SysctlIsNamed ==
    ASSUME OidsSound, WellLaidOut, NamespacesSound, AtSysctl
    PROVE  sysctlName(this) \in Seq(Nat) /\ sysctlName(this) \in FullNames(oid)
  <1>1. this = mmapped.oids[oid] /\ oid \in 1 .. Numsysctls
    BY DEF AtSysctl
  <1> PICK o : o = this
    OBVIOUS
  <1>2. NodesAt(o.parent) # {} => Named(o.parent) # {}
    <2> SUFFICES ASSUME NEW j \in NodesAt(o.parent) PROVE Named(o.parent) # {}
      OBVIOUS
    <2>1. j \in DOMAIN mmapped.oids /\ mmapped.oids[j].node /\ mmapped.oids[j].arg1 = o.parent
      BY DEF NodesAt
    <2>2. Met(j)
      BY <2>1 DEF Met, AtSysctl
    <2> QED  BY <2>1, <2>2 DEF NamespacesSound, MetAreNamed, AtSysctl
  <1>3. PICK path : /\ Leads(path, oid) /\ sysctlName(o) = Along(path)
                    /\ Len(path) <= Numsysctls + 1
    BY <1>1, <1>2, NameLeads
  <1> QED  BY <1>3, AlongIs, PathSpells

LEMMA PrintSysctlKeeps ==
    ASSUME TablesInv, WellLaidOut, PrintSysctl
    PROVE  NamespacesSound' /\ SysctlsSound'
  <1>1. /\ OidsSound /\ NamespacesSound /\ SysctlsSound
        /\ joker = "sysctls" /\ pass = 2 /\ oid \in 1 .. Numsysctls /\ oid' = oid + 1
        /\ mmapped' = mmapped /\ pass' = pass /\ namespaces' = namespaces /\ joker' = joker
    BY DEF PrintSysctl, TablesInv, OidsSound, Numsysctls
  <1>2. NamespacesSound'
    <2>1. \A k \in DOMAIN mmapped.oids : Met(k)' => Met(k)
      BY <1>1 DEF Met
    <2> QED  BY <1>1, <2>1, SpacesStay
  <1>3. AtSysctl
    BY <1>1, OidsAre DEF this, AtSysctl
  <1>4. PICK k0 : k0 = oid
    OBVIOUS
  <1>5. k0 \in DOMAIN mmapped.oids /\ k0 \in Nat /\ oid' = k0 + 1
    BY <1>1, <1>4, OidsAre
  <1> DEFINE D == DOMAIN mmapped.oids
             before == {k \in D : k < k0 /\ Printed(k)}
             after == {k \in D : k < k0 + 1 /\ Printed(k)}
  <1>6. /\ sysctls \in Seq(Line)
        /\ \A k \in DOMAIN sysctls : sysctls[k].name \in FullNames(sysctls[k].oid)
        /\ \A k, later \in DOMAIN sysctls : k < later => sysctls[k].oid < sysctls[later].oid
        /\ {sysctls[k].oid : k \in DOMAIN sysctls} = before
    BY <1>1, <1>4 DEF SysctlsSound, Line
  <1>7. D \subseteq Nat
    BY <1>1, OidsAre
  <1>8. /\ \A k : FullNames(k)' = FullNames(k)
        /\ \A k : Printed(k)' <=> Printed(k)
    BY <1>1, TablesSame
  <1>9. after = IF Printed(k0) THEN before \cup {k0} ELSE before
    BY <1>5, <1>7
  <1> HIDE DEF before, after
  <1>10. ASSUME /\ sysctls' \in Seq(Line)
                /\ \A k \in DOMAIN sysctls' : sysctls'[k].name \in FullNames(sysctls'[k].oid)
                /\ \A k, later \in DOMAIN sysctls' : k < later => sysctls'[k].oid < sysctls'[later].oid
                /\ {sysctls'[k].oid : k \in DOMAIN sysctls'} = after
         PROVE  SysctlsSound'
    <2>1. \A k \in DOMAIN sysctls' : sysctls'[k].name \in FullNames(sysctls[k].oid)'
      <3> SUFFICES ASSUME NEW k \in DOMAIN sysctls'
                   PROVE  sysctls'[k].name \in FullNames(sysctls[k].oid)'
        OBVIOUS
      <3>1. PICK x : x = sysctls'[k].oid
        OBVIOUS
      <3>2. sysctls'[k].name \in FullNames(x)'
        BY <1>8, <1>10, <3>1
      <3> QED  BY <3>1, <3>2 DEF FullNames, Paths
    <2>2. after = {k \in DOMAIN mmapped'.oids : k < oid' /\ Printed(k)'}
      BY <1>1, <1>5, <1>8 DEF after
    <2> QED  BY <1>1, <1>10, <2>1, <2>2 DEF SysctlsSound, Line
  <1>11. CASE ~Printed(k0)
    <2>1. sysctls' = sysctls
      BY <1>3, <1>4, <1>11 DEF PrintSysctl, AtSysctl, Printed
    <2> QED  BY <1>2, <1>6, <1>9, <1>10, <1>11, <2>1
  <1>12. CASE Printed(k0)
    <2> DEFINE name == sysctlName(this)
               c == [oid |-> k0, name |-> name]
               z == Len(sysctls)
               new == sysctls'
    <2>1. new = Append(sysctls, c)
      BY <1>3, <1>4, <1>12 DEF PrintSysctl, AtSysctl, Printed
    <2>2. name \in Seq(Nat) /\ name \in FullNames(k0)
      BY <1>1, <1>3, <1>4, SysctlIsNamed
    <2> HIDE DEF name
    <2>3. c \in Line /\ c.oid = k0 /\ c.name \in FullNames(k0)
      BY <1>5, <2>2 DEF Line
    <2> HIDE DEF c, D
    <2>4. /\ new \in Seq(Line) /\ DOMAIN new = 1 .. z + 1 /\ DOMAIN sysctls = 1 .. z /\ z \in Nat
          /\ new[z + 1] = c /\ \A k \in 1 .. z : new[k] = sysctls[k]
      <3> HIDE DEF Line
      <3> QED  BY <1>6, <2>1, <2>3
    <2> HIDE DEF z, new
    <2>5. \A k \in 1 .. z : sysctls[k].oid \in before
      BY <1>6, <2>4
    <2>6. \A k \in 1 .. z : sysctls[k].oid < k0
      BY <2>5 DEF before
    <2>7. \A k \in DOMAIN new : new[k].name \in FullNames(new[k].oid)
      <3> SUFFICES ASSUME NEW k \in 1 .. z + 1 PROVE new[k].name \in FullNames(new[k].oid)
        BY <2>4
      <3>1. CASE k = z + 1
        BY <2>3, <2>4, <3>1
      <3>2. CASE k # z + 1
        <4>1. k \in 1 .. z
          BY <2>4, <3>2
        <4> QED  BY <1>6, <2>4, <4>1
      <3> QED  BY <3>1, <3>2
    <2>8. \A k, later \in DOMAIN new : k < later => new[k].oid < new[later].oid
      <3> SUFFICES ASSUME NEW k \in 1 .. z + 1, NEW later \in 1 .. z + 1, k < later
                   PROVE  new[k].oid < new[later].oid
        BY <2>4
      <3>1. k \in 1 .. z
        BY <2>4
      <3>2. CASE later = z + 1
        BY <2>3, <2>4, <2>6, <3>1, <3>2
      <3>3. CASE later # z + 1
        <4>1. later \in 1 .. z
          BY <2>4, <3>3
        <4> QED  BY <1>6, <2>4, <3>1, <4>1
      <3> QED  BY <3>2, <3>3
    <2>9. {new[k].oid : k \in DOMAIN new} = after
      <3>1. {new[k].oid : k \in 1 .. z + 1} = {sysctls[k].oid : k \in 1 .. z} \cup {k0}
        <4>1. \A k \in 1 .. z + 1 : k \in 1 .. z \/ k = z + 1
          BY <2>4
        <4>2. z + 1 \in 1 .. z + 1 /\ \A k \in 1 .. z : k \in 1 .. z + 1
          BY <2>4
        <4> QED  BY <2>3, <2>4, <4>1, <4>2
      <3> QED  BY <1>6, <1>9, <1>12, <2>4, <3>1
    <2> HIDE DEF D
    <2> QED  BY <1>2, <1>10, <2>4, <2>7, <2>8, <2>9 DEF new
  <1> QED  BY <1>11, <1>12

LEMMA TablesStart == TablesInit => TablesInv
  <1> SUFFICES ASSUME TablesInit PROVE TablesInv
    OBVIOUS
  <1>1. mmapped \in File /\ joker = "open" /\ pass = 0 /\ oid = Len(mmapped.oids)
        /\ namespaces = <<>> /\ sysctls = <<>>
    BY TablesAssumption DEF TablesInit
  <1>2. mmapped.oids \in Seq(Oid)
    BY <1>1 DEF File
  <1>3. OidsSound
    <2>1. Len(mmapped.oids) \in Nat
      BY <1>2
    <2> QED  BY <1>1, <1>2, <2>1 DEF OidsSound, Numsysctls
  <1>4. <<>> \in Seq(Namespace) /\ DOMAIN <<>> = {}
    OBVIOUS
  <1>5. NamespacesSound
    BY <1>1, <1>4 DEF NamespacesSound, Namespace
  <1>6. <<>> \in Seq(Line)
    OBVIOUS
  <1>7. SysctlsSound
    BY <1>1, <1>4, <1>6 DEF SysctlsSound, Line
  <1> QED  BY <1>3, <1>5, <1>7 DEF TablesInv

\* What main does before doSysctls prints no sysctl.
LEMMA OpenKeeps ==
    ASSUME TablesInv, OpenMachO \/ OpenOther \/ Decompressed \/ PrintTables
    PROVE  TablesInv'
  <1>1. /\ joker \in {"open", "tables"} /\ joker' \in {"open", "tables", "sysctls", "refused"}
        /\ pass' = pass /\ oid' = oid /\ namespaces' = namespaces /\ sysctls' = sysctls
        /\ mmapped'.oids = mmapped.oids
    <2>1. OpenMachO \/ OpenOther \/ PrintTables => mmapped'.oids = mmapped.oids
      BY DEF OpenMachO, OpenOther, PrintTables
    <2>2. Decompressed => mmapped'.oids = mmapped.oids
      <3>1. \A l : [mmapped EXCEPT !.layers = l].oids = mmapped.oids
        OBVIOUS
      <3> QED  BY <3>1 DEF Decompressed
    <2>3. joker' \in {"open", "tables", "sysctls", "refused"}
      <3>1. Decompressed => joker' \in {"open", "refused"}
        BY DEF Decompressed
      <3> QED  BY <3>1 DEF OpenMachO, OpenOther, PrintTables
    <2> QED  BY <2>1, <2>2, <2>3 DEF OpenMachO, OpenOther, Decompressed, PrintTables, sysctlVars
  <1>2. OidsSound /\ pass = 0 /\ oid = Numsysctls /\ namespaces = <<>> /\ sysctls = <<>>
    BY <1>1 DEF TablesInv, OidsSound
  <1>3. OidsSound'
    <2>1. Numsysctls' = Numsysctls
      BY <1>1 DEF Numsysctls
    <2>2. /\ mmapped'.oids \in Seq(Oid) /\ pass' = 0 /\ oid' = Numsysctls' /\ oid' \in 0 .. Numsysctls' + 1
          /\ namespaces' = <<>> /\ sysctls' = <<>> /\ joker' \in {"open", "tables", "sysctls", "refused"}
      BY <1>1, <1>2, <2>1 DEF OidsSound
    <2> QED  BY <2>2, OidsAre, <1>2, <2>1 DEF OidsSound
  <1>4. <<>> \in Seq(Namespace) /\ DOMAIN <<>> = {}
    OBVIOUS
  <1>5. NamespacesSound'
    <2>1. \A k : ~Met(k)'
      BY <1>1, <1>2 DEF Met
    <2>2. MetAreNamed'
      BY <2>1 DEF MetAreNamed
    <2> QED  BY <1>1, <1>2, <1>4, <2>2 DEF NamespacesSound, Namespace
  <1>6. SysctlsSound'
    BY <1>1, <1>2, NoneYet
  <1> QED  BY <1>3, <1>5, <1>6 DEF TablesInv

LEMMA OidsKeep ==
    ASSUME OidsSound, PassNode \/ PassEnd \/ PrintSysctl \/ SysctlsEnd
    PROVE  OidsSound'
  <1> DEFINE z == Numsysctls
  <1>1. z \in Nat /\ mmapped' = mmapped /\ joker = "sysctls" /\ z' = z
        /\ pass \in {0, 1, 2} /\ oid \in 0 .. z + 1 /\ (pass < 2 => oid <= z)
    BY OidsAre DEF OidsSound, PassNode, PassEnd, PrintSysctl, SysctlsEnd, Numsysctls
  <1>2. mmapped'.oids \in Seq(Oid)
    BY <1>1 DEF OidsSound
  <1>3. joker' \notin {"open", "tables"} /\ joker' \in {"sysctls", "done", "overrun"}
        /\ (joker' = "done" <=> SysctlsEnd)
    <2>1. PassNode => joker' \in {"sysctls", "overrun"}
      BY <1>1 DEF PassNode, addSysctlNamespace
    <2>2. PassEnd \/ PrintSysctl => joker' = "sysctls"
      BY <1>1 DEF PassEnd, PrintSysctl
    <2>3. SysctlsEnd => joker' = "done"
      BY DEF SysctlsEnd
    <2> QED  BY <2>1, <2>2, <2>3
  <1>4. /\ pass' \in {0, 1, 2} /\ oid' \in 0 .. z + 1 /\ (pass' < 2 => oid' <= z) /\ (pass' = 2 => oid' > 0)
        /\ SysctlsEnd => pass' = 2 /\ oid' = z + 1
    <2>0. pass = 2 => oid > 0
      BY DEF OidsSound
    <2> HIDE DEF z
    <2>1. CASE PassNode
      <3>1. pass' = pass /\ pass < 2 /\ oid > 0 /\ oid' = oid - 1
        BY <2>1 DEF PassNode
      <3>2. ~SysctlsEnd
        BY <3>1 DEF SysctlsEnd
      <3> QED  BY <1>1, <3>1, <3>2
    <2>2. CASE PassEnd
      <3>1. pass < 2 /\ pass' = pass + 1 /\ oid' = (IF pass = 0 THEN z ELSE 1)
        BY <2>2 DEF PassEnd, z
      <3>2. ~SysctlsEnd
        BY <3>1 DEF SysctlsEnd
      <3> QED  BY <1>1, <3>1, <3>2
    <2>3. CASE PrintSysctl
      <3>1. pass = 2 /\ oid <= z /\ pass' = pass /\ oid' = oid + 1
        BY <2>3 DEF PrintSysctl, z
      <3>2. ~SysctlsEnd
        BY <3>1, <1>1 DEF SysctlsEnd, z
      <3> QED  BY <1>1, <2>0, <3>1, <3>2
    <2>4. CASE SysctlsEnd
      <3>1. pass = 2 /\ oid > z /\ pass' = pass /\ oid' = oid
        BY <2>4 DEF SysctlsEnd, sysctlVars, z
      <3> QED  BY <1>1, <3>1
    <2> QED  BY <2>1, <2>2, <2>3, <2>4
  <1> QED  BY <1>1, <1>2, <1>3, <1>4 DEF OidsSound

LEMMA PassEndKeeps ==
    ASSUME TablesInv, WellLaidOut, PassEnd
    PROVE  NamespacesSound' /\ SysctlsSound'
  <1>1. /\ OidsSound /\ NamespacesSound /\ SysctlsSound /\ joker' = joker /\ joker = "sysctls"
        /\ pass \in {0, 1} /\ pass' = pass + 1 /\ oid = 0 /\ oid' = (IF pass = 0 THEN Numsysctls ELSE 1)
        /\ mmapped' = mmapped /\ namespaces' = namespaces /\ sysctls' = sysctls /\ sysctls = <<>>
    BY DEF PassEnd, TablesInv, OidsSound, SysctlsSound
  <1>2. \A k \in DOMAIN mmapped.oids : Met(k)' => Met(k)
    <2> SUFFICES ASSUME NEW k \in DOMAIN mmapped.oids, Met(k)' PROVE Met(k)
      OBVIOUS
    <2>1. k \in 1 .. Numsysctls /\ Numsysctls \in Nat
      BY <1>1, OidsAre
    <2>2. mmapped.oids[k].node /\ (pass' = 2 \/ (pass' = 1 /\ k > oid'))
      BY <1>1 DEF Met
    <2>3. pass = 1
      BY <1>1, <2>1, <2>2
    <2> QED  BY <1>1, <2>1, <2>2, <2>3 DEF Met
  <1>3. NamespacesSound'
    BY <1>1, <1>2, SpacesStay
  <1>4. SysctlsSound'
    BY <1>1, NoneYet
  <1> QED  BY <1>3, <1>4

LEMMA TablesStay ==
    ASSUME TablesInv, WellLaidOut, SysctlsEnd \/ UNCHANGED tablesVars
    PROVE  NamespacesSound' /\ SysctlsSound'
  <1>1. /\ OidsSound /\ NamespacesSound /\ SysctlsSound
        /\ pass' = pass /\ oid' = oid
        /\ mmapped' = mmapped /\ namespaces' = namespaces /\ sysctls' = sysctls
        /\ joker' = joker \/ joker = "sysctls"
    BY DEF SysctlsEnd, TablesInv, tablesVars, sysctlVars
  <1>2. \A k \in DOMAIN mmapped.oids : Met(k)' => Met(k)
    BY <1>1 DEF Met
  <1>3. NamespacesSound'
    BY <1>1, <1>2, SpacesStay
  <1>4. SysctlsSound'
    <2>1. \A k \in DOMAIN sysctls' : sysctls'[k].name \in FullNames(sysctls[k].oid)'
      <3> SUFFICES ASSUME NEW k \in DOMAIN sysctls'
                   PROVE  sysctls'[k].name \in FullNames(sysctls[k].oid)'
        OBVIOUS
      <3>1. PICK x : x = sysctls'[k].oid
        OBVIOUS
      <3>2. sysctls'[k].name \in FullNames(x)'
        BY <1>1, <3>1, TablesSame DEF SysctlsSound
      <3> QED  BY <3>1, <3>2 DEF FullNames, Paths
    <2>2. \A k : Printed(k)' <=> Printed(k)
      BY <1>1, TablesSame
    <2> QED  BY <1>1, <2>1, <2>2 DEF SysctlsSound
  <1> QED  BY <1>3, <1>4

LEMMA TablesStep == TablesInv /\ [TablesNext]_tablesVars => TablesInv'
  <1> SUFFICES ASSUME TablesInv, [TablesNext]_tablesVars PROVE TablesInv'
    OBVIOUS
  <1>1. CASE OpenMachO \/ OpenOther \/ Decompressed \/ PrintTables
    BY <1>1, OpenKeeps
  <1>2. CASE PassNode \/ PassEnd \/ PrintSysctl \/ SysctlsEnd
    <2>1. OidsSound'
      BY <1>2, OidsKeep DEF TablesInv
    <2>2. WellLaidOut' => WellLaidOut
      <3>1. mmapped' = mmapped
        BY <1>2 DEF PassNode, PassEnd, PrintSysctl, SysctlsEnd
      <3> QED  BY <3>1, TablesSame
    <2>3. WellLaidOut => NamespacesSound' /\ SysctlsSound'
      BY <1>2, PassNodeKeeps, PassEndKeeps, PrintSysctlKeeps, TablesStay
    <2> QED  BY <2>1, <2>2, <2>3 DEF TablesInv
  <1>3. CASE UNCHANGED tablesVars
    <2>1. OidsSound'
      BY <1>3 DEF TablesInv, OidsSound, tablesVars, Numsysctls
    <2>2. WellLaidOut' => WellLaidOut
      BY <1>3, TablesSame DEF tablesVars
    <2>3. WellLaidOut => NamespacesSound' /\ SysctlsSound'
      BY <1>3, TablesStay
    <2> QED  BY <2>1, <2>2, <2>3 DEF TablesInv
  <1> QED  BY <1>1, <1>2, <1>3 DEF TablesNext

LEMMA TablesTell == TablesInv => SysctlNamesAreFull
  <1> SUFFICES ASSUME TablesInv, WellLaidOut PROVE SysctlNamesAreFull
    BY DEF SysctlNamesAreFull
  <1>1. OidsSound /\ SysctlsSound
    BY DEF TablesInv
  <1>2. ASSUME joker = "done"
        PROVE  {sysctls[k].oid : k \in DOMAIN sysctls}
                 = {k \in DOMAIN mmapped.oids : ~mmapped.oids[k].node /\ ~mmapped.oids[k].outside}
    <2>1. pass = 2 /\ oid = Numsysctls + 1
      BY <1>1, <1>2 DEF OidsSound
    <2>2. \A k \in DOMAIN mmapped.oids : k < oid
      BY <1>1, <2>1, OidsAre
    <2> QED  BY <1>1, <2>1, <2>2 DEF SysctlsSound, Printed
  <1> QED  BY <1>1, <1>2 DEF SysctlNamesAreFull, SysctlsSound

-----------------------------------------------------------------------------
(* joker: the table of system calls                                        *)

ScanSpec == ScanInit /\ [][ScanNext]_scanVars

\* A mark that counts for this kernel.
Counts(n) == kernel.large /\ kernel.marks[n].sign = (IF From8 THEN "from 8" ELSE "before 8")

\* What the scan has found in the marks before a place: the last that counts.
FoundBefore(place) ==
    \/ /\ \A n \in 1 .. Len(kernel.marks) : n < place => ~Counts(n)
       /\ sysent = 0
    \/ \E n \in 1 .. Len(kernel.marks) :
         /\ n < place /\ Counts(n) /\ sysent = kernel.marks[n].at
         /\ \A m \in 1 .. Len(kernel.marks) : m < place /\ Counts(m) => m <= n

\* What has been taken for the address, if no vector came behind the last that counts.
AddressBefore(place) ==
    From8 =>
        \A n \in 1 .. Len(kernel.marks) :
          /\ n < place /\ Counts(n)
          /\ \A m \in 1 .. Len(kernel.marks) :
               n < m /\ m < place => ~Counts(m) /\ kernel.marks[m].sign # "arm vector"
          => sysentAddr = kernel.marks[n].at

WhatIsDumped ==
    {<<what, 0, 0>> : what \in Requested \cap {"mach", "sysctls"}}
      \cup (IF "unix" \in Requested /\ sysent # 0
            THEN SyscallLines \cup {<<"address", 0, sysentAddr>>} ELSE {})
      \cup {<<what, 0, KextMethod>> : what \in Requested \cap {"kexts", "kextract"}}

ScanInv ==
    /\ kernel \in Kernels /\ markAt \in 1 .. Len(kernel.marks) + 1 /\ sysent \in Nat
    /\ scanner \in {"options", "scan", "constants", "tables", "done", "version", "return"}
    /\ scanner = "options" => markAt = 1
    /\ scanner \in {"options", "scan"} => FoundBefore(markAt) /\ AddressBefore(markAt)
    /\ scanner = "constants" => sysent = 0 /\ FoundBefore(Len(kernel.marks) + 1)
    /\ scanner \in {"tables", "done"} /\ Findable =>
         sysent = kernel.table /\ (AddressKnown => sysentAddr = kernel.table)
    /\ scanner = "done" => dumped = WhatIsDumped

LEMMA KernelIs ==
    ASSUME kernel \in Kernels
    PROVE  /\ kernel.large \in BOOLEAN /\ kernel.is64 \in BOOLEAN /\ kernel.constants \in BOOLEAN
           /\ kernel.marks \in Seq(Mark) /\ Len(kernel.marks) \in Nat
           /\ DOMAIN kernel.marks = 1 .. Len(kernel.marks)
           /\ \A n \in 1 .. Len(kernel.marks) : kernel.marks[n].at \in Nat /\ kernel.marks[n].sign \in Signs
           /\ kernel.signatures \subseteq Nat
           /\ kernel.table \in Nat \ {0} /\ kernel.calls \in Seq(Nat)
           /\ Len(kernel.calls) \in Nat /\ Len(kernel.calls) > 38
  <1>1. /\ kernel.large \in BOOLEAN /\ kernel.is64 \in BOOLEAN /\ kernel.constants \in BOOLEAN
        /\ kernel.marks \in Seq(Mark) /\ kernel.signatures \subseteq Nat
        /\ kernel.table \in Nat \ {0} /\ kernel.calls \in Seq(Nat) /\ Len(kernel.calls) > 38
    BY ScanAssumption
  <1>2. Len(kernel.calls) \in Nat
    BY <1>1
  <1> DEFINE ms == kernel.marks
  <1> HIDE DEF ms
  <1>3. ms \in Seq(Mark)
    BY <1>1 DEF ms
  <1>4. /\ Len(ms) \in Nat /\ DOMAIN ms = 1 .. Len(ms)
        /\ \A n \in 1 .. Len(ms) : ms[n].at \in Nat /\ ms[n].sign \in Signs
    <2>1. Len(ms) \in Nat /\ DOMAIN ms = 1 .. Len(ms) /\ \A n \in 1 .. Len(ms) : ms[n] \in Mark
      BY <1>3
    <2>2. \A m \in Mark : m.at \in Nat /\ m.sign \in Signs
      BY DEF Mark
    <2> QED  BY <2>1, <2>2
  <1> QED  BY <1>1, <1>2, <1>4 DEF ms

\* The marks that count, and the last of them.
LEMMA LastCounts ==
    ASSUME kernel \in Kernels, FoundBefore(Len(kernel.marks) + 1),
           \E n \in 1 .. Len(kernel.marks) : Counts(n)
    PROVE  /\ Highest(TakenFor) \in 1 .. Len(kernel.marks) /\ Counts(Highest(TakenFor))
           /\ sysent = kernel.marks[Highest(TakenFor)].at
           /\ \A m \in 1 .. Len(kernel.marks) : Counts(m) => m <= Highest(TakenFor)
  <1> DEFINE z == Len(kernel.marks)
  <1>1. z \in Nat /\ TakenFor = {n \in 1 .. z : Counts(n)}
    BY KernelIs DEF Counts, TakenFor
  <1>2. \A n \in 1 .. z : n < z + 1
    BY <1>1
  <1>3. PICK n \in 1 .. z : /\ Counts(n) /\ sysent = kernel.marks[n].at
                            /\ \A m \in 1 .. z : Counts(m) => m <= n
    BY <1>2 DEF FoundBefore
  <1>4. n \in TakenFor /\ \A m \in TakenFor : n >= m
    BY <1>1, <1>3
  <1>5. Highest(TakenFor) \in TakenFor /\ \A m \in TakenFor : Highest(TakenFor) >= m
    BY <1>4, Zenon DEF Highest
  <1>6. Highest(TakenFor) = n
    <2> DEFINE h == Highest(TakenFor)
    <2>1. h \in TakenFor /\ h >= n /\ n >= h /\ h \in 1 .. z
      BY <1>1, <1>4, <1>5
    <2> HIDE DEF h
    <2>2. h = n
      BY <1>1, <2>1
    <2> QED  BY <2>2 DEF h
  <1> QED  BY <1>3, <1>6

\* What is found in all marks is the table, if it can be found by them, and its
\* address is known if they tell it.
LEMMA FoundIsTable ==
    ASSUME kernel \in Kernels, FoundBefore(Len(kernel.marks) + 1), Findable
    PROVE  IF \E n \in 1 .. Len(kernel.marks) : Counts(n)
           THEN /\ sysent = kernel.table
                /\ AddressBefore(Len(kernel.marks) + 1) /\ AddressKnown => sysentAddr = kernel.table
           ELSE /\ sysent = 0 /\ kernel.is64
                /\ kernel.signatures # {} /\ Earliest(kernel.signatures) = kernel.table
  <1> DEFINE z == Len(kernel.marks)
  <1>1. z \in Nat /\ TakenFor = {n \in 1 .. z : Counts(n)} /\ DOMAIN kernel.marks = 1 .. z
    BY KernelIs DEF Counts, TakenFor
  <1>2. CASE ~\E n \in 1 .. z : Counts(n)
    <2>1. TakenFor = {} /\ sysent = 0
      BY <1>1, <1>2 DEF FoundBefore
    <2> QED  BY <1>2, <2>1 DEF Findable
  <1>3. CASE \E n \in 1 .. z : Counts(n)
    <2>1. PICK h : h = Highest(TakenFor)
      OBVIOUS
    <2>2. /\ h \in 1 .. z /\ Counts(h) /\ sysent = kernel.marks[h].at
          /\ \A m \in 1 .. z : Counts(m) => m <= h
      BY <1>3, <2>1, LastCounts
    <2>3. TakenFor # {}
      BY <1>1, <1>3
    <2>4. kernel.marks[h].at = kernel.table
      BY <2>1, <2>3 DEF Findable
    <2>5. ASSUME AddressBefore(z + 1), AddressKnown PROVE sysentAddr = kernel.table
      <3>1. From8 /\ \A m \in 1 .. z : m > h => kernel.marks[m].sign # "arm vector"
        BY <1>1, <2>1, <2>3, <2>5 DEF AddressKnown
      <3>2. \A m \in 1 .. z : h < m /\ m < z + 1 => ~Counts(m) /\ kernel.marks[m].sign # "arm vector"
        <4> HIDE DEF z
        <4>1. \A m \in 1 .. z : h < m => m > h /\ ~(m <= h)
          BY <1>1, <2>2
        <4> QED  BY <2>2, <3>1, <4>1, Zenon
      <3>3. h < z + 1
        <4> HIDE DEF z
        <4> QED  BY <1>1, <2>2
      <3>4. sysentAddr = kernel.marks[h].at
        BY <2>2, <2>5, <3>1, <3>2, <3>3 DEF AddressBefore
      <3> QED  BY <2>4, <3>4
    <2> QED  BY <1>3, <2>2, <2>4, <2>5
  <1> QED  BY <1>2, <1>3

LEMMA CountsSame ==
    ASSUME kernel' = kernel
    PROVE  /\ From8' = From8 /\ Findable' = Findable /\ AddressKnown' = AddressKnown
           /\ \A n : Counts(n)' = Counts(n)
  BY DEF From8, Class, Findable, AddressKnown, TakenFor, Counts

\* A step of the scan: the mark counts, and is found, or it does not.
LEMMA ScanSteps ==
    ASSUME ScanInv, ScanVersion \/ ScanVector \/ ScanSysent
    PROVE  /\ FoundBefore(markAt)' /\ AddressBefore(markAt)'
           /\ sysent' \in Nat /\ markAt' \in 1 .. Len(kernel.marks) + 1
  <1> DEFINE z == Len(kernel.marks)
  <1>1. /\ kernel' = kernel /\ kernel \in Kernels /\ kernel.large /\ markAt \in 1 .. z /\ z \in Nat
        /\ markAt' = markAt + 1 /\ FoundBefore(markAt) /\ AddressBefore(markAt)
        /\ mark = kernel.marks[markAt] /\ sysent \in Nat
    <2>1. /\ scanner = "scan" /\ kernel.large /\ markAt <= z /\ kernel' = kernel /\ markAt' = markAt + 1
      BY DEF ScanVersion, ScanVector, ScanSysent, Scanning
    <2>2. /\ kernel \in Kernels /\ markAt \in 1 .. z + 1 /\ sysent \in Nat
          /\ FoundBefore(markAt) /\ AddressBefore(markAt)
      BY <2>1 DEF ScanInv
    <2>3. z \in Nat
      BY <2>2, KernelIs
    <2>4. markAt \in 1 .. z
      <3> HIDE DEF z
      <3> QED  BY <2>1, <2>2, <2>3
    <2> QED  BY <2>1, <2>2, <2>3, <2>4 DEF mark
  <1>2. PICK here : here = markAt
    OBVIOUS
  <1>3. here \in 1 .. z /\ (\A n \in 1 .. z : n < here + 1 <=> (n < here \/ n = here)) /\ here + 1 \in 1 .. z + 1
        /\ here < here + 1
    <2> HIDE DEF z
    <2> QED  BY <1>1, <1>2
  <1>4. /\ z' = z /\ kernel'.marks = kernel.marks
        /\ \A n : Counts(n)' = Counts(n)
    BY <1>1, CountsSame
  <1>5. CASE Counts(here)
    <2>1. ScanSysent /\ (From8 <=> mark.sign = "from 8")
      <3>1. mark.sign = (IF From8 THEN "from 8" ELSE "before 8")
        BY <1>1, <1>2, <1>5 DEF Counts
      <3> QED  BY <3>1 DEF ScanVersion, ScanVector
    <2>2. sysent' = mark.at /\ sysentAddr' = (IF From8 THEN mark.at ELSE sysentAddr)
      BY <2>1 DEF ScanSysent
    <2>3. mark.at \in Nat /\ mark.at = kernel.marks[here].at
      BY <1>1, <1>2, <1>3, KernelIs
    <2>4. AddressBefore(markAt)'
      <3>1. ASSUME From8, NEW n \in 1 .. z, n < here + 1,
                   \A m \in 1 .. z : n < m /\ m < here + 1 => ~Counts(m)
            PROVE  sysentAddr' = kernel.marks[n].at
        <4>1. n = here
          BY <1>3, <1>5, <3>1
        <4> QED  BY <2>2, <2>3, <3>1, <4>1
      <3> QED  BY <1>1, <1>2, <1>4, <3>1, CountsSame DEF AddressBefore
    <2>5. \A m \in 1 .. z : m < here + 1 => m <= here
      <3> HIDE DEF z
      <3> QED  BY <1>1, <1>3
    <2>6. FoundBefore(markAt)'
      <3>1. here < markAt' /\ Counts(here)' /\ sysent' = kernel'.marks[here].at
        BY <1>1, <1>2, <1>3, <1>4, <1>5, <2>2, <2>3
      <3>2. \A m \in 1 .. z : m < markAt' /\ Counts(m)' => m <= here
        BY <1>1, <1>2, <2>5
      <3> QED  BY <1>3, <1>4, <3>1, <3>2 DEF FoundBefore
    <2> QED  BY <1>1, <1>2, <1>3, <2>2, <2>3, <2>4, <2>6
  <1>6. CASE ~Counts(here)
    <2>1. sysent' = sysent /\ (sysentAddr' = sysentAddr \/ (ScanVector /\ mark.sign = "arm vector"))
      <3>1. ScanSysent => ~(From8 <=> mark.sign = "from 8")
        <4>1. mark.sign # (IF From8 THEN "from 8" ELSE "before 8")
          BY <1>1, <1>2, <1>6 DEF Counts
        <4> QED  BY <4>1 DEF ScanSysent
      <3>2. ScanSysent => sysent' = sysent /\ sysentAddr' = sysentAddr
        BY <3>1 DEF ScanSysent
      <3> QED  BY <3>2 DEF ScanVersion, ScanVector
    <2>2. AddressBefore(markAt)'
      <3>1. ASSUME From8, NEW n \in 1 .. z, n < here + 1, Counts(n),
                   \A m \in 1 .. z : n < m /\ m < here + 1 =>
                      ~Counts(m) /\ kernel.marks[m].sign # "arm vector"
            PROVE  sysentAddr' = kernel.marks[n].at
        <4>1. n < here
          BY <1>3, <1>6, <3>1
        <4>2. mark.sign # "arm vector"
          BY <1>1, <1>2, <1>3, <3>1, <4>1
        <4>3. sysentAddr' = sysentAddr
          BY <2>1, <4>2 DEF ScanVector
        <4>4. \A m \in 1 .. z : m < here => m < here + 1
          BY <1>3
        <4>5. sysentAddr = kernel.marks[n].at
          BY <1>1, <1>2, <3>1, <4>1, <4>4 DEF AddressBefore
        <4> QED  BY <4>3, <4>5
      <3> QED  BY <1>1, <1>2, <1>4, <3>1, CountsSame DEF AddressBefore
    <2>3. \A n \in 1 .. z : n < markAt' /\ Counts(n)' <=> n < here /\ Counts(n)
      BY <1>1, <1>2, <1>3, <1>4, <1>6
    <2>4. FoundBefore(markAt)'
      <3>1. CASE (\A n \in 1 .. z : n < here => ~Counts(n)) /\ sysent = 0
        <4>1. \A n \in 1 .. z : n < markAt' => ~Counts(n)'
          BY <2>3, <3>1
        <4> QED  BY <1>4, <2>1, <3>1, <4>1 DEF FoundBefore
      <3>2. CASE \E n \in 1 .. z :
                   /\ n < here /\ Counts(n) /\ sysent = kernel.marks[n].at
                   /\ \A m \in 1 .. z : m < here /\ Counts(m) => m <= n
        <4>1. PICK n \in 1 .. z : /\ n < here /\ Counts(n) /\ sysent = kernel.marks[n].at
                                  /\ \A m \in 1 .. z : m < here /\ Counts(m) => m <= n
          BY <3>2
        <4>2. n < markAt' /\ Counts(n)' /\ sysent' = kernel'.marks[n].at
          BY <1>1, <2>1, <2>3, <4>1
        <4>3. \A m \in 1 .. z : m < markAt' /\ Counts(m)' => m <= n
          BY <2>3, <4>1
        <4> QED  BY <1>4, <4>2, <4>3 DEF FoundBefore
      <3> QED  BY <1>1, <1>2, <3>1, <3>2 DEF FoundBefore
    <2> QED  BY <1>1, <1>2, <1>3, <2>1, <2>2, <2>4
  <1> QED  BY <1>5, <1>6

LEMMA ScanStart == ScanInit => ScanInv
  <1> SUFFICES ASSUME ScanInit PROVE ScanInv
    OBVIOUS
  <1>1. kernel \in Kernels /\ scanner = "options" /\ markAt = 1 /\ sysent = 0 /\ sysentAddr = NoAddress
    BY DEF ScanInit
  <1> DEFINE z == Len(kernel.marks)
  <1>2. z \in Nat
    BY <1>1, KernelIs
  <1>3. 1 \in 1 .. z + 1 /\ \A n \in 1 .. z : ~(n < 1)
    <2> HIDE DEF z
    <2> QED  BY <1>2
  <1>4. FoundBefore(markAt) /\ AddressBefore(markAt)
    BY <1>1, <1>3 DEF FoundBefore, AddressBefore
  <1> QED  BY <1>1, <1>3, <1>4, ScanAssumption DEF ScanInv

LEMMA ScanEndKeeps ==
    ASSUME ScanInv, OpenKernel \/ ScanEnd
    PROVE  ScanInv'
  <1> DEFINE z == Len(kernel.marks)
  <1>1. /\ kernel' = kernel /\ markAt' = markAt /\ sysent' = sysent /\ sysentAddr' = sysentAddr
        /\ scanner \in {"options", "scan"} /\ FoundBefore(markAt) /\ AddressBefore(markAt)
        /\ kernel \in Kernels /\ markAt \in 1 .. z + 1 /\ sysent \in Nat
    BY DEF ScanInv, OpenKernel, ScanEnd
  <1>2. /\ From8' = From8 /\ Findable' = Findable /\ AddressKnown' = AddressKnown
        /\ \A n : Counts(n)' = Counts(n)
    BY <1>1, CountsSame
  <1>3. FoundBefore(markAt)' /\ AddressBefore(markAt)'
    BY <1>1, <1>2 DEF FoundBefore, AddressBefore
  <1>4. CASE OpenKernel
    <2>1. scanner' = "scan"
      BY <1>4 DEF OpenKernel
    <2> QED  BY <1>1, <1>2, <1>3, <2>1 DEF ScanInv
  <1>5. CASE ScanEnd
    <2>1. ~(kernel.large /\ markAt <= z) /\ z \in Nat
      BY <1>1, <1>5, KernelIs DEF ScanEnd, Scanning
    <2>2. \A n \in 1 .. z : Counts(n) => n < markAt
      <3>1. \A n \in 1 .. z : Counts(n) => markAt = z + 1
        <4>1. \A n : Counts(n) => kernel.large
          BY DEF Counts
        <4>2. kernel.large => markAt = z + 1
          <5> HIDE DEF z
          <5> QED  BY <1>1, <2>1
        <4> QED  BY <4>1, <4>2
      <3> HIDE DEF z
      <3> QED  BY <2>1, <3>1
    <2>3. \A n \in 1 .. z : n < z + 1
      <3> HIDE DEF z
      <3> QED  BY <2>1
    <2>4. FoundBefore(z + 1)
      <3>1. CASE (\A n \in 1 .. z : n < markAt => ~Counts(n)) /\ sysent = 0
        BY <2>2, <3>1 DEF FoundBefore
      <3>2. CASE \E n \in 1 .. z :
                   /\ n < markAt /\ Counts(n) /\ sysent = kernel.marks[n].at
                   /\ \A m \in 1 .. z : m < markAt /\ Counts(m) => m <= n
        BY <2>2, <2>3, <3>2 DEF FoundBefore
      <3> QED  BY <1>1, <3>1, <3>2 DEF FoundBefore
    <2>5. FoundBefore(Len(kernel.marks) + 1)'
      BY <1>1, <1>2, <2>4 DEF FoundBefore
    <2>8. AddressBefore(z + 1)
      <3>1. kernel.large => markAt = z + 1
        <4> HIDE DEF z
        <4> QED  BY <1>1, <2>1
      <3>2. \A n : Counts(n) => kernel.large
        BY DEF Counts
      <3> QED  BY <1>1, <3>1, <3>2 DEF AddressBefore
    <2>6. CASE sysent = 0 /\ kernel.is64
      <3>1. scanner' = "constants"
        BY <1>5, <2>6 DEF ScanEnd
      <3> QED  BY <1>1, <1>2, <2>5, <2>6, <3>1 DEF ScanInv
    <2>7. CASE ~(sysent = 0 /\ kernel.is64)
      <3>1. scanner' = "tables"
        BY <1>5, <2>7 DEF ScanEnd
      <3>2. Findable => sysent = kernel.table /\ (AddressKnown => sysentAddr = kernel.table)
        BY <1>1, <2>4, <2>7, <2>8, FoundIsTable
      <3> QED  BY <1>1, <1>2, <3>1, <3>2 DEF ScanInv
    <2> QED  BY <2>6, <2>7
  <1> QED  BY <1>4, <1>5

LEMMA EarliestIs ==
    ASSUME NEW S \in SUBSET Nat, S # {}
    PROVE  Earliest(S) \in S
  <1>1. \E x \in S : \A y \in S : x <= y
    BY LeastElement
  <1> QED  BY <1>1, Zenon DEF Earliest

LEMMA ScanConstantsKeeps ==
    ASSUME ScanInv, ScanConstants
    PROVE  ScanInv'
  <1>1. /\ kernel' = kernel /\ markAt' = markAt /\ scanner = "constants"
        /\ sysent = 0 /\ FoundBefore(Len(kernel.marks) + 1)
        /\ kernel \in Kernels /\ markAt \in 1 .. Len(kernel.marks) + 1
    BY DEF ScanInv, ScanConstants
  <1>2. From8' = From8 /\ Findable' = Findable /\ AddressKnown' = AddressKnown
    BY <1>1, CountsSame
  <1>3. Findable => kernel.signatures # {} /\ Earliest(kernel.signatures) = kernel.table
    BY <1>1, FoundIsTable, KernelIs
  <1>4. CASE ~kernel.constants
    <2>1. scanner' = "return" /\ sysent' = sysent /\ sysentAddr' = sysentAddr
      BY <1>4 DEF ScanConstants
    <2> QED  BY <1>1, <1>2, <2>1 DEF ScanInv
  <1>5. CASE kernel.constants /\ kernel.signatures = {}
    <2>1. scanner' = "tables" /\ sysent' = sysent /\ sysentAddr' = sysentAddr
      BY <1>5 DEF ScanConstants
    <2> QED  BY <1>1, <1>2, <1>3, <1>5, <2>1 DEF ScanInv
  <1>6. CASE kernel.constants /\ kernel.signatures # {}
    <2>1. scanner' = "tables" /\ sysent' = Earliest(kernel.signatures) /\ sysentAddr' = sysent'
      BY <1>6 DEF ScanConstants
    <2>2. sysent' \in Nat
      BY <1>1, <1>6, <2>1, KernelIs, EarliestIs
    <2> QED  BY <1>1, <1>2, <1>3, <2>1, <2>2 DEF ScanInv
  <1> QED  BY <1>4, <1>5, <1>6

LEMMA ScanStay ==
    ASSUME ScanInv, DumpTables \/ UNCHANGED scanVars
    PROVE  ScanInv'
  <1>1. /\ kernel' = kernel /\ markAt' = markAt /\ sysent' = sysent /\ sysentAddr' = sysentAddr
        /\ arguments' = arguments
    BY DEF DumpTables, scanVars
  <1>2. /\ From8' = From8 /\ Findable' = Findable /\ AddressKnown' = AddressKnown
        /\ \A n : Counts(n)' = Counts(n)
    BY <1>1, CountsSame
  <1>4. WhatIsDumped' = WhatIsDumped
    BY <1>1 DEF WhatIsDumped, Requested, SyscallLines, CallAt, Suppressed, Class, From8, KextMethod, Asks
  <1>5. CASE DumpTables
    <2>1. scanner = "tables" /\ scanner' = "done" /\ dumped' = WhatIsDumped
      BY <1>5 DEF DumpTables, WhatIsDumped
    <2> QED  BY <1>1, <1>2, <1>4, <2>1 DEF ScanInv
  <1>6. CASE UNCHANGED scanVars
    <2>1. scanner' = scanner /\ dumped' = dumped
      BY <1>6 DEF scanVars
    <2>2. FoundBefore(markAt)' = FoundBefore(markAt)
          /\ FoundBefore(Len(kernel.marks) + 1)' = FoundBefore(Len(kernel.marks) + 1)
          /\ AddressBefore(markAt)' = AddressBefore(markAt)
      BY <1>1, <1>2 DEF FoundBefore, AddressBefore
    <2> QED  BY <1>1, <1>2, <1>4, <2>1, <2>2 DEF ScanInv
  <1> QED  BY <1>5, <1>6

LEMMA ScanStep == ScanInv /\ [ScanNext]_scanVars => ScanInv'
  <1> SUFFICES ASSUME ScanInv, [ScanNext]_scanVars PROVE ScanInv'
    OBVIOUS
  <1>1. CASE ScanVersion \/ ScanVector \/ ScanSysent
    <2>1. kernel' = kernel /\ kernel \in Kernels
      BY <1>1 DEF ScanInv, ScanVersion, ScanVector, ScanSysent
    <2>2. scanner' \in {"scan", "version"}
      BY <1>1 DEF ScanVersion, ScanVector, ScanSysent, Scanning
    <2>3. From8' = From8
      BY <2>1, CountsSame
    <2> QED  BY <1>1, <2>1, <2>2, <2>3, ScanSteps DEF ScanInv
  <1> QED  BY <1>1, ScanEndKeeps, ScanConstantsKeeps, ScanStay DEF ScanNext

LEMMA ScanTells == ScanInv => SyscallsAreReal
  <1> SUFFICES ASSUME ScanInv, scanner = "done", "unix" \in Requested, Findable
               PROVE  /\ \A line \in dumped :
                           line[1] = "unix" /\ line[3] # NoAddress => line[3] = kernel.calls[line[2] + 1]
                      /\ kernel.is64 \/ From8 =>
                           \A n \in 0 .. MaxSyscalls[Class] - 1 :
                             n < Len(kernel.calls) => ((<<"unix", n, kernel.calls[n + 1]>> \in dumped) <=> kernel.calls[n + 1] \notin ToSuppress)
                      /\ AddressKnown =>
                           {line \in dumped : line[1] = "address"} = {<<"address", 0, kernel.table>>}
    BY DEF SyscallsAreReal
  <1>1. sysent = kernel.table /\ kernel \in Kernels /\ (AddressKnown => sysentAddr = kernel.table)
        /\ dumped = WhatIsDumped
    BY DEF ScanInv
  <1> DEFINE size == Len(kernel.calls)
             max == MaxSyscalls[Class]
  <1>2. sysent # 0 /\ size \in Nat /\ size > 38
    BY <1>1, KernelIs
  <1>3. \A n \in 0 .. max - 1 : CallAt(n) = IF n < size THEN kernel.calls[n + 1] ELSE NoAddress
    BY <1>1 DEF CallAt
  <1>4. ASSUME NEW line \in dumped
        PROVE  \/ line[1] \in {"mach", "sysctls", "kexts", "kextract"}
               \/ line \in SyscallLines
               \/ line = <<"address", 0, sysentAddr>>
    BY <1>1, <1>2, <1>4 DEF WhatIsDumped
  <1>5. ASSUME NEW line \in SyscallLines
        PROVE  /\ line[1] = "unix" /\ line[2] \in 0 .. max - 1 /\ line[3] = CallAt(line[2])
               /\ line[3] \notin Suppressed
    BY <1>5 DEF SyscallLines
  <1> HIDE DEF size, max
  <1>6. ASSUME NEW line \in dumped, line[1] = "unix", line[3] # NoAddress
        PROVE  line[3] = kernel.calls[line[2] + 1]
    <2>1. line \in SyscallLines
      BY <1>4, <1>6
    <2> QED  BY <1>3, <1>5, <1>6, <2>1
  <1>7. ASSUME AddressKnown
        PROVE  {line \in dumped : line[1] = "address"} = {<<"address", 0, kernel.table>>}
    <2>1. ASSUME NEW line \in dumped, line[1] = "address"
          PROVE  line = <<"address", 0, sysentAddr>>
      BY <1>4, <1>5, <2>1
    <2>2. <<"address", 0, sysentAddr>> \in dumped /\ <<"address", 0, sysentAddr>>[1] = "address"
      BY <1>1, <1>2 DEF WhatIsDumped
    <2> QED  BY <1>1, <1>7, <2>1, <2>2
  <1>8. ASSUME kernel.is64 \/ From8, NEW n \in 0 .. max - 1, n < size
        PROVE  <<"unix", n, kernel.calls[n + 1]>> \in dumped <=> kernel.calls[n + 1] \notin ToSuppress
    <2>1. Suppressed = ToSuppress
      <3>1. CallAt(0) = kernel.calls[1] /\ CallAt(8) = kernel.calls[9] /\ CallAt(38) = kernel.calls[39]
        <4>1. \A m : CallAt(m) = IF m < size THEN kernel.calls[m + 1] ELSE NoAddress
          BY <1>1 DEF CallAt, size
        <4>2. 0 < size /\ 8 < size /\ 38 < size
          BY <1>2
        <4> QED  BY <4>1, <4>2
      <3> QED  BY <1>8, <1>1, <3>1, KernelIs DEF Suppressed, ToSuppress
    <2>2. CallAt(n) = kernel.calls[n + 1]
      BY <1>3, <1>8
    <2> DEFINE line == <<"unix", n, kernel.calls[n + 1]>>
    <2>3. line \in SyscallLines <=> kernel.calls[n + 1] \notin Suppressed
      <3>1. line \in SyscallLines => line[3] \notin Suppressed
        BY <1>5
      <3>2. kernel.calls[n + 1] \notin Suppressed => line \in SyscallLines
        BY <2>2 DEF SyscallLines, max
      <3> QED  BY <3>1, <3>2
    <2>4. line \in dumped <=> line \in SyscallLines
      <3>1. SyscallLines \subseteq dumped
        BY <1>1, <1>2 DEF WhatIsDumped
      <3>2. line[1] = "unix"
        OBVIOUS
      <3> HIDE DEF line
      <3>3. line # <<"address", 0, sysentAddr>>
        BY <3>2
      <3> QED  BY <1>4, <3>1, <3>2, <3>3
    <2> QED  BY <2>1, <2>3, <2>4
  <1> QED  BY <1>6, <1>7, <1>8 DEF size, max

\* Whatever the kernel and its arguments, sysctls are printed with their full names,
\* once, and system calls with the addresses that are theirs, if the one is laid out
\* and the other found as joker takes them to be (doSysctls and main of joker).
THEOREM TablesAreTheKernels == TablesSpec /\ ScanSpec => []TablesAreExact
  <1>1. TablesInv /\ ScanInv => TablesAreExact
    BY TablesTell, ScanTells DEF TablesAreExact
  <1> QED  BY <1>1, TablesStart, TablesStep, ScanStart, ScanStep, PTL DEF TablesSpec, ScanSpec
=============================================================================
