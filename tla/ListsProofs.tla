----------------------------- MODULE ListsProofs -----------------------------
(* What the operations of list.h preserve, for any set of nodes. *)
EXTENDS Lists, TLAPS

\* A list structure on N: typed, well linked, and the nodes of Solo unlinked.
Sound(l, N, Solo) == l \in Links(N) /\ Linked(l, N) /\ \A x \in Solo : l.next[x] = x

\* How r.next differs from l.next when x has left, or node has come in before
\* list.
Left(r, l, N, x) ==
  /\ r.next[x] = x
  /\ l.prev[x] # x => r.next[l.prev[x]] = l.next[x]
  /\ \A y \in N \ {x, l.prev[x]} : r.next[y] = l.next[y]

Entered(r, l, N, list, node) ==
  /\ r.next[node] = list
  /\ r.next[l.prev[list]] = node
  /\ \A y \in N \ {node, l.prev[list]} : r.next[y] = l.next[y]

LEMMA LinksType ==
  ASSUME NEW N, NEW l \in Links(N), NEW x \in N
  PROVE  l.next[x] \in N /\ l.prev[x] \in N
  BY DEF Links

\* Removing a node.
LEMMA DeleteFacts ==
  ASSUME NEW N, NEW Solo \in SUBSET N, NEW l, Sound(l, N, Solo), NEW x \in N
  PROVE  /\ Sound(list_delete(l, x), N, Solo \cup {x})
         /\ Left(list_delete(l, x), l, N, x)
  <1> DEFINE l1 == SetPrev(l, l.next[x], l.prev[x])
             l2 == SetNext(l1, l1.prev[x], l1.next[x])
             l3 == SetNext(l2, x, x)
             l4 == SetPrev(l3, x, x)
  <1> HIDE DEF l1, l2, l3, l4
  <1>0. l \in Links(N) /\ Linked(l, N) /\ \A y \in Solo : l.next[y] = y
    BY DEF Sound
  <1>a. l.next[x] \in N /\ l.prev[x] \in N
    BY <1>0, LinksType
  <1>1. /\ l1 \in Links(N) /\ l1.next = l.next
        /\ \A y \in N : l1.prev[y] = IF y = l.next[x] THEN l.prev[x] ELSE l.prev[y]
    BY <1>0, <1>a DEF l1, SetPrev, Links
  <1>b. l1.prev[x] = l.prev[x] /\ l1.next[x] = l.next[x]
    BY <1>0, <1>1 DEF Linked
  <1>2. /\ l2 \in Links(N) /\ l2.prev = l1.prev
        /\ \A y \in N : l2.next[y] = IF y = l.prev[x] THEN l.next[x] ELSE l1.next[y]
    BY <1>1, <1>a, <1>b DEF l2, SetNext, Links
  <1>3. /\ l3 \in Links(N) /\ l3.prev = l2.prev
        /\ \A y \in N : l3.next[y] = IF y = x THEN x ELSE l2.next[y]
    BY <1>2 DEF l3, SetNext, Links
  <1>4. /\ l4 \in Links(N) /\ l4.next = l3.next
        /\ \A y \in N : l4.prev[y] = IF y = x THEN x ELSE l3.prev[y]
    BY <1>3 DEF l4, SetPrev, Links
  <1>5. l4 = list_delete(l, x)
    BY DEF list_delete, l1, l2, l3, l4
  <1>6. \A y \in N : /\ l4.next[y] = IF y = x THEN x ELSE IF y = l.prev[x] THEN l.next[x] ELSE l.next[y]
                     /\ l4.prev[y] = IF y = x THEN x ELSE IF y = l.next[x] THEN l.prev[x] ELSE l.prev[y]
    BY <1>1, <1>2, <1>3, <1>4
  <1>7. Linked(l4, N)
    BY <1>0, <1>6, LinksType DEF Linked
  <1>8. \A y \in Solo \cup {x} : l4.next[y] = y
    BY <1>0, <1>4, <1>6, LinksType DEF Linked
  <1>9. Sound(l4, N, Solo \cup {x})
    BY <1>4, <1>7, <1>8 DEF Sound
  <1>10. Left(l4, l, N, x)
    BY <1>6, <1>a DEF Left
  <1> QED BY <1>5, <1>9, <1>10

\* list_init does nothing to a node that is alone.
LEMMA InitFacts ==
  ASSUME NEW N, NEW Solo \in SUBSET N, NEW l, Sound(l, N, Solo), NEW x \in Solo
  PROVE  list_init(l, x) = l
  <1>1. l \in Links(N) /\ l.next[x] = x /\ l.prev[x] = x /\ x \in N
    BY DEF Sound, Linked
  <1>2. SetNext(l, x, x) = l
    BY <1>1 DEF SetNext, Links
  <1>3. SetPrev(l, x, x) = l
    BY <1>1 DEF SetPrev, Links
  <1> QED BY <1>2, <1>3 DEF list_init

\* Inserting a node that is alone before (after) another one.
LEMMA InsertBeforeFacts ==
  ASSUME NEW N, NEW Solo \in SUBSET N, NEW l, Sound(l, N, Solo),
         NEW list \in N, NEW node \in Solo, list \notin Solo
  PROVE  /\ Sound(list_insert_before(l, list, node), N, Solo \ {node})
         /\ Entered(list_insert_before(l, list, node), l, N, list, node)
  <1> DEFINE l0 == SetNext(l, node, list)
             l1 == SetPrev(l0, node, l.prev[list])
             l2 == SetNext(l1, l1.prev[list], node)
             l3 == SetPrev(l2, list, node)
  <1> HIDE DEF l0, l1, l2, l3
  <1>0. l \in Links(N) /\ Linked(l, N) /\ \A y \in Solo : l.next[y] = y
    BY DEF Sound
  <1>a. node \in N /\ node # list /\ l.prev[list] \in N /\ l.prev[list] # node
    BY <1>0, LinksType DEF Linked
  <1>1. /\ l0 \in Links(N) /\ l0.prev = l.prev
        /\ \A y \in N : l0.next[y] = IF y = node THEN list ELSE l.next[y]
    BY <1>0, <1>a DEF l0, SetNext, Links
  <1>2. /\ l1 \in Links(N) /\ l1.next = l0.next
        /\ \A y \in N : l1.prev[y] = IF y = node THEN l.prev[list] ELSE l.prev[y]
    BY <1>1, <1>a DEF l1, SetPrev, Links
  <1>3. /\ l2 \in Links(N) /\ l2.prev = l1.prev
        /\ \A y \in N : l2.next[y] = IF y = l.prev[list] THEN node ELSE l0.next[y]
    BY <1>2, <1>a DEF l2, SetNext, Links
  <1>4. /\ l3 \in Links(N) /\ l3.next = l2.next
        /\ \A y \in N : l3.prev[y] = IF y = list THEN node ELSE l1.prev[y]
    BY <1>3, <1>a DEF l3, SetPrev, Links
  <1>5. l3 = list_insert_before(l, list, node)
    BY DEF list_insert_before, l0, l1, l2, l3
  <1>6. \A y \in N :
          /\ l3.next[y] = IF y = node THEN list ELSE IF y = l.prev[list] THEN node ELSE l.next[y]
          /\ l3.prev[y] = IF y = list THEN node ELSE IF y = node THEN l.prev[list] ELSE l.prev[y]
    BY <1>1, <1>2, <1>3, <1>4, <1>a
  <1>7. Linked(l3, N)
    BY <1>0, <1>6, <1>a, LinksType DEF Linked
  <1>8. \A y \in Solo \ {node} : l3.next[y] = y
    BY <1>0, <1>6, LinksType DEF Linked
  <1>9. Sound(l3, N, Solo \ {node})
    BY <1>4, <1>7, <1>8 DEF Sound
  <1>10. Entered(l3, l, N, list, node)
    BY <1>6, <1>a DEF Entered
  <1> QED BY <1>5, <1>9, <1>10

LEMMA InsertAfterFacts ==
  ASSUME NEW N, NEW Solo \in SUBSET N, NEW l, Sound(l, N, Solo),
         NEW list \in N, NEW node \in Solo, list \notin Solo
  PROVE  Sound(list_insert_after(l, list, node), N, Solo \ {node})
  <1> DEFINE l0 == SetNext(l, node, l.next[list])
             l1 == SetPrev(l0, node, list)
             l2 == SetPrev(l1, l1.next[list], node)
             l3 == SetNext(l2, list, node)
  <1> HIDE DEF l0, l1, l2, l3
  <1>0. l \in Links(N) /\ Linked(l, N) /\ \A y \in Solo : l.next[y] = y
    BY DEF Sound
  <1>a. node \in N /\ node # list /\ l.next[list] \in N /\ l.next[list] # node
    BY <1>0, LinksType DEF Linked
  <1>1. /\ l0 \in Links(N) /\ l0.prev = l.prev
        /\ \A y \in N : l0.next[y] = IF y = node THEN l.next[list] ELSE l.next[y]
    BY <1>0, <1>a DEF l0, SetNext, Links
  <1>2. /\ l1 \in Links(N) /\ l1.next = l0.next
        /\ \A y \in N : l1.prev[y] = IF y = node THEN list ELSE l.prev[y]
    BY <1>1, <1>a DEF l1, SetPrev, Links
  <1>3. /\ l2 \in Links(N) /\ l2.next = l1.next
        /\ \A y \in N : l2.prev[y] = IF y = l.next[list] THEN node ELSE l1.prev[y]
    BY <1>1, <1>2, <1>a DEF l2, SetPrev, Links
  <1>4. /\ l3 \in Links(N) /\ l3.prev = l2.prev
        /\ \A y \in N : l3.next[y] = IF y = list THEN node ELSE l2.next[y]
    BY <1>3, <1>a DEF l3, SetNext, Links
  <1>5. l3 = list_insert_after(l, list, node)
    BY DEF list_insert_after, l0, l1, l2, l3
  <1>6. \A y \in N :
          /\ l3.next[y] = IF y = list THEN node ELSE IF y = node THEN l.next[list] ELSE l.next[y]
          /\ l3.prev[y] = IF y = l.next[list] THEN node ELSE IF y = node THEN list ELSE l.prev[y]
    BY <1>1, <1>2, <1>3, <1>4, <1>a
  <1>7. Linked(l3, N)
    BY <1>0, <1>6, <1>a, LinksType DEF Linked
  <1>8. \A y \in Solo \ {node} : l3.next[y] = y
    BY <1>0, <1>6, LinksType DEF Linked
  <1> QED BY <1>4, <1>5, <1>7, <1>8 DEF Sound

\* Merging the lists of two nodes that are not in Solo.
LEMMA MergeFacts ==
  ASSUME NEW N, NEW Solo \in SUBSET N, NEW l, Sound(l, N, Solo),
         NEW a \in N, NEW b \in N, a \notin Solo, b \notin Solo
  PROVE  Sound(list_merge(l, a, b), N, Solo)
  <1> DEFINE l1 == SetNext(l, l.prev[a], b)
             l2 == SetNext(l1, l1.prev[b], a)
             l3 == SetPrev(l2, a, l2.prev[b])
             l4 == SetPrev(l3, b, l2.prev[a])
  <1> HIDE DEF l1, l2, l3, l4
  <1>0. l \in Links(N) /\ Linked(l, N) /\ \A y \in Solo : l.next[y] = y
    BY DEF Sound
  <1>a. l.prev[a] \in N /\ l.prev[b] \in N
    BY <1>0, LinksType
  <1>1. /\ l1 \in Links(N) /\ l1.prev = l.prev
        /\ \A y \in N : l1.next[y] = IF y = l.prev[a] THEN b ELSE l.next[y]
    BY <1>0, <1>a DEF l1, SetNext, Links
  <1>2. /\ l2 \in Links(N) /\ l2.prev = l.prev
        /\ \A y \in N : l2.next[y] = IF y = l.prev[b] THEN a ELSE l1.next[y]
    BY <1>1, <1>a DEF l2, SetNext, Links
  <1>3. /\ l3 \in Links(N) /\ l3.next = l2.next
        /\ \A y \in N : l3.prev[y] = IF y = a THEN l.prev[b] ELSE l.prev[y]
    BY <1>2, <1>a DEF l3, SetPrev, Links
  <1>4. /\ l4 \in Links(N) /\ l4.next = l3.next
        /\ \A y \in N : l4.prev[y] = IF y = b THEN l.prev[a] ELSE l3.prev[y]
    BY <1>2, <1>3, <1>a DEF l4, SetPrev, Links
  <1>5. l4 = list_merge(l, a, b)
    BY DEF list_merge, l1, l2, l3, l4
  <1>6. \A y \in N :
          /\ l4.next[y] = IF y = l.prev[b] THEN a ELSE IF y = l.prev[a] THEN b ELSE l.next[y]
          /\ l4.prev[y] = IF y = b THEN l.prev[a] ELSE IF y = a THEN l.prev[b] ELSE l.prev[y]
    BY <1>1, <1>2, <1>3, <1>4, <1>a
  <1>b. \A y \in N : l.next[y] \in N /\ l.prev[y] \in N /\ l.prev[l.next[y]] = y /\ l.next[l.prev[y]] = y
    BY <1>0, LinksType DEF Linked
  <1>7. Linked(l4, N)
    <2>1. ASSUME NEW y \in N PROVE l4.prev[l4.next[y]] = y
      <3>1. CASE y = l.prev[b]
        BY <1>6, <1>a, <3>1
      <3>2. CASE y = l.prev[a] /\ y # l.prev[b]
        BY <1>6, <1>a, <3>2
      <3>3. CASE y # l.prev[a] /\ y # l.prev[b]
        <4>1. l4.next[y] = l.next[y] /\ l.next[y] # a /\ l.next[y] # b
          BY <1>6, <1>b, <3>3
        <4> QED BY <1>6, <1>b, <4>1
      <3> QED BY <3>1, <3>2, <3>3
    <2>2. ASSUME NEW y \in N PROVE l4.next[l4.prev[y]] = y
      <3>1. CASE y = b
        BY <1>6, <1>a, <1>b, <3>1
      <3>2. CASE y = a /\ y # b
        BY <1>6, <1>a, <1>b, <3>2
      <3>3. CASE y # a /\ y # b
        <4>1. l4.prev[y] = l.prev[y] /\ l.prev[y] # l.prev[a] /\ l.prev[y] # l.prev[b]
          BY <1>6, <1>b, <3>3
        <4> QED BY <1>6, <1>b, <4>1
      <3> QED BY <3>1, <3>2, <3>3
    <2> QED BY <2>1, <2>2 DEF Linked
  <1>8. \A y \in Solo : l4.next[y] = y
    BY <1>0, <1>6, LinksType DEF Linked
  <1> QED BY <1>4, <1>5, <1>7, <1>8 DEF Sound

-----------------------------------------------------------------------------
(* Where a loop over a list gets. *)

\* It stays in a set that the links do not leave.
LEMMA WalkInside ==
  ASSUME NEW N, NEW l \in Links(N), NEW x, NEW Stop, NEW S \in SUBSET N,
         x \in S, \A z \in S : l.next[z] \in S
  PROVE  walk(l, x, Stop) \subseteq S
  <1>1. DOMAIN l.next = N
    BY DEF Links
  <1> QED BY <1>1 DEF walk

\* It starts where it starts.
LEMMA WalkStart ==
  ASSUME NEW N, NEW l \in Links(N), NEW x \in N, NEW Stop
  PROVE  x \in walk(l, x, Stop)
  <1>1. DOMAIN l.next = N
    BY DEF Links
  <1> QED BY <1>1 DEF walk

-----------------------------------------------------------------------------
(* A ring through all the nodes that are not in Solo. *)

OneRing(l, A) == \A t \in A : list_nodes(l, t) = A

\* The links do not lead from the ring to a node of Solo.
LEMMA RingClosed ==
  ASSUME NEW N, NEW Solo \in SUBSET N, NEW l, Sound(l, N, Solo), NEW z \in N \ Solo
  PROVE  l.next[z] \in N \ Solo /\ l.prev[z] \in N \ Solo
  BY LinksType DEF Sound, Linked

\* What it takes to be in every set that the links do not leave.
LEMMA RingReaches ==
  ASSUME NEW N, NEW l \in Links(N), NEW A, OneRing(l, A), NEW t \in A,
         NEW S \in SUBSET N, t \in S, \A z \in S : l.next[z] \in S
  PROVE  A \subseteq S
  BY WalkInside DEF OneRing, list_nodes

LEMMA RingInsert ==
  ASSUME NEW N, NEW Solo \in SUBSET N, NEW l, Sound(l, N, Solo), OneRing(l, N \ Solo),
         NEW list \in N \ Solo, NEW node \in Solo
  PROVE  OneRing(list_insert_before(l, list, node), (N \ Solo) \cup {node})
  <1> DEFINE r == list_insert_before(l, list, node)
             A == N \ Solo
             B == A \cup {node}
  <1>0. list \in N /\ list \notin Solo
    OBVIOUS
  <1>1. /\ r \in Links(N)
        /\ \A y \in N : r.next[y] =
             IF y = node THEN list ELSE IF y = l.prev[list] THEN node ELSE l.next[y]
    <2>1. Sound(r, N, Solo \ {node}) /\ Entered(r, l, N, list, node)
      BY <1>0, InsertBeforeFacts
    <2> HIDE DEF r
    <2> QED BY <2>1 DEF Sound, Entered
  <1>2. l \in Links(N) /\ Linked(l, N) /\ l.next[node] = node
    BY DEF Sound
  <1> HIDE DEF r
  <1>3. \A z \in B : r.next[z] \in B
    <2>1. \A z \in A : l.next[z] \in A
      BY RingClosed
    <2> QED BY <1>1, <2>1
  <1>4. ASSUME NEW t \in B, NEW S \in SUBSET N, t \in S, \A z \in S : r.next[z] \in S
        PROVE  B \subseteq S
    <2> DEFINE S0 == S \ {node}
    <2>1. ASSUME NEW z \in S0 PROVE l.next[z] \in S0
      <3>1. CASE z = l.prev[list]
        <4>1. r.next[z] = node /\ r.next[node] = list
          BY <1>1, <3>1
        <4>2. l.next[z] = list
          BY <1>2, <3>1 DEF Linked
        <4> QED BY <1>4, <4>1, <4>2
      <3>2. CASE z # l.prev[list]
        <4>1. r.next[z] = l.next[z] /\ z # node
          BY <1>1, <3>2
        <4>2. l.next[z] # node
          BY <1>2, <4>1 DEF Linked
        <4> QED BY <1>4, <4>1, <4>2
      <3> QED BY <3>1, <3>2
    <2>2. \E u \in A : u \in S0
      <3>1. CASE t = node
        BY <1>1, <1>4, <3>1
      <3>2. CASE t # node
        BY <1>4, <3>2
      <3> QED BY <3>1, <3>2
    <2>3. A \subseteq S0
      BY <1>2, <2>1, <2>2, RingReaches
    <2>4. l.prev[list] \in S /\ l.prev[list] # node
      <3>1. l.prev[list] \in A
        BY RingClosed
      <3> QED BY <2>3, <3>1
    <2>5. node \in S
      BY <1>1, <1>4, <2>4
    <2> QED BY <2>3, <2>5
  <1>5. B \in SUBSET N
    OBVIOUS
  <1>6. ASSUME NEW t \in B PROVE list_nodes(r, t) = B
    <2>1. \A S \in SUBSET N : t \in S /\ (\A z \in S : r.next[z] \in S) => B \subseteq S
      BY <1>4
    <2> HIDE DEF B
    <2>2. DOMAIN r.next = N
      BY <1>1 DEF Links
    <2>3. list_nodes(r, t) \subseteq B
      BY <1>1, <1>3, <1>5, WalkInside DEF list_nodes
    <2>4. ASSUME NEW y \in B PROVE y \in list_nodes(r, t)
      BY <1>5, <2>1, <2>2 DEF list_nodes, walk
    <2> QED BY <2>3, <2>4
  <1> QED BY <1>6 DEF OneRing, r

LEMMA RingDelete ==
  ASSUME NEW N, NEW Solo \in SUBSET N, NEW l, Sound(l, N, Solo), OneRing(l, N \ Solo),
         NEW x \in N \ Solo
  PROVE  OneRing(list_delete(l, x), (N \ Solo) \ {x})
  <1> DEFINE r == list_delete(l, x)
             A == N \ Solo
             B == A \ {x}
  <1>0. x \in N
    OBVIOUS
  <1>1. /\ r \in Links(N)
        /\ \A y \in N : r.next[y] =
             IF y = x THEN x ELSE IF y = l.prev[x] THEN l.next[x] ELSE l.next[y]
    <2>1. Sound(r, N, Solo \cup {x}) /\ Left(r, l, N, x)
      BY <1>0, DeleteFacts
    <2> HIDE DEF r
    <2> QED BY <2>1 DEF Sound, Left
  <1>2. l \in Links(N) /\ Linked(l, N)
    BY DEF Sound
  <1> HIDE DEF r
  <1>3. \A z \in B : r.next[z] \in B
    <2>1. \A z \in B : l.next[z] \in A /\ l.next[x] \in A
      BY RingClosed
    <2> QED BY <1>1, <1>2, <2>1 DEF Linked
  <1>4. ASSUME NEW t \in B, NEW S \in SUBSET N, t \in S, \A z \in S : r.next[z] \in S
        PROVE  B \subseteq S
    <2> DEFINE S0 == IF l.prev[x] \in S THEN S \cup {x} ELSE S \ {x}
    <2>1. ASSUME NEW z \in S0 PROVE l.next[z] \in S0
      <3>1. CASE z = l.prev[x]
        BY <1>2, <2>1, <3>1 DEF Linked
      <3>2. CASE z # l.prev[x] /\ z # x
        <4>1. r.next[z] = l.next[z] /\ z \in S /\ l.next[z] # x
          BY <1>1, <1>2, <2>1, <3>2 DEF Linked
        <4> QED BY <1>4, <4>1
      <3>3. CASE z = x /\ z # l.prev[x]
        <4>1. l.prev[x] \in S /\ l.prev[x] \in N /\ l.prev[x] # x
          BY <1>2, <2>1, <3>3, LinksType
        <4>2. l.next[x] = r.next[l.prev[x]]
          BY <1>1, <4>1
        <4>3. l.next[x] \in S
          BY <1>4, <4>1, <4>2
        <4> QED BY <3>3, <4>1, <4>3
      <3> QED BY <3>1, <3>2, <3>3
    <2>2. t \in S0 /\ t \in A /\ S0 \in SUBSET N
      BY <1>4
    <2>3. A \subseteq S0
      <3> HIDE DEF S0
      <3> QED BY <1>2, <2>1, <2>2, RingReaches
    <2> QED BY <2>3
  <1>5. B \in SUBSET N
    OBVIOUS
  <1>6. ASSUME NEW t \in B PROVE list_nodes(r, t) = B
    <2>1. \A S \in SUBSET N : t \in S /\ (\A z \in S : r.next[z] \in S) => B \subseteq S
      BY <1>4
    <2> HIDE DEF B
    <2>2. DOMAIN r.next = N
      BY <1>1 DEF Links
    <2>3. list_nodes(r, t) \subseteq B
      BY <1>1, <1>3, <1>5, WalkInside DEF list_nodes
    <2>4. ASSUME NEW y \in B PROVE y \in list_nodes(r, t)
      BY <1>5, <2>1, <2>2 DEF list_nodes, walk
    <2> QED BY <2>3, <2>4
  <1> QED BY <1>6 DEF OneRing, r

-----------------------------------------------------------------------------
(* The list with head h: the nodes A, h among them, form a ring, and the     *)
(* others are linked to nothing.                                             *)

Ring(l, N, h, A) ==
  A \subseteq N /\ h \in A /\ Sound(l, N, N \ A) /\ OneRing(l, A)

LEMMA RingNodes ==
  ASSUME NEW N, NEW l, NEW h, NEW A, Ring(l, N, h, A)
  PROVE  list_nodes(l, h) = A
  BY DEF Ring, OneRing

LEMMA RingNew ==
  ASSUME NEW N, NEW h \in N
  PROVE  Ring(list_new(N), N, h, {h})
  <1> DEFINE l == list_new(N)
  <1>1. Sound(l, N, N \ {h}) /\ l \in Links(N) /\ l.next[h] = h
    BY DEF list_new, Sound, Links, Linked
  <1> HIDE DEF l
  <1>2. {h} \in SUBSET N /\ h \in {h} /\ \A z \in {h} : l.next[z] \in {h}
    BY <1>1
  <1>3. walk(l, h, {}) \subseteq {h}
    BY <1>1, <1>2, WalkInside
  <1>4. h \in walk(l, h, {})
    BY <1>1, WalkStart
  <1>5. OneRing(l, {h})
    BY <1>3, <1>4 DEF OneRing, list_nodes
  <1> QED BY <1>1, <1>5 DEF Ring, l

\* Where a link leads.
LEMMA RingNext ==
  ASSUME NEW N, NEW l, NEW h, NEW A, Ring(l, N, h, A), NEW z \in N
  PROVE  /\ z \in A => l.next[z] \in A
         /\ z \in A /\ z # h => l.next[z] # z
         /\ z \notin A => l.next[z] = z /\ l.prev[z] = z
  <1>1. /\ N \ A \in SUBSET N /\ N \ (N \ A) = A /\ Sound(l, N, N \ A) /\ OneRing(l, A)
        /\ l \in Links(N) /\ h \in A /\ h \in N
    BY DEF Ring, Sound
  <1>2. ASSUME z \in A PROVE l.next[z] \in A
    BY <1>1, <1>2, RingClosed
  <1>3. ASSUME z \in A, z # h, l.next[z] = z PROVE FALSE
    <2>1. {z} \in SUBSET N /\ z \in {z} /\ \A y \in {z} : l.next[y] \in {z}
      BY <1>3
    <2>2. A \subseteq {z}
      BY <1>1, <1>3, <2>1, RingReaches
    <2> QED BY <1>1, <1>3, <2>2
  <1>4. ASSUME z \notin A PROVE l.next[z] = z /\ l.prev[z] = z
    BY <1>1, <1>4 DEF Sound, Linked
  <1> QED BY <1>2, <1>3, <1>4

\* A loop over the list stops at a node of it.
LEMMA RingFound ==
  ASSUME NEW N, NEW l, NEW h, NEW A, Ring(l, N, h, A), NEW x \in A, NEW Stop
  PROVE  found(l, x, Stop) \subseteq A
  <1>1. A \in SUBSET N /\ l \in Links(N)
    BY DEF Ring, Sound
  <1>2. \A z \in A : l.next[z] \in A
    BY <1>1, RingNext
  <1>3. walk(l, x, Stop) \subseteq A
    BY <1>1, <1>2, WalkInside
  <1> QED BY <1>3 DEF found

LEMMA RingIn ==
  ASSUME NEW N, NEW l, NEW h, NEW A, Ring(l, N, h, A), NEW list \in A, NEW node \in N, node \notin A
  PROVE  Ring(list_insert_before(l, list, node), N, h, A \cup {node})
  <1> DEFINE Solo == N \ A
             B == A \cup {node}
             r == list_insert_before(l, list, node)
  <1>1. /\ Solo \in SUBSET N /\ N \ Solo = A /\ Sound(l, N, Solo) /\ OneRing(l, N \ Solo)
        /\ list \in N /\ list \notin Solo /\ list \in N \ Solo /\ node \in Solo
        /\ Solo \ {node} = N \ B /\ B \subseteq N /\ h \in B /\ (N \ Solo) \cup {node} = B
    BY DEF Ring
  <1> HIDE DEF Solo, B, r
  <1>2. Sound(r, N, N \ B)
    BY <1>1, InsertBeforeFacts DEF r
  <1>3. OneRing(r, B)
    BY <1>1, RingInsert DEF r
  <1> QED BY <1>1, <1>2, <1>3 DEF Ring, B, r

\* list_delete also of a node that is in no list.
LEMMA RingOut ==
  ASSUME NEW N, NEW l, NEW h, NEW A, Ring(l, N, h, A), NEW x \in N, x # h
  PROVE  Ring(list_delete(l, x), N, h, A \ {x})
  <1> DEFINE Solo == N \ A
             B == A \ {x}
             r == list_delete(l, x)
  <1>1. /\ Solo \in SUBSET N /\ N \ Solo = A /\ Sound(l, N, Solo) /\ OneRing(l, N \ Solo)
        /\ Solo \cup {x} = N \ B /\ B \subseteq N /\ h \in B /\ (N \ Solo) \ {x} = B
    BY DEF Ring
  <1>2. Sound(r, N, N \ B)
    <2> HIDE DEF Solo, B
    <2> QED BY <1>1, DeleteFacts
  <1>3. OneRing(r, B)
    <2>1. CASE x \in A
      <3>1. x \in N \ Solo
        BY <2>1
      <3> HIDE DEF Solo, B
      <3> QED BY <1>1, <3>1, RingDelete
    <2>2. CASE x \notin A
      <3>1. l.next[x] = x /\ l.prev[x] = x
        BY <2>2, RingNext
      <3>2. r = l
        <4>1. l \in Links(N)
          BY <1>1 DEF Sound
        <4>2. SetNext(l, x, x) = l /\ SetPrev(l, x, x) = l
          BY <3>1, <4>1 DEF SetNext, SetPrev, Links
        <4> QED BY <3>1, <4>2 DEF list_delete
      <3> QED BY <1>1, <2>2, <3>2
    <2> QED BY <2>1, <2>2
  <1> HIDE DEF r, B
  <1>4. Ring(r, N, h, B)
    BY <1>1, <1>2, <1>3 DEF Ring
  <1> QED BY <1>4 DEF r, B

\* list_init of a head whose list is empty.
LEMMA RingInit ==
  ASSUME NEW N, NEW l, NEW h, Ring(l, N, h, {h})
  PROVE  list_init(l, h) = l
  <1>1. h \in N /\ l.next[h] = h /\ Sound(l, N, N \ {h})
    BY RingNext DEF Ring
  <1>2. Sound(l, N, N) /\ N \in SUBSET N
    BY <1>1 DEF Sound
  <1> QED BY <1>1, <1>2, InitFacts
=============================================================================
