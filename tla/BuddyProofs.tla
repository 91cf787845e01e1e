----------------------------- MODULE BuddyProofs -----------------------------
(***************************************************************************)
(* The zone is always cut into pieces that neither overlap nor leave a     *)
(* frame out, and the bitmap and the reference counts describe these       *)
(* pieces, for zones of every size.  The pieces change in three ways only: *)
(* a piece passes from one owner to another, two buddies become one, one   *)
(* becomes two buddies.  Three lemmas say that a good cut stays good, and  *)
(* the proof for each action says which of the three it is.                *)
(***************************************************************************)
EXTENDS Buddy, TLAPS

Universe == Frames \X Orders \X {"free", "busy", "moving"}

\* P is a cut of the zone.
Cut(P) ==
  /\ P \subseteq Universe
  /\ Apart(P)
  /\ \A x \in P : end(x) <= frames_num
  /\ \A f \in Frames : \E x \in P : first(x) <= f /\ f < end(x)

LEMMA Product ==
  ASSUME NEW k \in Nat, NEW s \in Nat \ {0}
  PROVE  /\ k * s \in Nat /\ (k + 1) * s \in Nat
         /\ k * s < (k + 1) * s
         /\ k <= k * s
<1>1. k * s \in Nat
  OBVIOUS
<1>2. (k + 1) * s = k * s + s
  OBVIOUS
<1>3. k <= k * s
  OBVIOUS
<1> QED
  BY <1>1, <1>2, <1>3

\* The size of a block in frames is positive, and so is the first frame of it
\* a natural number.
LEMMA Sizes ==
  ASSUME NEW k \in Nat, NEW o \in Orders
  PROVE  /\ k * shift[o] \in Nat /\ (k + 1) * shift[o] \in Nat
         /\ k * shift[o] < (k + 1) * shift[o]
         /\ k <= k * shift[o]
<1>1. shift[o] \in Nat \ {0}
  BY ShiftAssumption
<1> QED
  BY <1>1, Product

\* A block of order o + 1 is its two halves.
LEMMA Halves ==
  ASSUME NEW k \in Nat, NEW o \in Paired
  PROVE  /\ o \in Orders /\ o + 1 \in Orders
         /\ (2 * k) * shift[o] = k * shift[o + 1]
         /\ (2 * k + 2) * shift[o] = (k + 1) * shift[o + 1]
         /\ (2 * k + 1) * shift[o] = k * shift[o + 1] + shift[o]
         /\ (2 * k + 2) * shift[o] = k * shift[o + 1] + shift[o] + shift[o]
<1>1. o \in Orders /\ o + 1 \in Orders
  BY OrderAssumption DEF Orders, Paired
<1>2. PICK s \in Nat \ {0} : s = shift[o]
  BY <1>1, ShiftAssumption
<1>3. shift[o + 1] = 2 * s
  BY <1>2, ShiftAssumption
<1> QED
  BY <1>1, <1>2, <1>3

\* Every element of the universe is a triple with a first and an end frame.
LEMMA Triples ==
  ASSUME NEW x \in Universe
  PROVE  /\ x[1] \in Nat /\ x[2] \in Orders
         /\ first(x) \in Nat /\ end(x) \in Nat /\ first(x) < end(x)
<1>1. x[1] \in Frames /\ x[2] \in Orders
  BY DEF Universe
<1>2. x[1] \in Nat
  BY <1>1, OrderAssumption DEF Frames
<1> QED
  BY <1>1, <1>2, Sizes DEF first, end

\* A piece that passes to another owner.
LEMMA Retag ==
  ASSUME NEW P, Cut(P), NEW x \in P, NEW y \in Universe,
         y[1] = x[1], y[2] = x[2]
  PROVE  Cut((P \ {x}) \cup {y})
<1> DEFINE Q == (P \ {x}) \cup {y}
<1>1. Q \subseteq Universe
  BY DEF Cut
<1>2. first(y) = first(x) /\ end(y) = end(x)
  BY DEF first, end
<1>3. Apart(Q)
  <2>1. SUFFICES ASSUME NEW u \in Q, NEW v \in Q, first(u) < end(v), first(v) < end(u)
                 PROVE  u = v
    BY DEF Apart
  <2>2. CASE u = y /\ v = y
    BY <2>2
  <2>3. CASE u = y /\ v # y
    <3>1. v \in P /\ v # x
      BY <2>3
    <3>2. first(x) < end(v) /\ first(v) < end(x)
      BY <2>1, <2>3, <1>2
    <3> QED
      BY <3>1, <3>2 DEF Cut, Apart
  <2>4. CASE u # y /\ v = y
    <3>1. u \in P /\ u # x
      BY <2>4
    <3>2. first(x) < end(u) /\ first(u) < end(x)
      BY <2>1, <2>4, <1>2
    <3> QED
      BY <3>1, <3>2 DEF Cut, Apart
  <2>5. CASE u # y /\ v # y
    BY <2>1, <2>5 DEF Cut, Apart
  <2> QED
    BY <2>2, <2>3, <2>4, <2>5
<1>4. \A u \in Q : end(u) <= frames_num
  BY <1>2 DEF Cut
<1>5. \A f \in Frames : \E u \in Q : first(u) <= f /\ f < end(u)
  <2>1. TAKE f \in Frames
  <2>2. PICK u \in P : first(u) <= f /\ f < end(u)
    BY DEF Cut
  <2>3. CASE u = x
    BY <2>2, <2>3, <1>2
  <2>4. CASE u # x
    BY <2>2, <2>4
  <2> QED
    BY <2>3, <2>4
<1> QED
  BY <1>1, <1>3, <1>4, <1>5 DEF Cut

\* Two buddies, x and y, become the block z.
LEMMA Merge ==
  ASSUME NEW P, Cut(P), NEW x \in P, NEW y \in P, NEW z \in Universe,
         NEW k \in Nat, NEW o \in Paired,
         x[2] = o, y[2] = o, z[2] = o + 1, z[1] = k,
         \/ x[1] = 2 * k /\ y[1] = 2 * k + 1
         \/ y[1] = 2 * k /\ x[1] = 2 * k + 1
  PROVE  Cut((P \ {x, y}) \cup {z})
<1> DEFINE Q == (P \ {x, y}) \cup {z}
           mid == first(z) + shift[o]
<1>1. Q \subseteq Universe
  BY DEF Cut
<1>2. /\ shift[o] \in Nat \ {0} /\ first(z) \in Nat /\ mid \in Nat
      /\ end(z) = mid + shift[o] /\ first(z) < mid /\ mid < end(z)
      /\ \/ first(x) = first(z) /\ end(x) = mid /\ first(y) = mid /\ end(y) = end(z)
         \/ first(y) = first(z) /\ end(y) = mid /\ first(x) = mid /\ end(x) = end(z)
  <2>1. shift[o] \in Nat \ {0} /\ first(z) \in Nat
    BY Triples, Halves, ShiftAssumption
  <2>2. /\ first(z) = k * shift[o + 1]
        /\ end(z) = (k + 1) * shift[o + 1]
    BY DEF first, end
  <2>3. /\ (2 * k) * shift[o] = first(z)
        /\ (2 * k + 2) * shift[o] = end(z)
        /\ (2 * k + 1) * shift[o] = mid
        /\ end(z) = mid + shift[o]
    BY <2>1, <2>2, Halves
  <2>4. ((2 * k) + 1) + 1 = 2 * k + 2
    OBVIOUS
  <2>5. CASE x[1] = 2 * k /\ y[1] = 2 * k + 1
    BY <2>1, <2>3, <2>4, <2>5 DEF first, end
  <2>6. CASE y[1] = 2 * k /\ x[1] = 2 * k + 1
    BY <2>1, <2>3, <2>4, <2>6 DEF first, end
  <2> QED
    BY <2>1, <2>3, <2>5, <2>6
<1> HIDE DEF mid
<1>7. /\ first(z) <= first(x) /\ end(x) <= end(z)
      /\ first(z) <= first(y) /\ end(y) <= end(z)
  <2>1. CASE first(x) = first(z) /\ end(x) = mid /\ first(y) = mid /\ end(y) = end(z)
    BY <1>2, <2>1
  <2>2. CASE first(y) = first(z) /\ end(y) = mid /\ first(x) = mid /\ end(x) = end(z)
    BY <1>2, <2>2
  <2> QED
    BY <1>2, <2>1, <2>2
<1>3. ASSUME NEW v \in P, v # x, v # y
      PROVE  ~(first(v) < end(z) /\ first(z) < end(v))
  <2>1. first(v) \in Nat /\ end(v) \in Nat /\ first(v) < end(v)
    BY Triples DEF Cut
  <2>2. ~(first(v) < end(x) /\ first(x) < end(v)) /\ ~(first(v) < end(y) /\ first(y) < end(v))
    BY <1>3 DEF Cut, Apart
  <2> QED
    BY <1>2, <2>1, <2>2
<1>4. Apart(Q)
  <2>1. SUFFICES ASSUME NEW u \in Q, NEW v \in Q, first(u) < end(v), first(v) < end(u)
                 PROVE  u = v
    BY DEF Apart
  <2>2. CASE u # z /\ v # z
    BY <2>1, <2>2 DEF Cut, Apart
  <2>3. CASE u = z /\ v # z
    BY <2>1, <2>3, <1>3
  <2>4. CASE u # z /\ v = z
    BY <2>1, <2>4, <1>3
  <2> QED
    BY <2>2, <2>3, <2>4
<1>5. \A u \in Q : end(u) <= frames_num
  <2>1. end(z) = end(x) \/ end(z) = end(y)
    BY <1>2
  <2> QED
    BY <2>1 DEF Cut
<1>6. \A f \in Frames : \E u \in Q : first(u) <= f /\ f < end(u)
  <2>1. TAKE f \in Frames
  <2>2. PICK u \in P : first(u) <= f /\ f < end(u)
    BY DEF Cut
  <2>3. f \in Nat
    BY OrderAssumption DEF Frames
  <2>4. CASE u \in {x, y}
    <3>1. first(z) <= first(u) /\ end(u) <= end(z)
      BY <1>7, <2>4
    <3>2. first(u) \in Nat /\ end(u) \in Nat /\ first(z) \in Nat /\ end(z) \in Nat
      BY Triples DEF Cut
    <3>3. first(z) <= f /\ f < end(z)
      BY <2>2, <2>3, <3>1, <3>2
    <3> QED
      BY <3>3
  <2>5. CASE u \notin {x, y}
    BY <2>2, <2>5
  <2> QED
    BY <2>4, <2>5
<1> QED
  BY <1>1, <1>4, <1>5, <1>6 DEF Cut

\* The block z becomes its two halves, x and y.
LEMMA Halve ==
  ASSUME NEW P, Cut(P), NEW z \in P, NEW x \in Universe, NEW y \in Universe,
         NEW k \in Nat, NEW o \in Paired,
         x[2] = o, y[2] = o, z[2] = o + 1, z[1] = k,
         x[1] = 2 * k, y[1] = 2 * k + 1
  PROVE  Cut((P \ {z}) \cup {x, y})
<1> DEFINE Q == (P \ {z}) \cup {x, y}
           mid == first(z) + shift[o]
<1>1. Q \subseteq Universe
  BY DEF Cut
<1>2. /\ shift[o] \in Nat \ {0} /\ first(z) \in Nat /\ mid \in Nat
      /\ end(z) = mid + shift[o] /\ first(z) < mid /\ mid < end(z)
      /\ first(x) = first(z) /\ end(x) = mid /\ first(y) = mid /\ end(y) = end(z)
  <2>1. shift[o] \in Nat \ {0} /\ first(z) \in Nat
    BY Triples, Halves, ShiftAssumption DEF Cut
  <2>2. /\ first(z) = k * shift[o + 1]
        /\ end(z) = (k + 1) * shift[o + 1]
    BY DEF first, end
  <2>3. /\ (2 * k) * shift[o] = first(z)
        /\ (2 * k + 2) * shift[o] = end(z)
        /\ (2 * k + 1) * shift[o] = mid
        /\ end(z) = mid + shift[o]
    BY <2>1, <2>2, Halves
  <2>4. ((2 * k) + 1) + 1 = 2 * k + 2
    OBVIOUS
  <2> QED
    BY <2>1, <2>3, <2>4 DEF first, end
<1> HIDE DEF mid
<1>3. ASSUME NEW v \in P, v # z, NEW w \in {x, y}
      PROVE  ~(first(v) < end(w) /\ first(w) < end(v))
  <2>1. first(v) \in Nat /\ end(v) \in Nat
    BY Triples DEF Cut
  <2>2. ~(first(v) < end(z) /\ first(z) < end(v))
    BY <1>3 DEF Cut, Apart
  <2>3. /\ first(w) \in Nat /\ end(w) \in Nat /\ first(z) \in Nat /\ end(z) \in Nat
        /\ first(z) <= first(w) /\ end(w) <= end(z)
    BY <1>2
  <2> QED
    BY <2>1, <2>2, <2>3
<1>4. ~(first(x) < end(y) /\ first(y) < end(x))
  BY <1>2
<1>5. Apart(Q)
  <2>1. SUFFICES ASSUME NEW u \in Q, NEW v \in Q, first(u) < end(v), first(v) < end(u)
                 PROVE  u = v
    BY DEF Apart
  <2>2. CASE u \notin {x, y} /\ v \notin {x, y}
    BY <2>1, <2>2 DEF Cut, Apart
  <2>3. CASE u \in {x, y} /\ v \notin {x, y}
    BY <2>1, <2>3, <1>3
  <2>4. CASE u \notin {x, y} /\ v \in {x, y}
    BY <2>1, <2>4, <1>3
  <2>5. CASE u \in {x, y} /\ v \in {x, y}
    BY <2>1, <2>5, <1>4
  <2> QED
    BY <2>2, <2>3, <2>4, <2>5
<1>6. \A u \in Q : end(u) <= frames_num
  <2>1. end(z) <= frames_num
    BY DEF Cut
  <2>2. end(x) <= frames_num /\ end(y) <= frames_num
    BY <1>2, <2>1, OrderAssumption
  <2> QED
    BY <2>2 DEF Cut
<1>7. \A f \in Frames : \E u \in Q : first(u) <= f /\ f < end(u)
  <2>1. TAKE f \in Frames
  <2>2. PICK u \in P : first(u) <= f /\ f < end(u)
    BY DEF Cut
  <2>3. f \in Nat
    BY OrderAssumption DEF Frames
  <2>4. CASE u = z
    <3>1. \/ first(x) <= f /\ f < end(x)
          \/ first(y) <= f /\ f < end(y)
      BY <1>2, <2>2, <2>3, <2>4
    <3> QED
      BY <3>1
  <2>5. CASE u # z
    BY <2>2, <2>5
  <2> QED
    BY <2>4, <2>5
<1> QED
  BY <1>1, <1>5, <1>6, <1>7 DEF Cut

-----------------------------------------------------------------------------
(* The inductive invariant *)

\* Neither of the two properties about the pieces is inductive without the
\* other facts: that the buddy whose bit says so is really in the free list
\* needs MapExact, which needs that a block on its way to the free list is
\* not there yet, which is Apart.
IInv ==
  /\ TypeOK
  /\ Cut(Pieces)
  /\ MapExact
  /\ Coalesced
  /\ RefsExact
  /\ act = "split" => want <= order

LEMMA TripleEq ==
  ASSUME NEW u \in Universe, NEW k, NEW o, NEW t
  PROVE  u = <<k, o, t>> <=> u[1] = k /\ u[2] = o /\ u[3] = t
  BY DEF Universe

\* What it means for a block to be a piece.
LEMMA PieceIs ==
  ASSUME TypeOK, NEW k \in Frames, NEW o \in Orders
  PROVE  /\ <<k, o, "free">> \in Universe /\ <<k, o, "busy">> \in Universe
         /\ <<k, o, "moving">> \in Universe
         /\ <<k, o, "free">> \in Pieces <=> k \in area[o]
         /\ <<k, o, "busy">> \in Pieces <=> <<k, o>> \in busy
         /\ <<k, o, "moving">> \in Pieces <=> act # "idle" /\ k = block /\ o = order
  BY DEF Pieces, Universe

\* Two pieces with a common frame are the same piece: blocks with the same
\* first frame, and a block and one of its halves.
LEMMA SameFirst ==
  ASSUME Cut(Pieces), NEW x \in Pieces, NEW y \in Pieces, first(x) = first(y)
  PROVE  x = y
<1>1. /\ first(x) \in Nat /\ end(x) \in Nat /\ first(x) < end(x)
      /\ first(y) \in Nat /\ end(y) \in Nat /\ first(y) < end(y)
  BY Triples DEF Cut
<1>2. first(x) < end(y) /\ first(y) < end(x)
  BY <1>1
<1> QED
  BY <1>2 DEF Cut, Apart

LEMMA NoHalf ==
  ASSUME Cut(Pieces), NEW k \in Nat, NEW o \in Paired, NEW x \in Pieces, NEW y \in Pieces,
         x[1] = k, x[2] = o + 1, y[2] = o, y[1] = 2 * k \/ y[1] = 2 * k + 1
  PROVE  FALSE
<1>1. /\ first(x) \in Nat /\ end(x) \in Nat /\ first(x) < end(x)
      /\ first(y) \in Nat /\ end(y) \in Nat /\ first(y) < end(y)
  BY Triples DEF Cut
<1>2. shift[o] \in Nat \ {0}
  BY Halves, ShiftAssumption
<1>3. first(x) = k * shift[o + 1] /\ end(x) = (k + 1) * shift[o + 1]
  BY DEF first, end
<1>4. /\ (2 * k) * shift[o] = first(x)
      /\ (2 * k + 1) * shift[o] = first(x) + shift[o]
      /\ end(x) = first(x) + shift[o] + shift[o]
  BY <1>3, Halves
<1>5. first(y) = first(x) \/ first(y) = first(x) + shift[o]
  BY <1>4 DEF first
<1>6. first(x) < end(y) /\ first(y) < end(x)
  BY <1>1, <1>2, <1>4, <1>5
<1>7. x = y
  BY <1>6 DEF Cut, Apart
<1>8. o # o + 1
  BY OrderAssumption DEF Paired
<1> QED
  BY <1>7, <1>8

\* The first frame of a piece is a frame of the zone.
LEMMA FirstInside ==
  ASSUME Cut(Pieces), NEW x \in Pieces
  PROVE  first(x) \in Frames
<1>1. first(x) \in Nat /\ end(x) \in Nat /\ first(x) < end(x) /\ end(x) <= frames_num
  BY Triples DEF Cut
<1> QED
  BY <1>1, OrderAssumption DEF Frames

LEMMA InitIInv == Init => IInv
<1> SUFFICES ASSUME Init PROVE IInv
  OBVIOUS
<1>0. 0 \in Orders /\ 0 \in Frames /\ shift[0] = 1
  <2>1. shift[order_max] \in Nat \ {0}
    BY ShiftAssumption, OrderAssumption DEF Orders
  <2> QED
    BY <2>1, OrderAssumption, ShiftAssumption, ZoneAssumption DEF Orders, Frames
<1>1. TypeOK
  BY <1>0 DEF Init, TypeOK
<1>2. Cut(Pieces)
  <2>1. \A x \in Universe : x \in Pieces <=> x[2] = 0 /\ x[3] = "busy"
    BY DEF Init, Pieces, Universe
  <2>2. Pieces \subseteq Universe
    BY DEF Pieces, Universe
  <2>3. \A x \in Pieces : first(x) = x[1] /\ end(x) = x[1] + 1 /\ x[1] \in Frames
    <3>1. TAKE x \in Pieces
    <3>2. x[1] \in Frames /\ x[2] = 0 /\ x[1] \in Int
      BY <2>1, <2>2, OrderAssumption DEF Universe, Frames
    <3>3. x[1] * 1 = x[1] /\ (x[1] + 1) * 1 = x[1] + 1
      BY <3>2
    <3> QED
      BY <3>2, <3>3, <1>0 DEF first, end
  <2>4. Apart(Pieces)
    <3>1. SUFFICES ASSUME NEW x \in Pieces, NEW y \in Pieces, first(x) < end(y), first(y) < end(x)
                   PROVE  x = y
      BY DEF Apart
    <3>2. x[1] = y[1]
      BY <2>3, <3>1, OrderAssumption DEF Frames
    <3> QED
      BY <2>1, <2>2, <3>2 DEF Universe
  <2>5. \A x \in Pieces : end(x) <= frames_num
    BY <2>3, OrderAssumption DEF Frames
  <2>6. \A f \in Frames : \E x \in Pieces : first(x) <= f /\ f < end(x)
    <3>1. TAKE f \in Frames
    <3>2. <<f, 0, "busy">> \in Pieces
      BY <2>1, <1>0 DEF Universe
    <3>3. f \in Int /\ first(<<f, 0, "busy">>) = f /\ end(<<f, 0, "busy">>) = f + 1
      BY <2>3, <3>2, OrderAssumption DEF Frames
    <3> QED
      BY <3>2, <3>3
  <2> QED
    BY <2>2, <2>4, <2>5, <2>6 DEF Cut
<1>3. MapExact
  <2>1. \A o \in Paired : o \in Orders
    BY OrderAssumption DEF Paired, Orders
  <2> QED
    BY <2>1 DEF Init, MapExact
<1>4. Coalesced
  <2>1. \A o \in Paired : o \in Orders
    BY OrderAssumption DEF Paired, Orders
  <2> QED
    BY <2>1 DEF Init, Coalesced
<1>5. RefsExact
  <2>1. SUFFICES ASSUME NEW f \in Frames PROVE \E b \in busy : first(b) = f
    BY DEF Init, RefsExact
  <2>2. <<f, 0>> \in busy
    BY DEF Init
  <2>3. f \in Int /\ f * 1 = f
    BY OrderAssumption DEF Frames
  <2>4. first(<<f, 0>>) = f
    BY <2>3, <1>0 DEF first
  <2> QED
    BY <2>2, <2>4
<1>6. act = "split" => want <= order
  BY DEF Init
<1> QED
  BY <1>1, <1>2, <1>3, <1>4, <1>5, <1>6 DEF IInv

-----------------------------------------------------------------------------
(* zone_free: the holder's piece becomes the moving one. *)

LEMMA HeldFreeStep ==
  ASSUME IInv, NEW k \in Frames, NEW o \in Orders, zone_free(k, o), <<k, o>> \in busy
  PROVE  IInv'
<1> DEFINE f == k * shift[o]
           x == <<k, o, "busy">>
           y == <<k, o, "moving">>
<1>1. TypeOK /\ Cut(Pieces) /\ act = "idle" /\ <<k, o>> \in busy
  BY DEF IInv, zone_free
<1>2. x \in Pieces /\ y \in Universe /\ first(x) = f
  BY <1>1, PieceIs DEF first
<1>3. f \in Frames
  BY <1>1, <1>2, FirstInside
<1>4. refs[f] = 1
  <2>1. first(<<k, o>>) = f
    BY DEF first
  <2> QED
    BY <1>1, <1>3, <2>1 DEF IInv, RefsExact
<1>5. /\ busy' = busy \ {<<k, o>>}
      /\ refs' = [refs EXCEPT ![f] = 0]
      /\ act' = "free" /\ block' = k /\ order' = o
      /\ UNCHANGED <<area, map, want>>
  BY <1>4 DEF zone_free
<1>6. TypeOK'
  BY <1>1, <1>5 DEF TypeOK
<1>7. Pieces' = (Pieces \ {x}) \cup {y}
  <2>1. \A u \in Universe : u \in Pieces' <=> (u \in Pieces /\ u # x) \/ u = y
    <3>1. TAKE u \in Universe
    <3>2. u = x <=> u[1] = k /\ u[2] = o /\ u[3] = "busy"
      BY TripleEq
    <3>3. u = y <=> u[1] = k /\ u[2] = o /\ u[3] = "moving"
      BY TripleEq
    <3>4. u[3] \in {"free", "busy", "moving"}
      BY DEF Universe
    <3> HIDE DEF x, y
    <3> QED
      BY <1>1, <1>5, <3>2, <3>3, <3>4 DEF Pieces, Universe
  <2>2. Pieces' \subseteq Universe /\ Pieces \subseteq Universe
    BY DEF Pieces, Universe
  <2> QED
    BY <1>2, <2>1, <2>2
<1>8. Cut(Pieces')
  <2>1. y[1] = x[1] /\ y[2] = x[2]
    OBVIOUS
  <2> HIDE DEF x, y
  <2>2. Cut((Pieces \ {x}) \cup {y})
    BY <1>1, <1>2, <2>1, Retag
  <2> QED
    BY <1>7, <2>2
<1>9. MapExact' /\ Coalesced'
  BY <1>5 DEF IInv, MapExact, Coalesced
<1>10. RefsExact'
  <2>1. SUFFICES ASSUME NEW g \in Frames
                 PROVE  refs'[g] = IF \E b \in busy' : first(b) = g THEN 1 ELSE 0
    BY DEF RefsExact
  <2>2. refs[g] = IF \E b \in busy : first(b) = g THEN 1 ELSE 0
    BY DEF IInv, RefsExact
  <2>3. CASE g # f
    <3>1. first(<<k, o>>) # g
      BY <2>3 DEF first
    <3>2. (\E b \in busy' : first(b) = g) <=> (\E b \in busy : first(b) = g)
      BY <1>5, <3>1
    <3>3. refs'[g] = refs[g]
      BY <1>1, <1>5, <2>3 DEF TypeOK
    <3> QED
      BY <2>2, <3>2, <3>3
  <2>4. CASE g = f
    <3>1. refs'[g] = 0
      BY <1>1, <1>3, <1>5, <2>4 DEF TypeOK
    <3>2. ASSUME NEW b \in busy', first(b) = g PROVE FALSE
      <4>1. b \in Frames \X Orders /\ b \in busy /\ b # <<k, o>>
        BY <1>1, <1>5 DEF TypeOK
      <4>2. b = <<b[1], b[2]>> /\ b[1] \in Frames /\ b[2] \in Orders
        BY <4>1
      <4>3. <<b[1], b[2], "busy">> \in Pieces
        BY <1>1, <4>1, <4>2, PieceIs
      <4>4. first(<<b[1], b[2], "busy">>) = first(x)
        BY <1>2, <2>4, <3>2 DEF first
      <4>5. <<b[1], b[2], "busy">> = x
        BY <1>1, <1>2, <4>3, <4>4, SameFirst
      <4> QED
        BY <4>1, <4>2, <4>5
    <3> QED
      BY <3>1, <3>2
  <2> QED
    BY <2>3, <2>4
<1> QED
  BY <1>5, <1>6, <1>8, <1>9, <1>10 DEF IInv

LEMMA StutterStep ==
  ASSUME IInv, UNCHANGED vars
  PROVE  IInv'
<1>1. Pieces' = Pieces
  BY DEF vars, local, Pieces
<1> QED
  BY <1>1 DEF IInv, vars, local, TypeOK, MapExact, Coalesced, RefsExact

\* What is not held is freed without effect.
LEMMA ZoneFreeStep ==
  ASSUME IInv, NEW k \in Frames, NEW o \in Orders, zone_free(k, o)
  PROVE  IInv'
<1>1. CASE <<k, o>> \in busy
  BY <1>1, HeldFreeStep
<1>2. CASE <<k, o>> \notin busy
  <2> DEFINE f == k * shift[o]
  <2>1. f \in Frames /\ refs[f] = 0
    BY <1>2 DEF zone_free, MayFree
  <2>2. busy' = busy
    BY <1>2 DEF zone_free
  <2>3. UNCHANGED <<area, map, refs, act, block, order, want>>
    BY <2>1 DEF zone_free
  <2> QED
    BY <2>2, <2>3, StutterStep DEF vars, local
<1> QED
  BY <1>1, <1>2

-----------------------------------------------------------------------------
(* The bitmap *)

\* m is the map with the bit i of order o complemented.
Flipped(m, o, i) ==
  /\ DOMAIN m = Paired
  /\ \A p \in Paired : m[p] \in [0 .. MapBits(p) - 1 -> {0, 1}]
  /\ \A p \in Paired : \A j \in 0 .. MapBits(p) - 1 :
       m[p][j] = IF p = o /\ j = i THEN 1 - map[o][i] ELSE map[p][j]

\* toggle_bit complements a bit that the map has.
LEMMA Toggle ==
  ASSUME TypeOK, NEW k \in Frames, NEW o \in Paired, (k + 1) * shift[o] <= frames_num
  PROVE  /\ k \div 2 \in 0 .. MapBits(o) - 1
         /\ map[o][k \div 2] \in {0, 1}
         /\ Flipped(toggle_bit(k, o), o, k \div 2)
<1>1. MapBits(o) \in Int
  <2>1. shift[o] \in Nat \ {0}
    BY OrderAssumption, ShiftAssumption DEF Orders, Paired
  <2>2. 2 * shift[o] \in Nat \ {0}
    BY <2>1
  <2>3. frames_num \div (2 * shift[o]) \in Int
    BY <2>2, OrderAssumption
  <2>4. ((frames_num \div (2 * shift[o])) - 1) \div WORD_BITS \in Int
    BY <2>3, OrderAssumption
  <2> QED
    BY <2>4, OrderAssumption DEF MapBits
<1>2. k \div 2 < MapBits(o)
  BY MapAssumption
<1>3. k \in Nat
  BY OrderAssumption DEF Frames
<1>4. k \div 2 \in 0 .. MapBits(o) - 1
  BY <1>1, <1>2, <1>3
<1>5. map[o][k \div 2] \in {0, 1}
  BY <1>4 DEF TypeOK
<1>6. Flipped(toggle_bit(k, o), o, k \div 2)
  <2> DEFINE i == k \div 2
  <2> HIDE DEF i
  <2>1. map[o][i] \in {0, 1} /\ i \in 0 .. MapBits(o) - 1
    BY <1>4, <1>5 DEF i
  <2>2. toggle_bit(k, o) = [map EXCEPT ![o] = [map[o] EXCEPT ![i] = 1 - map[o][i]]]
    BY DEF toggle_bit, TypeOK, i
  <2> DEFINE row == [map[o] EXCEPT ![i] = 1 - map[o][i]]
             m == [map EXCEPT ![o] = row]
  <2>4. /\ row \in [0 .. MapBits(o) - 1 -> {0, 1}]
        /\ \A j \in 0 .. MapBits(o) - 1 : row[j] = IF j = i THEN 1 - map[o][i] ELSE map[o][j]
    <3>1. map[o] \in [0 .. MapBits(o) - 1 -> {0, 1}] /\ 1 - map[o][i] \in {0, 1}
      BY <2>1 DEF TypeOK
    <3> QED
      BY <2>1, <3>1
  <2> HIDE DEF row
  <2>5. DOMAIN m = Paired /\ m[o] = row /\ \A q \in Paired : q # o => m[q] = map[q]
    BY DEF TypeOK
  <2>6. toggle_bit(k, o) = m
    BY <2>2 DEF row
  <2> HIDE DEF m
  <2>7. \A q \in Paired : map[q] \in [0 .. MapBits(q) - 1 -> {0, 1}]
    BY DEF TypeOK
  <2>8. Flipped(m, o, i)
    BY <2>4, <2>5, <2>7 DEF Flipped
  <2>3. Flipped(toggle_bit(k, o), o, i)
    BY <2>6, <2>8
  <2> QED
    BY <2>3 DEF i
<1> QED
  BY <1>4, <1>5, <1>6

\* When block d of order o enters or leaves its free list and the bit of its
\* pair is complemented, the map stays exact.
LEMMA MapStep ==
  ASSUME MapExact, NEW o \in Paired, NEW d \in Nat,
         d \div 2 \in 0 .. MapBits(o) - 1, map[o][d \div 2] \in {0, 1},
         Flipped(map', o, d \div 2),
         \A p \in Paired : p # o => area'[p] = area[p],
         d \in area'[o] <=> d \notin area[o],
         \A e \in Nat : e # d => (e \in area'[o] <=> e \in area[o])
  PROVE  MapExact'
<1> DEFINE i == d \div 2
<1>1. SUFFICES ASSUME NEW p \in Paired, NEW j \in 0 .. MapBits(p) - 1
               PROVE  map'[p][j] = 1 <=> ~(2 * j \in area'[p] <=> 2 * j + 1 \in area'[p])
  BY DEF MapExact
<1>2. map[p][j] = 1 <=> ~(2 * j \in area[p] <=> 2 * j + 1 \in area[p])
  BY DEF MapExact
<1>3. map'[p][j] = IF p = o /\ j = i THEN 1 - map[o][i] ELSE map[p][j]
  BY DEF Flipped
<1>4. d = 2 * i \/ d = 2 * i + 1
  OBVIOUS
<1>5. i \in Nat /\ j \in Nat
  OBVIOUS
<1> HIDE DEF i
<1>6. CASE p # o
  BY <1>2, <1>3, <1>6
<1>7. CASE p = o /\ j # i
  <2>1. 2 * j # d /\ 2 * j + 1 # d /\ 2 * j \in Nat /\ 2 * j + 1 \in Nat
    BY <1>4, <1>5, <1>7
  <2>2. /\ 2 * j \in area'[o] <=> 2 * j \in area[o]
        /\ 2 * j + 1 \in area'[o] <=> 2 * j + 1 \in area[o]
    BY <2>1
  <2> QED
    BY <1>2, <1>3, <1>7, <2>2
<1>8. CASE p = o /\ j = i
  <2>1. map'[p][j] = 1 <=> map[p][j] # 1
    BY <1>3, <1>8 DEF i
  <2>2. CASE d = 2 * j
    <3>1. 2 * j + 1 # d /\ 2 * j + 1 \in Nat
      BY <1>5, <2>2
    <3>2. 2 * j + 1 \in area'[o] <=> 2 * j + 1 \in area[o]
      BY <3>1
    <3> QED
      BY <1>2, <1>8, <2>1, <2>2, <3>2
  <2>3. CASE d = 2 * j + 1
    <3>1. 2 * j # d /\ 2 * j \in Nat
      BY <1>5, <2>3
    <3>2. 2 * j \in area'[o] <=> 2 * j \in area[o]
      BY <3>1
    <3> QED
      BY <1>2, <1>8, <2>1, <2>3, <3>2
  <2> QED
    BY <1>4, <1>8, <2>2, <2>3
<1> QED
  BY <1>6, <1>7, <1>8

-----------------------------------------------------------------------------
(* FreeDone: the moving piece becomes a free one. *)

LEMMA Moving ==
  ASSUME IInv, act # "idle"
  PROVE  /\ <<block, order, "moving">> \in Pieces
         /\ (block + 1) * shift[order] <= frames_num
         /\ block \in Frames /\ order \in Orders /\ block \in Nat
         /\ block \notin area[order] /\ <<block, order>> \notin busy
<1>1. TypeOK /\ Cut(Pieces) /\ block \in Frames /\ order \in Orders
  BY DEF IInv, TypeOK
<1>2. <<block, order, "moving">> \in Pieces
  BY <1>1, PieceIs
<1>3. end(<<block, order, "moving">>) <= frames_num
  BY <1>1, <1>2 DEF Cut
<1>4. block \notin area[order]
  <2>1. SUFFICES ASSUME block \in area[order] PROVE FALSE
    OBVIOUS
  <2>2. <<block, order, "free">> \in Pieces
    BY <1>1, <2>1, PieceIs
  <2>3. first(<<block, order, "free">>) = first(<<block, order, "moving">>)
    BY DEF first
  <2>4. <<block, order, "free">> = <<block, order, "moving">>
    BY <1>1, <1>2, <2>2, <2>3, SameFirst
  <2> QED
    BY <2>4
<1>5. <<block, order>> \notin busy
  <2>1. SUFFICES ASSUME <<block, order>> \in busy PROVE FALSE
    OBVIOUS
  <2>2. <<block, order, "busy">> \in Pieces
    BY <1>1, <2>1, PieceIs
  <2>3. first(<<block, order, "busy">>) = first(<<block, order, "moving">>)
    BY DEF first
  <2>4. <<block, order, "busy">> = <<block, order, "moving">>
    BY <1>1, <1>2, <2>2, <2>3, SameFirst
  <2> QED
    BY <2>4
<1> QED
  BY <1>1, <1>2, <1>3, <1>4, <1>5, OrderAssumption DEF end, Frames

LEMMA FreeDoneStep ==
  ASSUME IInv, FreeDone
  PROVE  IInv'
<1> DEFINE x == <<block, order, "moving">>
           y == <<block, order, "free">>
<1>1. TypeOK /\ Cut(Pieces) /\ act = "free"
  BY DEF IInv, FreeDone
<1>2. /\ x \in Pieces /\ (block + 1) * shift[order] <= frames_num
      /\ block \in Frames /\ order \in Orders /\ block \in Nat /\ block \notin area[order]
  BY <1>1, Moving
<1>3. /\ area' = [area EXCEPT ![order] = @ \cup {block}]
      /\ act' = "idle" /\ block' = 0 /\ order' = 0
      /\ UNCHANGED <<refs, busy, want>>
  BY DEF FreeDone
<1>4. 0 \in Frames /\ 0 \in Orders
  BY <1>2, OrderAssumption DEF Frames, Orders
<1>5. /\ area' \in [Orders -> SUBSET Frames]
      /\ area'[order] = area[order] \cup {block}
      /\ \A p \in Orders : p # order => area'[p] = area[p]
  BY <1>1, <1>2, <1>3 DEF TypeOK
<1>6. order # order_max =>
        /\ order \in Paired
        /\ map[order][block \div 2] = 0
        /\ block \div 2 \in 0 .. MapBits(order) - 1
        /\ Flipped(map', order, block \div 2)
  <2>1. SUFFICES ASSUME order # order_max
                 PROVE  /\ order \in Paired
                        /\ map[order][block \div 2] = 0
                        /\ block \div 2 \in 0 .. MapBits(order) - 1
                        /\ Flipped(map', order, block \div 2)
    OBVIOUS
  <2>2. order \in Paired
    BY <1>2, <2>1, OrderAssumption DEF Orders, Paired
  <2>3. map' = toggle_bit(block, order) /\ map[order][block \div 2] = 0
    BY <2>1 DEF FreeDone
  <2> QED
    BY <1>1, <1>2, <2>2, <2>3, Toggle
<1>7. order = order_max => map' = map /\ order \notin Paired
  BY OrderAssumption DEF FreeDone, Paired
<1>8. TypeOK'
  <2>1. DOMAIN map' = Paired /\ \A o \in Paired : map'[o] \in [0 .. MapBits(o) - 1 -> {0, 1}]
    BY <1>1, <1>6, <1>7 DEF TypeOK, Flipped
  <2> QED
    BY <1>1, <1>3, <1>4, <1>5, <2>1 DEF TypeOK
<1>9. Pieces' = (Pieces \ {x}) \cup {y}
  <2>1. \A u \in Universe : u \in Pieces' <=> (u \in Pieces /\ u # x) \/ u = y
    <3>1. TAKE u \in Universe
    <3>2. u = x <=> u[1] = block /\ u[2] = order /\ u[3] = "moving"
      BY TripleEq
    <3>3. u = y <=> u[1] = block /\ u[2] = order /\ u[3] = "free"
      BY TripleEq
    <3>4. u[3] \in {"free", "busy", "moving"} /\ u[2] \in Orders
      BY DEF Universe
    <3>5. u[1] \in area'[u[2]] <=> u[1] \in area[u[2]] \/ (u[1] = block /\ u[2] = order)
      BY <1>5, <3>4
    <3> HIDE DEF x, y
    <3> QED
      BY <1>1, <1>3, <3>2, <3>3, <3>4, <3>5 DEF Pieces, Universe
  <2>2. Pieces' \subseteq Universe /\ Pieces \subseteq Universe /\ y \in Universe
    BY <1>2 DEF Pieces, Universe
  <2> QED
    BY <2>1, <2>2
<1>10. Cut(Pieces')
  <2>1. y[1] = x[1] /\ y[2] = x[2] /\ y \in Universe
    BY <1>2 DEF Universe
  <2> HIDE DEF x, y
  <2>2. Cut((Pieces \ {x}) \cup {y})
    BY <1>1, <1>2, <2>1, Retag
  <2> QED
    BY <1>9, <2>2
<1>11. MapExact'
  <2>0. MapExact
    BY DEF IInv
  <2>1. CASE order = order_max
    BY <2>0, <2>1, <1>5, <1>7, OrderAssumption DEF MapExact, Paired, Orders
  <2>2. CASE order # order_max
    <3>1. \A p \in Paired : p # order => area'[p] = area[p]
      BY <1>5, OrderAssumption DEF Paired, Orders
    <3>2. /\ block \in area'[order] <=> block \notin area[order]
          /\ \A e \in Nat : e # block => (e \in area'[order] <=> e \in area[order])
      BY <1>2, <1>5
    <3>3. map[order][block \div 2] \in {0, 1}
      BY <1>6, <2>2
    <3> QED
      BY <2>0, <2>2, <1>2, <1>6, <3>1, <3>2, <3>3, MapStep
  <2> QED
    BY <2>1, <2>2
<1>12. Coalesced'
  <2>1. SUFFICES ASSUME NEW o \in Paired, NEW i \in Frames,
                        2 * i \in area'[o], 2 * i + 1 \in area'[o]
                 PROVE  FALSE
    BY DEF Coalesced
  <2>2. ~(2 * i \in area[o] /\ 2 * i + 1 \in area[o])
    BY DEF IInv, Coalesced
  <2>3. o \in Orders /\ i \in Nat
    BY OrderAssumption DEF Paired, Orders, Frames
  <2>4. o = order
    BY <1>5, <2>1, <2>2, <2>3
  <2>5. i = block \div 2 /\ ~(2 * i \in area[o] <=> 2 * i + 1 \in area[o])
    BY <1>2, <1>5, <2>1, <2>2, <2>3, <2>4
  <2>6. order # order_max
    BY <1>7, <2>4
  <2>7. map[o][i] = 1
    BY <1>6, <2>4, <2>5, <2>6 DEF IInv, MapExact
  <2> QED
    BY <1>6, <2>4, <2>5, <2>6, <2>7
<1>13. RefsExact'
  BY <1>3 DEF IInv, RefsExact
<1> QED
  BY <1>3, <1>8, <1>10, <1>11, <1>12, <1>13 DEF IInv

-----------------------------------------------------------------------------
(* Coalesce: the moving piece and its free buddy become one. *)

LEMMA CoalesceStep ==
  ASSUME IInv, Coalesce
  PROVE  IInv'
<1> DEFINE i == block \div 2
           d == buddy(block)
           x == <<block, order, "moving">>
           y == <<d, order, "free">>
           z == <<i, order + 1, "moving">>
<1>1. TypeOK /\ Cut(Pieces) /\ act = "free" /\ order # order_max /\ map[order][i] = 1
  BY DEF IInv, Coalesce
<1>2. /\ x \in Pieces /\ (block + 1) * shift[order] <= frames_num
      /\ block \in Frames /\ order \in Orders /\ block \in Nat /\ block \notin area[order]
  BY <1>1, Moving
<1>3. /\ area' = Unlink(d * shift[order])
      /\ block' = i /\ order' = order + 1
      /\ UNCHANGED <<refs, busy, act, want>>
  BY DEF Coalesce
<1>4. order \in Paired /\ order + 1 \in Orders
  BY <1>1, <1>2, OrderAssumption DEF Orders, Paired
<1>5. i \in 0 .. MapBits(order) - 1 /\ Flipped(map', order, i)
  BY <1>1, <1>2, <1>4, Toggle DEF Coalesce
<1>6. /\ i \in Nat /\ i \in Frames /\ d \in Nat /\ d \div 2 = i /\ d # block
      /\ \/ block = 2 * i /\ d = 2 * i + 1
         \/ d = 2 * i /\ block = 2 * i + 1
  BY <1>2, OrderAssumption DEF buddy, Frames
<1>7. d \in area[order] /\ d \in Frames
  <2>1. ~(2 * i \in area[order] <=> 2 * i + 1 \in area[order])
    BY <1>1, <1>4, <1>5 DEF IInv, MapExact
  <2>2. d \in area[order]
    BY <1>2, <1>6, <2>1
  <2> QED
    BY <1>1, <1>2, <2>2 DEF TypeOK
<1>8. y \in Pieces
  BY <1>1, <1>2, <1>7, PieceIs
<1> HIDE DEF i, d
<1>9. ASSUME NEW p \in Orders, NEW e \in area[p]
      PROVE  e * shift[p] = d * shift[order] <=> p = order /\ e = d
  <2>1. e \in Frames
    BY <1>1 DEF TypeOK
  <2>2. <<e, p, "free">> \in Pieces
    BY <1>1, <2>1, PieceIs
  <2>3. first(<<e, p, "free">>) = e * shift[p] /\ first(y) = d * shift[order]
    BY DEF first
  <2>4. e * shift[p] = d * shift[order] => <<e, p, "free">> = y
    <3> HIDE DEF y
    <3> QED
      BY <1>1, <1>8, <2>2, <2>3, SameFirst
  <2> QED
    BY <2>4
<1>10. /\ area' \in [Orders -> SUBSET Frames]
       /\ \A p \in Orders : \A e : e \in area'[p] <=> e \in area[p] /\ ~(p = order /\ e = d)
  <2>1. \A p \in Orders : area'[p] = {e \in area[p] : e * shift[p] # d * shift[order]}
    BY <1>3 DEF Unlink
  <2>2. \A p \in Orders : \A e : e \in area'[p] <=> e \in area[p] /\ ~(p = order /\ e = d)
    BY <1>9, <2>1
  <2>3. area' \in [Orders -> SUBSET Frames]
    BY <1>1, <1>3 DEF Unlink, TypeOK
  <2> QED
    BY <2>2, <2>3
<1>11. TypeOK'
  BY <1>1, <1>3, <1>4, <1>5, <1>6, <1>10 DEF TypeOK, Flipped
<1>12. z \in Universe
  BY <1>4, <1>6 DEF Universe
<1>13. Pieces' = (Pieces \ {x, y}) \cup {z}
  <2>1. \A u \in Universe : u \in Pieces' <=> (u \in Pieces /\ u # x /\ u # y) \/ u = z
    <3>1. TAKE u \in Universe
    <3>2. u = x <=> u[1] = block /\ u[2] = order /\ u[3] = "moving"
      BY TripleEq
    <3>3. u = y <=> u[1] = d /\ u[2] = order /\ u[3] = "free"
      BY TripleEq
    <3>4. u = z <=> u[1] = i /\ u[2] = order + 1 /\ u[3] = "moving"
      BY TripleEq
    <3>5. u[3] \in {"free", "busy", "moving"} /\ u[2] \in Orders
      BY DEF Universe
    <3>6. u[1] \in area'[u[2]] <=> u[1] \in area[u[2]] /\ ~(u[2] = order /\ u[1] = d)
      BY <1>10, <3>5
    <3> HIDE DEF x, y, z
    <3> QED
      BY <1>1, <1>3, <3>2, <3>3, <3>4, <3>5, <3>6 DEF Pieces, Universe
  <2>2. Pieces' \subseteq Universe /\ Pieces \subseteq Universe
    BY DEF Pieces, Universe
  <2> QED
    BY <1>12, <2>1, <2>2
<1>14. Cut(Pieces')
  <2>1. /\ x[2] = order /\ y[2] = order /\ z[2] = order + 1 /\ z[1] = i
        /\ \/ x[1] = 2 * i /\ y[1] = 2 * i + 1
           \/ y[1] = 2 * i /\ x[1] = 2 * i + 1
    BY <1>6
  <2> HIDE DEF x, y, z
  <2>2. Cut((Pieces \ {x, y}) \cup {z})
    BY <1>1, <1>2, <1>4, <1>6, <1>8, <1>12, <2>1, Merge
  <2> QED
    BY <1>13, <2>2
<1>15. MapExact'
  <2>1. \A p \in Paired : p # order => area'[p] = area[p]
    <3>1. \A p \in Paired : p \in Orders
      BY OrderAssumption DEF Paired, Orders
    <3> QED
      BY <1>10, <3>1
  <2>2. /\ d \in area'[order] <=> d \notin area[order]
        /\ \A e \in Nat : e # d => (e \in area'[order] <=> e \in area[order])
    BY <1>2, <1>7, <1>10
  <2>3. MapExact /\ map[order][d \div 2] \in {0, 1}
    BY <1>1, <1>6 DEF IInv
  <2>4. d \div 2 \in 0 .. MapBits(order) - 1 /\ Flipped(map', order, d \div 2)
    BY <1>5, <1>6
  <2> QED
    BY <1>4, <1>6, <2>1, <2>2, <2>3, <2>4, MapStep
<1>16. Coalesced'
  <2>1. \A p \in Paired : p \in Orders
    BY OrderAssumption DEF Paired, Orders
  <2> QED
    BY <1>10, <2>1 DEF IInv, Coalesced
<1>17. RefsExact'
  BY <1>3 DEF IInv, RefsExact
<1> QED
  BY <1>1, <1>3, <1>11, <1>14, <1>15, <1>16, <1>17 DEF IInv

-----------------------------------------------------------------------------
(* buddy_alloc: a free piece becomes the moving one. *)

LEMMA AllocStep ==
  ASSUME IInv, NEW o \in Orders, buddy_alloc(o)
  PROVE  IInv'
<1>1. PICK i \in o .. order_max : \E k \in area[i] :
        /\ act = "idle"
        /\ area' = [area EXCEPT ![i] = @ \ {k}]
        /\ map' = IF i # order_max THEN toggle_bit(k, i) ELSE map
        /\ act' = "split" /\ block' = k /\ order' = i /\ want' = o
        /\ UNCHANGED <<refs, busy>>
  BY DEF buddy_alloc
<1>2. PICK k \in area[i] :
        /\ act = "idle"
        /\ area' = [area EXCEPT ![i] = @ \ {k}]
        /\ map' = IF i # order_max THEN toggle_bit(k, i) ELSE map
        /\ act' = "split" /\ block' = k /\ order' = i /\ want' = o
        /\ UNCHANGED <<refs, busy>>
  BY <1>1
<1> DEFINE x == <<k, i, "free">>
           y == <<k, i, "moving">>
<1>3. i \in Orders /\ o <= i /\ TypeOK /\ Cut(Pieces)
  BY OrderAssumption DEF Orders, IInv
<1>4. k \in Frames /\ k \in Nat
  BY <1>3, OrderAssumption DEF TypeOK, Frames
<1>5. x \in Pieces /\ y \in Universe
  BY <1>3, <1>4, PieceIs
<1>6. (k + 1) * shift[i] <= frames_num
  <2>1. end(x) <= frames_num
    BY <1>3, <1>5 DEF Cut
  <2> QED
    BY <2>1 DEF end
<1>7. /\ area' \in [Orders -> SUBSET Frames]
      /\ area'[i] = area[i] \ {k}
      /\ \A p \in Orders : p # i => area'[p] = area[p]
  BY <1>2, <1>3 DEF TypeOK
<1>8. i # order_max =>
        /\ i \in Paired
        /\ map[i][k \div 2] \in {0, 1}
        /\ k \div 2 \in 0 .. MapBits(i) - 1
        /\ Flipped(map', i, k \div 2)
  <2>1. i # order_max => i \in Paired
    BY <1>3, OrderAssumption DEF Orders, Paired
  <2> QED
    BY <1>2, <1>3, <1>4, <1>6, <2>1, Toggle
<1>9. i = order_max => map' = map /\ i \notin Paired
  BY <1>2, OrderAssumption DEF Paired
<1>10. TypeOK'
  <2>1. DOMAIN map' = Paired /\ \A p \in Paired : map'[p] \in [0 .. MapBits(p) - 1 -> {0, 1}]
    BY <1>3, <1>8, <1>9 DEF TypeOK, Flipped
  <2> QED
    BY <1>2, <1>3, <1>4, <1>7, <2>1 DEF TypeOK
<1>11. Pieces' = (Pieces \ {x}) \cup {y}
  <2>1. \A u \in Universe : u \in Pieces' <=> (u \in Pieces /\ u # x) \/ u = y
    <3>1. TAKE u \in Universe
    <3>2. u = x <=> u[1] = k /\ u[2] = i /\ u[3] = "free"
      BY TripleEq
    <3>3. u = y <=> u[1] = k /\ u[2] = i /\ u[3] = "moving"
      BY TripleEq
    <3>4. u[3] \in {"free", "busy", "moving"} /\ u[2] \in Orders
      BY DEF Universe
    <3>5. u[1] \in area'[u[2]] <=> u[1] \in area[u[2]] /\ ~(u[1] = k /\ u[2] = i)
      BY <1>7, <3>4
    <3> HIDE DEF x, y
    <3> QED
      BY <1>2, <3>2, <3>3, <3>4, <3>5 DEF Pieces, Universe
  <2>2. Pieces' \subseteq Universe /\ Pieces \subseteq Universe
    BY DEF Pieces, Universe
  <2> QED
    BY <1>5, <2>1, <2>2
<1>12. Cut(Pieces')
  <2>1. y[1] = x[1] /\ y[2] = x[2]
    OBVIOUS
  <2> HIDE DEF x, y
  <2>2. Cut((Pieces \ {x}) \cup {y})
    BY <1>3, <1>5, <2>1, Retag
  <2> QED
    BY <1>11, <2>2
<1>13. \A p \in Paired : p \in Orders
  BY OrderAssumption DEF Paired, Orders
<1>14. MapExact'
  <2>0. MapExact
    BY DEF IInv
  <2>1. CASE i = order_max
    BY <2>0, <2>1, <1>7, <1>9, <1>13 DEF MapExact
  <2>2. CASE i # order_max
    <3>1. \A p \in Paired : p # i => area'[p] = area[p]
      BY <1>7, <1>13
    <3>2. /\ k \in area'[i] <=> k \notin area[i]
          /\ \A e \in Nat : e # k => (e \in area'[i] <=> e \in area[i])
      BY <1>2, <1>7
    <3> QED
      BY <2>0, <2>2, <1>4, <1>8, <3>1, <3>2, MapStep
  <2> QED
    BY <2>1, <2>2
<1>15. Coalesced'
  <2>1. \A p \in Orders : area'[p] \subseteq area[p]
    BY <1>7
  <2> QED
    BY <1>13, <2>1 DEF IInv, Coalesced
<1>16. RefsExact'
  BY <1>2 DEF IInv, RefsExact
<1> QED
  BY <1>2, <1>3, <1>10, <1>12, <1>14, <1>15, <1>16 DEF IInv

-----------------------------------------------------------------------------
(* Split: the moving piece becomes a moving and a free one. *)

LEMMA SplitStep ==
  ASSUME IInv, Split
  PROVE  IInv'
<1> DEFINE q == order - 1
           c == 2 * block + 1
           z == <<block, order, "moving">>
           x == <<2 * block, q, "moving">>
           y == <<c, q, "free">>
<1>1. TypeOK /\ Cut(Pieces) /\ act = "split" /\ order > want
  BY DEF IInv, Split
<1>2. /\ z \in Pieces /\ (block + 1) * shift[order] <= frames_num
      /\ block \in Frames /\ order \in Orders /\ block \in Nat
  BY <1>1, Moving
<1>3. /\ area' = [area EXCEPT ![q] = @ \cup {c}]
      /\ block' = 2 * block /\ order' = q
      /\ UNCHANGED <<refs, busy, act, want>>
  BY DEF Split
<1>4. q \in Paired /\ q \in Orders /\ q + 1 = order /\ want <= q
  BY <1>1, <1>2, OrderAssumption DEF Orders, Paired, TypeOK
<1>5. (c + 1) * shift[q] <= frames_num
  <2>1. (2 * block + 2) * shift[q] = (block + 1) * shift[order]
    BY <1>2, <1>4, Halves
  <2>2. c + 1 = 2 * block + 2
    BY <1>2
  <2> QED
    BY <1>2, <2>1, <2>2
<1>6. c \in Frames /\ 2 * block \in Frames /\ c \in Nat /\ 2 * block \in Nat /\ c \div 2 = block
  <2>1. c \in Nat /\ 2 * block \in Nat /\ c = 2 * block + 1 /\ c \div 2 = block
    BY <1>2
  <2> HIDE DEF c
  <2>2. c <= c * shift[q] /\ c * shift[q] < (c + 1) * shift[q]
        /\ c * shift[q] \in Nat /\ (c + 1) * shift[q] \in Nat
    BY <1>4, <2>1, Sizes
  <2>3. c < frames_num
    BY <1>5, <2>1, <2>2, OrderAssumption
  <2> QED
    BY <1>2, <2>1, <2>3, OrderAssumption DEF Frames
<1>7. /\ block \in 0 .. MapBits(q) - 1
      /\ map[q][block] \in {0, 1}
      /\ Flipped(map', q, block)
  <2>1. map' = toggle_bit(c, q)
    BY DEF Split
  <2> HIDE DEF c, q
  <2> QED
    BY <1>1, <1>4, <1>5, <1>6, <2>1, Toggle
<1>8. 2 * block \notin area[q] /\ c \notin area[q]
  <2>1. SUFFICES ASSUME NEW e \in {2 * block, c}, e \in area[q] PROVE FALSE
    OBVIOUS
  <2>2. <<e, q, "free">> \in Pieces
    BY <1>1, <1>4, <1>6, <2>1, PieceIs
  <2>3. z[1] = block /\ z[2] = q + 1 /\ <<e, q, "free">>[2] = q /\ <<e, q, "free">>[1] = e
    BY <1>4
  <2>4. <<e, q, "free">>[1] = 2 * block \/ <<e, q, "free">>[1] = 2 * block + 1
    BY <2>1
  <2> HIDE DEF z, q, c
  <2> QED
    BY <1>1, <1>2, <1>4, <2>2, <2>3, <2>4, NoHalf
<1> HIDE DEF q, c
<1>9. /\ area' \in [Orders -> SUBSET Frames]
      /\ area'[q] = area[q] \cup {c}
      /\ \A p \in Orders : p # q => area'[p] = area[p]
  BY <1>1, <1>3, <1>4, <1>6 DEF TypeOK
<1>10. TypeOK'
  BY <1>1, <1>3, <1>4, <1>6, <1>7, <1>9 DEF TypeOK, Flipped
<1>11. x \in Universe /\ y \in Universe
  BY <1>4, <1>6 DEF Universe
<1>12. Pieces' = (Pieces \ {z}) \cup {x, y}
  <2>1. \A u \in Universe : u \in Pieces' <=> (u \in Pieces /\ u # z) \/ u = x \/ u = y
    <3>1. TAKE u \in Universe
    <3>2. u = x <=> u[1] = 2 * block /\ u[2] = q /\ u[3] = "moving"
      BY TripleEq
    <3>3. u = y <=> u[1] = c /\ u[2] = q /\ u[3] = "free"
      BY TripleEq
    <3>4. u = z <=> u[1] = block /\ u[2] = order /\ u[3] = "moving"
      BY TripleEq
    <3>5. u[3] \in {"free", "busy", "moving"} /\ u[2] \in Orders
      BY DEF Universe
    <3>6. u[1] \in area'[u[2]] <=> u[1] \in area[u[2]] \/ (u[2] = q /\ u[1] = c)
      BY <1>9, <3>5
    <3> HIDE DEF x, y, z
    <3> QED
      BY <1>1, <1>3, <3>2, <3>3, <3>4, <3>5, <3>6 DEF Pieces, Universe
  <2>2. Pieces' \subseteq Universe /\ Pieces \subseteq Universe
    BY DEF Pieces, Universe
  <2> QED
    BY <1>11, <2>1, <2>2
<1>13. Cut(Pieces')
  <2>1. /\ x[2] = q /\ y[2] = q /\ z[2] = q + 1 /\ z[1] = block
        /\ x[1] = 2 * block /\ y[1] = 2 * block + 1
    BY <1>4 DEF c
  <2> HIDE DEF x, y, z
  <2>2. Cut((Pieces \ {z}) \cup {x, y})
    BY <1>1, <1>2, <1>4, <1>11, <2>1, Halve
  <2> QED
    BY <1>12, <2>2
<1>14. \A p \in Paired : p \in Orders
  BY OrderAssumption DEF Paired, Orders
<1>15. MapExact'
  <2>1. \A p \in Paired : p # q => area'[p] = area[p]
    BY <1>9, <1>14
  <2>2. /\ c \in area'[q] <=> c \notin area[q]
        /\ \A e \in Nat : e # c => (e \in area'[q] <=> e \in area[q])
    BY <1>8, <1>9
  <2>3. MapExact /\ map[q][c \div 2] \in {0, 1}
    BY <1>6, <1>7 DEF IInv
  <2>4. c \div 2 \in 0 .. MapBits(q) - 1 /\ Flipped(map', q, c \div 2)
    BY <1>6, <1>7
  <2> QED
    BY <1>4, <1>6, <2>1, <2>2, <2>3, <2>4, MapStep
<1>16. Coalesced'
  <2>1. SUFFICES ASSUME NEW o \in Paired, NEW j \in Frames,
                        2 * j \in area'[o], 2 * j + 1 \in area'[o]
                 PROVE  FALSE
    BY DEF Coalesced
  <2>2. ~(2 * j \in area[o] /\ 2 * j + 1 \in area[o])
    BY DEF IInv, Coalesced
  <2>3. o = q /\ j \in Nat
    BY <1>9, <1>14, <2>1, <2>2, OrderAssumption DEF Frames
  <2>4. 2 * j = c \/ 2 * j + 1 = c
    BY <1>9, <2>1, <2>2, <2>3
  <2>5. j = block
    BY <1>2, <2>3, <2>4 DEF c
  <2>6. 2 * j # c
    BY <2>3, <2>5 DEF c
  <2> QED
    BY <1>8, <1>9, <2>1, <2>3, <2>5, <2>6
<1>17. RefsExact'
  BY <1>3 DEF IInv, RefsExact
<1> QED
  BY <1>1, <1>3, <1>4, <1>10, <1>13, <1>15, <1>16, <1>17 DEF IInv

-----------------------------------------------------------------------------
(* AllocDone: the moving piece becomes a held one. *)

LEMMA AllocDoneStep ==
  ASSUME IInv, AllocDone
  PROVE  IInv'
<1> DEFINE f == block * shift[order]
           x == <<block, order, "moving">>
           y == <<block, order, "busy">>
<1>1. TypeOK /\ Cut(Pieces) /\ act = "split"
  BY DEF IInv, AllocDone
<1>2. /\ x \in Pieces /\ block \in Frames /\ order \in Orders /\ block \in Nat
      /\ <<block, order>> \notin busy
  BY <1>1, Moving
<1>3. y \in Universe /\ first(x) = f
  BY <1>1, <1>2, PieceIs DEF first
<1>4. f \in Frames
  BY <1>1, <1>2, <1>3, FirstInside
<1>5. /\ busy' = busy \cup {<<block, order>>}
      /\ refs' = [refs EXCEPT ![f] = @ + 1]
      /\ act' = "idle" /\ block' = 0 /\ order' = 0 /\ want' = 0
      /\ UNCHANGED <<area, map>>
  BY DEF AllocDone
<1>6. TypeOK'
  <2>1. 0 \in Frames /\ 0 \in Orders
    BY <1>2, OrderAssumption DEF Frames, Orders
  <2>2. refs' \in [Frames -> Nat]
    BY <1>1, <1>4, <1>5 DEF TypeOK
  <2>3. busy' \subseteq Frames \X Orders
    BY <1>1, <1>2, <1>5 DEF TypeOK
  <2> QED
    BY <1>1, <1>5, <2>1, <2>2, <2>3 DEF TypeOK
<1>7. Pieces' = (Pieces \ {x}) \cup {y}
  <2>1. \A u \in Universe : u \in Pieces' <=> (u \in Pieces /\ u # x) \/ u = y
    <3>1. TAKE u \in Universe
    <3>2. u = x <=> u[1] = block /\ u[2] = order /\ u[3] = "moving"
      BY TripleEq
    <3>3. u = y <=> u[1] = block /\ u[2] = order /\ u[3] = "busy"
      BY TripleEq
    <3>4. u[3] \in {"free", "busy", "moving"}
      BY DEF Universe
    <3> HIDE DEF x, y
    <3> QED
      BY <1>1, <1>5, <3>2, <3>3, <3>4 DEF Pieces, Universe
  <2>2. Pieces' \subseteq Universe /\ Pieces \subseteq Universe
    BY DEF Pieces, Universe
  <2> QED
    BY <1>3, <2>1, <2>2
<1>8. Cut(Pieces')
  <2>1. y[1] = x[1] /\ y[2] = x[2]
    OBVIOUS
  <2> HIDE DEF x, y
  <2>2. Cut((Pieces \ {x}) \cup {y})
    BY <1>1, <1>2, <1>3, <2>1, Retag
  <2> QED
    BY <1>7, <2>2
<1>9. MapExact' /\ Coalesced'
  BY <1>5 DEF IInv, MapExact, Coalesced
<1>10. RefsExact'
  <2>1. SUFFICES ASSUME NEW g \in Frames
                 PROVE  refs'[g] = IF \E b \in busy' : first(b) = g THEN 1 ELSE 0
    BY DEF RefsExact
  <2>2. refs[g] = IF \E b \in busy : first(b) = g THEN 1 ELSE 0
    BY DEF IInv, RefsExact
  <2>3. first(<<block, order>>) = f
    BY DEF first
  <2>4. CASE g # f
    <3>1. (\E b \in busy' : first(b) = g) <=> (\E b \in busy : first(b) = g)
      BY <1>5, <2>3, <2>4
    <3>2. refs'[g] = refs[g]
      BY <1>1, <1>5, <2>4 DEF TypeOK
    <3> QED
      BY <2>2, <3>1, <3>2
  <2>5. CASE g = f
    <3>1. ASSUME NEW b \in busy, first(b) = g PROVE FALSE
      <4>1. b = <<b[1], b[2]>> /\ b[1] \in Frames /\ b[2] \in Orders
        BY <1>1 DEF TypeOK
      <4>2. <<b[1], b[2], "busy">> \in Pieces
        BY <1>1, <4>1, PieceIs
      <4>3. first(<<b[1], b[2], "busy">>) = first(x)
        BY <1>3, <2>5, <3>1 DEF first
      <4>4. <<b[1], b[2], "busy">> = x
        BY <1>1, <1>2, <4>2, <4>3, SameFirst
      <4> QED
        BY <4>4
    <3>2. refs'[g] = 1
      <4>1. refs[g] = 0
        BY <2>2, <3>1
      <4> QED
        BY <1>1, <1>4, <1>5, <2>5, <4>1 DEF TypeOK
    <3>3. <<block, order>> \in busy'
      BY <1>5
    <3> QED
      BY <2>3, <2>5, <3>2, <3>3
  <2> QED
    BY <2>4, <2>5
<1> QED
  BY <1>5, <1>6, <1>8, <1>9, <1>10 DEF IInv

-----------------------------------------------------------------------------
(* The theorems *)

\* Every step of the allocator keeps the cut, the map and the counts.
THEOREM SpecIInv == Spec => []IInv
<1>1. ASSUME IInv, [Next]_vars PROVE IInv'
  <2>1. CASE \E k \in Frames, o \in Orders : zone_free(k, o)
    BY <1>1, <2>1, ZoneFreeStep
  <2>2. CASE \E o \in Orders : buddy_alloc(o)
    BY <1>1, <2>2, AllocStep
  <2>3. CASE Coalesce
    BY <1>1, <2>3, CoalesceStep
  <2>4. CASE FreeDone
    BY <1>1, <2>4, FreeDoneStep
  <2>5. CASE Split
    BY <1>1, <2>5, SplitStep
  <2>6. CASE AllocDone
    BY <1>1, <2>6, AllocDoneStep
  <2>7. CASE UNCHANGED vars
    BY <1>1, <2>7, StutterStep
  <2> QED
    BY <1>1, <2>1, <2>2, <2>3, <2>4, <2>5, <2>6, <2>7 DEF Next
<1> QED
  BY <1>1, InitIInv, PTL DEF Spec

\* The lists, the maps, the counts and the locals of the calls keep their type,
\* in zones whose maps are long enough.
THEOREM TypeCorrect == Spec => []TypeOK
<1>1. IInv => TypeOK
  BY DEF IInv
<1> QED
  BY <1>1, SpecIInv, PTL

\* buddy_alloc never hands out a frame twice, nor one outside of the zone, as
\* long as the maps are long enough.
THEOREM BlocksApart == Spec => []NoOverlap
<1>1. IInv => NoOverlap
  BY DEF IInv, Cut, NoOverlap
<1> QED
  BY <1>1, SpecIInv, PTL

\* No sequence of calls loses a frame.
THEOREM NoFrameLost == Spec => []NoneLost
<1>1. IInv => NoneLost
  BY DEF IInv, Cut, NoneLost
<1> QED
  BY <1>1, SpecIInv, PTL

\* The bit toggle_bit keeps for a pair tells whether just one of the two is in
\* the free list.
THEOREM BitsExact == Spec => []MapExact
<1>1. IInv => MapExact
  BY DEF IInv
<1> QED
  BY <1>1, SpecIInv, PTL

\* buddy_free leaves no two free buddies.
THEOREM AlwaysCoalesced == Spec => []Coalesced
<1>1. IInv => Coalesced
  BY DEF IInv
<1> QED
  BY <1>1, SpecIInv, PTL

\* The counts of zone_alloc and zone_free are 1 at the start of a held block
\* and 0 elsewhere.
THEOREM CountsExact == Spec => []RefsExact
<1>1. IInv => RefsExact
  BY DEF IInv
<1> QED
  BY <1>1, SpecIInv, PTL
=============================================================================
