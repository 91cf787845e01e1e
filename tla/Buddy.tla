-------------------------------- MODULE Buddy --------------------------------
(***************************************************************************)
(* The frame allocator of one memory zone: the buddy system of mm/buddy.c  *)
(* under the reference counts of mm/zone.c.  A block is given by its order *)
(* o and its number k among the blocks of that order, so that frm -        *)
(* ctx->frames is k << o.  The order within a free list is left open.      *)
(*                                                                         *)
(* The loops of buddy_free and buddy_alloc are one action per iteration;   *)
(* `act` says which of them is running, and nothing else happens meanwhile.*)
(***************************************************************************)
EXTENDS Integers, FiniteSets

CONSTANTS frames_num,  \* the frames of the zone
          order_max,   \* fnzb(frames_num)
          shift,       \* shift[o] is 1 << o
          WORD_BITS    \* 8 * sizeof(unsigned long)

ASSUME OrderAssumption == frames_num \in Nat /\ order_max \in Nat /\ WORD_BITS \in Nat \ {0}

Orders == 0 .. order_max
Paired == 0 .. order_max - 1    \* the orders whose blocks have a buddy
Frames == 0 .. frames_num - 1

ASSUME ShiftAssumption ==
  /\ shift \in [Orders -> Nat \ {0}]
  /\ shift[0] = 1
  /\ \A o \in Paired : shift[o + 1] = 2 * shift[o]

ASSUME ZoneAssumption == shift[order_max] <= frames_num /\ frames_num < 2 * shift[order_max]

\* The bits in the map of order o.
MapBits(o) == (((frames_num \div (2 * shift[o])) - 1) \div WORD_BITS + 1) * WORD_BITS

\* The zones spoken of here: those in which buddy_init allocates a bit for every
\* pair of which one block exists.  It does not when the complete pairs of an
\* order fill whole words and one more block is left over.
ASSUME MapAssumption ==
  \A o \in Paired, k \in Frames : (k + 1) * shift[o] <= frames_num => k \div 2 < MapBits(o)

VARIABLES
  area,   \* area[o]: the blocks in free_area[o].list
  map,    \* map[o]: free_area[o].map
  refs,   \* refs[f]: references to frame f
  busy,   \* the blocks, as pairs of number and order, that somebody holds
  act,    \* "free": in buddy_free, "split": in buddy_alloc
  block, order,  \* block_idx and order (i in buddy_alloc)
  want    \* the argument order of buddy_alloc

local == <<act, block, order, want>>
vars == <<area, map, refs, busy, local>>

\* Every frame is taken until the kernel, booting, frees the ones it has.
Init ==
  /\ area = [o \in Orders |-> {}]
  /\ map = [o \in Paired |-> [i \in 0 .. MapBits(o) - 1 |-> 0]]
  /\ refs = [f \in Frames |-> 1]
  /\ busy = Frames \X {0}
  /\ act = "idle" /\ block = 0 /\ order = 0 /\ want = 0

\* Mutant: the bit is set, whatever it was.
toggle_bit_set(k, o) == [map EXCEPT ![o][k \div 2] = 1]

\* Mutant: the bit is counted up.
toggle_bit_add(k, o) == [map EXCEPT ![o][k \div 2] = @ + 1]

\* One bit for the two blocks of a pair.
toggle_bit(k, o) == [map EXCEPT ![o][k \div 2] = 1 - @]

buddy(k) == IF k % 2 = 0 THEN k + 1 ELSE k - 1

\* list_delete of the link of frame f, whichever free list it is in.
Unlink(f) == [o \in Orders |-> {k \in area[o] : k * shift[o] # f}]

-----------------------------------------------------------------------------
\* The block is held, or no block that is held starts there: it is freed a
\* second time.
MayFree(k, o) ==
  <<k, o>> \in busy \/ (k * shift[o] \in Frames /\ refs[k * shift[o]] = 0)

\* Mutant: no test of the count.
zone_free_always(k, o) ==
  LET f == k * shift[o]
  IN  /\ act = "idle" /\ MayFree(k, o)
      /\ busy' = busy \ {<<k, o>>}
      /\ refs' = [refs EXCEPT ![f] = @ - 1]
      /\ IF refs[f] = 1 THEN act' = "free" /\ block' = k /\ order' = o
                        ELSE UNCHANGED <<act, block, order>>
      /\ UNCHANGED <<area, map, want>>

\* A block is freed: zone_free, and the start of buddy_free.
zone_free(k, o) ==
  LET f == k * shift[o]
  IN  /\ act = "idle" /\ MayFree(k, o)
      /\ busy' = busy \ {<<k, o>>}
      /\ refs' = IF refs[f] > 0 THEN [refs EXCEPT ![f] = @ - 1] ELSE refs
      /\ IF refs[f] = 1 THEN act' = "free" /\ block' = k /\ order' = o
                        ELSE UNCHANGED <<act, block, order>>
      /\ UNCHANGED <<area, map, want>>

\* An iteration of the loop of buddy_free: the toggled bit is 0, the buddy is
\* free and the two become one block of the next order.
Coalesce ==
  /\ act = "free" /\ order # order_max
  /\ map[order][block \div 2] = 1
  /\ map' = toggle_bit(block, order)
  /\ area' = Unlink(buddy(block) * shift[order])
  /\ block' = block \div 2 /\ order' = order + 1
  /\ UNCHANGED <<refs, busy, act, want>>

\* Mutant: the loop may end although the buddy is free.
FreeDone_early ==
  /\ act = "free"
  /\ map' = IF order = order_max THEN map ELSE toggle_bit(block, order)
  /\ area' = [area EXCEPT ![order] = @ \cup {block}]
  /\ act' = "idle" /\ block' = 0 /\ order' = 0
  /\ UNCHANGED <<refs, busy, want>>

\* The end of buddy_free: no buddy at this order, or it is not free.
FreeDone ==
  /\ act = "free"
  /\ \/ order = order_max /\ UNCHANGED map
     \/ /\ order # order_max
        /\ map[order][block \div 2] = 0
        /\ map' = toggle_bit(block, order)
  /\ area' = [area EXCEPT ![order] = @ \cup {block}]
  /\ act' = "idle" /\ block' = 0 /\ order' = 0
  /\ UNCHANGED <<refs, busy, want>>

-----------------------------------------------------------------------------
\* buddy_alloc takes a block from the first free list that is not empty.
buddy_alloc(o) ==
  \E i \in o .. order_max : \E k \in area[i] :
    /\ act = "idle"
    /\ \A j \in o .. i - 1 : area[j] = {}
    /\ area' = [area EXCEPT ![i] = @ \ {k}]
    /\ map' = IF i # order_max THEN toggle_bit(k, i) ELSE map
    /\ act' = "split" /\ block' = k /\ order' = i /\ want' = o
    /\ UNCHANGED <<refs, busy>>

\* Mutant: the half that is kept goes to the free list.
Split_left ==
  /\ act = "split" /\ order > want
  /\ block' = 2 * block /\ order' = order - 1
  /\ area' = [area EXCEPT ![order - 1] = @ \cup {2 * block}]
  /\ map' = toggle_bit(2 * block, order - 1)
  /\ UNCHANGED <<refs, busy, act, want>>

\* Mutant: the half that is not needed goes nowhere.
Split_lost ==
  /\ act = "split" /\ order > want
  /\ block' = 2 * block /\ order' = order - 1
  /\ UNCHANGED <<area, map, refs, busy, act, want>>

\* An iteration of its loop: the right half goes to the free list.
Split ==
  /\ act = "split" /\ order > want
  /\ block' = 2 * block /\ order' = order - 1
  /\ area' = [area EXCEPT ![order - 1] = @ \cup {2 * block + 1}]
  /\ map' = toggle_bit(2 * block + 1, order - 1)
  /\ UNCHANGED <<refs, busy, act, want>>

\* buddy_alloc returns and zone_alloc counts the reference.
AllocDone ==
  LET f == block * shift[order]
  IN  /\ act = "split" /\ order = want
      /\ busy' = busy \cup {<<block, order>>}
      /\ refs' = [refs EXCEPT ![f] = @ + 1]
      /\ act' = "idle" /\ block' = 0 /\ order' = 0 /\ want' = 0
      /\ UNCHANGED <<area, map>>

Next ==
  \/ \E k \in Frames, o \in Orders : zone_free(k, o)
  \/ \E o \in Orders : buddy_alloc(o)
  \/ Coalesce \/ FreeDone \/ Split \/ AllocDone

Spec == Init /\ [][Next]_vars

-----------------------------------------------------------------------------
(* Properties *)

TypeOK ==
  /\ area \in [Orders -> SUBSET Frames]
  /\ DOMAIN map = Paired
  /\ \A o \in Paired : map[o] \in [0 .. MapBits(o) - 1 -> {0, 1}]
  /\ refs \in [Frames -> Nat]
  /\ busy \subseteq Frames \X Orders
  /\ act \in {"idle", "free", "split"}
  /\ block \in Frames /\ order \in Orders /\ want \in Orders

\* The pieces the zone is cut into: blocks in a free list, blocks that are
\* held, and the block that a running call is moving.
Pieces ==
  {x \in Frames \X Orders \X {"free", "busy", "moving"} :
     \/ x[3] = "free" /\ x[1] \in area[x[2]]
     \/ x[3] = "busy" /\ <<x[1], x[2]>> \in busy
     \/ x[3] = "moving" /\ act # "idle" /\ x[1] = block /\ x[2] = order}

first(x) == x[1] * shift[x[2]]
end(x) == (x[1] + 1) * shift[x[2]]

Apart(P) ==
  \A x, y \in P : first(x) < end(y) /\ first(y) < end(x) => x = y

\* No frame is in two places: no two holders share one, no held frame is in a
\* free list, no free block overlaps another, and no block sticks out of the
\* zone, whatever is split and coalesced.
NoOverlap ==
  /\ Apart(Pieces)
  /\ \A x \in Pieces : end(x) <= frames_num

\* No frame is lost: every frame is in a free list, held or being moved.
NoneLost ==
  \A f \in Frames : \E x \in Pieces : first(x) <= f /\ f < end(x)

\* buddy.c:29: "We use a bit for each couple of buddies."  The bit is set just
\* when exactly one of the two is in the free list, in every step of a call.
MapExact ==
  \A o \in Paired : \A i \in 0 .. MapBits(o) - 1 :
    map[o][i] = 1 <=> ~(2 * i \in area[o] <=> 2 * i + 1 \in area[o])

\* No two buddies are free at the same time: buddy_free coalesces all that can
\* be coalesced.
Coalesced ==
  \A o \in Paired, i \in Frames : ~(2 * i \in area[o] /\ 2 * i + 1 \in area[o])

\* A frame has a reference just when it starts a block that somebody holds,
\* also when blocks are freed a second time: zone_free looks at the count first.
RefsExact ==
  \A f \in Frames : refs[f] = IF \E b \in busy : first(b) = f THEN 1 ELSE 0

FreeFrames == {f \in Frames : \E o \in Orders : \E k \in area[o] :
                 k * shift[o] <= f /\ f < (k + 1) * shift[o]}

\* buddy_alloc returns NULL only when there really is no aligned run of free
\* frames of the size it was asked for.
FailsOnlyFull ==
  act = "idle" =>
    \A o \in Orders : (\A i \in o .. order_max : area[i] = {}) =>
      \A k \in Frames :
        (k + 1) * shift[o] <= frames_num =>
          \E f \in k * shift[o] .. (k + 1) * shift[o] - 1 : f \notin FreeFrames
=============================================================================
