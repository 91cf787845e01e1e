-------------------------------- MODULE Lists --------------------------------
(***************************************************************************)
(* The circular doubly linked lists of kernel/src/list.h.  The links of    *)
(* one kind (all the `sibling` links, say) are a record of two functions,  *)
(* next and prev, from the nodes to the nodes.  The assignments are done   *)
(* one after the other, as in the code.                                    *)
(***************************************************************************)
SetNext(l, a, b) == [l EXCEPT !.next[a] = b]
SetPrev(l, a, b) == [l EXCEPT !.prev[a] = b]

list_new(Nodes) == [next |-> [x \in Nodes |-> x], prev |-> [x \in Nodes |-> x]]

list_init(l, x) == SetPrev(SetNext(l, x, x), x, x)

list_empty(l, x) == l.next[x] = x

list_insert_after(l, list, node) ==
  LET l1 == SetPrev(SetNext(l, node, l.next[list]), node, list)
      l2 == SetPrev(l1, l1.next[list], node)
  IN  SetNext(l2, list, node)

list_insert_before(l, list, node) ==
  LET l1 == SetPrev(SetNext(l, node, list), node, l.prev[list])
      l2 == SetNext(l1, l1.prev[list], node)
  IN  SetPrev(l2, list, node)

list_delete(l, x) ==
  LET l1 == SetPrev(l, l.next[x], l.prev[x])
      l2 == SetNext(l1, l1.prev[x], l1.next[x])
  IN  SetPrev(SetNext(l2, x, x), x, x)

list_merge(l, list1, list2) ==
  LET l1 == SetNext(l, l.prev[list1], list2)
      l2 == SetNext(l1, l1.prev[list2], list1)
      l3 == SetPrev(l2, list1, l2.prev[list2])
  IN  SetPrev(l3, list2, l2.prev[list1])

\* The nodes that a loop over the list visits when it starts at x and ends at
\* the first node of Stop (when it does not get there: the whole list), and
\* where it ends.
walk(l, x, Stop) ==
  LET Nodes == DOMAIN l.next
  IN  {y \in Nodes :
         \A S \in SUBSET Nodes :
           x \in S /\ (\A z \in S \ Stop : l.next[z] \in S) => y \in S}

found(l, x, Stop) == walk(l, x, Stop) \cap Stop

list_nodes(l, x) == walk(l, x, {})

Links(Nodes) == [next : [Nodes -> Nodes], prev : [Nodes -> Nodes]]

\* next and prev are inverse to each other: following the list in either
\* direction visits the same nodes.
Linked(l, Nodes) ==
  \A x \in Nodes : l.prev[l.next[x]] = x /\ l.next[l.prev[x]] = x
=============================================================================
