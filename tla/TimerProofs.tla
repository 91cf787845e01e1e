---------------------------- MODULE TimerProofs -----------------------------
(***************************************************************************)
(* The timer queue, for any number of processes, any delays and any number *)
(* of ticks.  Core is the invariant of the queue; it holds until an alarm  *)
(* is set while it is pending, and TypeOK holds beyond that.               *)
(***************************************************************************)
EXTENDS Timer, ListsProofs

LinkInv == Ring(link, Nodes, Head, Queue \cup {Head})
PlinkInv == \A p \in Procs : Ring(plink[p], PNodes, "timers", Timers(p) \cup {"timers"})

\* The sleep event is in the list of its process during nanosleep, and a
\* process that is gone has none.
NapInv ==
  \A p \in Procs :
    /\ nap[p] <=> "sleep" \in Timers(p)
    /\ state[p] \in {"FREE", "ZOMBIE"} => Timers(p) = {}

CurrInv == curr \in Queue \cup {Head, None}

OwnerInv ==
  \A p \in Procs, k \in Kinds :
    <<p, k>> \in Queue =>
      /\ k \in Timers(p) /\ state[p] \in {"RUNNING", "SLEEPING"}
      /\ k = "sleep" => nap[p]

RefreshInv == refresh_tm \in Queue

Shape == LinkInv /\ PlinkInv /\ OwnerInv /\ NapInv /\ CurrInv /\ RefreshInv

Core == TypeOK /\ Shape

IInv == TypeOK /\ (~again => Shape)

LEMMA Nodes0 ==
  /\ Head \in Nodes /\ None \notin Nodes /\ Events \subseteq Nodes
  /\ \A e \in Events : e # Head /\ e # None
  /\ \A p \in Procs, k \in Kinds : <<p, k>> \in Events /\ <<p, k>> # refresh_tm
  /\ refresh_tm \in Events
  /\ "timers" \in PNodes /\ Kinds \subseteq PNodes
  /\ \A k \in Kinds : k # "timers"
  /\ \A p, r \in Procs, k, j \in Kinds : <<p, k>> = <<r, j>> => p = r /\ k = j
  /\ Head # None
  BY NodesAssumption DEF Nodes, Events, Owned, PNodes, Kinds

LEMMA QueueFacts ==
  ASSUME Core
  PROVE  /\ Queue \subseteq Events /\ Head \notin Queue
         /\ \A p \in Procs : Timers(p) \subseteq Kinds
         /\ \A e \in Events : list_empty(link, e) <=> e \notin Queue
         /\ \A p \in Procs, k \in Kinds : list_empty(plink[p], k) <=> k \notin Timers(p)
  <1>1. Queue \subseteq Events /\ Head \notin Queue
    BY DEF Core, Shape, LinkInv, Ring, Queue, Nodes
  <1>2. \A p \in Procs : Timers(p) \subseteq Kinds
    BY DEF Core, Shape, PlinkInv, Ring, Timers, PNodes
  <1>3. ASSUME NEW e \in Events PROVE list_empty(link, e) <=> e \notin Queue
    <2>1. e \in Nodes /\ e # Head
      BY Nodes0
    <2>2. /\ e \in Queue \cup {Head} /\ e # Head => link.next[e] # e
          /\ e \notin Queue \cup {Head} => link.next[e] = e
      BY <2>1, RingNext DEF Core, Shape, LinkInv
    <2> QED BY <2>1, <2>2 DEF list_empty
  <1>4. ASSUME NEW p \in Procs, NEW k \in Kinds PROVE list_empty(plink[p], k) <=> k \notin Timers(p)
    <2>1. k \in PNodes /\ k # "timers"
      BY Nodes0
    <2> DEFINE l == plink[p]
               T == Timers(p) \cup {"timers"}
    <2>2. Ring(l, PNodes, "timers", T)
      BY DEF Core, Shape, PlinkInv
    <2> HIDE DEF l, T
    <2>3. (k \in T /\ k # "timers" => l.next[k] # k) /\ (k \notin T => l.next[k] = k)
      BY <2>1, <2>2, RingNext
    <2> QED BY <2>1, <2>3 DEF list_empty, l, T
  <1> QED BY <1>1, <1>2, <1>3, <1>4

\* What the lists hold is known from the rings they form.
LEMMA NewQueue ==
  ASSUME NEW Q, Ring(link', Nodes, Head, Q \cup {Head}), Head \notin Q
  PROVE  LinkInv' /\ Queue' = Q /\ link' \in Links(Nodes)
  <1>1. list_nodes(link', Head) = Q \cup {Head}
    BY RingNodes
  <1>2. Queue' = Q
    BY <1>1 DEF Queue
  <1> QED BY <1>2 DEF LinkInv, Ring, Sound

LEMMA NewTimers ==
  ASSUME NEW p \in Procs, NEW T, Ring(plink'[p], PNodes, "timers", T \cup {"timers"}), "timers" \notin T
  PROVE  /\ Ring(plink'[p], PNodes, "timers", Timers(p)' \cup {"timers"})
         /\ Timers(p)' = T /\ plink'[p] \in Links(PNodes)
  <1>1. list_nodes(plink'[p], "timers") = T \cup {"timers"}
    BY RingNodes
  <1>2. Timers(p)' = T
    BY <1>1 DEF Timers
  <1> QED BY <1>2 DEF Ring, Sound

\* An event of p enters or leaves p's list.
LEMMA PlinkIn ==
  ASSUME Core, NEW p \in Procs, NEW k \in Kinds, k \notin Timers(p),
         plink' = [plink EXCEPT ![p] = list_insert_before(@, "timers", k)]
  PROVE  /\ PlinkInv' /\ plink' \in [Procs -> Links(PNodes)]
         /\ Timers(p)' = Timers(p) \cup {k}
         /\ \A r \in Procs : r # p => Timers(r)' = Timers(r)
  <1> DEFINE T == Timers(p) \cup {"timers"}
             l == plink[p]
  <1>1. /\ plink'[p] = list_insert_before(l, "timers", k) /\ DOMAIN plink' = Procs
        /\ plink' = [r \in Procs |-> plink'[r]]
        /\ \A r \in Procs : r # p => plink'[r] = plink[r]
    BY DEF Core, Shape, TypeOK
  <1>2. Ring(l, PNodes, "timers", T) /\ "timers" \in T /\ k \in PNodes /\ k \notin T
    BY Nodes0 DEF Core, Shape, PlinkInv
  <1>3. Ring(plink'[p], PNodes, "timers", T \cup {k})
    <2> HIDE DEF T, l
    <2> QED BY <1>1, <1>2, RingIn
  <1>4. T \cup {k} = (Timers(p) \cup {k}) \cup {"timers"} /\ "timers" \notin Timers(p) \cup {k}
    BY Nodes0, QueueFacts
  <1>5. Timers(p)' = Timers(p) \cup {k} /\ Ring(plink'[p], PNodes, "timers", Timers(p)' \cup {"timers"})
        /\ plink'[p] \in Links(PNodes)
    BY <1>3, <1>4, NewTimers
  <1>6. \A r \in Procs : r # p => Timers(r)' = Timers(r)
    BY <1>1 DEF Timers
  <1>7. PlinkInv'
    BY <1>1, <1>5, <1>6 DEF Core, Shape, PlinkInv
  <1>8. plink' \in [Procs -> Links(PNodes)]
    BY <1>1, <1>5 DEF Core, Shape, TypeOK
  <1> QED BY <1>5, <1>6, <1>7, <1>8

LEMMA PlinkOut ==
  ASSUME Core, NEW p \in Procs, NEW k \in Kinds,
         plink' = [plink EXCEPT ![p] = list_delete(@, k)]
  PROVE  /\ PlinkInv' /\ plink' \in [Procs -> Links(PNodes)]
         /\ Timers(p)' = Timers(p) \ {k}
         /\ \A r \in Procs : r # p => Timers(r)' = Timers(r)
  <1> DEFINE T == Timers(p) \cup {"timers"}
             l == plink[p]
  <1>1. /\ plink'[p] = list_delete(l, k)
        /\ plink' = [r \in Procs |-> plink'[r]]
        /\ \A r \in Procs : r # p => plink'[r] = plink[r]
    BY DEF Core, Shape, TypeOK
  <1>2. Ring(l, PNodes, "timers", T) /\ k \in PNodes /\ k # "timers"
    BY Nodes0 DEF Core, Shape, PlinkInv
  <1>3. Ring(plink'[p], PNodes, "timers", T \ {k})
    <2> HIDE DEF T, l
    <2> QED BY <1>1, <1>2, RingOut
  <1>4. T \ {k} = (Timers(p) \ {k}) \cup {"timers"} /\ "timers" \notin Timers(p) \ {k}
    BY <1>2, Nodes0, QueueFacts
  <1>5. Timers(p)' = Timers(p) \ {k} /\ Ring(plink'[p], PNodes, "timers", Timers(p)' \cup {"timers"})
        /\ plink'[p] \in Links(PNodes)
    BY <1>3, <1>4, NewTimers
  <1>6. \A r \in Procs : r # p => Timers(r)' = Timers(r)
    BY <1>1 DEF Timers
  <1>7. PlinkInv'
    BY <1>1, <1>5, <1>6 DEF Core, Shape, PlinkInv
  <1>8. plink' \in [Procs -> Links(PNodes)]
    BY <1>1, <1>5 DEF Core, Shape, TypeOK
  <1> QED BY <1>5, <1>6, <1>7, <1>8

LEMMA PlinkSame ==
  ASSUME Core, plink' = plink
  PROVE  PlinkInv' /\ plink' \in [Procs -> Links(PNodes)] /\ \A r \in Procs : Timers(r)' = Timers(r)
  BY DEF Core, Shape, TypeOK, PlinkInv, Timers

\* An event leaves the queue, or was not in it.
LEMMA LinkOut ==
  ASSUME Core, NEW e \in Events, link' = list_delete(link, e)
  PROVE  LinkInv' /\ Queue' = Queue \ {e} /\ link' \in Links(Nodes)
  <1> DEFINE Q == Queue \cup {Head}
  <1>1. Ring(link, Nodes, Head, Q) /\ e \in Nodes /\ e # Head
    BY Nodes0 DEF Core, Shape, LinkInv
  <1>2. Ring(link', Nodes, Head, Q \ {e})
    <2> HIDE DEF Q
    <2> QED BY <1>1, RingOut
  <1>3. Q \ {e} = (Queue \ {e}) \cup {Head} /\ Head \notin Queue \ {e}
    BY <1>1, QueueFacts
  <1> QED BY <1>2, <1>3, NewQueue

LEMMA LinkSame ==
  ASSUME Core, link' = link
  PROVE  LinkInv' /\ Queue' = Queue /\ link' \in Links(Nodes)
  BY DEF Core, Shape, TypeOK, LinkInv, Queue

\* An event that is not in the queue l enters it.
LEMMA ModFacts ==
  ASSUME TypeOK, NEW l, NEW Q, Ring(l, Nodes, Head, Q \cup {Head}), Head \notin Q,
         NEW e \in Events, e \notin Q, NEW d \in Nat, timer_event_mod(l, e, d)
  PROVE  /\ LinkInv' /\ Queue' = Q \cup {e} /\ link' \in Links(Nodes)
         /\ expires' \in [Events -> Nat] /\ due' \in [Events -> Nat]
  <1> DEFINE A == Q \cup {Head}
             when == (timer_ticks + d) % WORD
             x == l.next[Head]
  <1>1. timer_ticks \in Nat /\ WORD \in Nat \ {0}
    BY DelaysAssumption DEF TypeOK
  <1>2. when \in Nat /\ timer_ticks + d \in Nat
    BY <1>1
  <1>3. /\ expires' = [expires EXCEPT ![e] = when] /\ due' = [due EXCEPT ![e] = timer_ticks + d]
        /\ \E c \in found(l, x, Later(e, when)) : link' = list_insert_before(l, c, e)
    BY DEF timer_event_mod, timer_event_add
  <1> HIDE DEF when
  <1>4. expires' \in [Events -> Nat] /\ due' \in [Events -> Nat]
    BY <1>2, <1>3 DEF TypeOK
  <1>5. Ring(l, Nodes, Head, A) /\ e \in Nodes /\ e \notin A /\ Head \in A /\ Head \in Nodes
    BY Nodes0
  <1> HIDE DEF A
  <1>6. x \in A
    BY <1>5, RingNext
  <1> HIDE DEF x
  <1>7. PICK c \in A : link' = list_insert_before(l, c, e)
    BY <1>3, <1>5, <1>6, RingFound
  <1>8. Ring(link', Nodes, Head, A \cup {e})
    BY <1>5, <1>7, RingIn
  <1>9. A \cup {e} = (Q \cup {e}) \cup {Head} /\ Head \notin Q \cup {e}
    BY Nodes0 DEF A
  <1>10. LinkInv' /\ Queue' = Q \cup {e} /\ link' \in Links(Nodes)
    BY <1>8, <1>9, NewQueue
  <1> QED BY <1>4, <1>10

\* An event of a process, which was not in the queue, enters it.
LEMMA ArmFacts ==
  ASSUME Core, NEW e \in Events, e \notin Queue, NEW d \in Delays, timer_event_mod(link, e, d)
  PROVE  /\ LinkInv' /\ Queue' = Queue \cup {e} /\ link' \in Links(Nodes)
         /\ expires' \in [Events -> Nat] /\ due' \in [Events -> Nat]
  <1>1. d \in Nat /\ TypeOK /\ Ring(link, Nodes, Head, Queue \cup {Head}) /\ Head \notin Queue
    BY DelaysAssumption, QueueFacts DEF Core, Shape, LinkInv
  <1> QED BY <1>1, ModFacts

-----------------------------------------------------------------------------
(* The steps. *)

LEMMA InitCore == Init => Core
  <1> SUFFICES ASSUME Init PROVE Core
    OBVIOUS
  <1>1. Ring(link, Nodes, Head, {Head} \cup {refresh_tm})
    <2> DEFINE l == list_new(Nodes)
               A == {Head}
    <2>1. Ring(l, Nodes, Head, A) /\ Head \in A /\ refresh_tm \in Nodes /\ refresh_tm \notin A
      BY Nodes0, RingNew
    <2>2. link = list_insert_before(l, Head, refresh_tm)
      BY DEF Init
    <2> HIDE DEF l, A
    <2>3. Ring(link, Nodes, Head, A \cup {refresh_tm})
      BY <2>1, <2>2, RingIn
    <2> QED BY <2>3 DEF A
  <1>2. list_nodes(link, Head) = {Head} \cup {refresh_tm}
    BY <1>1, RingNodes
  <1>3. Queue = {refresh_tm} /\ Queue \cup {Head} = {Head} \cup {refresh_tm}
    BY <1>2, Nodes0 DEF Queue
  <1>4. ASSUME NEW p \in Procs
        PROVE  /\ Timers(p) = {} /\ Ring(plink[p], PNodes, "timers", {"timers"})
               /\ plink[p] \in Links(PNodes)
    <2>1. plink[p] = list_new(PNodes)
      BY DEF Init
    <2>2. Ring(plink[p], PNodes, "timers", {"timers"})
      BY <2>1, Nodes0, RingNew
    <2>3. list_nodes(plink[p], "timers") = {"timers"}
      BY <2>2, RingNodes
    <2> QED BY <2>2, <2>3 DEF Timers, Ring, Sound
  <1>5. TypeOK
    <2>1. link \in Links(Nodes)
      BY <1>1 DEF Ring, Sound
    <2>2. plink \in [Procs -> Links(PNodes)]
      BY <1>4 DEF Init
    <2>3. \A e \in Events : FirstRefresh % WORD \in Nat /\ FirstRefresh \in Nat
      BY RefreshAssumption, DelaysAssumption
    <2> QED BY <2>1, <2>2, <2>3 DEF Init, TypeOK
  <1>6. LinkInv
    BY <1>1, <1>3 DEF LinkInv
  <1>7. PlinkInv
    <2>1. \A p \in Procs : Timers(p) \cup {"timers"} = {"timers"}
      BY <1>4
    <2> QED BY <1>4, <2>1 DEF PlinkInv
  <1>8. OwnerInv
    BY <1>3, Nodes0 DEF OwnerInv
  <1>9. NapInv /\ CurrInv /\ RefreshInv
    BY <1>3, <1>4 DEF Init, NapInv, CurrInv, RefreshInv
  <1> QED BY <1>5, <1>6, <1>7, <1>8, <1>9 DEF Core, Shape

LEMMA HandlerStep ==
  ASSUME Core, timer_handler
  PROVE  Shape'
  <1>1. /\ timer_ticks' = timer_ticks + 1 /\ curr' = link.next[Head]
        /\ UNCHANGED <<link, plink, expires, state, nap, due, again>>
    BY DEF timer_handler, lists
  <1>2. curr' \in Queue \cup {Head}
    <2> DEFINE Q == Queue \cup {Head}
    <2>1. Ring(link, Nodes, Head, Q) /\ Head \in Q /\ Head \in Nodes
      BY Nodes0 DEF Core, Shape, LinkInv
    <2> HIDE DEF Q
    <2>2. curr' \in Q
      BY <1>1, <2>1, RingNext
    <2> QED BY <2>2 DEF Q
  <1>3. LinkInv' /\ Queue' = Queue /\ PlinkInv' /\ \A r \in Procs : Timers(r)' = Timers(r)
    BY <1>1, LinkSame, PlinkSame
  <1> QED BY <1>1, <1>2, <1>3 DEF Core, Shape, OwnerInv, NapInv, CurrInv, RefreshInv

\* The loop goes on at another node of the queue.
LEMMA NextNode ==
  ASSUME Core, NEW e \in Events, e \in Queue
  PROVE  link.next[e] \in Queue \cup {Head} /\ link.next[e] # e
  <1> DEFINE Q == Queue \cup {Head}
  <1>1. Ring(link, Nodes, Head, Q) /\ e \in Q /\ e \in Nodes /\ e # Head
    BY Nodes0 DEF Core, Shape, LinkInv
  <1> HIDE DEF Q
  <1>2. link.next[e] \in Q /\ link.next[e] # e
    BY <1>1, RingNext
  <1> QED BY <1>2 DEF Q

\* The event is not due.
LEMMA SkipStep ==
  ASSUME Core, curr' \in Queue \cup {Head}, UNCHANGED <<lists, state, nap>>
  PROVE  Shape'
  <1>1. LinkInv' /\ Queue' = Queue /\ PlinkInv' /\ \A r \in Procs : Timers(r)' = Timers(r)
    BY LinkSame, PlinkSame DEF lists
  <1> QED BY <1>1 DEF Core, Shape, OwnerInv, NapInv, CurrInv, RefreshInv

\* The function of the event puts it back into the queue.
LEMMA RefreshStep ==
  ASSUME Core, curr' \in Queue \cup {Head}, curr' # refresh_tm,
         refresh_func(list_delete(link, refresh_tm)), nap' = nap
  PROVE  Shape'
  <1> DEFINE l == list_delete(link, refresh_tm)
             Q == Queue \ {refresh_tm}
             A == Queue \cup {Head}
  <1>1. timer_event_mod(l, refresh_tm, RefreshDelay) /\ UNCHANGED <<plink, state>>
    BY DEF refresh_func
  <1>2. Ring(link, Nodes, Head, A) /\ refresh_tm \in Nodes /\ refresh_tm # Head
    BY Nodes0 DEF Core, Shape, LinkInv
  <1>3. Ring(l, Nodes, Head, A \ {refresh_tm})
    <2> HIDE DEF A
    <2> QED BY <1>2, RingOut
  <1>4. A \ {refresh_tm} = Q \cup {Head} /\ Head \notin Q /\ refresh_tm \notin Q
    BY <1>2, QueueFacts
  <1>5. RefreshDelay \in Nat /\ refresh_tm \in Events /\ TypeOK
    BY RefreshAssumption, Nodes0 DEF Core
  <1>6. Queue = Q \cup {refresh_tm}
    BY DEF Core, Shape, RefreshInv
  <1> HIDE DEF l, Q, A
  <1>7. LinkInv' /\ Queue' = Q \cup {refresh_tm}
    BY <1>1, <1>3, <1>4, <1>5, ModFacts
  <1>8. PlinkInv' /\ \A r \in Procs : Timers(r)' = Timers(r)
    BY <1>1, PlinkSame
  <1> QED BY <1>1, <1>6, <1>7, <1>8 DEF Core, Shape, OwnerInv, NapInv, CurrInv, RefreshInv

\* The event of a process fires.
LEMMA FireStep ==
  ASSUME Core, NEW p \in Procs, NEW k \in Kinds, <<p, k>> \in Queue,
         curr' \in Queue \cup {Head}, curr' # <<p, k>>, nap' = nap,
         link' = list_delete(link, <<p, k>>),
         IF k = "alarm" THEN alarm_handler(p) ELSE sleep_timer_handler(p)
  PROVE  Shape'
  <1>1. <<p, k>> \in Events /\ <<p, k>> # refresh_tm
    BY Nodes0
  <1>2. k \in Timers(p) /\ state[p] \in {"RUNNING", "SLEEPING"}
    BY DEF Core, Shape, OwnerInv
  <1>3. LinkInv' /\ Queue' = Queue \ {<<p, k>>}
    BY <1>1, LinkOut
  <1>4. CurrInv' /\ RefreshInv'
    BY <1>1, <1>3 DEF Core, Shape, CurrInv, RefreshInv
  <1>5. CASE k = "alarm"
    <2>1. /\ plink' = [plink EXCEPT ![p] = list_delete(@, "alarm")]
          /\ state' = state \/ state' = [state EXCEPT ![p] = "RUNNING"]
      BY <1>5 DEF alarm_handler
    <2>2. /\ PlinkInv' /\ Timers(p)' = Timers(p) \ {"alarm"}
          /\ \A r \in Procs : r # p => Timers(r)' = Timers(r)
      BY <1>5, <2>1, PlinkOut
    <2>3. OwnerInv'
      <3> SUFFICES ASSUME NEW r \in Procs, NEW j \in Kinds, <<r, j>> \in Queue'
                   PROVE  /\ j \in Timers(r)' /\ state'[r] \in {"RUNNING", "SLEEPING"}
                          /\ j = "sleep" => nap'[r]
        BY DEF OwnerInv
      <3>1. <<r, j>> \in Queue /\ ~(r = p /\ j = "alarm")
        BY <1>3, <1>5
      <3>2. j \in Timers(r) /\ state[r] \in {"RUNNING", "SLEEPING"} /\ (j = "sleep" => nap[r])
        BY <3>1 DEF Core, Shape, OwnerInv
      <3> QED BY <2>1, <2>2, <3>1, <3>2 DEF Core, TypeOK
    <2>4. NapInv'
      BY <1>2, <2>1, <2>2 DEF Core, Shape, TypeOK, NapInv
    <2> QED BY <1>3, <1>4, <2>2, <2>3, <2>4 DEF Shape
  <1>6. CASE k = "sleep"
    <2>1. state' = [state EXCEPT ![p] = "RUNNING"] /\ plink' = plink
      BY <1>6 DEF sleep_timer_handler
    <2>2. PlinkInv' /\ \A r \in Procs : Timers(r)' = Timers(r)
      BY <2>1, PlinkSame
    <2>3. OwnerInv' /\ NapInv'
      BY <1>2, <1>3, <2>1, <2>2 DEF Core, Shape, TypeOK, OwnerInv, NapInv
    <2> QED BY <1>3, <1>4, <2>2, <2>3 DEF Shape
  <1> QED BY <1>5, <1>6 DEF Kinds

LEMMA UpdateStep ==
  ASSUME Core, timer_update
  PROVE  Shape'
  <1> DEFINE l == list_delete(link, curr)
  <1>1. curr \in Events /\ curr' = link.next[curr] /\ nap' = nap
    BY DEF timer_update
  <1>2. curr \in Queue
    BY <1>1, Nodes0 DEF Core, Shape, CurrInv
  <1>3. curr' \in Queue \cup {Head} /\ curr' # curr
    BY <1>1, <1>2, NextNode
  <1>4. UNCHANGED <<lists, state>> \/ tm_func(curr, l)
    BY DEF timer_update
  <1>5. CASE UNCHANGED <<lists, state>>
    BY <1>1, <1>3, <1>5, SkipStep
  <1>6. CASE curr = refresh_tm /\ refresh_func(l)
    BY <1>1, <1>3, <1>6, RefreshStep
  <1>7. CASE /\ curr \in Owned /\ link' = l
             /\ IF curr[2] = "alarm" THEN alarm_handler(curr[1]) ELSE sleep_timer_handler(curr[1])
    <2>1. PICK p \in Procs, k \in Kinds : curr = <<p, k>>
      BY <1>7 DEF Owned
    <2>2. IF k = "alarm" THEN alarm_handler(p) ELSE sleep_timer_handler(p)
      BY <1>7, <2>1
    <2> QED BY <1>1, <1>2, <1>3, <1>7, <2>1, <2>2, FireStep
  <1> QED BY <1>4, <1>5, <1>6, <1>7 DEF tm_func

LEMMA EndStep ==
  ASSUME Core, timer_update_end
  PROVE  Shape'
  <1>1. curr' = None /\ UNCHANGED <<timer_ticks, link, plink, expires, state, nap, due>>
    BY DEF timer_update_end, lists
  <1>2. LinkInv' /\ Queue' = Queue /\ PlinkInv' /\ \A r \in Procs : Timers(r)' = Timers(r)
    BY <1>1, LinkSame, PlinkSame
  <1> QED BY <1>1, <1>2 DEF Core, Shape, OwnerInv, NapInv, CurrInv, RefreshInv

\* Only a process changes state, and stays as much alive as it was.
LEMMA StateStep ==
  ASSUME Core, NEW p \in Procs, UNCHANGED <<timer_ticks, link, plink, expires, nap, curr, due>>,
         NEW s \in {"FREE", "RUNNING"}, state' = [state EXCEPT ![p] = s],
         state[p] \in {"FREE", "ZOMBIE"} \/ (state[p] = "SLEEPING" /\ s = "RUNNING")
  PROVE  Shape'
  <1>1. LinkInv' /\ Queue' = Queue /\ PlinkInv' /\ \A r \in Procs : Timers(r)' = Timers(r)
    BY LinkSame, PlinkSame
  <1>3. OwnerInv'
    <2> SUFFICES ASSUME NEW r \in Procs, NEW j \in Kinds, <<r, j>> \in Queue
                 PROVE  /\ j \in Timers(r)' /\ state'[r] \in {"RUNNING", "SLEEPING"}
                        /\ j = "sleep" => nap'[r]
      BY <1>1 DEF OwnerInv
    <2>1. j \in Timers(r) /\ state[r] \in {"RUNNING", "SLEEPING"} /\ (j = "sleep" => nap[r])
      BY DEF Core, Shape, OwnerInv
    <2> QED BY <1>1, <2>1 DEF Core, Shape, TypeOK
  <1>4. NapInv'
    BY <1>1 DEF Core, Shape, TypeOK, NapInv
  <1> QED BY <1>1, <1>3, <1>4 DEF Core, Shape, CurrInv, RefreshInv

LEMMA AlarmStep ==
  ASSUME Core, NEW p \in Procs, NEW d \in Delays, sys_alarm(p, d), ~again'
  PROVE  Shape'
  <1> DEFINE e == <<p, "alarm">>
  <1>1. /\ list_empty(link, e) /\ timer_event_mod(link, e, d) /\ curr = None /\ state[p] = "RUNNING"
        /\ plink' = IF list_empty(plink[p], "alarm")
                       THEN [plink EXCEPT ![p] = list_insert_before(@, "timers", "alarm")] ELSE plink
        /\ UNCHANGED <<timer_ticks, state, nap, curr>>
    BY DEF sys_alarm, InUser
  <1>2. "alarm" \in Kinds /\ e \in Events /\ e \notin Queue
    BY <1>1, Nodes0, QueueFacts DEF Kinds
  <1>3. /\ LinkInv' /\ Queue' = Queue \cup {e} /\ link' \in Links(Nodes)
        /\ expires' \in [Events -> Nat] /\ due' \in [Events -> Nat]
    BY <1>1, <1>2, ArmFacts
  <1>4. /\ PlinkInv' /\ plink' \in [Procs -> Links(PNodes)]
        /\ Timers(p)' = Timers(p) \cup {"alarm"}
        /\ \A r \in Procs : r # p => Timers(r)' = Timers(r)
    <2>1. CASE "alarm" \notin Timers(p)
      <3>1. plink' = [plink EXCEPT ![p] = list_insert_before(@, "timers", "alarm")]
        BY <1>1, <1>2, <2>1, QueueFacts
      <3> QED BY <1>2, <2>1, <3>1, PlinkIn
    <2>2. CASE "alarm" \in Timers(p)
      <3>1. plink' = plink
        BY <1>1, <1>2, <2>2, QueueFacts
      <3> QED BY <2>2, <3>1, PlinkSame
    <2> QED BY <2>1, <2>2
  <1>6. OwnerInv'
    <2> SUFFICES ASSUME NEW r \in Procs, NEW j \in Kinds, <<r, j>> \in Queue'
                 PROVE  /\ j \in Timers(r)' /\ state'[r] \in {"RUNNING", "SLEEPING"}
                        /\ j = "sleep" => nap'[r]
      BY DEF OwnerInv
    <2>1. CASE r = p /\ j = "alarm"
      BY <1>1, <1>4, <2>1
    <2>2. CASE <<r, j>> \in Queue
      <3>1. j \in Timers(r) /\ state[r] \in {"RUNNING", "SLEEPING"} /\ (j = "sleep" => nap[r])
        BY <2>2 DEF Core, Shape, OwnerInv
      <3> QED BY <1>1, <1>4, <3>1
    <2> QED BY <1>3, <2>1, <2>2
  <1>7. NapInv'
    BY <1>1, <1>4 DEF Core, Shape, NapInv
  <1>8. CurrInv'
    BY <1>1 DEF CurrInv
  <1>9. RefreshInv'
    BY <1>2, <1>3, Nodes0 DEF Core, Shape, RefreshInv
  <1> QED BY <1>3, <1>4, <1>6, <1>7, <1>8, <1>9 DEF Shape

LEMMA NanosleepStep ==
  ASSUME Core, NEW p \in Procs, NEW d \in Delays, sys_nanosleep(p, d)
  PROVE  Shape'
  <1> DEFINE e == <<p, "sleep">>
  <1>1. /\ timer_event_mod(link, e, d) /\ curr = None /\ ~nap[p]
        /\ state' = [state EXCEPT ![p] = "SLEEPING"] /\ nap' = [nap EXCEPT ![p] = TRUE]
        /\ plink' = [plink EXCEPT ![p] = list_insert_before(@, "timers", "sleep")]
        /\ UNCHANGED <<timer_ticks, curr>>
    BY DEF sys_nanosleep, InUser
  <1>2. "sleep" \in Kinds /\ e \in Events /\ "sleep" \notin Timers(p) /\ e \notin Queue
    BY <1>1, Nodes0 DEF Kinds, Core, Shape, NapInv, OwnerInv
  <1>3. /\ LinkInv' /\ Queue' = Queue \cup {e} /\ link' \in Links(Nodes)
        /\ expires' \in [Events -> Nat] /\ due' \in [Events -> Nat]
    BY <1>1, <1>2, ArmFacts
  <1>4. /\ PlinkInv' /\ plink' \in [Procs -> Links(PNodes)]
        /\ Timers(p)' = Timers(p) \cup {"sleep"}
        /\ \A r \in Procs : r # p => Timers(r)' = Timers(r)
    BY <1>1, <1>2, PlinkIn
  <1>6. OwnerInv'
    <2> SUFFICES ASSUME NEW r \in Procs, NEW j \in Kinds, <<r, j>> \in Queue'
                 PROVE  /\ j \in Timers(r)' /\ state'[r] \in {"RUNNING", "SLEEPING"}
                        /\ j = "sleep" => nap'[r]
      BY DEF OwnerInv
    <2>1. CASE r = p /\ j = "sleep"
      BY <1>1, <1>4, <2>1 DEF Core, Shape, TypeOK
    <2>2. CASE <<r, j>> \in Queue
      <3>1. j \in Timers(r) /\ state[r] \in {"RUNNING", "SLEEPING"} /\ (j = "sleep" => nap[r])
        BY <2>2 DEF Core, Shape, OwnerInv
      <3> QED BY <1>1, <1>4, <3>1 DEF Core, Shape, TypeOK
    <2> QED BY <1>3, <2>1, <2>2
  <1>7. NapInv'
    BY <1>1, <1>4 DEF Core, Shape, NapInv, TypeOK
  <1>8. CurrInv'
    BY <1>1 DEF CurrInv
  <1>9. RefreshInv'
    BY <1>2, <1>3, Nodes0 DEF Core, Shape, RefreshInv
  <1> QED BY <1>3, <1>4, <1>6, <1>7, <1>8, <1>9 DEF Shape

LEMMA CancelStep ==
  ASSUME Core, NEW p \in Procs, alarm_cancel(p)
  PROVE  Shape'
  <1> DEFINE e == <<p, "alarm">>
  <1>1. /\ link' = IF list_empty(link, e) THEN link ELSE list_delete(link, e)
        /\ plink' = IF list_empty(plink[p], "alarm") THEN plink
                    ELSE [plink EXCEPT ![p] = list_delete(@, "alarm")]
        /\ curr = None /\ UNCHANGED <<timer_ticks, expires, state, nap, curr, due>>
        /\ state[p] = "RUNNING"
    BY DEF alarm_cancel, InUser
  <1>2. "alarm" \in Kinds /\ e \in Events
    BY Nodes0 DEF Kinds
  <1>3. LinkInv' /\ Queue' = Queue \ {e} /\ link' \in Links(Nodes)
    <2>1. CASE link' = list_delete(link, e)
      BY <1>2, <2>1, LinkOut
    <2>2. CASE link' = link /\ list_empty(link, e)
      BY <1>2, <2>2, LinkSame, QueueFacts
    <2> QED BY <1>1, <2>1, <2>2
  <1>4. /\ PlinkInv' /\ plink' \in [Procs -> Links(PNodes)]
        /\ Timers(p)' = Timers(p) \ {"alarm"}
        /\ \A r \in Procs : r # p => Timers(r)' = Timers(r)
    <2>1. CASE plink' = [plink EXCEPT ![p] = list_delete(@, "alarm")]
      BY <1>2, <2>1, PlinkOut
    <2>2. CASE plink' = plink /\ list_empty(plink[p], "alarm")
      BY <1>2, <2>2, PlinkSame, QueueFacts
    <2> QED BY <1>1, <2>1, <2>2
  <1>6. OwnerInv'
    <2> SUFFICES ASSUME NEW r \in Procs, NEW j \in Kinds, <<r, j>> \in Queue'
                 PROVE  /\ j \in Timers(r)' /\ state'[r] \in {"RUNNING", "SLEEPING"}
                        /\ j = "sleep" => nap'[r]
      BY DEF OwnerInv
    <2>1. <<r, j>> \in Queue /\ ~(r = p /\ j = "alarm")
      BY <1>3
    <2>2. j \in Timers(r) /\ state[r] \in {"RUNNING", "SLEEPING"} /\ (j = "sleep" => nap[r])
      BY <2>1 DEF Core, Shape, OwnerInv
    <2> QED BY <1>1, <1>4, <2>1, <2>2
  <1>7. NapInv'
    BY <1>1, <1>4 DEF Core, Shape, NapInv
  <1>8. CurrInv'
    BY <1>1 DEF CurrInv
  <1>9. RefreshInv'
    BY <1>2, <1>3, Nodes0 DEF Core, Shape, RefreshInv
  <1> QED BY <1>3, <1>4, <1>6, <1>7, <1>8, <1>9 DEF Shape

LEMMA ResumeStep ==
  ASSUME Core, NEW p \in Procs, nanosleep_resume(p)
  PROVE  Shape'
  <1> DEFINE e == <<p, "sleep">>
  <1>1. /\ link' = list_delete(link, e)
        /\ plink' = [plink EXCEPT ![p] = list_delete(@, "sleep")]
        /\ nap' = [nap EXCEPT ![p] = FALSE] /\ state[p] = "RUNNING"
        /\ curr = None /\ UNCHANGED <<state, curr>>
    BY DEF nanosleep_resume
  <1>2. "sleep" \in Kinds /\ e \in Events
    BY Nodes0 DEF Kinds
  <1>3. LinkInv' /\ Queue' = Queue \ {e} /\ link' \in Links(Nodes)
    BY <1>1, <1>2, LinkOut
  <1>4. /\ PlinkInv' /\ plink' \in [Procs -> Links(PNodes)]
        /\ Timers(p)' = Timers(p) \ {"sleep"}
        /\ \A r \in Procs : r # p => Timers(r)' = Timers(r)
    BY <1>1, <1>2, PlinkOut
  <1>6. OwnerInv'
    <2> SUFFICES ASSUME NEW r \in Procs, NEW j \in Kinds, <<r, j>> \in Queue'
                 PROVE  /\ j \in Timers(r)' /\ state'[r] \in {"RUNNING", "SLEEPING"}
                        /\ j = "sleep" => nap'[r]
      BY DEF OwnerInv
    <2>1. <<r, j>> \in Queue /\ ~(r = p /\ j = "sleep")
      BY <1>3
    <2>2. j \in Timers(r) /\ state[r] \in {"RUNNING", "SLEEPING"} /\ (j = "sleep" => nap[r])
      BY <2>1 DEF Core, Shape, OwnerInv
    <2> QED BY <1>1, <1>4, <2>1, <2>2 DEF Core, Shape, TypeOK
  <1>7. NapInv'
    BY <1>1, <1>4 DEF Core, Shape, NapInv, TypeOK
  <1>8. CurrInv'
    BY <1>1 DEF CurrInv
  <1>9. RefreshInv'
    BY <1>2, <1>3, Nodes0 DEF Core, Shape, RefreshInv
  <1> QED BY <1>3, <1>4, <1>6, <1>7, <1>8, <1>9 DEF Shape

LEMMA ExitStep ==
  ASSUME Core, NEW p \in Procs, sys_exit(p)
  PROVE  Shape'
  <1> DEFINE e == <<p, "alarm">>
  <1>1. /\ state[p] = "RUNNING" /\ ~nap[p] /\ curr = None
        /\ plink' = [plink EXCEPT ![p] = list_new(PNodes)]
        /\ state' = [state EXCEPT ![p] = "ZOMBIE"]
        /\ UNCHANGED <<timer_ticks, expires, nap, curr, due>>
    BY DEF sys_exit, InUser
  <1>2. "alarm" \in Kinds /\ e \in Events /\ "sleep" \notin Timers(p) /\ <<p, "sleep">> \notin Queue
    BY <1>1, Nodes0 DEF Kinds, Core, Shape, NapInv, OwnerInv
  <1>3. link' = IF "alarm" \in Timers(p) THEN list_delete(link, e) ELSE link
    BY <1>2 DEF sys_exit
  <1>4. LinkInv' /\ Queue' = Queue \ {e} /\ link' \in Links(Nodes)
    <2>1. CASE "alarm" \in Timers(p)
      BY <1>2, <1>3, <2>1, LinkOut
    <2>2. CASE "alarm" \notin Timers(p)
      <3>1. e \notin Queue
        BY <1>2, <2>2 DEF Core, Shape, OwnerInv
      <3> QED BY <1>3, <2>2, <3>1, LinkSame
    <2> QED BY <2>1, <2>2
  <1>5. plink'[p] = list_new(PNodes) /\ \A r \in Procs : r # p => plink'[r] = plink[r]
    BY <1>1 DEF Core, Shape, TypeOK
  <1>6. /\ Ring(plink'[p], PNodes, "timers", Timers(p)' \cup {"timers"})
        /\ Timers(p)' = {} /\ plink'[p] \in Links(PNodes)
    <2>1. Ring(plink'[p], PNodes, "timers", {} \cup {"timers"})
      <3>1. {} \cup {"timers"} = {"timers"}
        OBVIOUS
      <3> QED BY <1>5, <3>1, Nodes0, RingNew
    <2> QED BY <2>1, NewTimers
  <1>7. \A r \in Procs : r # p => Timers(r)' = Timers(r)
    BY <1>5 DEF Timers
  <1>8. PlinkInv'
    BY <1>5, <1>6, <1>7 DEF Core, Shape, PlinkInv
  <1>10. OwnerInv'
    <2> SUFFICES ASSUME NEW r \in Procs, NEW j \in Kinds, <<r, j>> \in Queue'
                 PROVE  /\ j \in Timers(r)' /\ state'[r] \in {"RUNNING", "SLEEPING"}
                        /\ j = "sleep" => nap'[r]
      BY DEF OwnerInv
    <2>1. <<r, j>> \in Queue /\ r # p
      BY <1>2, <1>4 DEF Kinds
    <2>2. j \in Timers(r) /\ state[r] \in {"RUNNING", "SLEEPING"} /\ (j = "sleep" => nap[r])
      BY <2>1 DEF Core, Shape, OwnerInv
    <2> QED BY <1>1, <1>7, <2>1, <2>2 DEF Core, Shape, TypeOK
  <1>11. NapInv'
    BY <1>1, <1>6, <1>7 DEF Core, Shape, NapInv, TypeOK
  <1>12. CurrInv'
    BY <1>1 DEF CurrInv
  <1>13. RefreshInv'
    BY <1>2, <1>4, Nodes0 DEF Core, Shape, RefreshInv
  <1> QED BY <1>4, <1>8, <1>10, <1>11, <1>12, <1>13 DEF Shape

LEMMA ForkStep ==
  ASSUME Core, NEW p \in Procs, Fork(p)
  PROVE  Shape'
  <1>1. /\ state[p] = "FREE" /\ curr = None /\ state' = [state EXCEPT ![p] = "RUNNING"]
        /\ plink' = [plink EXCEPT ![p] = list_init(@, "timers")]
        /\ UNCHANGED <<link, nap, curr>>
    BY DEF Fork
  <1>2. list_init(plink[p], "timers") = plink[p]
    <2> DEFINE l == plink[p]
    <2>1. Timers(p) = {}
      BY <1>1 DEF Core, Shape, NapInv
    <2>2. Ring(l, PNodes, "timers", {"timers"})
      BY <2>1 DEF Core, Shape, PlinkInv
    <2> HIDE DEF l
    <2>3. list_init(l, "timers") = l
      BY <2>2, RingInit
    <2> QED BY <2>3 DEF l
  <1>3. plink' = plink
    BY <1>1, <1>2 DEF Core, Shape, TypeOK
  <1>4. LinkInv' /\ Queue' = Queue /\ PlinkInv' /\ \A r \in Procs : Timers(r)' = Timers(r)
    BY <1>1, <1>3, LinkSame, PlinkSame
  <1>6. OwnerInv' /\ NapInv'
    BY <1>1, <1>4 DEF Core, Shape, TypeOK, OwnerInv, NapInv
  <1> QED BY <1>1, <1>4, <1>6 DEF Core, Shape, CurrInv, RefreshInv

-----------------------------------------------------------------------------
(* Types, which hold whatever becomes of the queue. *)

LEMMA SetTypes ==
  ASSUME NEW N, NEW l \in Links(N), NEW a \in N, NEW b \in N
  PROVE  SetNext(l, a, b) \in Links(N) /\ SetPrev(l, a, b) \in Links(N)
  BY DEF Links, SetNext, SetPrev

LEMMA ListTypes ==
  ASSUME NEW N, NEW l \in Links(N), NEW x \in N, NEW y \in N
  PROVE  /\ list_delete(l, x) \in Links(N)
         /\ list_insert_before(l, x, y) \in Links(N)
         /\ list_init(l, x) \in Links(N)
         /\ list_new(N) \in Links(N)
  <1>1. list_delete(l, x) \in Links(N)
    <2> DEFINE l1 == SetPrev(l, l.next[x], l.prev[x])
               l2 == SetNext(l1, l1.prev[x], l1.next[x])
               l3 == SetNext(l2, x, x)
    <2>1. l1 \in Links(N)
      BY LinksType, SetTypes
    <2> HIDE DEF l1
    <2>2. l2 \in Links(N)
      BY <2>1, LinksType, SetTypes
    <2> HIDE DEF l2
    <2>3. l3 \in Links(N)
      BY <2>2, SetTypes
    <2> HIDE DEF l3
    <2>4. SetPrev(l3, x, x) \in Links(N)
      BY <2>3, SetTypes
    <2> QED BY <2>4 DEF list_delete, l1, l2, l3
  <1>2. list_insert_before(l, x, y) \in Links(N)
    <2> DEFINE l0 == SetNext(l, y, x)
               l1 == SetPrev(l0, y, l.prev[x])
               l2 == SetNext(l1, l1.prev[x], y)
    <2>1. l0 \in Links(N)
      BY SetTypes
    <2> HIDE DEF l0
    <2>2. l1 \in Links(N)
      BY <2>1, LinksType, SetTypes
    <2> HIDE DEF l1
    <2>3. l2 \in Links(N)
      BY <2>2, LinksType, SetTypes
    <2> HIDE DEF l2
    <2>4. SetPrev(l2, x, y) \in Links(N)
      BY <2>3, SetTypes
    <2> QED BY <2>4 DEF list_insert_before, l0, l1, l2
  <1>3. list_init(l, x) \in Links(N)
    <2>1. SetNext(l, x, x) \in Links(N)
      BY SetTypes
    <2> QED BY <2>1, SetTypes DEF list_init
  <1>4. list_new(N) \in Links(N)
    BY DEF list_new, Links
  <1> QED BY <1>1, <1>2, <1>3, <1>4

LEMMA ModTypes ==
  ASSUME TypeOK, NEW l \in Links(Nodes), NEW e \in Events, NEW d \in Nat, timer_event_mod(l, e, d)
  PROVE  /\ link' \in Links(Nodes)
         /\ expires' \in [Events -> Nat] /\ due' \in [Events -> Nat]
  <1> DEFINE when == (timer_ticks + d) % WORD
  <1>1. timer_ticks \in Nat /\ WORD \in Nat \ {0}
    BY DelaysAssumption DEF TypeOK
  <1>2. when \in Nat /\ timer_ticks + d \in Nat
    BY <1>1
  <1>3. /\ expires' = [expires EXCEPT ![e] = when] /\ due' = [due EXCEPT ![e] = timer_ticks + d]
        /\ \E c \in found(l, l.next[Head], Later(e, when)) : link' = list_insert_before(l, c, e)
    BY DEF timer_event_mod, timer_event_add
  <1> HIDE DEF when
  <1>4. PICK c \in Nodes : link' = list_insert_before(l, c, e)
    BY <1>3, Nodes0 DEF found, Later, Nodes
  <1>5. link' \in Links(Nodes)
    BY <1>4, Nodes0, ListTypes
  <1>6. expires' \in [Events -> Nat] /\ due' \in [Events -> Nat]
    BY <1>2, <1>3 DEF TypeOK
  <1> QED BY <1>5, <1>6

LEMMA PlinkTypes ==
  ASSUME TypeOK, NEW p \in Procs, NEW m \in Links(PNodes), plink' = [plink EXCEPT ![p] = m]
  PROVE  plink' \in [Procs -> Links(PNodes)]
  BY DEF TypeOK

\* What the process of an event may have become.
LEMMA StateTypes ==
  ASSUME TypeOK, NEW p \in Procs, NEW s \in {"FREE", "RUNNING", "SLEEPING", "ZOMBIE"},
         state' = [state EXCEPT ![p] = s]
  PROVE  state' \in [Procs -> {"FREE", "RUNNING", "SLEEPING", "ZOMBIE"}]
  BY DEF TypeOK

LEMMA TypeUpdate ==
  ASSUME TypeOK, timer_update
  PROVE  TypeOK'
  <1> DEFINE l == list_delete(link, curr)
  <1>1. /\ curr \in Events /\ curr \in Nodes /\ curr' = link.next[curr] /\ link \in Links(Nodes)
        /\ UNCHANGED <<timer_ticks, nap, again>>
    BY Nodes0 DEF timer_update, TypeOK
  <1>2. curr' \in Nodes /\ l \in Links(Nodes)
    BY <1>1, LinksType, ListTypes
  <1>3. CASE UNCHANGED <<lists, expires, due, state>>
    BY <1>1, <1>2, <1>3 DEF TypeOK, lists
  <1>4. CASE curr = refresh_tm /\ refresh_func(l)
    <2>1. timer_event_mod(l, refresh_tm, RefreshDelay) /\ UNCHANGED <<plink, state>>
      BY <1>4 DEF refresh_func
    <2>2. RefreshDelay \in Nat /\ refresh_tm \in Events
      BY RefreshAssumption, Nodes0
    <2> HIDE DEF l
    <2>3. link' \in Links(Nodes) /\ expires' \in [Events -> Nat] /\ due' \in [Events -> Nat]
      BY <1>2, <2>1, <2>2, ModTypes
    <2> QED BY <1>1, <1>2, <2>1, <2>3 DEF TypeOK
  <1>5. CASE /\ curr \in Owned /\ link' = l /\ UNCHANGED <<expires, due>>
             /\ IF curr[2] = "alarm" THEN alarm_handler(curr[1]) ELSE sleep_timer_handler(curr[1])
    <2>1. PICK p \in Procs, k \in Kinds : curr = <<p, k>>
      BY <1>5 DEF Owned
    <2>2. alarm_handler(p) \/ sleep_timer_handler(p)
      BY <1>5, <2>1
    <2>3. plink[p] \in Links(PNodes) /\ "alarm" \in PNodes
      BY Nodes0 DEF TypeOK, Kinds
    <2>4. plink' = plink \/ plink' = [plink EXCEPT ![p] = list_delete(plink[p], "alarm")]
      BY <2>2 DEF alarm_handler, sleep_timer_handler
    <2>5. state' = state \/ state' = [state EXCEPT ![p] = "RUNNING"]
      BY <2>2 DEF alarm_handler, sleep_timer_handler
    <2>6. plink' \in [Procs -> Links(PNodes)]
      BY <2>3, <2>4, ListTypes, PlinkTypes DEF TypeOK
    <2>7. state' \in [Procs -> {"FREE", "RUNNING", "SLEEPING", "ZOMBIE"}]
      BY <2>5, StateTypes DEF TypeOK
    <2> HIDE DEF l
    <2> QED BY <1>1, <1>2, <1>5, <2>6, <2>7 DEF TypeOK
  <1> QED BY <1>3, <1>4, <1>5 DEF timer_update, tm_func

LEMMA TypeAlarm ==
  ASSUME TypeOK, NEW p \in Procs, NEW d \in Delays, sys_alarm(p, d)
  PROVE  TypeOK'
  <1> DEFINE m == list_insert_before(plink[p], "timers", "alarm")
  <1>1. /\ timer_event_mod(link, <<p, "alarm">>, d)
        /\ plink' = plink \/ plink' = [plink EXCEPT ![p] = m]
        /\ again' \in BOOLEAN
        /\ UNCHANGED <<timer_ticks, state, nap, curr>>
    BY DEF sys_alarm
  <1>2. /\ <<p, "alarm">> \in Events /\ d \in Nat /\ link \in Links(Nodes)
        /\ plink[p] \in Links(PNodes) /\ "alarm" \in PNodes /\ "timers" \in PNodes
    BY DelaysAssumption, Nodes0 DEF TypeOK, Kinds
  <1>3. link' \in Links(Nodes) /\ expires' \in [Events -> Nat] /\ due' \in [Events -> Nat]
    BY <1>1, <1>2, ModTypes
  <1>4. plink' \in [Procs -> Links(PNodes)]
    BY <1>1, <1>2, ListTypes, PlinkTypes DEF TypeOK
  <1> QED BY <1>1, <1>3, <1>4 DEF TypeOK

LEMMA TypeNanosleep ==
  ASSUME TypeOK, NEW p \in Procs, NEW d \in Delays, sys_nanosleep(p, d)
  PROVE  TypeOK'
  <1> DEFINE m == list_insert_before(plink[p], "timers", "sleep")
  <1>1. /\ timer_event_mod(link, <<p, "sleep">>, d)
        /\ plink' = [plink EXCEPT ![p] = m]
        /\ state' = [state EXCEPT ![p] = "SLEEPING"] /\ nap' = [nap EXCEPT ![p] = TRUE]
        /\ UNCHANGED <<timer_ticks, curr, again>>
    BY DEF sys_nanosleep
  <1>2. /\ <<p, "sleep">> \in Events /\ d \in Nat /\ link \in Links(Nodes)
        /\ plink[p] \in Links(PNodes) /\ "sleep" \in PNodes /\ "timers" \in PNodes
    BY DelaysAssumption, Nodes0 DEF TypeOK, Kinds
  <1>3. link' \in Links(Nodes) /\ expires' \in [Events -> Nat] /\ due' \in [Events -> Nat]
    BY <1>1, <1>2, ModTypes
  <1>4. m \in Links(PNodes)
    BY <1>2, ListTypes
  <1> HIDE DEF m
  <1>5. plink' \in [Procs -> Links(PNodes)]
    BY <1>1, <1>4, PlinkTypes
  <1>6. state' \in [Procs -> {"FREE", "RUNNING", "SLEEPING", "ZOMBIE"}]
    BY <1>1, StateTypes
  <1> QED BY <1>1, <1>3, <1>5, <1>6 DEF TypeOK

LEMMA TypeCancel ==
  ASSUME TypeOK, NEW p \in Procs, alarm_cancel(p) \/ nanosleep_resume(p)
  PROVE  TypeOK'
  <1>1. PICK k \in Kinds :
          /\ link' = link \/ link' = list_delete(link, <<p, k>>)
          /\ plink' = plink \/ plink' = [plink EXCEPT ![p] = list_delete(plink[p], k)]
    BY DEF alarm_cancel, nanosleep_resume, Kinds
  <1>2. /\ nap' = nap \/ nap' = [nap EXCEPT ![p] = FALSE]
        /\ expires' = expires \/ expires' = [expires EXCEPT ![<<p, "sleep">>] = 0]
        /\ due' = due \/ due' = [due EXCEPT ![<<p, "sleep">>] = 0]
        /\ UNCHANGED <<timer_ticks, state, curr, again>>
    BY DEF alarm_cancel, nanosleep_resume
  <1>3. <<p, k>> \in Nodes /\ link \in Links(Nodes) /\ plink[p] \in Links(PNodes) /\ k \in PNodes
    BY Nodes0 DEF TypeOK
  <1>4. link' \in Links(Nodes)
    BY <1>1, <1>3, ListTypes
  <1>5. plink' \in [Procs -> Links(PNodes)]
    BY <1>1, <1>3, ListTypes, PlinkTypes DEF TypeOK
  <1>6. expires' \in [Events -> Nat] /\ due' \in [Events -> Nat]
    BY <1>2 DEF TypeOK
  <1>7. nap' \in [Procs -> BOOLEAN]
    BY <1>2 DEF TypeOK
  <1> QED BY <1>2, <1>4, <1>5, <1>6, <1>7 DEF TypeOK

LEMMA TypeExit ==
  ASSUME TypeOK, NEW p \in Procs, sys_exit(p)
  PROVE  TypeOK'
  <1> DEFINE l1 == IF "alarm" \in Timers(p) THEN list_delete(link, <<p, "alarm">>) ELSE link
             l2 == IF "sleep" \in Timers(p) THEN list_delete(l1, <<p, "sleep">>) ELSE l1
  <1>1. /\ link' = l2 /\ plink' = [plink EXCEPT ![p] = list_new(PNodes)]
        /\ state' = [state EXCEPT ![p] = "ZOMBIE"]
        /\ UNCHANGED <<timer_ticks, expires, nap, curr, due, again>>
    BY DEF sys_exit
  <1>2. <<p, "alarm">> \in Nodes /\ <<p, "sleep">> \in Nodes /\ link \in Links(Nodes)
        /\ plink[p] \in Links(PNodes) /\ "timers" \in PNodes
    BY Nodes0 DEF TypeOK, Kinds
  <1>3. l1 \in Links(Nodes)
    BY <1>2, ListTypes
  <1> HIDE DEF l1
  <1>4. l2 \in Links(Nodes)
    BY <1>2, <1>3, ListTypes
  <1> HIDE DEF l2
  <1>5. plink' \in [Procs -> Links(PNodes)]
    BY <1>1, <1>2, ListTypes, PlinkTypes
  <1>6. state' \in [Procs -> {"FREE", "RUNNING", "SLEEPING", "ZOMBIE"}]
    BY <1>1, StateTypes
  <1> QED BY <1>1, <1>4, <1>5, <1>6 DEF TypeOK

LEMMA TypeFork ==
  ASSUME TypeOK, NEW p \in Procs, Fork(p)
  PROVE  TypeOK'
  <1> DEFINE m == list_init(plink[p], "timers")
  <1>1. /\ plink' = [plink EXCEPT ![p] = m] /\ state' = [state EXCEPT ![p] = "RUNNING"]
        /\ expires' = [expires EXCEPT ![<<p, "alarm">>] = 0]
        /\ due' = [due EXCEPT ![<<p, "alarm">>] = 0]
        /\ UNCHANGED <<timer_ticks, link, nap, curr, again>>
    BY DEF Fork
  <1>2. m \in Links(PNodes)
    BY Nodes0, ListTypes DEF TypeOK
  <1> HIDE DEF m
  <1>3. plink' \in [Procs -> Links(PNodes)]
    BY <1>1, <1>2, PlinkTypes
  <1>4. state' \in [Procs -> {"FREE", "RUNNING", "SLEEPING", "ZOMBIE"}]
    BY <1>1, StateTypes
  <1>5. expires' \in [Events -> Nat] /\ due' \in [Events -> Nat]
    BY <1>1 DEF TypeOK
  <1> QED BY <1>1, <1>3, <1>4, <1>5 DEF TypeOK

LEMMA TypeStep == TypeOK /\ [Next]_vars => TypeOK'
  <1> SUFFICES ASSUME TypeOK, [Next]_vars PROVE TypeOK'
    OBVIOUS
  <1>1. CASE UNCHANGED vars
    BY <1>1 DEF TypeOK, vars, lists
  <1>2. CASE timer_handler
    <2>1. link.next[Head] \in Nodes
      BY Nodes0, LinksType DEF TypeOK
    <2> QED BY <1>2, <2>1 DEF timer_handler, TypeOK, lists
  <1>3. CASE timer_update_end
    BY <1>3 DEF timer_update_end, TypeOK, lists
  <1>4. ASSUME NEW p \in Procs, Signal(p) \/ Reap(p) PROVE TypeOK'
    <2>1. state' \in [Procs -> {"FREE", "RUNNING", "SLEEPING", "ZOMBIE"}]
      BY <1>4, StateTypes DEF Signal, Reap
    <2> QED BY <1>4, <2>1 DEF Signal, Reap, TypeOK, lists
  <1> QED BY <1>1, <1>2, <1>3, <1>4, TypeUpdate, TypeAlarm, TypeNanosleep, TypeCancel, TypeExit,
             TypeFork DEF Next, Update

-----------------------------------------------------------------------------
(* The invariant. *)

\* No step takes `again` back, and until it is set every step keeps the queue.
LEMMA NextShape ==
  ASSUME Core, [Next]_vars, ~again'
  PROVE  Shape'
  <1>1. CASE UNCHANGED vars
    BY <1>1, SkipStep DEF vars, Core, Shape, CurrInv, LinkInv, PlinkInv, OwnerInv, NapInv, RefreshInv, Queue, Timers, lists
  <1>2. ASSUME NEW p \in Procs, Signal(p) \/ Reap(p) PROVE Shape'
    BY <1>2, StateStep DEF Signal, Reap, lists
  <1> QED BY <1>1, <1>2, HandlerStep, UpdateStep, EndStep, AlarmStep, NanosleepStep, CancelStep,
             ResumeStep, ExitStep, ForkStep DEF Next, Update

LEMMA AgainStays == [Next]_vars /\ again => again'
  BY DEF Next, Update, vars, timer_handler, timer_update, timer_update_end, sys_alarm, sys_nanosleep,
         alarm_cancel, nanosleep_resume, Signal, sys_exit, Reap, Fork

\* The queue is in order until an alarm is set while it is pending.
THEOREM SpecIInv == Spec => []IInv
  <1>1. Init => IInv
    BY InitCore DEF IInv, Core
  <1>2. IInv /\ [Next]_vars => IInv'
    BY TypeStep, NextShape, AgainStays DEF IInv, Core
  <1> QED BY <1>1, <1>2, PTL DEF Spec

-----------------------------------------------------------------------------
\* The timer queue and its users keep the type of their state, also when an
\* alarm that is set again has spoilt the queue.
THEOREM TypeCorrect == Spec => []TypeOK
  <1>1. IInv => TypeOK
    BY DEF IInv
  <1> QED BY <1>1, SpecIInv, PTL

\* Until an alarm is set while it is pending, no event of a process in the
\* queue belongs to a process that has exited.
THEOREM OwnersLive == Spec => []QueueOwned
  <1>1. IInv => QueueOwned
    BY DEF IInv, Shape, OwnerInv, QueueOwned
  <1> QED BY <1>1, SpecIInv, PTL

\* Until an alarm is set while it is pending, the queue is one ring, and
\* timer_update walks along it while functions of events change it.
THEOREM QueueKept == Spec => []QueueIntact
  <1>1. ASSUME IInv, ~again
        PROVE  /\ Linked(link, Nodes) /\ \A e \in Events \ Queue : list_empty(link, e)
               /\ curr \in Queue \cup {Head, None}
    <2>1. Core
      BY <1>1 DEF IInv, Core
    <2>2. Linked(link, Nodes)
      BY <2>1 DEF Core, Shape, LinkInv, Ring, Sound
    <2>3. \A e \in Events \ Queue : list_empty(link, e)
      BY <2>1, QueueFacts
    <2> QED BY <2>1, <2>2, <2>3 DEF Core, Shape, CurrInv
  <1>2. IInv => QueueIntact
    BY <1>1 DEF QueueIntact
  <1> QED BY <1>2, SpecIInv, PTL

\* Until an alarm is set while it is pending, the event of the screen stays in
\* the queue.
THEOREM RefreshStays == Spec => []RefreshKept
  <1>1. IInv => RefreshKept
    BY DEF IInv, Shape, RefreshInv, RefreshKept
  <1> QED BY <1>1, SpecIInv, PTL
=============================================================================
