----------------------------- MODULE ProcProofs -----------------------------
(***************************************************************************)
(* The lists of module Proc, and the wakeups of waitpid, for any number of *)
(* tasks.                                                                  *)
(***************************************************************************)
EXTENDS Proc, ListsProofs

\* A structure that is free.
Free == Task \ Alive

ListsInv ==
  /\ Sound(tasks, Task, Free) /\ Sound(children, Task, Free) /\ Sound(sibling, Task, Free)

\* The idle task is never a process and never ends.
IdleInv == state[ktask] = "RUNNING"

\* NoLostExit without the ring: the loop of waitpid misses no zombie.
LostInv ==
  \A p \in Slots, t \in Task :
    state[p] = "SLEEPING" /\ pid[p] # 1 /\ state[t] = "ZOMBIE" /\ pptr[t] = p
      => wait[p] \notin {pid[t], -1}

IInv == TypeOK /\ ListsInv /\ OneRing(tasks, Alive) /\ IdleInv /\ LostInv

\* The second half of the children ring is cut off.
LEMMA SplitFacts ==
  ASSUME NEW N, NEW Solo \in SUBSET N, NEW l, Sound(l, N, Solo),
         NEW node \in N, NEW head \in N, node \notin Solo, head \notin Solo
  PROVE  Sound(children_split(l, node, head), N, Solo)
  <1> DEFINE a == l.next[node]
             b == l.prev[head]
             l1 == SetPrev(l, a, b)
             l2 == SetNext(l1, l1.prev[head], l1.next[node])
             l3 == SetNext(l2, node, head)
             l4 == SetPrev(l3, head, node)
  <1> HIDE DEF l1, l2, l3, l4
  <1>0. l \in Links(N) /\ Linked(l, N) /\ \A y \in Solo : l.next[y] = y
    BY DEF Sound
  <1>a. a \in N /\ b \in N
    BY <1>0, LinksType
  <1>b. \A y \in N : l.next[y] \in N /\ l.prev[y] \in N /\ l.prev[l.next[y]] = y /\ l.next[l.prev[y]] = y
    BY <1>0, LinksType DEF Linked
  <1>1. /\ l1 \in Links(N) /\ l1.next = l.next
        /\ \A y \in N : l1.prev[y] = IF y = a THEN b ELSE l.prev[y]
    BY <1>0, <1>a DEF l1, SetPrev, Links
  <1>c. l1.prev[head] = b /\ l1.next[node] = a
    BY <1>1
  <1>2. /\ l2 \in Links(N) /\ l2.prev = l1.prev
        /\ \A y \in N : l2.next[y] = IF y = b THEN a ELSE l.next[y]
    BY <1>1, <1>a, <1>c DEF l2, SetNext, Links
  <1>3. /\ l3 \in Links(N) /\ l3.prev = l2.prev
        /\ \A y \in N : l3.next[y] = IF y = node THEN head ELSE l2.next[y]
    BY <1>2 DEF l3, SetNext, Links
  <1>4. /\ l4 \in Links(N) /\ l4.next = l3.next
        /\ \A y \in N : l4.prev[y] = IF y = head THEN node ELSE l3.prev[y]
    BY <1>3 DEF l4, SetPrev, Links
  <1>5. l4 = children_split(l, node, head)
    BY DEF children_split, l1, l2, l3, l4
  <1>6. \A y \in N :
          /\ l4.next[y] = IF y = node THEN head ELSE IF y = b THEN a ELSE l.next[y]
          /\ l4.prev[y] = IF y = head THEN node ELSE IF y = a THEN b ELSE l.prev[y]
    BY <1>1, <1>2, <1>3, <1>4
  <1>7. Linked(l4, N)
    <2>1. ASSUME NEW y \in N PROVE l4.prev[l4.next[y]] = y
      <3>1. CASE y = node
        BY <1>6, <3>1
      <3>2. CASE y = b /\ y # node
        BY <1>6, <1>a, <1>b, <3>2
      <3>3. CASE y # b /\ y # node
        BY <1>6, <1>b, <3>3
      <3> QED BY <3>1, <3>2, <3>3
    <2>2. ASSUME NEW y \in N PROVE l4.next[l4.prev[y]] = y
      <3>1. CASE y = head
        BY <1>6, <3>1
      <3>2. CASE y = a /\ y # head
        BY <1>6, <1>a, <1>b, <3>2
      <3>3. CASE y # a /\ y # head
        BY <1>6, <1>b, <3>3
      <3> QED BY <3>1, <3>2, <3>3
    <2> QED BY <2>1, <2>2 DEF Linked
  <1>8. \A y \in Solo : l4.next[y] = y
    BY <1>0, <1>6, <1>b
  <1>9. Sound(l4, N, Solo)
    BY <1>4, <1>7, <1>8 DEF Sound
  <1> QED BY <1>5, <1>9

\* A loop over a list that starts at a live task ends at a live task.
LEMMA FoundAlive ==
  ASSUME TypeOK, NEW l, Sound(l, Task, Free), NEW x \in Alive, NEW Stop
  PROVE  found(l, x, Stop) \subseteq Alive
  <1>1. \A z \in Alive : l.next[z] \in Alive
    <2>1. Alive = Task \ Free /\ Free \in SUBSET Task
      BY DEF Free, Alive
    <2> QED BY <2>1, RingClosed
  <1>2. l \in Links(Task) /\ Alive \in SUBSET Task
    BY DEF Sound, Alive
  <1>3. walk(l, x, Stop) \subseteq Alive
    BY <1>1, <1>2, WalkInside
  <1> QED BY <1>3 DEF found

LEMMA NextAlive ==
  ASSUME NEW l, Sound(l, Task, Free), NEW x \in Alive
  PROVE  l.next[x] \in Alive
  <1>1. x \in Task \ Free /\ Free \in SUBSET Task /\ Alive = Task \ Free
    BY DEF Free, Alive
  <1> QED BY <1>1, RingClosed

-----------------------------------------------------------------------------
(* The steps. *)

LEMMA ForkStep ==
  ASSUME IInv, NEW p \in Slots, Fork(p)
  PROVE  IInv'
  <1> USE DEF IInv
  <1>1. PICK s \in Slots : /\ state[s] = "FREE" /\ task_init(p, s)
                           /\ state' = [state EXCEPT ![s] = "RUNNING"]
    BY DEF Fork
  <1>2. state[p] = "RUNNING" /\ UNCHANGED <<wait, panicked>>
    BY DEF Fork, InUser
  <1>3. /\ p \in Task /\ p \in Alive /\ s \in Task /\ s \in Free /\ p \notin Free
        /\ Free \in SUBSET Task /\ Alive = Task \ Free
        /\ Alive' = Alive \cup {s} /\ Free' = Free \ {s}
    BY <1>1, <1>2 DEF TypeOK, Task, Alive, Free
  <1> DEFINE first == children.next[p]
  <1>4. first \in Alive /\ first \in Task /\ first \notin Free
    BY <1>3, NextAlive DEF ListsInv, Free
  <1>5. list_init(tasks, s) = tasks /\ list_init(children, s) = children /\ list_init(sibling, s) = sibling
    BY <1>3, InitFacts DEF ListsInv
  <1>6. /\ tasks' = list_insert_before(tasks, p, s)
        /\ children' \in {list_insert_after(children, p, s), children}
        /\ sibling' \in {list_insert_before(sibling, first, s), sibling}
    BY <1>1, <1>5 DEF task_init
  <1>7. Sound(tasks', Task, Free')
    BY <1>3, <1>6, InsertBeforeFacts DEF ListsInv
  <1>8. Sound(children', Task, Free')
    <2>1. CASE children' = list_insert_after(children, p, s)
      BY <1>3, <2>1, InsertAfterFacts DEF ListsInv
    <2>2. CASE children' = children
      BY <1>3, <2>2 DEF ListsInv, Sound
    <2> QED BY <1>6, <2>1, <2>2
  <1>9. Sound(sibling', Task, Free')
    <2>1. CASE sibling' = list_insert_before(sibling, first, s)
      BY <1>3, <1>4, <2>1, InsertBeforeFacts DEF ListsInv
    <2>2. CASE sibling' = sibling
      BY <1>3, <2>2 DEF ListsInv, Sound
    <2> QED BY <1>6, <2>1, <2>2
  <1>10. OneRing(tasks', Alive')
    <2>1. OneRing(tasks, Task \ Free) /\ p \in Task \ Free /\ Sound(tasks, Task, Free)
      BY <1>3 DEF ListsInv
    <2>2. OneRing(list_insert_before(tasks, p, s), (Task \ Free) \cup {s})
      BY <1>3, <2>1, RingInsert
    <2> QED BY <1>3, <1>6, <2>2
  <1>0. /\ next_pid' = next_pid + 1 /\ pid' = [pid EXCEPT ![s] = next_pid]
        /\ pptr' = [pptr EXCEPT ![s] = p]
    BY <1>1 DEF task_init
  <1>11. TypeOK'
    <2>1. tasks' \in Links(Task) /\ children' \in Links(Task) /\ sibling' \in Links(Task)
      BY <1>7, <1>8, <1>9 DEF Sound
    <2>2. next_pid' \in Nat /\ pid' \in [Task -> Nat] /\ pptr' \in [Task -> Task]
      <3>1. next_pid \in Nat /\ pid \in [Task -> Nat] /\ pptr \in [Task -> Task]
        BY DEF TypeOK
      <3>2. next_pid' \in Nat
        BY <1>0, <3>1
      <3>3. pid' \in [Task -> Nat]
        BY <1>0, <3>1
      <3>4. pptr' \in [Task -> Task]
        BY <1>0, <1>3, <3>1
      <3> QED BY <3>2, <3>3, <3>4
    <2>3. state' \in [Task -> {"FREE", "RUNNING", "SLEEPING", "ZOMBIE"}]
      BY <1>1, <1>3 DEF TypeOK
    <2> QED BY <1>2, <2>1, <2>2, <2>3 DEF TypeOK
  <1>12. IdleInv' /\ LostInv'
    <2>1. \A t \in Task : /\ state'[t] = IF t = s THEN "RUNNING" ELSE state[t]
                          /\ pid'[t] = IF t = s THEN next_pid ELSE pid[t]
                          /\ pptr'[t] = IF t = s THEN p ELSE pptr[t]
      BY <1>0, <1>1, <1>3 DEF TypeOK
    <2> QED BY <1>2, <1>3, <2>1, SlotsAssumption DEF IdleInv, LostInv, Task
  <1> QED BY <1>7, <1>8, <1>9, <1>10, <1>11, <1>12 DEF ListsInv

\* Whoever becomes a zombie wakes its parent.
LEMMA BuryFacts ==
  ASSUME TypeOK, IdleInv, NEW p \in Slots, state[p] = "RUNNING", Bury(p)
  PROVE  /\ state' \in [Task -> {"FREE", "RUNNING", "SLEEPING", "ZOMBIE"}]
         /\ Alive' = Alive /\ Free' = Free /\ IdleInv'
         /\ state'[pptr[p]] # "SLEEPING"
         /\ \A t \in Task : state'[t] = "SLEEPING" => state[t] = "SLEEPING"
         /\ \A t \in Task : state'[t] = "ZOMBIE" => t = p \/ state[t] = "ZOMBIE"
  BY SlotsAssumption DEF TypeOK, IdleInv, Bury, Alive, Free, Task

LEMMA PanicStep ==
  ASSUME IInv, UNCHANGED <<tree, state, wait>>,
         panicked' \in {"init exiting", "init has not childs",
                       "corrupted children hierarchy", "corrupted sibling list"}
  PROVE  IInv'
  <1>1. UNCHANGED <<tasks, pid, pptr, children, sibling, next_pid, state, wait>>
    BY DEF tree
  <1> QED BY <1>1 DEF IInv, TypeOK, ListsInv, IdleInv, LostInv, OneRing, Alive, Free

LEMMA ExitStep ==
  ASSUME IInv, NEW p \in Slots, sys_exit(p)
  PROVE  IInv'
  <1> USE DEF IInv
  <1>1. state[p] = "RUNNING" /\ p \in Task /\ p \in Alive /\ ktask \in Alive /\ p \notin Free
    BY DEF sys_exit, InUser, Task, Alive, IdleInv, Free
  <1>2. CASE panic("init exiting")
    BY <1>2, PanicStep DEF panic
  <1>3. CASE Bury(p) /\ UNCHANGED <<tree, wait, panicked>>
    <2>1. UNCHANGED <<tasks, pid, pptr, children, sibling, next_pid, wait, panicked>>
      BY <1>3 DEF tree
    <2>2. /\ state' \in [Task -> {"FREE", "RUNNING", "SLEEPING", "ZOMBIE"}]
          /\ Alive' = Alive /\ Free' = Free /\ IdleInv'
          /\ state'[pptr[p]] # "SLEEPING"
          /\ \A t \in Task : state'[t] = "SLEEPING" => state[t] = "SLEEPING"
          /\ \A t \in Task : state'[t] = "ZOMBIE" => t = p \/ state[t] = "ZOMBIE"
      BY <1>1, <1>3, BuryFacts
    <2>3. TypeOK'
      BY <2>1, <2>2 DEF TypeOK
    <2>4. LostInv'
      BY <2>1, <2>2 DEF LostInv, Task
    <2> QED BY <2>1, <2>2, <2>3, <2>4 DEF ListsInv
  <1>4. ASSUME NEW init_task \in Inits, NEW last \in LastChild(p),
               children_give(p, init_task, children.next[last])
        PROVE  IInv'
    <2> DEFINE head == children.next[last]
               init_child == children.next[init_task]
               child == children.next[p]
    <2>1. /\ init_task \in Alive /\ pid[init_task] = 1 /\ last \in Alive
          /\ head \in Alive /\ init_child \in Alive /\ child \in Alive
      <3>1. tasks.next[ktask] \in Alive
        BY <1>1, NextAlive DEF ListsInv
      <3>2. Inits \subseteq Alive
        BY <3>1, FoundAlive DEF Inits, ListsInv
      <3>3. LastChild(p) \subseteq Alive
        BY <1>1, FoundAlive DEF LastChild, ListsInv
      <3>4. pid[init_task] = 1
        BY DEF Inits, found
      <3> QED BY <1>1, <3>2, <3>3, <3>4, NextAlive DEF ListsInv
    <2>2. CASE /\ UNCHANGED <<tree, state, wait>>
               /\ panicked' \in {"init exiting", "init has not childs",
                                "corrupted children hierarchy", "corrupted sibling list"}
      BY <2>2, PanicStep
    <2>3. CASE /\ children' = children_split(children, p, head)
               /\ pptr' = [t \in Task |-> IF t \in list_nodes(sibling, child) THEN init_task ELSE pptr[t]]
               /\ sibling' = list_merge(sibling, init_child, child)
               /\ Bury(p)
               /\ UNCHANGED <<tasks, pid, next_pid, wait, panicked>>
      <3>1. /\ state' \in [Task -> {"FREE", "RUNNING", "SLEEPING", "ZOMBIE"}]
            /\ Alive' = Alive /\ Free' = Free /\ IdleInv'
            /\ state'[pptr[p]] # "SLEEPING"
            /\ \A t \in Task : state'[t] = "SLEEPING" => state[t] = "SLEEPING"
            /\ \A t \in Task : state'[t] = "ZOMBIE" => t = p \/ state[t] = "ZOMBIE"
        BY <1>1, <2>3, BuryFacts
      <3>2. /\ \A t \in Alive : t \in Task /\ t \notin Free
            /\ Free \in SUBSET Task
        BY DEF Alive, Free
      <3>3. Sound(children', Task, Free)
        BY <1>1, <2>1, <2>3, <3>2, SplitFacts DEF ListsInv
      <3>4. Sound(sibling', Task, Free)
        BY <2>1, <2>3, <3>2, MergeFacts DEF ListsInv
      <3>5. TypeOK'
        BY <2>1, <2>3, <3>1, <3>2, <3>3, <3>4 DEF TypeOK, Sound
      <3>6. LostInv'
        BY <2>1, <2>3, <3>1 DEF LostInv, Task
      <3> QED BY <2>3, <3>1, <3>3, <3>4, <3>5, <3>6 DEF ListsInv
    <2> QED BY <1>4, <2>2, <2>3 DEF children_give, panic
  <1> QED BY <1>2, <1>3, <1>4 DEF sys_exit

LEMMA ScanStep ==
  ASSUME IInv, NEW p \in Slots, NEW w \in {-1} \cup Nat, NEW nohang \in BOOLEAN,
         state[p] = "RUNNING", Scan(p, w, nohang), UNCHANGED panicked
  PROVE  IInv'
  <1> USE DEF IInv
  <1>1. p \in Task /\ p \in Alive /\ p # ktask
    BY SlotsAssumption DEF Task, Alive
  <1>2. ASSUME NEW z \in found(tasks, tasks.next[p], Zombies(p, w)), Reap(z),
               state' = [state EXCEPT ![z] = "FREE"], wait' = [wait EXCEPT ![p] = 0]
        PROVE  IInv'
    <2>1. state[z] = "ZOMBIE" /\ z \in Task
      <3>1. z \in Zombies(p, w)
        BY DEF found
      <3>2. list_nodes(tasks, p) = Alive
        BY <1>1 DEF OneRing
      <3> QED BY <3>1, <3>2 DEF Zombies, Kids, Alive
    <2>2. /\ z \in Alive /\ z \in Task \ Free /\ Free \in SUBSET Task /\ Alive = Task \ Free
          /\ Alive' = Alive \ {z} /\ Free' = Free \cup {z} /\ IdleInv'
      BY <1>2, <2>1 DEF TypeOK, Alive, Free, IdleInv, Task
    <2>3. /\ tasks' = list_delete(tasks, z) /\ children' = list_delete(children, z)
          /\ sibling' = list_delete(sibling, z) /\ UNCHANGED <<pid, pptr, next_pid>>
      BY <1>2 DEF Reap
    <2>4. Sound(tasks', Task, Free') /\ Sound(children', Task, Free') /\ Sound(sibling', Task, Free')
      BY <2>1, <2>2, <2>3, DeleteFacts DEF ListsInv
    <2>5. OneRing(tasks', Alive')
      BY <2>2, <2>3, RingDelete DEF ListsInv
    <2>6. TypeOK'
      BY <1>2, <2>3, <2>4 DEF TypeOK, Sound
    <2>7. LostInv'
      BY <1>2, <2>1, <2>3 DEF TypeOK, LostInv, Task
    <2> QED BY <2>2, <2>4, <2>5, <2>6, <2>7 DEF ListsInv
  <1>3. CASE /\ Zombies(p, w) = {}
             /\ state' = [state EXCEPT ![p] = "SLEEPING"]
             /\ wait' = [wait EXCEPT ![p] = w]
             /\ UNCHANGED tree
    <2>1. UNCHANGED <<tasks, pid, pptr, children, sibling, next_pid>>
      BY <1>3 DEF tree
    <2>2. Alive' = Alive /\ Free' = Free /\ IdleInv'
      BY <1>1, <1>3 DEF TypeOK, Alive, Free, IdleInv, Task
    <2>3. TypeOK'
      BY <1>1, <1>3, <2>1 DEF TypeOK
    <2>4. ASSUME NEW t \in Task, state[t] = "ZOMBIE", pptr[t] = p PROVE w \notin {pid[t], -1}
      <3>1. t \in list_nodes(tasks, p) /\ t # p
        BY <1>1, <2>4 DEF OneRing, Alive
      <3> QED BY <1>3, <2>4, <3>1 DEF Zombies, Kids
    <2>5. LostInv'
      BY <1>1, <1>3, <2>1, <2>4 DEF TypeOK, LostInv, Task
    <2> QED BY <2>1, <2>2, <2>3, <2>5 DEF ListsInv
  <1>4. CASE wait' = [wait EXCEPT ![p] = 0] /\ UNCHANGED <<tree, state>>
    <2>1. UNCHANGED <<tasks, pid, pptr, children, sibling, next_pid, state>>
      BY <1>4 DEF tree
    <2>2. Alive' = Alive /\ Free' = Free /\ IdleInv'
      BY <2>1 DEF Alive, Free, IdleInv
    <2>3. TypeOK'
      BY <1>1, <1>4, <2>1 DEF TypeOK
    <2>4. LostInv'
      BY <1>1, <1>4, <2>1 DEF TypeOK, LostInv, Task
    <2> QED BY <2>1, <2>2, <2>3, <2>4 DEF ListsInv
  <1> QED BY <1>2, <1>3, <1>4 DEF Scan

LEMMA SignalStep ==
  ASSUME IInv, NEW p \in Slots, Signal(p)
  PROVE  IInv'
  <1> USE DEF IInv
  <1>1. /\ state[p] = "SLEEPING" /\ state' = [state EXCEPT ![p] = "RUNNING"]
        /\ UNCHANGED <<tasks, pid, pptr, children, sibling, next_pid, wait, panicked>>
    BY DEF Signal, tree
  <1>2. Alive' = Alive /\ Free' = Free /\ IdleInv'
    BY <1>1 DEF TypeOK, Alive, Free, IdleInv, Task
  <1>3. TypeOK' /\ LostInv'
    BY <1>1 DEF TypeOK, LostInv, Task
  <1> QED BY <1>1, <1>2, <1>3 DEF ListsInv

\* Nothing is in any list.
LEMMA NewLists ==
  ASSUME NEW N
  PROVE  Sound(list_new(N), N, N)
  BY DEF Sound, list_new, Links, Linked

LEMMA InitIInv == Init => IInv
  <1> SUFFICES ASSUME Init PROVE IInv
    OBVIOUS
  <1>1. PICK init \in Slots :
          /\ next_pid = 2
          /\ tasks = list_insert_before(list_new(Task), ktask, init)
          /\ pid = [t \in Task |-> IF t = init THEN 1 ELSE 0]
          /\ pptr = [t \in Task |-> ktask]
          /\ children = list_insert_after(list_new(Task), ktask, init)
          /\ sibling = list_new(Task)
          /\ state = [t \in Task |-> IF t \in {ktask, init} THEN "RUNNING" ELSE "FREE"]
          /\ wait = [t \in Task |-> 0]
          /\ panicked = ""
    BY DEF Init
  <1> DEFINE Others == Task \ {ktask}
             l == list_new(Task)
  <1> HIDE DEF l
  <1>2. /\ ktask \in Task /\ init \in Task /\ init # ktask /\ Others \in SUBSET Task
        /\ ktask \notin Others /\ init \in Others
        /\ Free = Others \ {init} /\ Alive = (Task \ Others) \cup {init} /\ ktask \in Task \ Others
    BY <1>1, SlotsAssumption DEF Task, Free, Alive
  <1>3. Sound(l, Task, Others) /\ Sound(l, Task, Free)
    <2>1. Sound(l, Task, Task)
      BY NewLists DEF l
    <2> QED BY <1>2, <2>1 DEF Sound
  <1>4. OneRing(l, Task \ Others)
    <2>1. Task \ Others = {ktask}
      BY <1>2
    <2>2. l.next[ktask] = ktask
      BY <1>2 DEF l, list_new
    <2>3. list_nodes(l, ktask) = {ktask}
      <3>1. l \in Links(Task)
        BY <1>3 DEF Sound
      <3>2. walk(l, ktask, {}) \subseteq {ktask}
        <4>1. {ktask} \in SUBSET Task /\ ktask \in {ktask} /\ \A z \in {ktask} : l.next[z] \in {ktask}
          BY <1>2, <2>2
        <4> QED BY <3>1, <4>1, WalkInside
      <3>3. ktask \in walk(l, ktask, {})
        BY <1>2, <3>1, WalkStart
      <3> QED BY <3>2, <3>3 DEF list_nodes
    <2> QED BY <2>1, <2>3 DEF OneRing
  <1>5. ListsInv /\ OneRing(tasks, Alive)
    <2>1. Sound(list_insert_before(l, ktask, init), Task, Others \ {init})
      BY <1>2, <1>3, InsertBeforeFacts
    <2>2. Sound(list_insert_after(l, ktask, init), Task, Others \ {init})
      BY <1>2, <1>3, InsertAfterFacts
    <2>3. OneRing(list_insert_before(l, ktask, init), (Task \ Others) \cup {init})
      BY <1>2, <1>3, <1>4, RingInsert
    <2> QED BY <1>1, <1>2, <1>3, <2>1, <2>2, <2>3 DEF l, ListsInv
  <1>6. TypeOK
    <2>1. tasks \in Links(Task) /\ children \in Links(Task) /\ sibling \in Links(Task)
      BY <1>5 DEF ListsInv, Sound
    <2> QED BY <1>1, <1>2, <2>1 DEF TypeOK
  <1>7. IdleInv /\ LostInv
    BY <1>1, <1>2 DEF IdleInv, LostInv, Task
  <1> QED BY <1>5, <1>6, <1>7 DEF IInv

LEMMA NextIInv == IInv /\ [Next]_vars => IInv'
  <1> SUFFICES ASSUME IInv, [Next]_vars PROVE IInv'
    OBVIOUS
  <1>1. ASSUME NEW p \in Slots, Fork(p) PROVE IInv'
    BY <1>1, ForkStep
  <1>2. ASSUME NEW p \in Slots, sys_exit(p) PROVE IInv'
    BY <1>2, ExitStep
  <1>3. ASSUME NEW p \in Slots, WaitResume(p) PROVE IInv'
    <2>1. wait[p] \in {-1} \cup Nat /\ FALSE \in BOOLEAN
      BY DEF IInv, TypeOK, Task
    <2> QED BY <1>3, <2>1, ScanStep DEF WaitResume
  <1>4. ASSUME NEW p \in Slots, Signal(p) PROVE IInv'
    BY <1>4, SignalStep
  <1>5. ASSUME NEW p \in Slots, NEW w \in {-1} \cup 1 .. MaxPid, NEW nohang \in BOOLEAN,
               sys_waitpid(p, w, nohang)
        PROVE  IInv'
    <2>1. w \in {-1} \cup Nat
      BY PidAssumption
    <2> QED BY <1>5, <2>1, ScanStep DEF sys_waitpid, InUser
  <1>6. CASE UNCHANGED vars
    BY <1>6 DEF vars, tree, IInv, TypeOK, ListsInv, IdleInv, LostInv, OneRing, Alive, Free
  <1> QED BY <1>1, <1>2, <1>3, <1>4, <1>5, <1>6 DEF Next

THEOREM SpecIInv == Spec => []IInv
  BY InitIInv, NextIInv, PTL DEF Spec

-----------------------------------------------------------------------------
(* Theorems. *)

\* The state of the process table keeps its type, for any set of slots.
THEOREM TypeCorrect == Spec => []TypeOK
  <1>1. IInv => TypeOK
    BY DEF IInv
  <1> QED BY <1>1, SpecIInv, PTL

\* Whatever is forked, given to init and reaped, the three lists stay well
\* linked and hold no structure that waitpid has freed.
THEOREM ListsKept == Spec => []ListsIntact
  <1>1. IInv => ListsIntact
    BY DEF IInv, ListsInv, Sound, ListsIntact, list_empty, Free
  <1> QED BY <1>1, SpecIInv, PTL

\* The loops over the ring of tasks see every live task and no other.
THEOREM RingKept == Spec => []RingExact
  <1>1. IInv => RingExact
    BY DEF IInv, OneRing, RingExact
  <1> QED BY <1>1, SpecIInv, PTL

\* No process but init sleeps in waitpid over a zombie it waits for.
THEOREM ExitsKept == Spec => []NoLostExit
  <1>1. ASSUME IInv, NEW p \in Slots, Asleep(p), pid[p] # 1 PROVE Zombies(p, wait[p]) = {}
    <2>1. p \in Alive /\ state[p] = "SLEEPING"
      BY <1>1 DEF Asleep, Alive, Task
    <2>2. list_nodes(tasks, p) = Alive
      BY <1>1, <2>1 DEF IInv, OneRing
    <2> QED BY <1>1, <2>1, <2>2 DEF Zombies, Kids, IInv, LostInv, Alive
  <1>2. IInv => NoLostExit
    BY <1>1 DEF NoLostExit
  <1> QED BY <1>2, SpecIInv, PTL
=============================================================================
