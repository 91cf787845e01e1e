-------------------------------- MODULE Proc --------------------------------
(***************************************************************************)
(* Processes: task_create (proc/task.c), sys_fork, sys_exit, sys_waitpid   *)
(* and the lists they keep.  A task is the address of its struct task, so  *)
(* that a freed structure may come back as another process; the tree is    *)
(* kept the way the code keeps it:                                         *)
(*   tasks     the global ring;                                            *)
(*   children  a ring through a task, its first child, the first child of  *)
(*             that one, and so on (vertical);                             *)
(*   sibling   a ring through the children of one task (horizontal).       *)
(* Each action is the work of one process between two context switches.    *)
(***************************************************************************)
EXTENDS Integers, FiniteSets, Lists

CONSTANTS ktask,   \* the idle task, pid 0
          Slots,   \* the addresses kmalloc may return for a struct task
          MaxPid   \* bound: the last pid given out

ASSUME SlotsAssumption == IsFiniteSet(Slots) /\ Slots # {} /\ ktask \notin Slots
ASSUME PidAssumption == MaxPid \in Nat \ {0}

VARIABLES
  next_pid,
  tasks, pid, pptr, children, sibling,
  state,   \* FREE: no task lives at this address
  wait,    \* wait[t]: the pid argument of the waitpid t sleeps in, 0 if none
  panicked \* the message of panic(), which stops the machine

Task == Slots \cup {ktask}
tree == <<tasks, pid, pptr, children, sibling, next_pid>>
vars == <<tree, state, wait, panicked>>

Alive == {t \in Task : state[t] # "FREE"}

\* Mutant: scheduler_init does not initialize the sibling link of ktask.
InitUnlinked ==
  \E init \in Slots :
    /\ next_pid = 2
    /\ tasks = list_insert_before(list_new(Task), ktask, init)
    /\ pid = [t \in Task |-> IF t = init THEN 1 ELSE 0]
    /\ pptr = [t \in Task |-> ktask]
    /\ children = list_insert_after(list_new(Task), ktask, init)
    /\ sibling = SetNext(list_new(Task), ktask, "NULL")
    /\ state = [t \in Task |-> IF t \in {ktask, init} THEN "RUNNING" ELSE "FREE"]
    /\ wait = [t \in Task |-> 0]
    /\ panicked = ""

\* kmain has created the init process.
Init ==
  \E init \in Slots :
    /\ next_pid = 2
    /\ tasks = list_insert_before(list_new(Task), ktask, init)
    /\ pid = [t \in Task |-> IF t = init THEN 1 ELSE 0]
    /\ pptr = [t \in Task |-> ktask]
    /\ children = list_insert_after(list_new(Task), ktask, init)
    /\ sibling = list_new(Task)
    /\ state = [t \in Task |-> IF t \in {ktask, init} THEN "RUNNING" ELSE "FREE"]
    /\ wait = [t \in Task |-> 0]
    /\ panicked = ""

\* t runs user code and enters the kernel.
InUser(t) ==
  t # ktask /\ state[t] = "RUNNING" /\ wait[t] = 0 /\ panicked = ""

panic(message) ==
  panicked' = message /\ UNCHANGED <<tree, state, wait>>

-----------------------------------------------------------------------------
(* fork *)

\* Mutant: the new task is not entered into the ring.
task_init_unlisted(p, s) ==
  LET first == children.next[p]
      leaf == list_empty(children, p) \/ pptr[first] # p
  IN  /\ next_pid' = next_pid + 1
      /\ pid' = [pid EXCEPT ![s] = next_pid]
      /\ pptr' = [pptr EXCEPT ![s] = p]
      /\ tasks' = list_init(tasks, s)
      /\ children' = IF leaf THEN list_insert_after(list_init(children, s), p, s)
                             ELSE list_init(children, s)
      /\ sibling' = IF leaf THEN list_init(sibling, s)
                            ELSE list_insert_before(list_init(sibling, s), first, s)

\* task_init enters task s, a child of p, into the three lists: it is the
\* first child if p has none in its children link, or else another sibling.
task_init(p, s) ==
  LET first == children.next[p]
      leaf == list_empty(children, p) \/ pptr[first] # p
  IN  /\ next_pid' = next_pid + 1
      /\ pid' = [pid EXCEPT ![s] = next_pid]
      /\ pptr' = [pptr EXCEPT ![s] = p]
      /\ tasks' = list_insert_before(list_init(tasks, s), p, s)
      /\ children' = IF leaf THEN list_insert_after(list_init(children, s), p, s)
                             ELSE list_init(children, s)
      /\ sibling' = IF leaf THEN list_init(sibling, s)
                            ELSE list_insert_before(list_init(sibling, s), first, s)

Fork(p) ==
  /\ InUser(p) /\ next_pid <= MaxPid
  /\ \E s \in Slots :
       /\ state[s] = "FREE"
       /\ task_init(p, s)
       /\ state' = [state EXCEPT ![s] = "RUNNING"]
  /\ UNCHANGED <<wait, panicked>>

-----------------------------------------------------------------------------
(* exit *)

\* find_init walks the ring of tasks.
Inits == found(tasks, tasks.next[ktask], {t \in Task : pid[t] = 1})

\* Going down the children ring from node: the last of the tasks that are the
\* first child of the one before.
LastChild(node) ==
  found(children, node,
        {t \in Task : children.next[t] = node \/ pptr[children.next[t]] # t})

\* Mutant: the part below node is not closed to a ring.
children_split_half(l, node, head) ==
  SetPrev(SetNext(l, node, head), head, node)

\* Cuts the ring in two: the tasks above head and up to node stay together,
\* and so do the tasks below node.
children_split(l, node, head) ==
  LET l1 == SetPrev(l, l.next[node], l.prev[head])
      l2 == SetNext(l1, l1.prev[head], l1.next[node])
  IN  SetPrev(SetNext(l2, node, head), head, node)

\* Mutant: the parent is not woken.
BuryQuiet(p) == state' = [state EXCEPT ![p] = "ZOMBIE"]

\* SIGCHLD and cond_signal: the parent, if it sleeps, runs again.  A parent
\* whose structure is free is written to without effect.
Bury(p) ==
  state' = [state EXCEPT ![p] = "ZOMBIE",
                         ![pptr[p]] = IF @ = "SLEEPING" THEN "RUNNING" ELSE @]

\* p gives its children to init; head is where children_split cuts.
children_give(p, init_task, head) ==
  LET init_child == children.next[init_task]
      child == children.next[p]
      siblings == list_nodes(sibling, child)
  IN  IF pid[init_child] = 0 THEN panic("init has not childs")
      ELSE IF head = p THEN panic("corrupted children hierarchy")
      ELSE IF \E t \in siblings : pptr[t] # p THEN panic("corrupted sibling list")
      ELSE /\ children' = children_split(children, p, head)
           /\ pptr' = [t \in Task |-> IF t \in siblings THEN init_task ELSE pptr[t]]
           /\ sibling' = list_merge(sibling, init_child, child)
           /\ Bury(p)
           /\ UNCHANGED <<tasks, pid, next_pid, wait, panicked>>

sys_exit(p) ==
  /\ InUser(p)
  /\ IF pid[p] = 1 THEN panic("init exiting")
     ELSE IF pptr[children.next[p]] # p
       THEN Bury(p) /\ UNCHANGED <<tree, wait, panicked>>
       ELSE \E init_task \in Inits, last \in LastChild(p) :
              children_give(p, init_task, children.next[last])

-----------------------------------------------------------------------------
(* waitpid *)

\* The children of p that waitpid(w) is about.
Kids(p, w) ==
  {t \in list_nodes(tasks, p) \ {p} : pptr[t] = p /\ w \in {pid[t], -1}}

Zombies(p, w) == {t \in Kids(p, w) : state[t] = "ZOMBIE"}

\* task z is taken off every list and freed.
Reap(z) ==
  /\ tasks' = list_delete(tasks, z)
  /\ children' = list_delete(children, z)
  /\ sibling' = list_delete(sibling, z)
  /\ UNCHANGED <<pid, pptr, next_pid>>

\* One iteration of the loop of sys_waitpid.
Scan(p, w, nohang) ==
  IF Zombies(p, w) # {}
    THEN \E z \in found(tasks, tasks.next[p], Zombies(p, w)) :
           /\ Reap(z)
           /\ state' = [state EXCEPT ![z] = "FREE"]
           /\ wait' = [wait EXCEPT ![p] = 0]
    ELSE IF Kids(p, w) # {} /\ ~nohang
      THEN /\ state' = [state EXCEPT ![p] = "SLEEPING"]
           /\ wait' = [wait EXCEPT ![p] = w]
           /\ UNCHANGED tree
      ELSE wait' = [wait EXCEPT ![p] = 0] /\ UNCHANGED <<tree, state>>

sys_waitpid(p, w, nohang) == InUser(p) /\ Scan(p, w, nohang) /\ UNCHANGED panicked

\* cond_wait returns and the loop starts over.
WaitResume(p) ==
  /\ state[p] = "RUNNING" /\ wait[p] # 0 /\ panicked = ""
  /\ Scan(p, wait[p], FALSE)
  /\ UNCHANGED panicked

\* Any other unmasked signal also ends the sleep (task_signal).
Signal(p) ==
  /\ state[p] = "SLEEPING" /\ panicked = ""
  /\ state' = [state EXCEPT ![p] = "RUNNING"]
  /\ UNCHANGED <<tree, wait, panicked>>

-----------------------------------------------------------------------------
Next ==
  \E p \in Slots :
    \/ Fork(p) \/ sys_exit(p) \/ WaitResume(p) \/ Signal(p)
    \/ \E w \in {-1} \cup 1 .. MaxPid, nohang \in BOOLEAN : sys_waitpid(p, w, nohang)

Spec == Init /\ [][Next]_vars

\* A runnable process is scheduled again (module Sched).
FairSpec == Spec /\ \A p \in Slots : WF_vars(WaitResume(p))

-----------------------------------------------------------------------------
(* Properties *)

TypeOK ==
  /\ next_pid \in Nat
  /\ pid \in [Task -> Nat] /\ pptr \in [Task -> Task]
  /\ tasks \in Links(Task) /\ children \in Links(Task) /\ sibling \in Links(Task)
  /\ state \in [Task -> {"FREE", "RUNNING", "SLEEPING", "ZOMBIE"}]
  /\ wait \in [Task -> {-1} \cup Nat]
  /\ panicked \in {"", "init exiting", "init has not childs",
                   "corrupted children hierarchy", "corrupted sibling list"}

\* The lists stay well linked through every fork, adoption and reaping, and a
\* freed structure is in none of them: children_split, list_merge and the
\* three list_delete of waitpid never leave a link to a task that is gone.
ListsIntact ==
  \A l \in {tasks, children, sibling} :
    /\ Linked(l, Task)
    /\ \A t \in Task \ Alive : list_empty(l, t)

\* Whatever is forked and reaped, the ring of tasks leads from every live task
\* to every live task, and to nothing else: the loops of the scheduler, of
\* waitpid and of kill see all of them.
RingExact == \A t \in Alive : list_nodes(tasks, t) = Alive

Asleep(p) == state[p] = "SLEEPING"

\* No process but init sleeps in waitpid while a child it waits for is a
\* zombie: sys_exit sends SIGCHLD, marks itself and signals the condition of the
\* parent before anybody else runs, and waitpid looks again when it is woken.
NoLostExit ==
  \A p \in Slots : Asleep(p) /\ pid[p] # 1 => Zombies(p, wait[p]) = {}

\* sys_exit.c:58: the children ring always leads back to a task above the
\* exiting one ("corrupted children hierarchy" is unreachable).
NoCorruptHierarchy == panicked # "corrupted children hierarchy"

\* A waitpid that has something to collect returns.
WaitReturns ==
  \A p \in Slots :
    (wait[p] # 0 /\ pid[p] # 1 /\ Zombies(p, wait[p]) # {}) ~> (wait[p] = 0 \/ panicked # "")
=============================================================================
