------------------------------- MODULE Sched --------------------------------
(***************************************************************************)
(* Who has the CPU: scheduler() (proc/scheduler.c), the places that call   *)
(* it, the timer tick that makes isr_handler call it, and the idle loop.   *)
(* Interrupts are off in the kernel, so an action starts when user code    *)
(* or the halted CPU is left for the kernel and ends when the scheduler,   *)
(* or a return from interrupt, has brought some task back there.           *)
(***************************************************************************)
EXTENDS Integers, FiniteSets, Lists

CONSTANTS ktask,      \* the idle task
          Slots,      \* the addresses of the other tasks
          TIMESLICE   \* msecs_to_ticks(SCHED_TIMESLICE)

ASSUME SlotsAssumption == IsFiniteSet(Slots) /\ Slots # {} /\ ktask \notin Slots
ASSUME SliceAssumption == TIMESLICE \in Nat

VARIABLES
  tasks,    \* the ring of tasks
  state,
  current,
  counter,  \* current->counter, ticks left
  idle      \* where idle() is, or goes on when it is switched to: at its hlt
            \* ("hlt"), behind it ("woken"), or out of its loop ("ended")

vars == <<tasks, state, current, counter, idle>>

Task == Slots \cup {ktask}
Alive == {t \in Task : state[t] # "FREE"}

\* idle() has switched to the init process for the first time.
Init ==
  \E init \in Slots :
    /\ tasks = list_insert_before(list_new(Task), ktask, init)
    /\ state = [t \in Task |-> IF t = init THEN "RUNNING"
                               ELSE IF t = ktask THEN "SLEEPING" ELSE "FREE"]
    /\ current = init /\ counter = TIMESLICE /\ idle = "hlt"

\* Mutant: ktask is not made runnable.
scheduler_dozing(st) ==
  \E n \in found(tasks, tasks.next[current], {t \in Task : st[t] = "RUNNING" \/ t = current}) :
    /\ current' = IF n = current THEN ktask ELSE n
    /\ state' = st
    /\ counter' = TIMESLICE

\* The next runnable task in the ring, or ktask when the search comes back to
\* current.  The caller has set the states to st.
scheduler(st) ==
  \E n \in found(tasks, tasks.next[current], {t \in Task : st[t] = "RUNNING" \/ t = current}) :
    /\ current' = IF n = current THEN ktask ELSE n
    /\ state' = IF n = current THEN [st EXCEPT ![ktask] = "RUNNING"] ELSE st
    /\ counter' = TIMESLICE

\* The states after the tasks in W, those of them that sleep, are woken.
Woken(W) == [t \in Task |-> IF t \in W /\ state[t] = "SLEEPING" THEN "RUNNING" ELSE state[t]]

\* An interrupt ends the hlt of the idle task.
Interrupted == idle' = IF current = ktask THEN "woken" ELSE idle

-----------------------------------------------------------------------------
\* Mutant: the slice is over one tick late.
TickLate(W) ==
  /\ Interrupted
  /\ IF counter < 0
       THEN scheduler(Woken(W))
       ELSE counter' = counter - 1 /\ state' = Woken(W) /\ UNCHANGED current
  /\ UNCHANGED tasks

\* The timer interrupt: timer_update lets expired events wake the tasks in W
\* and counts the slice down; isr_handler then reschedules.
Tick(W) ==
  /\ Interrupted
  /\ IF counter <= 0
       THEN scheduler(Woken(W))
       ELSE counter' = counter - 1 /\ state' = Woken(W) /\ UNCHANGED current
  /\ UNCHANGED tasks

\* Any other interrupt, or a system call of current that wakes tasks.
Wake(W) ==
  /\ Interrupted
  /\ state' = Woken(W)
  /\ UNCHANGED <<tasks, current, counter>>

\* current sleeps in a system call: cond_wait, nanosleep, sigsuspend.
Sleep ==
  /\ current # ktask
  /\ scheduler([state EXCEPT ![current] = "SLEEPING"])
  /\ UNCHANGED <<tasks, idle>>

\* sys_exit, with the parent p it wakes.
Exit(p) ==
  /\ current # ktask
  /\ scheduler([Woken({p}) EXCEPT ![current] = "ZOMBIE"])
  /\ UNCHANGED <<tasks, idle>>

\* Mutant: the child goes behind the parent.
ForkAhead(s) ==
  /\ current # ktask /\ state[s] = "FREE"
  /\ tasks' = list_insert_after(list_init(tasks, s), current, s)
  /\ state' = [state EXCEPT ![s] = "RUNNING"]
  /\ UNCHANGED <<current, counter, idle>>

\* fork: task_init enters the child into the ring, before the parent.
Fork(s) ==
  /\ current # ktask /\ state[s] = "FREE"
  /\ tasks' = list_insert_before(list_init(tasks, s), current, s)
  /\ state' = [state EXCEPT ![s] = "RUNNING"]
  /\ UNCHANGED <<current, counter, idle>>

\* waitpid frees a zombie.
Reap(z) ==
  /\ current # ktask /\ state[z] = "ZOMBIE"
  /\ tasks' = list_delete(tasks, z)
  /\ state' = [state EXCEPT ![z] = "FREE"]
  /\ UNCHANGED <<current, counter, idle>>

\* Mutant: the loop goes on for the wrong state.
IdleLoopAsleep ==
  /\ current = ktask /\ idle = "woken"
  /\ IF state[ktask] = "SLEEPING"
       THEN scheduler([state EXCEPT ![ktask] = "SLEEPING"]) /\ idle' = "hlt"
       ELSE idle' = "ended" /\ UNCHANGED <<state, current, counter>>
  /\ UNCHANGED tasks

\* The idle loop goes round, from the cli behind its hlt.
IdleLoop ==
  /\ current = ktask /\ idle = "woken"
  /\ IF state[ktask] = "RUNNING"
       THEN scheduler([state EXCEPT ![ktask] = "SLEEPING"]) /\ idle' = "hlt"
       ELSE idle' = "ended" /\ UNCHANGED <<state, current, counter>>
  /\ UNCHANGED tasks

Next ==
  \/ \E W \in SUBSET Slots : Tick(W) \/ Wake(W)
  \/ Sleep \/ IdleLoop
  \/ \E s \in Slots : Exit(s) \/ Fork(s) \/ Reap(s)

Spec == Init /\ [][Next]_vars

\* The timer goes on ticking, and the CPU executes the code behind the hlt.
FairSpec == Spec /\ WF_vars(\E W \in SUBSET Slots : Tick(W)) /\ WF_vars(IdleLoop)

-----------------------------------------------------------------------------
(* Properties *)

TypeOK ==
  /\ tasks \in Links(Task)
  /\ state \in [Task -> {"FREE", "RUNNING", "SLEEPING", "ZOMBIE"}]
  /\ current \in Task
  /\ counter \in 0 .. TIMESLICE
  /\ idle \in {"hlt", "woken", "ended"}

\* The task on the CPU is one that may run: scheduler() never brings back a
\* task that sleeps, has exited or was freed, and makes ktask runnable before
\* it falls back to it.
CurrentRuns == state[current] = "RUNNING"

\* idle.c:25: "This endless procedure": wherever idle() is preempted, it finds
\* itself runnable at the end of its loop.
IdleEndless == idle # "ended"

\* Round robin: however the others sleep, fork, exit and are reaped, a runnable
\* task gets the CPU, or is no longer runnable.
Scheduled ==
  \A p \in Slots : state[p] = "RUNNING" ~> (current = p \/ state[p] # "RUNNING")
=============================================================================
