---------------------------- MODULE SchedProofs -----------------------------
(***************************************************************************)
(* Who may be on the CPU, for any number of tasks and any time slice.      *)
(***************************************************************************)
EXTENDS Sched, ListsProofs

Free == Task \ Alive

\* What the scheduler relies on in the ring, and where idle() is preempted.
IInv ==
  /\ TypeOK /\ CurrentRuns /\ IdleEndless
  /\ Sound(tasks, Task, Free)
  /\ state[ktask] \in {"RUNNING", "SLEEPING"}
  /\ idle = "woken" => state[ktask] = "RUNNING"

\* The states of the model that are also what a caller of scheduler() has set.
States == [Task -> {"FREE", "RUNNING", "SLEEPING", "ZOMBIE"}]

LEMMA WokenFacts ==
  ASSUME IInv, NEW W \in SUBSET Slots
  PROVE  /\ Woken(W) \in States
         /\ Woken(W)[ktask] = state[ktask] /\ Woken(W)[current] = "RUNNING"
         /\ \A t \in Task : Woken(W)[t] = "FREE" <=> state[t] = "FREE"
  BY SlotsAssumption DEF IInv, TypeOK, CurrentRuns, Woken, States, Task

\* Whoever is chosen may run, and nobody else's state is touched.
LEMMA SchedulerFacts ==
  ASSUME IInv, NEW st \in States, scheduler(st), st[ktask] \in {"RUNNING", "SLEEPING"},
         \A t \in Task : st[t] = "FREE" <=> state[t] = "FREE"
  PROVE  /\ state' \in States /\ current' \in Task /\ counter' \in 0 .. TIMESLICE
         /\ CurrentRuns' /\ Free' = Free
         /\ state'[ktask] \in {"RUNNING", "SLEEPING"}
         /\ st[ktask] = "RUNNING" => state'[ktask] = "RUNNING"
  <1>1. PICK n \in {t \in Task : st[t] = "RUNNING" \/ t = current} :
          /\ current' = IF n = current THEN ktask ELSE n
          /\ state' = IF n = current THEN [st EXCEPT ![ktask] = "RUNNING"] ELSE st
          /\ counter' = TIMESLICE
    BY DEF scheduler, found
  <1>2. ktask \in Task /\ counter' \in 0 .. TIMESLICE
    BY <1>1, SliceAssumption DEF Task
  <1>3. CASE n = current
    <2>1. current' = ktask /\ state' = [st EXCEPT ![ktask] = "RUNNING"]
      BY <1>1, <1>3
    <2> QED BY <1>2, <2>1 DEF States, CurrentRuns, Free, Alive
  <1>4. CASE n # current
    <2>1. current' = n /\ state' = st /\ st[n] = "RUNNING" /\ n \in Task
      BY <1>1, <1>4
    <2> QED BY <1>2, <2>1 DEF States, CurrentRuns, Free, Alive
  <1> QED BY <1>3, <1>4

LEMMA InitIInv == Init => IInv
  <1> SUFFICES ASSUME Init PROVE IInv
    OBVIOUS
  <1>1. PICK init \in Slots :
          /\ tasks = list_insert_before(list_new(Task), ktask, init)
          /\ state = [t \in Task |-> IF t = init THEN "RUNNING"
                                     ELSE IF t = ktask THEN "SLEEPING" ELSE "FREE"]
          /\ current = init /\ counter = TIMESLICE /\ idle = "hlt"
    BY DEF Init
  <1> DEFINE Others == Task \ {ktask}
  <1>2. /\ ktask \in Task /\ init \in Task /\ init # ktask /\ Others \in SUBSET Task
        /\ ktask \notin Others /\ init \in Others /\ Free = Others \ {init}
    BY <1>1, SlotsAssumption DEF Task, Free, Alive
  <1>3. Sound(list_new(Task), Task, Others)
    BY DEF Sound, list_new, Links, Linked
  <1>4. Sound(tasks, Task, Free)
    BY <1>1, <1>2, <1>3, InsertBeforeFacts
  <1>5. TypeOK /\ CurrentRuns /\ IdleEndless /\ state[ktask] = "SLEEPING" /\ idle # "woken"
    BY <1>1, <1>2, <1>4, SliceAssumption DEF TypeOK, CurrentRuns, IdleEndless, Sound
  <1> QED BY <1>4, <1>5 DEF IInv

LEMMA TickStep ==
  ASSUME IInv, NEW W \in SUBSET Slots, Tick(W)
  PROVE  IInv'
  <1>1. /\ Woken(W) \in States
        /\ Woken(W)[ktask] = state[ktask] /\ Woken(W)[current] = "RUNNING"
        /\ \A t \in Task : Woken(W)[t] = "FREE" <=> state[t] = "FREE"
    BY WokenFacts
  <1>2. /\ tasks' = tasks /\ idle' \in {idle, "woken"}
        /\ idle' = "woken" => idle = "woken" \/ current = ktask
    BY DEF Tick, Interrupted
  <1>3. CASE counter <= 0
    <2>1. scheduler(Woken(W))
      BY <1>3 DEF Tick
    <2>2. /\ state' \in States /\ current' \in Task /\ counter' \in 0 .. TIMESLICE
          /\ CurrentRuns' /\ Free' = Free
          /\ state'[ktask] \in {"RUNNING", "SLEEPING"}
          /\ state[ktask] = "RUNNING" => state'[ktask] = "RUNNING"
      BY <1>1, <2>1, SchedulerFacts DEF IInv
    <2> QED BY <1>2, <2>2 DEF IInv, TypeOK, IdleEndless, CurrentRuns, States
  <1>4. CASE ~(counter <= 0)
    <2>1. counter' = counter - 1 /\ state' = Woken(W) /\ current' = current
      BY <1>4 DEF Tick
    <2>2. counter' \in 0 .. TIMESLICE
      BY <1>4, <2>1, SliceAssumption DEF IInv, TypeOK
    <2>3. Free' = Free
      BY <1>1, <2>1 DEF Free, Alive
    <2> QED BY <1>1, <1>2, <2>1, <2>2, <2>3 DEF IInv, TypeOK, IdleEndless, CurrentRuns, States
  <1> QED BY <1>3, <1>4

LEMMA WakeStep ==
  ASSUME IInv, NEW W \in SUBSET Slots, Wake(W)
  PROVE  IInv'
  <1>1. /\ Woken(W) \in States
        /\ Woken(W)[ktask] = state[ktask] /\ Woken(W)[current] = "RUNNING"
        /\ \A t \in Task : Woken(W)[t] = "FREE" <=> state[t] = "FREE"
    BY WokenFacts
  <1>2. /\ UNCHANGED <<tasks, current, counter>> /\ state' = Woken(W)
        /\ idle' \in {idle, "woken"} /\ (idle' = "woken" => idle = "woken" \/ current = ktask)
    BY DEF Wake, Interrupted
  <1>3. Free' = Free
    BY <1>1, <1>2 DEF Free, Alive
  <1> QED BY <1>1, <1>2, <1>3 DEF IInv, TypeOK, IdleEndless, CurrentRuns, States

\* current gives up the CPU in a system call.
LEMMA LeaveStep ==
  ASSUME IInv, current # ktask, NEW st \in States, scheduler(st), st[ktask] = state[ktask],
         \A t \in Task : st[t] = "FREE" <=> state[t] = "FREE", UNCHANGED <<tasks, idle>>
  PROVE  IInv'
  <1>1. /\ state' \in States /\ current' \in Task /\ counter' \in 0 .. TIMESLICE
        /\ CurrentRuns' /\ Free' = Free
        /\ state'[ktask] \in {"RUNNING", "SLEEPING"}
        /\ state[ktask] = "RUNNING" => state'[ktask] = "RUNNING"
    BY SchedulerFacts DEF IInv
  <1> QED BY <1>1 DEF IInv, TypeOK, IdleEndless, CurrentRuns, States

LEMMA SleepStep ==
  ASSUME IInv, Sleep
  PROVE  IInv'
  <1> DEFINE st == [state EXCEPT ![current] = "SLEEPING"]
  <1>1. st \in States /\ st[ktask] = state[ktask] /\ \A t \in Task : st[t] = "FREE" <=> state[t] = "FREE"
    BY DEF IInv, TypeOK, CurrentRuns, States, Sleep, Task
  <1>2. current # ktask /\ scheduler(st) /\ UNCHANGED <<tasks, idle>>
    BY DEF Sleep
  <1> HIDE DEF st
  <1> QED BY <1>1, <1>2, LeaveStep

LEMMA ExitStep ==
  ASSUME IInv, NEW p \in Slots, Exit(p)
  PROVE  IInv'
  <1> DEFINE st == [Woken({p}) EXCEPT ![current] = "ZOMBIE"]
  <1>1. /\ Woken({p}) \in States
        /\ Woken({p})[ktask] = state[ktask] /\ Woken({p})[current] = "RUNNING"
        /\ \A t \in Task : Woken({p})[t] = "FREE" <=> state[t] = "FREE"
    BY WokenFacts
  <1>2. current # ktask /\ scheduler(st) /\ UNCHANGED <<tasks, idle>>
    BY DEF Exit
  <1>3. st \in States /\ st[ktask] = state[ktask] /\ \A t \in Task : st[t] = "FREE" <=> state[t] = "FREE"
    BY <1>1, <1>2 DEF IInv, TypeOK, CurrentRuns, States, Task
  <1> HIDE DEF st
  <1> QED BY <1>2, <1>3, LeaveStep

LEMMA ForkStep ==
  ASSUME IInv, NEW s \in Slots, Fork(s)
  PROVE  IInv'
  <1>1. /\ current \in Task /\ current \notin Free /\ s \in Task /\ s \in Free
        /\ Free \in SUBSET Task /\ s # ktask /\ s # current
    BY SlotsAssumption DEF IInv, TypeOK, CurrentRuns, Fork, Free, Alive, Task
  <1>2. list_init(tasks, s) = tasks
    BY <1>1, InitFacts DEF IInv
  <1>3. /\ tasks' = list_insert_before(tasks, current, s)
        /\ state' = [state EXCEPT ![s] = "RUNNING"] /\ UNCHANGED <<current, counter, idle>>
    BY <1>2 DEF Fork
  <1>4. state' \in States /\ \A t \in Task : state'[t] = IF t = s THEN "RUNNING" ELSE state[t]
    BY <1>1, <1>3 DEF IInv, TypeOK, States
  <1>5. Free' = Free \ {s}
    BY <1>1, <1>4 DEF Free, Alive
  <1>6. Sound(tasks', Task, Free')
    BY <1>1, <1>3, <1>5, InsertBeforeFacts DEF IInv
  <1>7. tasks' \in Links(Task)
    BY <1>6 DEF Sound
  <1> QED BY <1>1, <1>3, <1>4, <1>6, <1>7 DEF IInv, TypeOK, IdleEndless, CurrentRuns, States, Task

LEMMA ReapStep ==
  ASSUME IInv, NEW z \in Slots, Reap(z)
  PROVE  IInv'
  <1>1. /\ z \in Task /\ z \notin Free /\ z \in Task \ Free /\ Free \in SUBSET Task
        /\ z # ktask /\ z # current
    BY SlotsAssumption DEF IInv, TypeOK, CurrentRuns, Reap, Free, Alive, Task
  <1>2. /\ tasks' = list_delete(tasks, z)
        /\ state' = [state EXCEPT ![z] = "FREE"] /\ UNCHANGED <<current, counter, idle>>
    BY DEF Reap
  <1>3. state' \in States /\ \A t \in Task : state'[t] = IF t = z THEN "FREE" ELSE state[t]
    BY <1>1, <1>2 DEF IInv, TypeOK, States
  <1>4. Free' = Free \cup {z}
    BY <1>1, <1>3 DEF Free, Alive
  <1>5. Sound(tasks', Task, Free')
    BY <1>1, <1>2, <1>4, DeleteFacts DEF IInv
  <1>6. tasks' \in Links(Task)
    BY <1>5 DEF Sound
  <1> QED BY <1>1, <1>2, <1>3, <1>5, <1>6 DEF IInv, TypeOK, IdleEndless, CurrentRuns, States, Task

LEMMA IdleStep ==
  ASSUME IInv, IdleLoop
  PROVE  IInv'
  <1> DEFINE st == [state EXCEPT ![ktask] = "SLEEPING"]
  <1>1. state[ktask] = "RUNNING"
    BY DEF IInv, IdleLoop
  <1>2. scheduler(st) /\ idle' = "hlt" /\ tasks' = tasks
    BY <1>1 DEF IdleLoop
  <1>3. /\ st \in States /\ st[ktask] \in {"RUNNING", "SLEEPING"}
        /\ \A t \in Task : st[t] = "FREE" <=> state[t] = "FREE"
    BY <1>1 DEF IInv, TypeOK, States, Task
  <1> HIDE DEF st
  <1>4. /\ state' \in States /\ current' \in Task /\ counter' \in 0 .. TIMESLICE
        /\ CurrentRuns' /\ Free' = Free
        /\ state'[ktask] \in {"RUNNING", "SLEEPING"}
    BY <1>2, <1>3, SchedulerFacts
  <1> QED BY <1>2, <1>4 DEF IInv, TypeOK, IdleEndless, CurrentRuns, States

LEMMA NextIInv == IInv /\ [Next]_vars => IInv'
  <1> SUFFICES ASSUME IInv, [Next]_vars PROVE IInv'
    OBVIOUS
  <1>1. CASE UNCHANGED vars
    BY <1>1 DEF vars, IInv, TypeOK, CurrentRuns, IdleEndless, Free, Alive
  <1> QED BY <1>1, TickStep, WakeStep, SleepStep, ExitStep, ForkStep, ReapStep, IdleStep DEF Next

THEOREM SpecIInv == Spec => []IInv
  BY InitIInv, NextIInv, PTL DEF Spec

-----------------------------------------------------------------------------
\* The scheduler's state keeps its type, the slice of current included.
THEOREM TypeCorrect == Spec => []TypeOK
  <1>1. IInv => TypeOK
    BY DEF IInv
  <1> QED BY <1>1, SpecIInv, PTL

\* The CPU is never given to a task that sleeps, has exited or is freed.
THEOREM OnlyRunnable == Spec => []CurrentRuns
  <1>1. IInv => CurrentRuns
    BY DEF IInv
  <1> QED BY <1>1, SpecIInv, PTL

\* idle() never leaves its loop.
THEOREM IdleForever == Spec => []IdleEndless
  <1>1. IInv => IdleEndless
    BY DEF IInv
  <1> QED BY <1>1, SpecIInv, PTL
=============================================================================
