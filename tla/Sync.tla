-------------------------------- MODULE Sync --------------------------------
(***************************************************************************)
(* Two processes that wait for each other with the functions of libu       *)
(* (sync_enter, sync_wait, sync_tell), as the test cp08/racecond.c does,   *)
(* on top of the signals of the kernel.  sigflag is the flag of the        *)
(* library, which its handler sets; pc[p] is where the program of p is.    *)
(***************************************************************************)
EXTENDS Signals

CONSTANTS parent, child,     \* the two elements of Procs
          SIGUSR1, SIGCHLD   \* the two elements of Sigs

VARIABLES pc, sigflag

syncvars == <<task, pc, sigflag>>

Fresh(state) ==
  [state |-> state, at |-> "ready", pend |-> {}, mask |-> {}, omask |-> {}, asked |-> {},
   act |-> [s \in Sigs |-> "SIG_DFL"], ctx |-> <<>>, sfr |-> {}, stray |-> FALSE]

\* The child is not there until fork.
SyncInit ==
  /\ task = [p \in Procs |-> Fresh(IF p = parent THEN "running" ELSE "zombie")]
  /\ pc = [p \in Procs |-> IF p = parent THEN "enter" ELSE "unborn"]
  /\ sigflag = [p \in Procs |-> 0]

\* The main program of p is about to do what is at l.
At(p, l) == pc[p] = l /\ task[p].ctx = <<>>

Goto(p, l) == pc' = [pc EXCEPT ![p] = l]

-----------------------------------------------------------------------------
\* sync_enter: SIGUSR1 is blocked, then caught.
sync_enter ==
  \/ /\ At(parent, "enter") /\ sys_sigprocmask(parent, "SIG_BLOCK", {SIGUSR1})
     /\ Goto(parent, "signal") /\ UNCHANGED sigflag
  \/ /\ At(parent, "signal") /\ sys_sigaction(parent, SIGUSR1, "handler")
     /\ Goto(parent, "fork") /\ UNCHANGED sigflag

sys_fork ==
  /\ Running(parent) /\ At(parent, "fork")
  /\ \E u \in isr_exit(task[parent]) :
       task' = [task EXCEPT ![parent] = u, ![child] = Forked(task[parent])]
  /\ pc' = [pc EXCEPT ![parent] = "tell", ![child] = "wait"]
  /\ sigflag' = [sigflag EXCEPT ![child] = sigflag[parent]]

\* The parent tells first, then waits; the child waits, tells and exits.
sync_tell(p) ==
  /\ At(p, "tell")
  /\ sys_kill(p, IF p = parent THEN child ELSE parent, SIGUSR1)
  /\ Goto(p, IF p = parent THEN "wait" ELSE "exit") /\ UNCHANGED sigflag

\* sync_wait tests the flag, and then suspends or goes on.
sync_wait(p) ==
  \/ /\ Running(p) /\ At(p, "wait") /\ UNCHANGED task
     /\ IF sigflag[p] = 0
        THEN Goto(p, "suspend") /\ UNCHANGED sigflag
        ELSE Goto(p, IF p = parent THEN "exit" ELSE "tell") /\ sigflag' = [sigflag EXCEPT ![p] = 0]
  \/ /\ At(p, "suspend") /\ sys_sigsuspend(p, {})
     /\ Goto(p, "wait") /\ UNCHANGED sigflag

\* The handler, and its return.
sig_usr(p) ==
  /\ sys_sigreturn(p)
  /\ sigflag' = [sigflag EXCEPT ![p] = 1] /\ UNCHANGED pc

sys_exit(p) ==
  /\ Running(p) /\ At(p, "exit")
  /\ task' = [q \in Procs |->
                IF q = p THEN [task[p] EXCEPT !.state = "zombie"]
                ELSE IF q = parent THEN task_signal(task[q], SIGCHLD) ELSE task[q]]
  /\ Goto(p, "gone") /\ UNCHANGED sigflag

Program(p) == sync_tell(p) \/ sync_wait(p) \/ sig_usr(p) \/ sys_exit(p)

Kernel(p) ==
  /\ Preempt(p) \/ Resume(p) \/ SuspendResume(p)
  /\ UNCHANGED <<pc, sigflag>>

SyncNext == sync_enter \/ sys_fork \/ \E p \in Procs : Program(p) \/ Kernel(p)

\* A runnable process gets the CPU again and again, and makes a step on it.
SyncSpec ==
  /\ SyncInit /\ [][SyncNext]_syncvars
  /\ SF_syncvars(sync_enter) /\ SF_syncvars(sys_fork)
  /\ \A p \in Procs :
       /\ SF_syncvars(Program(p))
       /\ WF_syncvars(Preempt(p) /\ UNCHANGED <<pc, sigflag>>)
       /\ SF_syncvars(Resume(p) /\ UNCHANGED <<pc, sigflag>>)
       /\ SF_syncvars(SuspendResume(p) /\ UNCHANGED <<pc, sigflag>>)

-----------------------------------------------------------------------------
(* Properties *)

\* racecond.c:48-50: the child prints "[child] wait parent", waits, and prints
\* "[child] continue": once the parent has told it, the child goes on.
ChildContinues ==
  pc[parent] = "wait" ~> pc[child] \in {"tell", "exit", "gone"}
=============================================================================
