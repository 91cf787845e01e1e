------------------------------- MODULE Signals -------------------------------
(***************************************************************************)
(* Signals: how one is sent (task_signal), taken on the way back to user   *)
(* mode (isr_handler, do_signal) or in sigsuspend, handled by user code    *)
(* and left again (sigreturn), and the calls that set masks and actions.   *)
(*                                                                         *)
(* The machine has one CPU and the kernel is not preempted, so one process *)
(* at most is in user mode ("user"); the others are inside the call of     *)
(* scheduler() of isr_handler ("ready"), in sigsuspend ("suspend") or in   *)
(* some other call that waits ("blocked").  A frame (struct isr_frame) is  *)
(* known by the handlers that user code is in, the innermost one last, and *)
(* the arch.sfr of a task is the set of frames it points to.  A handler    *)
(* has a restorer always: sigaction of libc sets it.                       *)
(***************************************************************************)
EXTENDS Integers, Sequences

CONSTANTS Procs,    \* the processes
          Sigs,     \* the signals in use
          Ignored,  \* the signals whose default action does nothing
          Fixed,    \* SIGKILL and SIGSTOP
          MaxNest,  \* bound: handlers that user code is in at a time
          Scarce    \* kmalloc may fail

ASSUME SigsAssumption == Sigs \subseteq 1 .. 31 /\ Ignored \subseteq Sigs /\ Fixed \subseteq Sigs

ASSUME NestAssumption == MaxNest \in Nat \ {0, 1} /\ Scarce \in BOOLEAN

VARIABLE task   \* the struct task of every process

vars == <<task>>

Handlers == {"SIG_DFL", "SIG_IGN", "handler"}

\* The code that a process may be forked in: a parent in handlers leaves its
\* child in them.
Contexts == UNION {[1 .. n -> Sigs \ Fixed] : n \in 0 .. MaxNest - 1}

\* A process after fork.  Two fields are not in the code: asked is the mask that
\* the process itself has set; stray tells that the process was forked in a
\* handler, left one by longjmp or execve, or entered one in another one.
Init ==
  \E ctx \in [Procs -> Contexts] :
    task = [p \in Procs |->
              [state |-> "running", at |-> "ready", pend |-> {}, mask |-> {}, omask |-> {},
               asked |-> {}, act |-> [s \in Sigs |-> "SIG_DFL"], ctx |-> ctx[p], sfr |-> {},
               stray |-> ctx[p] # <<>>]]

-----------------------------------------------------------------------------
Unblocked(t) == t.pend \ t.mask

\* Mutant: nobody is woken.
task_signal_quiet(t, s) == [t EXCEPT !.pend = @ \cup {s}]

task_signal(t, s) ==
  [t EXCEPT !.pend = @ \cup {s},
            !.state = IF s \notin t.mask /\ @ = "sleeping" THEN "running" ELSE @]

\* The first signal that is not blocked.
sigpop(t) == {s \in Unblocked(t) : \A r \in Unblocked(t) : s <= r}

\* do_signal saves the frame, unless there is one, and enters the handler.
Handle(t, s) ==
  [t EXCEPT !.sfr = IF @ = {} THEN {t.ctx} ELSE @, !.ctx = Append(@, s),
            !.stray = @ \/ t.sfr # {}]

\* The outcomes of do_signal once sigpop has found s: terminate, do nothing,
\* enter the handler, or no memory for the frame.
Outcomes(t, s) ==
  IF t.act[s] = "SIG_DFL"
  THEN IF s \in Ignored THEN {t} ELSE {[t EXCEPT !.state = "zombie"]}
  ELSE IF t.act[s] = "SIG_IGN" THEN {t}
  ELSE {Handle(t, s)} \cup IF t.sfr = {} /\ Scarce THEN {t} ELSE {}

do_signal(t) ==
  UNION {Outcomes([t EXCEPT !.pend = @ \ {s}], s) : s \in sigpop(t)}

\* Mutant: a signal is handled in a handler too.
isr_exit_nested(t) == IF Unblocked(t) # {} THEN do_signal(t) ELSE {t}

\* The end of isr_handler.
isr_exit(t) == IF t.sfr = {} /\ Unblocked(t) # {} THEN do_signal(t) ELSE {t}

ToUser(p, t) ==
  \E u \in isr_exit([t EXCEPT !.at = "user"]) : task' = [task EXCEPT ![p] = u]

Running(p) == task[p].at = "user" /\ task[p].state = "running"
CpuFree == \A p \in Procs : ~Running(p)

-----------------------------------------------------------------------------
(* Interrupts and the other processes *)

\* An interrupt in user mode, with the signals S that its handler (alarm,
\* keyboard, a trap) sends to the process, and no other process to run.
Interrupt(p, S) ==
  /\ Running(p)
  /\ \E t \in {task[p]} \cup {task_signal(task[p], s) : s \in S} : ToUser(p, t)

\* The time slice is over: scheduler() switches to another process.
Preempt(p) ==
  /\ Running(p)
  /\ task' = [task EXCEPT ![p].at = "ready"]

Resume(p) ==
  /\ CpuFree
  /\ task[p].at = "ready" /\ task[p].state = "running"
  /\ ToUser(p, task[p])

\* While another process is on the CPU, it or an interrupt sends a signal.
Sent(p, s) ==
  /\ CpuFree
  /\ task' = [task EXCEPT ![p] = task_signal(task[p], s)]

\* Any system call that waits on a condition, and the end of the waiting.
Block(p) ==
  /\ Running(p)
  /\ task' = [task EXCEPT ![p].at = "blocked", ![p].state = "sleeping"]

cond_signal(p) ==
  /\ CpuFree
  /\ task[p].at = "blocked" /\ task[p].state = "sleeping"
  /\ task' = [task EXCEPT ![p].state = "running"]

\* The call returns, or finds its condition still false and waits again.
BlockResume(p) ==
  /\ CpuFree
  /\ task[p].at = "blocked" /\ task[p].state = "running"
  /\ \/ ToUser(p, task[p])
     \/ task' = [task EXCEPT ![p].state = "sleeping"]

-----------------------------------------------------------------------------
(* The system calls *)

\* A process signals itself or another one.
sys_kill(p, q, s) ==
  /\ Running(p)
  /\ IF q = p
     THEN ToUser(p, task_signal(task[p], s))
     ELSE \E u \in isr_exit(task[p]) :
            task' = [task EXCEPT ![p] = u, ![q] = task_signal(task[q], s)]

\* Mutant: every signal can be caught.
sys_sigaction_any(p, s, a) ==
  /\ Running(p)
  /\ ToUser(p, [task[p] EXCEPT !.act[s] = a])

sys_sigaction(p, s, a) ==
  /\ Running(p)
  /\ ToUser(p, IF s \in Fixed THEN task[p] ELSE [task[p] EXCEPT !.act[s] = a])

sys_sigprocmask(p, how, set) ==
  LET mask == CASE how = "SIG_SETMASK" -> set
                [] how = "SIG_BLOCK"   -> task[p].mask \cup set
                [] how = "SIG_UNBLOCK" -> task[p].mask \ set
  IN  /\ Running(p)
      /\ ToUser(p, [task[p] EXCEPT !.mask = mask, !.asked = mask])

\* Mutant: the old mask is restored only when the process has slept.
suspend_loop_early(p, t) ==
  IF Unblocked(t) = {}
  THEN task' = [task EXCEPT ![p] = [t EXCEPT !.state = "sleeping"]]
  ELSE \E u \in do_signal(t) :
         IF u.state = "zombie" THEN task' = [task EXCEPT ![p] = u]
         ELSE IF task[p].at = "user" THEN ToUser(p, u)
         ELSE ToUser(p, [u EXCEPT !.mask = u.omask, !.omask = {}])

\* The loop of sys_sigsuspend, up to the call of scheduler() or the return.
suspend_loop(p, t) ==
  IF Unblocked(t) = {}
  THEN task' = [task EXCEPT ![p] = [t EXCEPT !.state = "sleeping"]]
  ELSE \E u \in do_signal(t) :
         IF u.state = "zombie" THEN task' = [task EXCEPT ![p] = u]
         ELSE ToUser(p, [u EXCEPT !.mask = u.omask, !.omask = {}])

sys_sigsuspend(p, mask) ==
  /\ Running(p)
  /\ Len(task[p].ctx) < MaxNest
  /\ suspend_loop(p, [task[p] EXCEPT !.omask = task[p].mask, !.mask = mask, !.at = "suspend"])

SuspendResume(p) ==
  /\ CpuFree
  /\ task[p].at = "suspend" /\ task[p].state = "running"
  /\ suspend_loop(p, task[p])

\* Mutant: the frame is kept.
sys_sigreturn_kept(p) ==
  /\ Running(p) /\ task[p].ctx # <<>>
  /\ ToUser(p, IF task[p].sfr = {} THEN task[p]
               ELSE [task[p] EXCEPT !.ctx = CHOOSE c \in task[p].sfr : TRUE])

\* The restorer, to which a handler returns, calls sigreturn.
sys_sigreturn(p) ==
  /\ Running(p) /\ task[p].ctx # <<>>
  /\ ToUser(p, IF task[p].sfr = {} THEN task[p]
               ELSE [task[p] EXCEPT !.ctx = CHOOSE c \in task[p].sfr : TRUE, !.sfr = {}])

\* What fork gives the child: task_init and task_arch_init.
Forked(t) ==
  [t EXCEPT !.at = "ready", !.pend = {}, !.mask = {}, !.asked = {}, !.sfr = {},
            !.stray = t.ctx # <<>>]

\* A process runs another program.  The frame of a handler that calls execve
\* stays.
sys_execve(p) ==
  /\ Running(p)
  /\ ToUser(p, [task[p] EXCEPT !.ctx = <<>>, !.stray = @ \/ task[p].sfr # {},
                  !.act = [s \in Sigs |-> IF @[s] = "SIG_IGN" THEN "SIG_IGN" ELSE "SIG_DFL"]])

\* longjmp takes user code out of handlers; the kernel has no part in it.
longjmp(p) ==
  /\ Running(p)
  /\ \E n \in 0 .. Len(task[p].ctx) - 1 :
       task' = [task EXCEPT ![p] = [task[p] EXCEPT !.ctx = SubSeq(@, 1, n), !.stray = TRUE]]

-----------------------------------------------------------------------------
Hows == {"SIG_BLOCK", "SIG_UNBLOCK", "SIG_SETMASK"}

Step(p) ==
  \/ Interrupt(p, Sigs) \/ Preempt(p) \/ Resume(p)
  \/ Block(p) \/ cond_signal(p) \/ BlockResume(p)
  \/ \E s \in Sigs : Sent(p, s)
  \/ \E q \in Procs, s \in Sigs : sys_kill(p, q, s)
  \/ \E s \in Sigs, a \in Handlers : sys_sigaction(p, s, a)
  \/ \E how \in Hows, set \in SUBSET Sigs : sys_sigprocmask(p, how, set)
  \/ \E mask \in SUBSET Sigs : sys_sigsuspend(p, mask)
  \/ SuspendResume(p) \/ sys_sigreturn(p) \/ sys_execve(p) \/ longjmp(p)

Next == \E p \in Procs : Step(p)

Spec == Init /\ [][Next]_vars

\* Time slices end, and a runnable process gets the CPU (Scheduled of Sched).
Fairness ==
  \A p \in Procs :
    /\ WF_vars(Preempt(p))
    /\ SF_vars(Resume(p)) /\ SF_vars(BlockResume(p)) /\ SF_vars(SuspendResume(p))

FairSpec == Spec /\ Fairness

-----------------------------------------------------------------------------
(* Properties *)

Tasks ==
  [state : {"running", "sleeping", "zombie"}, at : {"user", "ready", "suspend", "blocked"},
   pend : SUBSET Sigs, mask : SUBSET Sigs, omask : SUBSET Sigs, asked : SUBSET Sigs,
   act : [Sigs -> Handlers], ctx : Seq(Sigs), sfr : SUBSET Seq(Sigs), stray : BOOLEAN]

TypeOK ==
  /\ task \in [Procs -> Tasks]
  /\ \A p \in Procs : Len(task[p].ctx) <= MaxNest

\* However signals come, a process is in one handler at most, a frame is saved
\* just while it is in one, so that sigreturn finds it, and the frame is that of
\* the code the handler interrupted.  This does not speak of a process that was
\* forked in a handler, has left one by longjmp or execve, or has entered one
\* in another one (through sigsuspend).
FrameExact ==
  \A p \in Procs :
    ~task[p].stray =>
      \/ task[p].ctx = <<>> /\ task[p].sfr = {}
      \/ \E s \in Sigs : task[p].ctx = <<s>> /\ task[p].sfr = {<<>>}

\* isr.c:70: "Do not handle nested signals (sfr should be null)": no step enters
\* a handler while a frame is saved.
NotNested ==
  [][\A p \in Procs :
       task[p].sfr # {} => Len(task'[p].ctx) <= Len(task[p].ctx)]_vars

\* Nobody sleeps in sigsuspend with a signal it waits for pending, however the
\* sending falls between the test of do_signal and the sleep.
NoLostSignal ==
  \A p \in Procs :
    task[p].at = "suspend" /\ task[p].state = "sleeping" => Unblocked(task[p]) = {}

\* The mask of sigsuspend is in force during the call only: at every other
\* point, in handlers too, the mask is the one the process asked for.
MaskKept ==
  \A p \in Procs :
    task[p].state # "zombie" =>
      task[p].asked = IF task[p].at = "suspend" THEN task[p].omask ELSE task[p].mask

\* sys_sigaction.c:30: "SIGSTOP and SIGKILL can't be caught nor ignored": the
\* step that takes SIGKILL from the pending signals ends the process.
Uncatchable ==
  [][\A p \in Procs, s \in Fixed \ Ignored :
       s \in task[p].pend /\ s \notin task'[p].pend => task'[p].state = "zombie"]_vars

Waiting(p, s) == s \in Unblocked(task[p]) /\ task[p].state # "zombie"

\* A signal that is sent and not blocked is taken in the end, unless signals
\* with lower numbers keep coming before it, the process stays in a call that
\* waits for something else, or it never gives the frame of a handler back
\* (the handler does not end, or was left by longjmp or execve).
SignalTaken ==
  \A p \in Procs, s \in Sigs :
    <>[]Waiting(p, s) => \/ []<>(\E r \in Sigs : r < s /\ Waiting(p, r))
                         \/ <>[](task[p].at = "blocked")
                         \/ <>[](task[p].sfr # {})
=============================================================================
