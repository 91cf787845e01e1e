---------------------------- MODULE SignalsProofs ----------------------------
(***************************************************************************)
(* Signals keep masks and wakeups right for any number of processes, any   *)
(* signals and any depth of nested handlers, and frames in processes that  *)
(* leave handlers only by returning from them.  The invariant speaks of    *)
(* each task alone, so the proof is in terms of what a step makes of one   *)
(* record; task_signal, do_signal and the end of isr_handler have a lemma  *)
(* each, and the system calls are put together from these.                 *)
(***************************************************************************)
EXTENDS Signals, TLAPS

\* User code is not too deep in handlers, nor is the code of the saved frame;
\* and that is the code that the one handler interrupted.
Kept(ctx, sfr, stray) ==
  /\ Len(ctx) <= MaxNest
  /\ sfr = {} => Len(ctx) < MaxNest
  /\ \A c \in sfr : Len(c) < MaxNest
  /\ stray \/ (ctx = <<>> /\ sfr = {}) \/ \E s \in Sigs : ctx = <<s>> /\ sfr = {<<>>}

Framed(t) == t \in Tasks /\ Kept(t.ctx, t.sfr, t.stray)

Good(t) ==
  /\ Framed(t)
  /\ t.at = "suspend" /\ t.state = "sleeping" => Unblocked(t) = {}
  /\ t.at = "suspend" /\ t.state # "zombie" => Len(t.ctx) < MaxNest
  /\ t.state # "zombie" => t.asked = IF t.at = "suspend" THEN t.omask ELSE t.mask

IInv ==
  /\ task \in [Procs -> Tasks]
  /\ \A p \in Procs : Good(task[p])

LEMMA SignalGood ==
  ASSUME NEW t, Good(t), NEW s \in Sigs
  PROVE  Good(task_signal(t, s))
<1> DEFINE u == task_signal(t, s)
<1>1. t \in Tasks
  BY DEF Good, Framed
<1>2. /\ u \in Tasks /\ u.at = t.at /\ u.mask = t.mask /\ u.omask = t.omask /\ u.asked = t.asked
      /\ u.ctx = t.ctx /\ u.sfr = t.sfr /\ u.stray = t.stray /\ u.act = t.act
      /\ u.pend = t.pend \cup {s}
      /\ u.state = IF s \notin t.mask /\ t.state = "sleeping" THEN "running" ELSE t.state
  BY <1>1 DEF task_signal, Tasks
<1> HIDE DEF u
<1>3. Framed(u)
  BY <1>2 DEF Good, Framed
<1>4. u.at = "suspend" /\ u.state = "sleeping" => Unblocked(u) = {}
  BY <1>2 DEF Good, Unblocked
<1>5. Good(u)
  BY <1>1, <1>2, <1>3, <1>4 DEF Good, Tasks
<1> QED
  BY <1>5 DEF u

\* u is t after a signal was taken.
After(t, u) ==
  /\ Framed(u)
  /\ u.at = t.at /\ u.mask = t.mask /\ u.omask = t.omask /\ u.asked = t.asked
  /\ u.state = t.state \/ u.state = "zombie"

LEMMA DoSignal ==
  ASSUME NEW t, Framed(t), Len(t.ctx) < MaxNest, NEW u \in do_signal(t)
  PROVE  After(t, u)
<1>1. PICK s \in sigpop(t) : u \in Outcomes([t EXCEPT !.pend = @ \ {s}], s)
  BY DEF do_signal
<1> DEFINE v == [t EXCEPT !.pend = @ \ {s}]
<1>2. t \in Tasks /\ s \in Sigs
  BY DEF Framed, sigpop, Unblocked, Tasks
<1>3. /\ v \in Tasks /\ v.at = t.at /\ v.mask = t.mask /\ v.omask = t.omask /\ v.asked = t.asked
      /\ v.ctx = t.ctx /\ v.sfr = t.sfr /\ v.stray = t.stray /\ v.state = t.state
  BY <1>2 DEF Tasks
<1> HIDE DEF v
<1>4. Framed(v)
  BY <1>3 DEF Framed
<1>5. u \in {v, [v EXCEPT !.state = "zombie"], Handle(v, s)}
  BY <1>1 DEF Outcomes, v
<1>6. CASE u = v
  BY <1>3, <1>4, <1>6 DEF After
<1>7. CASE u = [v EXCEPT !.state = "zombie"]
  <2>1. /\ u \in Tasks /\ u.at = v.at /\ u.mask = v.mask /\ u.omask = v.omask
        /\ u.asked = v.asked /\ u.ctx = v.ctx /\ u.sfr = v.sfr /\ u.stray = v.stray /\ u.state = "zombie"
    BY <1>3, <1>7 DEF Tasks
  <2> QED
    BY <1>3, <1>4, <2>1 DEF After, Framed
<1>8. CASE u = Handle(v, s)
  <2>1. v.ctx \in Seq(Sigs) /\ v.sfr \in SUBSET Seq(Sigs)
    BY <1>3 DEF Tasks
  <2>2. Append(v.ctx, s) \in Seq(Sigs) /\ Append(v.ctx, s) # <<>>
        /\ Len(Append(v.ctx, s)) = Len(v.ctx) + 1 /\ Len(v.ctx) \in Nat
    BY <1>2, <2>1
  <2>3. /\ u \in Tasks /\ u.at = v.at /\ u.mask = v.mask /\ u.omask = v.omask
        /\ u.asked = v.asked /\ u.ctx = Append(v.ctx, s) /\ u.state = v.state
        /\ u.sfr = IF v.sfr = {} THEN {v.ctx} ELSE v.sfr
        /\ u.stray = (v.stray \/ v.sfr # {})
    BY <1>3, <1>8, <2>1, <2>2 DEF Handle, Tasks
  <2>4. Kept(v.ctx, v.sfr, v.stray) /\ Len(v.ctx) < MaxNest
    BY <1>3, <1>4 DEF Framed
  <2>5. Kept(u.ctx, u.sfr, u.stray)
    <3>1. Len(u.ctx) <= MaxNest
      BY <2>2, <2>3, <2>4, NestAssumption
    <3>2. u.sfr # {} /\ \A c \in u.sfr : Len(c) < MaxNest
      BY <2>3, <2>4 DEF Kept
    <3>3. CASE u.stray
      BY <3>1, <3>2, <3>3 DEF Kept
    <3>4. CASE ~u.stray
      <4>1. ~v.stray /\ v.sfr = {}
        BY <2>3, <3>4
      <4>2. v.ctx = <<>>
        BY <2>4, <4>1 DEF Kept
      <4>3. u.ctx = <<s>> /\ u.sfr = {<<>>}
        BY <2>3, <4>1, <4>2
      <4> QED
        BY <1>2, <3>1, <3>2, <4>3 DEF Kept
    <3> QED
      BY <3>3, <3>4
  <2> QED
    BY <1>3, <2>3, <2>5 DEF After, Framed
<1> QED
  BY <1>5, <1>6, <1>7, <1>8

\* What reaches user mode through the end of isr_handler is right.
LEMMA ExitGood ==
  ASSUME NEW t, Framed(t), t.at = "user", t.asked = t.mask, NEW u \in isr_exit(t)
  PROVE  Good(u)
<1>1. CASE t.sfr = {} /\ Unblocked(t) # {}
  <2>2. Len(t.ctx) < MaxNest
    BY <1>1 DEF Framed, Kept
  <2>3. After(t, u)
    BY <1>1, <2>2, DoSignal DEF isr_exit
  <2> QED
    BY <2>3 DEF After, Good
<1>2. CASE ~(t.sfr = {} /\ Unblocked(t) # {})
  <2>1. u = t
    BY <1>2 DEF isr_exit
  <2> QED
    BY <2>1 DEF Good
<1> QED
  BY <1>1, <1>2

\* A step that makes a right record of one task keeps the invariant.
LEMMA OneTask ==
  ASSUME IInv, NEW p \in Procs, NEW u, Good(u), task' = [task EXCEPT ![p] = u]
  PROVE  IInv'
<1>1. u \in Tasks
  BY DEF Good, Framed
<1>2. task' \in [Procs -> Tasks]
  BY <1>1 DEF IInv
<1>3. ASSUME NEW q \in Procs PROVE Good(task'[q])
  BY DEF IInv
<1> QED
  BY <1>2, <1>3 DEF IInv

LEMMA ToUserGood ==
  ASSUME IInv, NEW p \in Procs, NEW t, Framed(t), t.asked = t.mask, ToUser(p, t)
  PROVE  IInv'
<1> DEFINE v == [t EXCEPT !.at = "user"]
<1>1. PICK u \in isr_exit(v) : task' = [task EXCEPT ![p] = u]
  BY DEF ToUser
<1>2. t \in Tasks
  BY DEF Framed
<1>3. /\ v \in Tasks /\ v.at = "user" /\ v.mask = t.mask /\ v.asked = t.asked
      /\ v.ctx = t.ctx /\ v.sfr = t.sfr /\ v.stray = t.stray
  BY <1>2 DEF Tasks
<1> HIDE DEF v
<1>4. Framed(v)
  BY <1>3 DEF Framed
<1>5. Good(u)
  BY <1>3, <1>4, ExitGood
<1> QED
  BY <1>1, <1>5, OneTask

-----------------------------------------------------------------------------
(* The actions *)

\* The record of a process in user mode.
LEMMA UserMode ==
  ASSUME IInv, NEW p \in Procs, task[p].at # "suspend", task[p].state # "zombie"
  PROVE  Framed(task[p]) /\ task[p] \in Tasks /\ task[p].asked = task[p].mask
  BY DEF IInv, Good, Framed

LEMMA InterruptStep ==
  ASSUME IInv, NEW p \in Procs, Interrupt(p, Sigs)
  PROVE  IInv'
<1>1. PICK t \in {task[p]} \cup {task_signal(task[p], s) : s \in Sigs} : ToUser(p, t)
  BY DEF Interrupt
<1>2. task[p].at = "user" /\ task[p].state = "running" /\ Good(task[p])
  BY DEF Interrupt, Running, IInv
<1>3. Good(t)
  BY <1>2, SignalGood
<1>4. task[p] \in Tasks
  BY <1>2 DEF Good, Framed
<1>5. t.at = "user" /\ t.state = "running"
  BY <1>2, <1>4 DEF task_signal, Tasks
<1>6. Framed(t) /\ t.asked = t.mask
  BY <1>3, <1>5 DEF Good
<1> QED
  BY <1>1, <1>6, ToUserGood

LEMMA PreemptStep ==
  ASSUME IInv, NEW p \in Procs, Preempt(p)
  PROVE  IInv'
<1> DEFINE t == task[p]
           u == [t EXCEPT !.at = "ready"]
<1>1. Framed(t) /\ t \in Tasks /\ t.asked = t.mask
  BY UserMode DEF Preempt, Running
<1>2. /\ u \in Tasks /\ u.at = "ready" /\ u.mask = t.mask /\ u.asked = t.asked
      /\ u.ctx = t.ctx /\ u.sfr = t.sfr /\ u.stray = t.stray
  BY <1>1 DEF Tasks
<1>3. task' = [task EXCEPT ![p] = u]
  BY DEF Preempt
<1> HIDE DEF t, u
<1>4. Good(u)
  BY <1>1, <1>2 DEF Good, Framed
<1> QED
  BY <1>3, <1>4, OneTask

LEMMA ResumeStep ==
  ASSUME IInv, NEW p \in Procs, Resume(p)
  PROVE  IInv'
<1>1. Framed(task[p]) /\ task[p].asked = task[p].mask
  BY UserMode DEF Resume
<1> QED
  BY <1>1, ToUserGood DEF Resume

LEMMA SentStep ==
  ASSUME IInv, NEW p \in Procs, NEW s \in Sigs, Sent(p, s)
  PROVE  IInv'
<1>1. Good(task_signal(task[p], s))
  BY SignalGood DEF IInv
<1> QED
  BY <1>1, OneTask DEF Sent

LEMMA BlockStep ==
  ASSUME IInv, NEW p \in Procs, Block(p)
  PROVE  IInv'
<1> DEFINE t == task[p]
           u == [t EXCEPT !.at = "blocked", !.state = "sleeping"]
<1>1. Framed(t) /\ t \in Tasks /\ t.asked = t.mask
  BY UserMode DEF Block, Running
<1>2. /\ u \in Tasks /\ u.at = "blocked" /\ u.mask = t.mask /\ u.asked = t.asked
      /\ u.ctx = t.ctx /\ u.sfr = t.sfr /\ u.stray = t.stray
  BY <1>1 DEF Tasks
<1>3. task' = [task EXCEPT ![p] = u]
  BY DEF Block, IInv
<1> HIDE DEF t, u
<1>4. Good(u)
  BY <1>1, <1>2 DEF Good, Framed
<1> QED
  BY <1>3, <1>4, OneTask

\* A process in a call that waits is woken, or waits again.
LEMMA StateStep ==
  ASSUME IInv, NEW p \in Procs, task[p].at = "blocked", task[p].state # "zombie",
         NEW st \in {"running", "sleeping"}, task' = [task EXCEPT ![p].state = st]
  PROVE  IInv'
<1> DEFINE t == task[p]
           u == [t EXCEPT !.state = st]
<1>1. Framed(t) /\ t \in Tasks /\ t.asked = t.mask
  BY UserMode
<1>2. /\ u \in Tasks /\ u.at = "blocked" /\ u.mask = t.mask /\ u.asked = t.asked
      /\ u.ctx = t.ctx /\ u.sfr = t.sfr /\ u.stray = t.stray
  BY <1>1 DEF Tasks
<1>3. task' = [task EXCEPT ![p] = u]
  BY DEF IInv
<1> HIDE DEF t, u
<1>4. Good(u)
  BY <1>1, <1>2 DEF Good, Framed
<1> QED
  BY <1>3, <1>4, OneTask

LEMMA BlockResumeStep ==
  ASSUME IInv, NEW p \in Procs, BlockResume(p)
  PROVE  IInv'
<1>1. Framed(task[p]) /\ task[p].asked = task[p].mask
  BY UserMode DEF BlockResume
<1>2. CASE ToUser(p, task[p])
  BY <1>1, <1>2, ToUserGood
<1>3. CASE task' = [task EXCEPT ![p].state = "sleeping"]
  BY <1>3, StateStep DEF BlockResume
<1> QED
  BY <1>2, <1>3 DEF BlockResume

LEMMA KillStep ==
  ASSUME IInv, NEW p \in Procs, NEW q \in Procs, NEW s \in Sigs, sys_kill(p, q, s)
  PROVE  IInv'
<1>1. task[p].at = "user" /\ task[p].state = "running" /\ Good(task[p])
  BY DEF sys_kill, Running, IInv
<1>2. Framed(task[p]) /\ task[p] \in Tasks /\ task[p].asked = task[p].mask
  BY <1>1, UserMode
<1>3. CASE q = p
  <2> DEFINE t == task_signal(task[p], s)
  <2>1. Good(t)
    BY <1>1, SignalGood
  <2>2. t.at = "user" /\ t.state = "running"
    BY <1>1, <1>2 DEF task_signal, Tasks
  <2>3. ToUser(p, t)
    BY <1>3 DEF sys_kill
  <2> HIDE DEF t
  <2>4. Framed(t) /\ t.asked = t.mask
    BY <2>1, <2>2 DEF Good
  <2> QED
    BY <2>3, <2>4, ToUserGood
<1>4. CASE q # p
  <2>1. PICK u \in isr_exit(task[p]) :
          task' = [task EXCEPT ![p] = u, ![q] = task_signal(task[q], s)]
    BY <1>4 DEF sys_kill
  <2>2. Good(u)
    BY <1>1, <1>2, ExitGood
  <2>3. Good(task_signal(task[q], s))
    BY SignalGood DEF IInv
  <2> DEFINE w == task_signal(task[q], s)
  <2> HIDE DEF w
  <2>4. task' = [task EXCEPT ![p] = u, ![q] = w] /\ Good(w)
    BY <2>1, <2>3 DEF w
  <2>5. u \in Tasks /\ w \in Tasks
    BY <2>2, <2>4 DEF Good, Framed
  <2>6. task' \in [Procs -> Tasks]
    BY <2>4, <2>5 DEF IInv
  <2>7. ASSUME NEW r \in Procs PROVE Good(task'[r])
    BY <1>4, <2>2, <2>4 DEF IInv
  <2> QED
    BY <2>6, <2>7 DEF IInv
<1> QED
  BY <1>3, <1>4

LEMMA SigactionStep ==
  ASSUME IInv, NEW p \in Procs, NEW s \in Sigs, NEW a \in Handlers, sys_sigaction(p, s, a)
  PROVE  IInv'
<1> DEFINE t == task[p]
           u == IF s \in Fixed THEN t ELSE [t EXCEPT !.act[s] = a]
<1>1. Framed(t) /\ t \in Tasks /\ t.asked = t.mask
  BY UserMode DEF sys_sigaction, Running
<1>2. u \in Tasks /\ u.mask = t.mask /\ u.asked = t.asked /\ u.ctx = t.ctx /\ u.sfr = t.sfr /\ u.stray = t.stray
  BY <1>1 DEF Tasks
<1>3. ToUser(p, u)
  BY DEF sys_sigaction
<1> HIDE DEF t, u
<1>4. Framed(u) /\ u.asked = u.mask
  BY <1>1, <1>2 DEF Framed
<1> QED
  BY <1>3, <1>4, ToUserGood

LEMMA SigprocmaskStep ==
  ASSUME IInv, NEW p \in Procs, NEW how \in Hows, NEW set \in SUBSET Sigs,
         sys_sigprocmask(p, how, set)
  PROVE  IInv'
<1> DEFINE t == task[p]
           mask == CASE how = "SIG_SETMASK" -> set
                     [] how = "SIG_BLOCK"   -> t.mask \cup set
                     [] how = "SIG_UNBLOCK" -> t.mask \ set
           u == [t EXCEPT !.mask = mask, !.asked = mask]
<1>1. Framed(t) /\ t \in Tasks
  BY UserMode DEF sys_sigprocmask, Running
<1>2. mask \in SUBSET Sigs
  BY <1>1 DEF Hows, Tasks
<1>3. ToUser(p, u)
  BY DEF sys_sigprocmask
<1> HIDE DEF mask, t
<1>4. u \in Tasks /\ u.mask = u.asked /\ u.ctx = t.ctx /\ u.sfr = t.sfr /\ u.stray = t.stray
  BY <1>1, <1>2 DEF Tasks
<1> HIDE DEF u
<1>5. Framed(u)
  BY <1>1, <1>4 DEF Framed
<1> QED
  BY <1>3, <1>4, <1>5, ToUserGood

LEMMA SigreturnStep ==
  ASSUME IInv, NEW p \in Procs, sys_sigreturn(p)
  PROVE  IInv'
<1> DEFINE t == task[p]
           c == CHOOSE c \in t.sfr : TRUE
           u == [t EXCEPT !.ctx = c, !.sfr = {}]
<1>1. Framed(t) /\ t \in Tasks /\ t.asked = t.mask /\ t.ctx # <<>>
  BY UserMode DEF sys_sigreturn, Running
<1>2. CASE t.sfr = {}
  <2>1. ToUser(p, t)
    BY <1>2 DEF sys_sigreturn
  <2> HIDE DEF t
  <2> QED
    BY <1>1, <2>1, ToUserGood
<1>3. CASE t.sfr # {}
  <2>1. ToUser(p, u)
    BY <1>3 DEF sys_sigreturn
  <2>2. c \in t.sfr
    BY <1>3
  <2> HIDE DEF t, c
  <2>3. c \in Seq(Sigs) /\ Len(c) < MaxNest /\ Len(c) \in Nat
    BY <1>1, <2>2 DEF Framed, Kept, Tasks
  <2>4. t.stray \/ c = <<>>
    BY <1>1, <2>2 DEF Framed, Kept
  <2>5. /\ u \in Tasks /\ u.mask = t.mask /\ u.asked = t.asked /\ u.ctx = c /\ u.sfr = {}
        /\ u.stray = t.stray
    BY <1>1, <2>3 DEF Tasks
  <2> HIDE DEF u
  <2>6. Kept(u.ctx, u.sfr, u.stray)
    BY <2>3, <2>4, <2>5, NestAssumption DEF Kept
  <2> QED
    BY <1>1, <2>1, <2>5, <2>6, ToUserGood DEF Framed
<1> QED
  BY <1>2, <1>3

LEMMA ExecveStep ==
  ASSUME IInv, NEW p \in Procs, sys_execve(p)
  PROVE  IInv'
<1> DEFINE t == task[p]
           a == [s \in Sigs |-> IF t.act[s] = "SIG_IGN" THEN "SIG_IGN" ELSE "SIG_DFL"]
           c == <<>>
           b == t.stray \/ t.sfr # {}
           u == [t EXCEPT !.ctx = c, !.stray = b, !.act = a]
<1>1. Framed(t) /\ t \in Tasks /\ t.asked = t.mask
  BY UserMode DEF sys_execve, Running
<1>2. ToUser(p, u)
  BY DEF sys_execve
<1>3. a \in [Sigs -> Handlers] /\ c \in Seq(Sigs) /\ b \in BOOLEAN
  BY <1>1 DEF Handlers, Tasks
<1>4. c = <<>> /\ Len(c) = 0 /\ (b \/ t.sfr = {})
  OBVIOUS
<1> HIDE DEF t, a, b, c
<1>5. /\ u \in Tasks /\ u.mask = t.mask /\ u.asked = t.asked /\ u.ctx = c /\ u.sfr = t.sfr
      /\ u.stray = b
  BY <1>1, <1>3 DEF Tasks
<1> HIDE DEF u
<1>6. \A f \in u.sfr : Len(f) < MaxNest
  BY <1>1, <1>5 DEF Framed, Kept
<1>7. Kept(u.ctx, u.sfr, u.stray)
  BY <1>4, <1>5, <1>6, NestAssumption DEF Kept
<1> QED
  BY <1>1, <1>2, <1>5, <1>7, ToUserGood DEF Framed

LEMMA LongjmpStep ==
  ASSUME IInv, NEW p \in Procs, longjmp(p)
  PROVE  IInv'
<1> DEFINE t == task[p]
<1>1. Framed(t) /\ t \in Tasks /\ t.asked = t.mask /\ t.at = "user"
  BY UserMode DEF longjmp, Running
<1>2. PICK n \in 0 .. Len(t.ctx) - 1 :
        task' = [task EXCEPT ![p] = [t EXCEPT !.ctx = SubSeq(t.ctx, 1, n), !.stray = TRUE]]
  BY DEF longjmp
<1> DEFINE c == SubSeq(t.ctx, 1, n)
           u == [t EXCEPT !.ctx = c, !.stray = TRUE]
<1>3. task' = [task EXCEPT ![p] = u]
  BY <1>2
<1>4. t.ctx \in Seq(Sigs) /\ Len(t.ctx) \in Nat
  BY <1>1 DEF Tasks
<1>5. c \in Seq(Sigs) /\ Len(c) = n /\ n \in Nat /\ n < Len(t.ctx)
  BY <1>2, <1>4
<1> HIDE DEF t, c
<1>6. /\ u \in Tasks /\ u.at = "user" /\ u.mask = t.mask /\ u.asked = t.asked /\ u.ctx = c
      /\ u.sfr = t.sfr /\ u.stray = TRUE
  BY <1>1, <1>5 DEF Tasks
<1> HIDE DEF u
<1>7. Kept(u.ctx, u.sfr, u.stray)
  BY <1>1, <1>4, <1>5, <1>6, NestAssumption DEF Framed, Kept
<1>8. Good(u)
  BY <1>1, <1>6, <1>7 DEF Good, Framed
<1> QED
  BY <1>3, <1>8, OneTask

\* The loop of sys_sigsuspend, entered with the mask to restore in omask.
LEMMA SuspendLoop ==
  ASSUME IInv, NEW p \in Procs, NEW t, Framed(t), Len(t.ctx) < MaxNest,
         t.at = "suspend", t.asked = t.omask, suspend_loop(p, t)
  PROVE  IInv'
<1>0. t \in Tasks
  BY DEF Framed
<1>1. CASE Unblocked(t) = {}
  <2> DEFINE u == [t EXCEPT !.state = "sleeping"]
  <2>1. task' = [task EXCEPT ![p] = u]
    BY <1>1 DEF suspend_loop
  <2>2. /\ u \in Tasks /\ u.at = "suspend" /\ u.asked = t.asked /\ u.omask = t.omask
        /\ u.ctx = t.ctx /\ u.sfr = t.sfr /\ u.stray = t.stray /\ u.pend = t.pend /\ u.mask = t.mask
    BY <1>0 DEF Tasks
  <2> HIDE DEF u
  <2>3. Good(u)
    BY <1>1, <2>2 DEF Good, Framed, Unblocked
  <2> QED
    BY <2>1, <2>3, OneTask
<1>2. CASE Unblocked(t) # {}
  <2>1. PICK u \in do_signal(t) :
          IF u.state = "zombie" THEN task' = [task EXCEPT ![p] = u]
          ELSE ToUser(p, [u EXCEPT !.mask = u.omask, !.omask = {}])
    BY <1>2 DEF suspend_loop
  <2>2. After(t, u)
    BY DoSignal
  <2>3. CASE u.state = "zombie"
    <3>1. Good(u)
      BY <2>2, <2>3 DEF After, Good
    <3> QED
      BY <2>1, <2>3, <3>1, OneTask
  <2>4. CASE u.state # "zombie"
    <3> DEFINE v == [u EXCEPT !.mask = u.omask, !.omask = {}]
    <3>1. Framed(u) /\ u \in Tasks /\ u.asked = u.omask
      BY <2>2 DEF After, Framed
    <3>2. v \in Tasks /\ v.mask = u.omask /\ v.asked = u.asked /\ v.ctx = u.ctx /\ v.sfr = u.sfr /\ v.stray = u.stray
      BY <3>1 DEF Tasks
    <3>3. ToUser(p, v)
      BY <2>1, <2>4
    <3> HIDE DEF v
    <3>4. Framed(v) /\ v.asked = v.mask
      BY <3>1, <3>2 DEF Framed
    <3> QED
      BY <3>3, <3>4, ToUserGood
  <2> QED
    BY <2>3, <2>4
<1> QED
  BY <1>1, <1>2

LEMMA SigsuspendStep ==
  ASSUME IInv, NEW p \in Procs, NEW mask \in SUBSET Sigs, sys_sigsuspend(p, mask)
  PROVE  IInv'
<1> DEFINE t == task[p]
           u == [t EXCEPT !.omask = t.mask, !.mask = mask, !.at = "suspend"]
<1>1. Framed(t) /\ t \in Tasks /\ t.asked = t.mask /\ Len(t.ctx) < MaxNest
  BY UserMode DEF sys_sigsuspend, Running
<1>2. suspend_loop(p, u)
  BY DEF sys_sigsuspend
<1> HIDE DEF t
<1>3. /\ u \in Tasks /\ u.at = "suspend" /\ u.asked = u.omask
      /\ u.ctx = t.ctx /\ u.sfr = t.sfr /\ u.stray = t.stray
  BY <1>1 DEF Tasks
<1> HIDE DEF u
<1>4. Framed(u) /\ Len(u.ctx) < MaxNest
  BY <1>1, <1>3 DEF Framed
<1> QED
  BY <1>2, <1>3, <1>4, SuspendLoop

LEMMA SuspendResumeStep ==
  ASSUME IInv, NEW p \in Procs, SuspendResume(p)
  PROVE  IInv'
<1>1. /\ Framed(task[p]) /\ Len(task[p].ctx) < MaxNest
      /\ task[p].at = "suspend" /\ task[p].asked = task[p].omask
      /\ suspend_loop(p, task[p])
  BY DEF SuspendResume, IInv, Good
<1> QED
  BY <1>1, SuspendLoop

-----------------------------------------------------------------------------
(* The theorems *)

LEMMA InitIInv == Init => IInv
<1> SUFFICES ASSUME Init PROVE IInv
  OBVIOUS
<1>1. PICK ctx \in [Procs -> Contexts] :
        task = [p \in Procs |->
                  [state |-> "running", at |-> "ready", pend |-> {}, mask |-> {}, omask |-> {},
                   asked |-> {}, act |-> [s \in Sigs |-> "SIG_DFL"], ctx |-> ctx[p], sfr |-> {},
                   stray |-> ctx[p] # <<>>]]
  BY DEF Init
<1>2. ASSUME NEW p \in Procs PROVE task[p] \in Tasks /\ Good(task[p])
  <2> DEFINE b == ctx[p] # <<>>
             a == [s \in Sigs |-> "SIG_DFL"]
             t == [state |-> "running", at |-> "ready", pend |-> {}, mask |-> {}, omask |-> {},
                   asked |-> {}, act |-> a, ctx |-> ctx[p], sfr |-> {}, stray |-> b]
  <2>1. task[p] = t
    BY <1>1
  <2>2. PICK n \in 0 .. MaxNest - 1 : ctx[p] \in [1 .. n -> Sigs \ Fixed]
    BY DEF Contexts
  <2>3. ctx[p] \in Seq(Sigs) /\ Len(ctx[p]) = n /\ n \in Nat /\ n < MaxNest
    BY <2>2, NestAssumption
  <2>4. a \in [Sigs -> Handlers] /\ b \in BOOLEAN /\ (b \/ ctx[p] = <<>>)
    BY DEF Handlers
  <2> HIDE DEF a, b
  <2>5. t \in Tasks /\ t.ctx = ctx[p] /\ t.sfr = {} /\ t.stray = b
    BY <2>3, <2>4 DEF Tasks
  <2>6. t.at = "ready" /\ t.asked = t.mask
    OBVIOUS
  <2> HIDE DEF t
  <2>7. Kept(t.ctx, t.sfr, t.stray)
    BY <2>3, <2>4, <2>5, NestAssumption DEF Kept
  <2> QED
    BY <2>1, <2>5, <2>6, <2>7 DEF Good, Framed
<1> QED
  BY <1>1, <1>2 DEF IInv

\* No step of a process, of another one or of an interrupt breaks a task.
THEOREM SpecIInv == Spec => []IInv
<1>1. ASSUME IInv, NEW p \in Procs, Step(p) PROVE IInv'
  <2>1. CASE Interrupt(p, Sigs)
    BY <1>1, <2>1, InterruptStep
  <2>2. CASE Preempt(p)
    BY <1>1, <2>2, PreemptStep
  <2>3. CASE Resume(p)
    BY <1>1, <2>3, ResumeStep
  <2>4. CASE Block(p)
    BY <1>1, <2>4, BlockStep
  <2>5. CASE cond_signal(p)
    BY <1>1, <2>5, StateStep DEF cond_signal
  <2>6. CASE BlockResume(p)
    BY <1>1, <2>6, BlockResumeStep
  <2>7. CASE \E s \in Sigs : Sent(p, s)
    BY <1>1, <2>7, SentStep
  <2>8. CASE \E q \in Procs, s \in Sigs : sys_kill(p, q, s)
    BY <1>1, <2>8, KillStep
  <2>9. CASE \E s \in Sigs, a \in Handlers : sys_sigaction(p, s, a)
    BY <1>1, <2>9, SigactionStep
  <2>10. CASE \E how \in Hows, set \in SUBSET Sigs : sys_sigprocmask(p, how, set)
    BY <1>1, <2>10, SigprocmaskStep
  <2>11. CASE \E mask \in SUBSET Sigs : sys_sigsuspend(p, mask)
    BY <1>1, <2>11, SigsuspendStep
  <2>12. CASE SuspendResume(p)
    BY <1>1, <2>12, SuspendResumeStep
  <2>13. CASE sys_sigreturn(p)
    BY <1>1, <2>13, SigreturnStep
  <2>14. CASE sys_execve(p)
    BY <1>1, <2>14, ExecveStep
  <2>15. CASE longjmp(p)
    BY <1>1, <2>15, LongjmpStep
  <2> QED
    BY <1>1, <2>1, <2>2, <2>3, <2>4, <2>5, <2>6, <2>7, <2>8, <2>9, <2>10, <2>11, <2>12,
       <2>13, <2>14, <2>15 DEF Step
<1>2. ASSUME IInv, UNCHANGED vars PROVE IInv'
  BY <1>2 DEF IInv, vars
<1>3. IInv /\ [Next]_vars => IInv'
  BY <1>1, <1>2 DEF Next
<1> QED
  BY <1>3, InitIInv, PTL DEF Spec

\* The fields keep their types, and handlers nest only in sigsuspend and in a
\* child that was forked in one.
THEOREM TypeCorrect == Spec => []TypeOK
<1>1. IInv => TypeOK
  BY DEF IInv, Good, Framed, Kept, TypeOK
<1> QED
  BY <1>1, SpecIInv, PTL

\* In a process that was not forked in a handler and leaves handlers only by
\* returning from them, sigreturn always finds the frame of the code that the
\* handler interrupted.
THEOREM FramesKept == Spec => []FrameExact
<1>1. IInv => FrameExact
  BY DEF IInv, Good, Framed, Kept, FrameExact
<1> QED
  BY <1>1, SpecIInv, PTL

\* sigsuspend never sleeps through a signal.
THEOREM SignalsSeen == Spec => []NoLostSignal
<1>1. IInv => NoLostSignal
  BY DEF IInv, Good, NoLostSignal
<1> QED
  BY <1>1, SpecIInv, PTL

\* sigsuspend gives the mask back, whatever happens meanwhile.
THEOREM MasksKept == Spec => []MaskKept
<1>1. IInv => MaskKept
  BY DEF IInv, Good, MaskKept
<1> QED
  BY <1>1, SpecIInv, PTL
=============================================================================
