------------------------------- MODULE Timer --------------------------------
(***************************************************************************)
(* The timer queue (timer.c) and its three users: sys_alarm, sys_nanosleep *)
(* (with the flush in sys_exit) and the refresh of the screen (tty.c).     *)
(* Every process has an alarm event in its task structure and, while in    *)
(* nanosleep, a sleep event on its stack.  Such an event is in the global  *)
(* queue through its `link` and in the list of its process' timers through *)
(* its `plink`.  refresh_tm belongs to no process; its function puts it    *)
(* back into the queue while timer_update walks along it.  The loop of     *)
(* timer_update is one action per iteration, since it follows the links it *)
(* changes; no other action happens before it ends.  The value that alarm  *)
(* returns and the drawing of the screen are left out.                     *)
(***************************************************************************)
EXTENDS Integers, FiniteSets, Lists

CONSTANTS Procs,     \* the addresses of task structures
          Head,      \* &timer_events
          None,      \* no node
          refresh_tm,  \* the event of the screen
          FirstRefresh, RefreshDelay,  \* its delay at boot, and then, in ticks
          Delays,    \* the ticks that processes ask for
          MaxTick,   \* bound: the last tick, and the last time a process asks for
          WORD       \* 2^32: unsigned long, the type of `expires`

ASSUME ProcsAssumption == IsFiniteSet(Procs) /\ Procs # {}
ASSUME DelaysAssumption == Delays \subseteq Nat /\ MaxTick \in Nat /\ WORD \in Nat \ {0}
ASSUME RefreshAssumption == FirstRefresh \in Nat \ {0} /\ RefreshDelay \in Nat \ {0}

Kinds == {"alarm", "sleep"}
Owned == Procs \X Kinds   \* the events of processes
Events == Owned \cup {refresh_tm}
Nodes == Events \cup {Head}
PNodes == Kinds \cup {"timers"}

ASSUME NodesAssumption ==
  refresh_tm \notin Owned /\ Head \notin Events /\ None \notin Nodes

VARIABLES
  timer_ticks,
  link, plink,  \* plink[p]: the list p->timers and the plinks of p's events
  expires,
  state,
  nap,          \* nap[p]: p is in sys_nanosleep
  curr,         \* the next node in the loop of timer_update, None outside
  due,          \* when the event is due, whatever the width of `expires`;
                \* not in the code
  again         \* some alarm was set while it was in the queue; not in the code

lists == <<link, plink>>
vars == <<timer_ticks, lists, expires, state, nap, curr, due, again>>

Queue == list_nodes(link, Head) \ {Head}
Timers(p) == list_nodes(plink[p], "timers") \ {"timers"}

\* Mutant: timer_event_add does not set the next link of the head.
InitUnlinked ==
  /\ timer_ticks = 0
  /\ link = SetNext(list_insert_before(list_new(Nodes), Head, refresh_tm), Head, None)
  /\ plink = [p \in Procs |-> list_new(PNodes)]
  /\ expires = [e \in Events |-> IF e = refresh_tm THEN FirstRefresh % WORD ELSE 0]
  /\ due = [e \in Events |-> IF e = refresh_tm THEN FirstRefresh ELSE 0]
  /\ \E p \in Procs : state = [r \in Procs |-> IF r = p THEN "RUNNING" ELSE "FREE"]
  /\ nap = [p \in Procs |-> FALSE]
  /\ curr = None /\ again = FALSE

\* After timer_init and tty_init, which queues the refresh of the screen.
Init ==
  /\ timer_ticks = 0
  /\ link = list_insert_before(list_new(Nodes), Head, refresh_tm)
  /\ plink = [p \in Procs |-> list_new(PNodes)]
  /\ expires = [e \in Events |-> IF e = refresh_tm THEN FirstRefresh % WORD ELSE 0]
  /\ due = [e \in Events |-> IF e = refresh_tm THEN FirstRefresh ELSE 0]
  /\ \E p \in Procs : state = [r \in Procs |-> IF r = p THEN "RUNNING" ELSE "FREE"]
  /\ nap = [p \in Procs |-> FALSE]
  /\ curr = None /\ again = FALSE

-----------------------------------------------------------------------------
(* timer.c *)

\* Where the search of timer_event_add for an event that expires at `when`
\* may stop.
Later(e, when) == {f \in Events : f # e /\ expires[f] > when} \cup {Head}

\* timer_event_add on the queue l, of an event that may be linked already.
\* When an event is linked twice the search may go round for ever: then it
\* finds no place, and the step is never made.
timer_event_add(l, e, when) ==
  \E c \in found(l, l.next[Head], Later(e, when)) :
    link' = list_insert_before(l, c, e)

\* The event is set to expire in d ticks.
timer_event_mod(l, e, d) ==
  LET when == (timer_ticks + d) % WORD
  IN  /\ expires' = [expires EXCEPT ![e] = when]
      /\ due' = [due EXCEPT ![e] = timer_ticks + d]
      /\ timer_event_add(l, e, when)

timer_handler ==
  /\ curr = None /\ timer_ticks < MaxTick
  /\ timer_ticks' = timer_ticks + 1
  /\ curr' = link.next[Head]
  /\ UNCHANGED <<lists, expires, state, nap, due, again>>

\* alarm_handler: the event leaves the process' list; SIGALRM wakes the
\* process, unless it is blocked.
alarm_handler(p) ==
  /\ plink' = [plink EXCEPT ![p] = list_delete(@, "alarm")]
  /\ \/ state' = state
     \/ state[p] = "SLEEPING" /\ state' = [state EXCEPT ![p] = "RUNNING"]

\* Mutant: the process is not made runnable.
sleep_timer_handler_quiet(p) == UNCHANGED <<state, plink>>

sleep_timer_handler(p) ==
  state' = [state EXCEPT ![p] = "RUNNING"] /\ UNCHANGED plink

\* Mutant: the event is set to expire, and not put back.
refresh_func_once(l) ==
  /\ link' = l
  /\ expires' = [expires EXCEPT ![refresh_tm] = (timer_ticks + RefreshDelay) % WORD]
  /\ due' = [due EXCEPT ![refresh_tm] = timer_ticks + RefreshDelay]
  /\ UNCHANGED <<plink, state>>

\* refresh_func puts its own event back into the queue.
refresh_func(l) ==
  timer_event_mod(l, refresh_tm, RefreshDelay) /\ UNCHANGED <<plink, state>>

\* The function of the event e, called with the queue l.
tm_func(e, l) ==
  \/ e = refresh_tm /\ refresh_func(l)
  \/ /\ e \in Owned /\ link' = l /\ UNCHANGED <<expires, due>>
     /\ IF e[2] = "alarm" THEN alarm_handler(e[1]) ELSE sleep_timer_handler(e[1])

\* Mutant: the next node is taken after the event was unlinked.
timer_update_late ==
  /\ curr \in Events
  /\ IF expires[curr] <= timer_ticks
       THEN tm_func(curr, list_delete(link, curr)) /\ curr' = link'.next[curr]
       ELSE curr' = link.next[curr] /\ UNCHANGED <<lists, expires, due, state>>
  /\ UNCHANGED <<timer_ticks, nap, again>>

\* Mutant: an event that expires now waits for the next tick.
timer_update_strict ==
  /\ curr \in Events
  /\ curr' = link.next[curr]
  /\ IF expires[curr] < timer_ticks
       THEN tm_func(curr, list_delete(link, curr))
       ELSE UNCHANGED <<lists, expires, due, state>>
  /\ UNCHANGED <<timer_ticks, nap, again>>

\* One iteration of the loop.
timer_update ==
  /\ curr \in Events
  /\ curr' = link.next[curr]
  /\ IF expires[curr] <= timer_ticks
       THEN tm_func(curr, list_delete(link, curr))
       ELSE UNCHANGED <<lists, expires, due, state>>
  /\ UNCHANGED <<timer_ticks, nap, again>>

timer_update_end ==
  /\ curr = Head /\ curr' = None
  /\ UNCHANGED <<timer_ticks, lists, expires, state, nap, due, again>>

-----------------------------------------------------------------------------
(* System calls *)

InUser(p) == curr = None /\ state[p] = "RUNNING" /\ ~nap[p]

\* sys_alarm with a delay: an event that is still queued is queued again.
sys_alarm(p, d) ==
  LET e == <<p, "alarm">>
  IN  /\ InUser(p) /\ d > 0 /\ timer_ticks + d < MaxTick
      /\ timer_event_mod(link, e, d)
      /\ plink' = IF list_empty(plink[p], "alarm")
                    THEN [plink EXCEPT ![p] = list_insert_before(@, "timers", "alarm")]
                    ELSE plink
      /\ again' = (again \/ ~list_empty(link, e))
      /\ UNCHANGED <<timer_ticks, state, nap, curr>>

\* sys_alarm(0).
alarm_cancel(p) ==
  LET e == <<p, "alarm">>
  IN  /\ InUser(p)
      /\ link' = IF list_empty(link, e) THEN link ELSE list_delete(link, e)
      /\ plink' = IF list_empty(plink[p], "alarm") THEN plink
                  ELSE [plink EXCEPT ![p] = list_delete(@, "alarm")]
      /\ UNCHANGED <<timer_ticks, expires, state, nap, curr, due, again>>

\* sys_nanosleep up to its scheduler().
sys_nanosleep(p, d) ==
  /\ InUser(p) /\ timer_ticks + d < MaxTick
  /\ state' = [state EXCEPT ![p] = "SLEEPING"]
  /\ nap' = [nap EXCEPT ![p] = TRUE]
  /\ timer_event_mod(link, <<p, "sleep">>, d)
  /\ plink' = [plink EXCEPT ![p] = list_insert_before(@, "timers", "sleep")]
  /\ UNCHANGED <<timer_ticks, curr, again>>

\* Mutant: the event of a sleep that was interrupted stays queued.
nanosleep_resume_linked(p) ==
  /\ curr = None /\ nap[p] /\ state[p] = "RUNNING"
  /\ nap' = [nap EXCEPT ![p] = FALSE]
  /\ plink' = [plink EXCEPT ![p] = list_delete(@, "sleep")]
  /\ expires' = [expires EXCEPT ![<<p, "sleep">>] = 0]
  /\ due' = [due EXCEPT ![<<p, "sleep">>] = 0]
  /\ UNCHANGED <<timer_ticks, link, state, curr, again>>

\* sys_nanosleep from its scheduler() on.  The event is gone with the stack frame.
nanosleep_resume(p) ==
  /\ curr = None /\ nap[p] /\ state[p] = "RUNNING"
  /\ nap' = [nap EXCEPT ![p] = FALSE]
  /\ link' = list_delete(link, <<p, "sleep">>)
  /\ plink' = [plink EXCEPT ![p] = list_delete(@, "sleep")]
  /\ expires' = [expires EXCEPT ![<<p, "sleep">>] = 0]
  /\ due' = [due EXCEPT ![<<p, "sleep">>] = 0]
  /\ UNCHANGED <<timer_ticks, state, curr, again>>

\* A signal interrupts the sleep (task_signal).
Signal(p) ==
  /\ curr = None /\ state[p] = "SLEEPING"
  /\ state' = [state EXCEPT ![p] = "RUNNING"]
  /\ UNCHANGED <<timer_ticks, lists, expires, nap, curr, due, again>>

\* sys_exit takes all the timers of the process out of both lists.
sys_exit(p) ==
  LET l1 == IF "alarm" \in Timers(p) THEN list_delete(link, <<p, "alarm">>) ELSE link
      l2 == IF "sleep" \in Timers(p) THEN list_delete(l1, <<p, "sleep">>) ELSE l1
  IN  /\ InUser(p)
      /\ link' = l2
      /\ plink' = [plink EXCEPT ![p] = list_new(PNodes)]
      /\ state' = [state EXCEPT ![p] = "ZOMBIE"]
      /\ UNCHANGED <<timer_ticks, expires, nap, curr, due, again>>

\* Some parent reaps p, and some process forks one at that address.
Reap(p) ==
  /\ curr = None /\ state[p] = "ZOMBIE"
  /\ state' = [state EXCEPT ![p] = "FREE"]
  /\ UNCHANGED <<timer_ticks, lists, expires, nap, curr, due, again>>

Fork(p) ==
  /\ curr = None /\ state[p] = "FREE"
  /\ state' = [state EXCEPT ![p] = "RUNNING"]
  /\ plink' = [plink EXCEPT ![p] = list_init(@, "timers")]
  /\ expires' = [expires EXCEPT ![<<p, "alarm">>] = 0]
  /\ due' = [due EXCEPT ![<<p, "alarm">>] = 0]
  /\ UNCHANGED <<timer_ticks, link, nap, curr, again>>

Update == timer_update \/ timer_update_end

Next ==
  \/ timer_handler \/ Update
  \/ \E p \in Procs :
       \/ alarm_cancel(p) \/ nanosleep_resume(p) \/ Signal(p)
       \/ sys_exit(p) \/ Reap(p) \/ Fork(p)
       \/ \E d \in Delays : sys_alarm(p, d) \/ sys_nanosleep(p, d)

Spec == Init /\ [][Next]_vars

\* The timer ticks, and timer_update runs on.
FairSpec == Spec /\ WF_vars(timer_handler) /\ WF_vars(Update)

\* The states that properties with the hypothesis ~again speak of, for TLC.
Once == ~again

-----------------------------------------------------------------------------
(* Properties *)

TypeOK ==
  /\ timer_ticks \in Nat
  /\ link \in Links(Nodes) /\ plink \in [Procs -> Links(PNodes)]
  /\ expires \in [Events -> Nat] /\ due \in [Events -> Nat]
  /\ nap \in [Procs -> BOOLEAN] /\ again \in BOOLEAN
  /\ state \in [Procs -> {"FREE", "RUNNING", "SLEEPING", "ZOMBIE"}]
  /\ curr \in Nodes \cup {None}

\* As long as no alarm is set while it is pending, every event of a process
\* in the global queue is also in the list of that process, which has neither
\* exited nor been freed: the flush in sys_exit leaves none behind, and no timer
\* wakes a zombie or writes into a freed structure or stack.
QueueOwned ==
  LET Q == Queue
  IN  ~again =>
    \A p \in Procs, k \in Kinds :
      <<p, k>> \in Q =>
        /\ k \in Timers(p) /\ state[p] \in {"RUNNING", "SLEEPING"}
        /\ k = "sleep" => nap[p]

\* As long as no alarm is set while it is pending, the queue is one well linked
\* ring and an event outside of it is linked to nothing, also in the middle of
\* timer_update, whose functions unlink events and put refresh_tm back: the loop
\* always continues at a node of the queue.
QueueIntact ==
  LET Q == Queue
  IN  ~again =>
    /\ Linked(link, Nodes)
    /\ \A e \in Events \ Q : list_empty(link, e)
    /\ curr \in Q \cup {Head, None}

\* As long as no alarm is set while it is pending, the refresh of the screen
\* goes on: whatever processes do to their own events, refresh_tm stays in the
\* queue.
RefreshKept == ~again => refresh_tm \in Queue

\* When timer_update has reached the end of the queue it has left no event
\* behind that is due, though functions of events change the queue under it;
\* and the event of a process that sleeps in nanosleep is in the queue.
OnTime ==
  LET Q == Queue
  IN  ~again =>
    /\ curr = Head => \A e \in Q : due[e] > timer_ticks
    /\ \A p \in Procs : state[p] = "SLEEPING" => <<p, "sleep">> \in Q

\* timer.h:64: "The event will be fired after the delay specified with the init
\* function."  timer_update takes no event from the queue before it is due.
NotEarly ==
  [][\A e \in Events : curr = e /\ list_empty(link', e) => due[e] <= timer_ticks]_vars

\* Every tick ends, though refresh_func puts an event into the queue that the
\* loop walks along: the loop comes to the head of the queue, unless an alarm is
\* set while it is pending.
UpdateEnds == curr # None ~> curr = None \/ again

\* A process does not sleep for ever in nanosleep.
SleepEnds == \A p \in Procs : state[p] = "SLEEPING" ~> state[p] # "SLEEPING"

\* A process does not sleep for ever in nanosleep, unless an alarm is set while
\* it is pending.
SleepEndsOnce == \A p \in Procs : state[p] = "SLEEPING" ~> state[p] # "SLEEPING" \/ again
=============================================================================
