-------------------------------- MODULE Pipe --------------------------------
(***************************************************************************)
(* The pipe of kernel/src/ipc/pipe.c: a ring buffer of DATA_SIZE cells,    *)
(* one condition variable shared by readers and writers (sync/cond.c), and *)
(* the two open files whose last close wakes the other end (sys_close.c).  *)
(*                                                                         *)
(* The kernel is not preemptible: from one scheduler() call to the next a  *)
(* process runs alone.  The spinlock pnode->queue.lock is held over just   *)
(* those stretches of pipe_read and pipe_write, so the actions below are   *)
(* the iterations of their loops and `lock` keeps other processes out.     *)
(***************************************************************************)
EXTENDS Naturals, Sequences, FiniteSets

CONSTANTS Procs,      \* the processes that share the pipe
          None,       \* no process (a free spinlock)
          Byte,       \* the values of a byte
          PIPE_SIZE,  \* PIPE_BUF, the capacity in bytes
          Inputs      \* the buffers and lengths that user code passes

ASSUME ProcsAssumption == IsFiniteSet(Procs) /\ None \notin Procs
ASSUME SizeAssumption == PIPE_SIZE \in Nat \ {0}
ASSUME ByteAssumption == 0 \in Byte
ASSUME InputsAssumption == Inputs \subseteq Seq(Byte)

DATA_SIZE == PIPE_SIZE + 1

VARIABLES
  nrp, nwp,        \* next read and next write position
  data,            \* the ring
  queued_readers, queued_writers,
  ref,             \* base.ref of the inode
  fref,            \* fref[e]: ref of the open file of end e
  fds,             \* fds[p]: the ends p has open
  live,            \* the processes forked so far
  lock, queue,     \* the condition variable: spinlock and waiting tasks
  state,           \* state[p]: TASK_RUNNING or TASK_SLEEPING
  pc,              \* where p is: user code, in a loop, or in its cond_wait
  count, left, buf \* arguments and locals of the call p is in

ring == <<nrp, nwp, data>>
files == <<ref, fref, fds, live>>
cond == <<queued_readers, queued_writers, queue, state>>
args == <<count, left, buf>>
vars == <<ring, files, cond, lock, pc, args>>

Ends == {"r", "w"}
Empty == nrp = nwp
Full == nwp + 1 = nrp \/ (nwp + 1 = DATA_SIZE /\ nrp = 0)

Minimum(a, b) == IF a < b THEN a ELSE b
\* Mutant: the position is not wrapped at the end of the ring.
NoWrap(i) == i

Wrap(i) == IF i = DATA_SIZE THEN 0 ELSE i

(***************************************************************************)
(* pipe_create by the first process: ref is 2 from pipe_inode_create and   *)
(* one more from idup; the two files are held by one descriptor each.      *)
(***************************************************************************)
Init ==
  /\ nrp = 0 /\ nwp = 0 /\ data = [i \in 0 .. PIPE_SIZE |-> 0]
  /\ queued_readers = 0 /\ queued_writers = 0
  /\ ref = 3
  /\ fref = [e \in Ends |-> 1]
  /\ \E p \in Procs :
       /\ live = {p}
       /\ fds = [r \in Procs |-> IF r = p THEN Ends ELSE {}]
  /\ lock = None /\ queue = {}
  /\ state = [p \in Procs |-> "RUNNING"]
  /\ pc = [p \in Procs |-> "user"]
  /\ count = [p \in Procs |-> 0]
  /\ left = [p \in Procs |-> 0]
  /\ buf = [p \in Procs |-> <<>>]

-----------------------------------------------------------------------------
\* cond_broadcast: every waiting task leaves the queue and becomes runnable.
Woken == [p \in Procs |-> IF p \in queue THEN "RUNNING" ELSE state[p]]

cond_broadcast == queue' = {} /\ state' = Woken

\* An optional cond_broadcast, then cond_wait by p; the queue lock is
\* released and p is off the CPU.
BroadcastAndWait(p, notify) ==
  /\ queue' = (IF notify THEN {} ELSE queue) \cup {p}
  /\ state' = [(IF notify THEN Woken ELSE state) EXCEPT ![p] = "SLEEPING"]
  /\ lock' = None

\* A call returns to user code, waking the queue if `notify`; its locals are
\* gone.
Return(p, notify) ==
  /\ lock' = None
  /\ count' = [count EXCEPT ![p] = 0]
  /\ left' = [left EXCEPT ![p] = 0]
  /\ buf' = [buf EXCEPT ![p] = <<>>]
  /\ pc' = [pc EXCEPT ![p] = "user"]
  /\ IF notify THEN cond_broadcast ELSE UNCHANGED <<queue, state>>
  /\ UNCHANGED <<queued_readers, queued_writers>>

\* cond_wait returns: p runs again and takes the lock back.
Resume(p, waiting, running) ==
  /\ pc[p] = waiting /\ state[p] = "RUNNING" /\ lock = None
  /\ lock' = p
  /\ pc' = [pc EXCEPT ![p] = running]
  /\ UNCHANGED <<ring, files, queue, state, args>>

InLoop(p, where) == lock = p /\ pc[p] = where

-----------------------------------------------------------------------------
(* pipe_read *)

\* sys_read does not look at the access mode: either end will do.
ReadCall(p, n) ==
  /\ pc[p] = "user" /\ lock = None /\ fds[p] # {}
  /\ lock' = p
  /\ pc' = [pc EXCEPT ![p] = "read"]
  /\ count' = [count EXCEPT ![p] = n]
  /\ left' = [left EXCEPT ![p] = n]
  /\ buf' = [buf EXCEPT ![p] = <<>>]
  /\ UNCHANGED <<ring, files, cond>>

ReadSpan(p) ==
  IF nrp < nwp THEN Minimum(left[p], nwp - nrp)
               ELSE Minimum(left[p], DATA_SIZE - nrp)

ReadCopy(p) ==
  LET n == ReadSpan(p)
  IN  /\ InLoop(p, "read") /\ left[p] > 0 /\ ~Empty
      /\ buf' = [buf EXCEPT ![p] = @ \o [i \in 1 .. n |-> data[nrp + i - 1]]]
      /\ nrp' = Wrap(nrp + n)
      /\ left' = [left EXCEPT ![p] = @ - n]
      /\ UNCHANGED <<nwp, data, files, cond, lock, pc, count>>

\* Empty ring: end of file when nobody else refers to the inode, what was
\* read so far when no writer is queued, or else sleep.
ReadEmpty(p) ==
  /\ InLoop(p, "read") /\ left[p] > 0 /\ Empty
  /\ IF ref = 1 THEN Return(p, FALSE)
     ELSE IF left[p] # count[p] /\ queued_writers = 0 THEN Return(p, TRUE)
     ELSE /\ queued_readers' = queued_readers + 1
          /\ BroadcastAndWait(p, queued_writers > 0)
          /\ pc' = [pc EXCEPT ![p] = "rwait"]
          /\ UNCHANGED <<queued_writers, args>>
  /\ UNCHANGED <<ring, files>>

\* Mutant: the woken reader stays counted.
ReadResumeCounted(p) == Resume(p, "rwait", "read") /\ UNCHANGED <<queued_readers, queued_writers>>

ReadResume(p) ==
  /\ Resume(p, "rwait", "read")
  /\ queued_readers' = queued_readers - 1
  /\ UNCHANGED queued_writers

\* Mutant: the reader makes room without waking the writers.
ReadDoneSilent(p) ==
  InLoop(p, "read") /\ left[p] = 0 /\ Return(p, FALSE) /\ UNCHANGED <<ring, files>>

ReadDone(p) ==
  /\ InLoop(p, "read") /\ left[p] = 0
  /\ Return(p, count[p] > 0 \/ (ref = 1 /\ queued_writers > 0))
  /\ UNCHANGED <<ring, files>>

-----------------------------------------------------------------------------
(* pipe_write *)

WriteCall(p, s) ==
  /\ pc[p] = "user" /\ lock = None /\ fds[p] # {}
  /\ lock' = p
  /\ pc' = [pc EXCEPT ![p] = "write"]
  /\ count' = [count EXCEPT ![p] = Len(s)]
  /\ left' = [left EXCEPT ![p] = Len(s)]
  /\ buf' = [buf EXCEPT ![p] = s]
  /\ UNCHANGED <<ring, files, cond>>

\* Mutant: the unused cell is forgotten when the free part ends the ring.
WriteSpanAll(p) ==
  IF nrp <= nwp THEN Minimum(left[p], DATA_SIZE - nwp) ELSE Minimum(left[p], nrp - nwp - 1)

WriteSpan(p) ==
  LET n == Minimum(left[p], DATA_SIZE - nwp)
  IN  IF nrp <= nwp THEN IF nwp + n = DATA_SIZE /\ nrp = 0 THEN n - 1 ELSE n
                    ELSE Minimum(left[p], nrp - nwp - 1)

WriteCopy(p) ==
  LET n == WriteSpan(p)
      done == count[p] - left[p]
  IN  /\ InLoop(p, "write") /\ left[p] > 0 /\ ~Full
      /\ data' = [i \in 0 .. PIPE_SIZE |->
                    IF i \in nwp .. nwp + n - 1
                      THEN buf[p][done + (i - nwp) + 1] ELSE data[i]]
      /\ nwp' = Wrap(nwp + n)
      /\ left' = [left EXCEPT ![p] = @ - n]
      /\ UNCHANGED <<nrp, files, cond, lock, pc, count, buf>>

\* Mutant: a writer goes to sleep without waking the readers it has fed.
WriteFullSilent(p) ==
  /\ InLoop(p, "write") /\ left[p] > 0 /\ Full
  /\ queued_writers' = queued_writers + 1
  /\ BroadcastAndWait(p, FALSE)
  /\ pc' = [pc EXCEPT ![p] = "wwait"]
  /\ UNCHANGED <<queued_readers, args, ring, files>>

\* Full ring: EPIPE (and SIGPIPE) when nobody else refers to the inode, or
\* else sleep.
WriteFull(p) ==
  /\ InLoop(p, "write") /\ left[p] > 0 /\ Full
  /\ IF ref = 1 THEN Return(p, FALSE)
     ELSE /\ queued_writers' = queued_writers + 1
          /\ BroadcastAndWait(p, queued_readers > 0)
          /\ pc' = [pc EXCEPT ![p] = "wwait"]
          /\ UNCHANGED <<queued_readers, args>>
  /\ UNCHANGED <<ring, files>>

WriteResume(p) ==
  /\ Resume(p, "wwait", "write")
  /\ queued_writers' = queued_writers - 1
  /\ UNCHANGED queued_readers

WriteDone(p) ==
  /\ InLoop(p, "write") /\ left[p] = 0
  /\ Return(p, count[p] > 0 \/ (ref = 1 /\ queued_readers > 0))
  /\ UNCHANGED <<ring, files>>

-----------------------------------------------------------------------------
(* Descriptors and signals *)

\* Mutant: the child's descriptors are not counted.
ForkUncounted(p, c) ==
  /\ pc[p] = "user" /\ lock = None /\ p \in live /\ c \notin live
  /\ live' = live \cup {c}
  /\ fds' = [fds EXCEPT ![c] = fds[p]]
  /\ UNCHANGED <<ring, ref, fref, cond, lock, pc, args>>

\* The child gets the parent's descriptors (task_init).
Fork(p, c) ==
  /\ pc[p] = "user" /\ lock = None /\ p \in live /\ c \notin live
  /\ live' = live \cup {c}
  /\ fds' = [fds EXCEPT ![c] = fds[p]]
  /\ fref' = [e \in Ends |-> IF e \in fds[p] THEN fref[e] + 1 ELSE fref[e]]
  /\ UNCHANGED <<ring, ref, cond, lock, pc, args>>

\* The last close of an end writes zero bytes to the inode, to wake the other
\* end, and drops the dentry, which does not touch the inode's count.
Close(p, e) ==
  /\ pc[p] = "user" /\ lock = None /\ e \in fds[p]
  /\ fds' = [fds EXCEPT ![p] = @ \ {e}]
  /\ fref' = [fref EXCEPT ![e] = @ - 1]
  /\ IF fref[e] = 1 /\ ref = 1 /\ queued_readers > 0
       THEN cond_broadcast ELSE UNCHANGED <<queue, state>>
  /\ UNCHANGED <<ring, ref, live, queued_readers, queued_writers, lock, pc, args>>

\* An unmasked signal takes a sleeping task off the queue (task_signal).
Signal(p) ==
  /\ lock = None /\ state[p] = "SLEEPING"
  /\ queue' = queue \ {p}
  /\ state' = [state EXCEPT ![p] = "RUNNING"]
  /\ UNCHANGED <<ring, files, queued_readers, queued_writers, lock, pc, args>>

-----------------------------------------------------------------------------
Reading(p) ==
  \/ \E s \in Inputs : ReadCall(p, Len(s))
  \/ ReadCopy(p) \/ ReadEmpty(p) \/ ReadResume(p) \/ ReadDone(p)

Writing(p) ==
  \/ \E s \in Inputs : WriteCall(p, s)
  \/ WriteCopy(p) \/ WriteFull(p) \/ WriteResume(p) \/ WriteDone(p)

Next ==
  \E p \in Procs :
    \/ Reading(p) \/ Writing(p) \/ Signal(p)
    \/ \E c \in Procs : Fork(p, c)
    \/ \E e \in Ends : Close(p, e)

Spec == Init /\ [][Next]_vars

(***************************************************************************)
(* Fairness: the scheduler is round robin, so a runnable process gets the  *)
(* CPU again and again and, the kernel being non-preemptible, always finds *)
(* the lock free; inside the kernel it runs on.  Nothing is assumed of     *)
(* what user code calls, nor of signals.                                   *)
(***************************************************************************)
InKernel(p) ==
  ReadCopy(p) \/ ReadEmpty(p) \/ ReadDone(p) \/ WriteCopy(p) \/ WriteFull(p) \/ WriteDone(p)

FairSpec ==
  /\ Spec
  /\ \A p \in Procs : WF_vars(InKernel(p)) /\ SF_vars(ReadResume(p) \/ WriteResume(p))

-----------------------------------------------------------------------------
(* Properties *)

TypeOK ==
  /\ nrp \in 0 .. PIPE_SIZE /\ nwp \in 0 .. PIPE_SIZE
  /\ data \in [0 .. PIPE_SIZE -> Byte]
  /\ queued_readers \in Nat /\ queued_writers \in Nat
  /\ ref \in Nat /\ fref \in [Ends -> Nat]
  /\ fds \in [Procs -> SUBSET Ends] /\ live \subseteq Procs
  /\ lock \in Procs \cup {None} /\ queue \subseteq Procs
  /\ state \in [Procs -> {"RUNNING", "SLEEPING"}]
  /\ pc \in [Procs -> {"user", "read", "rwait", "write", "wwait"}]
  /\ count \in [Procs -> Nat] /\ left \in [Procs -> Nat]
  /\ buf \in [Procs -> Seq(Byte)]
  /\ \A p \in Procs : left[p] <= count[p]
  /\ \A p \in Procs : pc[p] \in {"write", "wwait"} => count[p] = Len(buf[p])

Sleeping(p, where) == pc[p] = where /\ state[p] = "SLEEPING"

\* No lost wakeup.  Whenever no call is in progress, a reader is asleep only
\* on an empty ring and a writer only on a full one, although pipe_read and
\* pipe_write wake the queue only after the whole transfer, or before they
\* sleep themselves and only if they see a queued task of the other kind.
NoLostWakeup ==
  lock = None =>
    /\ (\E p \in Procs : Sleeping(p, "rwait")) => Empty
    /\ (\E p \in Procs : Sleeping(p, "wwait")) => Full

\* queued_readers and queued_writers count the calls that are in their
\* cond_wait, the ones already woken but not yet run again included: this is
\* what the tests of the other side (pipe.c:89 and 150) rely on.
QueuedCounts ==
  /\ queued_readers = Cardinality({p \in Procs : pc[p] = "rwait"})
  /\ queued_writers = Cardinality({p \in Procs : pc[p] = "wwait"})

\* The count of an open file is the number of processes that hold it, through
\* every fork and close: its last close, and no other, frees the file.
FilesCounted ==
  \A e \in Ends : fref[e] = Cardinality({p \in Procs : e \in fds[p]})

\* The bytes in the ring, oldest first.
Contents ==
  LET used == IF nrp <= nwp THEN nwp - nrp ELSE DATA_SIZE - nrp + nwp
  IN  [i \in 1 .. used |-> data[(nrp + i - 1) % DATA_SIZE]]

Call(p) ==
  CASE pc[p] = "rwait" -> "read"
    [] pc[p] = "wwait" -> "write"
    [] OTHER -> pc[p]

\* The ring buffer, with its two indices, its wrap-around and its one unused
\* cell, behaves like a bounded FIFO queue of bytes: pipe_read and pipe_write
\* lose, duplicate and reorder nothing, no write is short, and no read of a
\* pipe with a write end open returns empty-handed.
Fifo ==
  INSTANCE PipeFifo WITH q <- Contents, call <- [p \in Procs |-> Call(p)]

FifoSpec == Fifo!Spec

Writer(p) == pc[p] \in {"write", "wwait"}
Reader(p) == pc[p] \in {"read", "rwait"}

\* A reader and a writer are never stuck together: as long as both wait, each
\* can feed or drain the other, so one of the two calls comes back.
Progress ==
  \A p, r \in Procs : Reader(p) /\ Writer(r) ~> ~Reader(p) \/ ~Writer(r)

\* pipe.c:54: "If we read from a pipe whose write end has been closed, read
\* returns 0 to indicate an end of file after all the data has been read."
\* A reader that waits on a pipe whose write end nobody holds comes back.
EndOfFile ==
  \A p \in Procs :
    (Reader(p) /\ Empty /\ \A r \in Procs : "w" \notin fds[r]) ~> ~Reader(p)
=============================================================================
