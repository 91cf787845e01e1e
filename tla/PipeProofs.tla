----------------------------- MODULE PipeProofs -----------------------------
(***************************************************************************)
(* NoLostWakeup and QueuedCounts of module Pipe, for any number of         *)
(* processes, any capacity and any reads and writes.                       *)
(***************************************************************************)
EXTENDS Pipe, FiniteSetTheorems, TLAPS

\* The inode count stays where pipe_create leaves it.
RefInv == ref = 3

\* Sleeping tasks are the queued ones, and they are inside a cond_wait.
QueueInv ==
  \A p \in Procs :
    /\ p \in queue <=> state[p] = "SLEEPING"
    /\ p \in queue => pc[p] \in {"rwait", "wwait"}

\* A task in one of the loops holds the lock.
LockInv == \A p \in Procs : lock = p <=> pc[p] \in {"read", "write"}

\* NoLostWakeup at every step, also while a call holds the lock: then a task
\* may be asleep on a ring that is no longer empty (full), but the call has
\* moved something and will therefore wake the queue.
WakeInv ==
  \A p \in Procs : p \in queue =>
    /\ pc[p] = "rwait" =>
         Empty \/ \E w \in Procs : lock = w /\ pc[w] = "write" /\ left[w] < count[w]
    /\ pc[p] = "wwait" =>
         Full \/ \E r \in Procs : lock = r /\ pc[r] = "read" /\ left[r] < count[r]

\* A process that is not forked yet has no descriptors.
LiveInv == \A p \in Procs : p \notin live => fds[p] = {}

FilesInv == FilesCounted /\ LiveInv

IInv == TypeOK /\ RefInv /\ FilesInv /\ QueueInv /\ LockInv /\ QueuedCounts /\ WakeInv

-----------------------------------------------------------------------------
(* What one iteration of a loop may move. *)

\* pipe_read copies at least one byte and stays inside the ring.
LEMMA ReadSpanBounds ==
  ASSUME TypeOK, NEW p \in Procs, left[p] > 0, ~Empty
  PROVE  /\ ReadSpan(p) \in 1 .. left[p]
         /\ nrp + ReadSpan(p) \in 0 .. DATA_SIZE
  BY SizeAssumption DEF TypeOK, Empty, ReadSpan, Minimum, DATA_SIZE

\* pipe_write copies at least one byte, also when the last cell must stay
\* free, and stays inside the ring.
LEMMA WriteSpanBounds ==
  ASSUME TypeOK, NEW p \in Procs, left[p] > 0, ~Full
  PROVE  /\ WriteSpan(p) \in 1 .. left[p]
         /\ nwp + WriteSpan(p) \in 0 .. DATA_SIZE
  BY SizeAssumption DEF TypeOK, Full, WriteSpan, Minimum, DATA_SIZE

LEMMA WrapType ==
  ASSUME NEW i \in 0 .. DATA_SIZE
  PROVE  Wrap(i) \in 0 .. PIPE_SIZE
  BY SizeAssumption DEF Wrap, DATA_SIZE

-----------------------------------------------------------------------------
(* Counting the processes that are at one place. *)

At(f, where) == {p \in Procs : f[p] = where}

LEMMA CountsAt ==
  QueuedCounts <=> /\ queued_readers = Cardinality(At(pc, "rwait"))
                   /\ queued_writers = Cardinality(At(pc, "wwait"))
  BY DEF QueuedCounts, At

LEMMA AtFinite ==
  ASSUME NEW f, NEW where
  PROVE  IsFiniteSet(At(f, where)) /\ Cardinality(At(f, where)) \in Nat
  <1>1. IsFiniteSet(At(f, where))
    BY ProcsAssumption, FS_Subset DEF At
  <1> QED BY <1>1, FS_CardinalityType

\* A process that is at a place makes its count positive.
LEMMA AtPositive ==
  ASSUME NEW f, NEW where, NEW p \in Procs, f[p] = where
  PROVE  Cardinality(At(f, where)) > 0
  <1>1. At(f, where) # {}
    BY DEF At
  <1>2. Cardinality(At(f, where)) # 0
    BY <1>1, AtFinite, FS_EmptySet
  <1> QED BY <1>2, AtFinite

\* A process that enters a place, leaves it, or does neither.
LEMMA AtEnter ==
  ASSUME NEW f, NEW g, NEW p \in Procs, \A r \in Procs \ {p} : g[r] = f[r],
         NEW where, f[p] # where, g[p] = where
  PROVE  Cardinality(At(g, where)) = Cardinality(At(f, where)) + 1
  <1>1. At(g, where) = At(f, where) \cup {p} /\ p \notin At(f, where)
    BY DEF At
  <1> QED BY <1>1, AtFinite, FS_AddElement

LEMMA AtLeave ==
  ASSUME NEW f, NEW g, NEW p \in Procs, \A r \in Procs \ {p} : g[r] = f[r],
         NEW where, f[p] = where, g[p] # where
  PROVE  Cardinality(At(g, where)) = Cardinality(At(f, where)) - 1
  <1>1. At(g, where) = At(f, where) \ {p} /\ p \in At(f, where)
    BY DEF At
  <1> QED BY <1>1, AtFinite, FS_RemoveElement

LEMMA AtStay ==
  ASSUME NEW f, NEW g, NEW p \in Procs, \A r \in Procs \ {p} : g[r] = f[r],
         NEW where, f[p] # where, g[p] # where
  PROVE  At(g, where) = At(f, where)
  BY DEF At

\* The same for the processes that hold an end of the pipe.
Held(f, e) == {p \in Procs : e \in f[p]}

LEMMA HeldFinite ==
  ASSUME NEW f, NEW e
  PROVE  IsFiniteSet(Held(f, e)) /\ Cardinality(Held(f, e)) \in Nat
  <1>1. IsFiniteSet(Held(f, e))
    BY ProcsAssumption, FS_Subset DEF Held
  <1> QED BY <1>1, FS_CardinalityType

LEMMA HeldPositive ==
  ASSUME NEW f, NEW e, NEW p \in Procs, e \in f[p]
  PROVE  Cardinality(Held(f, e)) > 0
  <1>1. Held(f, e) # {}
    BY DEF Held
  <1> QED BY <1>1, HeldFinite, FS_EmptySet

LEMMA HeldMove ==
  ASSUME NEW f, NEW g, NEW p \in Procs, \A r \in Procs \ {p} : g[r] = f[r], NEW e
  PROVE  Cardinality(Held(g, e)) =
           IF e \in f[p] /\ e \notin g[p] THEN Cardinality(Held(f, e)) - 1
           ELSE IF e \notin f[p] /\ e \in g[p] THEN Cardinality(Held(f, e)) + 1
           ELSE Cardinality(Held(f, e))
  <1>1. CASE e \in f[p] /\ e \notin g[p]
    <2>1. Held(g, e) = Held(f, e) \ {p} /\ p \in Held(f, e)
      BY <1>1 DEF Held
    <2> QED BY <1>1, <2>1, HeldFinite, FS_RemoveElement
  <1>2. CASE e \notin f[p] /\ e \in g[p]
    <2>1. Held(g, e) = Held(f, e) \cup {p} /\ p \notin Held(f, e)
      BY <1>2 DEF Held
    <2> QED BY <1>2, <2>1, HeldFinite, FS_AddElement
  <1>3. CASE e \in f[p] <=> e \in g[p]
    <2>1. Held(g, e) = Held(f, e)
      BY <1>3 DEF Held
    <2> QED BY <1>3, <2>1
  <1> QED BY <1>1, <1>2, <1>3

LEMMA FilesKept ==
  ASSUME FilesInv, UNCHANGED files
  PROVE  FilesInv'
  BY DEF FilesInv, FilesCounted, LiveInv, files

-----------------------------------------------------------------------------
(* The steps, one lemma for each kind of action. *)

\* Moving bytes out of the ring.
LEMMA ReadCopyStep ==
  ASSUME IInv, NEW p \in Procs, ReadCopy(p)
  PROVE  IInv'
  <1> DEFINE n == ReadSpan(p)
  <1> USE DEF IInv
  <1>1. /\ lock = p /\ pc[p] = "read" /\ left[p] > 0 /\ ~Empty
        /\ UNCHANGED <<nwp, data, files, cond, lock, pc, count>>
    BY DEF ReadCopy, InLoop
  <1>2. n \in 1 .. left[p] /\ nrp + n \in 0 .. DATA_SIZE
    BY <1>1, ReadSpanBounds
  <1>3. TypeOK'
    <2>1. nrp' \in 0 .. PIPE_SIZE
      BY <1>2, WrapType DEF ReadCopy
    <2>2. left' = [left EXCEPT ![p] = @ - n] /\ left[p] - n \in Nat /\ left[p] - n <= count[p]
      BY <1>2 DEF ReadCopy, TypeOK
    <2>3. \A i \in 1 .. n : data[nrp + i - 1] \in Byte
      BY <1>2, SizeAssumption DEF TypeOK, DATA_SIZE
    <2>4. [i \in 1 .. n |-> data[nrp + i - 1]] \in Seq(Byte)
      BY <1>2, <2>3
    <2>5. buf[p] \o [i \in 1 .. n |-> data[nrp + i - 1]] \in Seq(Byte)
      <3>1. \A s, t \in Seq(Byte) : s \o t \in Seq(Byte)
        OBVIOUS
      <3> QED BY <2>4, <3>1 DEF TypeOK
    <2>6. buf' \in [Procs -> Seq(Byte)] /\ \A r \in Procs : r # p => buf'[r] = buf[r]
      BY <2>5 DEF ReadCopy, TypeOK
    <2> QED BY <1>1, <2>1, <2>2, <2>6 DEF TypeOK, files, cond
  <1>4. RefInv' /\ QueueInv' /\ LockInv' /\ QueuedCounts'
    BY <1>1 DEF RefInv, QueueInv, LockInv, QueuedCounts, files, cond
  <1>5. left'[p] < count'[p]
    BY <1>1, <1>2 DEF ReadCopy, TypeOK
  <1>6. WakeInv'
    BY <1>1, <1>5 DEF WakeInv, cond
  <1>7. FilesInv'
    BY <1>1, FilesKept
  <1> QED BY <1>3, <1>4, <1>6, <1>7

\* Moving bytes into the ring.
LEMMA WriteCopyStep ==
  ASSUME IInv, NEW p \in Procs, WriteCopy(p)
  PROVE  IInv'
  <1> DEFINE n == WriteSpan(p)
             done == count[p] - left[p]
  <1> USE DEF IInv
  <1>1. /\ lock = p /\ pc[p] = "write" /\ left[p] > 0 /\ ~Full
        /\ UNCHANGED <<nrp, files, cond, lock, pc, count, buf>>
    BY DEF WriteCopy, InLoop
  <1>2. n \in 1 .. left[p] /\ nwp + n \in 0 .. DATA_SIZE
    BY <1>1, WriteSpanBounds
  <1>3. TypeOK'
    <2>1. nwp' \in 0 .. PIPE_SIZE
      BY <1>2, WrapType DEF WriteCopy
    <2>2. left' = [left EXCEPT ![p] = @ - n] /\ left[p] - n \in Nat /\ left[p] - n <= count[p]
      BY <1>2 DEF WriteCopy, TypeOK
    <2>3. ASSUME NEW i \in nwp .. nwp + n - 1
          PROVE  buf[p][done + (i - nwp) + 1] \in Byte
      <3>1. buf[p] \in Seq(Byte) /\ Len(buf[p]) = count[p]
        BY <1>1 DEF TypeOK
      <3>2. nwp \in Nat /\ count[p] \in Nat /\ left[p] \in Nat /\ left[p] <= count[p]
        BY SizeAssumption DEF TypeOK
      <3>3. i - nwp \in 0 .. left[p] - 1
        BY <1>2, <3>2
      <3>4. done + (i - nwp) + 1 \in 1 .. count[p]
        BY <3>2, <3>3
      <3> QED BY <3>1, <3>4
    <2>4. data' \in [0 .. PIPE_SIZE -> Byte]
      BY <2>3 DEF WriteCopy, TypeOK
    <2> QED BY <1>1, <2>1, <2>2, <2>4 DEF TypeOK, files, cond
  <1>4. RefInv' /\ QueueInv' /\ LockInv' /\ QueuedCounts'
    BY <1>1 DEF RefInv, QueueInv, LockInv, QueuedCounts, files, cond
  <1>5. left'[p] < count'[p]
    BY <1>1, <1>2 DEF WriteCopy, TypeOK
  <1>6. WakeInv'
    BY <1>1, <1>5 DEF WakeInv, cond
  <1>7. FilesInv'
    BY <1>1, FilesKept
  <1> QED BY <1>3, <1>4, <1>6, <1>7

\* Returning to user code, with a broadcast unless nothing was moved.
LEMMA ReturnStep ==
  ASSUME IInv, NEW p \in Procs, lock = p, NEW notify \in BOOLEAN,
         Return(p, notify), UNCHANGED <<ring, files>>,
         notify \/ left[p] = count[p]
  PROVE  IInv'
  <1> USE DEF IInv
  <1>1. pc[p] \in {"read", "write"} /\ p \notin queue
    BY DEF LockInv, QueueInv
  <1>2. TypeOK'
    BY DEF TypeOK, Return, cond_broadcast, Woken, ring, files
  <1>3. RefInv' /\ LockInv'
    BY ProcsAssumption DEF TypeOK, RefInv, LockInv, Return, files
  <1>4. QueueInv'
    BY <1>1 DEF TypeOK, QueueInv, Return, cond_broadcast, Woken
  <1>5. QueuedCounts'
    <2>1. pc' = [pc EXCEPT ![p] = "user"]
      BY DEF Return
    <2>2. /\ pc[p] # "rwait" /\ pc[p] # "wwait" /\ pc'[p] # "rwait" /\ pc'[p] # "wwait"
          /\ \A r \in Procs \ {p} : pc'[r] = pc[r]
      BY <1>1, <2>1 DEF TypeOK
    <2>3. At(pc', "rwait") = At(pc, "rwait")
      BY <2>2, AtStay
    <2>4. At(pc', "wwait") = At(pc, "wwait")
      BY <2>2, AtStay
    <2> QED BY <2>3, <2>4 DEF QueuedCounts, At, Return
  <1>6. WakeInv'
    <2>1. CASE notify
      BY <2>1 DEF WakeInv, Return, cond_broadcast
    <2>2. CASE ~notify
      <3>1. /\ UNCHANGED <<queue, ring>>
            /\ \A r \in Procs : r \in queue => pc'[r] = pc[r]
        BY <1>1, <2>2 DEF Return, TypeOK
      <3>2. \A r \in Procs : lock = r => ~(left[r] < count[r])
        BY <2>2 DEF TypeOK
      <3> QED BY <3>1, <3>2 DEF WakeInv, Empty, Full, ring
    <2> QED BY <2>1, <2>2
  <1>7. FilesInv'
    BY FilesKept
  <1> QED BY <1>2, <1>3, <1>4, <1>5, <1>6, <1>7

\* Going to sleep on an empty ring, or returning from it.
LEMMA ReadEmptyStep ==
  ASSUME IInv, NEW p \in Procs, ReadEmpty(p)
  PROVE  IInv'
  <1> USE DEF IInv
  <1>1. /\ lock = p /\ pc[p] = "read" /\ Empty /\ ref = 3
        /\ p \notin queue
        /\ UNCHANGED <<ring, files>>
    BY DEF ReadEmpty, InLoop, RefInv, QueueInv
  <1>2. CASE left[p] # count[p] /\ queued_writers = 0
    <2>1. Return(p, TRUE)
      BY <1>1, <1>2 DEF ReadEmpty, Return
    <2> QED BY <1>1, <2>1, ReturnStep
  <1>3. CASE ~(left[p] # count[p] /\ queued_writers = 0)
    <2>0. /\ queued_readers' = queued_readers + 1
          /\ BroadcastAndWait(p, queued_writers > 0)
          /\ pc' = [pc EXCEPT ![p] = "rwait"]
          /\ UNCHANGED <<queued_writers, args>>
      BY <1>1, <1>3 DEF ReadEmpty, BroadcastAndWait, Return
    <2>1. TypeOK'
      BY <1>1, <2>0 DEF TypeOK, BroadcastAndWait, Woken, ring, files, args
    <2>2. RefInv' /\ LockInv'
      BY <1>1, <2>0, ProcsAssumption DEF TypeOK, RefInv, LockInv, BroadcastAndWait, files
    <2>3. QueueInv'
      BY <1>1, <2>0 DEF TypeOK, QueueInv, BroadcastAndWait, Woken
    <2>4. QueuedCounts'
      <3>1. /\ pc[p] # "rwait" /\ pc[p] # "wwait" /\ pc'[p] = "rwait" /\ pc'[p] # "wwait"
            /\ \A r \in Procs \ {p} : pc'[r] = pc[r]
        BY <1>1, <2>0 DEF TypeOK
      <3>2. Cardinality(At(pc', "rwait")) = Cardinality(At(pc, "rwait")) + 1
        BY <3>1, AtEnter
      <3>3. At(pc', "wwait") = At(pc, "wwait")
        BY <3>1, AtStay
      <3> QED BY <2>0, <3>2, <3>3 DEF QueuedCounts, At
    <2>5. WakeInv'
      <3>1. Empty'
        BY <1>1 DEF Empty, ring
      <3>2. ASSUME NEW r \in Procs, r \in queue' PROVE pc'[r] # "wwait"
        <4>1. CASE r = p
          BY <2>0, <4>1 DEF TypeOK
        <4>2. CASE r # p
          <5>1. queued_writers = 0 /\ pc'[r] = pc[r]
            BY <2>0, <3>2, <4>2 DEF BroadcastAndWait, TypeOK
          <5>2. pc[r] # "wwait"
            BY <5>1, AtPositive, CountsAt
          <5> QED BY <5>1, <5>2
        <4> QED BY <4>1, <4>2
      <3> QED BY <3>1, <3>2 DEF WakeInv
    <2>6. FilesInv'
      BY <1>1, FilesKept
    <2> QED BY <2>1, <2>2, <2>3, <2>4, <2>5, <2>6
  <1> QED BY <1>2, <1>3

\* Going to sleep on a full ring.
LEMMA WriteFullStep ==
  ASSUME IInv, NEW p \in Procs, WriteFull(p)
  PROVE  IInv'
  <1> USE DEF IInv
  <1>1. /\ lock = p /\ pc[p] = "write" /\ Full /\ ref = 3
        /\ p \notin queue
        /\ UNCHANGED <<ring, files>>
    BY DEF WriteFull, InLoop, RefInv, QueueInv
  <1>2. /\ queued_writers' = queued_writers + 1
        /\ BroadcastAndWait(p, queued_readers > 0)
        /\ pc' = [pc EXCEPT ![p] = "wwait"]
        /\ UNCHANGED <<queued_readers, args>>
    BY <1>1 DEF WriteFull
  <1>3. TypeOK'
    BY <1>1, <1>2 DEF TypeOK, BroadcastAndWait, Woken, ring, files, args
  <1>4. RefInv' /\ LockInv'
    BY <1>1, <1>2, ProcsAssumption DEF TypeOK, RefInv, LockInv, BroadcastAndWait, files
  <1>5. QueueInv'
    BY <1>1, <1>2 DEF TypeOK, QueueInv, BroadcastAndWait, Woken
  <1>6. QueuedCounts'
    <2>1. /\ pc[p] # "rwait" /\ pc[p] # "wwait" /\ pc'[p] # "rwait" /\ pc'[p] = "wwait"
          /\ \A r \in Procs \ {p} : pc'[r] = pc[r]
      BY <1>1, <1>2 DEF TypeOK
    <2>2. Cardinality(At(pc', "wwait")) = Cardinality(At(pc, "wwait")) + 1
      BY <2>1, AtEnter
    <2>3. At(pc', "rwait") = At(pc, "rwait")
      BY <2>1, AtStay
    <2> QED BY <1>2, <2>2, <2>3 DEF QueuedCounts, At
  <1>7. WakeInv'
    <2>1. Full'
      BY <1>1 DEF Full, ring
    <2>2. ASSUME NEW r \in Procs, r \in queue' PROVE pc'[r] # "rwait"
      <3>1. CASE r = p
        BY <1>2, <3>1 DEF TypeOK
      <3>2. CASE r # p
        <4>1. queued_readers = 0 /\ pc'[r] = pc[r]
          BY <1>2, <2>2, <3>2 DEF BroadcastAndWait, TypeOK
        <4>2. pc[r] # "rwait"
          BY <4>1, AtPositive, CountsAt
        <4> QED BY <4>1, <4>2
      <3> QED BY <3>1, <3>2
    <2> QED BY <2>1, <2>2 DEF WakeInv
  <1>8. FilesInv'
    BY <1>1, FilesKept
  <1> QED BY <1>3, <1>4, <1>5, <1>6, <1>7, <1>8

\* Entering a call: the lock is free, so nobody sleeps on a stale ring.
LEMMA CallStep ==
  ASSUME IInv, NEW p \in Procs, NEW s \in Inputs, ReadCall(p, Len(s)) \/ WriteCall(p, s)
  PROVE  IInv'
  <1> USE DEF IInv
  <1>1. /\ pc[p] = "user" /\ lock = None /\ lock' = p
        /\ pc' = [pc EXCEPT ![p] = "read"] \/ pc' = [pc EXCEPT ![p] = "write"]
        /\ UNCHANGED <<ring, files, cond>>
    BY DEF ReadCall, WriteCall
  <1>2. s \in Seq(Byte) /\ Len(s) \in Nat
    BY InputsAssumption
  <1>3. TypeOK'
    <2>1. CASE ReadCall(p, Len(s))
      BY <1>2, <2>1 DEF ReadCall, TypeOK, ring, files, cond
    <2>2. CASE WriteCall(p, s)
      BY <1>2, <2>2 DEF WriteCall, TypeOK, ring, files, cond
    <2> QED BY <2>1, <2>2
  <1>4. RefInv' /\ LockInv' /\ QueueInv'
    BY <1>1, ProcsAssumption DEF TypeOK, RefInv, LockInv, QueueInv, files, cond
  <1>5. QueuedCounts'
    <2>1. /\ pc[p] # "rwait" /\ pc[p] # "wwait" /\ pc'[p] # "rwait" /\ pc'[p] # "wwait"
          /\ \A r \in Procs \ {p} : pc'[r] = pc[r]
      BY <1>1 DEF TypeOK
    <2>2. At(pc', "rwait") = At(pc, "rwait")
      BY <2>1, AtStay
    <2>3. At(pc', "wwait") = At(pc, "wwait")
      BY <2>1, AtStay
    <2> QED BY <1>1, <2>2, <2>3 DEF QueuedCounts, At, cond
  <1>6. WakeInv'
    <2>1. \A r \in Procs : lock # r
      BY <1>1, ProcsAssumption
    <2> QED BY <1>1, <2>1 DEF WakeInv, QueueInv, TypeOK, Empty, Full, ring, cond
  <1>7. FilesInv'
    BY <1>1, FilesKept
  <1> QED BY <1>3, <1>4, <1>5, <1>6, <1>7

\* Coming back from cond_wait.
LEMMA ResumeStep ==
  ASSUME IInv, NEW p \in Procs, ReadResume(p) \/ WriteResume(p)
  PROVE  IInv'
  <1> USE DEF IInv
  <1>1. /\ lock = None /\ lock' = p /\ p \notin queue
        /\ UNCHANGED <<ring, files, queue, state, args>>
        /\ \/ /\ pc[p] = "rwait" /\ pc' = [pc EXCEPT ![p] = "read"]
              /\ queued_readers' = queued_readers - 1 /\ queued_writers' = queued_writers
           \/ /\ pc[p] = "wwait" /\ pc' = [pc EXCEPT ![p] = "write"]
              /\ queued_writers' = queued_writers - 1 /\ queued_readers' = queued_readers
    BY DEF ReadResume, WriteResume, Resume, QueueInv
  <1>2. queued_readers' \in Nat /\ queued_writers' \in Nat
    BY <1>1, CountsAt, AtPositive DEF TypeOK
  <1>3. TypeOK'
    BY <1>1, <1>2 DEF TypeOK, ring, files, args
  <1>4. RefInv' /\ LockInv' /\ QueueInv'
    BY <1>1, ProcsAssumption DEF TypeOK, RefInv, LockInv, QueueInv, files
  <1>5. QueuedCounts'
    <2>1. \A r \in Procs \ {p} : pc'[r] = pc[r]
      BY <1>1 DEF TypeOK
    <2>2. CASE pc[p] = "rwait"
      <3>1. pc'[p] # "rwait" /\ pc'[p] # "wwait" /\ pc[p] # "wwait"
        BY <1>1, <2>2 DEF TypeOK
      <3>2. Cardinality(At(pc', "rwait")) = Cardinality(At(pc, "rwait")) - 1
        BY <2>1, <2>2, <3>1, AtLeave
      <3>3. At(pc', "wwait") = At(pc, "wwait")
        BY <2>1, <2>2, <3>1, AtStay
      <3> QED BY <1>1, <2>2, <3>2, <3>3 DEF QueuedCounts, At
    <2>3. CASE pc[p] = "wwait"
      <3>1. pc'[p] # "rwait" /\ pc'[p] # "wwait" /\ pc[p] # "rwait"
        BY <1>1, <2>3 DEF TypeOK
      <3>2. Cardinality(At(pc', "wwait")) = Cardinality(At(pc, "wwait")) - 1
        BY <2>1, <2>3, <3>1, AtLeave
      <3>3. At(pc', "rwait") = At(pc, "rwait")
        BY <2>1, <2>3, <3>1, AtStay
      <3> QED BY <1>1, <2>3, <3>2, <3>3 DEF QueuedCounts, At
    <2> QED BY <1>1, <2>2, <2>3
  <1>6. WakeInv'
    <2>1. \A r \in Procs : lock # r
      BY <1>1, ProcsAssumption
    <2> QED BY <1>1, <2>1 DEF WakeInv, TypeOK, Empty, Full, ring
  <1>7. FilesInv'
    BY <1>1, FilesKept
  <1> QED BY <1>3, <1>4, <1>5, <1>6, <1>7

\* Sharing and closing descriptors, and signals.
LEMMA OtherStep ==
  ASSUME IInv, NEW p \in Procs,
         \/ \E c \in Procs : Fork(p, c)
         \/ \E e \in Ends : Close(p, e)
         \/ Signal(p)
  PROVE  IInv'
  <1> USE DEF IInv
  <1>1. ASSUME NEW c \in Procs, Fork(p, c) PROVE IInv'
    <2>1. TypeOK'
      BY <1>1 DEF Fork, TypeOK, ring, cond, args
    <2>2. c # p /\ fds[c] = {} /\ fds'[c] = fds[p] /\ \A r \in Procs \ {c} : fds'[r] = fds[r]
      BY <1>1 DEF Fork, TypeOK, FilesInv, LiveInv
    <2>3. FilesInv'
      <3>1. \A e \in Ends : Cardinality(Held(fds', e)) =
               IF e \in fds[p] THEN Cardinality(Held(fds, e)) + 1 ELSE Cardinality(Held(fds, e))
        BY <2>2, HeldMove
      <3>2. FilesCounted'
        BY <1>1, <3>1 DEF Fork, FilesInv, FilesCounted, Held
      <3>3. LiveInv'
        BY <1>1, <2>2 DEF Fork, FilesInv, LiveInv
      <3> QED BY <3>2, <3>3 DEF FilesInv
    <2> QED BY <1>1, <2>1, <2>3 DEF Fork, RefInv, QueueInv, LockInv, QueuedCounts,
                             WakeInv, Empty, Full, ring, cond, args
  <1>2. ASSUME NEW e \in Ends, Close(p, e) PROVE IInv'
    <2>1. UNCHANGED <<queue, state>> /\ ref' = ref
      BY <1>2 DEF Close, RefInv
    <2>2. e \in fds[p] /\ fds'[p] = fds[p] \ {e} /\ \A r \in Procs \ {p} : fds'[r] = fds[r]
      BY <1>2 DEF Close, TypeOK
    <2>3. fref[e] > 0
      <3>1. Cardinality(Held(fds, e)) > 0
        BY <2>2, HeldPositive
      <3> QED BY <3>1 DEF FilesInv, FilesCounted, Held
    <2>4. TypeOK'
      BY <1>2, <2>1, <2>3 DEF Close, TypeOK, ring, args
    <2>5. FilesInv'
      <3>1. \A d \in Ends : Cardinality(Held(fds', d)) =
               IF d = e THEN Cardinality(Held(fds, d)) - 1 ELSE Cardinality(Held(fds, d))
        BY <2>2, HeldMove
      <3>2. FilesCounted'
        BY <1>2, <3>1 DEF Close, TypeOK, FilesInv, FilesCounted, Held
      <3>3. LiveInv'
        BY <1>2, <2>2 DEF Close, FilesInv, LiveInv
      <3> QED BY <3>2, <3>3 DEF FilesInv
    <2> QED BY <1>2, <2>1, <2>4, <2>5 DEF Close, RefInv, QueueInv, LockInv,
                             QueuedCounts, WakeInv, Empty, Full, ring, args
  <1>3. CASE Signal(p)
    <2>1. TypeOK'
      BY <1>3 DEF Signal, TypeOK, ring, files, args
    <2>2. FilesInv'
      BY <1>3, FilesKept DEF Signal
    <2> QED BY <1>3, <2>1, <2>2 DEF Signal, TypeOK, RefInv, QueueInv, LockInv, QueuedCounts,
                             WakeInv, Empty, Full, ring, files, args
  <1> QED BY <1>1, <1>2, <1>3

-----------------------------------------------------------------------------
LEMMA InitIInv == Init => IInv
  <1> SUFFICES ASSUME Init PROVE IInv
    OBVIOUS
  <1>1. TypeOK
    BY SizeAssumption, ByteAssumption DEF Init, TypeOK
  <1>2. RefInv /\ QueueInv /\ LockInv /\ WakeInv
    BY ProcsAssumption DEF Init, RefInv, QueueInv, LockInv, WakeInv
  <1>3. FilesInv
    <2>1. PICK p \in Procs : live = {p} /\ fds = [r \in Procs |-> IF r = p THEN Ends ELSE {}]
      BY DEF Init
    <2>2. \A e \in Ends : Held(fds, e) = {p}
      BY <2>1 DEF Held
    <2>3. FilesCounted
      BY <2>2, FS_Singleton DEF Init, FilesCounted, Held
    <2> QED BY <2>1, <2>3 DEF FilesInv, LiveInv
  <1>4. QueuedCounts
    <2>1. At(pc, "rwait") = {} /\ At(pc, "wwait") = {}
      BY DEF Init, At
    <2> QED BY <2>1, CountsAt, FS_EmptySet DEF Init
  <1> QED BY <1>1, <1>2, <1>3, <1>4 DEF IInv

LEMMA NextIInv == IInv /\ [Next]_vars => IInv'
  <1> SUFFICES ASSUME IInv, [Next]_vars PROVE IInv'
    OBVIOUS
  <1>1. CASE UNCHANGED vars
    <2>1. FilesInv'
      BY <1>1, FilesKept DEF vars, IInv
    <2> QED BY <1>1, <2>1 DEF vars, ring, files, cond, args, IInv, TypeOK, RefInv, QueueInv,
                              LockInv, QueuedCounts, WakeInv, Empty, Full
  <1>2. ASSUME NEW p \in Procs, Reading(p) PROVE IInv'
    <2>1. CASE ReadDone(p)
      <3>1. /\ lock = p /\ left[p] = 0 /\ count[p] \in Nat
            /\ UNCHANGED <<ring, files>>
        BY <2>1 DEF ReadDone, InLoop, IInv, TypeOK
      <3>2. CASE count[p] > 0
        <4>1. Return(p, TRUE)
          BY <2>1, <3>2 DEF ReadDone, Return
        <4> QED BY <3>1, <4>1, ReturnStep
      <3>3. CASE count[p] = 0
        <4>1. Return(p, FALSE)
          BY <2>1, <3>3 DEF ReadDone, Return, IInv, RefInv
        <4> QED BY <3>1, <3>3, <4>1, ReturnStep
      <3> QED BY <3>1, <3>2, <3>3
    <2> QED BY <1>2, <2>1, CallStep, ReadCopyStep, ReadEmptyStep, ResumeStep DEF Reading
  <1>3. ASSUME NEW p \in Procs, Writing(p) PROVE IInv'
    <2>1. CASE WriteDone(p)
      <3>1. /\ lock = p /\ left[p] = 0 /\ count[p] \in Nat
            /\ UNCHANGED <<ring, files>>
        BY <2>1 DEF WriteDone, InLoop, IInv, TypeOK
      <3>2. CASE count[p] > 0
        <4>1. Return(p, TRUE)
          BY <2>1, <3>2 DEF WriteDone, Return
        <4> QED BY <3>1, <4>1, ReturnStep
      <3>3. CASE count[p] = 0
        <4>1. Return(p, FALSE)
          BY <2>1, <3>3 DEF WriteDone, Return, IInv, RefInv
        <4> QED BY <3>1, <3>3, <4>1, ReturnStep
      <3> QED BY <3>1, <3>2, <3>3
    <2> QED BY <1>3, <2>1, CallStep, WriteCopyStep, WriteFullStep, ResumeStep DEF Writing
  <1> QED BY <1>1, <1>2, <1>3, OtherStep DEF Next

LEMMA SpecIInv == Spec => []IInv
  BY InitIInv, NextIInv, PTL DEF Spec

\* Type correctness of the pipe: in particular the two positions stay inside
\* the ring and no call moves more than it was asked to.
THEOREM TypeCorrect == Spec => []TypeOK
  <1>1. IInv => TypeOK
    BY DEF IInv
  <1> QED BY <1>1, SpecIInv, PTL

\* The two counters of pipe.c are exact, whatever the signals and wakeups.
THEOREM CountersExact == Spec => []QueuedCounts
  <1>1. IInv => QueuedCounts
    BY DEF IInv
  <1> QED BY <1>1, SpecIInv, PTL

\* fork, close and exit keep the counts of the two open files exact, so the
\* file of an end is freed when its last descriptor goes, and not before.
THEOREM FileCountsExact == Spec => []FilesCounted
  <1>1. IInv => FilesCounted
    BY DEF IInv, FilesInv
  <1> QED BY <1>1, SpecIInv, PTL

\* pipe_read and pipe_write never lose a wakeup: between calls a reader sleeps
\* only on an empty ring, a writer only on a full one.
THEOREM WakeupsKept == Spec => []NoLostWakeup
  <1>1. IInv => NoLostWakeup
    BY ProcsAssumption DEF IInv, QueueInv, WakeInv, NoLostWakeup, Sleeping
  <1> QED BY <1>1, SpecIInv, PTL
=============================================================================
