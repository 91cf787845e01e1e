------------------------------ MODULE PipeFifo ------------------------------
(***************************************************************************)
(* What a pipe promises to the processes that use it, without ring buffer, *)
(* wait queue or lock: a bounded first-in first-out queue of bytes.        *)
(*                                                                         *)
(*  - the bytes of a write enter the queue in order, none lost, none twice;*)
(*  - a write returns only when all its bytes are in the queue;            *)
(*  - a read takes bytes from the front of the queue, and returns short    *)
(*    only when it got something, or nobody holds the write end any more.  *)
(*                                                                         *)
(* Module Pipe, which follows ipc/pipe.c, is shown to implement it.        *)
(***************************************************************************)
EXTENDS Naturals, Sequences

CONSTANTS Procs,      \* the processes that share the pipe
          Inputs,     \* the buffers that user code passes
          PIPE_SIZE   \* how many bytes the pipe holds

VARIABLES q,      \* the bytes in the pipe, oldest first
          call,   \* call[p]: the system call p is in
          count,  \* count[p]: how many bytes the call asks for
          left,   \* left[p]: how many of them are still to be moved
          buf,    \* buf[p]: the user's buffer
          fds     \* fds[p]: the ends of the pipe p has open

vars == <<q, call, count, left, buf, fds>>

Init ==
  /\ q = <<>>
  /\ call = [p \in Procs |-> "user"]
  /\ count = [p \in Procs |-> 0]
  /\ left = [p \in Procs |-> 0]
  /\ buf = [p \in Procs |-> <<>>]
  /\ \E p \in Procs : fds = [r \in Procs |-> IF r = p THEN {"r", "w"} ELSE {}]

BeginRead(p, n) ==
  /\ call[p] = "user" /\ fds[p] # {}
  /\ call' = [call EXCEPT ![p] = "read"]
  /\ count' = [count EXCEPT ![p] = n]
  /\ left' = [left EXCEPT ![p] = n]
  /\ buf' = [buf EXCEPT ![p] = <<>>]
  /\ UNCHANGED <<q, fds>>

BeginWrite(p, s) ==
  /\ call[p] = "user" /\ fds[p] # {}
  /\ call' = [call EXCEPT ![p] = "write"]
  /\ count' = [count EXCEPT ![p] = Len(s)]
  /\ left' = [left EXCEPT ![p] = Len(s)]
  /\ buf' = [buf EXCEPT ![p] = s]
  /\ UNCHANGED <<q, fds>>

\* n bytes go from the front of the queue to the end of p's buffer.
Take(p, n) ==
  /\ call[p] = "read" /\ n <= left[p]
  /\ buf' = [buf EXCEPT ![p] = @ \o SubSeq(q, 1, n)]
  /\ q' = SubSeq(q, n + 1, Len(q))
  /\ left' = [left EXCEPT ![p] = @ - n]
  /\ UNCHANGED <<call, count, fds>>

\* The next n bytes of p's buffer go to the end of the queue.
Put(p, n) ==
  /\ call[p] = "write" /\ n <= left[p]
  /\ Len(q) + n <= PIPE_SIZE
  /\ LET done == count[p] - left[p]
     IN  q' = q \o SubSeq(buf[p], done + 1, done + n)
  /\ left' = [left EXCEPT ![p] = @ - n]
  /\ UNCHANGED <<call, count, buf, fds>>

NoWriter == \A p \in Procs : "w" \notin fds[p]

\* The call returns, and its arguments are gone.
End(p) ==
  /\ call' = [call EXCEPT ![p] = "user"]
  /\ count' = [count EXCEPT ![p] = 0]
  /\ left' = [left EXCEPT ![p] = 0]
  /\ buf' = [buf EXCEPT ![p] = <<>>]
  /\ UNCHANGED <<q, fds>>

EndRead(p) ==
  /\ call[p] = "read"
  /\ left[p] = 0 \/ left[p] < count[p] \/ (q = <<>> /\ NoWriter)
  /\ End(p)

EndWrite(p) ==
  /\ call[p] = "write"
  /\ left[p] = 0
  /\ End(p)

\* Processes pass the ends on to their children and close them.
Share(p) ==
  /\ call[p] = "user"
  /\ fds' \in {[fds EXCEPT ![r] = s] : r \in Procs, s \in SUBSET {"r", "w"}}
  /\ UNCHANGED <<q, call, count, left, buf>>

Next ==
  \E p \in Procs :
    \/ \E s \in Inputs : BeginRead(p, Len(s)) \/ BeginWrite(p, s)
    \/ EndRead(p) \/ EndWrite(p)
    \/ \E n \in 1 .. Len(q) : Take(p, n)
    \/ \E n \in 1 .. PIPE_SIZE : Put(p, n)
    \/ Share(p)

Spec == Init /\ [][Next]_vars
=============================================================================
