# BeeOS in TLA+

A specification of the parts of the BeeOS kernel in which order matters, with
the TLC runs that check it on small instances and the TLAPS proofs that hold for
every instance. Paths below are relative to `src/kernel/src` unless they start
with `src/`.

## The system

BeeOS is a Unix-like kernel for one x86 CPU, with a small C library (`src/libc`),
a library of helpers (`src/libu`) and user programs (`src/user`).

Three facts about it shape every module:

* There is one CPU, interrupts are off in the kernel, and the kernel is not
  preempted. A process gives up the CPU only in a call of `scheduler()`. What
  lies between two such calls is one atomic action.
* The only place in the kernel where interrupts are on is the `sti; hlt` of
  `idle()`.
* Memory of a task structure is freed by `waitpid` and may come back from the
  next `fork`. Where this matters, tasks are addresses and not identities.

| Part | State | Operations | What it uses |
|---|---|---|---|
| pipe (`ipc/pipe.c`) | ring, two positions, two counters, a condition | create, read, write, last close | conditions, files |
| conditions, spinlocks (`sync/`) | queue of waiting tasks, lock | wait, signal, broadcast | scheduler, signals |
| lists (`list.h`) | next and prev links | init, insert, delete, merge | |
| processes (`proc/task.c`, `sys/sys_exit.c`, `sys/sys_waitpid.c`) | ring of tasks, children and sibling lists, states | fork, exit, waitpid | lists, conditions, signals, timers, files |
| scheduler (`proc/scheduler.c`, `arch/x86/idle.c`) | ring of tasks, current, time slice | schedule, idle, tick | lists |
| timers (`timer.c`, `sys/sys_alarm.c`, `sys/sys_nanosleep.c`) | ticks, sorted event queue, list of events per process | add, delete, modify, update, alarm, nanosleep | lists, signals; used by the terminals to refresh the screen |
| signals (`proc/scheduler.c`, `isr.c`, `sys/sys_sig*.c`, `sys/sys_kill.c`) | pending set, mask, actions, saved frame | send, take, return, set mask, set action, suspend | scheduler, kmalloc |
| handshake (`src/libu/src/sig_wait_tell.c`) | a flag set by a handler | enter, tell, wait | signals |
| frames (`mm/buddy.c`, `mm/zone.c`, `mm/frame.c`) | free lists and bitmaps per order, reference counts, list of zones | alloc, free | lists |
| slabs, kmalloc (`mm/slab.c`, `kmalloc.c`) | caches with full, partial and empty slabs | create, alloc, free, grow, deinit | frames |
| address spaces (`arch/x86/paging.c`) | page directories and tables | map, unmap, duplicate, delete, fault | frames |
| execve (`sys/sys_execve.c`) | the image of a process | load, replace | files, address spaces, signals |
| files (`fs/vfs.c`, `sys/sys_open.c` ...) | dentries, inodes, mounts, open files, descriptors | lookup, open, dup, close, mount | slabs |
| devfs, ext2 (`fs/`) | inode tables | lookup, read, write | files, drivers |
| terminals, keyboard (`driver/tty.c`, `arch/x86/kbd.c`) | line buffer, condition, foreground group | key, read, write, control | conditions, signals |
| other drivers | screen, serial line, ramdisk, random | read, write | |
| libc | malloc's free list, streams, environment | | system calls |
| init, shell | child processes | | system calls |

How they meet: an interrupt or a system call enters `isr_handler`, runs a
handler, calls `scheduler()` if the slice is over, and takes a pending signal on
the way back. Handlers wake tasks by conditions, by timers or by signals; a signal
that is not blocked takes a task out of the queue of whatever it waits for, so
every wait is a loop around its test.

The behaviours that are hard to test, each with its line in the source, are the
`hazards` of `PROJECT.json`.

## Modules

| Module | Models | Notes |
|---|---|---|
| `Lists` | `list.h` | links as functions, assignments in the order of the code |
| `PipeFifo` | | what a pipe promises: a bounded queue of bytes |
| `Pipe` | pipe, its condition, its files | one action per iteration of the loops |
| `Proc` | fork, exit, waitpid | extends `Lists` |
| `Sched` | scheduler, idle loop, tick | extends `Lists` |
| `Timer` | event queue, alarm, nanosleep, the flush in exit, the refresh of the screen | extends `Lists` |
| `Signals` | signals | one record per task |
| `Sync` | the libu handshake in the test `cp08/racecond.c` | composes two programs with `Signals` |
| `Buddy` | buddy system and the counts of a zone | one action per iteration of the loops |
| `MCPipe`, `MCProc`, `MCBuddy` | | values of constants for TLC |
| `PipeProofs`, `ListsProofs`, `ProcProofs`, `SchedProofs`, `TimerProofs`, `SignalsProofs`, `BuddyProofs` | | theorems |

An operator whose comment starts with "Mutant:" is a wrong variant of the
definition that follows it. It is used in no specification; replacing the
definition by it violates the property named in `PROJECT.json`, which shows that
the property depends on that line of the code.

### Pipe

`nrp`, `nwp`, `data`, `queued_readers`, `queued_writers` and `ref` are the fields
of the pipe inode. `queue`, `lock` and `state` are the condition `pnode->queue`
and the states of the tasks, `fref` and `fds` the two open files and who holds
them. `pc` tells user code, the loop of `pipe_read` or `pipe_write`, and the
`cond_wait` inside of it apart. `ReadCopy`, `ReadEmpty`, `ReadDone` and their
counterparts are the branches of the loops. `ref` is 3 from the start, because
`pipe_inode_create` sets it to 2 and `idup` adds one, and no close changes it.

### Proc

A task is an address. The `children` list of the code is a vertical ring through
a task, its first child, the first child of that, and so on; `sibling` is the
horizontal ring of the children of one task. `task_init`, `children_split`,
`children_give` and `Reap` change these links as the code does. A loop over a list
is the operator `walk`: the least set that contains the start and is closed under
`next` up to a stop. `panic` ends the behaviour.

A process whose first child was reaped has no way to reach its other children. The
model follows the code: such a process exits without giving them away.

### Sched

`scheduler` takes the states its caller has set and moves `current` to the next
runnable task in the ring, or to `ktask` when the search comes back to `current`,
even if `current` could go on. `idle` is the position in the loop of `idle()`.

### Timer

Each process has two events, the alarm of its task structure and the one on its
stack in `nanosleep`. A third user of the queue is `driver/tty.c`: `refresh_tm`
belongs to no process, and `refresh_func` puts it back into the queue out of the
loop that has just taken it from there. `link` is the global queue, `plink[p]` the
list of the events of `p`. The loop of `timer_update` is one action per iteration,
since it follows links that it deletes and that the functions of events change.

Two variables are not in the code. `due` remembers, without the 32-bit width of
`expires`, when an event should fire. `again` tells that some alarm was set while it
was in the queue: `sys_alarm` then links the event a second time, as the code does,
and nothing more can be said of the queue. The properties of the queue have the
hypothesis `~again`, and the finding below is what happens without it. An event that
is linked twice may close a circle without the head; the search of
`timer_event_add` then never ends, and the action that contains it is not enabled.

### Signals

At most one process is in user mode. A frame is known by the handlers user code is
in when it is saved, and `sfr` is the set of frames that `arch.sfr` points to: empty
or one. `Scarce` lets the `kmalloc` of the saved frame fail. `asked` is no field of
the code: it is the mask that the process itself has set.

User code may leave a handler in other ways than by returning from it. `longjmp`
takes it out of handlers without a word to the kernel, and `execve` starts another
program; both leave `arch.sfr` set. A child that is forked in a handler is in it too,
but has no frame: `Init` has such processes. `sigsuspend` in a handler enters another
handler and saves no second frame. All of these are behaviours of the model. `stray`,
which is no field of the code either, marks a process to which one of them has
happened, and `FrameExact` does not speak of it from then on.

### Buddy

A block is a pair of its number and its order. `area` and `map` are the free lists
and the bitmaps; the order within a list is left open, so the model allocates any
block of the list where the code takes the first. `busy` is who holds what. A call is
a sequence of actions, and the invariants hold between them.

`MapAssumption` says that the bitmap of each order has a bit for each pair of which
a block exists. The code computes its length from complete pairs rounded up to
words. This falls short by one bit when the number of complete pairs is a multiple
of 32 and a block without buddy is left over. `buddy_init` does not refuse such zones,
but the runs and the theorems exclude them: there, `toggle_bit` changes memory behind
the bitmap, which is not modelled.

A block may be freed a second time: `zone_free` then finds a count of 0 and does
nothing. A second free of a block that somebody else has got meanwhile is the caller's
mistake and is left out.

## Runs

| Run | Expected | What it shows |
|---|---|---|
| `MCPipe` | pass | no wakeup is lost, the counters and file counts are exact, the ring implements `PipeFifo`, a reader and a writer are never stuck together |
| `MCPipeEof` | violation | a reader of an empty pipe is never told that the last writer has closed |
| `MCProc` | pass | lists and ring survive every fork, exit, adoption and reaping over reused addresses; no exit is lost; a waitpid with a zombie to collect returns |
| `MCProcHierarchy` | violation | plain forks and exits reach the panic "corrupted children hierarchy" |
| `Sched` | pass | only a runnable task has the CPU, the idle loop never ends, a runnable task is scheduled |
| `Timer` | pass | until an alarm is set while pending: queue linked and owned by live processes, the refresh of the screen goes on, no event that is due is left behind, every tick ends, every sleeper wakes |
| `TimerAgain` | violation | with alarms that are set again, a sleeper is never woken |
| `TimerWrap` | violation | when ticks pass the width of `expires`, an event fires early |
| `Signals` | pass | frames and masks are right, sigsuspend loses no signal, a SIGKILL that is taken ends the process (`sigprocmask` can block it, as the code lets it), signals are taken |
| `SignalsNested` | violation | sigsuspend in a handler enters another one |
| `Sync` | violation | the child of the handshake misses the signal of its parent |
| `MCBuddy` | pass | blocks never overlap and no frame is lost; bits, counts and coalescing are exact; allocation fails only without an aligned free run |

### Bounds

* `MCPipe`: two processes, capacity 2, calls of 0, 1 and 3 bytes. Three bytes exceed
  the capacity, so calls block half way; three cells wrap around after every third
  byte. Either process may read and write by either end, because the calls do not
  look at the access mode.
* `MCProc`: three addresses besides the idle task and six pids, so that addresses are
  used again. `MCProcHierarchy` needs four processes at once and uses the symmetry of
  the addresses, which is sound for an invariant.
* `Sched`: three tasks and a slice of two ticks: the ring has tasks before, at and
  behind the current one.
* `Timer`: two processes with two events each and the event of the screen, delays 0
  to 2, four ticks: every insertion position, and refreshes at ticks 1 and 3 that meet
  events that are due before, with and after them. Processes ask for times before
  `MaxTick` only, so that what they wait for happens within the bound. The constraint
  `Once` cuts states with `again` off, of which the properties say nothing. `WORD` is
  larger than `MaxTick` here and smaller in `TimerWrap`, where four ticks stand for
  2^32.
* `Signals`: one process among an environment that sends any signal at any time, with
  a signal that cannot be caught, one that can, and one that is ignored by default; two
  nested handlers. `MaxNest` is a guard of `sys_sigsuspend` and bounds the contexts of
  forked children. The proofs cover any number of processes and any `MaxNest`.
* `MCBuddy`: eleven frames are no power of two: orders 0 and 1 end with a block that
  has no buddy, and orders 1 to 3 leave frames over.

`CHECK_DEADLOCK FALSE` stands where the system may stop: when every process waits in a
pipe or has closed it, after a panic, when both programs of the handshake have exited,
and in `TimerAgain` and `TimerWrap` at the last tick and in a search that never ends.

### Fairness

* The code of a call that runs in the kernel goes on: weak fairness of its steps.
* A runnable process gets the CPU again: strong fairness of its resumption, since
  another process may hold the CPU in between; weak where nothing disables it. That the
  scheduler is fair is itself checked, as `Scheduled` of `Sched`, from the two facts
  that the timer ticks and that the CPU goes on behind a `hlt`.
* In `Signals`, time slices end. Handlers need not return: `SignalTaken` says what
  follows when they do not.
* In `Sync`, the two programs make their steps, the return from the handler included.
* Apart from that nothing is assumed of the calls of user code, nor of signals.

## Findings

1. `ipc/pipe.c:78`: end of file is reported when `base.ref` is 1, but it never falls
   below 3 (`EndOfFile`).
2. `sys/sys_exit.c:50`: a process that is not the first child of its parent and exits
   with a living child makes the kernel panic (`NoCorruptHierarchy`).
3. `sys/sys_alarm.c:51`: an alarm set again while pending is linked twice; other
   events fall out of the queue, or the next search in it never ends (`SleepEnds`).
4. `timer.c:78`: `expires` has 32 bits and `timer_ticks` 64, so that events fire early
   from 497 days on (`NotEarly`).
5. `proc/task.c:102`: fork empties the mask of the child, so the handshake of libu
   has the race it is meant to close (`ChildContinues`).
6. `sys/sys_sigsuspend.c:40`: a handler that calls `sigsuspend` is entered by another
   one, whose return skips the rest of it, while `isr.c:70` says that signals are not
   nested (`NotNested`).

## Proofs

All theorems hold for every value of the constants under the named assumptions of
the modules. They have the shape `Spec => []Inv`, from an invariant `IInv` that
`Init` establishes and every action preserves.

* `ListsProofs` holds what the others need about lists: inserting, deleting and
  merging keep `next` and `prev` inverse to each other, and what `walk` visits
  before and after. `walk` is an intersection of closed sets, so these lemmas need no
  induction: to show that a node is visited, take any closed set; to show that it is
  not, give one closed set without it.
* `PipeProofs`: `TypeOK`, `NoLostWakeup`, `QueuedCounts`, `FilesCounted`.
  `NoLostWakeup` is about moments when the lock is free and is not inductive. While a
  process holds the lock, readers may sleep next to data, so the invariant adds that
  this process is the one that has just moved bytes and that it will broadcast before
  it releases the lock.
* `ProcProofs`: `TypeOK`, `ListsIntact`, `RingExact`, `NoLostExit`. That a zombie is
  not missed rests on the ring: `waitpid` finds its children there, and an adopted
  zombie goes to init, which `NoLostExit` excludes.
* `SchedProofs`: `TypeOK`, `CurrentRuns`, `IdleEndless`. The invariant adds that the
  idle task, wherever it was preempted behind its `hlt`, is still runnable.
* `TimerProofs`: `TypeOK`, `QueueOwned`, `QueueIntact`, `RefreshKept`. The invariant
  relates the global queue, the list of each process, and who is in `nanosleep`. It is
  in two parts: types hold always, the shape of the queue until `again`. For
  `refresh_func` the queue is a ring without `refresh_tm` in the middle of an action:
  the lemma on `timer_event_mod` is therefore about any ring, not about `link`.
* `SignalsProofs`: `TypeOK`, `FrameExact`, `NoLostSignal`, `MaskKept`. The invariant
  is a predicate on one task record, preserved by each operator on records, so the
  argument does not depend on the number of processes. It adds a bound on the depth of
  the code that a saved frame, however old, leads back to.
* `BuddyProofs`: `TypeOK`, `NoOverlap`, `NoneLost`, `MapExact`, `Coalesced`,
  `RefsExact`, all for zones that satisfy `MapAssumption`. The zone is a set of
  pieces, each free, held or moving. Three lemmas say that it stays cut exactly when a
  piece changes its tag, when two buddies become one, and when one becomes two halves.
  The bit of a pair decides which happens, so `MapExact` and `Coalesced` have to be
  part of the same invariant.

Only model-checked:

* all liveness (`Progress`, `WaitReturns`, `Scheduled`, `UpdateEnds`,
  `SleepEndsOnce`, `SignalTaken`), which is out of the prover's reach;
* the refinement `FifoSpec`, and `OnTime`, `Uncatchable` and `FailsOnlyFull`, which are
  candidates for proofs.

## Not modelled, and the plan

Left out for good: boot and descriptor tables, which run once and alone; formatting
and output; drivers that only move bytes; string functions.

In this order:

1. `Tty`: the line buffer between keyboard interrupt and readers, with a queue of
   lines as its abstract specification; process groups with it.
2. `Frames` over several zones, then `Slab`: objects, slabs and the three lists of a
   cache, over the frames that `Buddy` hands out.
3. `Files`: descriptors, open files, dentries and inodes with their counts through
   open, dup, fork, close and mount; the creation of pipes and its failures.
4. `Paging`: who owns a frame through fork, fault, execve and exit; the failing fork of
   `Proc` with it.
5. `libc`: the free list of `malloc`, the buffers of streams, and the environment, as
   operators against reference definitions; `init` and the shell as clients of `Proc`
   and `Signals`.
6. Proofs: `Uncatchable` with the invariant that the actions of fixed signals stay at
   their default; `OnTime`, with the order of the queue; `FailsOnlyFull`
   from `Coalesced` and the cut; the refinement of `PipeFifo`.
