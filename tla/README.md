# A verification project for nuclei

nuclei is a thread-per-core runtime. Each worker thread owns a *shard* (run
queue, inbox, timer wheel, kernel poller) and runs its tasks there; other
threads reach a shard only through its inbox, its counted mailboxes and its
poller's notifier. This directory holds TLA+ models of the runtime's parts, TLC
runs that check them on small instances, and TLAPS proofs that carry the checks
of seven of them to instances of every size.

Paths are relative to the crate's `src/` directory. `PROJECT.json` lists every
component, run, mutant, hazard, finding and theorem, and maps each definition
to the lines it models.

## The system and its modules

A module may model several parts that belong together; each part has its own
variables, initial states and next-state relation.

| Code | Module | Parts | State and steps |
|---|---|---|---|
| `rt/task` | `Task` | task | the word of flags and references, the future or its output, the awaiter's cell; run, wake, cancel, abort, poll, detach, destroy, by any number of threads |
| `rt/task/list.rs`, `join_set.rs` | `TaskList` | tasks, joinset | the links of the lists of live tasks, edits posted by a thread that lost its shard, the walks of a shard that ends; slots and ready queue of a JoinSet |
| `rt/inbox.rs` | `Inbox`, refines `Fifo` | inbox | a linked queue with a stub, each load, swap and store a step |
| `rt/shard/run.rs`, `rt/handshake.rs`, `rt/shard/counted.rs` | `Park` | park | the loop's looks, the parked flag, posters, counted mailboxes |
| `rt/shard.rs`, `rt/shard/going.rs` | `ShardStop` over `Inbox` | stop | a stopped shard's inbox drained by any thread, what a runtime's drop waits for |
| `rt/context.rs`, `rt/handoff/loan.rs`, `rt/shard/foreign.rs` | `Runner` | runner, foreign | a thread's stack of loops and polls whose shard may be taken, loans, nested runtimes and their wheels |
| `rt/handoff` | `Handoff` | handoff | the slot's word and claim with store buffers, the monitor's watch, take and gift |
| `rt/workers.rs`, `rt/runtime.rs`, `rt/blocking.rs`, `rt/linger.rs` | `Workers` | workers, linger, pool | starting, stopping and replacing workers, the monitor's passes, a drop or a timed shutdown that joins them; the blocking pool; a runtime's drop and its lingering work |
| `time/wheel.rs`, `time/sleep.rs`, `rt/shard/timers.rs` | `Sleep`, refines `Deadlines` | sleep, wheel | sleeps armed, moved, reset and dropped across shards; the hierarchical wheel |
| `time/clock.rs`, `rt/paused.rs` | `Clock` | clock, paused | reads against pause, resume and advance; the paused clock's jump |
| `process/exit.rs`, `signal` | `Exit` | exit, signal | who watches and reaps a child; the handler's count, pumps, listeners |
| `sync/atomic_waker.rs` | `AtomicWaker` | waker | register, displacing register, panicking clone, wake |
| `sync/oneshot.rs` | `Oneshot` | oneshot | both halves over one word |
| `sync/waiter` | `Waiter` | waiter | one node between its future, the drain pass and a wake list |
| `sync/queue.rs`, `contend.rs`, `raw_semaphore.rs` | `Contend` | (a run of its own) | permits, the drain role, nudges, the bounded bypass and its handoff, to single accesses |
| the same queue, as its users see it | `WaitQueue` | | used by `Event`, `Notify`, `Guards`, `Mpsc` |
| `sync/once_cell.rs` | `OnceCell` | cell | the cell's word, slot, boxes and turn |
| `sync/event.rs`, `barrier.rs`, `set_once.rs` | `Event` | event, barrier, set_once | |
| `sync/notify.rs`, `sync/cancellation` | `Notify` | notify, token | permits, generations, owed wakes; a tree of tokens |
| `sync/mutex.rs`, `semaphore.rs`, `rwlock*`, `reentrant_*`, `raw_rwlock.rs` | `Guards` | guards, permits, rwlock, mutex, rw | what each guard and future holds of its lock; the raw reader-writer lock; the reentrant locks |
| `sync/mpsc`, `fair_semaphore.rs` | `Mpsc`, refines `Channel` | mpsc, radix | both flavours; the radix queue to single accesses |
| `sync/watch.rs`, `broadcast.rs`, `mesh.rs` | `Fanout` | watch, broadcast, mesh | versions, slots and cursors |
| `sync/local`, `sync/frames.rs` | `LocalSync` | local, oneshot, frames | one thread's primitives re-entered by a user's waker; blocking calls nested on one stack |
| `io/side.rs`, `io/side/after.rs`, `io/source/requests.rs` | `Side` | side, after, requests | the biased guard with store buffers and heavy fences, work left for a holder or for after the guard, registrations and closes |
| `io/source/read*`, `write*` | `ReadSide`, `WriteSide` | read, write | what a side holds, lent buffers, its one operation out on a ring |
| `io/source/port.rs`, `rt/park/iocp.rs` | `Port` | port, portop | issues, packets, drains and moves between completion ports |
| `rt/shard/ring.rs`, `rt/park/ring.rs`, `syscore/linux/iouring` | `RingOps` | ops, poller, table | operations by place and generation, dropped completions, the poller's queues, registered files |
| `buf`, `mem`, `rt/shard/recv.rs` | `Buffers` | pool, bytes, blocks, recv | a pool's ledger and home, windows over bytes, blocks freed elsewhere, receive buffers |
| `fs/file`, `fs/call.rs`, `fs/ring.rs` | `FileIo` | file, sync, ranges | a handle's cursor, read-ahead and jobs; syncs; ranged reads and copies |
| `io/util` | `Streams` | stream, pipe, stdio | buffered and extension reads and writes, copies; the in-memory pipe; the standard streams |

How they interact. A wake of a task (`Task`) pushes its runnable to an inbox
(`Inbox`) and wakes a parked shard (`Park`), or drops it on a stopped one
(`ShardStop`, composed with `Inbox`). A module that uses another part takes it
at the grain at which that part's own module shows it to behave: `Oneshot` and
`Sleep` use a waker cell as one step, `Contend` a waiter node, `OnceCell` the
semaphore of `Contend`, `Event`, `Notify` and `Mpsc` the queue of `WaitQueue`,
`Fanout` the broadcast of `Notify`, `Sleep` a wheel as a set of deadlines,
`Runner` the slot of `Handoff`. `ShardStop` over `Inbox` and the refinements of
`Fifo`, `Channel` and `Deadlines` are checked; that the other uses agree with
the modules they abstract is an argument, not a check.

Grain and memory. One access of a shared word is one step. A loop that loads a
word and retries a compare-exchange is one step, at the exchange that succeeds;
a loop whose body has effects has a step per effect. What runs under a lock or
on one thread with nothing between is one step. Memory is sequentially
consistent except where the code rests on an asymmetric fence: `Side` and
`Handoff` keep the plain stores of an owner in a store buffer that only its own
fence or another thread's heavy fence must drain. For the acquire-release words
the models leave out reorderings those orderings may allow.

## Runs

`Sum` is the frame of the runs that cover several parts: the variable `on`
names the part a behaviour is of, chosen in the initial state and never
changed, and the parts share the variables. The modules `MC*` instantiate the
parts over it with small constants. The parts of such a run do not meet each
other; a property of the run is the conjunction of what it says of each part.

| Run | Instance | Shows |
|---|---|---|
| `task` | 2 runners, 2 wakers, 2 awaiters, symmetric | one owner of the future, which lives as long as it is used; memory freed after every access; one user of the awaiter's cell; no wake or completion missed; `None` and the output mean what the handle says |
| `core` | parts task, park, inbox, stop, waker, oneshot, waiter; 2 or 3 threads each; fair | the wake of a sleeping shard, the counts, a drained inbox, a stopped shard, the waker cell, the oneshot and the waiter node keep their promises; `Inbox` refines `Fifo`; what is awaited comes |
| `contend` | 2 tasks, 1 permit, all events on, `MAX_BYPASS` 1, fair | permits conserved, no lost wake, an owed waiter is served |
| `sync` | the parts of `sync`; 2 or 3 tasks, a handful of calls | locks exclude and permits are conserved, nobody is stranded or sleeps past what it could have, values come once and in order, `Mpsc` refines `Channel` |
| `runtime` | the parts of `rt`, `time`, `process`, `signal` | one thread runs a shard, what a call changed is restored, nothing is forgotten by a shutdown, timers are on time and the wheel refines `Deadlines` |
| `runtime_live` | six of these parts at their smallest, fair | a runtime's drop ends, a job runs, a blocked worker's shard is handed on, a sleep ends, an orphan is reaped |
| `io` | the parts of `io` | one holder of a side, bytes once and in order, no waiter beside what it could have |
| `files` | ring, buffers, files, streams | memory kept while used, data read as written, nobody asleep past an answer |
| `park_quiet`, `shard_stop_idle`, `contend_grant`, `runner_foreign` | the smallest instance that shows it | violations, see Findings |

Bounds. The races of these protocols are between two parties and a third that
disturbs them, so two or three of each kind reach them. Capacities and sizes of
the program (bypasses, batches, queue and wheel sizes, chunk sizes) are
constants set to 1, 2 or 3, so that a queue is full, a counter wraps or a level
cascades within a few steps. Every constant named `Max...` caps how often
callers call, kernels fail, threads are replaced or wakers panic; none of them
is a guard of the code. `contend` has one permit, which is Mutex's case: its
pass says nothing of more permits, where `contend_grant` fails. Its
`MAX_BYPASS` is 1 (the program's is 16), so a waiter's first loss is its last.
The reader-writer lock runs in several casts, each with the calls its tasks
make and a bypass bound of its own: the case of the table below needs three
tasks and a bound of one. `Workers` runs in three casts (`Crews`), of which
`runtime_live` takes the first two (`Teams`). In `runtime`, one of the two
workers that watch a child never stops (`Stays`); without that bound the part
passes too, but takes too long beside the others.

Deadlock. `core` checks for it. The other passing runs say
`CHECK_DEADLOCK FALSE` where a part may really be over: a freed task, a dropped
runtime, a closed channel, or callers that used up their calls; `contend` and
`contend_grant` check for it too.

Fairness. Calls that began go on, because threads are scheduled (weak); a shard
takes its queue and runs; a woken task is polled; the kernel ends what it has;
the deadline of a shutdown passes. A poll whose shard was taken may block for
good. Nothing forces a wake, a poll, a drop or an IO event. Strong fairness is
assumed in four places, where another party may disable a step again and again:
a oneshot's poll does not find the cooperative budget spent for ever
(`RxPolledThrough`); the monitor's heavy fence does not fail for ever (`heavy`)
and its gift is taken by a thread that looks for one (`give`); a sleep and a
child's wait that are polled again and again get through (`SleepStep`,
`PollsAgain`). `Contend` assumes that holders release and that forgotten
permits come back. Its `Served` speaks of waiters, not of the task that drains:
one call's passes have no cap (`sync/queue.rs:53`).

## Findings

- `park_quiet`: items are taken by count, not by name, so an arm that was
  counted can stay behind a removal that was not, in the queue of a sleeping
  shard (`rt/shard/counted.rs:72`).
- `shard_stop_idle`: `is_idle` can answer true while a drainer that took its
  role back has a task in hand (`rt/inbox.rs:237`).
- `contend_grant`: a waiter nudged and then granted takes the nudge marker down
  without the look that a skipped release counted on (`sync/contend.rs:323`).
- `runner_foreign`: the end of a nested runtime's block_on writes to a shard
  that was taken from its thread (`rt/shard/foreign.rs:297`).

Each is a counterexample of the model. None was reproduced by running the
program, and how often the schedule arises in practice is not known.

### Where the code does less than a comment says

Each of these behaviours is in the passing runs. The property that a comment
states is a definition of its module, and TLC finds it violated within seconds;
the property the run checks has an exception for exactly this history, so that
everything else stays checked. The definitions of the first seven rows are
collected in `AsDocumented` of `MCIo` and `MCFiles`: to see one fail, set
`Parts` of the run's cfg to the part and its invariant to `AsDocumented`.

| Definition (run, part) | The comment | What the code does | Exception |
|---|---|---|---|
| `ReadSide.NothingLost` (`io`, read) | `io/source/read.rs:16` "so nothing the kernel handed over is lost" | `fail` ends the read whose buffer is out on the ring (`io/source/read.rs:1452`); what the receive brings finds no lent buffer (`io/source/read/ops.rs:399`) | that one receive, in `UnitsKept` |
| `Side.PanicsLoseNone` (`io`, side) | `io/side.rs:1043` "the work others left for the holder stays in the word for the next one" | `release_word` took `WAITING` and the requests before the step that panics (`io/side.rs:1004`) | the polls whose `WAITING` was taken (`forgotten`), in `NothingLeft` |
| `Side.ParkedIsRun` (`io`, after) | `io/side/after.rs:379` "for [`Unwound`] or the end of the poll to run" | a panic caught inside a ring's view leaves parked work until the next unwinding view (`io/side/after.rs:463`) | `LeftIsRun` asks that it is kept whole |
| `Side.ClosedIsUnused` (`io`, requests) | `io/source/requests.rs:761` "no entry queued on a ring can use its number" | a close does not wait for the linger (`io/handle.rs:441`); one `perform` takes both and the linger leaves a closed number in use (`io/source/requests.rs:320`) | `reused`, in `NumberIsOurs` |
| `Side.WaitersHaveDriver` (`io`, requests) | `io/source.rs:1051` "so a registration in place has a driver" | a refused registration is told to the asker alone (`io/source/requests.rs:586`), not to a poll that saw it under way | `untold`, in `WaitersWatched` |
| `RingOps.NoneWaitsForGood` (`files`, ops) | `rt/shard/ring/recover.rs:1` "no operation waits for good" | after the kernel dropped the sweep's own completion, `begin_recovery` finds nothing new and arms none (`rt/shard/ring/recover.rs:233`) | `unswept`, in `LostPursued` |
| `Streams.InputExact` (`files`, stdio) | `io/util/stdio.rs:6` "A read takes what one blocking read gave" | a failed read leaves its zeroed buffer, which the next read hands out (`io/util/stdio.rs:104`) | one buffer of zeros for each failed read, in `InputTrue` |
| the lock's part of `NobodyStranded` without `skipped` (`sync`, rwlock) | `sync/queue.rs:31` "no wakeup is lost" | `contend_grant` in the reader-writer lock: a `read_unlock` makes no pass while a nudge is out, and the nudged upgradable waiter was granted by a handoff (`sync/contend.rs:323`) | `skipped`: the waiters passed over then |
| `WriteSide.NobodySleepsPast` without `PlaceKept` (`io`, write) | `io/source/write/lent.rs:3` "finished by the driver if some did" | after a failed registration, an abandoned lent write of which part was sent keeps its place (`io/source/write.rs:1057`) | `PlaceKept` |
| `Port.PacketsDrained` without `late` (`io`, port) | none | an operation ends between an attach's look and its mark | the port left then |
| `Workers.TornDown` for a thread that is back (`runtime`, workers) | `rt/workers.rs:24` "a thread back from that poll, running its bound tasks, is waited for" | which threads are detached is decided as the list is taken; one that comes back later is still given up at the deadline (`rt/runtime.rs:227`) | the threads in `apart`, once `late` |

`full_fence` of `Handoff` (systems without a heavy fence) is off to keep the run
small; with it on, the part passes at the same bounds. `TakesServing` (a nested
runtime's shard is taken while it serves) is on in `runner_foreign` only, which
is the finding it leads to.

## What is proved

TLAPS checks these for every value of the constants. None of the properties is
inductive; each rests on a stronger invariant, proved by one case per action.

| Module | Theorems | Invariant |
|---|---|---|
| `ParkProofs`, any finite set of posters | `WakesNotLost`, `CountsLag` | `IInv` follows the shard's last look: what is in a queue already looked at came after the look, so its poster is yet to read `parked`; a flag cleared in a park was cleared by a poster that notifies |
| `InboxProofs`, any items | `DrainedSeesAll`, `InboxIsFifo` (the refinement of `Fifo`) | `Linked`: the nodes from the taker's end to the head are the history `q` with the stub in it at most once, and each is linked or its push has the link still to write |
| `ShardStopProofs`, any items and writers | `StopIsSafe` | `StopInv` adds to `Linked` who has the taker's role, what its last pop left, and what the looks of a runtime's drop have seen |
| `AtomicWakerProofs`, any tasks and threads | `SlotIsSafe`, `WakesAreSeen` | `IInv`: which party the flags stand for, what the slot holds meanwhile, and that a kept waker stays until it is woken |
| `Oneshot` | `OneshotIsSafe` | `IInv`: what each bit says of the halves, where the value is, whose waker is registered |
| `OnceCell`, any tasks | `OneValueKept` | `IInv`: who holds the turn, who writes the slot, what each call answered |
| `WaiterProofs`, any wakers | `NodeIsSafe` | `IInv`: which reference bit is whose, which slot the future or a wake list uses, where the waker of the last poll is |

Assumptions. `NodesDiffer` (`Inbox`): the stub, null and the two answers are not
items. `OneOrDisplacing` (`AtomicWaker`): a cell shared by tasks is used with
`register_displacing`. `BoundsAreNat` (`Park`): the caps on what piles up
are natural numbers. The others say that the special values of a module differ
from the members of its sets. **For the mailboxes, `NoLostWake` is stated
for `Quiet` false**, that is, without the removals that wake nobody, which the
program does post; with them the theorem covers the inbox and the future only,
and `park_quiet` shows that a mailbox can strand an arm. `StopIsSafe` claims of
the answer `settled` gives only that a task of an ended write still has a
thread that drains; the stronger promise is the finding `shard_stop_idle`.

Only model-checked. Every property of the runs `task`, `contend`, `runtime`,
`runtime_live`, `io` and `files`, and of `sync` but for `ValueKept`; the
refinements of `Channel` and `Deadlines`; and all liveness, which with
`ENABLED` and induction over data is out of the prover's reach. `Sleep` uses
`Bitwise`, which is out of its reach too.

## What is not modelled

Heuristics of one thread (the LIFO slot, spins, countdowns), placement,
settings and the builder, timer front ends, directories and locks of files,
network options, process set-up, counters, Lazy and Latch, and the system
layers, which map one system call each. The kernel is an external party that
answers in any order the code must allow for. `PROJECT.json` gives the reason
for each, and the part of a modelled component that is left out.
