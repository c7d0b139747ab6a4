------------------------------ MODULE Exit ------------------------------
(***************************************************************************)
(* A child process's exit (process/exit.rs): its Child, which polls, tries,*)
(* kills and goes; the shard that watches it (rt/shard/children.rs, and    *)
(* rt/shard/ring/exits.rs on a ring); and the shards that stop, which let  *)
(* go of it or get a watch posted too late (post_io, close_io).            *)
(*                                                                         *)
(* One child.  A thread runs one function at a time: `at` is where it is   *)
(* in it, `next` where it goes once the watch is seen to.  A driver's kind *)
(* is how it learns of the exit: "poll" (the pidfd in the poller),         *)
(* "waitid" (the ring's own wait, which reaps in the kernel), "ringpoll"   *)
(* (the ring's poll of the pidfd) or "pid" (EVFILT_PROC: no pidfd, reaps   *)
(* and kills go by pid).                                                   *)
(***************************************************************************)
EXTENDS Naturals, FiniteSets

CONSTANTS
    Workers,    \* the runtime's workers, a thread and a shard each
    Own,        \* a thread outside the runtime, and its own shard
    Stays,      \* the workers that never stop
    Kinds       \* the drivers the shards may have

Threads == Workers \cup {Own}

VARIABLES
    kind,       \* the shards' driver
    child,      \* "running", "zombie" or "reaped"
    state,      \* Exit::state
    result, settled, watched, gone,
    waker,      \* a waker is registered
    waits,      \* what the Child does: "free", "used", "pending", "told", "dropped"
    live,       \* of each shard: "running", "leaving", "stopping", "left" or "closed"
    posted,     \* the shards with a Watch in their mailbox
    reg,        \* of each shard: "no", "armed", "cancelling"
    cqe,        \* of each ring: the completion it has not applied
    at, next

exit == <<state, result, settled, watched, gone, waker>>
threads == <<at, next>>
shards == <<kind, live, posted, reg, cqe>>
vars == <<child, exit, waits, shards, threads>>

Ring == kind \in {"waitid", "ringpoll"}
ByPid == kind = "pid"

Init ==
    /\ kind \in Kinds /\ child = "running" /\ state = "ALIVE" /\ result = "none"
    /\ settled = FALSE /\ watched = FALSE /\ gone = FALSE /\ waker = FALSE /\ waits = "free"
    /\ live = [s \in Threads |-> IF s = Own THEN "left" ELSE "running"]
    /\ posted = {} /\ reg = [s \in Threads |-> "no"] /\ cqe = [s \in Threads |-> "none"]
    /\ at = [p \in Threads |-> "idle"] /\ next = [p \in Threads |-> "idle"]

Goes(p, a) == at' = [at EXCEPT ![p] = a] /\ UNCHANGED next
Calls(p, a, n) == at' = [at EXCEPT ![p] = a] /\ next' = [next EXCEPT ![p] = n]
Returns(p) == Goes(p, next[p])

\* The child exits by itself.
Exits ==
    /\ child = "running" /\ child' = "zombie"
    /\ UNCHANGED <<exit, waits, shards, threads>>

-----------------------------------------------------------------------------
(* The Child's calls, by the thread p that has it.                         *)

MayUse(p) == at[p] = "idle" /\ live[p] \in {"running", "left"}

\* A task is polled where its shard runs; a first poll, or one its waker asked for.
poll_wait(p) ==
    /\ MayUse(p) /\ live[p] = "running"
    /\ waits = "free" \/ (waits = "pending" /\ ~waker)
    /\ waits' = "used" /\ Goes(p, IF result # "none" THEN "ready" ELSE "register")
    /\ UNCHANGED <<child, exit, shards>>

poll_ready(p) ==
    /\ at[p] = "ready" /\ Calls(p, "settled", "told")
    /\ UNCHANGED <<child, exit, waits, shards>>

poll_registers(p) ==
    /\ at[p] = "register" /\ waker' = TRUE /\ Calls(p, "settled", "second")
    /\ UNCHANGED <<child, state, result, settled, watched, gone, waits, shards>>

poll_looks_again(p) ==
    /\ at[p] = "second" /\ Goes(p, "idle")
    /\ waits' = IF result # "none" THEN "told" ELSE "pending"
    /\ UNCHANGED <<child, exit, shards>>

told(p) ==
    /\ at[p] = "told" /\ waits' = "told" /\ Goes(p, "idle")
    /\ UNCHANGED <<child, exit, shards>>

try_wait(p) ==
    /\ MayUse(p) /\ waits = "free" /\ waits' = "used"
    /\ Calls(p, "settled", IF result # "none" THEN "told" ELSE "peek")
    /\ UNCHANGED <<child, exit, shards>>

\* peek sees a child that exited and was not reaped, and fails for one that was.
peek(p) ==
    /\ at[p] = "peek"
    /\ \/ child = "running" /\ Goes(p, "idle") /\ waits' = "free"
       \/ child = "zombie" /\ Goes(p, "peeked") /\ UNCHANGED waits
       \/ child = "reaped" /\ Goes(p, "failed") /\ UNCHANGED waits
    /\ UNCHANGED <<child, exit, shards>>

try_wait_stores(p) ==
    /\ at[p] = "peeked" /\ result' = (IF result = "none" THEN "status" ELSE result)
    /\ Goes(p, "told") /\ UNCHANGED <<child, state, settled, watched, gone, waker, waits, shards>>

try_wait_fails(p) ==
    /\ at[p] = "failed" /\ waits' = "free" /\ Goes(p, "idle")
    /\ UNCHANGED <<child, exit, shards>>

kill(p) ==
    /\ MayUse(p) /\ waits = "free" /\ child = "running" /\ result = "none"
    /\ waits' = "used" /\ Goes(p, IF ByPid THEN "busy_kill" ELSE "signal")
    /\ UNCHANGED <<child, exit, shards>>

\* busy: the state's claim, by a kill or a reap; yes and no are what comes after it.
busy(p, yes, no) ==
    /\ state # "BUSY"
    /\ \/ state = "ALIVE" /\ state' = "BUSY" /\ Goes(p, yes)
       \/ state = "REAPED" /\ Goes(p, no) /\ UNCHANGED state

kill_busy(p) ==
    /\ at[p] = "busy_kill" /\ busy(p, "signal", "killed")
    /\ UNCHANGED <<child, result, settled, watched, gone, waker, waits, shards>>

kill_signals(p) ==
    /\ at[p] = "signal" /\ child' = (IF child = "running" THEN "zombie" ELSE child)
    /\ Goes(p, "killed") /\ UNCHANGED <<exit, waits, shards>>

kill_ends(p) ==
    /\ at[p] = "killed" /\ Goes(p, "idle") /\ waits' = "free"
    /\ state' = (IF state = "BUSY" THEN "ALIVE" ELSE state)
    /\ UNCHANGED <<child, result, settled, watched, gone, waker, shards>>

\* went, as the Child is dropped: its future with it.
went(p) ==
    /\ MayUse(p) /\ waits \in {"free", "pending", "told"} /\ waits' = "dropped"
    /\ gone' = TRUE /\ Calls(p, "settled", "idle")
    /\ UNCHANGED <<child, state, result, settled, watched, waker, shards>>

-----------------------------------------------------------------------------
(* ensure_watched and watch_orphan: the claim, and where the watch goes.   *)

claim_settled(p) ==
    /\ at[p] = "settled"
    /\ IF settled THEN Returns(p) ELSE Goes(p, "swap")
    /\ UNCHANGED <<child, exit, waits, shards>>

\* A claimed watch is made here, where a shard runs, else posted.
claim_swaps(p) ==
    /\ at[p] = "swap" /\ watched' = TRUE
    /\ \/ watched /\ Returns(p)
       \/ ~watched /\ Goes(p, IF live[p] = "running" THEN "watch" ELSE "place")
    /\ UNCHANGED <<child, state, result, settled, gone, waker, waits, shards>>

\* Shard::watch
watch(p) ==
    /\ at[p] = "watch" /\ reg' = [reg EXCEPT ![p] = "armed"] /\ Returns(p)
    /\ UNCHANGED <<kind, child, exit, waits, live, posted, cqe>>

\* service_shard and running_service_shard: a worker that takes tasks; with none the thread's
\* own shard, or for a child whose Child went nobody.
Places(p) ==
    LET takers == {w \in Workers : live[w] = "running"}
    IN  IF takers # {} THEN takers ELSE IF gone THEN {} ELSE {p}

place(p) ==
    /\ at[p] = "place"
    /\ \/ \E s \in Places(p) :
            posted' = posted \cup {s} /\ Goes(p, "posted") /\ UNCHANGED watched
       \/ Places(p) = {} /\ watched' = FALSE /\ Returns(p) /\ UNCHANGED posted
    /\ UNCHANGED <<kind, child, state, result, settled, gone, waker, waits, live, reg, cqe>>

\* The look post_io makes at io_closed: the poster drains a mailbox that closed, the watch in it
\* is let go.
post_looks(p) ==
    /\ at[p] = "posted"
    /\ \/ \E s \in posted :
            live[s] = "closed" /\ posted' = posted \ {s} /\ Goes(p, "unwatched")
       \/ (\A s \in posted : live[s] # "closed") /\ Returns(p) /\ UNCHANGED posted
    /\ UNCHANGED <<kind, child, exit, waits, live, reg, cqe>>

-----------------------------------------------------------------------------
(* unwatched: the watch is let go, by the shard that had it or by whoever  *)
(* drains its mailbox.                                                     *)

unwatched(p) ==
    /\ at[p] = "unwatched" /\ watched' = FALSE /\ Goes(p, "gone?")
    /\ UNCHANGED <<child, state, result, settled, gone, waker, waits, shards>>

unwatched_looks(p) ==
    /\ at[p] = "gone?"
    /\ \/ ~gone /\ waker' = FALSE /\ Returns(p)
       \/ gone /\ Goes(p, "again") /\ UNCHANGED waker
    /\ UNCHANGED <<child, state, result, settled, watched, gone, waits, shards>>

unwatched_settled(p) ==
    /\ at[p] = "again" /\ IF settled THEN Returns(p) ELSE Goes(p, "reclaim")
    /\ UNCHANGED <<child, exit, waits, shards>>

unwatched_claims(p) ==
    /\ at[p] = "reclaim" /\ watched' = TRUE
    /\ IF watched THEN Returns(p) ELSE Goes(p, "place")
    /\ UNCHANGED <<child, state, result, settled, gone, waker, waits, shards>>

-----------------------------------------------------------------------------
(* The shard that watches.                                                 *)

Serves(s) == at[s] = "idle" /\ live[s] = "running"

\* apply_io_ops takes a posted watch.
apply_watch(s) ==
    /\ Serves(s) /\ s \in posted /\ posted' = posted \ {s}
    /\ reg' = [reg EXCEPT ![s] = "armed"] /\ UNCHANGED <<kind, child, exit, waits, live, cqe, threads>>

\* The kernel ends a ring's operation, with the exit or with the cancel that came first; the
\* poll may end without an exit.
kernel_ends(s) ==
    /\ Ring /\ reg[s] # "no" /\ cqe[s] = "none"
    /\ \/ /\ kind = "waitid" /\ child = "zombie" /\ child' = "reaped"
          /\ cqe' = [cqe EXCEPT ![s] = "exit"]
       \/ kind = "ringpoll" /\ cqe' = [cqe EXCEPT ![s] = "ready"] /\ UNCHANGED child
       \/ /\ reg[s] = "cancelling" /\ cqe' = [cqe EXCEPT ![s] = "cancelled"]
          /\ UNCHANGED child
    /\ UNCHANGED <<kind, exit, waits, live, posted, reg, threads>>

\* complete_exit, while the shard runs or settles.
complete_exit(s) ==
    /\ Ring /\ cqe[s] # "none"
    /\ at[s] \in {"idle", "settle"}
    /\ Calls(s, CASE cqe[s] = "exit" -> "finish" [] cqe[s] = "ready" -> "reap"
                  [] cqe[s] = "cancelled" -> "unwatched", at[s])
    /\ reg' = [reg EXCEPT ![s] = "no"] /\ cqe' = [cqe EXCEPT ![s] = "none"]
    /\ UNCHANGED <<kind, child, exit, waits, live, posted>>

\* The poller reports the pidfd, or the kqueue the pid; a report may be spurious.
exit_came(s) ==
    /\ ~Ring /\ Serves(s) /\ reg[s] = "armed" /\ reg' = [reg EXCEPT ![s] = "no"]
    /\ Calls(s, IF kind = "pid" THEN "busy_reap" ELSE "reap", "idle")
    /\ UNCHANGED <<kind, child, exit, waits, live, posted, cqe>>

reap_busy(s) ==
    /\ at[s] = "busy_reap" /\ busy(s, "reap", "rewatch")
    /\ UNCHANGED <<child, result, settled, watched, gone, waker, waits, shards>>

\* reap_pidfd, or the waitpid of reap_by_pid: a child still running is watched again, one reaped
\* by another is an error.
reap(s) ==
    /\ at[s] = "reap"
    /\ state' = IF kind # "pid" THEN state
                ELSE IF child = "running" THEN "ALIVE" ELSE "REAPED"
    /\ child' = IF child = "zombie" THEN "reaped" ELSE child
    /\ Goes(s, CASE child = "running" -> "rewatch" [] child = "zombie" -> "finish"
                 [] child = "reaped" -> "lost")
    /\ UNCHANGED <<result, settled, watched, gone, waker, waits, shards>>

rewatch(s) ==
    /\ at[s] = "rewatch" /\ reg' = [reg EXCEPT ![s] = IF next[s] = "settle" THEN "cancelling" ELSE "armed"]
    /\ Returns(s) /\ UNCHANGED <<kind, child, exit, waits, live, posted, cqe>>

\* finish: the result, unless one is stored, then settled, then the wake.
finish(s) ==
    /\ at[s] \in {"finish", "lost"}
    /\ result' = IF result # "none" THEN result ELSE IF at[s] = "lost" THEN "error" ELSE "status"
    /\ Goes(s, "settles") /\ UNCHANGED <<child, state, settled, watched, gone, waker, waits, shards>>

finish_settles(s) ==
    /\ at[s] = "settles" /\ settled' = TRUE /\ Goes(s, "wakes")
    /\ UNCHANGED <<child, state, result, watched, gone, waker, waits, shards>>

finish_wakes(s) ==
    /\ at[s] = "wakes" /\ waker' = FALSE /\ Returns(s)
    /\ UNCHANGED <<child, state, result, settled, watched, gone, waits, shards>>

-----------------------------------------------------------------------------
(* Shards that come and go.                                                *)

\* The thread outside enters a block_on, and leaves it.
Enters ==
    /\ at[Own] = "idle" /\ live[Own] = "left" /\ live' = [live EXCEPT ![Own] = "running"]
    /\ UNCHANGED <<kind, child, exit, waits, posted, reg, cqe, threads>>

\* let_go_of_children, of a shard that leaves or stops: a poller's registration ends here, a
\* ring's is asked to.
let_go_of_children(s, phase, after) ==
    /\ at[s] = "idle" /\ live[s] = "running" /\ live' = [live EXCEPT ![s] = phase]
    /\ IF Ring
       THEN /\ reg' = [reg EXCEPT ![s] = IF @ = "armed" THEN "cancelling" ELSE @]
            /\ Goes(s, after)
       ELSE /\ reg' = [reg EXCEPT ![s] = "no"]
            /\ IF reg[s] = "armed" THEN Calls(s, "unwatched", after) ELSE Goes(s, after)
    /\ UNCHANGED <<kind, child, exit, waits, posted, cqe>>

leave == let_go_of_children(Own, "leaving", "settle")
go(s) == s \in Workers \ Stays /\ let_go_of_children(s, "stopping", "settle")

\* apply_io_ops of a ring that settles: a watch posted late goes in, and is cancelled with the
\* rest.
settle_applies(s) ==
    /\ at[s] = "settle" /\ Ring /\ s \in posted /\ reg[s] = "no"
    /\ posted' = posted \ {s} /\ reg' = [reg EXCEPT ![s] = "cancelling"]
    /\ UNCHANGED <<kind, child, exit, waits, live, cqe, threads>>

\* With no operation out the shard has left, or closes its mailbox.
settled_down(s) ==
    /\ at[s] = "settle" /\ reg[s] = "no"
    /\ \/ live[s] = "leaving" /\ live' = [live EXCEPT ![s] = "left"] /\ Goes(s, "idle")
       \/ live[s] = "stopping" /\ live' = [live EXCEPT ![s] = "closed"] /\ Calls(s, "closed", "closed")
    /\ UNCHANGED <<kind, child, exit, waits, posted, reg, cqe>>

\* Mutant: a mailbox that closes is not drained.
CloseUndrained(s) ==
    /\ at[s] = "closed" /\ Goes(s, "over")
    /\ UNCHANGED <<child, exit, waits, shards>>

\* close_io drains what the mailbox got.
close_io(s) ==
    /\ at[s] = "closed"
    /\ \/ s \in posted /\ posted' = posted \ {s} /\ Goes(s, "unwatched")
       \/ s \notin posted /\ Goes(s, "over") /\ UNCHANGED posted
    /\ UNCHANGED <<kind, child, exit, waits, live, reg, cqe>>

-----------------------------------------------------------------------------
Use(p) == poll_wait(p) \/ try_wait(p) \/ kill(p) \/ went(p)

Runs(p) ==
    \/ poll_ready(p) \/ poll_registers(p) \/ poll_looks_again(p) \/ told(p)
    \/ peek(p) \/ try_wait_stores(p) \/ try_wait_fails(p)
    \/ kill_busy(p) \/ kill_signals(p) \/ kill_ends(p)
    \/ claim_settled(p) \/ claim_swaps(p) \/ watch(p) \/ place(p) \/ post_looks(p)
    \/ unwatched(p) \/ unwatched_looks(p) \/ unwatched_settled(p) \/ unwatched_claims(p)
    \/ apply_watch(p) \/ complete_exit(p) \/ exit_came(p)
    \/ reap_busy(p) \/ reap(p) \/ rewatch(p)
    \/ finish(p) \/ finish_settles(p) \/ finish_wakes(p)
    \/ settle_applies(p) \/ settled_down(p) \/ close_io(p)

Comes == Enters \/ leave \/ \E s \in Workers : go(s)

Next ==
    \/ Exits \/ Comes
    \/ \E p \in Threads : Use(p) \/ Runs(p) \/ kernel_ends(p)

Spec == Init /\ [][Next]_vars

PollsAgain == \E p \in Threads : waits = "pending" /\ poll_wait(p)

\* Threads run, the kernel ends what it was asked to, and a task whose waker was called is polled.
Fairness ==
    /\ \A p \in Threads : WF_vars(Runs(p)) /\ WF_vars(kernel_ends(p))
    /\ SF_vars(PollsAgain)

FairSpec == Spec /\ Fairness

-----------------------------------------------------------------------------
\* Who has the watch in hand: a registration, a posted watch, a thread between the two.
InHand == {"watch", "place", "busy_reap", "reap", "rewatch", "finish", "lost"}
Watchers == Cardinality({s \in Threads : reg[s] # "no"}) + Cardinality(posted)
            + Cardinality({p \in Threads : at[p] \in InHand})

\* One shard at a time watches a child, so that no two reapers of one child run at once: whatever
\* shards stop, let go of it and get its watch posted (exit.rs: the claims of `watched`).
OneWatcher == Watchers <= 1

\* No status is lost to a second reap: a watch never ends with the error a wait for a reaped
\* child gives (exit.rs: finish, unwatched).
StatusKept == result # "error"

\* No signal goes by pid to a child already reaped, whose pid may name another process (exit.rs:
\* busy, which a kill and a reap exclude each other with).
SignalsOurs == \A p \in Threads : ByPid /\ at[p] = "signal" => child # "reaped"

\* A child whose Child went is reaped once it exits, while a worker runs (exit.rs: went and
\* unwatched, each of which looks at what the other wrote).
Orphaned == gone /\ child = "zombie"
Reaped == child = "reaped"

\* A wait ends once the child exited, whatever shard watched it and stopped.
WaitsEnded == waits = "pending" /\ child # "running"

------------------------------------------------------------------------------
(***************************************************************************)
(* Signals (signal/mod.rs, signal/unix.rs) and the SIGCHLD reaper for the  *)
(* children Linux gave no pidfd (process/fallback.rs): the handler that    *)
(* counts a delivery and writes the process's wake descriptor, the pumps   *)
(* that read it and dispatch, the listeners that register and look again,  *)
(* and the shards that go with the pump they run.                          *)
(*                                                                         *)
(* One signal, SIGCHLD, which listeners wait for and one child's exit      *)
(* raises.  A place is a shard, or Service, whose pump runs on a worker.   *)
(***************************************************************************)

CONSTANTS
    Shards,     \* those that run pumps
    SignalStays,      \* those of them that never go
    Service,    \* the place of listeners polled where no shard runs
    Listeners,
    None,
    Waiter,     \* the first wait for a child with no pidfd
    Casts,      \* who there is: sets of listeners and the child's waiter
    MayFail,    \* the handler, or a pump, may be refused its descriptor
    MaxSignals  \* bound: the signals raised from outside

SignalPlaces == Shards \cup {Service}

VARIABLES
    handler,    \* Handler::state
    caught,     \* the process's action for the signal is on_signal
    raised,     \* the signal is pending for the process
    writing,    \* handlers that counted and have not written
    fd,         \* the wake descriptor is readable
    count, dispatched,
    seen, signal_waker,    \* of each listener: the count it saw last, a waker registered
    signal_at,         \* where each listener, the child's waiter and each shard's going is
    spot,       \* where each listener's poll runs
    flag,       \* of each place: a pump serves it
    pump,       \* of each place: where its pump's task is
    on,         \* of each place: the shard its pump runs on
    now,        \* of each place: the count its dispatch loaded
    woken,      \* of each place: the listeners its dispatch has woken
    drops,      \* the pumps dropped: their place and shard, whether the flag is lowered, whom they woke
    alive,      \* the shards that run
    signal_child,      \* "running", "zombie" or "reaped"
    held,       \* the reaper holds the child
    signals, failed     \* history: the signals raised, a refusal

sig == <<handler, caught, raised, writing, fd, count, dispatched>>
listens == <<seen, signal_waker, spot>>
pumps == <<flag, pump, on, now, woken, drops>>
kids == <<signal_child, held>>
hist == <<signals, failed>>
signal_vars == <<sig, listens, signal_at, pumps, alive, kids, hist>>

\* A listener dropped since may have installed the handler, which stays.
SignalInit ==
    /\ handler \in {"IDLE", "INSTALLED"} /\ caught = (handler = "INSTALLED") /\ raised = FALSE /\ writing = 0 /\ fd = FALSE
    /\ count = 0 /\ dispatched = 0
    /\ seen = [l \in Listeners |-> 0] /\ signal_waker = [l \in Listeners |-> FALSE]
    /\ spot = [l \in Listeners \cup {Waiter} |-> Service]
    /\ \E cast \in Casts :
          signal_at = [a \in Listeners \cup {Waiter} |-> IF a \in cast THEN "new" ELSE "over"]
    /\ flag = [p \in SignalPlaces |-> FALSE] /\ pump = [p \in SignalPlaces |-> "none"]
    /\ on = [p \in SignalPlaces |-> None] /\ now = [p \in SignalPlaces |-> 0] /\ woken = [p \in SignalPlaces |-> {}]
    /\ drops = {}
    /\ alive = Shards /\ signal_child = "running" /\ held = FALSE
    /\ signals = 0 /\ failed = FALSE

SignalGoes(a, where) == signal_at' = [signal_at EXCEPT ![a] = where]
Pumps(p, where) == pump' = [pump EXCEPT ![p] = where]

-----------------------------------------------------------------------------
(* Deliveries.                                                             *)

\* A signal nobody catches is dropped: SIGCHLD's default is to be ignored.
Raise ==
    /\ signals < MaxSignals /\ signals' = signals + 1 /\ raised' = (raised \/ caught)
    /\ UNCHANGED <<handler, caught, writing, fd, count, dispatched, listens, signal_at, pumps, alive, kids, failed>>

ChildExits ==
    /\ signal_at[Waiter] # "over" /\ signal_child = "running" /\ signal_child' = "zombie" /\ raised' = (raised \/ caught)
    /\ UNCHANGED <<handler, caught, writing, fd, count, dispatched, listens, signal_at, pumps, alive, held, hist>>

\* on_signal: delivered counts.
delivered ==
    /\ raised /\ raised' = FALSE /\ count' = count + 1 /\ writing' = writing + 1
    /\ UNCHANGED <<handler, caught, fd, dispatched, listens, signal_at, pumps, alive, kids, hist>>

\* Then the handler writes.
on_signal ==
    /\ writing > 0 /\ writing' = writing - 1 /\ fd' = TRUE
    /\ UNCHANGED <<handler, caught, raised, count, dispatched, listens, signal_at, pumps, alive, kids, hist>>

-----------------------------------------------------------------------------
(* install, by a listener about to be made or the child's first wait; it   *)
(* waits while another installs.                                           *)

install(a) ==
    /\ signal_at[a] = "new" /\ handler # "INSTALLING"
    /\ \/ handler = "INSTALLED" /\ SignalGoes(a, "installed") /\ UNCHANGED handler
       \/ handler = "IDLE" /\ handler' = "INSTALLING" /\ SignalGoes(a, "sigaction")
    /\ UNCHANGED <<caught, raised, writing, fd, count, dispatched, listens, pumps, alive, kids, hist>>

install_acts(a) ==
    /\ signal_at[a] = "sigaction"
    /\ \/ caught' = TRUE /\ SignalGoes(a, "store") /\ UNCHANGED failed
       \/ MayFail /\ failed' = TRUE /\ SignalGoes(a, "refused") /\ UNCHANGED caught
    /\ UNCHANGED <<handler, raised, writing, fd, count, dispatched, listens, pumps, alive, kids, signals>>

\* What a refusal ends: the listener is not made, the child's wait ends with the error.
install_stores(a) ==
    /\ signal_at[a] \in {"store", "refused"}
    /\ \/ signal_at[a] = "store" /\ handler' = "INSTALLED" /\ SignalGoes(a, "installed")
       \/ signal_at[a] = "refused" /\ handler' = "IDLE" /\ SignalGoes(a, "over")
    /\ UNCHANGED <<caught, raised, writing, fd, count, dispatched, listens, pumps, alive, kids, hist>>

-----------------------------------------------------------------------------
(* A listener.                                                             *)

\* Listener::new: among the waiters, it sees what comes from now on.
listener_new(l) ==
    /\ signal_at[l] = "installed" /\ seen' = [seen EXCEPT ![l] = count] /\ SignalGoes(l, "poll")
    /\ UNCHANGED <<sig, signal_waker, spot, pumps, alive, kids, hist>>

\* take: the count moved, one item however far.
Moved(l) == count # seen[l]

\* poll_recv, on a shard that runs or where none does.
poll_recv(l) ==
    /\ signal_at[l] = "poll" \/ (signal_at[l] = "pending" /\ ~signal_waker[l])
    /\ \E p \in alive \cup {Service} : spot' = [spot EXCEPT ![l] = p]
    /\ seen' = [seen EXCEPT ![l] = count] /\ SignalGoes(l, IF Moved(l) THEN "item" ELSE "register")
    /\ UNCHANGED <<sig, signal_waker, pumps, alive, kids, hist>>

signal_poll_registers(l) ==
    /\ signal_at[l] = "register" /\ signal_waker' = [signal_waker EXCEPT ![l] = TRUE] /\ SignalGoes(l, "ensure")
    /\ UNCHANGED <<sig, seen, spot, pumps, alive, kids, hist>>

signal_poll_looks_again(l) ==
    /\ signal_at[l] = "again" /\ seen' = [seen EXCEPT ![l] = count]
    /\ SignalGoes(l, IF Moved(l) THEN "item" ELSE "pending")
    /\ UNCHANGED <<sig, signal_waker, spot, pumps, alive, kids, hist>>

\* The item is taken: the stream is polled again, or goes.
item(l) ==
    /\ signal_at[l] = "item" /\ signal_at' \in {[signal_at EXCEPT ![l] = a] : a \in {"poll", "over"}}
    /\ UNCHANGED <<sig, listens, pumps, alive, kids, hist>>

-----------------------------------------------------------------------------
(* ensure_pump, by a listener's poll or the child's first wait.            *)

ensure_pump(a) ==
    /\ signal_at[a] = "ensure" /\ flag' = [flag EXCEPT ![spot[a]] = TRUE]
    /\ SignalGoes(a, IF flag[spot[a]] THEN "again" ELSE "spawn")
    /\ UNCHANGED <<sig, listens, pump, on, now, woken, drops, alive, kids, hist>>

\* spawn_service: on the shard, or a worker's for Service.
spawn_pump(a) ==
    /\ signal_at[a] = "spawn" /\ SignalGoes(a, "again")
    /\ \E s \in alive :
          /\ spot[a] # Service => s = spot[a]
          /\ on' = [on EXCEPT ![spot[a]] = s] /\ Pumps(spot[a], "wait")
    /\ UNCHANGED <<sig, listens, flag, now, woken, drops, alive, kids, hist>>

\* No handle for the descriptor: the flag is lowered, the next poll tries again.
spawn_fails(a) ==
    /\ MayFail /\ signal_at[a] = "spawn" /\ flag' = [flag EXCEPT ![spot[a]] = FALSE]
    /\ failed' = TRUE /\ SignalGoes(a, "again")
    /\ UNCHANGED <<sig, listens, pump, on, now, woken, drops, alive, kids, signals>>

-----------------------------------------------------------------------------
(* A pump.                                                                 *)

\* The read ends, in the driver: what it read is the source's until the task is polled.
pump_reads(p) ==
    /\ pump[p] = "wait" /\ fd /\ fd' = FALSE /\ Pumps(p, "read")
    /\ UNCHANGED <<handler, caught, raised, writing, count, dispatched, listens, signal_at, flag, on, now, woken, drops, alive, kids, hist>>

dispatch_loads(p) ==
    /\ pump[p] = "read" /\ now' = [now EXCEPT ![p] = count] /\ Pumps(p, "swap")
    /\ UNCHANGED <<sig, listens, signal_at, flag, on, woken, drops, alive, kids, hist>>

dispatch_swaps(p) ==
    /\ pump[p] = "swap" /\ dispatched' = now[p] /\ now' = [now EXCEPT ![p] = 0]
    /\ Pumps(p, IF dispatched # now[p] THEN "reap" ELSE "wait")
    /\ UNCHANGED <<handler, caught, raised, writing, fd, count, listens, signal_at, flag, on, woken, drops, alive, kids, hist>>

\* reap: the children held that exited.
Reaps ==
    /\ signal_child' = (IF held /\ signal_child = "zombie" THEN "reaped" ELSE signal_child)
    /\ held' = (held /\ signal_child # "zombie")

dispatch_reaps(p) ==
    /\ pump[p] = "reap" /\ Reaps /\ Pumps(p, "wake")
    /\ UNCHANGED <<sig, listens, signal_at, flag, on, now, woken, drops, alive, hist>>

Listening == {l \in Listeners : signal_at[l] \notin {"new", "sigaction", "store", "refused", "installed", "over"}}

\* One listener after another; then the pump reads on.
dispatch_wakes(p) ==
    /\ pump[p] = "wake"
    /\ \/ \E l \in Listening \ woken[p] :
             /\ signal_waker' = [signal_waker EXCEPT ![l] = FALSE] /\ woken' = [woken EXCEPT ![p] = @ \cup {l}]
             /\ UNCHANGED pump
       \/ /\ Listening \subseteq woken[p] /\ woken' = [woken EXCEPT ![p] = {}]
          /\ Pumps(p, "wait") /\ UNCHANGED signal_waker
    /\ UNCHANGED <<sig, seen, spot, signal_at, flag, on, now, drops, alive, kids, hist>>

Drop(p, s) == [place |-> p, shard |-> s, lowered |-> FALSE, woken |-> {}]

\* A shard goes, with the pumps suspended on it.
shard_goes(s) ==
    LET left == {p \in SignalPlaces : on[p] = s /\ pump[p] # "none"}
    IN  /\ s \in alive \ SignalStays /\ alive' = alive \ {s}
        /\ \A p \in left : pump[p] \in {"wait", "read"}
        /\ \A a \in Listeners \cup {Waiter} :
              spot[a] = s => signal_at[a] \notin {"register", "ensure", "spawn", "again"}
        /\ pump' = [p \in SignalPlaces |-> IF p \in left THEN "none" ELSE pump[p]]
        /\ on' = [p \in SignalPlaces |-> IF p \in left THEN None ELSE on[p]]
        /\ drops' = drops \cup {Drop(p, s) : p \in left}
        /\ UNCHANGED <<sig, listens, signal_at, flag, now, woken, kids, hist>>

\* The drop of Pumping: the flag, then every listener.
pumping_drops(d) ==
    /\ ~d.lowered /\ flag' = [flag EXCEPT ![d.place] = FALSE]
    /\ drops' = (drops \ {d}) \cup {[d EXCEPT !.lowered = TRUE]}
    /\ UNCHANGED <<sig, listens, signal_at, pump, on, now, woken, alive, kids, hist>>

wake_every_listener(d) ==
    /\ d.lowered
    /\ \/ \E l \in Listening \ d.woken :
             /\ signal_waker' = [signal_waker EXCEPT ![l] = FALSE]
             /\ drops' = (drops \ {d}) \cup {[d EXCEPT !.woken = @ \cup {l}]}
       \/ Listening \subseteq d.woken /\ drops' = drops \ {d} /\ UNCHANGED signal_waker
    /\ UNCHANGED <<sig, seen, spot, signal_at, flag, pump, on, now, woken, alive, kids, hist>>

-----------------------------------------------------------------------------
(* fallback::watch, at the child's first wait.                             *)

watch_holds ==
    /\ signal_at[Waiter] = "installed" /\ held' = TRUE /\ SignalGoes(Waiter, "ensure")
    /\ \E p \in alive \cup {Service} : spot' = [spot EXCEPT ![Waiter] = p]
    /\ UNCHANGED <<sig, seen, signal_waker, pumps, alive, signal_child, hist>>

watch_reaps ==
    /\ signal_at[Waiter] = "again" /\ Reaps /\ SignalGoes(Waiter, "pending")
    /\ spot' = [spot EXCEPT ![Waiter] = Service]
    /\ UNCHANGED <<sig, seen, signal_waker, pumps, alive, hist>>

-----------------------------------------------------------------------------
Listen(l) ==
    \/ listener_new(l) \/ poll_recv(l) \/ signal_poll_registers(l) \/ signal_poll_looks_again(l) \/ item(l)

Ensures(a) ==
    \/ install(a) \/ install_acts(a) \/ install_stores(a)
    \/ ensure_pump(a) \/ spawn_pump(a) \/ spawn_fails(a)

Pumping(p) ==
    \/ pump_reads(p) \/ dispatch_loads(p) \/ dispatch_swaps(p) \/ dispatch_reaps(p)
    \/ dispatch_wakes(p)

SignalNext ==
    \/ Raise \/ ChildExits \/ delivered \/ on_signal
    \/ \E l \in Listeners : Listen(l)
    \/ \E a \in Listeners \cup {Waiter} : Ensures(a)
    \/ \E p \in SignalPlaces : Pumping(p)
    \/ \E s \in Shards : shard_goes(s)
    \/ \E d \in drops : pumping_drops(d) \/ wake_every_listener(d)
    \/ watch_holds \/ watch_reaps

SignalSpec == SignalInit /\ [][SignalNext]_signal_vars

-----------------------------------------------------------------------------
\* No code runs: no signal is on its way, and each pump waits on an empty descriptor.
Quiet ==
    /\ ~raised /\ writing = 0 /\ drops = {}
    /\ \A p \in SignalPlaces : pump[p] = "none" \/ (pump[p] = "wait" /\ ~fd)
    /\ \A a \in Listeners \cup {Waiter} : signal_at[a] \in {"new", "poll", "pending", "item", "over"}

\* No delivery is missed: when nothing runs any more no listener waits, unwoken, for a delivery
\* it has not seen, whatever pump read it and whatever shard went with its pump (signal/mod.rs:
\* poll_recv, dispatch; signal/unix.rs: on_signal, Pumping::drop).
NoneMissed ==
    Quiet /\ ~failed => \A l \in Listeners : signal_at[l] = "pending" /\ signal_waker[l] => ~Moved(l)

\* A listener that waits has a pump: when nothing runs any more, a listener that waits unwoken
\* was last polled at a place a pump serves.
Served ==
    Quiet /\ ~failed => \A l \in Listeners : signal_at[l] = "pending" /\ signal_waker[l] => pump[spot[l]] = "wait"
==============================================================================
