------------------------------ MODULE Sleep ------------------------------
(***************************************************************************)
(* Sleeps (Timer of time/sleep.rs), the shards whose wheels they are armed *)
(* in (rt/shard/timers.rs), and the mailbox between them (post_timer of    *)
(* rt/shard.rs, Counted of rt/shard/counted.rs).  A sleep polled on a      *)
(* shard arms that shard's wheel; one polled elsewhere posts a cell to a   *)
(* worker's shard.  A sleep may be carried to another thread between two   *)
(* polls, reset or dropped, and a shard may go with timers armed.  A wheel *)
(* is the set of deadlines of module Deadlines; an AtomicWaker is a field. *)
(***************************************************************************)
EXTENDS Integers, Sequences, FiniteSets, SequencesExt, Bitwise

CONSTANTS
    Shards, Sleeps, Outside, None,
    MaxTime,    \* bound: the latest time, in nanoseconds
    UNIT,       \* nanoseconds of a unit of the wheel
    MaxMoves,   \* bound: the carries and resets of a sleep
    MaxCells    \* bound: the times a sleep is armed remotely

Cells == Sleeps \X (1..MaxCells)
Times == 1..MaxTime

VARIABLES
    clock,
    deadline, state, place, woken, pc, op, then, moves, made,   \* of each sleep
    cell,       \* RemoteTimer
    entries, elapsed,           \* each shard's wheel
    queue, count,               \* its timer_ops
    stopped, at, parked, token, due, firing,    \* the shard and its thread
    taker       \* the take_all under way by each thread

svars == <<deadline, state, place, woken, pc, op, then, moves, made>>
hvars == <<stopped, at, parked, token, due, firing>>
wvars == <<entries, elapsed>>
qvars == <<queue, count>>
vars == <<clock, svars, cell, wvars, qvars, hvars, taker>>

Idle == [kind |-> "idle"]
Unmade == [fired |-> FALSE, cancelled |-> FALSE, orphaned |-> FALSE, waker |-> FALSE, key |-> None]
Rest == [of |-> None, counted |-> 0, taken |-> 0]

Init ==
    /\ clock = 0 /\ deadline \in [Sleeps -> Times] /\ state = [t \in Sleeps |-> Idle]
    /\ place \in [Sleeps -> Shards \cup {Outside}] /\ woken = [t \in Sleeps |-> TRUE]
    /\ pc = [t \in Sleeps |-> "wait"] /\ op = [t \in Sleeps |-> None] /\ then = [t \in Sleeps |-> "wait"]
    /\ moves = [t \in Sleeps |-> 0] /\ made = [t \in Sleeps |-> 0]
    /\ cell = [c \in Cells |-> Unmade]
    /\ entries = [s \in Shards |-> {}] /\ elapsed = [s \in Shards |-> 0]
    /\ queue = [s \in Shards |-> <<>>] /\ count = [s \in Shards |-> 0]
    /\ stopped = [s \in Shards |-> FALSE] /\ at = [s \in Shards |-> "run"]
    /\ parked = [s \in Shards |-> FALSE] /\ token = [s \in Shards |-> FALSE]
    /\ due = [s \in Shards |-> None] /\ firing = [s \in Shards |-> {}]
    /\ taker = [x \in Shards \cup Sleeps |-> Rest]

-----------------------------------------------------------------------------

\* time_of: the first unit at which the deadline has passed.
time_of(nanos) == (nanos + UNIT - 1) \div UNIT

wheel_now == clock \div UNIT

Goes(t, where) == pc' = [pc EXCEPT ![t] = where]
Becomes(t, st) == state' = [state EXCEPT ![t] = st]

\* A task's thread polls between two steps of its shard, and is the shard's while it does.
Here(t) == place[t] # Outside => at[place[t]] = "run"
Free(s) == \A t \in Sleeps : place[t] = s => pc[t] \in {"wait", "done", "gone"}

\* Waking a task makes its shard look.
Wake(ts) ==
    /\ woken' = [t \in Sleeps |-> woken[t] \/ t \in ts]
    /\ token' = [s \in Shards |-> token[s] \/ \E t \in ts : place[t] = s]

-----------------------------------------------------------------------------
(* post_timer, by the thread that polls, resets or drops sleep t.          *)

Post(t, s, o, next) ==
    /\ op' = [op EXCEPT ![t] = [shard |-> s, op |-> o]]
    /\ then' = [then EXCEPT ![t] = next] /\ Goes(t, "push")

push(t) ==
    /\ pc[t] = "push" /\ Goes(t, "count")
    /\ queue' = [queue EXCEPT ![op[t].shard] = Append(@, op[t].op)]
    /\ UNCHANGED <<clock, deadline, state, place, woken, op, then, moves, made, cell, wvars, count, hvars, taker>>

push_counts(t) ==
    /\ pc[t] = "count" /\ Goes(t, "look")
    /\ count' = [count EXCEPT ![op[t].shard] = @ + 1]
    /\ UNCHANGED <<clock, deadline, state, place, woken, op, then, moves, made, cell, wvars, queue, hvars, taker>>

post_timer_looks(t) ==
    /\ pc[t] = "look" /\ Goes(t, IF stopped[op[t].shard] THEN "drain" ELSE "wake")
    /\ UNCHANGED <<clock, deadline, state, place, woken, op, then, moves, made, cell, wvars, qvars, hvars, taker>>

\* needs_wake: an insert alone, the clock unaltered.
post_timer_wakes(t) ==
    /\ pc[t] = "wake" /\ Goes(t, then[t])
    /\ token' = [token EXCEPT ![op[t].shard] = @ \/ (op[t].op.kind = "insert" /\ parked[op[t].shard])]
    /\ UNCHANGED <<clock, deadline, state, place, woken, op, then, moves, made, cell, wvars, qvars,
                   stopped, at, parked, due, firing, taker>>

-----------------------------------------------------------------------------
(* Counted::take_all, by thread x: a sleep's, or a shard's.                *)

Begins(x, s) == taker' = [taker EXCEPT ![x] = [of |-> s, counted |-> count[s], taken |-> 0]]

More(x) == taker[x].taken < taker[x].counted /\ queue[taker[x].of] # <<>>

Takes(x) ==
    /\ More(x) /\ queue' = [queue EXCEPT ![taker[x].of] = Tail(@)]
    /\ taker' = [taker EXCEPT ![x].taken = @ + 1]

Ends(x) ==
    /\ ~More(x) /\ count' = [count EXCEPT ![taker[x].of] = @ - taker[x].taken]
    /\ taker' = [taker EXCEPT ![x] = Rest]

\* RemoteTimer::orphan of a set of cells, and the wakes.
Orphans(cs) ==
    LET told == {c \in cs : ~cell[c].fired /\ ~cell[c].cancelled}
    IN  /\ cell' = [c \in Cells |-> IF c \in told THEN [cell[c] EXCEPT !.orphaned = TRUE, !.waker = FALSE]
                                   ELSE cell[c]]
        /\ Wake({c[1] : c \in {c \in told : cell[c].waker}})

OrphanOf(o) == IF o.kind = "insert" THEN {o.cell} ELSE {}

\* drain_timer_ops, by a poster that found the shard stopped.
drain_begins(t) ==
    /\ pc[t] = "drain" /\ Begins(t, op[t].shard) /\ Goes(t, "draining")
    /\ UNCHANGED <<clock, deadline, state, place, woken, op, then, moves, made, cell, wvars, qvars, hvars>>

drain_takes(t) ==
    /\ pc[t] = "draining" /\ Takes(t) /\ Orphans(OrphanOf(Head(queue[op[t].shard])))
    /\ UNCHANGED <<clock, deadline, state, place, pc, op, then, moves, made, wvars, count,
                   stopped, at, parked, due, firing>>

drain_ends(t) ==
    /\ pc[t] = "draining" /\ Ends(t) /\ Goes(t, then[t])
    /\ UNCHANGED <<clock, deadline, state, place, woken, op, then, moves, made, cell, wvars, queue, hvars>>

-----------------------------------------------------------------------------
(* The sleep.                                                              *)

Fired(t) == state[t].key \notin {e.key : e \in entries[state[t].shard]}

Without(s, k) == [entries EXCEPT ![s] = {e \in @ : e.key # k}]

\* release_armed: what t is armed as goes, and the thread goes on at `next`.
release_armed(t, next) ==
    /\ Becomes(t, Idle)
    /\ \/ /\ state[t].kind = "local" /\ place[t] = state[t].shard
          /\ entries' = Without(state[t].shard, state[t].key)
          /\ Goes(t, next) /\ UNCHANGED <<op, then, cell>>
       \/ /\ state[t].kind = "local" /\ place[t] # state[t].shard
          /\ Post(t, state[t].shard, [kind |-> "remove", key |-> state[t].key], next)
          /\ UNCHANGED <<entries, cell>>
       \/ /\ state[t].kind = "remote"
          /\ cell' = [cell EXCEPT ![state[t].cell].cancelled = TRUE, ![state[t].cell].waker = FALSE]
          /\ Post(t, state[t].shard, [kind |-> "cancel", cell |-> state[t].cell], next)
          /\ UNCHANGED entries
       \/ state[t].kind = "idle" /\ Goes(t, next) /\ UNCHANGED <<op, then, entries, cell>>

\* poll: where the state is the shard's own, its wheel says.
poll_any(t) ==
    /\ pc[t] = "wait" /\ woken[t] /\ Here(t) /\ woken' = [woken EXCEPT ![t] = FALSE]
    /\ CASE state[t].kind = "local" /\ state[t].shard = place[t] ->
                /\ Goes(t, IF Fired(t) THEN "done" ELSE "wait")
                /\ UNCHANGED <<state, op, then, entries, cell>>
         [] state[t].kind = "remote" ->
                /\ Goes(t, IF cell[state[t].cell].fired THEN "done" ELSE "register")
                /\ UNCHANGED <<state, op, then, entries, cell>>
         [] OTHER -> release_armed(t, "arm")
    /\ UNCHANGED <<clock, deadline, place, moves, made, elapsed, qvars, hvars, taker>>

poll_cell_registers(t) ==
    /\ pc[t] = "register" /\ Goes(t, "again")
    /\ cell' = [cell EXCEPT ![state[t].cell].waker = TRUE]
    /\ UNCHANGED <<clock, deadline, state, place, woken, op, then, moves, made, wvars, qvars, hvars, taker>>

poll_cell_again(t) ==
    /\ pc[t] = "again"
    /\ LET c == cell[state[t].cell]
       IN  \/ c.fired /\ Goes(t, "done") /\ UNCHANGED state
           \/ ~c.fired /\ c.orphaned /\ Goes(t, "arm") /\ Becomes(t, Idle)
           \/ ~c.fired /\ ~c.orphaned /\ Goes(t, "wait") /\ UNCHANGED state
    /\ UNCHANGED <<clock, deadline, place, woken, op, then, moves, made, cell, wvars, qvars, hvars, taker>>

\* The end of poll_local, on a shard.  A wheel at the deadline already arms nothing.
poll_local(t) ==
    /\ pc[t] = "arm" /\ place[t] # Outside /\ made' = [made EXCEPT ![t] = @ + 1]
    /\ LET s == place[t]
           k == <<t, made'[t]>>
       IN  \/ /\ clock >= deadline[t] \/ time_of(deadline[t]) <= elapsed[s]
              /\ Goes(t, "done") /\ UNCHANGED <<state, entries>>
           \/ /\ clock < deadline[t] /\ time_of(deadline[t]) > elapsed[s]
              /\ entries' = [entries EXCEPT ![s] = @ \cup {[key |-> k, at |-> time_of(deadline[t]), wakes |-> "task"]}]
              /\ Becomes(t, [kind |-> "local", shard |-> s, key |-> k]) /\ Goes(t, "wait")
    /\ UNCHANGED <<clock, deadline, place, woken, op, then, moves, cell, elapsed, qvars, hvars, taker>>

\* The end of poll_remote: a new cell, registered with, goes to a shard that takes tasks.
poll_remote(t) ==
    /\ pc[t] = "arm" /\ place[t] = Outside
    /\ \/ /\ clock >= deadline[t] /\ Goes(t, "done") /\ UNCHANGED <<state, op, then, made, cell>>
       \/ /\ clock < deadline[t] /\ made[t] < MaxCells /\ made' = [made EXCEPT ![t] = @ + 1]
          /\ \E s \in {s \in Shards : ~stopped[s]} :
                LET c == <<t, made'[t]>>
                IN  /\ cell' = [cell EXCEPT ![c].waker = TRUE]
                    /\ Becomes(t, [kind |-> "remote", shard |-> s, cell |-> c])
                    /\ Post(t, s, [kind |-> "insert", cell |-> c, at |-> deadline[t]], "wait")
    /\ UNCHANGED <<clock, deadline, place, woken, moves, wvars, qvars, hvars, taker>>

\* Timer::drop, wherever the sleep's task is.
drop(t) ==
    /\ pc[t] = "wait" /\ Here(t) /\ release_armed(t, "gone")
    /\ UNCHANGED <<clock, deadline, place, woken, moves, made, elapsed, qvars, hvars, taker>>

\* reset, and the poll its task makes.
reset(t) ==
    /\ pc[t] = "wait" /\ Here(t) /\ moves[t] < MaxMoves /\ moves' = [moves EXCEPT ![t] = @ + 1]
    /\ release_armed(t, "wait") /\ woken' = [woken EXCEPT ![t] = TRUE]
    /\ \E d \in Times : deadline' = [deadline EXCEPT ![t] = d]
    /\ UNCHANGED <<clock, place, made, elapsed, qvars, hvars, taker>>

\* The sleep's owner hands it to a task of another thread, which polls it.
Carry(t) ==
    /\ pc[t] = "wait" /\ Here(t) /\ moves[t] < MaxMoves /\ moves' = [moves EXCEPT ![t] = @ + 1]
    /\ \E p \in (Shards \cup {Outside}) \ {place[t]} :
        /\ p # Outside => ~stopped[p]
        /\ place' = [place EXCEPT ![t] = p]
        /\ token' = IF p = Outside THEN token ELSE [token EXCEPT ![p] = TRUE]
    /\ woken' = [woken EXCEPT ![t] = TRUE]
    /\ UNCHANGED <<clock, deadline, state, pc, op, then, made, cell, wvars, qvars, stopped, at, parked, due, firing, taker>>

-----------------------------------------------------------------------------
(* The shard's thread: fire_timers, the park, and going.                   *)

At(s, where) == at' = [at EXCEPT ![s] = where]

\* fire_timers, in a turn of the loop or in the park: nothing posted and nothing armed,
\* it returns at once.
apply_begins(s) ==
    /\ at[s] \in {"run", "looked"} /\ Free(s)
    /\ count[s] # 0 \/ entries[s] # {}
    /\ Begins(s, s) /\ At(s, "apply")
    /\ UNCHANGED <<clock, svars, cell, wvars, qvars, stopped, parked, token, due, firing>>

\* TimerOp::apply.
apply(s) ==
    /\ at[s] = "apply" /\ Takes(s)
    /\ LET o == Head(queue[s])
       IN  CASE o.kind = "insert" /\ cell[o.cell].cancelled -> UNCHANGED <<cell, entries, woken, token>>
             [] o.kind = "insert" /\ ~cell[o.cell].cancelled /\ time_of(o.at) <= elapsed[s] ->
                    /\ cell' = [cell EXCEPT ![o.cell].fired = TRUE, ![o.cell].waker = FALSE]
                    /\ Wake(IF cell[o.cell].waker THEN {o.cell[1]} ELSE {}) /\ UNCHANGED entries
             [] o.kind = "insert" /\ ~cell[o.cell].cancelled /\ time_of(o.at) > elapsed[s] ->
                    /\ entries' = [entries EXCEPT ![s] = @ \cup {[key |-> o.cell, at |-> time_of(o.at), wakes |-> "cell"]}]
                    /\ cell' = [cell EXCEPT ![o.cell].key = o.cell] /\ UNCHANGED <<woken, token>>
             [] o.kind = "remove" -> entries' = Without(s, o.key) /\ UNCHANGED <<cell, woken, token>>
             [] o.kind = "cancel" ->
                    /\ entries' = IF cell[o.cell].key = None THEN entries ELSE Without(s, cell[o.cell].key)
                    /\ cell' = [cell EXCEPT ![o.cell].key = None] /\ UNCHANGED <<woken, token>>
    /\ UNCHANGED <<clock, deadline, state, place, pc, op, then, moves, made, elapsed, count,
                   stopped, at, parked, due, firing>>

\* The wheel advances, and its wakers are taken out.  A cell is marked first.
fire_armed_timers(s) ==
    LET out == {e \in entries[s] : e.at <= wheel_now}
        cells == {e.key : e \in {e \in out : e.wakes = "cell"}}
    IN  /\ at[s] = "apply" /\ Ends(s) /\ At(s, "fire")
        /\ entries' = [entries EXCEPT ![s] = @ \ out]
        /\ elapsed' = [elapsed EXCEPT ![s] = IF entries[s] = {} THEN @ ELSE wheel_now]
        /\ cell' = [c \in Cells |-> IF c \in cells THEN [cell[c] EXCEPT !.key = None, !.fired = TRUE] ELSE cell[c]]
        /\ firing' = [firing EXCEPT ![s] = cells]
        /\ Wake({e.key[1] : e \in {e \in out : e.wakes = "task"}})
        /\ UNCHANGED <<clock, deadline, state, place, pc, op, then, moves, made, queue, stopped, parked, due>>

\* RemoteTimer::fire's wake.
fire(s) ==
    /\ at[s] = "fire"
    /\ \E c \in firing[s] :
        /\ firing' = [firing EXCEPT ![s] = @ \ {c}] /\ cell' = [cell EXCEPT ![c].waker = FALSE]
        /\ Wake(IF cell[c].waker THEN {c[1]} ELSE {})
    /\ UNCHANGED <<clock, deadline, state, place, pc, op, then, moves, made, wvars, qvars, stopped, at, parked, due, taker>>

\* The end of fire_timers: a park waits until the wheel's next deadline.
timer_wait(s) ==
    /\ \/ at[s] = "fire" /\ firing[s] = {}
       \/ at[s] = "looked" /\ count[s] = 0 /\ entries[s] = {}
    /\ At(s, IF parked[s] THEN "sleep" ELSE "run")
    /\ due' = [due EXCEPT ![s] = IF ~parked[s] \/ entries[s] = {} THEN None
                                 ELSE CHOOSE d \in {e.at : e \in entries[s]} : \A e \in entries[s] : d <= e.at]
    /\ UNCHANGED <<clock, svars, cell, wvars, qvars, stopped, parked, token, firing, taker>>

announce(s) ==
    /\ at[s] = "run" /\ Free(s) /\ \A t \in Sleeps : place[t] = s => ~woken[t] \/ pc[t] # "wait"
    /\ parked' = [parked EXCEPT ![s] = TRUE] /\ At(s, "announced")
    /\ UNCHANGED <<clock, svars, cell, wvars, qvars, stopped, token, due, firing, taker>>

\* has_posted_ops_seqcst: work found, the shard sees to it and does not sleep.
last_look(s) ==
    /\ at[s] = "announced"
    /\ At(s, "looked") /\ parked' = [parked EXCEPT ![s] = count[s] = 0]
    /\ UNCHANGED <<clock, svars, cell, wvars, qvars, stopped, token, due, firing, taker>>

park_ends(s) ==
    /\ at[s] = "sleep"
    /\ ~token[s] => due[s] # None /\ wheel_now >= due[s]
    /\ parked' = [parked EXCEPT ![s] = FALSE] /\ token' = [token EXCEPT ![s] = FALSE]
    /\ At(s, "run") /\ due' = [due EXCEPT ![s] = None]
    /\ UNCHANGED <<clock, svars, cell, wvars, qvars, stopped, firing, taker>>

\* The shard is dropped, its tasks dropped before.  Another stays.
go(s) ==
    /\ at[s] = "run" /\ ~stopped[s] /\ \E r \in Shards \ {s} : ~stopped[r]
    /\ \A t \in Sleeps : place[t] = s => pc[t] \in {"done", "gone"}
    /\ stopped' = [stopped EXCEPT ![s] = TRUE] /\ At(s, "drain")
    /\ UNCHANGED <<clock, svars, cell, wvars, qvars, parked, token, due, firing, taker>>

go_drains(s) ==
    /\ at[s] = "drain" /\ Begins(s, s) /\ At(s, "draining")
    /\ UNCHANGED <<clock, svars, cell, wvars, qvars, stopped, parked, token, due, firing>>

drain_timer_ops(s) ==
    /\ at[s] = "draining" /\ Takes(s) /\ Orphans(OrphanOf(Head(queue[s])))
    /\ UNCHANGED <<clock, deadline, state, place, pc, op, then, moves, made, wvars, count,
                   stopped, at, parked, due, firing>>

drain_timer_ops_ends(s) ==
    /\ at[s] = "draining" /\ Ends(s) /\ At(s, "wakers")
    /\ UNCHANGED <<clock, svars, cell, wvars, queue, stopped, parked, token, due, firing>>

\* take_wakers: the wakers of the wheel are dropped, and an armed cell's is an orphan's.
take_wakers(s) ==
    /\ at[s] = "wakers" /\ At(s, "gone") /\ entries' = [entries EXCEPT ![s] = {}]
    /\ Orphans({e.key : e \in {e \in entries[s] : e.wakes = "cell"}})
    /\ UNCHANGED <<clock, deadline, state, place, pc, op, then, moves, made, elapsed, qvars,
                   stopped, parked, due, firing, taker>>

Tick == clock < MaxTime /\ clock' = clock + 1 /\ UNCHANGED <<svars, cell, wvars, qvars, hvars, taker>>

SleepStep(t) ==
    \/ push(t) \/ push_counts(t) \/ post_timer_looks(t) \/ post_timer_wakes(t)
    \/ drain_begins(t) \/ drain_takes(t) \/ drain_ends(t)
    \/ poll_any(t) \/ poll_cell_registers(t) \/ poll_cell_again(t) \/ poll_local(t) \/ poll_remote(t)

Turn(s) == apply_begins(s) \/ announce(s)
Inner(s) ==
    \/ apply(s) \/ fire_armed_timers(s) \/ fire(s) \/ timer_wait(s) \/ last_look(s) \/ park_ends(s)
    \/ (at[s] = "looked" /\ apply_begins(s))
    \/ go_drains(s) \/ drain_timer_ops(s) \/ drain_timer_ops_ends(s) \/ take_wakers(s)

Next ==
    \/ \E t \in Sleeps : SleepStep(t) \/ drop(t) \/ reset(t) \/ Carry(t)
    \/ \E s \in Shards : Turn(s) \/ Inner(s) \/ go(s)
    \/ Tick

Fairness ==
    /\ WF_vars(Tick)
    /\ \A t \in Sleeps : SF_vars(SleepStep(t))
    /\ \A s \in Shards : WF_vars(Inner(s)) /\ WF_vars(announce(s))

Spec == Init /\ [][Next]_vars
FairSpec == Spec /\ Fairness

-----------------------------------------------------------------------------
\* A sleep is ready at its deadline or after it: the conversion to the wheel's units,
\* the wheel and the cell never make it early.
NotEarly == \A t \in Sleeps : pc[t] = "done" => clock >= deadline[t]

\* A sleep that waits on a cell neither fired nor orphaned is held by someone who will
\* end it: its insert is in a mailbox that a thread will empty, or its entry in a wheel
\* that still turns or will be emptied.
Holding(s, c) ==
    \/ c \in {e.key : e \in entries[s]} /\ at[s] # "gone"
    \/ /\ \E i \in DOMAIN queue[s] : queue[s][i].kind = "insert" /\ queue[s][i].cell = c
       /\ \/ at[s] \notin {"wakers", "gone"}
          \/ \E t \in Sleeps : op[t] # None /\ op[t].shard = s /\ pc[t] \in {"count", "look", "drain", "draining"}
CellHeld ==
    \A t \in Sleeps :
        LET c == cell[state[t].cell]
        IN  (state[t].kind = "remote" /\ pc[t] = "wait" /\ ~woken[t] /\ ~c.fired /\ ~c.orphaned)
                => c.waker /\ Holding(state[t].shard, state[t].cell)

\* An entry that no sleep waits for is on its way out of the wheel: no timer of a dropped,
\* reset or carried sleep stays behind.
NoLeak ==
    \A s \in Shards : \A e \in entries[s] :
        LET t == e.key[1]
            Asked(o) == (o.kind = "remove" /\ o.key = e.key) \/ (o.kind = "cancel" /\ o.cell = e.key)
        IN  \/ state[t].kind = "local" /\ state[t].key = e.key
            \/ state[t].kind = "remote" /\ state[t].cell = e.key
            \/ \E i \in DOMAIN queue[s] : Asked(queue[s][i])
            \/ pc[t] = "push" /\ Asked(op[t].op)
            \/ stopped[s]

\* A sleep that is polled when woken, and not dropped, is over once time reaches its
\* deadline, whichever shard goes and wherever it is polled.
Over(t) == pc[t] \in {"done", "gone"}

------------------------------------------------------------------------------
(***************************************************************************)
(* A shard's timing wheel (time/wheel.rs): levels of slots, a slab of      *)
(* entries with generations, and the cascade that moves a timer down until *)
(* it fires.  The wheel is one record; an operation is a function of it.   *)
(* A slot's list is a sequence, and the bitmaps are sets.                  *)
(***************************************************************************)

CONSTANTS
    SLOT_BITS, LEVELS,
    WheelMaxTime,    \* bound: the latest time and deadline
    MaxEntries, \* bound: timers at a time
    MaxGen,     \* bound: the releases of an entry
    Wakers, NoWaker

SLOTS == 2 ^ SLOT_BITS
SPAN == 2 ^ (SLOT_BITS * LEVELS)
Levels == 0..(LEVELS - 1)
WheelTimes == 0..WheelMaxTime

VARIABLES
    wheel,      \* Wheel
    answer      \* what the last call gave: the timers fired, in order

wheel_vars == <<wheel, answer>>

new ==
    [elapsed |-> 0, heads |-> [l \in Levels |-> [s \in 0..(SLOTS - 1) |-> <<>>]],
     occupied |-> [l \in Levels |-> {}], entries |-> <<>>, free |-> <<>>, armed |-> 0, phantom |-> 0]

WheelInit == wheel = new /\ answer = <<>>

-----------------------------------------------------------------------------
(* Where a deadline goes.                                                  *)

Lesser(a, b) == IF a <= b THEN a ELSE b

level_for(passed, when) ==
    LET masked == Lesser((passed ^^ when) | (SLOTS - 1), SPAN - 1)
        significant == CHOOSE b \in 0..(SLOT_BITS * LEVELS) : 2 ^ b <= masked /\ masked < 2 ^ (b + 1)
    IN  significant \div SLOT_BITS

slot_for(when, level) == (when \div 2 ^ (level * SLOT_BITS)) % SLOTS

\* A deadline past the span goes to its edge.
link(w, i) ==
    LET placed == Lesser(w.entries[i].when, w.elapsed + SPAN - 1)
        level == level_for(w.elapsed, placed)
        slot == slot_for(placed, level)
    IN  [w EXCEPT !.heads[level][slot] = <<i>> \o @, !.occupied[level] = @ \cup {slot},
                  !.entries[i].place = <<level, slot>>, !.armed = @ + 1]

unlink(w, i) ==
    LET level == w.entries[i].place[1]
        slot == w.entries[i].place[2]
        rest == SelectSeq(w.heads[level][slot], LAMBDA k : k # i)
    IN  [w EXCEPT !.heads[level][slot] = rest,
                  !.occupied[level] = IF rest = <<>> THEN @ \ {slot} ELSE @,
                  !.armed = @ - 1]

-----------------------------------------------------------------------------
(* The slab.                                                               *)

grow(w) == [w EXCEPT !.entries = Append(@, [when |-> 0, waker |-> NoWaker, generation |-> 0,
                                             place |-> <<>>])]

\* The free entry that alloc gives, and the wheel that gave it.
alloc(w) ==
    IF w.free # <<>> THEN <<Head(w.free), [w EXCEPT !.free = Tail(@)]>>
    ELSE <<Len(w.entries) + 1, grow(w)>>

release(w, i) ==
    [w EXCEPT !.entries[i].waker = NoWaker, !.entries[i].place = <<>>,
              !.entries[i].generation = @ + 1, !.free = <<i>> \o @]

Key == (1..MaxEntries) \X (0..MaxGen)

\* entry and live: the index a key reaches, if its timer is there.
live(w, k) ==
    k[1] \in DOMAIN w.entries /\ w.entries[k[1]].generation = k[2] /\ w.entries[k[1]].place # <<>>

-----------------------------------------------------------------------------
(* The scan for the next slot, and the cascade.                            *)

Least(S) == CHOOSE n \in S : \A m \in S : n <= m

\* The next slot of a level, and its time: after the wheel's position in this window, or,
\* on the top level alone, in the next.
SlotOf(w, level) ==
    LET shift == 2 ^ (level * SLOT_BITS)
        range == shift * SLOTS
        window == (w.elapsed \div range) * range
        after == {s \in w.occupied[level] : s > slot_for(w.elapsed, level)}
    IN  IF after # {} THEN [level |-> level, slot |-> Least(after), at |-> window + Least(after) * shift]
        ELSE LET s == Least(w.occupied[level])
             IN  [level |-> level, slot |-> s, at |-> window + range + s * shift]

Ahead(w) == {SlotOf(w, l) : l \in {l \in Levels : w.occupied[l] # {}}}

\* The earliest, and of those the lowest.
next_slot(w) ==
    CHOOSE c \in Ahead(w) : \A d \in Ahead(w) : c.at < d.at \/ (c.at = d.at /\ c.level <= d.level)

\* An entry of a slot the wheel reached: due, it fires, and otherwise it is placed again.
Visit(now, st, i) ==
    LET w == [st.wheel EXCEPT !.armed = @ - 1]
    IN  IF w.entries[i].when <= now
        THEN [wheel |-> release(w, i),
              fired |-> Append(st.fired, [key |-> <<i, w.entries[i].generation>>,
                                          when |-> w.entries[i].when, waker |-> w.entries[i].waker])]
        ELSE [wheel |-> link(w, i), fired |-> st.fired]

RECURSIVE Cascade(_, _)
Cascade(st, now) ==
    IF Ahead(st.wheel) = {} \/ next_slot(st.wheel).at > now THEN st
    ELSE LET c == next_slot(st.wheel)
             list == st.wheel.heads[c.level][c.slot]
             where == [st.wheel EXCEPT !.elapsed = c.at, !.heads[c.level][c.slot] = <<>>,
                                    !.occupied[c.level] = @ \ {c.slot}]
         IN  Cascade(FoldLeft(LAMBDA s, i : Visit(now, s, i), [wheel |-> where, fired |-> st.fired], list), now)

-----------------------------------------------------------------------------
(* The calls.                                                              *)

insert(when, waker) ==
    /\ answer' = <<>>
    /\ \/ when <= wheel.elapsed /\ UNCHANGED wheel
       \/ /\ when > wheel.elapsed
          /\ LET a == alloc(wheel)
             IN  wheel' = link([a[2] EXCEPT !.entries[a[1]].when = when, !.entries[a[1]].waker = waker], a[1])

remove(k) ==
    /\ live(wheel, k) /\ answer' = <<>> /\ wheel' = release(unlink(wheel, k[1]), k[1])

replace_waker(k, waker) ==
    /\ live(wheel, k) /\ answer' = <<>> /\ wheel' = [wheel EXCEPT !.entries[k[1]].waker = waker]

\* The shard goes: no timer wakes any more.
wheel_take_wakers ==
    /\ answer' = <<>>
    /\ wheel' = [wheel EXCEPT !.entries = [i \in DOMAIN @ |-> [@[i] EXCEPT !.waker = NoWaker]]]

set_phantom(n) ==
    /\ answer' = <<>> /\ wheel' = [wheel EXCEPT !.armed = @ - wheel.phantom + n, !.phantom = n]

advance(now) ==
    LET done == Cascade([wheel |-> wheel, fired |-> <<>>], now)
    IN  /\ wheel' = [done.wheel EXCEPT !.elapsed = IF @ >= now THEN @ ELSE now]
        /\ answer' = done.fired

Room == Cardinality({i \in DOMAIN wheel.entries : wheel.entries[i].place # <<>>}) < MaxEntries

WheelNext ==
    \/ \E when \in WheelTimes, waker \in Wakers : Room /\ insert(when, waker)
    \/ \E k \in Key : k[2] < MaxGen /\ remove(k)
    \/ \E k \in Key, waker \in Wakers : replace_waker(k, waker)
    \/ \E now \in WheelTimes : (\A i \in DOMAIN wheel.entries : wheel.entries[i].generation < MaxGen) /\ advance(now)
    \/ \E n \in 0..1 : set_phantom(n)
    \/ wheel_take_wakers

WheelSpec == WheelInit /\ [][WheelNext]_wheel_vars

-----------------------------------------------------------------------------
Armed == {k \in Key : live(wheel, k)}

Timers == INSTANCE Deadlines WITH
    armed <- [k \in Armed |-> wheel.entries[k[1]].when],
    now <- wheel.elapsed,
    fired <- {answer[i].key : i \in DOMAIN answer}

TimersStep == UNCHANGED Timers!vars \/ Timers!Next

\* next_deadline, what a park waits for at most, is after the wheel's time and not after
\* the first deadline armed; and `armed` counts the timers, with the phantom ones.
ParkIsShort ==
    /\ wheel.armed = Cardinality(Armed) + wheel.phantom
    /\ (Armed # {}) = (Ahead(wheel) # {})
    /\ Armed # {} => /\ next_slot(wheel).at > wheel.elapsed
                     /\ \A k \in Armed : next_slot(wheel).at <= wheel.entries[k[1]].when
==============================================================================
