------------------------------ MODULE Workers ------------------------------
(***************************************************************************)
(* A runtime's worker threads, src/rt/workers.rs, and its drop,            *)
(* src/rt/runtime.rs: slots claimed in order and filled once a thread runs *)
(* the shard, workers stopped one at a time down to a minimum, shards the  *)
(* monitor takes from a thread that blocks in a poll and hands to a spare  *)
(* or to a new thread, and a shutdown that stops, takes and waits for the  *)
(* threads while others start and stop workers and spawn tasks.            *)
(*                                                                         *)
(* A caller is a thread in start_one, stop_one, stop or a spawn.  The list *)
(* of threads is under a mutex: what holds it is one step.  A take is one  *)
(* step here and taken apart in module Handoff.                            *)
(***************************************************************************)
EXTENDS Integers, Sequences, FiniteSets, FiniteSetsExt, SequencesExt

CONSTANTS Callers, Monitor, None,
          N,         \* slots
          min,       \* the fewest workers a stop leaves
          Runners,   \* threads the monitor may start, for shards it takes
          MayFail,   \* a shard or a thread may not start
          Casts,     \* whether the handoff is on, and what is called: by which callers, how often
                     \* (a bound), and the shutdown, with a timeout or not, and inside of a task
          MaxLive    \* bound: live tasks of a shard

VARIABLES claimed, slots, running, draining, stopped, live,
          closed, list,      \* under the mutex: a shutdown took the list; the threads on it
          thread,            \* where each thread is, see below
          of,                \* the shard a thread runs, or ran last
          life,              \* Life: takes of a thread's shard it has not come back from
          monitor,           \* the monitor's handle: "none", "listed" or "taken"
          monitor_closed,
          watch,             \* the monitor's step, the place it looks at next, the thread it took a
                             \* shard from, and the shard it has to give
          spares,            \* the queue of spares
          pc, mine,          \* a caller's place and the slot it has to do with
          down,              \* the shutdown's place
          joins, apart,      \* the threads it joins; those detached as it took the list
          how,               \* the cast, and how the shutdown was called: with a timeout, on which thread
          late,              \* its deadline passed
          calls

(* A thread "runs" its shard, "polls" a task of it, is "away" in a poll its shard was taken in,   *)
(* is "home" with its bound tasks, waits as a "spare", or has "ended".                            *)

pool == <<claimed, slots, running, draining, stopped, live>>
threads == <<closed, list, monitor>>
crew == <<thread, of, life, spares>>
shutdown == <<down, joins, apart, how, late>>
vars == <<pool, threads, crew, monitor_closed, watch, pc, mine, shutdown, calls>>

Places == 0 .. N - 1
Runs == Places \union Runners
Threads == Runs \union {Monitor}
NoWatch == [at |-> "look", place |-> 0, who |-> None, gift |-> None]

Init ==
    /\ claimed = 0 /\ slots = {} /\ running = 0 /\ draining = {} /\ stopped = {}
    /\ live = [i \in Places |-> 0] /\ closed = FALSE /\ list = {} /\ thread = [t \in Threads |-> "none"]
    /\ of = [t \in Runs |-> None] /\ life = [t \in Runs |-> 0] /\ spares = <<>>
    /\ monitor = "none" /\ monitor_closed = FALSE /\ watch = NoWatch
    /\ pc = [c \in Callers |-> "idle"] /\ mine = [c \in Callers |-> 0]
    /\ down = "up" /\ joins = {} /\ apart = {} /\ late = FALSE /\ calls = 0
    /\ how \in [cast: Casts, timed: {FALSE}, by: {None}]

Go(c, where) == pc' = [pc EXCEPT ![c] = where]
Began(c) == pc[c] = "idle" /\ c \in how.cast.callers /\ calls < how.cast.calls /\ calls' = calls + 1
Is(t, where) == thread' = [thread EXCEPT ![t] = where]

\* started, shards and takes_tasks
started == IF claimed < N THEN claimed ELSE N
shards == {i \in slots: i < started}
Taking == shards \ draining

-----------------------------------------------------------------------------
\* start_one looks for a free slot, claims one, or undoes the claim.
start_one(c) ==
    /\ Began(c) /\ Go(c, IF claimed < N THEN "claim" ELSE "idle")
    /\ UNCHANGED <<pool, threads, crew, monitor_closed, watch, mine, shutdown>>

claims(c) ==
    /\ pc[c] = "claim" /\ claimed' = claimed + 1 /\ mine' = [mine EXCEPT ![c] = claimed]
    /\ Go(c, IF claimed < N THEN "make" ELSE "undo")
    /\ UNCHANGED <<slots, running, draining, stopped, live, threads, crew, monitor_closed, watch, shutdown, calls>>

undoes(c) ==
    /\ pc[c] = "undo" /\ claimed' = claimed - 1 /\ Go(c, "idle")
    /\ UNCHANGED <<slots, running, draining, stopped, live, threads, crew, monitor_closed, watch, mine, shutdown, calls>>

make_fails(c) ==
    /\ MayFail /\ pc[c] \in {"make", "spawn"} /\ Go(c, "idle")
    /\ UNCHANGED <<pool, threads, crew, monitor_closed, watch, mine, shutdown, calls>>

\* The shard is made; nothing shows it yet.
make(c) ==
    /\ pc[c] = "make" /\ Go(c, "spawn")
    /\ UNCHANGED <<pool, threads, crew, monitor_closed, watch, mine, shutdown, calls>>

\* spawn_thread, and the publish of the shard, with the list locked
spawn_thread(c) ==
    /\ pc[c] = "spawn"
    /\ IF closed THEN Go(c, "idle") /\ UNCHANGED <<list, thread, of, slots, running>>
       ELSE /\ Go(c, "watch")
            /\ list' = list \union {mine[c]} /\ Is(mine[c], "runs") /\ of' = [of EXCEPT ![mine[c]] = mine[c]]
            /\ slots' = slots \union {mine[c]} /\ running' = running + 1
    /\ UNCHANGED <<claimed, draining, stopped, live, closed, monitor, life, spares, monitor_closed, watch, mine, shutdown,
                   calls>>

start_monitor(c) ==
    /\ pc[c] = "watch" /\ Go(c, "idle")
    /\ IF ~how.cast.handoff \/ monitor # "none" \/ closed THEN UNCHANGED <<thread, monitor>>
       ELSE Is(Monitor, "runs") /\ monitor' = "listed"
    /\ UNCHANGED <<pool, closed, list, of, life, spares, monitor_closed, watch, mine, shutdown, calls>>

-----------------------------------------------------------------------------
\* The monitor's loop: it ends once closed, letting go of a shard it has still to give;
At(where) == watch' = [watch EXCEPT !.at = where]

monitor_looks ==
    /\ thread[Monitor] = "runs" /\ watch.at = "look"
    /\ IF monitor_closed THEN Is(Monitor, "ended") /\ watch' = NoWatch
       ELSE watch' = [watch EXCEPT !.at = IF watch.gift = None THEN "pass" ELSE "give", !.place = 0] /\ UNCHANGED thread
    /\ UNCHANGED <<pool, threads, of, life, spares, monitor_closed, pc, mine, shutdown, calls>>

\* a pass looks at each place in turn, and takes the shard of a thread long in one
\* poll, one at a time;
pass_ends ==
    /\ watch.at = "pass" /\ At("look")
    /\ UNCHANGED <<pool, threads, crew, monitor_closed, pc, mine, shutdown, calls>>

take(t) ==
    /\ watch.at = "pass" /\ watch.gift = None /\ thread[t] = "polls" /\ of[t] >= watch.place
    /\ Is(t, "away") /\ watch' = [at |-> "took", place |-> of[t] + 1, who |-> t, gift |-> of[t]]
    /\ UNCHANGED <<pool, threads, of, life, spares, monitor_closed, pc, mine, shutdown, calls>>

\* Life::detach comes after the take, and after the thread's back, it may be.
detach ==
    /\ watch.at = "took" /\ life' = [life EXCEPT ![watch.who] = @ + 1]
    /\ watch' = [watch EXCEPT !.at = "give", !.who = None]
    /\ UNCHANGED <<pool, threads, thread, of, spares, monitor_closed, pc, mine, shutdown, calls>>

\* give: to a spare (the shard goes with one that left meanwhile), or else to a
\* thread started for it: spawn_runner; with none it waits for the next turn.
give_spare ==
    /\ watch.at = "give" /\ spares # <<>> /\ spares' = Tail(spares)
    /\ LET t == Head(spares) IN
       IF thread[t] = "spare" THEN Is(t, "runs") /\ of' = [of EXCEPT ![t] = watch.gift]
       ELSE UNCHANGED <<thread, of>>
    /\ watch' = [watch EXCEPT !.at = "pass", !.gift = None]
    /\ UNCHANGED <<pool, threads, life, monitor_closed, pc, mine, shutdown, calls>>

spawn_runner(r) ==
    /\ watch.at = "give" /\ spares = <<>> /\ thread[r] = "none" /\ ~closed
    /\ Is(r, "runs") /\ of' = [of EXCEPT ![r] = watch.gift] /\ list' = list \union {r}
    /\ watch' = [watch EXCEPT !.at = "pass", !.gift = None]
    /\ UNCHANGED <<pool, closed, monitor, life, spares, monitor_closed, pc, mine, shutdown, calls>>

give_fails ==
    /\ watch.at = "give" /\ spares = <<>> /\ (closed \/ MayFail) /\ At("pass")
    /\ UNCHANGED <<pool, threads, crew, monitor_closed, pc, mine, shutdown, calls>>

-----------------------------------------------------------------------------

\* claim_stop
claim_stop(c, then) ==
    /\ running > min /\ running' = running - 1 /\ Go(c, then)

stop_one(c) ==
    /\ Began(c) /\ claim_stop(c, "stop_last")
    /\ UNCHANGED <<claimed, slots, draining, stopped, live, threads, crew, monitor_closed, watch, mine, shutdown>>

stop_last(c) ==
    /\ pc[c] = "stop_last" /\ Go(c, "idle")
    /\ IF Taking # {} THEN draining' = draining \union {Max(Taking)} /\ UNCHANGED running
       ELSE running' = running + 1 /\ UNCHANGED draining
    /\ UNCHANGED <<claimed, slots, stopped, live, threads, crew, monitor_closed, watch, mine, shutdown, calls>>

\* stop, of a worker by a task on it
stop(c, i) ==
    /\ i \in Taking /\ Began(c) /\ mine' = [mine EXCEPT ![c] = i] /\ claim_stop(c, "drain")
    /\ UNCHANGED <<claimed, slots, draining, stopped, live, threads, crew, monitor_closed, watch, shutdown>>

drain(c) ==
    /\ pc[c] = "drain" /\ draining' = draining \union {mine[c]} /\ Go(c, "idle")
    /\ UNCHANGED <<claimed, slots, running, stopped, live, threads, crew, monitor_closed, watch, mine, shutdown, calls>>

\* A spawn: place picks a shard that takes tasks, the task is counted on it.
place(c, i) ==
    /\ i \in Taking /\ Began(c) /\ mine' = [mine EXCEPT ![c] = i] /\ Go(c, "placed")
    /\ UNCHANGED <<pool, threads, crew, monitor_closed, watch, shutdown>>

spawn_on(c) ==
    /\ pc[c] = "placed" /\ live[mine[c]] < MaxLive /\ Go(c, "idle")
    /\ live' = [live EXCEPT ![mine[c]] = @ + 1]
    /\ UNCHANGED <<claimed, slots, running, draining, stopped, threads, crew, monitor_closed, watch, mine, shutdown, calls>>

\* A worker polls a task of its shard: a stop's wake is looked at before each run.
\* A poll that the shutdown runs in ends after it.
Ours(t) == how.by = t /\ down \notin {"up", "over"}

polls(t) ==
    /\ thread[t] = "runs" /\ live[of[t]] > 0 /\ of[t] \notin stopped /\ Is(t, "polls")
    /\ UNCHANGED <<pool, threads, of, life, spares, monitor_closed, watch, pc, mine, shutdown, calls>>

poll_ends(t) ==
    /\ thread[t] = "polls" /\ ~Ours(t) /\ Is(t, "runs")
    /\ \E done \in 0..1: live' = [live EXCEPT ![of[t]] = @ - done]
    /\ UNCHANGED <<claimed, slots, running, draining, stopped, threads, of, life, spares, monitor_closed, watch, pc,
                   mine, shutdown, calls>>

\* Back from a poll its shard was taken in, a thread runs its bound tasks to their
\* end or the close, and is a spare.
back(t) ==
    /\ thread[t] = "away" /\ ~Ours(t) /\ Is(t, "home") /\ life' = [life EXCEPT ![t] = @ - 1]
    /\ \E done \in 0..1: live[of[t]] >= done /\ live' = [live EXCEPT ![of[t]] = @ - done]
    /\ UNCHANGED <<claimed, slots, running, draining, stopped, threads, of, spares, monitor_closed, watch, pc, mine,
                   shutdown, calls>>

finish_home(t) ==
    /\ thread[t] = "home" /\ ~Ours(t) /\ Is(t, "spare") /\ spares' = Append(spares, t)
    /\ UNCHANGED <<pool, threads, of, life, monitor_closed, watch, pc, mine, shutdown, calls>>

\* A worker ends its tasks once its shard is stopped, or is done with a draining one
\* that no task and no thread back from it needs; with the handoff on it is a spare then,
nothing_live(i) == live[i] = 0 /\ \A t \in Runs: thread[t] \in {"away", "home"} => of[t] # i

run_shard(t) ==
    /\ thread[t] = "runs" /\ (of[t] \in stopped \/ (of[t] \in draining /\ nothing_live(of[t])))
    /\ live' = [live EXCEPT ![of[t]] = 0]
    /\ IF how.cast.handoff THEN Is(t, "spare") /\ spares' = Append(spares, t)
       ELSE Is(t, "ended") /\ UNCHANGED spares
    /\ UNCHANGED <<claimed, slots, running, draining, stopped, threads, of, life, monitor_closed, watch, pc, mine,
                   shutdown, calls>>

\* which goes once the runtime shuts down: wait_for_shard.
wait_for_shard(t) ==
    /\ thread[t] = "spare" /\ monitor_closed /\ Is(t, "ended")
    /\ UNCHANGED <<pool, threads, of, life, spares, monitor_closed, watch, pc, mine, shutdown, calls>>

-----------------------------------------------------------------------------
\* stop_all: the monitor and the spares, then every shard in its slot.
stop_all ==
    /\ monitor_closed' = TRUE /\ spares' = <<>>
    /\ stopped' = stopped \union shards /\ draining' = draining \union shards

\* stop_and_join, of a drop or of a shutdown_timeout, in a task of the runtime too.
\* The monitor's thread is joined before the list is taken.
drop(by, timed) ==
    /\ down = "up" /\ timed \in how.cast.timed
    /\ by # None => how.cast.inside /\ thread[by] \in {"polls", "away", "home"}
    /\ how' = [how EXCEPT !.by = by, !.timed = timed] /\ stop_all /\ down' = "monitor"
    /\ UNCHANGED <<claimed, slots, running, live, threads, thread, of, life, watch, pc, mine, joins, apart, late, calls>>

take_monitor ==
    /\ down = "monitor" /\ down' = "join_monitor"
    /\ IF monitor = "listed" THEN monitor' = "taken" /\ joins' = {Monitor} ELSE UNCHANGED <<monitor, joins>>
    /\ UNCHANGED <<pool, closed, list, crew, monitor_closed, watch, pc, mine, apart, how, late, calls>>

\* The deadline: of the timeout, or TEARDOWN_WAIT, which is for the detached alone.
deadline ==
    /\ down \in {"join_monitor", "join", "join_detached"} /\ ~late /\ late' = TRUE
    /\ UNCHANGED <<pool, threads, crew, monitor_closed, watch, pc, mine, down, joins, apart, how, calls>>

\* join: never its own thread.
Joined(ts) == \A t \in ts \ {how.by}: thread[t] = "ended"
OutOfTime == how.timed /\ late

\* take_threads: the list is closed and taken, and every shard stopped again; the
\* threads in a poll their shard was taken in are returned apart.
take_threads ==
    /\ down = "join_monitor" /\ (Joined(joins) \/ OutOfTime) /\ down' = "stop"
    /\ closed' = TRUE /\ apart' = list /\ list' = {}
    /\ joins' = {t \in {Monitor}: monitor = "listed"} /\ monitor' = IF monitor = "listed" THEN "taken" ELSE monitor
    /\ UNCHANGED <<pool, crew, monitor_closed, watch, pc, mine, how, late, calls>>

partition ==
    /\ down = "stop" /\ down' = "join" /\ stop_all
    /\ apart' = {t \in apart: life[t] > 0} /\ joins' = joins \union {t \in apart: life[t] <= 0}
    /\ UNCHANGED <<claimed, slots, running, live, threads, thread, of, life, watch, pc, mine, how, late, calls>>

joined ==
    /\ down = "join" /\ (Joined(joins) \/ OutOfTime) /\ down' = "join_detached"
    /\ UNCHANGED <<pool, threads, crew, monitor_closed, watch, pc, mine, joins, apart, how, late, calls>>

join_detached ==
    /\ down = "join_detached" /\ (Joined(apart) \/ late) /\ down' = "over"
    /\ UNCHANGED <<pool, threads, crew, monitor_closed, watch, pc, mine, joins, apart, how, late, calls>>

Monitors == monitor_looks \/ pass_ends \/ detach \/ give_spare \/ give_fails \/ \E r \in Runners: spawn_runner(r)
Works(t) == poll_ends(t) \/ finish_home(t) \/ run_shard(t) \/ wait_for_shard(t)
Ends == take_monitor \/ take_threads \/ partition \/ joined \/ join_detached

Next ==
    \/ Ends \/ deadline \/ (\E by \in Runs \union {None}, timed \in BOOLEAN: drop(by, timed))
    \/ \E c \in Callers:
        \/ start_one(c) \/ claims(c) \/ undoes(c) \/ make_fails(c) \/ make(c) \/ spawn_thread(c)
        \/ start_monitor(c) \/ stop_one(c) \/ stop_last(c) \/ drain(c) \/ spawn_on(c)
        \/ \E i \in Places: stop(c, i) \/ place(c, i)
    \/ \E t \in Runs: polls(t) \/ back(t) \/ take(t) \/ Works(t)
    \/ Monitors

Spec == Init /\ [][Next]_vars

\* The OS runs every thread, the clock goes on, and a poll ends; but not one its shard
\* was taken in, which may block for good.
FairSpec ==
    /\ Spec /\ WF_vars(Ends) /\ WF_vars(deadline) /\ WF_vars(Monitors)
    /\ \A t \in Runs: WF_vars(Works(t))

(***************************************************************************)
(* What a shutdown leaves: nothing on the list, and no thread but its own, *)
(* those of a shutdown_timeout whose time is up, and those that were in a  *)
(* poll their shard was taken in as the list was taken, once the deadline  *)
(* passed.  A drop without a timeout waits for no such poll any longer,    *)
(* since the threads it joins in full are in none: the monitor, which may  *)
(* take one more, ended first.                                             *)
(***************************************************************************)
TornDown ==
    /\ down = "over" => list = {} /\ \A t \in Threads:
          thread[t] \in {"none", "ended"} \/ t = how.by \/ OutOfTime \/ (late /\ t \in apart)
    /\ down \in {"join", "join_detached"} /\ ~how.timed => \A t \in joins \ {Monitor}: thread[t] # "away"

(***************************************************************************)
(* A shard with a task has a thread: one was started for it, and, until it *)
(* drains or the runtime shuts down, one runs it, or the monitor has it to *)
(* hand on.  (At the close a shard taken goes with a spare that left.)     *)
(***************************************************************************)
TaskHasThread ==
    \A i \in Places: live[i] > 0 =>
        /\ thread[i] # "none"
        /\ monitor_closed \/ i \in draining \/ watch.gift = i \/ \E t \in Runs: of[t] = i /\ thread[t] \in {"runs", "polls"}

(***************************************************************************)
(* Stops leave the minimum: while no shutdown began, as many workers take  *)
(* tasks as the runtime must keep (`min`), or as were ever counted.        *)
(***************************************************************************)
FewestLeft ==
    down = "up" /\ Cardinality(slots) >= min /\ (\A c \in Callers: pc[c] = "idle") =>
        Cardinality(Taking) >= min

(***************************************************************************)
(* A drop of the runtime ends.                                             *)
(***************************************************************************)
Down(where) == down = where

------------------------------------------------------------------------------
(***************************************************************************)
(* Lingers, src/rt/linger.rs: the work a dropped handle leaves, counted by *)
(* the runtime it was handed to until it ends, and run by a worker, by the *)
(* drop of the runtime, or on the linger thread; with the drop's wait      *)
(* (src/rt/runtime.rs) and the process exit's, for files.                  *)
(*                                                                         *)
(* A work is handed by a thread of its own, and polled to its end in one   *)
(* step wherever it runs, which may first hand another.  `routes' is the   *)
(* place of whoever routes it: the handing thread, or the thread that      *)
(* drops its task.                                                         *)
(***************************************************************************)

CONSTANTS
    LingerWorks,
    Files,  \* the works handed with hand_file
    Shards,  \* the runtime's workers
    MaxTimeouts  \* bound: the drop's, and the exit's, time runs out

VARIABLES
    linger_at,         \* a work: "new", "routed", "task", "list", "run" (by the drop), "thread", "done"
    linger_how,        \* a routed work's place: "look", "spawn", "push", "fence"
    on,         \* the shard of a task
    Guarded,    \* the works on the linger thread whose end the runtime counts
    active, list_woken, closing, over,
    linger_stopped,    \* the shards stopped
    linger_drop,       \* the runtime's drop: "no", "stops", "joined", "looks", "sleeps", "ends", "rest", "gone"
    timeouts,
    files_out, exiting, exit, exit_woken

works == <<linger_at, linger_how, on, Guarded>>
runtime == <<active, list_woken, closing, over, linger_stopped, linger_drop>>
exits == <<files_out, exiting, exit, exit_woken>>
linger_vars == <<works, runtime, timeouts, exits>>

LingerInit ==
    /\ linger_at = [w \in LingerWorks |-> "new"] /\ linger_how = [w \in LingerWorks |-> "look"] /\ on = [w \in LingerWorks |-> None]
    /\ Guarded = {} /\ active = 0 /\ list_woken = FALSE /\ closing = FALSE /\ over = FALSE
    /\ linger_stopped = {} /\ linger_drop = "no" /\ timeouts = 0
    /\ files_out = 0 /\ exiting = FALSE /\ exit = "no" /\ exit_woken = FALSE

linger_list == {w \in LingerWorks: linger_at[w] = "list"}

\* ended: the count, and the drop's waker
Ended(n) == active' = active - n /\ list_woken' = (list_woken \/ n > 0)

Tracked(ws) ==
    /\ files_out' = files_out - Cardinality(ws \cap Files)
    /\ exit_woken' = (exit_woken \/ (ws \cap Files # {} /\ files_out' = 0 /\ exiting))

-----------------------------------------------------------------------------
\* hand, hand_file; a work may also be handed as another ends (in the same thread).
hand(w) ==
    /\ linger_at[w] = "new" /\ linger_at' = [linger_at EXCEPT ![w] = "routed"] /\ linger_how' = [linger_how EXCEPT ![w] = "look"]
    /\ active' = active + 1
    /\ files_out' = files_out + Cardinality({w} \cap Files)
    /\ UNCHANGED <<on, Guarded, list_woken, closing, over, linger_stopped, linger_drop, timeouts, exiting, exit, exit_woken>>

\* route_linger: the runtime's drop not begun, a worker or the linger thread; else the list.
route_linger(w) ==
    /\ linger_at[w] = "routed" /\ linger_how[w] = "look" /\ linger_how' = [linger_how EXCEPT ![w] = IF closing THEN "push" ELSE "spawn"]
    /\ UNCHANGED <<linger_at, on, Guarded, runtime, timeouts, exits>>

\* spawn_linger: on a shard (that may have stopped by then), or on_thread.
spawn_linger(w) ==
    /\ linger_at[w] = "routed" /\ linger_how[w] = "spawn" /\ UNCHANGED <<linger_how, runtime, timeouts, exits>>
    /\ \/ \E s \in Shards: linger_at' = [linger_at EXCEPT ![w] = "task"] /\ on' = [on EXCEPT ![w] = s] /\ UNCHANGED Guarded
       \/ linger_stopped = Shards /\ linger_at' = [linger_at EXCEPT ![w] = "thread"] /\ Guarded' = Guarded \union {w} /\ UNCHANGED on

\* push, and its look after the fence
push(w) ==
    /\ linger_at[w] = "routed" /\ linger_how[w] = "push" /\ linger_at' = [linger_at EXCEPT ![w] = "list"] /\ linger_how' = [linger_how EXCEPT ![w] = "fence"]
    /\ list_woken' = TRUE
    /\ UNCHANGED <<on, Guarded, active, closing, over, linger_stopped, linger_drop, timeouts, exits>>

\* run_rest_alone
RunRestAlone ==
    /\ linger_at' = [w \in LingerWorks |-> IF w \in linger_list THEN "thread" ELSE linger_at[w]]
    /\ Ended(Cardinality(linger_list))

push_looks(w) ==
    /\ linger_how[w] = "fence" /\ linger_how' = [linger_how EXCEPT ![w] = "look"]
    /\ IF over THEN RunRestAlone ELSE UNCHANGED <<linger_at, active, list_woken>>
    /\ UNCHANGED <<on, Guarded, closing, over, linger_stopped, linger_drop, timeouts, exits>>

\* A task's poll ends its work (the task's end is counted); a stopped shard drops it,
\* and Guarded's drop routes what is left.
task_ends(w) ==
    /\ linger_at[w] = "task" /\ on[w] \notin linger_stopped /\ linger_at' = [linger_at EXCEPT ![w] = "done"]
    /\ Ended(1) /\ Tracked({w})
    /\ UNCHANGED <<linger_how, on, Guarded, closing, over, linger_stopped, linger_drop, timeouts, exiting, exit>>

task_dropped(w) ==
    /\ linger_at[w] = "task" /\ on[w] \in linger_stopped
    /\ linger_at' = [linger_at EXCEPT ![w] = "routed"] /\ linger_how' = [linger_how EXCEPT ![w] = "look"]
    /\ UNCHANGED <<on, Guarded, runtime, timeouts, exits>>

\* On the linger thread: a runtime's work is counted by it, one run alone is not.
thread_ends(w) ==
    /\ linger_at[w] = "thread" /\ linger_at' = [linger_at EXCEPT ![w] = "done"] /\ Guarded' = Guarded \ {w}
    /\ Ended(IF w \in Guarded THEN 1 ELSE 0) /\ Tracked({w})
    /\ UNCHANGED <<linger_how, on, closing, over, linger_stopped, linger_drop, timeouts, exiting, exit>>

-----------------------------------------------------------------------------
\* The drop: stop_and_join, ...
close ==
    /\ linger_drop = "no" /\ closing' = TRUE /\ linger_drop' = "stops"
    /\ UNCHANGED <<works, active, list_woken, over, linger_stopped, timeouts, exits>>

\* ... whose workers drop their tasks as they are joined, ...
join ==
    /\ linger_drop = "stops" /\ linger_stopped' = Shards /\ linger_drop' = "joined"
    /\ UNCHANGED <<works, active, list_woken, closing, over, timeouts, exits>>

\* lingers_done: every shard settled, so no task of one is still to be dropped.
Settled == ~\E w \in LingerWorks: linger_at[w] = "task" \/ (linger_at[w] = "routed" /\ on[w] \in Shards)
lingers_done == Settled /\ active = 0

\* ... finish_lingering, ...
finish_lingering ==
    /\ linger_drop = "joined" /\ list_woken' = FALSE /\ linger_drop' = IF lingers_done THEN "ends" ELSE "looks"
    /\ UNCHANGED <<works, active, closing, over, linger_stopped, timeouts, exits>>

\* ... and RunAll's poll: the waker registered, the list taken, what runs polled, a look.
run_all(ends) ==
    /\ linger_drop = "looks" \/ (linger_drop = "sleeps" /\ list_woken)
    /\ ends \subseteq {w \in LingerWorks: linger_at[w] \in {"run", "list"}}
    /\ linger_at' = [w \in LingerWorks |-> IF w \in ends THEN "done" ELSE IF linger_at[w] = "list" THEN "run" ELSE linger_at[w]]
    /\ active' = active - Cardinality(ends) /\ list_woken' = (ends # {})
    /\ Tracked(ends)
    /\ linger_drop' = IF Settled /\ active' = 0 THEN "ends" ELSE "sleeps"
    /\ UNCHANGED <<linger_how, on, Guarded, closing, over, linger_stopped, timeouts, exiting, exit>>

\* A work the drop runs is ready to go on (its own waker).
run_woken ==
    /\ linger_drop = "sleeps" /\ \E w \in LingerWorks: linger_at[w] = "run"
    /\ list_woken' = TRUE
    /\ UNCHANGED <<works, active, closing, over, linger_stopped, linger_drop, timeouts, exits>>

\* The drop's time runs out: what it runs goes to the linger thread.
run_all_drops ==
    /\ linger_drop = "sleeps" /\ timeouts < MaxTimeouts /\ timeouts' = timeouts + 1 /\ linger_drop' = "ends"
    /\ linger_at' = [w \in LingerWorks |-> IF linger_at[w] = "run" THEN "thread" ELSE linger_at[w]]
    /\ Ended(Cardinality({w \in LingerWorks: linger_at[w] = "run"}))
    /\ UNCHANGED <<linger_how, on, Guarded, closing, over, linger_stopped, exits>>

\* end: over, the fence, and the list's rest.
end ==
    /\ linger_drop = "ends" /\ over' = TRUE /\ linger_drop' = "rest"
    /\ UNCHANGED <<works, active, list_woken, closing, linger_stopped, timeouts, exits>>

end_rest ==
    /\ linger_drop = "rest" /\ RunRestAlone /\ linger_drop' = "gone"
    /\ UNCHANGED <<linger_how, on, Guarded, closing, over, linger_stopped, timeouts, exits>>

-----------------------------------------------------------------------------
\* wait_at_exit: the flag up, then looks at the count, each under the lock with its wait.
wait_at_exit ==
    /\ exit = "no" /\ exiting' = TRUE /\ exit' = "looks"
    /\ UNCHANGED <<works, runtime, timeouts, files_out, exit_woken>>

exit_looks ==
    /\ exit = "looks" \/ (exit = "sleeps" /\ exit_woken)
    /\ exit_woken' = FALSE /\ exit' = IF files_out = 0 THEN "gone" ELSE "sleeps"
    /\ UNCHANGED <<works, runtime, timeouts, files_out, exiting>>

exit_gives_up ==
    /\ exit = "sleeps" /\ timeouts < MaxTimeouts /\ timeouts' = timeouts + 1 /\ exit' = "gave up"
    /\ UNCHANGED <<works, runtime, files_out, exiting, exit_woken>>

Work(w) ==
    \/ hand(w) \/ route_linger(w) \/ spawn_linger(w) \/ push(w) \/ push_looks(w)
    \/ task_ends(w) \/ task_dropped(w) \/ thread_ends(w)
Drop == join \/ finish_lingering \/ (\E ends \in SUBSET LingerWorks: run_all(ends)) \/ end \/ end_rest

LingerNext ==
    \/ \E w \in LingerWorks: Work(w)
    \/ close \/ Drop \/ run_woken \/ run_all_drops
    \/ wait_at_exit \/ exit_looks \/ exit_gives_up

LingerSpec == LingerInit /\ [][LingerNext]_linger_vars

(***************************************************************************)
(* The runtime counts every linger handed to it until it ended, and no     *)
(* linger is left where nobody runs it: once the drop is gone, the list is *)
(* empty but for a push still to look; and a drop that was not timed out   *)
(* is over only once every linger handed before it began has ended.        *)
(***************************************************************************)
Counted ==
    active = Cardinality({w \in LingerWorks: linger_at[w] \in {"routed", "task", "list", "run"} \/ w \in Guarded})
NoneLeft ==
    /\ Counted /\ files_out = Cardinality({w \in Files: linger_at[w] \notin {"new", "done"}})
    /\ linger_drop = "gone" => \A w \in linger_list: \E v \in LingerWorks: linger_how[v] = "fence"

(***************************************************************************)
(* Nobody waits for what came: a drop asleep and not woken has a linger    *)
(* that is not done or a task not yet dropped, and nothing in its list; an *)
(* exit asleep and not woken has a file's linger out.                      *)
(***************************************************************************)
WaitsForSome ==
    /\ linger_drop = "sleeps" /\ ~list_woken => ~lingers_done /\ linger_list = {}
    /\ exit = "sleeps" /\ ~exit_woken => files_out > 0

------------------------------------------------------------------------------
(***************************************************************************)
(* The blocking pool (rt/blocking.rs): submitters that push a job and find *)
(* or start a thread for it, and threads that take jobs, wait in a slot    *)
(* and leave after their keep-alive.                                       *)
(*                                                                         *)
(* The queue is the inbox of rt/inbox.rs as its takers see it: the nodes   *)
(* from the taker's end to the head, and which of them their predecessor   *)
(* links to (module Inbox has its memory accesses).  `is_empty` looks at   *)
(* the head alone, so a pop that puts the stub behind the last job while   *)
(* another is pushed leaves a queue that looks empty and is not.           *)
(***************************************************************************)

CONSTANTS
    Jobs,  \* the jobs, each submitted by a thread named after it
    Workers,  \* bound: the pool's threads that may exist at a time
    max_threads,
    Stub  \* the queue's own node

Slots == 1..max_threads
Procs == Jobs \cup Workers

VARIABLES
    line,       \* the queue's nodes, from the taker's end to the head
    linked,     \* those whose predecessor links to them
    taker,      \* who holds the taker's role
    slot,       \* Slot::state of every slot
    named,      \* Slot::thread
    index,      \* the bits set
    pool_threads, idle, jobs,    \* the pool's counters
    pool_at,         \* where each submitter and each thread is
    pool_mine,       \* the slot of each thread
    scan,       \* what a submitter's scan of the index has left, and its hint
    job,        \* the job a process took
    token,      \* threads unparked and not back yet
    ran         \* history: the jobs run to their end

queue == <<line, linked>>
counts == <<pool_threads, idle, jobs>>
pool_slots == <<slot, named, index>>
pool_vars == <<queue, taker, pool_slots, counts, pool_at, pool_mine, scan, job, token, ran>>

NoScan == [low |-> 0, todo |-> {}, again |-> FALSE]

PoolInit ==
    /\ line = <<Stub>> /\ linked = {Stub} /\ taker = None
    /\ slot = [i \in Slots |-> "FREE"] /\ named = [i \in Slots |-> None] /\ index = {}
    /\ pool_threads = 0 /\ idle = 0 /\ jobs = 0
    /\ pool_at = [p \in Procs |-> IF p \in Jobs THEN "submit" ELSE "none"]
    /\ pool_mine = [w \in Workers |-> 0] /\ scan = [j \in Jobs |-> NoScan]
    /\ job = [p \in Procs |-> None] /\ token = {} /\ ran = {}

Goes(p, a) == pool_at' = [pool_at EXCEPT ![p] = a]
is_empty == Last(line) = Stub

-----------------------------------------------------------------------------
(* submit, by the thread named after the job.                              *)

submit(j) ==
    /\ pool_at[j] = "submit" /\ jobs' = jobs + 1
    /\ line' = Append(line, j) /\ linked' = linked \ {j}
    /\ Goes(j, "link")
    /\ UNCHANGED <<taker, pool_slots, pool_threads, idle, pool_mine, scan, job, token, ran>>

push_link(j) ==
    /\ pool_at[j] = "link" /\ linked' = linked \cup {j} /\ Goes(j, "idle")
    /\ UNCHANGED <<line, taker, pool_slots, counts, pool_mine, scan, job, token, ran>>

\* The look at the idle count.
submit_looks(j) ==
    /\ pool_at[j] = "idle" /\ Goes(j, IF idle > 0 THEN "wake" ELSE "start")
    /\ UNCHANGED <<queue, taker, pool_slots, counts, pool_mine, scan, job, token, ran>>

\* wake_one loads the word of its hint: its bits from the hint on, and, when none
\* led to a claim, those before it.
wake_one(j) ==
    /\ pool_at[j] = "wake" /\ Goes(j, "claim")
    /\ \/ /\ ~scan[j].again
          /\ \E low \in Slots :
                scan' = [scan EXCEPT ![j] = [low |-> low, again |-> TRUE,
                                             todo |-> {i \in index : i >= low}]]
       \/ /\ scan[j].again
          /\ scan' = [scan EXCEPT ![j].todo = {i \in index : i < scan[j].low},
                                  ![j].low = 0]
    /\ UNCHANGED <<queue, taker, pool_slots, counts, pool_mine, job, token, ran>>

Least(S) == CHOOSE i \in S : \A k \in S : i <= k

\* claim, of the next slot of the scan; with none left the other bits are
\* loaded, or a thread is started.
claim(j) ==
    /\ pool_at[j] = "claim"
    /\ LET todo == scan[j].todo
           i == Least(todo)
       IN  \/ /\ todo = {} /\ Goes(j, IF scan[j].low = 0 THEN "start" ELSE "wake")
              /\ UNCHANGED <<slot, scan>>
           \/ /\ todo # {} /\ slot[i] = "IDLE"
              /\ slot' = [slot EXCEPT ![i] = "WOKEN"]
              /\ scan' = [scan EXCEPT ![j].todo = {i}] /\ Goes(j, "count")
           \/ /\ todo # {} /\ slot[i] # "IDLE"
              /\ scan' = [scan EXCEPT ![j].todo = todo \ {i}]
              /\ UNCHANGED <<slot, pool_at>>
    /\ UNCHANGED <<queue, taker, named, index, counts, pool_mine, job, token, ran>>

claim_counts(j) ==
    /\ pool_at[j] = "count" /\ idle' = idle - 1 /\ Goes(j, "unpark")
    /\ UNCHANGED <<queue, taker, pool_slots, pool_threads, jobs, pool_mine, scan, job, token, ran>>

claim_unparks(j) ==
    /\ pool_at[j] = "unpark" /\ Goes(j, "gone")
    /\ token' = token \cup {named[Least(scan[j].todo)]}
    /\ scan' = [scan EXCEPT ![j] = NoScan]
    /\ UNCHANGED <<queue, taker, pool_slots, counts, pool_mine, job, ran>>

-----------------------------------------------------------------------------
(* Starting a thread.                                                      *)

\* count_thread, by p, which goes on to yes if the pool has room.
count_thread(p, yes, no) ==
    \/ pool_threads < max_threads /\ pool_threads' = pool_threads + 1 /\ Goes(p, yes)
    \/ pool_threads >= max_threads /\ Goes(p, no) /\ UNCHANGED pool_threads

start_thread(j) ==
    /\ pool_at[j] = "start" /\ count_thread(j, "spawn", "gone")
    /\ scan' = [scan EXCEPT ![j] = NoScan]
    /\ UNCHANGED <<queue, taker, pool_slots, idle, jobs, pool_mine, job, token, ran>>

\* The new thread runs `work`, from claim_slot.
spawn(j, w) ==
    /\ pool_at[j] = "spawn" /\ pool_at[w] = "none"
    /\ pool_at' = [pool_at EXCEPT ![j] = "gone", ![w] = "slot"]
    /\ UNCHANGED <<queue, taker, pool_slots, counts, pool_mine, scan, job, token, ran>>

\* The system gives no thread.
spawn_fails(j) ==
    /\ pool_at[j] = "spawn" /\ pool_threads' = pool_threads - 1 /\ Goes(j, "cannot")
    /\ UNCHANGED <<queue, taker, pool_slots, idle, jobs, pool_mine, scan, job, token, ran>>

\* With no thread alive the jobs run here.
cannot_start(j) ==
    /\ pool_at[j] = "cannot" /\ Goes(j, IF pool_threads = 0 THEN "take" ELSE "gone")
    /\ UNCHANGED <<queue, taker, pool_slots, counts, pool_mine, scan, job, token, ran>>

-----------------------------------------------------------------------------
(* take and run, by a thread or by a submitter that could start none.      *)

\* Where a process with nothing to take goes on.
Dry(p) == IF p \in Workers THEN "count" ELSE "gone"

try_take(p) ==
    /\ pool_at[p] = "take"
    /\ \/ taker = None /\ taker' = p /\ Goes(p, "pop")
       \/ taker # None /\ Goes(p, "else") /\ UNCHANGED taker
    /\ UNCHANGED <<queue, pool_slots, counts, pool_mine, scan, job, token, ran>>

\* Another thread takes: is it the last job?
take_else(p) ==
    /\ pool_at[p] = "else" /\ Goes(p, IF is_empty THEN Dry(p) ELSE "take")
    /\ UNCHANGED <<queue, taker, pool_slots, counts, pool_mine, scan, job, token, ran>>

\* The queue past the stub.
Rest == IF Head(line) = Stub THEN Tail(line) ELSE line

\* pop, to the look at the head: a job whose successor is linked to it is
\* handed out, and the last one has the stub put behind it first.
pop(p) ==
    /\ pool_at[p] = "pop" /\ taker = p
    /\ \/ /\ line = <<Stub>> /\ Goes(p, "empty") /\ UNCHANGED <<queue, job>>
       \/ /\ Rest # <<>> /\ Rest[1] \in linked
          /\ IF Len(Rest) = 1
             THEN line' = Rest /\ Goes(p, "stub") /\ UNCHANGED job
             ELSE IF Rest[2] \in linked
             THEN line' = Tail(Rest) /\ job' = [job EXCEPT ![p] = Rest[1]] /\ Goes(p, "item")
             ELSE line' = Rest /\ Goes(p, "busy") /\ UNCHANGED job
          /\ UNCHANGED linked
       \/ /\ Rest # <<>> /\ Rest[1] \notin linked
          /\ Goes(p, "busy") /\ UNCHANGED <<queue, job>>
    /\ UNCHANGED <<taker, pool_slots, counts, pool_mine, scan, token, ran>>

\* The stub goes behind the last job, or behind what was pushed meanwhile.
pop_stub(p) ==
    /\ pool_at[p] = "stub" /\ linked' = linked \cup {Stub}
    /\ IF Len(line) = 1 \/ line[2] \in linked
       THEN /\ line' = Append(Tail(line), Stub)
            /\ job' = [job EXCEPT ![p] = Head(line)] /\ Goes(p, "item")
       ELSE line' = Append(line, Stub) /\ Goes(p, "busy") /\ UNCHANGED job
    /\ UNCHANGED <<taker, pool_slots, counts, pool_mine, scan, token, ran>>

\* The role is let go of, and the answer looked at.
release(p) ==
    /\ pool_at[p] \in {"item", "empty", "busy"} /\ taker' = None
    /\ Goes(p, CASE pool_at[p] = "item" -> "run" [] pool_at[p] = "empty" -> Dry(p)
                 [] pool_at[p] = "busy" -> "take")
    /\ UNCHANGED <<queue, pool_slots, counts, pool_mine, scan, job, token, ran>>

\* The job ends, and is counted out.
run(p) ==
    /\ pool_at[p] = "run" /\ Goes(p, "take") /\ jobs' = jobs - 1
    /\ ran' = ran \cup {job[p]} /\ job' = [job EXCEPT ![p] = None]
    /\ UNCHANGED <<queue, taker, pool_slots, pool_threads, idle, pool_mine, scan, token>>

-----------------------------------------------------------------------------
(* work, a pool thread's life.                                             *)

\* Any slot that is free, named after the thread once it is its own.
claim_slot(w) ==
    /\ pool_at[w] = "slot"
    /\ \E i \in Slots :
          /\ slot[i] = "FREE"
          /\ slot' = [slot EXCEPT ![i] = "BUSY"] /\ named' = [named EXCEPT ![i] = w]
          /\ pool_mine' = [pool_mine EXCEPT ![w] = i]
    /\ Goes(w, "take")
    /\ UNCHANGED <<queue, taker, index, counts, scan, job, token, ran>>

work_counts(w) ==
    /\ pool_at[w] = "count" /\ idle' = idle + 1 /\ Goes(w, "mark")
    /\ UNCHANGED <<queue, taker, pool_slots, pool_threads, jobs, pool_mine, scan, job, token, ran>>

work_marks(w) ==
    /\ pool_at[w] = "mark" /\ slot' = [slot EXCEPT ![pool_mine[w]] = "IDLE"] /\ Goes(w, "bit")
    /\ UNCHANGED <<queue, taker, named, index, counts, pool_mine, scan, job, token, ran>>

set_bit(w) ==
    /\ pool_at[w] = "bit" /\ index' = index \cup {pool_mine[w]} /\ Goes(w, "look")
    /\ UNCHANGED <<queue, taker, slot, named, counts, pool_mine, scan, job, token, ran>>

\* A job pushed while the submitter saw this thread busy.
work_looks(w) ==
    /\ pool_at[w] = "look" /\ Goes(w, IF is_empty THEN "wait" ELSE "back")
    /\ UNCHANGED <<queue, taker, pool_slots, counts, pool_mine, scan, job, token, ran>>

\* The slot is taken back, unless a submitter claimed it.
work_back(w) ==
    /\ pool_at[w] = "back" /\ slot' = [slot EXCEPT ![pool_mine[w]] = "BUSY"]
    /\ Goes(w, IF slot[pool_mine[w]] = "IDLE" THEN "uncount" ELSE "unbit")
    /\ UNCHANGED <<queue, taker, named, index, counts, pool_mine, scan, job, token, ran>>

work_uncounts(w) ==
    /\ pool_at[w] = "uncount" /\ idle' = idle - 1 /\ Goes(w, "unbit")
    /\ UNCHANGED <<queue, taker, pool_slots, pool_threads, jobs, pool_mine, scan, job, token, ran>>

\* The load of the slot that a wait begins with, and goes back to.
work_waits(w) ==
    /\ pool_at[w] = "wait" /\ Goes(w, IF slot[pool_mine[w]] = "WOKEN" THEN "clear" ELSE "park")
    /\ UNCHANGED <<queue, taker, pool_slots, counts, pool_mine, scan, job, token, ran>>

work_unparked(w) ==
    /\ pool_at[w] = "park" /\ w \in token /\ token' = token \ {w} /\ Goes(w, "wait")
    /\ UNCHANGED <<queue, taker, pool_slots, counts, pool_mine, scan, job, ran>>

\* The keep-alive is over.
work_expires(w) ==
    /\ pool_at[w] = "park" /\ Goes(w, "clear")
    /\ UNCHANGED <<queue, taker, pool_slots, counts, pool_mine, scan, job, token, ran>>

\* Of a slot taken back, and of one whose wait is over.
clear_bit(w) ==
    /\ pool_at[w] \in {"unbit", "clear"} /\ index' = index \ {pool_mine[w]}
    /\ Goes(w, IF pool_at[w] = "unbit" THEN "take" ELSE "free")
    /\ UNCHANGED <<queue, taker, slot, named, counts, pool_mine, scan, job, token, ran>>

\* The slot is freed, unless a submitter claimed it, whose waker counted it out.
work_frees(w) ==
    /\ pool_at[w] = "free"
    /\ \/ /\ slot[pool_mine[w]] = "IDLE" /\ slot' = [slot EXCEPT ![pool_mine[w]] = "FREE"]
          /\ pool_mine' = [pool_mine EXCEPT ![w] = 0] /\ Goes(w, "unidle")
       \/ /\ slot[pool_mine[w]] # "IDLE" /\ slot' = [slot EXCEPT ![pool_mine[w]] = "BUSY"]
          /\ Goes(w, "take") /\ UNCHANGED pool_mine
    /\ UNCHANGED <<queue, taker, named, index, counts, scan, job, token, ran>>

work_leaves(w) ==
    \/ /\ pool_at[w] = "unidle" /\ idle' = idle - 1 /\ Goes(w, "leave")
       /\ UNCHANGED <<queue, taker, pool_slots, pool_threads, jobs, pool_mine, scan, job, token, ran>>
    \/ /\ pool_at[w] = "leave" /\ pool_threads' = pool_threads - 1 /\ Goes(w, "last")
       /\ UNCHANGED <<queue, taker, pool_slots, idle, jobs, pool_mine, scan, job, token, ran>>
    \/ /\ pool_at[w] = "last" /\ Goes(w, IF is_empty THEN "none" ELSE "recount")
       /\ UNCHANGED <<queue, taker, pool_slots, counts, pool_mine, scan, job, token, ran>>
    \/ /\ pool_at[w] = "recount" /\ count_thread(w, "slot", "none")
       /\ UNCHANGED <<queue, taker, pool_slots, idle, jobs, pool_mine, scan, job, token, ran>>

-----------------------------------------------------------------------------
Takes(p) == try_take(p) \/ take_else(p) \/ pop(p) \/ pop_stub(p) \/ release(p) \/ run(p)

Submits(j) ==
    \/ push_link(j) \/ submit_looks(j) \/ wake_one(j) \/ claim(j) \/ claim_counts(j)
    \/ claim_unparks(j) \/ start_thread(j) \/ (\E w \in Workers : spawn(j, w))
    \/ cannot_start(j)

PoolWorks(w) ==
    \/ claim_slot(w) \/ work_counts(w) \/ work_marks(w) \/ set_bit(w) \/ work_looks(w)
    \/ work_back(w) \/ work_uncounts(w) \/ work_waits(w) \/ work_unparked(w)
    \/ clear_bit(w) \/ work_frees(w) \/ work_leaves(w)

Steps(p) == Takes(p) \/ (p \in Jobs /\ Submits(p)) \/ (p \in Workers /\ PoolWorks(p))

Done == ran = Jobs /\ \A p \in Procs : pool_at[p] \in {"gone", "none"}

PoolNext ==
    \/ \E p \in Procs : Takes(p)
    \/ \E j \in Jobs : submit(j) \/ Submits(j) \/ spawn_fails(j)
    \/ \E w \in Workers : PoolWorks(w) \/ work_expires(w)
    \/ Done /\ UNCHANGED pool_vars

\* Threads run, and jobs end; a job need not come, and a keep-alive need not
\* be over.
PoolSpec == PoolInit /\ [][PoolNext]_pool_vars /\ \A p \in Procs : WF_pool_vars(Steps(p))

-----------------------------------------------------------------------------
InQueue == {j \in Jobs : Contains(line, j)}

\* Everything that can move on its own has: the submitters are done, and every
\* thread runs a job or waits unclaimed for one.
Quiet ==
    /\ \A j \in Jobs : pool_at[j] \in {"submit", "gone", "run"}
    /\ \A w \in Workers : \/ pool_at[w] \in {"none", "run"}
                          \/ pool_at[w] = "park" /\ w \notin token /\ slot[pool_mine[w]] = "IDLE"

\* With nothing left to do, a queued job has a thread that will come back for
\* it: the pool never rests, every thread idle or gone, on a job `submit`
\* took.
JobHasThread ==
    Quiet /\ InQueue # {} => \E p \in Procs : pool_at[p] = "run"

\* claim, work and count_thread keep the books: a counted thread finds a free
\* slot (claim_slot's comment), each idle slot is one of the idle count, and a
\* paused clock that sees no job in flight sees none queued or running.
Accounted ==
    /\ Cardinality({i \in Slots : slot[i] # "FREE"}) <= pool_threads
    /\ Cardinality({i \in Slots : slot[i] = "IDLE"}) <= idle
    /\ pool_threads <= max_threads /\ (jobs = 0 => InQueue = {} /\ \A p \in Procs : pool_at[p] # "run")

\* A job that is submitted is run, whatever threads come and go: each thread's
\* last look and each submitter's look at the idle count leave it to someone,
\* and a job no thread could be started for is run by its submitter.
Submitted(j) == pool_at[j] # "submit"
JobRan(j) == j \in ran
==============================================================================
