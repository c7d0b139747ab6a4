------------------------------ MODULE Event ------------------------------
(***************************************************************************)
(* The one-way event of src/sync/event.rs: set once, it lets every waiter  *)
(* go, those that queue while it is set included.                          *)
(***************************************************************************)
EXTENDS WaitQueue

VARIABLE at   \* of a task: where its EventWait is

evars == <<wvars, at>>

Init == InitQueue /\ at = [t \in Tasks |-> "none"]

Go(t, where) == at' = [at EXCEPT ![t] = where]

is_set == "SET" \in flags

\* Whoever waits is let go by a pass, and nobody queued needs none.
event_set(t) ==
    /\ Free(t)
    /\ CASE is_set -> UNCHANGED <<flags, drain>>
         [] ~is_set /\ Queued -> StepDrain(t, flags \cup {"SET"})
         [] OTHER -> flags' = flags \cup {"SET"} /\ UNCHANGED drain
    /\ UNCHANGED <<arrivals, list, node, woken, at>>

\* wait, and the look of its first poll
wait(t) == at[t] = "none" /\ Free(t) /\ Go(t, "look") /\ UNCHANGED wvars
poll_looks(t) == at[t] = "look" /\ Go(t, IF is_set THEN "done" ELSE "queue") /\ UNCHANGED wvars

\* The event may be set between the look and the queueing.
poll_queues(t) == at[t] = "queue" /\ enqueue(t, 0) /\ Go(t, "wait")

\* The poll of a queued wait
poll(t) ==
    /\ at[t] = "wait" /\ Free(t)
    /\ IF Granted(t) THEN consume(t) /\ Go(t, "done") ELSE arm(t) /\ UNCHANGED at

\* A wait dropped before its grant leaves a pass to tidy.
drop(t) ==
    /\ at[t] = "wait" /\ Free(t) /\ Go(t, "none")
    /\ IF Granted(t) THEN consume(t) ELSE withdrawn(t)

\* pass: a set event grants everyone that waits.
pass ==
    /\ drain.at = "pass" /\ drain' = [drain EXCEPT !.at = "end"]
    /\ IF is_set THEN Granting(Range(list), 0) /\ list' = <<>> ELSE UNCHANGED <<node, woken, list>>
    /\ UNCHANGED <<flags, arrivals, at>>

DrainStep ==
    \/ drain_begin /\ UNCHANGED at
    \/ pass
    \/ drain_end(IF list = <<>> THEN {"QUEUED"} ELSE {}) /\ UNCHANGED at

WaitStep(t) == poll_looks(t) \/ poll_queues(t) \/ poll(t)

Next ==
    \/ \E t \in Tasks: event_set(t) \/ wait(t) \/ WaitStep(t) \/ drop(t)
    \/ DrainStep

Spec == Init /\ [][Next]_evars

(***************************************************************************)
(* Once an event is set and no pass is under way, nobody waits on it: a    *)
(* wait that found it clear just before and queued just after is granted   *)
(* as those before it.                                                     *)
(***************************************************************************)
SetWaitsForNobody == is_set /\ drain = NoDrain => \A t \in Tasks: ~Waiting(t)

------------------------------------------------------------------------------
(***************************************************************************)
(* The reusable barrier of src/sync/barrier.rs: one count of all arrivals  *)
(* ever gives each its generation, and a pass lets go the waiters of every *)
(* generation that is over.                                                *)
(***************************************************************************)

CONSTANTS n,           \* the size of a group
          MaxArrivals  \* bound: arrivals, in all

VARIABLES
    barrier_at,        \* of a task: where its BarrierWait is
    arrived,   \* Barrier::arrivals
    listed,    \* Waiting::generation: the one everyone in the list is of
    current,   \* the generation the pass read
    fresh,     \* the arrivals the pass took
    of         \* of a task: the generation it arrived in

bvars == <<wvars, barrier_at, arrived, listed, current, fresh, of>>

BarrierInit ==
    /\ InitQueue /\ barrier_at = [t \in Tasks |-> "none"]
    /\ arrived = 0 /\ listed = 0 /\ current = 0 /\ fresh = <<>> /\ of = [t \in Tasks |-> 0]

generation_of(arrival) == arrival \div n

BarrierGo(t, where) == barrier_at' = [barrier_at EXCEPT ![t] = where]

\* arrive: the one that completes its generation leads it.
arrive(t) ==
    /\ barrier_at[t] = "none" /\ Free(t) /\ arrived < MaxArrivals /\ arrived' = arrived + 1
    /\ of' = [of EXCEPT ![t] = generation_of(arrived)]
    /\ BarrierGo(t, IF arrived % n = n - 1 THEN "lead" ELSE "queue")
    /\ UNCHANGED <<wvars, listed, current, fresh>>

\* The leader answers at once, and has a pass let the others go.
lead(t) ==
    /\ barrier_at[t] = "lead" /\ BarrierGo(t, "none")
    /\ IF Queued THEN StepDrain(t, flags) ELSE UNCHANGED <<flags, drain>>
    /\ UNCHANGED <<arrivals, list, node, woken, arrived, listed, current, fresh, of>>

\* The others queue with their generation.
queue(t) ==
    /\ barrier_at[t] = "queue" /\ enqueue(t, of[t]) /\ BarrierGo(t, "wait")
    /\ UNCHANGED <<arrived, listed, current, fresh, of>>

barrier_poll(t) ==
    /\ barrier_at[t] = "wait" /\ Free(t)
    /\ IF Granted(t) THEN consume(t) /\ BarrierGo(t, "none") ELSE arm(t) /\ UNCHANGED barrier_at
    /\ UNCHANGED <<arrived, listed, current, fresh, of>>

\* A wait dropped stays counted.
barrier_drop(t) ==
    /\ barrier_at[t] = "wait" /\ Free(t) /\ BarrierGo(t, "none")
    /\ IF Granted(t) THEN consume(t) ELSE withdrawn(t)
    /\ fresh' = SelectSeq(fresh, LAMBDA u: u # t)
    /\ UNCHANGED <<arrived, listed, current, of>>

\* pass: the count is read once the arrivals were taken,
pass_reads ==
    /\ drain.at = "pass" /\ drain' = [drain EXCEPT !.at = "current"]
    /\ current' = generation_of(arrived)
    /\ UNCHANGED <<flags, arrivals, list, node, woken, barrier_at, arrived, listed, fresh, of>>

\* and whoever is of an older generation is let go: the whole list, if it is,
\* and each arrival that is.
barrier_pass ==
    /\ drain.at = "current"
    /\ drain' = [drain EXCEPT !.at = "end"] /\ listed' = current /\ fresh' = <<>>
    /\ LET stays(t) == node[t].payload = current
           over == (IF listed = current THEN {} ELSE Range(list)) \cup {t \in Range(fresh): ~stays(t)}
       IN  /\ Granting(over, 0)
           /\ list' = (IF listed = current THEN list ELSE <<>>) \o SelectSeq(fresh, stays)
    /\ UNCHANGED <<flags, arrivals, barrier_at, arrived, current, of>>

BarrierDrainStep ==
    \/ drain_takes(fresh) /\ UNCHANGED <<barrier_at, arrived, listed, current, of>>
    \/ pass_reads
    \/ barrier_pass
    \/ drain_end(IF list = <<>> THEN {"QUEUED"} ELSE {}) /\ UNCHANGED <<barrier_at, arrived, listed, current, fresh, of>>

BarrierNext ==
    \/ \E t \in Tasks: arrive(t) \/ lead(t) \/ queue(t) \/ barrier_poll(t) \/ barrier_drop(t)
    \/ BarrierDrainStep

BarrierSpec == BarrierInit /\ [][BarrierNext]_bvars

(***************************************************************************)
(* A generation goes through together: nobody is let go before the n-th    *)
(* arrival of its generation, and once that one's call and the passes are  *)
(* over, nobody of the generation is left waiting, however the arrivals of *)
(* the next one interleave.                                                *)
(***************************************************************************)
TogetherOnly ==
    \A t \in Tasks:
        /\ Granted(t) => of[t] < generation_of(arrived)
        /\ Waiting(t) /\ drain = NoDrain /\ (\A u \in Tasks: barrier_at[u] # "lead")
             => of[t] = generation_of(arrived)

------------------------------------------------------------------------------
(***************************************************************************)
(* SetOnce of src/sync/set_once.rs: a OnceCell filled by set alone and an  *)
(* Event that tells those waiting for the value.                           *)
(***************************************************************************)

CONSTANT MaxCalls

VARIABLES value, slot, turn, closed, in, got, calls

Cell == INSTANCE OnceCell

cellvars == <<value, slot, turn, closed, in, got, calls>>
svars == <<wvars, at, cellvars>>

OnceInit == Cell!Init /\ Init

\* set: the cell first, then the event, if the cell took the value.
set(t) == at[t] = "none" /\ drain.by # t /\ Cell!set(t) /\ UNCHANGED <<wvars, at>>

set_cell(t) == (Cell!SetStep(t) \/ Cell!set_refused(t)) /\ UNCHANGED <<wvars, at>>

set_tells(t) == in[t] = "ok" /\ event_set(t) /\ Cell!set_ok(t)

\* wait: a look at the cell, and the event between two looks.
once_wait(t) == in[t] = "idle" /\ got[t] = None /\ wait(t) /\ Cell!At(t, "get")
           /\ UNCHANGED <<value, slot, turn, closed, got, calls>>

wait_gets(t) ==
    /\ in[t] = "get" /\ at[t] \in {"look", "done"}
    /\ IF Cell!initialized
       THEN Cell!Answers(t, Cell!resolve) /\ Go(t, "none") /\ UNCHANGED calls
       ELSE Cell!At(t, "event") /\ Go(t, "look") /\ UNCHANGED <<got, calls>>
    /\ UNCHANGED <<value, slot, turn, closed, wvars>>

wait_event(t) ==
    /\ in[t] = "event" /\ WaitStep(t)
    /\ IF at'[t] = "done" THEN Cell!At(t, "get") ELSE UNCHANGED in
    /\ UNCHANGED <<value, slot, turn, closed, got, calls>>

wait_dropped(t) ==
    /\ in[t] = "event" /\ drop(t) /\ Cell!At(t, "idle")
    /\ UNCHANGED <<value, slot, turn, closed, got, calls>>

OnceNext ==
    \/ \E t \in Tasks:
        \/ set(t) \/ set_cell(t) \/ set_tells(t)
        \/ once_wait(t) \/ wait_gets(t) \/ wait_event(t) \/ wait_dropped(t)
    \/ DrainStep /\ UNCHANGED cellvars

OnceSpec == OnceInit /\ [][OnceNext]_svars

(***************************************************************************)
(* Nobody waits for a value that is there: once the call of set that       *)
(* filled the cell is over and no pass is under way, no task is left in    *)
(* the event's queue, and none finds the event set and the cell empty.     *)
(***************************************************************************)
ValueIsTold ==
    /\ "SET" \in flags => Cell!initialized
    /\ Cell!initialized /\ (\A t \in Tasks: in[t] \notin {"set_close", "ok"}) /\ drain = NoDrain
       => \A t \in Tasks: ~Waiting(t)
==============================================================================
