------------------------------ MODULE Handoff ------------------------------
(***************************************************************************)
(* The hand-over of a blocked worker's shard (rt/handoff): the word and    *)
(* the claim a runner and the monitor meet on (slot.rs), the monitor's     *)
(* watch, its take and its gift (monitor.rs), its sleep, and the spare     *)
(* threads that wait for a shard (workers.rs).  One shard, whose runners   *)
(* are threads; a runner's way out and back is context.rs's.               *)
(*                                                                         *)
(* A runner's stores to its own words are relaxed or release stores: they  *)
(* wait in its store buffer and reach memory in order, on their own or at  *)
(* a fence, its own or the monitor's heavy one (fence.rs).                 *)
(***************************************************************************)
EXTENDS Integers, Sequences, FiniteSets

CONSTANTS
    Threads,    \* bound: the threads that may run the shard
    First,      \* the one that does at first
    MaxSlots,   \* bound: the slots made, one for each runner in turn
    MaxEpoch,   \* bound: the polls of a thread
    MaxBuffer,  \* bound: the stores a buffer holds
    STREAK,     \* reads of one word in a row that make a blocked poll
    full_fence  \* no heavy fence: a runner's way in has a fence of its own

Slots == 1..MaxSlots

VARIABLES
    word, pins, claim,  \* Slot, by slot, as memory has it
    buffer,             \* by thread, the stores not in memory yet
    slot, epoch, at, way,   \* by thread: Here::slot, Here::epochs, its place, its way in
    parked, stopped, closed,    \* of the shard, and the monitor's
    made,               \* slots made so far
    mon, watch, gift,   \* the monitor: its place, what it watches, what it holds
    asleep, rung,       \* Monitor::asleep, and its bell
    spares, given, token,   \* the spares waiting, gifts stored, threads unparked
    life, detached      \* Life::detached by thread, Monitor::detached

slotvars == <<word, pins, claim>>
runvars == <<buffer, slot, epoch, at, way>>
monvars == <<made, mon, watch, gift, asleep>>
sparevars == <<spares, given, token>>
counts == <<life, detached>>
flags == <<parked, stopped, closed>>
vars == <<slotvars, runvars, monvars, rung, sparevars, counts, flags>>

outside(e) == 2 * e + 1
inside(e) == 2 * e
is_outside(w) == w % 2 = 1
epoch_of(w) == w \div 2

Init ==
    /\ word = [s \in Slots |-> inside(0)] /\ pins = [s \in Slots |-> 0]
    /\ claim = [s \in Slots |-> "NONE"]
    /\ buffer = [t \in Threads |-> <<>>] /\ epoch = [t \in Threads |-> 0]
    /\ slot = [t \in Threads |-> IF t = First THEN 1 ELSE 0]
    /\ at = [t \in Threads |-> IF t = First THEN "in" ELSE "none"]
    /\ way = [t \in Threads |-> "poll"]
    /\ parked = FALSE /\ stopped = FALSE /\ closed = FALSE
    /\ made = 1 /\ mon = "loop" /\ gift = 0
    /\ watch = [slot |-> 1, runner |-> First, last |-> inside(0), streak |-> 0]
    /\ asleep = FALSE /\ rung = FALSE
    /\ spares = <<>> /\ given = [t \in Threads |-> 0] /\ token = {}
    /\ life = [t \in Threads |-> 0] /\ detached = 0

-----------------------------------------------------------------------------
(* A runner's stores.                                                      *)

Room(t) == Len(buffer[t]) < MaxBuffer
Store(t, what, v) ==
    Room(t) /\ buffer' = [buffer EXCEPT ![t] = Append(@, [slot |-> slot[t], what |-> what, v |-> v])]

\* The oldest store of t reaches memory.
Drain(t) ==
    /\ buffer[t] # <<>> /\ buffer' = [buffer EXCEPT ![t] = Tail(@)]
    /\ LET b == Head(buffer[t])
       IN  /\ word' = IF b.what = "word" THEN [word EXCEPT ![b.slot] = b.v] ELSE word
           /\ pins' = IF b.what = "pins" THEN [pins EXCEPT ![b.slot] = b.v] ELSE pins
    /\ UNCHANGED <<claim, slot, epoch, at, way, monvars, rung, sparevars, counts, flags>>

\* The last value t stored, in its buffer or in memory.
Own(t, what, mem) ==
    LET mine == {i \in DOMAIN buffer[t] : buffer[t][i].what = what /\ buffer[t][i].slot = slot[t]}
    IN  IF mine = {} THEN mem[slot[t]]
        ELSE buffer[t][CHOOSE i \in mine : \A k \in mine : k <= i].v

Fenced(t) == full_fence => buffer[t] = <<>>

Goes(t, a) == at' = [at EXCEPT ![t] = a]

-----------------------------------------------------------------------------
(* A runner (context.rs, slot.rs).                                         *)

\* A poll begins: the runner leaves its shard for the task's code.
go_out(t) ==
    /\ at[t] \in {"in", "pinned"} /\ epoch[t] < MaxEpoch /\ ~parked
    /\ epoch' = [epoch EXCEPT ![t] = @ + 1]
    /\ Store(t, "word", outside(epoch[t] + 1))
    /\ Goes(t, IF at[t] = "in" THEN "out" ELSE "pinnedout")
    /\ UNCHANGED <<slotvars, slot, way, monvars, rung, sparevars, counts, flags>>

\* enter: the word is stored, then the claim is looked at. It begins a way back
\* from a poll (come_back), a call (mark) or a push (mark_unless_claimed).
enter(t) ==
    /\ at[t] \in {"out", "pinnedout"} /\ Goes(t, "check")
    /\ \E w \in IF at[t] = "out" THEN {"poll", "call", "leaf"} ELSE {"nested"} :
          way' = [way EXCEPT ![t] = w]
    /\ Store(t, "word", inside(epoch_of(Own(t, "word", word))))
    /\ UNCHANGED <<slotvars, slot, epoch, monvars, rung, sparevars, counts, flags>>

\* Where a way in leads.
Within(t) == CASE way[t] = "poll" -> "in" [] way[t] = "call" -> "call"
               [] way[t] = "leaf" -> "leaf" [] way[t] = "nested" -> "pinned"

enter_checks(t) ==
    /\ at[t] = "check" /\ Fenced(t)
    /\ Goes(t, IF claim[slot[t]] = "NONE" THEN Within(t)
               ELSE IF way[t] = "leaf" THEN "leaf_out" ELSE "contest")
    /\ UNCHANGED <<slotvars, buffer, slot, epoch, way, monvars, rung, sparevars, counts, flags>>

\* detach: the thread has no shard any more; the task's code goes on without it.
contest(t) ==
    /\ at[t] = "contest"
    /\ LET c == claim[slot[t]]
       IN  /\ claim' = IF c = "PENDING" THEN [claim EXCEPT ![slot[t]] = "NONE"] ELSE claim
           /\ Goes(t, IF c = "TAKEN" THEN "lost" ELSE Within(t))
    /\ UNCHANGED <<word, pins, buffer, slot, epoch, way, monvars, rung, sparevars, counts, flags>>

\* A push that found a claim gives the shard up for now, and one that went in ends.
unmark(t) ==
    /\ at[t] \in {"call", "leaf", "leaf_out"} /\ Goes(t, "out")
    /\ Store(t, "word", outside(epoch_of(Own(t, "word", word))))
    /\ UNCHANGED <<slotvars, slot, epoch, way, monvars, rung, sparevars, counts, flags>>

\* A shard-local value is lent within a call: the runner's code may go outside again
\* in a nested block_on.
pin(t) ==
    /\ at[t] = "call" /\ Store(t, "pins", 1) /\ Goes(t, "pinned")
    /\ UNCHANGED <<slotvars, slot, epoch, way, monvars, rung, sparevars, counts, flags>>

unpin(t) ==
    /\ at[t] = "pinned" /\ Store(t, "pins", 0) /\ Goes(t, "call")
    /\ UNCHANGED <<slotvars, slot, epoch, way, monvars, rung, sparevars, counts, flags>>

\* The shard parks: it says so, and ends its park, or backs out of it.
begin_park(t) ==
    /\ at[t] = "in" /\ ~parked /\ ~stopped /\ parked' = TRUE
    /\ UNCHANGED <<slotvars, runvars, monvars, rung, sparevars, counts, stopped, closed>>

end_park(t) ==
    /\ at[t] = "in" /\ parked /\ parked' = FALSE /\ Goes(t, "woke")
    /\ UNCHANGED <<slotvars, buffer, slot, epoch, way, monvars, rung, sparevars, counts, stopped, closed>>

worker_woke(t) ==
    /\ at[t] = "woke" /\ buffer[t] = <<>> /\ rung' = (rung \/ asleep) /\ Goes(t, "in")
    /\ UNCHANGED <<slotvars, buffer, slot, epoch, way, monvars, sparevars, counts, flags>>

-----------------------------------------------------------------------------
(* A thread between two shards (workers.rs).                               *)

\* run_shard ends: the shard stopped, or the poll that lost it did.
run_shard_ends(t) ==
    \/ /\ at[t] = "in" /\ closed /\ ~parked /\ stopped' = TRUE /\ Goes(t, "spare")
       /\ slot' = [slot EXCEPT ![t] = 0]
       /\ UNCHANGED <<slotvars, buffer, epoch, way, monvars, rung, sparevars, counts, parked, closed>>
    \/ /\ at[t] = "lost" /\ life' = [life EXCEPT ![t] = @ - 1] /\ Goes(t, "finish")
       /\ UNCHANGED <<slotvars, buffer, slot, epoch, way, monvars, rung, sparevars, detached, flags>>

\* The tasks bound to the thread are finished, and the thread is counted out.
finish_taken(t) ==
    /\ at[t] = "finish" /\ detached' = detached - 1 /\ slot' = [slot EXCEPT ![t] = 0]
    /\ Goes(t, "spare")
    /\ UNCHANGED <<slotvars, buffer, epoch, way, monvars, rung, sparevars, life, flags>>

wait_for_shard(t) ==
    \/ /\ at[t] = "spare" /\ spares' = Append(spares, t) /\ Goes(t, "take")
       /\ UNCHANGED <<slotvars, buffer, slot, epoch, way, monvars, rung, given, token, counts, flags>>
    \/ /\ at[t] = "take" /\ given[t] = 0 /\ Goes(t, IF closed THEN "last" ELSE "waits")
       /\ UNCHANGED <<slotvars, buffer, slot, epoch, way, monvars, rung, sparevars, counts, flags>>
    \/ /\ at[t] = "last" /\ given[t] = 0 /\ Goes(t, "gone")
       /\ UNCHANGED <<slotvars, buffer, slot, epoch, way, monvars, rung, sparevars, counts, flags>>
    \/ /\ at[t] = "waits" /\ t \in token /\ token' = token \ {t} /\ Goes(t, "take")
       /\ UNCHANGED <<slotvars, buffer, slot, epoch, way, monvars, rung, spares, given, counts, flags>>

\* The gift is taken, and the shard run with its fresh slot.
take_gift(t) ==
    /\ at[t] \in {"take", "last", "start"} /\ given[t] # 0
    /\ slot' = [slot EXCEPT ![t] = given[t]] /\ given' = [given EXCEPT ![t] = 0]
    /\ Goes(t, "in")
    /\ UNCHANGED <<slotvars, buffer, epoch, way, monvars, rung, spares, token, counts, flags>>

-----------------------------------------------------------------------------
(* The monitor (monitor.rs).                                               *)

all_parked == parked \/ stopped

\* The loop's head: it ends, gives a shard that waits, says that it sleeps, or
\* waits for its tick.
run ==
    /\ mon = "loop"
    /\ \/ closed /\ mon' = "ends" /\ UNCHANGED asleep
       \/ ~closed /\ gift # 0 /\ mon' = "give" /\ UNCHANGED asleep
       \/ ~closed /\ gift = 0 /\ all_parked /\ asleep' = TRUE /\ mon' = "looks"
       \/ ~closed /\ gift = 0 /\ ~all_parked /\ mon' = "tick" /\ UNCHANGED asleep
    /\ UNCHANGED <<slotvars, runvars, made, watch, gift, rung, sparevars, counts, flags>>

\* The second look, after asleep is stored.
sleeps ==
    /\ mon = "looks" /\ mon' = IF all_parked /\ ~closed THEN "sleeps" ELSE "awake"
    /\ UNCHANGED <<slotvars, runvars, made, watch, gift, asleep, rung, sparevars, counts, flags>>

wakes ==
    /\ \/ mon = "sleeps" /\ rung /\ rung' = FALSE
       \/ mon = "awake" /\ UNCHANGED rung
    /\ asleep' = FALSE /\ watch' = [watch EXCEPT !.streak = 0] /\ mon' = "loop"
    /\ UNCHANGED <<slotvars, runvars, made, gift, sparevars, counts, flags>>

\* A tick: the word is read, and a streak of reads makes a blocked poll.
tick ==
    /\ mon = "tick"
    /\ LET w == word[watch.slot]
           n == IF is_outside(w) /\ w = watch.last THEN watch.streak + 1 ELSE 0
       IN  /\ watch' = [watch EXCEPT !.last = w, !.streak = IF n < STREAK \/ gift # 0 THEN n ELSE 0]
           /\ mon' = IF n < STREAK \/ gift # 0 THEN "loop" ELSE "claim"
    /\ UNCHANGED <<slotvars, runvars, made, gift, asleep, rung, sparevars, counts, flags>>

take_claims ==
    /\ mon = "claim" /\ made < MaxSlots /\ mon' = "fence"
    /\ claim' = [claim EXCEPT ![watch.slot] = "PENDING"]
    /\ UNCHANGED <<word, pins, runvars, made, watch, gift, asleep, rung, sparevars, counts, flags>>

\* What memory holds once every buffer is empty.
Flushed(mem, what) ==
    [s \in Slots |->
        LET by(t) == {i \in DOMAIN buffer[t] : buffer[t][i].what = what /\ buffer[t][i].slot = s}
            ts == {t \in Threads : by(t) # {}}
        IN  IF ts = {} THEN mem[s]
            ELSE LET t == CHOOSE t \in ts : TRUE
                 IN  buffer[t][CHOOSE i \in by(t) : \A k \in by(t) : k <= i].v]

\* The heavy fence orders every thread; it may fail, and the take is given up.
heavy ==
    /\ mon = "fence" /\ mon' = "reread"
    /\ word' = IF full_fence THEN word ELSE Flushed(word, "word")
    /\ pins' = IF full_fence THEN pins ELSE Flushed(pins, "pins")
    /\ buffer' = IF full_fence THEN buffer ELSE [t \in Threads |-> <<>>]
    /\ UNCHANGED <<claim, slot, epoch, at, way, made, watch, gift, asleep, rung, sparevars, counts, flags>>

cancel ==
    claim' = [claim EXCEPT ![watch.slot] = IF @ = "PENDING" THEN "NONE" ELSE @]

heavy_fails ==
    /\ mon = "fence" /\ ~full_fence /\ cancel /\ mon' = "loop"
    /\ UNCHANGED <<word, pins, runvars, made, watch, gift, asleep, rung, sparevars, counts, flags>>

\* The word is read again: another one, or a value lent, and nothing is taken.
take_rereads ==
    /\ mon = "reread"
    /\ IF word[watch.slot] # watch.last \/ pins[watch.slot] # 0
       THEN cancel /\ mon' = "loop"
       ELSE mon' = "take" /\ UNCHANGED claim
    /\ UNCHANGED <<word, pins, runvars, made, watch, gift, asleep, rung, sparevars, counts, flags>>

\* Pending to taken, unless the runner cancelled it: the shard is the monitor's,
\* with a fresh slot for its next runner.
take ==
    /\ mon = "take"
    /\ \/ /\ claim[watch.slot] # "PENDING" /\ mon' = "loop"
          /\ UNCHANGED <<claim, made, gift, watch>>
       \/ /\ claim[watch.slot] = "PENDING" /\ mon' = "count"
          /\ claim' = [claim EXCEPT ![watch.slot] = "TAKEN"]
          /\ made' = made + 1 /\ gift' = made + 1
          /\ watch' = [watch EXCEPT !.slot = made + 1, !.last = inside(0)]
    /\ UNCHANGED <<word, pins, runvars, asleep, rung, sparevars, counts, flags>>

\* count_in, then Life::detach of the old runner, who may be back already.
take_counts ==
    /\ \/ mon = "count" /\ mon' = "detach" /\ detached' = detached + 1 /\ UNCHANGED life
       \/ mon = "detach" /\ mon' = "give" /\ life' = [life EXCEPT ![watch.runner] = @ + 1]
          /\ UNCHANGED detached
    /\ UNCHANGED <<slotvars, runvars, made, watch, gift, asleep, rung, sparevars, flags>>

\* give: to a spare, or to a thread started for it; the shard waits if none starts.
give ==
    /\ mon = "give" /\ mon' = IF closed THEN "loop" ELSE "tick"
    /\ \/ /\ spares # <<>> /\ spares' = Tail(spares)
          /\ given' = [given EXCEPT ![Head(spares)] = gift] /\ token' = token \cup {Head(spares)}
          /\ watch' = [watch EXCEPT !.runner = Head(spares)] /\ gift' = 0
          /\ UNCHANGED at
       \/ /\ spares = <<>>
          /\ \E t \in Threads :
                /\ at[t] = "none" /\ Goes(t, "start") /\ given' = [given EXCEPT ![t] = gift]
                /\ watch' = [watch EXCEPT !.runner = t] /\ gift' = 0
          /\ UNCHANGED <<spares, token>>
    /\ UNCHANGED <<slotvars, buffer, slot, epoch, way, made, asleep, rung, counts, flags>>

give_fails ==
    /\ mon = "give" /\ spares = <<>> /\ mon' = IF closed THEN "loop" ELSE "tick"
    /\ UNCHANGED <<slotvars, runvars, made, watch, gift, asleep, rung, sparevars, counts, flags>>

\* The monitor ends, letting a shard that waits go.
run_ends ==
    /\ mon = "ends" /\ mon' = "gone" /\ gift' = 0
    /\ UNCHANGED <<slotvars, runvars, made, watch, asleep, rung, sparevars, counts, flags>>

\* stop_all: the monitor and the spares are woken to leave.
close ==
    /\ ~closed /\ closed' = TRUE /\ rung' = TRUE
    /\ token' = token \cup {spares[i] : i \in DOMAIN spares} /\ spares' = <<>>
    /\ UNCHANGED <<slotvars, runvars, monvars, given, counts, parked, stopped>>

-----------------------------------------------------------------------------
Back(t) == enter_checks(t) \/ contest(t) \/ unmark(t)
Runs(t) ==
    \/ Back(t) \/ unpin(t) \/ end_park(t) \/ worker_woke(t) \/ run_shard_ends(t)
    \/ finish_taken(t) \/ wait_for_shard(t) \/ take_gift(t)
Sleeps == sleeps \/ wakes
Takes == take_claims \/ take_rereads \/ take \/ take_counts
Monitors == run \/ Sleeps \/ tick \/ Takes \/ run_ends

Next ==
    \/ \E t \in Threads : Drain(t) \/ go_out(t) \/ enter(t) \/ pin(t) \/ begin_park(t) \/ Runs(t)
    \/ Monitors \/ heavy \/ heavy_fails \/ give \/ give_fails \/ close

\* A store reaches memory in the end, threads run and are started, and the heavy fence
\* works now and then; a poll need not end.
Spec ==
    /\ Init /\ [][Next]_vars /\ WF_vars(Monitors) /\ SF_vars(heavy) /\ SF_vars(give)
    /\ \A t \in Threads : WF_vars(Drain(t)) /\ WF_vars(Runs(t))

-----------------------------------------------------------------------------
Uses(t) == at[t] \in {"in", "woke", "call", "leaf", "pinned", "pinnedout"} \/ given[t] # 0

\* take and contest settle the shard between them: its runner, the monitor, or
\* the thread it was given to has it, never two, and a value lent inside it is not
\* taken from under its borrower.
OneRunner ==
    /\ \A t, u \in Threads : Uses(t) /\ Uses(u) => t = u
    /\ gift # 0 => \A t \in Threads : ~Uses(t)

\* The counts a shutdown and a paused clock rely on (Life::is_detached, detached):
\* a thread that runs nothing of the monitor's owes nothing, even when it was back
\* before the monitor counted it.
CountsSettle ==
    /\ detached >= (IF mon = "count" THEN -1 ELSE 0)
    /\ mon \notin {"count", "detach"} /\ (\A t \in Threads : at[t] \notin {"out", "check", "contest", "leaf_out", "lost", "finish"})
          => detached = 0 /\ \A t \in Threads : life[t] = 0

\* The monitor does not sleep on while a worker is out of its park.
MonitorSleeps == mon = "sleeps"
SleepsOn == MonitorSleeps /\ ~parked /\ ~stopped

\* A poll that blocks outside its shard loses it to another thread: a runner does
\* not stay out for ever with the shard still its own.
OutWithShard(t) == at[t] = "out" /\ claim[slot[t]] # "TAKEN" /\ ~closed /\ made < MaxSlots
=============================================================================
