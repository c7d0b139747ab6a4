------------------------------ MODULE Runner ------------------------------
(***************************************************************************)
(* A thread as its shard's runner (rt/context.rs, rt/context/lent.rs): the *)
(* loops, polls and calls on its stack, inside the shard or outside it;    *)
(* what it does once it finds the shard taken (rt/shard/run.rs,            *)
(* rt/workers.rs); and the loan of the shard back to a call that needs it  *)
(* (rt/handoff/loan.rs).                                                   *)
(*                                                                         *)
(* One worker's shard, "S", and each thread's own.  The slot's handshake   *)
(* is Handoff's: here the monitor takes a shard whose word says outside,   *)
(* with no pin, in one step, and gives it to an idle thread.               *)
(***************************************************************************)
EXTENDS Integers, Sequences, FiniteSets, SequencesExt

CONSTANTS Threads,
          First,     \* the thread that runs the shard at first
          None,
          TakesServing,  \* a shard may be taken while it serves another runtime
          Drains,    \* the worker may be told to stop without a shutdown
          max,       \* frames on a stack (the nesting of block_on is bounded)
          MaxTakes

Slots == 1..(MaxTakes + 1)

VARIABLES here,     \* Here, by thread
          frames,   \* its stack
          mode,     \* "idle", "runs", "waits" (to borrow), "lends", "done"
          word, pins, claim,    \* Slot
          made,     \* slots made
          loans,    \* Loan::state, by the thread that asked
          lendq,    \* lend tasks in the shard's queues, by the thread that asked
          detached, \* Shared::detached
          closed, draining

thread == <<here, frames, mode>>
slots == <<word, pins, claim, made>>
loan == <<loans, lendq>>
shared == <<detached, closed, draining>>
vars == <<thread, slots, loan, shared>>

\* Here::new
new == [current |-> None, slot |-> None, out |-> None, in_task |-> FALSE,
        detached |-> FALSE, lost |-> FALSE, lent |-> FALSE,
        own |-> FALSE, home |-> None]

\* The frames: Entered, a nested loop, a poll, a call, a pin, a loan.
Frame(k) == [k |-> k, shard |-> None, slot |-> None, out |-> None,
             current |-> None, in_task |-> FALSE, detached |-> FALSE, lend |-> None]
Top(t) == Last(frames[t])
Is(t, ks) == mode[t] = "runs" /\ frames[t] # <<>> /\ Top(t).k \in ks
Push(t, f) == frames' = [frames EXCEPT ![t] = Append(@, f)]
\* A call that makes another frame does nothing more itself, but return.
Under(t) == [frames[t] EXCEPT ![Len(frames[t])].k = "returns"]
PushCall(t, fs) == frames' = [frames EXCEPT ![t] = Under(t) \o fs]
Pop(t) == frames' = [frames EXCEPT ![t] = Front(@)]
Here(t, h) == here' = [here EXCEPT ![t] = h]
Room(t) == Len(frames[t]) < max

\* set_home, enter_with, Entered's drop.
set_home(h) == [h EXCEPT !.home = "S"]
enter_with(h, shard, slot) == [h EXCEPT !.current = shard, !.slot = slot, !.out = None]
enter_watched(h, shard, slot) == [enter_with(h, shard, slot) EXCEPT !.detached = FALSE]
Entered(h, k, shard) ==
  [Frame(k) EXCEPT !.shard = shard, !.slot = h.slot, !.out = h.out, !.current = h.current]
entered_drop(h, f) == [h EXCEPT !.current = f.current, !.slot = f.slot, !.out = f.out]

\* aim_home: the bound tasks of a thread that lost its shard are woken on its own.
aim_home(h) == IF h.lost /\ h.own /\ h.home # None THEN [h EXCEPT !.home = "own"] ELSE h
OwnUnaimed(h) == [h EXCEPT !.own = TRUE]
own_shard(h) == aim_home([h EXCEPT !.own = TRUE])

\* Here::detach, and the count of Shared::detached_began.
detach(h) ==
  LET lost == IF h.current = None THEN h
              ELSE aim_home([h EXCEPT !.detached = TRUE, !.lost = TRUE])
  IN [lost EXCEPT !.current = None, !.slot = None, !.out = None]
detached_began(h) == detached' = detached + IF h.current = None THEN 0 ELSE 1

Starts(h, slot) == enter_watched(set_home(h), "S", slot)

Init ==
  /\ here = [t \in Threads |-> IF t = First THEN Starts(new, 1) ELSE new]
  /\ frames = [t \in Threads |-> IF t = First THEN <<Entered(new, "shard", "S")>> ELSE <<>>]
  /\ mode = [t \in Threads |-> IF t = First THEN "runs" ELSE "idle"]
  /\ word = [s \in Slots |-> "in"]
  /\ pins = [s \in Slots |-> 0]
  /\ claim = [s \in Slots |-> "NONE"]
  /\ made = 1
  /\ loans = [t \in Threads |-> "none"]
  /\ lendq = {}
  /\ detached = 0
  /\ closed = FALSE
  /\ draining = FALSE

--------------------------------------------------------------------------
(* Polls: outside the shard, then back in.                                 *)

LoopKinds == {"shard", "nested", "own", "finish"}
\* polled: a frame of the loop whose poll lost its shard goes no further.
detached_from(t) == Top(t).shard = "S" /\ here[t].detached
Loops(t) == Is(t, LoopKinds) /\ ~detached_from(t)

\* poll_watched, poll_unwatched: a task's poll, or the future's.
PollBegins(t, lend) ==
  /\ Loops(t)
  /\ Room(t)
  /\ LET h == here[t]
     IN /\ Push(t, [Frame("poll") EXCEPT !.slot = h.slot, !.in_task = h.in_task,
                                         !.lend = lend])
        /\ Here(t, [h EXCEPT !.out = h.slot, !.in_task = TRUE])
        /\ word' = IF h.slot = None THEN word ELSE [word EXCEPT ![h.slot] = "out"]
  /\ UNCHANGED <<mode, pins, claim, made, shared>>
poll_begins(t) == PollBegins(t, None) /\ UNCHANGED loan

Back(t, f) == f.slot = None \/ claim[f.slot] # "TAKEN"
poll_unwatched(t) ==
  /\ Is(t, {"poll"})
  /\ Top(t).lend = None
  /\ Top(t).slot = None
  /\ Pop(t)
  /\ Here(t, [here[t] EXCEPT !.in_task = Top(t).in_task])
  /\ UNCHANGED <<mode, slots, loan, shared>>
poll_watched(t) ==
  /\ Is(t, {"poll"})
  /\ Top(t).lend = None
  /\ Top(t).slot # None
  /\ LET f == Top(t)
         h == [here[t] EXCEPT !.out = None, !.in_task = f.in_task]
     IN /\ word' = [word EXCEPT ![f.slot] = "in"]
        /\ IF Back(t, f) THEN Here(t, h) /\ UNCHANGED detached
           ELSE Here(t, detach(h)) /\ detached_began(h)
  /\ Pop(t)
  /\ UNCHANGED <<mode, pins, claim, made, loan, closed, draining>>

--------------------------------------------------------------------------
(* Calls into the runtime from a task's code.                              *)

\* current_held: what a call finds, in a bracket where one is needed.
unbracketed(h) == h.out = None
\* A call that looks at no claim.
HeldTrusts(t) ==
  LET h == here[t]
      slot == h.out
  IN /\ Push(t, [Frame("call") EXCEPT !.shard = h.current, !.slot = slot])
     /\ Here(t, [h EXCEPT !.out = None])
     /\ word' = IF slot = None THEN word ELSE [word EXCEPT ![slot] = "in"]
     /\ UNCHANGED detached
bracketed(t) ==
  LET h == here[t]
      slot == h.out
  IN IF claim[slot] = "TAKEN"
     THEN /\ Push(t, Frame("call"))
          /\ Here(t, detach(h))
          /\ detached_began(h)
          /\ word' = [word EXCEPT ![slot] = "in"]
     ELSE /\ Push(t, [Frame("call") EXCEPT !.shard = h.current, !.slot = slot])
          /\ Here(t, [h EXCEPT !.out = None])
          /\ word' = [word EXCEPT ![slot] = "in"]
          /\ UNCHANGED detached
current_held(t) ==
  IF unbracketed(here[t])
  THEN /\ Push(t, [Frame("call") EXCEPT !.shard = here[t].current])
       /\ UNCHANGED <<here, word, detached>>
  ELSE bracketed(t)

\* A user's code calls: in its poll, or under a value lent to it.
current(t) ==
  /\ Is(t, {"poll", "pin", "lent"})
  /\ Top(t).lend = None
  /\ Room(t)
  /\ current_held(t)
  /\ UNCHANGED <<mode, pins, claim, made, loan, closed, draining>>

\* The bracket's drop: out again, with the poll's word.
bracket_drop(t) ==
  /\ Is(t, {"call", "returns"})
  /\ LET f == Top(t)
     IN IF f.slot = None THEN UNCHANGED <<here, word>>
        ELSE /\ Here(t, [here[t] EXCEPT !.out = f.slot])
             /\ word' = [word EXCEPT ![f.slot] = "out"]
  /\ Pop(t)
  /\ UNCHANGED <<mode, pins, claim, made, loan, shared>>

current_pinned(t) ==
  /\ Is(t, {"call"})
  /\ Top(t).shard = "S"
  /\ Room(t)
  /\ LET slot == here[t].slot
     IN /\ PushCall(t, <<[Frame("pin") EXCEPT !.shard = "S", !.slot = slot]>>)
        /\ pins' = IF slot = None THEN pins ELSE [pins EXCEPT ![slot] = @ + 1]
  /\ UNCHANGED <<here, mode, word, claim, made, loan, shared>>
unpin(t) ==
  /\ Is(t, {"pin"})
  /\ pins' = IF Top(t).slot = None THEN pins ELSE [pins EXCEPT ![Top(t).slot] = @ - 1]
  /\ Pop(t)
  /\ UNCHANGED <<here, mode, word, claim, made, loan, shared>>

--------------------------------------------------------------------------
(* Loops: a block_on nested on the shard, or on the thread's own.          *)

\* ServingSet marks the shard another runtime's block_on runs on.
block_on_nested(t) ==
  /\ Is(t, {"call"})
  /\ Top(t).shard # None
  /\ Len(frames[t]) + 1 < max
  /\ \E foreign \in BOOLEAN:
       LET f == [Frame("nested") EXCEPT !.shard = Top(t).shard]
       IN PushCall(t, IF foreign THEN <<[f EXCEPT !.k = "serving"], f>> ELSE <<f>>)
  /\ UNCHANGED <<here, mode, slots, loan, shared>>
block_on_here(t) ==
  /\ Is(t, {"call"})
  /\ Top(t).shard = None
  /\ Room(t)
  /\ LET h == own_shard(here[t])
     IN /\ PushCall(t, <<Entered(h, "own", "own")>>)
        /\ Here(t, enter_with(h, "own", None))
  /\ UNCHANGED <<mode, slots, loan, shared>>

\* A loop's future is done.
block_on(t) ==
  /\ Is(t, {"nested"})
  /\ Pop(t)
  /\ UNCHANGED <<here, mode, slots, loan, shared>>
run_then_leave(t) ==
  /\ Is(t, {"own"})
  /\ Here(t, entered_drop(here[t], Top(t)))
  /\ Pop(t)
  /\ UNCHANGED <<mode, slots, loan, shared>>
serving_drop(t) ==
  /\ Is(t, {"serving"})
  /\ Pop(t)
  /\ UNCHANGED <<here, mode, slots, loan, shared>>

\* A nested loop lost its shard: the future goes on on the thread's own.
finish_on_own(t) ==
  /\ Is(t, {"nested"})
  /\ detached_from(t)
  /\ LET h == own_shard(here[t])
     IN /\ frames' = [frames EXCEPT ![t] = Append(Front(@), Entered(h, "own", "own"))]
        /\ Here(t, enter_with(h, "own", None))
  /\ UNCHANGED <<mode, slots, loan, shared>>

\* ForgetLost, and Shared::detached_ended.
ForgetLost(h) == [h EXCEPT !.lost = FALSE, !.home = None]
detached_ended(h) == detached' = detached - IF h.lost THEN 1 ELSE 0
Leaves(t, h, m) ==
  /\ Here(t, ForgetLost(h))
  /\ detached_ended(h)
  /\ frames' = [frames EXCEPT ![t] = <<>>]
  /\ mode' = [mode EXCEPT ![t] = m]

\* run_shard, its shard taken: the bound tasks finish on the own shard.
run_shard_taken(t) ==
  /\ Is(t, {"shard"})
  /\ detached_from(t)
  /\ LET h == entered_drop(here[t], Top(t))
     IN \/ Leaves(t, h, "idle")
        \/ /\ LET o == own_shard(h)
              IN Here(t, enter_with(o, "own", None))
           /\ frames' = [frames EXCEPT ![t] = <<Entered(h, "finish", "own")>>]
           /\ UNCHANGED <<mode, detached>>
  /\ UNCHANGED <<slots, loan, closed, draining>>
finish_home(t) ==
  /\ Is(t, {"finish"})
  /\ Leaves(t, entered_drop(here[t], Top(t)), "idle")
  /\ UNCHANGED <<slots, loan, closed, draining>>

\* may_exit: the shard is stopped, or drained of its tasks and of the threads
\* that lost it.
LiveBeside(t) == \E u \in Threads \ {t}: frames[u] # <<>> /\ ~here[u].lost
nothing_live(t) == ~LiveBeside(t) /\ detached = 0
may_exit(t) == closed \/ (draining /\ nothing_live(t))
run_shard(t) ==
  /\ Loops(t)
  /\ Top(t).k = "shard"
  /\ may_exit(t)
  /\ Leaves(t, entered_drop(here[t], Top(t)), "done")
  /\ lendq' = {}
  /\ UNCHANGED <<slots, loans, closed, draining>>

--------------------------------------------------------------------------
(* The loan.                                                               *)

\* lent_back, borrow: the call asks for the shard its thread lost.
borrow(t) ==
  /\ Is(t, {"call"})
  /\ Top(t).shard # "S"
  /\ here[t].lost
  /\ ~closed
  /\ loans' = [loans EXCEPT ![t] = "asked"]
  /\ lendq' = lendq \union {t}
  /\ mode' = [mode EXCEPT ![t] = "waits"]
  /\ UNCHANGED <<here, frames, slots, shared>>

\* Lent::enter: inside the shard, with no slot.
lent_enter(t) ==
  /\ mode[t] = "waits"
  /\ loans[t] = "lent"
  /\ LET h == here[t]
     IN /\ PushCall(t, <<[Entered(h, "lent", "S") EXCEPT !.detached = h.detached]>>)
        /\ Here(t, [enter_with(h, "S", None) EXCEPT !.detached = FALSE, !.lent = TRUE])
  /\ mode' = [mode EXCEPT ![t] = "runs"]
  /\ UNCHANGED <<slots, loan, shared>>
\* Shut down first: from asked to gone, unless a lend came first.
borrow_gone(t) ==
  /\ mode[t] = "waits"
  /\ closed
  /\ loans[t] = "asked"
  /\ loans' = [loans EXCEPT ![t] = "gone"]
  /\ mode' = [mode EXCEPT ![t] = "runs"]
  /\ PushCall(t, <<>>)
  /\ UNCHANGED <<here, slots, lendq, shared>>
lent_drop(t) ==
  /\ Is(t, {"lent"})
  /\ Here(t, [entered_drop(here[t], Top(t)) EXCEPT !.lent = FALSE,
                                                   !.detached = Top(t).detached])
  /\ Pop(t)
  /\ loans' = [loans EXCEPT ![t] = "back"]
  /\ UNCHANGED <<mode, slots, lendq, shared>>

\* The lend task is polled on the shard, by whoever runs it.
lend_begins(u, t) ==
  /\ t \in lendq
  /\ Loops(u)
  /\ Top(u).shard = "S"
  /\ PollBegins(u, t)
  /\ lendq' = lendq \ {t}
  /\ UNCHANGED loans

lends_a_value(h) == h.lent \/ (h.slot # None /\ pins[h.slot] # 0)
Unlent(u) == [frames EXCEPT ![u][Len(frames[u])].lend = None]

\* Taken meanwhile: the task goes to the shard's next runner.
lend_taken(u) ==
  /\ Is(u, {"poll"})
  /\ Top(u).lend # None
  /\ ~unbracketed(here[u])
  /\ claim[here[u].out] = "TAKEN"
  /\ Here(u, detach(here[u]))
  /\ detached_began(here[u])
  /\ frames' = Unlent(u)
  /\ lendq' = lendq \union {Top(u).lend}
  /\ UNCHANGED <<mode, slots, loans, closed, draining>>

\* A value is lent on this thread: the loan waits a tick.
lend_defers(u) ==
  /\ Is(u, {"poll"})
  /\ Top(u).lend # None
  /\ IF unbracketed(here[u]) THEN TRUE ELSE claim[here[u].out] # "TAKEN"
  /\ lends_a_value(here[u])
  /\ frames' = Unlent(u)
  /\ lendq' = lendq \union {Top(u).lend}
  /\ UNCHANGED <<here, mode, slots, loans, shared>>

\* Loan::lend, in a bracket held until the shard is back.
lend(u) ==
  /\ Is(u, {"poll"})
  /\ Top(u).lend # None
  /\ ~unbracketed(here[u])
  /\ claim[here[u].out] # "TAKEN"
  /\ ~lends_a_value(here[u])
  /\ LET t == Top(u).lend
         h == here[u]
     IN IF loans[t] = "asked"
        THEN /\ loans' = [loans EXCEPT ![t] = "lent"]
             /\ frames' = [frames EXCEPT ![u] =
                  Append(@, [Frame("call") EXCEPT !.shard = "S", !.slot = h.out, !.lend = t])]
             /\ Here(u, [h EXCEPT !.out = None])
             /\ word' = [word EXCEPT ![h.out] = "in"]
             /\ mode' = [mode EXCEPT ![u] = "lends"]
        ELSE frames' = Unlent(u) /\ UNCHANGED <<loans, here, word, mode>>
  /\ UNCHANGED <<pins, claim, made, lendq, shared>>
\* A call that asks again has a loan of its own, which only this runner lends.
wait_back(u) ==
  /\ mode[u] = "lends"
  /\ LET t == Top(u).lend
         call == Len(frames[u])
     IN /\ loans[t] # "lent"
        /\ frames' = [frames EXCEPT ![u][call].lend = None, ![u][call - 1].lend = None]
  /\ mode' = [mode EXCEPT ![u] = "runs"]
  /\ UNCHANGED <<here, slots, loan, shared>>

--------------------------------------------------------------------------
(* The monitor, and the runtime's end.                                     *)

Idle(u) == mode[u] = "idle"
take(u) ==
  /\ claim[made] = "NONE"
  /\ word[made] = "out"
  /\ pins[made] = 0
  /\ made <= MaxTakes
  /\ TakesServing \/ \A t \in Threads: \A i \in DOMAIN frames[t]: frames[t][i].k # "serving"
  /\ Idle(u)
  /\ claim' = [claim EXCEPT ![made] = "TAKEN"]
  /\ made' = made + 1
  /\ frames' = [frames EXCEPT ![u] = <<Entered(here[u], "shard", "S")>>]
  /\ Here(u, Starts(here[u], made + 1))
  /\ mode' = [mode EXCEPT ![u] = "runs"]
  /\ UNCHANGED <<word, pins, loan, shared>>

close ==
  /\ ~closed
  /\ closed' = TRUE
  /\ UNCHANGED <<thread, slots, loan, detached, draining>>
drain ==
  /\ Drains
  /\ ~draining
  /\ draining' = TRUE
  /\ UNCHANGED <<thread, slots, loan, detached, closed>>

Begins(t) == poll_begins(t) \/ current(t) \/ current_pinned(t) \/ block_on_nested(t) \/ block_on_here(t) \/ borrow(t)
Ends(t) == poll_unwatched(t) \/ poll_watched(t) \/ bracket_drop(t) \/ unpin(t) \/ block_on(t)
           \/ run_then_leave(t) \/ serving_drop(t) \/ finish_home(t) \/ lent_drop(t)
Loses(t) == finish_on_own(t) \/ run_shard_taken(t)
Lends(t) == lent_enter(t) \/ borrow_gone(t) \/ lend_taken(t) \/ lend_defers(t) \/ lend(t) \/ wait_back(t)
Next ==
  \/ \E t \in Threads: Begins(t) \/ Ends(t) \/ Loses(t) \/ Lends(t) \/ run_shard(t) \/ take(t)
  \/ \E u, t \in Threads: lend_begins(u, t)
  \/ close
  \/ drain

Spec == Init /\ [][Next]_vars

--------------------------------------------------------------------------
\* The thread runs the shard's own code, or a call of it: it touches its cells.
Inside(t) ==
  \/ Loops(t) /\ Top(t).shard = "S"
  \/ Is(t, {"call", "pin", "lent", "serving"}) /\ Top(t).shard = "S"
Lent(t) == \E i \in DOMAIN frames[t]: frames[t][i].k = "lent"

\* A shard taken from a thread is touched no more by any frame of it, however
\* deep, but in a loan; and a loan has the shard to itself, its lender
\* touching nothing: two threads are never in the shard at once (run.rs, "the
\* frame of the loop that made it then touches the shard no more").
OneInside ==
  /\ \A t, u \in Threads: Inside(t) /\ Inside(u) => t = u
  /\ \A t \in Threads: Inside(t) /\ ~Lent(t) => claim[made] = "NONE" /\ here[t].slot = made

\* A value lent to a thread's code stays its own: no other thread is inside
\* the shard while a closure of `with` runs, whatever nests in it.
ValueKept ==
  \A t, u \in Threads:
    (\E i \in DOMAIN frames[t]: frames[t][i].k = "pin") /\ Inside(u) => t = u

\* A thread back out of its stack knows nothing of the shard any more; and
\* one that lost it is counted among its live work until then, its bound
\* tasks woken on its own shard once it has one.
Restored ==
  /\ detached = Cardinality({t \in Threads: here[t].lost})
  /\ \A t \in Threads: frames[t] = <<>> =>
       [here[t] EXCEPT !.own = FALSE, !.detached = FALSE] = new
  /\ \A t \in Threads: here[t].lost /\ here[t].own => here[t].home = "own"

\* A call that waits for the shard its poll lost has its lend task queued or
\* polled, and a runner that stays up for it, unless the runtime shut down: a
\* worker told to stop counts the thread live (Shared::detached_began), and a
\* take, a value lent or another loan only puts the loan off.
LoanKept ==
  \A t \in Threads: mode[t] = "waits" /\ loans[t] = "asked" =>
    \/ closed
    \/ /\ t \in lendq \/ \E u \in Threads, i \in 1..max: i <= Len(frames[u]) /\ frames[u][i].lend = t
       /\ \E u \in Threads: frames[u] # <<>> /\ frames[u][1].k = "shard" /\ ~here[u].lost

------------------------------------------------------------------------------
(***************************************************************************)
(* `block_on` calls of several runtimes nested on one thread               *)
(* (rt/shard/foreign.rs): which runtime is current, which runtime the      *)
(* shard's loop serves, and whose timing wheels are in place.  The loop    *)
(* goes on under the runtime the shard serves; the future of another one   *)
(* is polled under its own runtime, with that runtime's wheels swapped in  *)
(* for the poll.  Visitors (rt/sched.rs, Visiting) and enter guards        *)
(* (rt/runtime/enter.rs) make another runtime current meanwhile, and mark  *)
(* the shard with the one its loop serves.                                 *)
(*                                                                         *)
(* One thread, so the state is its stack of frames: loops, and the code a  *)
(* loop polls.  An unwind drops the same guards in the same order as a     *)
(* return does, so a frame's end stands for both.                          *)
(***************************************************************************)

CONSTANTS
    Runtimes,
    Base,  \* the runtime of a worker's shard
    ShardKinds,  \* of {"own", "watched", "unwatched"}: a thread's own shard, a
        \* worker's the monitor watches, a worker's it does not
    MaxDepth,
    MaxTimers

VARIABLES sk, stack,
          visit_current,      \* the runtime set on the thread
          serving,      \* the visiting mark of the thread's own shard
          place,        \* the wheels in place: whose they are, the timers armed in them, and
                        \* the count that stands for timers kept aside
          side, foreign_poll

visit_vars == <<sk, stack, visit_current, serving, place, side, foreign_poll>>

Wheels(r) == [of |-> r, armed |-> 0, phantom |-> 0]
VisitFrame(k, r) == [k |-> k, rt |-> r, at |-> 0, made |-> FALSE, foreign |-> FALSE,
                aside |-> 0, cur |-> visit_current, srv |-> serving, marked |-> FALSE]

VisitInit ==
    /\ sk \in ShardKinds
    /\ serving = None /\ side = <<>> /\ foreign_poll = FALSE
    /\ visit_current = IF sk = "own" THEN None ELSE Base
    /\ stack = IF sk = "own" THEN <<>> ELSE <<VisitFrame("loop", Base)>>
    /\ place = Wheels(IF sk = "own" THEN None ELSE Base)

VisitTop == stack[Len(stack)]
VisitLoops == stack # <<>> /\ VisitTop.k = "loop"
Codes == stack # <<>> /\ VisitTop.k # "loop"
InLoop == \E i \in DOMAIN stack : stack[i].k = "loop"
VisitRoom == Len(stack) < MaxDepth
Pushed(f) == stack' = Append(stack, f)
Popped == stack' = SubSeq(stack, 1, Len(stack) - 1)

-----------------------------------------------------------------------------
(* The wheels: s = [place, side, fp]. *)

VisitHere == [place |-> place, side |-> side, fp |-> foreign_poll]
Becomes(s) == place' = s.place /\ side' = s.side /\ foreign_poll' = s.fp

\* Wheel::armed: the count that stands for other wheels included.
armed(w) == w.armed + w.phantom

\* count_side: the wheels in place count the timers of those kept aside.
count_side(s) ==
    [s EXCEPT !.place.phantom =
        FoldLeft(LAMBDA n, e : IF e.swapped THEN n ELSE n + armed(e.wheels), 0, s.side)]

swap_side(s, at) ==
    count_side([s EXCEPT !.place = s.side[at].wheels,
                         !.side[at].wheels = s.place,
                         !.side[at].swapped = ~s.side[at].swapped,
                         !.fp = ~s.side[at].swapped])

SwapAt(s, at) == IF at = 0 THEN s ELSE swap_side(s, at)

aside_enter(s) ==
    IF s.fp /\ \E i \in DOMAIN s.side : s.side[i].swapped
    THEN CHOOSE i \in DOMAIN s.side :
            s.side[i].swapped /\ \A j \in DOMAIN s.side : s.side[j].swapped => j <= i
    ELSE 0

\* push_side: new wheels of r, kept aside.
push_side(s, r) ==
    [s EXCEPT !.side = Append(@, [inner |-> r, wheels |-> Wheels(r), swapped |-> FALSE])]

\* side_for: those of a frame of r still nested, else new ones.
Shared(s, r) == {i \in DOMAIN s.side : s.side[i].inner = r}
side_for(s, r) ==
    IF Shared(s, r) # {}
    THEN [s |-> s, at |-> CHOOSE i \in Shared(s, r) : \A j \in Shared(s, r) : i <= j,
          made |-> FALSE]
    ELSE [s |-> push_side(s, r), at |-> Len(s.side) + 1, made |-> TRUE]

-----------------------------------------------------------------------------
(* The runtimes. *)

\* serving: the runtime the shard serves, against r, whose block_on was called with
\* `found` current; r itself when it is the one.
serving_of(found, r) ==
    IF sk # "own" THEN Base
    ELSE IF serving # None THEN serving
    ELSE IF found # None THEN found ELSE r

\* mark_served: a worker's shard knows its runtime, and one mark is enough.
mark_served(served) == sk = "own" /\ serving = None

\* mark_own: on the thread's own shard, if the thread runs it now.
mark_own(served) == served # None /\ InLoop /\ mark_served(served)
Marked(served) == serving' = IF mark_own(served) THEN served ELSE serving
unmark_own(marked) == serving' = IF marked THEN None ELSE serving

\* RuntimeSet, and the swap of a visitor's poll: set, and put back.
set_runtime(r) == visit_current' = r
swap_runtime(r) == visit_current' = r
put_runtime == visit_current' = VisitTop.cur

\* block_on_here: the outermost call of a thread runs on its own shard.
block_on_outermost(r) ==
    /\ sk = "own" /\ VisitRoom
    /\ ~InLoop
    /\ set_runtime(r)
    /\ Pushed(VisitFrame("loop", r))
    /\ place' = Wheels(r)
    /\ UNCHANGED <<sk, serving, side, foreign_poll>>

\* block_on_nested and block_on_foreign: inside the shard this thread runs.
visit_block_on_nested(r) ==
    /\ Codes /\ VisitRoom /\ InLoop
    /\ LET aside == aside_enter(VisitHere)
           out == SwapAt(VisitHere, aside)
           served == serving_of(visit_current, r)
           \* A watched shard may be taken in a poll: its wheels stay in place.
           found == IF served # r /\ sk # "watched" THEN side_for(out, r)
                    ELSE [s |-> out, at |-> 0, made |-> FALSE]
       IN  /\ Becomes(found.s)
           /\ set_runtime(served)
           /\ serving' = IF served # r THEN served ELSE serving
           /\ Pushed([VisitFrame("loop", r) EXCEPT !.at = found.at, !.made = found.made,
                          !.foreign = (served # r), !.aside = aside])
    /\ UNCHANGED sk

\* poll_inside, or a plain poll of the loop's future.
poll_inside ==
    /\ VisitLoops /\ VisitRoom /\ ~(sk # "own" /\ Len(stack) = 1)
    /\ Becomes(SwapAt(VisitHere, VisitTop.at))
    /\ set_runtime(VisitTop.rt)
    /\ Pushed([VisitFrame("future", VisitTop.rt) EXCEPT !.at = VisitTop.at])
    /\ UNCHANGED <<sk, serving>>

\* The loop polls a task of its shard.
run_task ==
    /\ VisitLoops /\ VisitRoom
    /\ Pushed(VisitFrame("task", None))
    /\ UNCHANGED <<sk, visit_current, serving, place, side, foreign_poll>>

\* Visiting::enter: a visitor's poll makes the runtime it visits for current.
visiting_enter(r) ==
    /\ VisitLoops /\ VisitRoom
    /\ swap_runtime(r)
    /\ Marked(visit_current)
    /\ Pushed([VisitFrame("visit", r) EXCEPT !.marked = mark_own(visit_current)])
    /\ UNCHANGED <<sk, place, side, foreign_poll>>

\* enter: a guard held by the code that runs, or outside any loop.
enter(r) ==
    /\ Codes \/ stack = <<>>
    /\ VisitRoom
    /\ set_runtime(r)
    /\ Marked(visit_current)
    /\ Pushed([VisitFrame("enter", r) EXCEPT !.marked = mark_own(visit_current)])
    /\ UNCHANGED <<sk, place, side, foreign_poll>>

\* The code on top ends: Swapped, Visiting::leave and EnterGuard put back what they found.
code_ends ==
    /\ Codes
    /\ Becomes(SwapAt(VisitHere, IF VisitTop.k = "future" THEN VisitTop.at ELSE 0))
    /\ put_runtime
    /\ unmark_own(VisitTop.marked)
    /\ Popped
    /\ UNCHANGED sk

\* Frame::drop: the wheels a frame made go with it.
frame_drop(s, makes) ==
    IF makes THEN count_side([s EXCEPT !.side = SubSeq(@, 1, Len(@) - 1)]) ELSE s

\* The loop's future is done: ServingSet, RuntimeSet, Frame and Aside in turn.
returns ==
    /\ VisitLoops /\ ~(sk # "own" /\ Len(stack) = 1)
    /\ Becomes(SwapAt(frame_drop(VisitHere, VisitTop.made), VisitTop.aside))
    /\ put_runtime
    /\ serving' = IF VisitTop.foreign THEN VisitTop.srv ELSE serving
    /\ Popped
    /\ UNCHANGED sk

-----------------------------------------------------------------------------
(* The timers. *)

\* A sleep of a task or of a loop's future is armed in the wheels in place.
arms ==
    /\ Codes /\ VisitTop.k \in {"task", "future"} /\ place.armed < MaxTimers
    /\ place' = [place EXCEPT !.armed = @ + 1]
    /\ UNCHANGED <<sk, stack, visit_current, serving, side, foreign_poll>>

\* fire_side: the wheels kept aside fire by their runtime's clock: any number is due.
fire_side ==
    /\ VisitLoops /\ armed(place) # 0 /\ side # <<>>
    /\ \E i \in DOMAIN side :
        /\ ~side[i].swapped /\ side[i].wheels.armed > 0
        /\ Becomes(count_side([VisitHere EXCEPT !.side[i].wheels.armed = @ - 1]))
    /\ UNCHANGED <<sk, stack, visit_current, serving>>

fire_timers ==
    /\ VisitLoops /\ place.armed > 0
    /\ place' = [place EXCEPT !.armed = @ - 1]
    /\ UNCHANGED <<sk, stack, visit_current, serving, side, foreign_poll>>

VisitNext ==
    \/ \E r \in Runtimes : \/ block_on_outermost(r) \/ visit_block_on_nested(r)
                           \/ visiting_enter(r) \/ enter(r)
    \/ poll_inside \/ run_task \/ code_ends \/ returns \/ arms \/ fire_side \/ fire_timers

VisitSpec == VisitInit /\ [][VisitNext]_visit_vars

-----------------------------------------------------------------------------

\* The runtime the shard serves: a worker's, or that of the thread's outermost block_on.
Served ==
    IF sk # "own" THEN Base
    ELSE LET i == CHOOSE i \in DOMAIN stack :
                    stack[i].k = "loop" /\ \A j \in 1..(i - 1) : stack[j].k # "loop"
         IN  stack[i].rt

(* However the calls of several runtimes, their visitors and their guards nest, the loop     *)
(* runs under the runtime the shard serves with that runtime's wheels in place, so its       *)
(* timers fire by its clock, and the code of a nested future runs under its own runtime with *)
(* its own wheels in place; only a shard the monitor watches shares its wheels.              *)
RightWheels ==
    /\ VisitLoops => visit_current = Served /\ place.of = Served
    /\ Codes /\ VisitTop.k = "task" => visit_current = Served /\ place.of = Served
    /\ Codes /\ VisitTop.k = "future" =>
           visit_current = VisitTop.rt /\ place.of = (IF sk = "watched" THEN Base ELSE VisitTop.rt)
    /\ Codes /\ VisitTop.k \in {"visit", "enter"} => visit_current = VisitTop.rt

(* Timers kept aside are never forgotten by the loop: as long as one is armed there, the     *)
(* wheels in place count it, so the timer pass looks; and once the outermost call returned,  *)
(* nothing nested is left behind: no mark, no wheels aside, no count.                        *)
AsideCounted ==
    /\ VisitLoops /\ (\E i \in DOMAIN side : ~side[i].swapped /\ side[i].wheels.armed > 0)
           => place.phantom > 0
    /\ ~InLoop => serving = None /\ side = <<>> /\ ~foreign_poll /\ place.phantom = 0
==============================================================================
