------------------------------ MODULE Contend ------------------------------
(***************************************************************************)
(* The contended acquire that Mutex, Semaphore, ReentrantMutex and         *)
(* OnceCell share: the wait queue and its drain role (src/sync/queue.rs),  *)
(* the barging acquire with bounded bypass (contend.rs) and the permit     *)
(* core (raw_semaphore.rs).                                                *)
(*                                                                         *)
(* Every step is one access to the state word, to the owed count, to the   *)
(* arrival stack or to a waiter node.  A node is what module Waiter shows  *)
(* it to be: a mark sets its bit and claims the waker if one is armed, and *)
(* the future reads the marks as it arms.  A withdrawn node stays linked   *)
(* until a pass meets it, as a Gone or GoneOwed entry of the list.         *)
(***************************************************************************)
EXTENDS Integers, Sequences, FiniteSets, FiniteSetsExt

CONSTANTS Tasks,       \* the callers, each with one acquire at a time
          Waiters,     \* those that wait; the others only try
          Permits,     \* the permits the semaphore is made with
          Needs,       \* the requests made of it
          MAX_BYPASS,  \* losses before a waiter is owed a handoff
          SPINS,       \* whether contended acquires spin
          MaxChanges,  \* bound: acquires dropped and permits forgotten, in all
          Spurious,    \* whether a waiter may be polled without a wake
          Yields,      \* whether a poll's budget may run out
          Closes,      \* whether the semaphore may be closed
          Gone, GoneOwed, None

ASSUME PermitsAssumption == Waiters \subseteq Tasks /\ Permits \in Nat /\ Needs \subseteq 1..Permits
ASSUME BypassAssumption == MAX_BYPASS \in Nat \ {0}

VARIABLES
    flags,     \* the queue's bits and the closed bit of the state word
    free,      \* the permits of the state word
    forgotten, \* the permits taken out of the semaphore for good
    changes,   \* history: acquires dropped and permits forgotten so far
    owed,      \* queued waiters counted as owed a handoff
    arrivals,  \* the arrival stack, oldest first
    waiting,   \* the list the drain role's holder keeps
    cancels,   \* withdrawals since the list was last swept
    node,      \* each task's waiter node
    pc,        \* where each task's call is
    after,     \* where it goes on once its drain is done
    need,      \* what it asks for
    held,      \* the permits it holds
    bypass,    \* its counted losses
    now,       \* whether it queued in the poll it is in
    woken,     \* whether its waker was called since its last poll
    calls,     \* the wake list of the drain it ran
    d          \* the drain under way

word == <<flags, free, forgotten, changes>>
queue == <<owed, arrivals, waiting, cancels>>
task == <<need, held, bypass, now>>
vars == <<word, queue, node, pc, after, task, woken, calls, d>>

NoNode == [phase |-> "none", nudged |-> FALSE, owed |-> FALSE, armed |-> FALSE]
NoDrain == [at |-> "none", by |-> None, wake_front |-> FALSE, hand |-> None, n |-> 0,
            pos |-> 0, first |-> FALSE, budget |-> 0, raised |-> FALSE, sent |-> FALSE,
            clear |-> {}]

Init ==
    /\ flags = {} /\ free = Permits /\ forgotten = 0 /\ changes = 0
    /\ owed = 0    /\ arrivals = <<>> /\ waiting = <<>> /\ cancels = 0
    /\ node = [t \in Tasks |-> NoNode] /\ pc = [t \in Tasks |-> "idle"]
    /\ after = [t \in Tasks |-> "idle"]
    /\ need = [t \in Tasks |-> 0] /\ held = [t \in Tasks |-> 0]
    /\ bypass = [t \in Tasks |-> 0] /\ now = [t \in Tasks |-> FALSE]
    /\ woken = [t \in Tasks |-> FALSE] /\ calls = [t \in Tasks |-> {}]
    /\ d = NoDrain

Goto(t, to) == pc' = [pc EXCEPT ![t] = to]
Leave(t, to) == Goto(t, to) /\ after' = [after EXCEPT ![t] = "idle"]
Set(f, t, v) == [f EXCEPT ![t] = v]

-----------------------------------------------------------------------------
(* The state word: queue.rs *)

\* The drain role is claimed by t, which goes on at `to` once it drained.
Claim(t, to) ==
    /\ Goto(t, "drain") /\ after' = Set(after, t, to)
    /\ d' = [NoDrain EXCEPT !.at = "begin", !.by = t]

\* A mutant: a change made while another thread drains is left unmarked.
DrainUnmarked(t, next, to) ==
    IF "DRAINING" \in flags
    THEN flags' = next /\ Leave(t, to) /\ UNCHANGED d
    ELSE flags' = next \cup {"DRAINING"} /\ Claim(t, to)

\* Policy::transition with Step::Drain: the role is claimed, or its holder is
\* told to pass again.
StepDrain(t, next, to) ==
    IF "DRAINING" \in flags
    THEN flags' = next \cup {"DIRTY"} /\ Leave(t, to) /\ UNCHANGED d
    ELSE flags' = next \cup {"DRAINING"} /\ Claim(t, to)

\* and with Step::Wake: the request alone is left with the holder.
StepWake(t, next, to) ==
    IF "DRAINING" \in flags
    THEN flags' = next /\ Leave(t, to) /\ UNCHANGED d
    ELSE flags' = next \cup {"DRAINING"} /\ Claim(t, to)

\* Whether a release must run a pass: waiters and no nudge out, or a handoff.
wants_drain == "QUEUED" \in flags /\ ("NUDGE_OUT" \notin flags \/ "HANDOFF" \in flags)

\* Whether a contender stops spinning and queues.
stops_spin == "HANDOFF" \in flags \/ flags \cap {"QUEUED", "DRAINING"} = {"QUEUED"}

\* Lock::admit of a semaphore.
admit(n) == free >= n /\ "CLOSED" \notin flags

\* A release: the permits go back, and a pass follows if a waiter wants one.
Release(t, n, to) ==
    /\ free' = free + n
    /\ IF wants_drain THEN Goto(t, "released") /\ after' = Set(after, t, to)
                      ELSE Leave(t, to)

released(t) ==
    /\ pc[t] = "released"
    /\ StepWake(t, flags \cup {"WAKE_FRONT"}, after[t])
    /\ UNCHANGED <<free, forgotten, changes, queue, node, task, woken, calls>>

-----------------------------------------------------------------------------
(* The acquire: contend.rs *)

\* try_acquire: one attempt, by a caller that does not wait.
try_acquire(t, n) ==
    /\ pc[t] = "idle" /\ held[t] = 0
    /\ admit(n) /\ "HANDOFF" \notin flags
    /\ free' = free - n /\ held' = Set(held, t, n)
    /\ UNCHANGED <<flags, forgotten, changes, queue, node, pc, after, need, bypass, now, woken, calls, d>>

\* A fresh acquire of n permits.
acquire(t, n) ==
    /\ t \in Waiters /\ pc[t] = "idle" /\ held[t] = 0
    /\ Goto(t, "try") /\ need' = Set(need, t, n)
    /\ UNCHANGED <<word, queue, node, after, held, bypass, now, woken, calls, d>>

\* What was taken is kept: the acquire is over.
Keep(t) == /\ Goto(t, "idle") /\ held' = Set(held, t, need[t]) /\ bypass' = Set(bypass, t, 0)
           /\ now' = Set(now, t, FALSE) /\ need' = Set(need, t, 0)

\* try_take: whenever it is free, but never while a handoff is owed.
try_take(t) ==
    /\ pc[t] = "try"
    /\ IF admit(need[t]) /\ "HANDOFF" \notin flags
       THEN free' = free - need[t] /\ Goto(t, "taken")
       ELSE UNCHANGED free /\ Goto(t, IF "CLOSED" \in flags THEN "over"
                                      ELSE IF SPINS /\ ~stops_spin THEN "spin" ELSE "enqueue")
    /\ UNCHANGED <<flags, forgotten, changes, queue, node, after, task, woken, calls, d>>

\* spin_take: one more attempt at what is freed meanwhile, or the spin ends.
spin_take(t) ==
    /\ pc[t] = "spin"
    /\ \/ ~stops_spin /\ admit(need[t]) /\ free' = free - need[t] /\ Goto(t, "taken")
       \/ UNCHANGED free /\ Goto(t, "enqueue")
    /\ UNCHANGED <<flags, forgotten, changes, queue, node, after, task, woken, calls, d>>

\* taken_at_once: kept, or given back for want of budget and tried again later.
taken_at_once(t) ==
    /\ pc[t] = "taken"
    /\ \/ Keep(t) /\ UNCHANGED <<free, after>>
       \/ /\ Yields /\ Release(t, need[t], "try")
          /\ bypass' = Set(bypass, t, 0) /\ now' = Set(now, t, FALSE) /\ UNCHANGED <<need, held>>
    /\ UNCHANGED <<flags, forgotten, changes, queue, node, woken, calls, d>>

\* A wait that ends with nothing taken: the semaphore closed, or it was dropped.
over(t) ==
    /\ pc[t] = "over" /\ Goto(t, "idle") /\ need' = Set(need, t, 0)
    /\ bypass' = Set(bypass, t, 0) /\ now' = Set(now, t, FALSE)
    /\ UNCHANGED <<word, queue, node, after, held, woken, calls, d>>

\* Policy::enqueue: the node is pushed, its waker not armed yet,
enqueue(t) ==
    /\ pc[t] = "enqueue" /\ Goto(t, "publish")
    /\ node' = Set(node, t, [NoNode EXCEPT !.phase = "WAITING"])
    /\ arrivals' = Append(arrivals, t) /\ now' = Set(now, t, TRUE)
    /\ UNCHANGED <<word, owed, waiting, cancels, after, need, held, bypass, woken, calls, d>>

\* and published, and then looked at.
publish(t) ==
    /\ pc[t] = "publish"
    /\ StepDrain(t, flags \cup {"QUEUED"}, "settle")
    /\ UNCHANGED <<free, forgotten, changes, queue, node, task, woken, calls>>

\* A mutant: the node is armed after the look at its marks, not with it.
SettleBlind(t) ==
    /\ pc[t] = "settle"
    /\ IF node[t].phase # "WAITING" THEN Goto(t, "granted") /\ UNCHANGED node
       ELSE Goto(t, "asleep") /\ node' = [node EXCEPT ![t].armed = TRUE]
    /\ UNCHANGED <<word, queue, after, task, woken, calls, d>>

\* park's last exchange: a grant or a nudge is seen, or the node is armed and
\* the poll returns Pending.
settle(t) ==
    /\ pc[t] = "settle"
    /\ IF node[t].phase # "WAITING" THEN Goto(t, "granted") /\ UNCHANGED node
       ELSE IF node[t].nudged
            THEN Goto(t, "nudged") /\ node' = [node EXCEPT ![t].nudged = FALSE]
            ELSE Goto(t, "asleep") /\ node' = [node EXCEPT ![t].armed = TRUE]
    /\ UNCHANGED <<word, queue, after, task, woken, calls, d>>

\* The waiter is polled: it was woken, or for any other reason.
poll(t) ==
    /\ pc[t] = "asleep" /\ (woken[t] \/ Spurious) /\ Goto(t, "look")
    /\ now' = Set(now, t, FALSE) /\ woken' = Set(woken, t, FALSE)
    /\ UNCHANGED <<word, queue, node, after, need, held, bypass, calls, d>>

\* park's first exchange.
look(t) ==
    /\ pc[t] = "look"
    /\ IF node[t].phase # "WAITING" THEN Goto(t, "granted") /\ UNCHANGED node
       ELSE IF node[t].nudged
            THEN Goto(t, "nudged") /\ node' = [node EXCEPT ![t].nudged = FALSE]
            ELSE Goto(t, "settle") /\ node' = [node EXCEPT ![t].armed = FALSE]
    /\ UNCHANGED <<word, queue, after, task, woken, calls, d>>

\* consume_nudge, with the node's grant: the permits are the waiter's.
granted(t) ==
    /\ pc[t] = "granted"
    /\ flags' = flags \ {"NUDGE_OUT"} /\ node' = Set(node, t, NoNode)
    /\ IF node[t].phase = "GRANTED"
       THEN IF now[t] THEN Goto(t, "taken") /\ UNCHANGED task ELSE Keep(t)
       ELSE Goto(t, "over") /\ UNCHANGED task
    /\ woken' = Set(woken, t, FALSE)
    /\ UNCHANGED <<free, forgotten, changes, queue, after, calls, d>>

\* consume_nudge of a waiter that tries again; the attempt that would be its
\* last loss is take_or_owe.
nudged(t) ==
    /\ pc[t] = "nudged" /\ flags' = flags \ {"NUDGE_OUT"}
    /\ Goto(t, IF bypass[t] + 1 = MAX_BYPASS THEN "count" ELSE "retry")
    /\ UNCHANGED <<free, forgotten, changes, queue, node, after, task, woken, calls, d>>

\* A loss that saw no handoff owed is a bypass; the waiter looks again.
Lost(t, handoff) ==
    /\ Goto(t, "look")
    /\ bypass' = IF handoff \/ bypass[t] = MAX_BYPASS THEN bypass
                 ELSE [bypass EXCEPT ![t] = @ + 1]
    /\ UNCHANGED <<need, held, now>>

retry(t) ==
    /\ pc[t] = "retry"
    /\ IF admit(need[t]) /\ "HANDOFF" \notin flags
       THEN free' = free - need[t] /\ Goto(t, "won") /\ UNCHANGED task
       ELSE UNCHANGED free /\ Lost(t, "HANDOFF" \in flags)
    /\ UNCHANGED <<flags, forgotten, changes, queue, node, after, woken, calls, d>>

\* owe_or_take: the waiter is counted owed,
count(t) ==
    /\ pc[t] = "count" /\ Goto(t, "mark") /\ owed' = owed + 1
    /\ UNCHANGED <<word, arrivals, waiting, cancels, node, after, task, woken, calls, d>>

\* then marked, unless it was granted: then the count goes and the grant is
\* found by the next look.
mark(t) ==
    /\ pc[t] = "mark"
    /\ IF node[t].phase = "WAITING"
       THEN /\ node' = [node EXCEPT ![t].owed = TRUE]
            /\ Goto(t, "owe") /\ UNCHANGED after
       ELSE /\ Goto(t, "forgive") /\ UNCHANGED node
            /\ after' = Set(after, t, IF "HANDOFF" \in flags THEN "kept" ELSE "bypassed")
    /\ UNCHANGED <<word, queue, task, woken, calls, d>>

\* A mutant: the last loss raises the handoff in an exchange of its own, after
\* the attempt.
OweLater(t) ==
    /\ pc[t] = "owe"
    /\ IF "HANDOFF" \in flags
       THEN Goto(t, "unowe") /\ after' = Set(after, t, "kept") /\ UNCHANGED <<word, d>>
       ELSE IF admit(need[t])
            THEN /\ free' = free - need[t] /\ Goto(t, "unowe") /\ after' = Set(after, t, "won")
                 /\ UNCHANGED <<flags, forgotten, changes, d>>
            ELSE Goto(t, "bypassed") /\ UNCHANGED <<word, after, d>>
    /\ UNCHANGED <<queue, node, task, woken, calls>>

\* and in one exchange it takes what it asks for or raises HANDOFF; a handoff
\* owed to another leaves the word as it is.
owe(t) ==
    /\ pc[t] = "owe"
    /\ IF "HANDOFF" \in flags
       THEN Goto(t, "unowe") /\ after' = Set(after, t, "kept") /\ UNCHANGED <<word, d>>
       ELSE IF admit(need[t])
            THEN /\ free' = free - need[t] /\ Goto(t, "unowe") /\ after' = Set(after, t, "won")
                 /\ UNCHANGED <<flags, forgotten, changes, d>>
            ELSE StepDrain(t, flags \cup {"HANDOFF"}, "bypassed") /\ UNCHANGED <<free, forgotten, changes>>
    /\ UNCHANGED <<queue, node, task, woken, calls>>

bypassed(t) ==
    /\ pc[t] \in {"bypassed", "kept"} /\ Lost(t, pc[t] = "kept")
    /\ UNCHANGED <<word, queue, node, after, woken, calls, d>>

\* The mark is taken back, unless a grant came first: then the queue settles it.
unowe(t) ==
    /\ pc[t] = "unowe"
    /\ IF node[t].phase = "WAITING"
       THEN Goto(t, "forgive") /\ node' = [node EXCEPT ![t].owed = FALSE]
       ELSE Goto(t, "recheck") /\ UNCHANGED node
    /\ UNCHANGED <<word, queue, after, task, woken, calls, d>>

forgive(t) ==
    /\ pc[t] = "forgive" /\ Goto(t, "recheck") /\ owed' = owed - 1
    /\ UNCHANGED <<word, arrivals, waiting, cancels, node, after, task, woken, calls, d>>

\* A drain that counted this waiter may have kept HANDOFF up for it: one more
\* pass decides.
recheck(t) ==
    /\ pc[t] = "recheck"
    /\ IF "HANDOFF" \in flags THEN Goto(t, "again") /\ UNCHANGED after ELSE Leave(t, after[t])
    /\ UNCHANGED <<word, queue, node, task, woken, calls, d>>

again(t) ==
    /\ pc[t] = "again" /\ StepDrain(t, flags, after[t])
    /\ UNCHANGED <<free, forgotten, changes, queue, node, task, woken, calls>>

-----------------------------------------------------------------------------
(* Leaving the queue *)

\* Waiter::withdraw: the node stays where it is linked, withdrawn; a nudge it
\* carries unused is passed on.
Withdraw(t, to) ==
    LET left == IF node[t].owed THEN GoneOwed ELSE Gone
        In(s) == [i \in DOMAIN s |-> IF s[i] = t THEN left ELSE s[i]]
    IN  /\ after' = Set(after, t, to) /\ node' = Set(node, t, NoNode)
        /\ IF node[t].phase = "WAITING"
           THEN /\ arrivals' = In(arrivals) /\ waiting' = In(waiting)
                /\ d' = IF d.hand = t THEN [d EXCEPT !.hand = left] ELSE d
                /\ Goto(t, IF node[t].nudged THEN "withdrawn_woken" ELSE "withdrawn")
           ELSE /\ Goto(t, IF node[t].phase = "GRANTED" THEN "extra" ELSE "extra_closed")
                /\ UNCHANGED <<arrivals, waiting, d>>
        /\ woken' = Set(woken, t, FALSE)
        /\ UNCHANGED <<owed, cancels, task, calls>>

\* A retry that took its permits leaves the queue,
won(t) == pc[t] = "won" /\ Withdraw(t, "mine") /\ UNCHANGED word

\* and so does an acquire dropped between two polls.
drop(t) ==
    /\ changes < MaxChanges /\ changes' = changes + 1
    /\ pc[t] = "asleep" /\ Withdraw(t, "over") /\ UNCHANGED <<flags, free, forgotten>>

\* Policy::withdrawn.
withdrawn(t) ==
    /\ pc[t] \in {"withdrawn", "withdrawn_woken"}
    /\ StepDrain(t, (flags \ {"NUDGE_OUT"})
                    \cup (IF pc[t] = "withdrawn" THEN {} ELSE {"WAKE_FRONT"}), after[t])
    /\ cancels' = cancels + 1
    /\ UNCHANGED <<free, forgotten, changes, owed, arrivals, waiting, node, task, woken, calls>>

\* A mutant: a grant that came before the withdrawal is not passed on.
ExtraLost(t) ==
    /\ pc[t] \in {"extra", "extra_closed"} /\ flags' = flags \ {"NUDGE_OUT"}
    /\ Leave(t, after[t])
    /\ UNCHANGED <<free, forgotten, changes, queue, node, task, woken, calls, d>>

\* A grant came first: what it handed over is given back, a close's nothing.
extra(t) ==
    /\ pc[t] \in {"extra", "extra_closed"} /\ flags' = flags \ {"NUDGE_OUT"}
    /\ IF pc[t] = "extra" THEN Goto(t, "give_back") /\ UNCHANGED after ELSE Leave(t, after[t])
    /\ UNCHANGED <<free, forgotten, changes, queue, node, task, woken, calls, d>>

give_back(t) ==
    /\ pc[t] = "give_back" /\ Release(t, need[t], after[t])
    /\ UNCHANGED <<flags, forgotten, changes, queue, node, task, woken, calls, d>>

\* The retry that took its permits completes.
mine(t) ==
    /\ pc[t] = "mine"
    /\ IF now[t] THEN Goto(t, "taken") /\ UNCHANGED task ELSE Keep(t)
    /\ UNCHANGED <<word, queue, node, after, woken, calls, d>>

-----------------------------------------------------------------------------
(* The holder's and the owner's calls: raw_semaphore.rs *)

release(t) ==
    /\ pc[t] = "idle" /\ held[t] > 0
    /\ Release(t, held[t], "idle") /\ held' = Set(held, t, 0)
    /\ UNCHANGED <<flags, forgotten, changes, queue, node, need, bypass, now, woken, calls, d>>

close(t) ==
    /\ Closes /\ pc[t] = "idle" /\ "CLOSED" \notin flags
    /\ StepDrain(t, flags \cup {"CLOSED"}, "idle")
    /\ UNCHANGED <<free, forgotten, changes, queue, node, task, woken, calls>>

\* A task forgets a free permit, and adds one again later.
forget(t) ==
    /\ changes < MaxChanges /\ pc[t] = "idle" /\ free > 0
    /\ free' = free - 1 /\ forgotten' = forgotten + 1 /\ changes' = changes + 1
    /\ Goto(t, "resized")
    /\ UNCHANGED <<flags, queue, node, after, task, woken, calls, d>>

add(t) ==
    /\ pc[t] = "resized"
    /\ free' = free + 1 /\ forgotten' = forgotten - 1
    /\ IF "QUEUED" \in flags THEN StepWake(t, flags \cup {"WAKE_FRONT"}, "idle")
                              ELSE Goto(t, "idle") /\ UNCHANGED <<flags, after, d>>
    /\ UNCHANGED <<changes, queue, node, task, woken, calls>>

-----------------------------------------------------------------------------
(* The drain role: Policy::drain and the semaphore's pass *)

Live(s) == SelectSeq(s, LAMBDA x: x \in Tasks)
Marks(s) == Len(SelectSeq(s, LAMBDA x: x = GoneOwed))

\* List::front: the list from its oldest waiter on; the withdrawn ones ahead
\* are let go of, and their owed marks settled.
Front == LET at == {i \in DOMAIN waiting: waiting[i] \in Tasks}
         IN  IF at = {} THEN <<>> ELSE SubSeq(waiting, Min(at), Len(waiting))
Passed == Marks(waiting) - Marks(Front)

Drain(at) == d.at = at
UnchangedByDrain == UNCHANGED <<forgotten, changes, after, task, woken>>

\* The requests so far are this pass's.
drain_begin ==
    /\ Drain("begin")
    /\ flags' = flags \ {"DIRTY", "WAKE_FRONT"}
    /\ d' = [NoDrain EXCEPT !.at = "take", !.by = d.by, !.wake_front = "WAKE_FRONT" \in flags]
    /\ UNCHANGED <<free, queue, node, pc, calls>> /\ UnchangedByDrain

\* The arrivals are taken and absorbed, and the list swept once the withdrawals
\* pass half of it.
drain_take ==
    LET all == waiting \o Live(arrivals)
        sweep == cancels > Len(all) \div 2
    IN  /\ Drain("take") /\ d' = [d EXCEPT !.at = "look"]
        /\ arrivals' = <<>>
        /\ waiting' = IF sweep THEN Live(all) ELSE all
        /\ cancels' = IF sweep THEN 0 ELSE cancels
        /\ owed' = owed - Marks(arrivals) - (IF sweep THEN Marks(waiting) ELSE 0)
        /\ UNCHANGED <<word, node, pc, calls>> /\ UnchangedByDrain

\* Whether the semaphore is closed, then whether a handoff is owed.
pass_look ==
    /\ d' = [d EXCEPT !.at = IF Drain("look") THEN (IF "CLOSED" \in flags THEN "shut" ELSE "owing")
                             ELSE (IF "HANDOFF" \in flags THEN "hand" ELSE "compete")]
    /\ d.at \in {"look", "owing"}
    /\ UNCHANGED <<word, queue, node, pc, calls>> /\ UnchangedByDrain

\* WakeList::grant of u, taken off the list: the phase is set, the armed waker
\* claimed and the queue's reference let go of.
Grant(u, phase) ==
    /\ node' = [node EXCEPT ![u].phase = phase, ![u].armed = FALSE]
    /\ calls' = IF node[u].armed THEN [calls EXCEPT ![d.by] = @ \cup {u}] ELSE calls
Mark(u) == IF node[u].owed THEN 1 ELSE 0

\* A closed semaphore grants every waiter the error.
pass_shut ==
    /\ Drain("shut")
    /\ IF Front = <<>>
       THEN /\ waiting' = <<>> /\ owed' = owed - Passed
            /\ d' = [d EXCEPT !.at = "tail"] /\ UNCHANGED <<node, calls>>
       ELSE /\ waiting' = Tail(Front) /\ owed' = owed - Passed - Mark(Head(Front))
            /\ Grant(Head(Front), "CLOSED") /\ UNCHANGED d
    /\ UNCHANGED <<word, arrivals, cancels, pc>> /\ UnchangedByDrain

\* While a handoff is owed the front waiter's permits are taken for it,
pass_hand ==
    /\ Drain("hand") /\ owed' = owed - Passed
    /\ IF Front # <<>> /\ admit(need[Head(Front)])
       THEN /\ free' = free - need[Head(Front)] /\ waiting' = Tail(Front)
            /\ d' = [d EXCEPT !.at = "give", !.hand = Head(Front), !.n = need[Head(Front)]]
       ELSE waiting' = Front /\ d' = [d EXCEPT !.at = "compete"] /\ UNCHANGED free
    /\ UNCHANGED <<flags, arrivals, cancels, node, pc, calls>> /\ UnchangedByDrain

\* and it is granted, unless it withdrew: then they go back.
pass_give ==
    /\ Drain("give")
    /\ IF d.hand \in Tasks
       THEN /\ Grant(d.hand, "GRANTED") /\ owed' = owed - Mark(d.hand)
            /\ d' = [d EXCEPT !.at = "hand", !.hand = None, !.n = 0]
       ELSE /\ owed' = owed - Marks(<<d.hand>>)
            /\ d' = [d EXCEPT !.at = "undo", !.hand = None] /\ UNCHANGED <<node, calls>>
    /\ UNCHANGED <<word, arrivals, waiting, cancels, pc>> /\ UnchangedByDrain

pass_undo ==
    /\ Drain("undo") /\ free' = free + d.n /\ d' = [d EXCEPT !.at = "hand", !.n = 0]
    /\ UNCHANGED <<flags, queue, node, pc, calls>> /\ UnchangedByDrain

\* hands_off: the bit is up, and somebody is still owed.
hands_off ==
    /\ d' = [d EXCEPT !.at = IF Drain("compete")
                             THEN (IF "HANDOFF" \in flags THEN "counted" ELSE "front")
                             ELSE (IF owed # 0 THEN "tail" ELSE "front")]
    /\ d.at \in {"compete", "counted"}
    /\ UNCHANGED <<word, queue, node, pc, calls>> /\ UnchangedByDrain

\* Otherwise the queue competes, for the permits free now.
pass_front ==
    /\ Drain("front") /\ waiting' = Front /\ owed' = owed - Passed
    /\ d' = IF Front = <<>> THEN [d EXCEPT !.at = "tail"]
            ELSE [d EXCEPT !.at = "nudges", !.budget = free, !.pos = 1, !.first = TRUE]
    /\ UNCHANGED <<word, arrivals, cancels, node, pc, calls>> /\ UnchangedByDrain

\* The next waiter the budget covers, or the front one whatever it asks for
\* after a release; the marker is raised before the first nudge leaves.
pass_nudges ==
    LET at == {i \in DOMAIN waiting: i >= d.pos /\ waiting[i] \in Tasks}
        n == need[waiting[Min(at)]]
    IN  /\ Drain("nudges")
        /\ IF at # {} /\ (n <= d.budget \/ (d.first /\ d.wake_front))
           THEN /\ flags' = flags \cup (IF d.raised THEN {} ELSE {"NUDGE_OUT"})
                /\ d' = [d EXCEPT !.at = "nudge", !.pos = Min(at), !.n = n, !.raised = TRUE]
           ELSE d' = [d EXCEPT !.at = "finish"] /\ UNCHANGED flags
        /\ UNCHANGED <<free, queue, node, pc, calls>> /\ UnchangedByDrain

\* WakeList::nudge: an earlier nudge that was not looked at counts as sent.
pass_nudge ==
    LET u == waiting[d.pos]
    IN  /\ Drain("nudge")
        /\ d' = [d EXCEPT !.at = "nudges", !.pos = @ + 1, !.first = FALSE,
                          !.budget = IF @ > d.n THEN @ - d.n ELSE 0,
                          !.n = 0, !.sent = @ \/ u \in Tasks]
        /\ IF u \in Tasks /\ ~node[u].nudged
           THEN /\ node' = [node EXCEPT ![u].nudged = TRUE, ![u].armed = FALSE]
                /\ calls' = IF node[u].armed THEN [calls EXCEPT ![d.by] = @ \cup {u}] ELSE calls
           ELSE UNCHANGED <<node, calls>>
        /\ UNCHANGED <<word, queue, pc>> /\ UnchangedByDrain

\* Nudges::finish.
nudges_finish ==
    /\ Drain("finish") /\ d' = [NoDrain EXCEPT !.at = "tail", !.by = d.by]
    /\ flags' = flags \ (IF d.raised /\ ~d.sent THEN {"NUDGE_OUT"} ELSE {})
    /\ UNCHANGED <<free, queue, node, pc, calls>> /\ UnchangedByDrain

\* The pass ends: it found nobody queued, or somebody; and nobody is owed, or
\* somebody.
pass_end ==
    LET nobody == IF Front = <<>> THEN {"QUEUED"} ELSE {}
        settled == IF owed = Passed THEN {"HANDOFF"} ELSE {}
    IN  /\ Drain("tail") /\ waiting' = Front /\ owed' = owed - Passed
        /\ d' = [NoDrain EXCEPT !.at = "exit", !.by = d.by, !.clear = nobody \cup settled]
        /\ UNCHANGED <<word, arrivals, cancels, node, pc, calls>> /\ UnchangedByDrain

\* The role is given up, unless something changed since the pass began; a
\* release's request is void if the pass found nobody queued.
drain_exit ==
    LET empty == "QUEUED" \in d.clear
    IN  /\ Drain("exit")
        /\ IF "DIRTY" \in flags \/ (~empty /\ "WAKE_FRONT" \in flags)
           THEN d' = [NoDrain EXCEPT !.at = "begin", !.by = d.by] /\ UNCHANGED <<flags, pc>>
           ELSE /\ flags' = flags \ ({"DRAINING"} \cup d.clear
                                      \cup (IF empty THEN {"WAKE_FRONT"} ELSE {}))
                /\ Goto(d.by, "wakes") /\ d' = NoDrain
        /\ UNCHANGED <<free, queue, node, calls>> /\ UnchangedByDrain

\* The wake list is dropped: every waker the passes claimed is called.  (A wait
\* that is over by then takes no notice.)
wakes(t) ==
    /\ pc[t] = "wakes" /\ Leave(t, after[t])
    /\ woken' = [u \in Tasks |-> woken[u] \/ (u \in calls[t] /\ node[u].phase # "none")] /\ calls' = Set(calls, t, {})
    /\ UNCHANGED <<word, queue, node, task, d>>

-----------------------------------------------------------------------------
GoesOn(t) ==
    \/ try_take(t) \/ spin_take(t) \/ taken_at_once(t) \/ over(t) \/ enqueue(t) \/ publish(t)
    \/ settle(t) \/ look(t) \/ granted(t) \/ nudged(t) \/ retry(t) \/ count(t) \/ mark(t)
    \/ owe(t) \/ bypassed(t) \/ unowe(t) \/ forgive(t) \/ recheck(t) \/ again(t) \/ won(t)
    \/ withdrawn(t) \/ extra(t) \/ give_back(t) \/ mine(t) \/ released(t) \/ wakes(t)
DrainGoesOn ==
    \/ drain_begin \/ drain_take \/ pass_look \/ pass_shut \/ pass_hand \/ pass_give
    \/ pass_undo \/ hands_off \/ pass_front \/ pass_nudges \/ pass_nudge \/ nudges_finish
    \/ pass_end \/ drain_exit
PollWoken(t) == woken[t] /\ poll(t)

Next == \/ DrainGoesOn
        \/ \E t \in Tasks: \/ GoesOn(t) \/ poll(t) \/ drop(t) \/ release(t) \/ close(t)
                           \/ forget(t) \/ add(t) \/ \E n \in Needs: acquire(t, n) \/ try_acquire(t, n)

Spec == Init /\ [][Next]_vars

\* Calls under way finish, a woken task is polled, a holder releases in the end
\* and permits that were forgotten come back.
FairSpec == /\ Spec /\ WF_vars(DrainGoesOn)
            /\ \A t \in Tasks: /\ WF_vars(GoesOn(t)) /\ WF_vars(PollWoken(t))
                               /\ WF_vars(release(t)) /\ WF_vars(add(t))

-----------------------------------------------------------------------------
Flags == {"DRAINING", "DIRTY", "QUEUED", "NUDGE_OUT", "HANDOFF", "WAKE_FRONT", "CLOSED"}

\* The counts in range (the owed count never below zero, where it would wrap),
\* and the drain role held exactly while a task drains.
TypeOK ==
    /\ flags \subseteq Flags /\ free \in 0..Permits /\ owed \in 0..(2 * Cardinality(Tasks))
    /\ \A t \in Tasks: /\ bypass[t] \in 0..MAX_BYPASS /\ held[t] \in 0..Permits
                       /\ pc[t] = "drain" <=> d.by = t
    /\ "DRAINING" \in flags <=> d.by # None

\* The permits a task's call holds besides the ones it was given to keep: taken
\* and not kept yet, or granted and not seen yet.
Taking(t) ==
    LET took == \/ pc[t] \in {"taken", "won", "mine", "extra", "give_back"}
                \/ pc[t] \in {"unowe", "forgive", "recheck", "again"} /\ after[t] = "won"
                \/ pc[t] \in {"withdrawn", "withdrawn_woken", "extra_closed"} /\ after[t] = "mine"
                \/ pc[t] \in {"drain", "wakes", "released"} /\ after[t] \in {"won", "mine"}
        both == pc[t] \in {"extra", "give_back"} /\ after[t] = "mine"
    IN  need[t] * ((IF took THEN 1 ELSE 0) + (IF both THEN 1 ELSE 0)
                   + (IF node[t].phase = "GRANTED" THEN 1 ELSE 0))

\* No permit is lost or made, whatever the order of attempts, handoffs and
\* withdrawals: those free, held, on their way to a waiter and forgotten add up.
Conserved ==
    free + forgotten + MapThenSumSet(LAMBDA t: held[t] + Taking(t), Tasks)
        + (IF d.at \in {"give", "undo"} THEN d.n ELSE 0) = Permits

Resting == \A t \in Tasks: pc[t] \in {"idle", "resized"} \/ (pc[t] = "asleep" /\ ~woken[t])

\* When nothing is under way and nobody was woken, the front waiter is one the
\* free permits cannot serve: no release, withdrawal or arrival was missed.
NoLostWake ==
    Resting => /\ arrivals = <<>>
               /\ Front # <<>> => /\ "QUEUED" \in flags /\ "CLOSED" \notin flags
                                  /\ need[Head(Front)] > free

\* Nobody barges past a waiter that was owed: once its last counted loss raised
\* the handoff, the bit stays up for as long as it is queued.
OwedIsServed ==
    \A t \in Tasks: /\ node[t].phase = "WAITING" /\ node[t].owed
                    /\ pc[t] \in {"asleep", "look", "settle", "nudged"}
                    => "HANDOFF" \in flags

\* Every waiter gets its permits, withdraws or sees the semaphore closed: callers
\* that barge, and others that queue, cannot pass it over for ever.
Served == \A t \in Tasks: node[t].phase = "WAITING" ~> node[t].phase # "WAITING"
=============================================================================
