------------------------------ MODULE Mpsc ------------------------------
(***************************************************************************)
(* The channels of src/sync/mpsc: the state both flavours share (chan.rs), *)
(* the bounded one over the fair semaphore (bounded.rs, permit.rs,         *)
(* receiver.rs), the unbounded one over a count of the values in flight    *)
(* (unbounded.rs), and the queue as the receiver sees it: a push claims a  *)
(* position and later marks its cell ready (queue/ring.rs, queue/radix.rs; *)
(* the end of this module has the second to single accesses).              *)
(*                                                                         *)
(* A step is one access to a word another thread writes.  A value is the   *)
(* pair of its sender and its number.                                      *)
(***************************************************************************)
EXTENDS WaitQueue, Integers, SequencesExt

(***************************************************************************)
(* The first-come, first-served semaphore of src/sync/fair_semaphore.rs,   *)
(* the admission of a bounded channel: permits go to the queue's front     *)
(* waiter, which gathers them in `set_aside` while they are too few, and   *)
(* no newcomer takes one past it.                                          *)
(***************************************************************************)
VARIABLES
    avail,     \* the permits of the state word
    set_aside  \* those the drain role gathers for the front waiter

fvars == <<wvars, avail, set_aside>>

CLOSED_GRANT == -1

InitSemaphore(permits) == InitQueue /\ avail = permits /\ set_aside = 0

is_closed == "CLOSED" \in flags

\* try_acquire: not past a waiter, and never from a closed semaphore.
may_acquire(n) == ~is_closed /\ (n = 0 \/ (~Queued /\ avail >= n))

\* release: the permits go back, and a pass follows if somebody waits.
release(t, n) ==
    /\ avail' = avail + n
    /\ IF n > 0 /\ wants_drain THEN StepWake(t, flags \cup {"WAKE_FRONT"})
                               ELSE UNCHANGED <<flags, drain>>
    /\ UNCHANGED <<arrivals, list, node, woken, set_aside>>

close(t) ==
    /\ IF is_closed THEN UNCHANGED <<flags, drain>> ELSE StepDrain(t, flags \cup {"CLOSED"})
    /\ UNCHANGED <<arrivals, list, node, woken, avail, set_aside>>

\* take_up_to
take_up_to(want) == IF is_closed THEN 0 ELSE Min({avail, want})

\* One turn of pass: a closed semaphore grants everyone the error; else the
\* front waiter gets its permits, or keeps those there are set aside.
pass ==
    /\ drain.at = "pass"
    /\ IF list = <<>>
       THEN drain' = [drain EXCEPT !.at = "return"] /\ UNCHANGED <<list, node, woken, avail, set_aside>>
       ELSE IF is_closed
       THEN /\ Granting({list[1]}, CLOSED_GRANT) /\ list' = Tail(list)
            /\ UNCHANGED <<drain, avail, set_aside>>
       ELSE LET need == node[list[1]].payload
                take == IF set_aside < need THEN take_up_to(need - set_aside) ELSE 0
            IN  /\ avail' = avail - take
                /\ IF set_aside + take < need
                   THEN /\ set_aside' = set_aside + take
                        /\ drain' = [drain EXCEPT !.at = "end"] /\ UNCHANGED <<list, node, woken>>
                   ELSE /\ set_aside' = set_aside + take - need
                        /\ Granting({list[1]}, need) /\ list' = Tail(list) /\ UNCHANGED drain
    /\ UNCHANGED <<flags, arrivals>>

\* return_set_aside, once nobody is left to gather for.
return_set_aside ==
    /\ drain.at = "return" /\ drain' = [drain EXCEPT !.at = "end"]
    /\ avail' = avail + set_aside /\ set_aside' = 0
    /\ UNCHANGED <<flags, arrivals, list, node, woken>>

\* The drain role of the semaphore, whoever holds it.
DrainStep ==
    \/ drain_begin /\ UNCHANGED <<avail, set_aside>>
    \/ pass
    \/ return_set_aside
    \/ drain_end(IF list = <<>> THEN {"QUEUED"} ELSE {}) /\ UNCHANGED <<avail, set_aside>>

------------------------------------------------------------------------------

CONSTANTS
    Casts,     \* the instances checked: the flavour, the calls made besides
               \* sends, and of each task its first handle and the calls by
               \* which it asks for permits; bound: the sends of a task
    Bound,     \* the capacity of the bounded flavour
    MaxPolls,  \* bound: receiving calls
    MayPanic,  \* whether a sender's waker may panic while a receive releases
    MayYield,  \* whether a poll's budget may run out
    Rx         \* the receiver's task

VARIABLES
    cast,      \* the instance
    cells,     \* the queue's cells from its head on: value, ready, taken
    stash,     \* the value a receive put back when it unwound, or None
    rx_waker,  \* whether the receiver's waker is registered
    rx_waiting, rx_closed,
    tx_count, tx_weak,
    handle,    \* of a task: "strong", "weak" or "none"
    pc,        \* of a task and of Rx: what it does next
    then,      \* of a task: what it goes on with after that
    op,        \* of a task: the call that asks for permits, or holds them
    permits,   \* of a task: the unused reservations it holds
    sent,      \* of a task: the values it pushed
    got,       \* of Rx: the value popped whose admission is not back yet
    rx,        \* of Rx: the call it makes, and what it took so far
    polls, rx_awake, ended

txv == <<tx_count, tx_weak, handle>>
taskv == <<then, op, permits, sent>>
rxv == <<stash, rx_waker, rx_waiting, rx_closed, got, rx, polls, rx_awake, ended>>
vars == <<fvars, cast, cells, txv, pc, taskv, rxv>>

kind == cast.kind
Makes(call) == call \in cast.calls

NoCall == [op |-> "none", taken |-> 0, moved |-> 0, flagged |-> FALSE]

\* The two constructors: every permit is free, or no value is in flight.
channel == kind = "bounded" /\ InitSemaphore(Bound)
unbounded_channel == kind = "unbounded" /\ InitSemaphore(0)

\* A channel and its handles: the first sender's clones and weak handles exist.
Init ==
    /\ cast \in Casts
    /\ channel \/ unbounded_channel
    /\ cells = <<>> /\ stash = None /\ rx_waker = FALSE /\ rx_waiting = FALSE /\ rx_closed = FALSE
    /\ handle = cast.handle
    /\ tx_count = Cardinality({t \in Tasks: handle[t] = "strong"})
    /\ tx_weak = Cardinality({t \in Tasks: handle[t] = "weak"})
    /\ pc = [t \in Tasks \cup {Rx} |-> "idle"] /\ then = [t \in Tasks |-> "idle"]
    /\ op = [t \in Tasks |-> "none"] /\ permits = [t \in Tasks |-> 0]
    /\ sent = [t \in Tasks |-> 0]
    /\ got = None /\ rx = NoCall /\ polls = 0 /\ rx_awake = FALSE /\ ended = FALSE

Goto(t, to) == pc' = [pc EXCEPT ![t] = to]
At(t, where) == pc[t] = where /\ Free(t)
Set(f, t, v) == [f EXCEPT ![t] = v]

-----------------------------------------------------------------------------
(* The two limits *)

\* Limit::is_idle: Bounded's word has every permit, Unbounded counts none.
is_idle == avail = IF kind = "bounded" THEN Bound ELSE 0

\* Limit::release, by an actor that goes on once a pass it ran is over.
Release(t, n) ==
    IF kind = "bounded" THEN release(t, n)
    ELSE avail' = avail - n /\ UNCHANGED <<wvars, set_aside>>

\* Limit::close
Close(t) ==
    IF kind = "bounded" THEN close(t)
    ELSE flags' = flags \cup {"CLOSED"} /\ UNCHANGED <<arrivals, list, node, woken, drain, avail, set_aside>>

\* Chan::finished. Closed stays, so the two loads are one at the second.
finished == is_closed /\ is_idle

\* AtomicWaker::wake of the receiver's cell.
WakeRx == rx_waker' = FALSE /\ rx_awake' = (rx_awake \/ rx_waker)

-----------------------------------------------------------------------------
(* Sending *)

\* The cell of t's last push.
Mark(t) == [i \in DOMAIN cells |-> IF cells[i].value = <<t, sent[t]>>
                                   THEN [cells[i] EXCEPT !.ready = TRUE] ELSE cells[i]]

\* Chan::send, the value admitted: the queue's push claims a position,
push(t) ==
    /\ At(t, "push") /\ Goto(t, "ready")
    /\ cells' = Append(cells, [value |-> <<t, sent[t] + 1>>, ready |-> FALSE, taken |-> FALSE])
    /\ sent' = Set(sent, t, sent[t] + 1)
    /\ UNCHANGED <<fvars, cast, txv, then, op, permits, rxv>>

\* and marks its cell;
ready(t) ==
    /\ At(t, "ready") /\ Goto(t, "look") /\ cells' = Mark(t)
    /\ UNCHANGED <<fvars, cast, txv, then, op, permits, sent, rxv>>

\* then it looks whether the receiver waits.
send_looks(t) ==
    /\ At(t, "look") /\ Goto(t, IF rx_waiting THEN "swap" ELSE "idle")
    /\ UNCHANGED <<fvars, cast, cells, txv, taskv, rxv>>

\* wake_waiting_rx: the push that lowers the flag wakes.
wake_waiting_rx(t) ==
    /\ At(t, "swap") /\ rx_waiting' = FALSE /\ Goto(t, "idle")
    /\ IF rx_waiting THEN WakeRx ELSE UNCHANGED <<rx_waker, rx_awake>>
    /\ UNCHANGED <<fvars, cast, cells, txv, taskv, stash, rx_closed, got, rx, polls, ended>>

\* wake_if_finished
wake_if_finished(t) ==
    /\ At(t, "finished") /\ Goto(t, then[t]) /\ then' = Set(then, t, "idle")
    /\ IF finished THEN WakeRx ELSE UNCHANGED <<rx_waker, rx_awake>>
    /\ UNCHANGED <<fvars, cast, cells, txv, op, permits, sent,
                   stash, rx_waiting, rx_closed, got, rx, polls, ended>>

\* give_back: what was admitted and not used is released.
give_back(t, n, to) ==
    /\ Release(t, n) /\ Goto(t, "finished") /\ then' = Set(then, t, to)
    /\ UNCHANGED <<cast, cells, txv, sent, rxv>>

Holds(t) == handle[t] = "strong" /\ At(t, "idle")
MaySend(t) == Holds(t) /\ permits[t] = 0 /\ sent[t] < cast.sends

\* UnboundedSender::send: Unbounded::admit counts the value,
unbounded_send(t) ==
    /\ kind = "unbounded" /\ MaySend(t)
    /\ avail' = avail + 1 /\ Goto(t, IF is_closed THEN "refuse" ELSE "push")
    /\ UNCHANGED <<wvars, set_aside, cast, cells, txv, taskv, rxv>>

\* and takes it back from a closed channel's count: the receiver may have
\* looked in between.
refuse(t) == At(t, "refuse") /\ give_back(t, 1, "idle") /\ UNCHANGED <<op, permits>>

\* A call that asks for permits: of what kind, and how many.  More than the
\* bound is refused at once and never asked for.
Need(t) == IF op[t] = "reserve_many" THEN Bound ELSE 1
May(t, call) == kind = "bounded" /\ MaySend(t) /\ call \in cast.asks[t]

\* try_reserve_inner: one attempt, and what it gives: a value on its way, or
\* the permits.
TryReserve(t, n, as, to) ==
    /\ may_acquire(n) /\ avail' = avail - n /\ Goto(t, to)
    /\ op' = Set(op, t, as) /\ permits' = Set(permits, t, IF to = "push" THEN 0 ELSE n)
    /\ UNCHANGED <<wvars, set_aside, cast, cells, txv, then, sent, rxv>>

try_send(t) == May(t, "try_send") /\ TryReserve(t, 1, "none", "push")

try_reserve(t) == May(t, "try_reserve") /\ TryReserve(t, 1, "reserve", "idle")

try_reserve_many(t) == May(t, "try_reserve_many") /\ TryReserve(t, Bound, "reserve", "idle")

try_reserve_owned(t) == May(t, "try_reserve_owned") /\ TryReserve(t, 1, "owned", "idle")

\* A call that waits begins.
Begin(t, as) ==
    /\ op' = Set(op, t, as) /\ Goto(t, "acquire")
    /\ UNCHANGED <<fvars, cast, cells, txv, then, permits, sent, rxv>>

send(t) == May(t, "send") /\ Begin(t, "send")

send_timeout(t) == May(t, "send_timeout") /\ Begin(t, "reserve")

reserve(t) == May(t, "reserve") /\ Begin(t, "reserve")

reserve_many(t) == May(t, "reserve_many") /\ Begin(t, "reserve_many")

reserve_owned(t) == May(t, "reserve_owned") /\ Begin(t, "owned")

\* It ends: with nothing, and a look whether the channel is finished (let_go);
\* reserve_owned's sender goes with it.
Over(t) == op' = Set(op, t, "none")
Ended(t) == IF op[t] = "owned" THEN "unown" ELSE "idle"
let_go(t) == Goto(t, "finished") /\ then' = Set(then, t, Ended(t)) /\ Over(t) /\ UNCHANGED permits

\* or with what it asked for: a send pushes its value.
Admit(t) ==
    /\ IF op[t] = "send" THEN Goto(t, "push") /\ Over(t) /\ UNCHANGED permits
       ELSE Goto(t, "idle") /\ permits' = Set(permits, t, Need(t)) /\ UNCHANGED op
    /\ UNCHANGED then

\* FairWait::poll_admitted of a wait not queued: taken, refused, or queued.  For
\* want of budget what was taken goes back and the poll is made again.
acquire(t) ==
    /\ At(t, "acquire")
    /\ IF may_acquire(Need(t))
       THEN /\ avail' = avail - Need(t) /\ UNCHANGED <<wvars, set_aside>>
            /\ \/ Admit(t)
               \/ MayYield /\ Goto(t, "yield") /\ UNCHANGED <<permits, op, then>>
       ELSE IF is_closed THEN let_go(t) /\ UNCHANGED fvars
       ELSE /\ enqueue(t, Need(t)) /\ Goto(t, "settle")
            /\ UNCHANGED <<avail, set_aside, permits, op, then>>
    /\ UNCHANGED <<cast, cells, txv, sent, rxv>>

yield(t) == At(t, "yield") /\ give_back(t, Need(t), "acquire") /\ UNCHANGED <<op, permits>>

\* The poll that follows, and each later one: a grant is the permits, or the
\* error of a closed channel, unless the first poll has no budget left for it.
wait_poll(t) ==
    LET closed == node[t].payload = CLOSED_GRANT
    IN  /\ \/ At(t, "settle")
           \/ At(t, "asleep") /\ t \in woken
        /\ IF Granted(t)
           THEN /\ consume(t)
                /\ \/ IF closed THEN let_go(t) ELSE Admit(t)
                   \/ /\ MayYield /\ pc[t] = "settle" /\ UNCHANGED <<op, permits, then>>
                      /\ Goto(t, IF closed THEN "acquire" ELSE "yield")
           ELSE arm(t) /\ Goto(t, "asleep") /\ UNCHANGED <<op, permits, then>>
        /\ UNCHANGED <<avail, set_aside, cast, cells, txv, sent, rxv>>

\* The drop of a send or a reservation that waits (FairWait::cancel): the node
\* is withdrawn, or what it was granted is released.
cancel(t) ==
    /\ At(t, "asleep")
    /\ IF Waiting(t) THEN withdrawn(t) ELSE consume(t)
    /\ IF Waiting(t) \/ node[t].payload = CLOSED_GRANT THEN let_go(t)
       ELSE /\ Goto(t, "drop") /\ permits' = Set(permits, t, Need(t))
            /\ UNCHANGED <<op, then>>
    /\ UNCHANGED <<avail, set_aside, cast, cells, txv, sent, rxv>>

HoldsPermit(t) == At(t, "idle") /\ permits[t] > 0

\* Permit::send; OwnedPermit::send gives the sender back.
permit_send(t) ==
    /\ HoldsPermit(t) /\ sent[t] < cast.sends /\ Goto(t, "push")
    /\ permits' = Set(permits, t, permits[t] - 1)
    /\ op' = Set(op, t, IF permits[t] = 1 THEN "none" ELSE op[t])
    /\ UNCHANGED <<fvars, cast, cells, txv, then, sent, rxv>>

\* PermitIterator's drop, and a Permit's: those left go back.
permit_drop(t) ==
    /\ At(t, "drop") \/ (HoldsPermit(t) /\ op[t] # "owned")
    /\ give_back(t, permits[t], Ended(t)) /\ permits' = Set(permits, t, 0) /\ Over(t)

\* OwnedPermit::release keeps the sender,
owned_release(t) ==
    /\ HoldsPermit(t) /\ op[t] = "owned"
    /\ give_back(t, 1, "idle") /\ permits' = Set(permits, t, 0) /\ Over(t)

\* its drop drops it after the permit.
owned_drop(t) ==
    /\ HoldsPermit(t) /\ op[t] = "owned"
    /\ give_back(t, 1, "unown") /\ permits' = Set(permits, t, 0) /\ Over(t)

-----------------------------------------------------------------------------
(* The handles *)

\* Sender::clone, for a task without one.
clone(t, u) ==
    /\ Makes("clone") /\ Holds(t) /\ handle[u] = "none" /\ tx_count' = tx_count + 1
    /\ handle' = Set(handle, u, "strong")
    /\ UNCHANGED <<fvars, cast, cells, tx_weak, pc, taskv, rxv>>

\* Sender::downgrade and WeakSender::clone.
downgrade(t, u) ==
    /\ Makes("weak") /\ handle[t] # "none" /\ At(t, "idle") /\ handle[u] = "none"
    /\ tx_weak' = tx_weak + 1 /\ handle' = Set(handle, u, "weak")
    /\ UNCHANGED <<fvars, cast, cells, tx_count, pc, taskv, rxv>>

\* WeakSender::upgrade (try_add_sender), the weak handle dropped then.
upgrade(t) ==
    /\ handle[t] = "weak" /\ At(t, "idle") /\ tx_count > 0
    /\ tx_count' = tx_count + 1 /\ tx_weak' = tx_weak - 1 /\ handle' = Set(handle, t, "strong")
    /\ UNCHANGED <<fvars, cast, cells, pc, taskv, rxv>>

drop_weak(t) ==
    /\ handle[t] = "weak" /\ At(t, "idle") /\ tx_weak' = tx_weak - 1 /\ handle' = Set(handle, t, "none")
    /\ UNCHANGED <<fvars, cast, cells, tx_count, pc, taskv, rxv>>

\* drop_sender: the last one wakes the receiver.
drop_sender(t) ==
    /\ (Holds(t) /\ permits[t] = 0) \/ At(t, "unown")
    /\ tx_count' = tx_count - 1 /\ handle' = Set(handle, t, "none")
    /\ Goto(t, IF tx_count = 1 THEN "last" ELSE "idle")
    /\ UNCHANGED <<fvars, cast, cells, tx_weak, taskv, rxv>>

last(t) ==
    /\ At(t, "last") /\ Goto(t, "idle") /\ WakeRx
    /\ UNCHANGED <<fvars, cast, cells, txv, taskv, stash, rx_waiting, rx_closed, got, rx, polls, ended>>

-----------------------------------------------------------------------------
(* Receiving *)

Ready(i) == i \in DOMAIN cells /\ cells[i].ready /\ ~cells[i].taken

\* try_pop: the head's value if its cell is ready; a radix queue that finds the
\* next one ready or taken (take_past) takes the first ready past the head.
try_pop ==
    LET past == {i \in DOMAIN cells: Ready(i)}
    IN  IF Ready(1) THEN 1
        ELSE IF kind = "unbounded" /\ past # {} /\ (Ready(2) \/ cells[2].taken) THEN Min(past)
        ELSE 0

\* taken: the cell is, and the head moves past those that are.
taken(i) ==
    LET now == [cells EXCEPT ![i].taken = TRUE]
        left == {k \in DOMAIN now: ~now[k].taken}
    IN  IF left = {} THEN <<>> ELSE SubSeq(now, Min(left), Len(now))

RxAt(where) == At(Rx, where)
RxGoto(to) == Goto(Rx, to)
Call(c) == [NoCall EXCEPT !.op = c]

\* A call of the receiver's begins.
rx_call(c) ==
    /\ Makes(c) /\ RxAt("idle") /\ polls < MaxPolls /\ polls' = polls + 1
    /\ rx' = Call(c) /\ RxGoto("pop") /\ rx_awake' = FALSE
    /\ UNCHANGED <<fvars, cast, cells, txv, taskv, stash, rx_waker, rx_waiting, rx_closed, got, ended>>

recv == kind = "bounded" /\ rx_call("recv")
recv_many == kind = "bounded" /\ rx_call("many")
try_recv == kind = "bounded" /\ rx_call("try")

\* The calls of an UnboundedReceiver.
unbounded_recv == kind = "unbounded" /\ rx_call("recv")
unbounded_recv_many == kind = "unbounded" /\ rx_call("many")
unbounded_try_recv == kind = "unbounded" /\ rx_call("try")

\* The poll of a receive that waits: it was woken, or it is dropped instead.
rx_poll ==
    /\ RxAt("asleep") /\ rx_awake
    /\ rx_awake' = FALSE /\ RxGoto("pop") /\ rx' = Call(rx.op)
    /\ UNCHANGED <<fvars, cast, cells, txv, taskv, stash, rx_waker, rx_waiting, rx_closed, got, polls, ended>>

rx_abandon ==
    /\ RxAt("asleep") /\ RxGoto("idle") /\ rx' = NoCall
    /\ UNCHANGED <<fvars, cast, cells, txv, taskv, stash, rx_waker, rx_waiting, rx_closed, got, polls, rx_awake, ended>>

\* The call answers; a poll that said it waits says that it does not.
Answer ==
    /\ RxGoto("idle") /\ rx' = NoCall
    /\ rx_waiting' = (rx_waiting /\ ~rx.flagged)

\* A mutant: an empty queue with no sender left is the end, without a second look.
PopOnce ==
    /\ RxAt("count") /\ RxGoto(IF tx_count # 0 THEN "empty" ELSE "ended")
    /\ UNCHANGED <<fvars, cast, cells, txv, taskv, rxv>>

\* pop: the queue, then the senders, then the queue again.
pop_count ==
    /\ RxAt("count") /\ RxGoto(IF tx_count # 0 THEN "empty" ELSE "pop_again")
    /\ UNCHANGED <<fvars, cast, cells, txv, taskv, rxv>>

\* What is taken is received, or goes to the buffer of a take_many, up to its
\* limit.  A stashed value's admission went back before.
pop ==
    /\ RxAt("pop") \/ RxAt("pop_again")
    /\ IF stash # None
       THEN /\ stash' = None /\ UNCHANGED <<cells, got>>
            /\ IF rx.op = "many"
               THEN /\ rx' = [rx EXCEPT !.moved = @ + 1] /\ UNCHANGED rx_waiting
                    /\ RxGoto(IF rx.moved + 1 = Bound THEN "moved" ELSE "pop")
               ELSE Answer
       ELSE IF try_pop # 0
       THEN /\ cells' = taken(try_pop) /\ UNCHANGED <<stash, rx_waiting>>
            /\ IF rx.op = "many"
               THEN /\ rx' = [rx EXCEPT !.moved = @ + 1, !.taken = @ + 1] /\ UNCHANGED got
                    /\ RxGoto(IF rx.moved + 1 = Bound THEN "moved" ELSE "pop")
               ELSE got' = cells[try_pop].value /\ UNCHANGED rx /\ RxGoto("received")
       ELSE /\ RxGoto(IF pc[Rx] = "pop" THEN "count" ELSE "ended")
            /\ UNCHANGED <<stash, cells, got, rx, rx_waiting>>
    /\ UNCHANGED <<fvars, cast, txv, taskv, rx_waker, rx_closed, polls, rx_awake, ended>>

\* received: the admission goes back; a pass it runs may wake a sender whose
\* waker panics, and then the value is put back.
received ==
    /\ RxAt("received") /\ Release(Rx, 1)
    /\ RxGoto(IF drain'.by = Rx THEN "unwind" ELSE "answer")
    /\ UNCHANGED <<cast, cells, txv, taskv, rxv>>

answer ==
    /\ RxAt("answer") \/ RxAt("unwind")
    /\ got' = None
    /\ \/ Answer /\ UNCHANGED stash
       \/ /\ MayPanic /\ pc[Rx] = "unwind" /\ stash' = got
          /\ RxGoto("idle") /\ rx' = NoCall /\ UNCHANGED rx_waiting
    /\ UNCHANGED <<fvars, cast, cells, txv, taskv, rx_waker, rx_closed, polls, rx_awake, ended>>

\* take_many's end: what it took goes back in one release.
moved ==
    /\ RxAt("moved") /\ Release(Rx, rx.taken) /\ Answer
    /\ UNCHANGED <<cast, cells, txv, taskv, stash, rx_waker, rx_closed, got, polls, rx_awake, ended>>

\* The end of the channel, with what was taken before it.
pop_ended ==
    /\ RxAt("ended")
    /\ IF rx.moved > 0 THEN RxGoto("moved") /\ UNCHANGED <<rx, rx_waiting, ended>>
                        ELSE Answer /\ ended' = TRUE
    /\ UNCHANGED <<fvars, cast, cells, txv, taskv, stash, rx_waker, rx_closed, got, polls, rx_awake>>

\* Nothing yet: poll_recv and poll_recv_many register, say that they wait and
\* look again; the second time they look whether a closed channel is finished.
pop_empty ==
    /\ RxAt("empty")
    /\ RxGoto(IF rx.moved > 0 THEN "moved"
              ELSE IF rx.op = "try" \/ rx.flagged THEN "fin" ELSE "register")
    /\ UNCHANGED <<fvars, cast, cells, txv, taskv, rxv>>

register ==
    /\ RxAt("register") /\ RxGoto("says") /\ rx_waker' = TRUE
    /\ UNCHANGED <<fvars, cast, cells, txv, taskv, stash, rx_waiting, rx_closed, got, rx, polls, rx_awake, ended>>

rx_says_it_waits ==
    /\ RxAt("says") /\ RxGoto("pop") /\ rx_waiting' = TRUE
    /\ rx' = [rx EXCEPT !.flagged = TRUE]
    /\ UNCHANGED <<fvars, cast, cells, txv, taskv, stash, rx_waker, rx_closed, got, polls, rx_awake, ended>>

\* The last look: finished is the end (try_recv's Disconnected), else Pending.
rx_finished ==
    /\ RxAt("fin")
    /\ IF finished THEN RxGoto("idle") /\ rx' = NoCall /\ ended' = TRUE
       ELSE UNCHANGED ended /\ IF rx.op = "try" THEN RxGoto("idle") /\ rx' = NoCall
                                                ELSE RxGoto("asleep") /\ UNCHANGED rx
    /\ UNCHANGED <<fvars, cast, cells, txv, taskv, stash, rx_waker, rx_waiting, rx_closed, got, polls, rx_awake>>

\* close_rx, of Receiver::close and of the receiver's drop: the limit first,
close_rx(c) ==
    /\ Makes(c) /\ RxAt("idle") /\ Close(Rx) /\ RxGoto("close") /\ rx' = Call(c)
    /\ UNCHANGED <<cast, cells, txv, taskv, stash, rx_waker, rx_waiting, rx_closed, got, polls, rx_awake, ended>>

rx_close == kind = "bounded" /\ ~is_closed /\ close_rx("close")
unbounded_close == kind = "unbounded" /\ ~is_closed /\ close_rx("close")
rx_drop == close_rx("drop")

\* then the event that Sender::closed waits for.
closed_set ==
    /\ RxAt("close") /\ rx_closed' = TRUE
    /\ IF rx.op = "drop" THEN rx_waker' = FALSE /\ RxGoto("drain") /\ UNCHANGED rx
                         ELSE RxGoto("idle") /\ rx' = NoCall /\ UNCHANGED rx_waker
    /\ UNCHANGED <<fvars, cast, cells, txv, taskv, stash, rx_waiting, got, polls, rx_awake, ended>>

\* drop_rx's drain: every value there is dropped and its admission released.
drop_rx ==
    /\ RxAt("drain")
    /\ IF stash # None THEN stash' = None /\ UNCHANGED <<fvars, cells, pc>>
       ELSE IF try_pop # 0
       THEN cells' = taken(try_pop) /\ Release(Rx, 1) /\ UNCHANGED <<stash, pc>>
       ELSE RxGoto("gone") /\ UNCHANGED <<fvars, cells, stash>>
    /\ UNCHANGED <<cast, txv, taskv, rx_waker, rx_waiting, rx_closed, got, rx, polls, rx_awake, ended>>

-----------------------------------------------------------------------------

RxStep ==
    \/ rx_poll \/ pop \/ pop_count \/ received \/ answer \/ moved \/ pop_ended \/ pop_empty
    \/ register \/ rx_says_it_waits \/ rx_finished \/ closed_set \/ drop_rx

TxStep(t) ==
    \/ push(t) \/ ready(t) \/ send_looks(t) \/ wake_waiting_rx(t) \/ wake_if_finished(t)
    \/ refuse(t) \/ acquire(t) \/ yield(t) \/ wait_poll(t) \/ last(t)

TxCall(t) ==
    \/ unbounded_send(t) \/ cancel(t) \/ permit_send(t) \/ permit_drop(t) \/ upgrade(t)
    \/ drop_weak(t) \/ drop_sender(t)
    \/ owned_release(t) \/ owned_drop(t)
    \/ try_send(t) \/ try_reserve(t) \/ try_reserve_many(t) \/ try_reserve_owned(t)
    \/ send(t) \/ send_timeout(t) \/ reserve(t) \/ reserve_many(t) \/ reserve_owned(t)
    \/ \E u \in Tasks: clone(t, u) \/ downgrade(t, u)

RxCall ==
    \/ recv \/ recv_many \/ try_recv \/ rx_close \/ rx_drop \/ rx_abandon
    \/ unbounded_recv \/ unbounded_recv_many \/ unbounded_try_recv \/ unbounded_close

DrainRole == DrainStep /\ UNCHANGED <<cast, cells, txv, pc, taskv, rxv>>

Next == RxStep \/ RxCall \/ DrainRole \/ \E t \in Tasks: TxStep(t) \/ TxCall(t)

Spec == Init /\ [][Next]_vars

-----------------------------------------------------------------------------
(* What the handles answer without a step *)

len == Cardinality({i \in DOMAIN cells: ~cells[i].taken}) + (IF stash = None THEN 0 ELSE 1)
is_empty == len = 0
capacity == avail
max_capacity == Bound
strong_count == tx_count
weak_count == tx_weak
rx_is_closed == is_closed \/ strong_count = 0

-----------------------------------------------------------------------------
(* Properties *)

InFlight(t) == IF pc[t] \in {"push", "refuse"} THEN 1 ELSE IF pc[t] = "yield" THEN Need(t) ELSE 0
Owned(t) == IF Granted(t) /\ node[t].payload # CLOSED_GRANT THEN node[t].payload ELSE 0
Untaken == len - (IF stash = None THEN 0 ELSE 1)

\* "The limit is idle exactly when no value is queued, in flight or reserved"
\* (chan.rs): every admission is a queued value, one on its way, a reservation,
\* a grant nobody polled yet, or set aside for the queue's front.  And the counts
\* of the handles are the handles.
Admitted ==
    LET out == IF kind = "bounded" THEN max_capacity - capacity ELSE avail
    IN  /\ strong_count = Cardinality({t \in Tasks: handle[t] = "strong"})
        /\ weak_count = Cardinality({t \in Tasks: handle[t] = "weak"})
        /\ out = Untaken + (IF pc[Rx] = "received" THEN 1 ELSE 0) + rx.taken + set_aside
              + MapThenSumSet(LAMBDA t: InFlight(t) + Owned(t) + permits[t], Tasks)

\* At rest: nobody has a step of its own to take.
Quiet(t) == pc[t] \in {"idle", "asleep", "gone"} /\ Free(t) /\ t \notin woken

\* Nobody is left waiting for what is there.  Once every sender is at rest, a
\* receiver asleep and not woken has nothing to be answered (poll_recv): no
\* value, no end of a channel without senders, none of one closed and idle.  And
\* with everyone at rest, a sender waits only while the channel is open and has
\* no permit left (FairSemaphore::pass).
NotLeft ==
    (drain = NoDrain /\ \A t \in Tasks: Quiet(t)) =>
        /\ (pc[Rx] = "asleep" /\ ~rx_awake)
              => is_empty /\ ~finished /\ (rx_is_closed => strong_count # 0)
        /\ Quiet(Rx) => \A t \in Tasks: pc[t] = "asleep" => ~is_closed /\ avail = 0

\* The channel's promise: module Channel, with a value sent when its cell is
\* ready and received when it is handed over.
Mine(t) == SelectSeq(cells, LAMBDA c: c.value[1] = t /\ c.ready /\ ~c.taken)
Back(v, t) == IF v # None /\ v[1] = t THEN <<v[2]>> ELSE <<>>
Chan == INSTANCE Channel WITH
    Values <- UNION {1..x.sends: x \in Casts},
    queued <- [t \in Tasks |-> Back(stash, t) \o Back(got, t)
                               \o [i \in DOMAIN Mine(t) |-> Mine(t)[i].value[2]]],
    gone <- (pc[Rx] = "gone" \/ rx.op = "drop"), ended <- ended
ChanStep == UNCHANGED Chan!vars \/ Chan!Next

------------------------------------------------------------------------------
(***************************************************************************)
(* The unbounded channel's queue (src/sync/mpsc/queue/radix.rs): leaves of *)
(* cells under a tree of inner nodes that grows at its root, senders that  *)
(* claim a position and mark its cell ready later, and one receiver that   *)
(* takes ready values past a stalled position and retires the nodes it     *)
(* leaves behind.                                                          *)
(*                                                                         *)
(* A step is one access to the tail, to a cell's mark or to the root; a    *)
(* descent that makes the missing nodes is one step.  A node is the pair   *)
(* of its level, 0 for a leaf, and its number within the level.            *)
(***************************************************************************)

CONSTANTS
    Senders,
    CELLS,      \* cells of a leaf
    FAN,        \* children of an inner node
    WINDOW,     \* how far past the head the receiver takes
    MaxPushes,  \* bound: pushes of a sender
    RadixMayPanic    \* whether a receive may unwind and put its value back

VARIABLES
    tail, level,      \* the next position; the root's level
    made, retired,    \* the nodes made, and those the receiver retired
    radix_ready,            \* the positions marked ready
    head, ahead,      \* the head, and the positions past it already taken
    leaf,             \* the number of the head's leaf
    radix_stash, diverted,  \* the value put back and the mark that says so
    radix_pc, pos,          \* of a sender: its step, and the position it claimed
    pushes,
    rpc, seek, found, end, radix_value,   \* of the receiver's try_pop
    radix_out,              \* the positions handed over, in order
    before            \* of a position: those ready when it was claimed

tree == <<level, made, retired>>
mine == <<head, ahead, leaf, radix_stash, diverted, rpc, seek, found, end, radix_value, radix_out>>
radix_vars == <<tail, radix_ready, tree, mine, radix_pc, pos, pushes, before>>

NoPos == -1
MaxPos == MaxPushes * Cardinality(Senders)

\* Positions, leaves and the tree.
LeafOf(p) == p \div CELLS
span(l) == FAN^l
Path(n, l) == {<<k, n \div span(k)>>: k \in 0..l}

\* Radix::starting_at(0): a root of level 1 and the first leaf.
RadixInit ==
    /\ tail = 0 /\ level = 1 /\ made = {<<1, 0>>, <<0, 0>>} /\ retired = {}
    /\ radix_ready = {} /\ head = 0 /\ ahead = {} /\ leaf = 0 /\ radix_stash = NoPos /\ diverted = FALSE
    /\ radix_pc = [s \in Senders |-> "idle"] /\ pos = [s \in Senders |-> NoPos]
    /\ pushes = [s \in Senders |-> 0]
    /\ rpc = "idle" /\ seek = 0 /\ found = 0 /\ end = 0 /\ radix_value = NoPos /\ radix_out = <<>>
    /\ before = [p \in 0..MaxPos - 1 |-> {}]

RadixGoto(s, to) == radix_pc' = [radix_pc EXCEPT ![s] = to]

-----------------------------------------------------------------------------
(* A push *)

radix_push(s) ==
    /\ rpc # "dropped" /\ radix_pc[s] = "idle" /\ pushes[s] < MaxPushes /\ RadixGoto(s, "root")
    /\ tail' = tail + 1 /\ pos' = [pos EXCEPT ![s] = tail]
    /\ pushes' = [pushes EXCEPT ![s] = @ + 1]
    /\ before' = [before EXCEPT ![tail] = radix_ready]
    /\ UNCHANGED <<radix_ready, tree, mine>>

\* root_for and grow: a position past the root's span puts a root above it.
grow(s) ==
    /\ radix_pc[s] = "root"
    /\ IF LeafOf(pos[s]) < span(level) THEN RadixGoto(s, "descend") /\ UNCHANGED <<level, made>>
       ELSE level' = level + 1 /\ made' = made \cup {<<level + 1, 0>>} /\ UNCHANGED radix_pc
    /\ UNCHANGED <<tail, radix_ready, retired, mine, pos, pushes, before>>

\* leaf with `make`: the nodes missing on the way are made.
descend(s) ==
    /\ radix_pc[s] = "descend" /\ RadixGoto(s, "write")
    /\ made' = made \cup Path(LeafOf(pos[s]), level)
    /\ UNCHANGED <<tail, level, retired, radix_ready, mine, pos, pushes, before>>

\* write: the value, then the mark.
write(s) ==
    /\ radix_pc[s] = "write" /\ RadixGoto(s, "idle") /\ radix_ready' = radix_ready \cup {pos[s]}
    /\ pos' = [pos EXCEPT ![s] = NoPos]
    /\ UNCHANGED <<tail, tree, mine, pushes, before>>

-----------------------------------------------------------------------------
(* The receiver *)

UnchangedBySenders == UNCHANGED <<tail, radix_pc, pos, pushes, before, radix_ready>>

\* leaf without `make`: null unless the whole path was made.
Made(n) == n < span(level) /\ Path(n, level) \subseteq made
RadixReady(p) == Made(LeafOf(p)) /\ p \in radix_ready

\* try_pop begins; a put-back value comes first.
radix_try_pop ==
    /\ rpc = "idle"
    /\ IF diverted
       THEN /\ diverted' = FALSE /\ radix_stash' = NoPos /\ radix_out' = Append(radix_out, radix_stash) /\ UNCHANGED rpc
       ELSE rpc' = "leaf" /\ UNCHANGED <<diverted, radix_stash, radix_out>>
    /\ UNCHANGED <<tree, head, ahead, leaf, seek, found, end, radix_value>> /\ UnchangedBySenders

\* leave: the leaf, and every inner node whose span ended with it.
leave(n) == retired \cup {<<k, n \div span(k)>>: k \in {j \in 0..level - 1: (n + 1) % span(j) = 0}}

\* move_head_leaf: the next leaf, if a send made it.
move_head_leaf ==
    /\ rpc = "leaf" /\ LeafOf(head) # leaf
    /\ IF Made(leaf + 1) THEN leaf' = leaf + 1 /\ retired' = leave(leaf) /\ UNCHANGED rpc
                         ELSE rpc' = "next" /\ UNCHANGED <<leaf, retired>>
    /\ UNCHANGED <<level, made, head, ahead, radix_stash, diverted, seek, found, end, radix_value, radix_out>> /\ UnchangedBySenders

\* taken: past the head it is marked, at the head the head moves past the marks.
radix_taken(p) ==
    IF p # head THEN ahead' = ahead \cup {p} /\ UNCHANGED head
    ELSE LET next == Min({q \in head + 1..MaxPos: q \notin ahead})
         IN  head' = next /\ ahead' = {q \in ahead: q > next}

\* The head's cell, if it is ready;
head_cell ==
    /\ rpc = "leaf" /\ LeafOf(head) = leaf
    /\ IF head \in radix_ready THEN radix_taken(head) /\ radix_value' = head /\ rpc' = "taken"
                         ELSE rpc' = "next" /\ UNCHANGED <<head, ahead, radix_value>>
    /\ UNCHANGED <<tree, leaf, radix_stash, diverted, seek, found, end, radix_out>> /\ UnchangedBySenders

\* take_past: only a value past the head says that it is stalled;
next_ready ==
    /\ rpc = "next"
    /\ rpc' = IF head + 1 \in ahead \/ RadixReady(head + 1) THEN "tail" ELSE "idle"
    /\ UNCHANGED <<tree, head, ahead, leaf, radix_stash, diverted, seek, found, end, radix_value, radix_out>> /\ UnchangedBySenders

\* then the tail bounds the look,
take_past ==
    /\ rpc = "tail"
    /\ IF tail <= head + 1 THEN rpc' = "idle" /\ UNCHANGED <<seek, end>>
       ELSE rpc' = "find" /\ seek' = head + 1 /\ end' = Min({tail, head + WINDOW})
    /\ UNCHANGED <<tree, head, ahead, leaf, radix_stash, diverted, found, radix_value, radix_out>> /\ UnchangedBySenders

\* which finds the first one ready and not taken,
find ==
    /\ rpc = "find"
    /\ IF seek = end THEN rpc' = "idle" /\ seek' = 0 /\ end' = 0 /\ UNCHANGED found
       ELSE IF seek \notin ahead /\ RadixReady(seek)
            THEN rpc' = "again" /\ found' = seek /\ seek' = head /\ end' = 0
            ELSE seek' = seek + 1 /\ UNCHANGED <<rpc, found, end>>
    /\ UNCHANGED <<tree, head, ahead, leaf, radix_stash, diverted, radix_value, radix_out>> /\ UnchangedBySenders

\* A mutant: the first one found is taken, without a second look before it.
FoundAtOnce ==
    /\ rpc = "again" /\ rpc' = "taken" /\ radix_taken(found) /\ radix_value' = found /\ seek' = 0 /\ found' = 0
    /\ UNCHANGED <<tree, leaf, radix_stash, diverted, end, radix_out>> /\ UnchangedBySenders

\* and looks again at those before it: the earliest that is ready now.
find_again ==
    /\ rpc = "again"
    /\ IF seek = found \/ (seek \notin ahead /\ RadixReady(seek))
       THEN rpc' = "taken" /\ radix_taken(seek) /\ radix_value' = seek /\ seek' = 0 /\ found' = 0
       ELSE seek' = seek + 1 /\ UNCHANGED <<rpc, head, ahead, radix_value, found>>
    /\ UNCHANGED <<tree, leaf, radix_stash, diverted, end, radix_out>> /\ UnchangedBySenders

\* The value is handed over, or put back by a receive that unwinds (put_back).
handed_over ==
    /\ rpc = "taken" /\ rpc' = "idle" /\ radix_value' = NoPos
    /\ \/ radix_out' = Append(radix_out, radix_value) /\ UNCHANGED <<radix_stash, diverted>>
       \/ RadixMayPanic /\ radix_stash' = radix_value /\ diverted' = TRUE /\ UNCHANGED radix_out
    /\ UNCHANGED <<tree, head, ahead, leaf, seek, found, end>> /\ UnchangedBySenders

Ascending(S) == SetToSortSeq(S, <)

\* The queue's drop (free_tree), with no push or receive on its way: what is
\* ready and not taken is dropped, and so is the stash.
drop ==
    /\ rpc = "idle" /\ \A s \in Senders: radix_pc[s] = "idle"
    /\ rpc' = "dropped" /\ radix_stash' = NoPos /\ diverted' = FALSE
    /\ radix_out' = radix_out \o (IF diverted THEN <<radix_stash>> ELSE <<>>)
                  \o Ascending({p \in head..tail - 1: p \in radix_ready /\ p \notin ahead})
    /\ UNCHANGED <<tree, head, ahead, leaf, seek, found, end, radix_value>> /\ UnchangedBySenders

Receive == \/ radix_try_pop \/ move_head_leaf \/ head_cell \/ next_ready \/ take_past \/ find
           \/ find_again \/ handed_over \/ drop

RadixNext == Receive \/ \E s \in Senders: radix_push(s) \/ grow(s) \/ descend(s) \/ write(s)

RadixSpec == RadixInit /\ [][RadixNext]_radix_vars

-----------------------------------------------------------------------------
(* Properties *)

\* A value comes out once, and after every value that was ready when its own
\* position was claimed: those of its sender before it, and of any sender whose
\* push returned before (find and find_again).  A queue's drop leaves none.
InOrder ==
    /\ \A i \in DOMAIN radix_out: LET sooner == {radix_out[j]: j \in 1..i - 1}
                            IN  radix_out[i] \notin sooner /\ before[radix_out[i]] \subseteq sooner
    /\ rpc = "dropped" => {radix_out[i]: i \in DOMAIN radix_out} = 0..tail - 1

\* "No send ever descends into a span the receiver finished" (radix.rs): no node
\* between the root and the cell a send writes, or the head's cell, is retired.
NodesLive ==
    /\ \A s \in Senders: radix_pc[s] \in {"descend", "write"} =>
           Path(LeafOf(pos[s]), level) \cap retired = {}
    /\ Path(leaf, level) \cap retired = {}
==============================================================================
