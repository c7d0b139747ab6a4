------------------------------ MODULE LocalSync ------------------------------
(***************************************************************************)
(* The primitives of one shard: sync/local (waiters.rs, semaphore.rs,      *)
(* mutex.rs and mpsc). One thread runs them, with no lock and no atomic:   *)
(* what comes between two of their steps is the code of a user's waker,    *)
(* cloned or woken in the middle of a call, which may call the same        *)
(* primitive again and may panic. `frames' is the stack of calls under     *)
(* such code; only the last goes on, and any call may begin above it.      *)
(***************************************************************************)
EXTENDS Integers, Sequences, FiniteSets, FiniteSetsExt, SequencesExt

CONSTANTS
    Requests, None,
    Kinds,     \* of "sem", "mutex", "bounded", "unbounded"
    First,     \* permits at first
    Needs,     \* what a request of a semaphore asks for
    MaxCalls, MaxDepth, MaxPanics

VARIABLES
    kind,
    st,    \* [permits, closed, line, req, woken, queue, rx, rx_waker, senders, rx_closed, cline, got, sent, total]
    frames,
    bound

vars == <<kind, st, frames, bound>>

Semaphore(n) ==
    [permits |-> n, closed |-> FALSE, line |-> <<>>, req |-> [r \in Requests |-> [is |-> "idle", n |-> 0]],
     woken |-> {}, queue |-> <<>>, rx |-> "idle", rx_waker |-> FALSE, senders |-> 1, rx_closed |-> FALSE,
     cline |-> <<>>, got |-> <<>>, sent |-> 0, total |-> n]

Init ==
    /\ kind \in Kinds /\ st = Semaphore(CASE kind = "unbounded" -> 0 [] kind = "mutex" -> 1 [] OTHER -> First) /\ frames = <<>>
    /\ bound = [calls |-> 0, panics |-> 0]

Frame(op, r, v) == [op |-> op, r |-> r, v |-> v, unwinds |-> FALSE]
Top == frames[Len(frames)]
Under == SubSeq(frames, 1, Len(frames) - 1)
Channel == kind \in {"bounded", "unbounded"}
Busy(r) == \E i \in DOMAIN frames: frames[i].r = r
Receiving == \E i \in DOMAIN frames: frames[i].op \in {"recv", "register", "close_rx", "drop_rx"}

-----------------------------------------------------------------------------
\* waiters.rs.
is_empty(s) == s.line = <<>>
push(s, r) == [s EXCEPT !.line = Append(@, r), !.req[r].is = "waiting"]
unlink(q, r) == SelectSeq(q, LAMBDA x: x # r)
pop_front(s, state) ==
    LET r == Head(s.line)
    IN [s EXCEPT !.line = Tail(@), !.req[r].is = state, !.woken = @ \union {r}]
front_fits(s) == s.line # <<>> /\ s.permits >= 0 /\ s.req[Head(s.line)].n <= s.permits

grant_front(s) == [pop_front(s, "granted") EXCEPT !.permits = @ - s.req[Head(s.line)].n]
close_front(s) == pop_front(s, "closed")
close_front_of_closed(s) == [s EXCEPT !.cline = Tail(@), !.req[Head(s.cline)].is = "closed",
                                      !.woken = @ \union {Head(s.cline)}]

\* semaphore.rs: what serving begins with: <<state, frames>>.
serve(s) == <<s, IF s.closed \/ ~front_fits(s) THEN <<>> ELSE <<Frame("serve", None, 0)>> >>
release(s, n) == serve([s EXCEPT !.permits = @ + n])
limit_release(s, n) == IF kind = "unbounded" \/ n = 0 THEN <<s, <<>> >> ELSE release(s, n)
bounded_idle(s) == s.permits = First
is_idle(s) == kind = "unbounded" \/ bounded_idle(s)

rx_is_closed(s) == s.rx_closed \/ s.senders = 0
finished(s) == rx_is_closed(s) /\ s.queue = <<>> /\ is_idle(s)
wake_rx(s) == IF s.rx_waker THEN [s EXCEPT !.rx_waker = FALSE, !.woken = @ \union {"rx"}] ELSE s
wake_if_finished(s) == IF finished(s) THEN wake_rx(s) ELSE s

Goes(p) == st' = p[1] /\ frames' = frames \o p[2]
Calls ==
    /\ Len(frames) < MaxDepth /\ bound.calls < MaxCalls
    /\ bound' = [bound EXCEPT !.calls = @ + 1] /\ UNCHANGED kind

-----------------------------------------------------------------------------
\* A request, not polled yet.
Asks(r, n) ==
    /\ st.req[r].is = "idle" /\ ~Busy(r) /\ st' = [st EXCEPT !.req[r] = [is |-> "new", n |-> n]]
    /\ Calls /\ UNCHANGED frames
acquire_many(r) == kind = "sem" /\ \E n \in Needs: Asks(r, n)
lock(r) == kind = "mutex" /\ Asks(r, 1)
reserve(r) == kind = "bounded" /\ st.senders > 0 /\ Asks(r, 1)

\* NoPermits while others are in line, if there are permits too.
Tries(r, n) ==
    /\ st.req[r].is = "idle" /\ ~Busy(r) /\ ~st.closed /\ is_empty(st) /\ st.permits >= n
    /\ st' = [st EXCEPT !.req[r] = [is |-> "held", n |-> n], !.permits = @ - n]
    /\ Calls /\ UNCHANGED frames
try_acquire_many(r) == kind = "sem" /\ \E n \in Needs: Tries(r, n)
try_lock(r) == kind = "mutex" /\ Tries(r, 1)
try_reserve(r) == kind = "bounded" /\ st.senders > 0 /\ Tries(r, 1)

\* Acquire::queue, after the waker was cloned.
queue(s, r) ==
    CASE s.closed -> [s EXCEPT !.req[r].is = "idle"]
      [] ~s.closed /\ is_empty(s) /\ s.permits >= s.req[r].n -> [s EXCEPT !.req[r].is = "held", !.permits = @ - s.req[r].n]
      [] OTHER -> push(s, r)

\* Acquire::poll.
poll(r) ==
    /\ st.req[r].is \in {"new", "granted", "closed"} \/ (st.req[r].is = "waiting" /\ r \in st.woken)
    /\ ~Busy(r) /\ Len(frames) < MaxDepth
    /\ LET s == [st EXCEPT !.woken = @ \ {r}]
       IN CASE s.req[r].is = "granted" -> Goes(<<[s EXCEPT !.req[r].is = "held"], <<>> >>)
            [] s.req[r].is = "closed" -> Goes(<<[s EXCEPT !.req[r].is = "idle"], <<>> >>)
            [] s.req[r].is = "waiting" -> Goes(<<s, <<>> >>)
            [] s.closed -> Goes(<<[s EXCEPT !.req[r].is = "idle"], <<>> >>)
            [] is_empty(s) /\ s.permits >= s.req[r].n ->
                 Goes(<<[s EXCEPT !.req[r].is = "held", !.permits = @ - s.req[r].n], <<>> >>)
            [] OTHER -> Goes(<<s, <<Frame("queue", r, 0)>> >>)
    /\ UNCHANGED <<kind, bound>>

\* What a request that leaves the line passes on, before what fits is served.
leave_line(s, is, n) == IF is = "granted" THEN [s EXCEPT !.permits = @ + n] ELSE s

\* Acquire::cancel, and Reserve's end.
cancel(r) ==
    /\ st.req[r].is \in {"new", "waiting", "granted", "closed"} /\ ~Busy(r)
    /\ LET q == st.req[r]
           front == st.line # <<>> /\ Head(st.line) = r
           s == [st EXCEPT !.req[r].is = "idle", !.line = unlink(@, r), !.woken = @ \ {r}]
           p == serve(leave_line(s, q.is, q.n))
           w == IF kind = "bounded" THEN <<Frame("finished", None, 0)>> ELSE <<>>
       IN Goes(<<IF q.is = "granted" \/ front THEN p[1] ELSE s,
                 w \o (IF q.is = "granted" \/ front THEN p[2] ELSE <<>>)>>)
    /\ Calls

\* A permit's end; a channel's receiver may be told that all is over then.
Releases(r, w) ==
    /\ st.req[r].is = "held" /\ ~Busy(r)
    /\ LET p == release([st EXCEPT !.req[r].is = "idle"], st.req[r].n) IN Goes(<<p[1], w \o p[2]>>)
    /\ Calls
permit_drop(r) == kind = "sem" /\ Releases(r, <<>>)
unlock(r) == kind = "mutex" /\ Releases(r, <<>>)
give_back(r) == kind = "bounded" /\ Releases(r, <<Frame("finished", None, 0)>>)

\* SemaphorePermit::forget, and merge, which keeps the other's permits.
forget(r) ==
    /\ kind = "sem" /\ st.req[r].is = "held"
    /\ \/ st' = [st EXCEPT !.req[r] = [is |-> "idle", n |-> 0], !.total = @ - st.req[r].n]
       \/ \E q \in Requests \ {r}: st.req[q].is = "held"
             /\ st' = [st EXCEPT !.req[r] = [is |-> "idle", n |-> 0], !.req[q].n = @ + st.req[r].n]
    /\ Calls /\ UNCHANGED frames

add_permits ==
    /\ kind = "sem" /\ Goes(release([st EXCEPT !.total = @ + 1], 1)) /\ Calls
forget_permits ==
    LET n == IF st.permits > 0 THEN 1 ELSE 0
    IN /\ kind = "sem" /\ st' = [st EXCEPT !.permits = @ - n, !.total = @ - n]
       /\ Calls /\ UNCHANGED frames
close ==
    /\ kind = "sem" /\ ~st.closed
    /\ Goes(<<[st EXCEPT !.closed = TRUE], <<Frame("closing", None, 0)>> >>) /\ Calls

-----------------------------------------------------------------------------
\* chan.rs.
chan_push(s) == wake_rx([s EXCEPT !.queue = Append(@, s.sent + 1), !.sent = @ + 1])
permit_send(r) ==
    /\ kind = "bounded" /\ st.req[r].is = "held" /\ ~Busy(r)
    /\ Goes(<<chan_push([st EXCEPT !.req[r].is = "idle"]), <<>> >>) /\ Calls
try_send ==
    /\ kind = "bounded" /\ st.senders > 0 /\ ~st.closed /\ is_empty(st) /\ st.permits >= 1
    /\ Goes(<<chan_push([st EXCEPT !.permits = @ - 1]), <<>> >>) /\ Calls
send == kind = "unbounded" /\ st.senders > 0 /\ ~st.rx_closed /\ Goes(<<chan_push(st), <<>> >>) /\ Calls

\* Sender::closed.
closed(r) ==
    /\ Channel /\ st.senders > 0 /\ st.req[r].is = "idle" /\ ~Busy(r)
    /\ IF st.rx_closed THEN UNCHANGED <<st, frames>> ELSE Goes(<<st, <<Frame("closed_wait", r, 0)>> >>)
    /\ Calls
closed_told(r) ==
    /\ kind = "unbounded" /\ st.req[r].is = "closed" /\ st.rx_closed /\ ~Busy(r) /\ r \in st.woken
    /\ st' = [st EXCEPT !.req[r].is = "idle", !.woken = @ \ {r}] /\ UNCHANGED <<kind, frames, bound>>

\* A sender goes once no request or permit borrows it.
drop_sender ==
    /\ Channel /\ st.senders > 0 /\ \A r \in Requests: st.req[r].is = "idle" /\ ~Busy(r)
    /\ LET s == [st EXCEPT !.senders = @ - 1] IN st' = IF s.senders = 0 THEN wake_rx(s) ELSE s
    /\ Calls /\ UNCHANGED frames
add_sender ==
    /\ Channel /\ st.senders = 1 /\ st' = [st EXCEPT !.senders = 2] /\ Calls /\ UNCHANGED frames

\* Chan::pop_released: the value is out of the queue while its place is given back.
pop_released(s) ==
    LET p == limit_release([s EXCEPT !.queue = Tail(@)], 1) IN <<p[1], <<Frame("recv", "rx", Head(s.queue))>> \o p[2]>>

\* Chan::poll_recv.
poll_recv ==
    LET s == [st EXCEPT !.woken = @ \ {"rx"}, !.rx_waker = FALSE]
    IN /\ Channel /\ ~Receiving /\ st.rx \in {"idle", "wait"} /\ (st.rx = "wait" => "rx" \in st.woken)
       /\ Goes(IF s.queue # <<>> THEN pop_released([st EXCEPT !.woken = @ \ {"rx"}])
               ELSE <<s, <<Frame("register", "rx", 0)>> >>)
       /\ Calls

\* register_rx is through: a value that came meanwhile is taken.
Registered(s) ==
    CASE s.queue # <<>> -> LET p == pop_released([s EXCEPT !.rx_waker = TRUE]) IN p
      [] finished(s) -> <<[s EXCEPT !.rx_waker = FALSE, !.rx = "ended"], <<>> >>
      [] OTHER -> <<[s EXCEPT !.rx_waker = TRUE, !.rx = "wait"], <<>> >>

try_recv ==
    /\ Channel /\ ~Receiving /\ st.rx # "gone" /\ st.queue # <<>> /\ Goes(pop_released(st)) /\ Calls

\* poll_recv_many takes them out and releases their places at once.
poll_recv_many ==
    LET p == limit_release([st EXCEPT !.queue = <<>>, !.got = @ \o st.queue, !.rx = "idle"], Len(st.queue))
    IN /\ Channel /\ ~Receiving /\ st.rx # "gone" /\ Len(st.queue) > 1 /\ Goes(p) /\ Calls

close_rx ==
    /\ Channel /\ ~Receiving /\ st.rx # "gone" /\ ~st.rx_closed
    /\ Goes(<<[st EXCEPT !.rx_closed = TRUE, !.closed = kind = "bounded", !.rx = "idle"],
              <<Frame("close_rx", "rx", 0)>> \o (IF kind = "bounded" THEN <<Frame("closing", None, 0)>> ELSE <<>>)>>)
    /\ Calls

drop_rx ==
    /\ Channel /\ ~Receiving /\ st.rx # "gone"
    /\ Goes(<<[st EXCEPT !.rx_closed = TRUE, !.closed = kind = "bounded", !.rx = "gone"],
              <<Frame("drop_rx", "rx", 0), Frame("close_rx", "rx", 0)>>
                  \o (IF kind = "bounded" /\ ~st.closed THEN <<Frame("closing", None, 0)>> ELSE <<>>)>>)
    /\ Calls

-----------------------------------------------------------------------------
\* The last frame goes on; `u': the user's code it ran panicked.
Returns(s, u) ==
    /\ st' = s
    /\ frames' = [i \in 1..(Len(frames) - 1) |->
                     IF i = Len(frames) - 1 /\ (u \/ Top.unwinds) THEN [frames[i] EXCEPT !.unwinds = TRUE] ELSE frames[i]]
Wakes(s, u) ==
    /\ st' = s /\ frames' = [frames EXCEPT ![Len(frames)].unwinds = @ \/ u]

restore(s, v, u) ==
    IF u THEN [s EXCEPT !.queue = <<v>> \o @, !.permits = IF kind = "bounded" THEN @ - 1 ELSE @, !.rx = "idle"]
    ELSE [s EXCEPT !.got = Append(@, v), !.rx = "idle"]

goes_on(u) ==
    LET f == Top
        unw == f.unwinds
        then(p) == st' = p[1] /\ frames' = Under \o p[2]
    IN /\ frames # <<>>
       /\ CASE f.op = "serve" -> IF front_fits(st) THEN Wakes(grant_front(st), u) ELSE ~u /\ Returns(st, FALSE)
            [] f.op = "closing" -> IF st.line # <<>> THEN Wakes(close_front(st), u) ELSE ~u /\ Returns(st, FALSE)
            [] f.op = "close_rx" -> IF st.cline # <<>> THEN Wakes(close_front_of_closed(st), u) ELSE ~u /\ Returns(st, FALSE)
            [] f.op = "drop_rx" ->
                 /\ ~u
                 /\ IF unw THEN Returns(st, FALSE)
                    ELSE then(limit_release([st EXCEPT !.queue = <<>>, !.got = @ \o st.queue, !.rx_waker = FALSE],
                                            Len(st.queue)))
            [] f.op = "recv" -> ~u /\ Returns(restore(st, f.v, unw), FALSE)
            [] f.op = "finished" -> ~u /\ Returns(IF unw THEN st ELSE wake_if_finished(st), FALSE)
            [] f.op = "queue" -> IF u THEN Returns([st EXCEPT !.req[f.r].is = "idle"], TRUE) ELSE Returns(queue(st, f.r), FALSE)
            [] f.op = "closed_wait" ->
                 IF u \/ st.rx_closed THEN Returns(st, u)
                 ELSE Returns([st EXCEPT !.cline = Append(@, f.r), !.req[f.r].is = "closed_wait"], FALSE)
            [] f.op = "register" -> IF u THEN Returns([st EXCEPT !.rx = "idle"], TRUE) ELSE then(Registered(st))
       /\ IF u THEN bound.panics < MaxPanics /\ bound' = [bound EXCEPT !.panics = @ + 1] ELSE UNCHANGED bound
       /\ UNCHANGED kind

\* ClosedWait's end.
closed_gone(r) ==
    /\ st.req[r].is = "closed_wait" \/ (st.req[r].is = "closed" /\ Channel)
    /\ ~Busy(r) /\ st' = [st EXCEPT !.cline = unlink(@, r), !.req[r].is = "idle", !.woken = @ \ {r}]
    /\ UNCHANGED <<kind, frames, bound>>

Next ==
    \/ \E r \in Requests: \/ acquire_many(r) \/ try_acquire_many(r) \/ poll(r) \/ cancel(r) \/ permit_drop(r)
                          \/ forget(r) \/ lock(r) \/ try_lock(r) \/ unlock(r) \/ reserve(r) \/ try_reserve(r)
                          \/ permit_send(r) \/ give_back(r) \/ closed(r) \/ closed_told(r) \/ closed_gone(r)
    \/ add_permits \/ forget_permits \/ close \/ drop_sender \/ add_sender
    \/ try_send \/ send \/ poll_recv \/ try_recv \/ poll_recv_many \/ close_rx \/ drop_rx
    \/ \E u \in BOOLEAN: goes_on(u)

Spec == Init /\ [][Next]_vars

-----------------------------------------------------------------------------
Holding == {r \in Requests: st.req[r].is \in {"granted", "held"}}
Out == {i \in DOMAIN frames: frames[i].op = "recv"}
(* Every permit is free, granted, held, or under a value of the channel, whatever
   a waker's code does in the middle of a call. *)
PermitsConserved ==
    kind # "unbounded" =>
        st.permits + MapThenSumSet(LAMBDA r: st.req[r].n, Holding)
            + Len(st.queue) = st.total

(* The values come out in the order they went in, none twice and none lost. *)
LocalFifo ==
    st.got \o [k \in 1..Cardinality(Out) |-> frames[CHOOSE i \in Out: TRUE].v] \o st.queue = [k \in 1..st.sent |-> k]

(* Once the thread is back from every call, no request waits that could be
   served, none waits on what is closed, and the receiver waits for something. *)
NobodyStranded ==
    frames = <<>> =>
        /\ ~front_fits(st) /\ (st.closed => st.line = <<>>) /\ (st.rx_closed => st.cline = <<>>)
        /\ (st.rx = "wait" /\ "rx" \notin st.woken) => st.queue = <<>> /\ ~finished(st)

------------------------------------------------------------------------------
(***************************************************************************)
(* The oneshot channel of one shard: sync/local/oneshot.rs. Its two ends   *)
(* are on one thread; what comes between the steps of a poll is the code   *)
(* of the waker it clones, which may use the other end. `reg' is the end   *)
(* whose poll is in that clone.                                            *)
(***************************************************************************)

CONSTANT MaxPolls    \* polls of each end

VARIABLES
    one_state,    \* a subset of VALUE_SENT, RX_CLOSED, TX_DROPPED
    value,    \* in the cell
    wakers,   \* the ends with a waker in their slot
    ends,     \* tx, rx: "there", "waits", "over"
    one_got,      \* what the receiver ended with
    reg, one_told, polls

one_vars == <<one_state, value, wakers, ends, one_got, reg, one_told, polls>>
VALUE_SENT == "value_sent"
RX_CLOSED == "rx_closed"
TX_DROPPED == "tx_dropped"
DONE == {VALUE_SENT, RX_CLOSED, TX_DROPPED}
Ends == {"tx", "rx"}

OneInit ==
    /\ one_state = {} /\ value = FALSE /\ wakers = {} /\ ends = [e \in Ends |-> "there"] /\ one_got = "none"
    /\ reg = {} /\ one_told = {} /\ polls = [e \in Ends |-> 0]

has(bits) == one_state \intersect bits # {}
\* An end is free to be used when no poll of it is under way.
Free(e) == ends[e] # "over" /\ e \notin reg
wake(e) == wakers' = wakers \ {e} /\ one_told' = one_told \union (wakers \intersect {e})

\* Sender::send; the sender is gone with it.
one_send ==
    /\ Free("tx")
    /\ IF has({RX_CLOSED}) THEN one_state' = one_state \union {TX_DROPPED} /\ UNCHANGED <<value, wakers, one_told>>
       ELSE value' = TRUE /\ one_state' = one_state \union {VALUE_SENT, TX_DROPPED} /\ wake("rx")
    /\ ends' = [ends EXCEPT !["tx"] = "over"] /\ UNCHANGED <<one_got, reg, polls>>
sender_drop ==
    /\ Free("tx") /\ one_state' = one_state \union {TX_DROPPED} /\ ends' = [ends EXCEPT !["tx"] = "over"]
    /\ wakers' = {} /\ one_told' = one_told \union (wakers \intersect {"rx"}) /\ UNCHANGED <<value, one_got, reg, polls>>

one_close ==
    /\ Free("rx") /\ one_state' = one_state \union {RX_CLOSED} /\ wake("tx")
    /\ ends' = [ends EXCEPT !["rx"] = "there"] /\ UNCHANGED <<value, one_got, reg, polls>>
receiver_drop ==
    /\ Free("rx") /\ one_state' = one_state \union {RX_CLOSED} /\ ends' = [ends EXCEPT !["rx"] = "over"]
    /\ wakers' = {} /\ one_told' = one_told \union (wakers \intersect {"tx"}) /\ value' = FALSE
    /\ UNCHANGED <<one_got, reg, polls>>
Ended == /\ one_got' = IF value THEN "value" ELSE "closed"
         /\ value' = FALSE /\ ends' = [ends EXCEPT !["rx"] = "over"]
one_try_recv ==
    /\ Free("rx") /\ (value \/ has({RX_CLOSED, TX_DROPPED})) /\ Ended
    /\ UNCHANGED <<one_state, wakers, reg, one_told, polls>>

\* A poll begins: it is over at once, or clones its waker.
one_poll(e) ==
    LET bits == IF e = "rx" THEN DONE ELSE {RX_CLOSED}
    IN /\ Free(e) /\ polls[e] < MaxPolls /\ polls' = [polls EXCEPT ![e] = @ + 1] /\ one_told' = one_told \ {e}
       /\ IF has(bits) THEN /\ (IF e = "rx" THEN Ended ELSE ends' = [ends EXCEPT ![e] = "there"] /\ UNCHANGED <<one_got, value>>)
                            /\ UNCHANGED reg
          ELSE reg' = reg \union {e} /\ UNCHANGED <<ends, one_got, value>>
       /\ UNCHANGED <<one_state, wakers>>

\* register cloned and stored the waker: the poll looks again.
registered(e) ==
    LET bits == IF e = "rx" THEN DONE ELSE {RX_CLOSED}
    IN /\ e \in reg /\ reg' = reg \ {e} /\ wakers' = wakers \union {e}
       /\ CASE ~has(bits) -> ends' = [ends EXCEPT ![e] = "waits"] /\ UNCHANGED <<one_got, value>>
            [] has(bits) /\ e = "rx" -> Ended
            [] OTHER -> ends' = [ends EXCEPT ![e] = "there"] /\ UNCHANGED <<one_got, value>>
       /\ UNCHANGED <<one_state, one_told, polls>>
\* The clone panicked: nothing was stored.
clone_panics(e) == e \in reg /\ reg' = reg \ {e} /\ UNCHANGED <<one_state, value, wakers, ends, one_got, one_told, polls>>

OneNext ==
    \/ one_send \/ sender_drop \/ one_close \/ receiver_drop \/ one_try_recv
    \/ \E e \in Ends: one_poll(e) \/ registered(e) \/ clone_panics(e)
OneSpec == OneInit /\ [][OneNext]_one_vars

-----------------------------------------------------------------------------
is_terminated == ends["rx"] = "over"
is_closed == RX_CLOSED \in one_state
(* An end that waits is told of what it waits for, though the other end is used
   from within its own poll; a value sent is read, or dropped with the receiver. *)
OneshotTold ==
    /\ (ends["rx"] = "waits" /\ "rx" \notin one_told) => (~has(DONE) \/ "rx" \in reg)
    /\ (ends["tx"] = "waits" /\ "tx" \notin one_told) => (~is_closed \/ "tx" \in reg)
    /\ one_got = "closed" => ~value
    /\ value => VALUE_SENT \in one_state /\ ~is_terminated

------------------------------------------------------------------------------
(***************************************************************************)
(* The blocking calls of a shard's tasks: sync/frames.rs and               *)
(* `blocking_in_line' of sync/internal.rs. A task that blocks runs a frame *)
(* whose loop polls the shard's other tasks; one of them that blocks too   *)
(* opens a frame above, and the frame under it is not polled until that    *)
(* one ends. A lock with a line stands for what they wait on; `Away' are   *)
(* waits of other threads and of plain tasks, always polled once told.     *)
(***************************************************************************)

CONSTANTS
    FrameCalls,  \* blocking calls that wait in line
    Plain,  \* blocking calls that wait for something else
    Away,
    MaxTakes  \* how often one of Away asks

VARIABLES
    stack,    \* the open frames, the last on top
    frame_line, granted, holder,    \* of the lock
    header,   \* [linked, frozen, told] of a call's record
    takes

frame_vars == <<stack, frame_line, granted, holder, header, takes>>

FrameInit ==
    /\ stack = <<>> /\ frame_line = <<>> /\ granted = None /\ holder = None
    /\ header = [c \in FrameCalls \union Plain |-> [is |-> "new", linked |-> FALSE, frozen |-> FALSE, told |-> TRUE]]
    /\ takes = [x \in Away |-> 0]

\* A caller that has the lock lets it go before its thread polls anything else.
OnTop(c) == stack # <<>> /\ Last(stack) = c /\ holder \notin FrameCalls
Lock(l, g, h) == [line |-> l, granted |-> g, holder |-> h]
Sets(k) == frame_line' = k.line /\ granted' = k.granted /\ holder' = k.holder
Now == Lock(frame_line, granted, holder)
\* The lock goes to the first in line, who is told.
Passes(k) == IF k.line = <<>> THEN Lock(<<>>, None, None) ELSE Lock(Tail(k.line), Head(k.line), None)
ToldBy(k, h) == [c \in DOMAIN h |-> IF c = k.granted THEN [h[c] EXCEPT !.told = TRUE] ELSE h[c]]

\* Lock::withdraw: leaves the line, and passes on a grant.
withdraw(k, c) ==
    LET out == [k EXCEPT !.line = SelectSeq(@, LAMBDA w: w # c)]
    IN IF k.granted = c THEN Passes(out) ELSE out

\* Those in the stack that `freeze' withdraws, the newest first.
Linked == SelectSeq(Reverse(stack), LAMBDA c: header[c].linked /\ ~header[c].frozen)
freeze(k) == FoldLeft(withdraw, k, Linked)

\* Shard::block_on of a call: the frames under it are withdrawn and woken.
block_on(c) ==
    /\ header[c].is = "new" /\ stack' = Append(stack, c)
    /\ holder \notin FrameCalls
    /\ LET k == freeze(Now)
           woken == [d \in DOMAIN header |-> IF d \in Range(Linked) THEN [header[d] EXCEPT !.frozen = TRUE, !.told = TRUE]
                                             ELSE header[d]]
       IN Sets(k) /\ header' = [ToldBy(k, woken) EXCEPT ![c].is = "open"]
    /\ UNCHANGED takes

Takes(k, w) == Lock(k.line, None, w)
Queues(k, w) == IF k.holder = None /\ k.granted = None THEN Takes(k, w)
                ELSE IF Contains(k.line, w) THEN k ELSE Lock(Append(k.line, w), k.granted, k.holder)

\* Frame::poll left it pending: keep and link.
link(c) == header' = [header EXCEPT ![c].told = FALSE, ![c].frozen = FALSE, ![c].linked = TRUE]
\* Frame::poll of the top frame; a call that ends is off the stack (Unlink).
frame_poll(c) ==
    /\ OnTop(c) /\ c \in FrameCalls /\ header[c].told
    /\ LET k == IF granted = c THEN Takes(Now, c) ELSE Queues(Now, c)
       IN /\ Sets(k)
          /\ IF k.holder = c THEN /\ stack' = Front(stack)
                                  /\ header' = [header EXCEPT ![c].is = "over", ![c].linked = FALSE]
             ELSE link(c) /\ UNCHANGED stack
    /\ UNCHANGED takes
\* A frame that waits for something else: it comes.
plain_ends(c) ==
    /\ OnTop(c) /\ c \in Plain /\ stack' = Front(stack) /\ header' = [header EXCEPT ![c].is = "over"]
    /\ UNCHANGED <<frame_line, granted, holder, takes>>

\* A wait of another thread, or of a task that does not block.
ask(x) ==
    /\ x \in Away /\ takes[x] < MaxTakes /\ holder # x /\ granted # x /\ ~Contains(frame_line, x)
    /\ Sets(Queues(Now, x)) /\ takes' = [takes EXCEPT ![x] = @ + 1] /\ UNCHANGED <<stack, header>>
taken(x) ==
    /\ x \in Away /\ granted = x /\ Sets(Takes(Now, x)) /\ UNCHANGED <<stack, header, takes>>
\* Whoever holds it lets go: a blocking call's caller before it returns to the loop.
frame_release ==
    /\ holder # None /\ Sets(Passes(Now)) /\ header' = ToldBy(Passes(Now), header) /\ UNCHANGED <<stack, takes>>

FrameNext ==
    \/ \E c \in FrameCalls \union Plain: block_on(c)
    \/ \E c \in FrameCalls: frame_poll(c)
    \/ \E p \in Plain: plain_ends(p)
    \/ \E x \in Away: ask(x) \/ taken(x)
    \/ frame_release
FrameSpec == FrameInit /\ [][FrameNext]_frame_vars
(* The thread of the top frame polls it once told; a lock held is let go. *)
FrameFairSpec ==
    /\ FrameSpec /\ WF_frame_vars(frame_release)
    /\ \A c \in FrameCalls: WF_frame_vars(frame_poll(c))
    /\ \A p \in Plain: WF_frame_vars(plain_ends(p))
    /\ \A x \in Away: WF_frame_vars(taken(x))

-----------------------------------------------------------------------------
(* Nested blocking waits never wait on each other with the lock free: whoever was
   granted it can be polled, so a frame under the top was granted nothing. *)
TopIsServed == \A i \in 1..(Len(stack) - 1): granted # stack[i] /\ ~Contains(frame_line, stack[i])
(* Every blocking call that was made ends. *)
Call(c, is) == header[c].is = is
==============================================================================
