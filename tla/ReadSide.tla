------------------------------ MODULE ReadSide ------------------------------
(***************************************************************************)
(* The read side of a source, src/io/source/read.rs and read/*.rs, with    *)
(* clear.rs and quick.rs: what it holds of what the kernel handed over, a  *)
(* task's own buffer lent to it, its one operation out on a ring, and the  *)
(* tasks that wait.  Every step below runs with the side held, but the     *)
(* receive made with no guard and the caller's own calls.                  *)
(*                                                                         *)
(* `st' is the ReadState with the descriptor's receive queue beside it,    *)
(* and each operator is the function of its name from state to state.  A   *)
(* unit is a byte of a stream, a connection of a listener or a datagram:   *)
(* `held' is the read-ahead, the accepted connections or the datagrams, as *)
(* a source has one of them only.  The port of Windows is not modelled.    *)
(***************************************************************************)
EXTENDS Integers, Sequences, FiniteSets, SequencesExt

CONSTANTS Tasks, None,
          Casts,        \* what the source is: [via, kind, inq, group,
                        \* errs, fails, again, shuts, calls]
          BUF,          \* the units a buffer of the pool holds
          LARGE,        \* the shortest read made straight into the caller's buffer
          TICKS,        \* the edge counts wrap at this
          MaxUnits, MaxCalls,
          MaxEvents     \* bound: of the pool, the source and its descriptor

VARIABLES cast, st,
          room,         \* the pool has a buffer
          edge,         \* the event the driver has not served: "no", "in", "hup"
          op, cq,       \* the kernel's operation, and the completions not seen
          call, phase,  \* of a task: its call, and where it is in it
          tick,         \* ... and the edges it saw
          clear,        \* LeftClear: a tick left for the holder, or None
          taken, sent, base, ended,   \* the units answered; of this descriptor
          bound         \* the counts of what is bounded; a lent buffer was out as its source failed

vars == <<cast, st, room, edge, op, cq, call, phase, tick, clear, taken, sent, base, ended, bound>>

Streams == cast.kind \in {"tcp", "unix"}
Datagrams == cast.kind \in {"udp", "unixdg"}
Listens == cast.kind = "listener"
Fd == cast.via = "fd"
NoOp == [want |-> "none", epoch |-> 0, cancel |-> FALSE, news |-> FALSE]
NotLent == [at |-> "none", of |-> None, got |-> <<>>, res |-> "ok", waker |-> FALSE, orphan |-> FALSE]

ReadState ==
    [sock |-> <<>>, fin |-> FALSE, err |-> FALSE,
     blocked |-> FALSE, waiters |-> {}, starved |-> FALSE, want |-> 0, held |-> <<>>,
     lent |-> NotLent, eof |-> FALSE, shut |-> FALSE, error |-> FALSE, unsure |-> FALSE,
     inq |-> "unknown", left |-> 0, epoch |-> 0, edges |-> 0, user_fd |-> FALSE,
     polling |-> FALSE, stopping |-> FALSE, out |-> FALSE, poll_first |-> FALSE,
     task_polls |-> FALSE, readable |-> FALSE, multi |-> FALSE, armed |-> FALSE,
     multi_stopping |-> FALSE, dry |-> FALSE,
     here |-> TRUE, kick |-> FALSE, woken |-> {}, cancel |-> FALSE, issue |-> "none"]

Init ==
    /\ cast \in Casts /\ st = ReadState /\ room = TRUE /\ edge = "no" /\ op = NoOp /\ cq = <<>>
    /\ call = [t \in Tasks |-> "none"] /\ phase = [t \in Tasks |-> "idle"] /\ tick = [t \in Tasks |-> 0] /\ clear = None
    /\ taken = <<>> /\ sent = 0 /\ base = 0 /\ ended = FALSE
    /\ bound = [calls |-> 0, events |-> 0, shut |-> 0, out |-> FALSE]

Fewer(a, b) == IF a < b THEN a ELSE b
Firsts(q, n) == SubSeq(q, 1, Fewer(n, Len(q)))
Rest(q, n) == SubSeq(q, Fewer(n, Len(q)) + 1, Len(q))
One(n) == IF Streams THEN n ELSE 1

\* The kernel's answer to a call.
Kernel(s) ==
    IF s.err THEN "err" ELSE IF s.sock # <<>> THEN "units" ELSE IF s.fin THEN "end" ELSE "none"

Pending(s) == [s |-> s, ready |-> FALSE, got |-> <<>>, end |-> FALSE]
Ready(s, got, end) == [s |-> s, ready |-> TRUE, got |-> got, end |-> end]

wake(s) == [s EXCEPT !.woken = @ \union s.waiters, !.waiters = {}]
wake_lent(s) ==
    IF s.lent.waker THEN [s EXCEPT !.woken = @ \union {s.lent.of}, !.lent.waker = FALSE] ELSE s

-----------------------------------------------------------------------------
has_result(s) == s.held # <<>> \/ s.eof \/ s.error
\* Where the lent buffer is: with the side ("idle"), with the ring ("out"), ended ("done"), or
\* ended with an error while the ring still has it ("failed").
lent_out(s) == s.lent.at \in {"out", "failed"}
lent_done(s) == s.lent.at \in {"done", "failed"}
lent_idle(s) == s.lent.at = "idle"
lent_waits(s) == s.lent.at \in {"idle", "out"}

wait(s, t, len) ==
    [s EXCEPT !.waiters = @ \union {t}, !.want = IF @ < len THEN len ELSE @]

pass_on(s) == IF s.waiters # {} /\ has_result(s) THEN wake(s) ELSE s

\* Has the pool's buffer, or is starved until one comes back.
buffer(s) == IF room THEN s ELSE [s EXCEPT !.starved = TRUE]

drained(s, n, asked) == cast.kind = "tcp" /\ ~s.unsure /\ n > 0 /\ n < asked

\* Whether a stream's read goes straight into the caller's buffer.
inq_wanted(s) == Fd /\ Streams /\ s.inq # "off"
inq_on(s) == IF s.inq = "unknown" THEN [s EXCEPT !.inq = IF cast.inq THEN "on" ELSE "off"] ELSE s
reads_bytes(s) == Streams
reads_itself(s, len, peek) ==
    s.starved \/ (~peek /\ ((Fd /\ inq_wanted(s)) \/ len >= LARGE))

keep_floor(s, left, len) == IF left > len THEN [s EXCEPT !.left = left, !.inq = "floor"] ELSE s
lower_floor(s, n) == [s EXCEPT !.left = IF n >= @ THEN 0 ELSE @ - n]
forget_floor(s) == [s EXCEPT !.left = 0]

\* Whether this read can count what it leaves, and does now.
count_now(s, len) ==
    CASE s.inq = "on" -> <<s, TRUE, TRUE>>
      [] s.inq = "floor" -> <<s, TRUE, s.left <= len>>
      [] OTHER -> LET on == IF inq_wanted(s) THEN inq_on(s) ELSE s
                  IN <<on, on.inq = "on", on.inq = "on">>

-----------------------------------------------------------------------------
\* The driver's calls on a poller's descriptor.
read_ahead(s, len) ==
    LET b == buffer(s)
        got == Firsts(s.sock, BUF)
    IN IF ~room THEN b
       ELSE CASE Kernel(s) = "none" -> [s EXCEPT !.blocked = TRUE]
              [] Kernel(s) = "end" -> [s EXCEPT !.eof = TRUE]
              [] Kernel(s) = "err" -> [s EXCEPT !.error = TRUE, !.err = FALSE]
              [] OTHER -> [s EXCEPT !.sock = Rest(@, BUF), !.held = @ \o got,
                                    !.blocked = drained(s, Len(got), BUF)]

\* read_lent, and receive_lent of a datagram.
read_lent(s) ==
    LET got == Firsts(s.sock, One(BUF))
        done(res, n) == wake_lent([s EXCEPT !.lent.at = "done", !.lent.res = res, !.lent.got = n,
                                            !.sock = Rest(@, Len(n)), !.err = FALSE,
                                            !.blocked = Streams /\ drained(s, Len(n), BUF)])
    IN CASE Kernel(s) = "none" -> [s EXCEPT !.blocked = TRUE]
         [] Kernel(s) = "end" -> done("eof", <<>>)
         [] Kernel(s) = "err" -> done("err", <<>>)
         [] OTHER -> done("ok", got)

\* As many as tasks wait, one at least.
accept_ahead(s) ==
    LET limit == IF Cardinality(s.waiters) < 1 THEN 1 ELSE Cardinality(s.waiters)
    IN CASE Kernel(s) = "err" -> [s EXCEPT !.error = TRUE, !.err = FALSE]
         [] OTHER -> [s EXCEPT !.held = @ \o Firsts(s.sock, limit), !.sock = Rest(@, limit),
                               !.blocked = Len(s.sock) < limit]

call_fd(s, len) ==
    IF Listens THEN accept_ahead(s)
    ELSE IF s.lent.at # "none" THEN read_lent(s)
    ELSE IF Streams THEN read_ahead(s, len) ELSE s

complete_fd(s, len) ==
    IF s.blocked \/ has_result(s) \/ lent_done(s) THEN s ELSE call_fd(s, len)

leaves_to_tasks(s) ==
    /\ IF Datagrams THEN TRUE
       ELSE reads_bytes(s) /\ (s.want >= LARGE \/ s.starved \/ inq_wanted(s)) /\ s.held = <<>>
    /\ s.lent.at = "none" /\ ~s.eof /\ ~s.error

\* An edge the driver hands on.
serve(s) ==
    LET e == [s EXCEPT !.blocked = FALSE, !.edges = (@ + 1) % TICKS]
        done == complete_fd(e, e.want)
    IN IF e.user_fd THEN wake(e)
       ELSE IF e.waiters = {} /\ ~lent_waits(e) THEN e
       ELSE IF leaves_to_tasks(e) THEN wake([e EXCEPT !.want = 0])
       ELSE IF has_result(done) \/ done.starved THEN wake([done EXCEPT !.want = 0]) ELSE done

-----------------------------------------------------------------------------
\* The ring's operations: one out at a time.
armed_and_quiet(s) ==
    s.out /\ s.multi /\ ~s.multi_stopping /\ ~s.user_fd /\ ~(s.held = <<>> /\ lent_idle(s))

stop_multi(s) ==
    IF s.out /\ s.multi /\ ~s.multi_stopping
    THEN [s EXCEPT !.multi_stopping = TRUE, !.cancel = TRUE] ELSE s

issued(s, want) == [s EXCEPT !.out = TRUE, !.issue = want]

datagram_want(s) ==
    LET b == buffer(s)
    IN IF ~s.dry THEN issued([s EXCEPT !.multi = TRUE], "recvmulti")
       ELSE IF room THEN issued(s, "recv")
       ELSE IF ~s.readable THEN issued(b, "ready") ELSE b

\* The side turned to its caller's calls.
submit_polls(s) ==
    IF s.out
    THEN IF s.polling \/ s.stopping THEN s
         ELSE [s EXCEPT !.stopping = TRUE, !.multi_stopping = s.multi, !.cancel = TRUE]
    ELSE IF s.waiters = {} THEN s
    ELSE IF ~s.blocked THEN wake(s)
    ELSE IF ~s.here THEN [s EXCEPT !.kick = TRUE]
    ELSE issued([s EXCEPT !.polling = TRUE], "ready")

submit_ops(s0) ==
    LET s == IF s0.held = <<>> /\ lent_idle(s0) THEN stop_multi(s0) ELSE s0
        b == buffer(s)
    IN CASE s.user_fd -> submit_polls(s)
         [] s.out \/ has_result(s) \/ lent_done(s) -> s
         [] ~s.here -> [s EXCEPT !.kick = TRUE]
         [] s.poll_first /\ cast.kind = "unixdg" ->
                issued([s EXCEPT !.multi = TRUE, !.armed = TRUE], "readymulti")
         [] s.poll_first -> issued(s, "ready")
         [] Listens -> IF "stream" \in cast.calls THEN issued([s EXCEPT !.multi = TRUE], "recvmulti")
                       ELSE issued(s, "recv")
         [] lent_idle(s) -> issued([s EXCEPT !.lent.at = "out"], "recvlent")
         [] cast.kind = "udp" -> datagram_want(s)
         [] cast.kind = "unixdg" -> s
         [] ~s.dry /\ cast.group -> issued([s EXCEPT !.multi = TRUE], "recvmulti")
         [] room -> issued(s, "recv")
         [] ~b.readable -> issued(b, "ready")
         [] OTHER -> b

complete(s, len) ==
    IF Fd THEN complete_fd(s, len) ELSE IF armed_and_quiet(s) THEN s ELSE submit_ops(s)

submit_wanted(s) == IF s.waiters # {} \/ lent_waits(s) THEN complete(s, s.want) ELSE s

\* A lent buffer's task went away: what came goes to what the side holds.
abandon_lent(s) ==
    LET l == s.lent
        gone == [s EXCEPT !.lent = NotLent]
    IN CASE l.at = "none" -> s
         [] lent_out(s) -> [s EXCEPT !.lent.orphan = TRUE, !.lent.waker = FALSE]
         [] l.at = "idle" -> wake(gone)
         [] l.res = "eof" -> wake([gone EXCEPT !.eof = TRUE])
         [] l.res = "err" -> wake([gone EXCEPT !.error = TRUE])
         [] OTHER -> wake([gone EXCEPT !.held = @ \o l.got])

\* The tasks' own buffer back, with nothing in it.
reclaim(s) == IF lent_out(s) THEN abandon_lent(s) ELSE wake([s EXCEPT !.lent = NotLent])

not_ready(s, again) == IF again THEN [s EXCEPT !.poll_first = TRUE] ELSE s

forsaken(s) ==
    LET f == [s EXCEPT !.multi = FALSE, !.multi_stopping = FALSE, !.armed = FALSE]
        l == [f EXCEPT !.lent.at = "done", !.lent.res = "err"]
    IN IF lent_out(f) THEN (IF f.lent.orphan THEN abandon_lent(l) ELSE wake_lent(l))
       ELSE [f EXCEPT !.error = TRUE]

\* A receive into a buffer of the pool, or an accept, ended.
recv_done(s, d) ==
    CASE d.res \in {"undone", "again"} -> not_ready(s, d.res = "again")
      [] d.res = "eof" -> [s EXCEPT !.eof = TRUE]
      [] d.res = "err" -> [s EXCEPT !.error = TRUE]
      [] s.shut -> s
      [] OTHER -> [s EXCEPT !.held = @ \o d.got]

\* The receive into the lent buffer ended: one given back undone leaves its result as it was.
lent_ended(s, d) ==
    LET undone == d.res \in {"undone", "again"}
        back == [s EXCEPT !.lent.at = IF undone /\ @ = "out" THEN "idle" ELSE "done",
                          !.lent.got = d.got,
                          !.lent.res = IF undone THEN @ ELSE IF d.res \in {"eof", "err"} THEN d.res ELSE "ok"]
        n == not_ready(back, d.res = "again")
    IN IF ~lent_out(s) THEN s
       ELSE IF n.lent.orphan THEN abandon_lent(n)
       ELSE IF lent_done(n) THEN wake_lent(n) ELSE n

ready_ended(s, d) ==
    LET r == [s EXCEPT !.poll_first = FALSE, !.edges = (@ + 1) % TICKS,
                       !.error = @ \/ d.res = "err", !.readable = s.starved, !.task_polls = FALSE,
                       !.blocked = @ /\ ~s.user_fd]
    IN IF d.res \in {"undone", "again"} THEN s ELSE r

OpDoneStale(s0, d) ==
    LET s == [s0 EXCEPT !.out = FALSE, !.polling = FALSE, !.stopping = FALSE, !.multi = FALSE,
                        !.multi_stopping = FALSE, !.armed = FALSE]
    IN wake(IF d.want = "recvlent" THEN lent_ended(s, d)
            ELSE IF d.want \in {"ready", "readymulti"} THEN ready_ended(s, d) ELSE recv_done(s, d))

\* An operation's end; one of an older epoch is of a descriptor that is gone.
op_done(s0, d) ==
    LET s == [s0 EXCEPT !.out = FALSE, !.polling = FALSE, !.stopping = FALSE]
        multi == [s EXCEPT !.multi = FALSE, !.multi_stopping = FALSE, !.armed = FALSE]
        stale == d.epoch # s.epoch
        e == CASE d.want = "readymulti" ->
                      IF stale THEN multi ELSE [multi EXCEPT !.error = @ \/ d.res = "err"]
               [] d.want = "recvmulti" ->
                      IF stale THEN multi ELSE recv_done([multi EXCEPT !.dry = d.res = "dry"], d)
               [] stale -> s
               [] d.res = "forsaken" -> forsaken(s)
               [] d.want = "ready" -> ready_ended(s, d)
               [] d.want = "recv" -> recv_done([s EXCEPT !.dry = FALSE], d)
               [] OTHER -> lent_ended(s, d)
        w == [e EXCEPT !.want = 0]
    IN wake(IF has_result(w) /\ lent_idle(w) THEN wake_lent(w) ELSE w)

take_arrival(s, d) ==
    LET a == IF d.want = "readymulti" THEN [s EXCEPT !.poll_first = FALSE, !.edges = (@ + 1) % TICKS]
             ELSE [s EXCEPT !.held = @ \o d.got]
    IN IF d.epoch # s.epoch THEN s ELSE wake(wake_lent([a EXCEPT !.want = 0]))

-----------------------------------------------------------------------------
\* A task takes what the side holds: the units, the end or the error.
take_stream(s, n, peek) ==
    IF s.held # <<>>
    THEN Ready([s EXCEPT !.held = IF peek THEN @ ELSE Rest(@, One(n))], Firsts(s.held, One(n)), FALSE)
    ELSE IF s.eof THEN Ready([s EXCEPT !.eof = peek \/ s.shut], <<>>, TRUE)
    ELSE IF s.error THEN Ready([s EXCEPT !.error = FALSE], <<>>, FALSE)
    ELSE Pending(s)

Passed(p) == IF p.ready THEN [p EXCEPT !.s = pass_on(@)] ELSE p

quiet(s) ==
    s.held = <<>> /\ ~s.eof /\ ~s.error /\ IF Fd THEN s.blocked ELSE armed_and_quiet(s)

look_again(s) == IF s.starved /\ ~s.blocked /\ Fd THEN wake(s) ELSE s

\* read_any; accept and receive are the same but for the look again.
read_any(s, t, len, peek) ==
    LET p == Passed(take_stream(complete(s, len), len, peek))
    IN IF p.ready THEN p
       ELSE Pending(IF Streams THEN look_again(wait(p.s, t, len)) ELSE wait(p.s, t, len))

accept(s, t) == read_any(s, t, 0, FALSE)

read(s, t, len, peek) ==
    IF s.held # <<>> THEN Passed(take_stream(s, len, peek))
    ELSE IF Streams /\ quiet(s) THEN Pending(wait(s, t, len))
    ELSE read_any(s, t, len, peek)

\* The read made by the task itself: `ready' or, with `stop', it waits for
\* the ring's receive to be stopped; else the read is the normal path's.
read_direct(s, t, len, peek) ==
    LET none == [stop |-> FALSE, p |-> Pending(s)]
        c == IF Fd /\ ~peek THEN count_now(s, len) ELSE <<s, FALSE, FALSE>>
        d == [c[1] EXCEPT !.readable = FALSE]
        got == Firsts(s.sock, len)
        left == Len(s.sock) - Len(got)
        after == IF ~Fd \/ peek THEN d
                 ELSE IF c[3] THEN [keep_floor(d, left, len) EXCEPT
                                       !.blocked = left = 0 /\ Len(got) > 0 /\ ~s.unsure]
                 ELSE [lower_floor(d, Len(got)) EXCEPT !.blocked = drained(s, Len(got), len)]
    IN IF (IF Fd THEN s.blocked ELSE ~reads_itself(s, len, peek))
          \/ ~reads_bytes(s) \/ s.held # <<>> \/ s.lent.at # "none" \/ s.eof \/ s.error
       THEN none
       ELSE IF Fd /\ ~c[2] /\ ~reads_itself(c[1], len, peek) THEN [none EXCEPT !.p = Pending(c[1])]
       ELSE IF ~Fd /\ s.out
       THEN IF s.multi THEN [stop |-> TRUE, p |-> Pending(wait(stop_multi(s), t, len))] ELSE none
       ELSE [stop |-> FALSE,
             p |-> CASE Kernel(s) = "none" ->
                            Pending(IF Fd THEN forget_floor([d EXCEPT !.blocked = TRUE])
                                    ELSE [d EXCEPT !.poll_first = TRUE])
                     [] Kernel(s) = "err" -> Ready([d EXCEPT !.err = FALSE], <<>>, FALSE)
                     [] Kernel(s) = "end" -> Ready([after EXCEPT !.blocked = FALSE], <<>>, TRUE)
                     [] OTHER -> Ready([after EXCEPT !.sock = IF peek THEN @ ELSE Rest(@, len)], got, FALSE)]

read_step(s, t, len, peek) ==
    LET d == read_direct(s, t, len, peek)
    IN IF d.p.ready \/ d.stop THEN d.p ELSE read(d.p.s, t, len, peek)

LendsWakingNone(s, t, mine) ==
    LET lends == IF mine THEN [s EXCEPT !.lent.waker = FALSE]
                 ELSE [s EXCEPT !.lent = [NotLent EXCEPT !.at = "idle", !.of = t]]
        c == complete(lends, 0)
    IN IF ~lent_done(c) THEN Pending([c EXCEPT !.lent.waker = TRUE])
       ELSE Ready([c EXCEPT !.lent = NotLent], c.lent.got, c.lent.res = "eof")

\* The task's own buffer is lent, or lent already, and the driver reads into it.
lend(s, t, mine) ==
    LET lends == IF mine THEN [s EXCEPT !.lent.waker = FALSE]
                 ELSE [s EXCEPT !.lent = [NotLent EXCEPT !.at = "idle", !.of = t]]
        c == complete(lends, 0)
    IN IF ~lent_done(c) THEN Pending([c EXCEPT !.lent.waker = TRUE])
       ELSE Ready(wake([c EXCEPT !.lent = NotLent]), c.lent.got, c.lent.res = "eof")

\* A read into the task's own buffer; `mine': it is the one lent.
read_owned(s0, t, mine) ==
    LET back == mine /\ has_result(s0) /\ lent_idle(s0)
        s == IF back THEN reclaim(s0) ELSE s0
        p == Passed(take_stream(s, BUF, FALSE))
    IN IF (~mine \/ back) /\ p.ready THEN p
       ELSE IF ~mine /\ s.lent.at # "none" THEN Pending(wait(s, t, 0))
       ELSE lend(s, t, mine /\ ~back)

\* A datagram's: only a datagram that came has the buffer taken back.
read_owned_from(s0, t, mine) ==
    LET back == mine /\ s0.held # <<>> /\ lent_idle(s0)
        s == IF back THEN reclaim(s0) ELSE s0
        p == Passed(take_stream(s, BUF, FALSE))
    IN IF (~mine \/ back) /\ p.ready THEN p
       ELSE IF ~mine /\ s.lent.at # "none" THEN Pending(wait(s, t, 0))
       ELSE lend(s, t, mine /\ ~back)

-----------------------------------------------------------------------------
\* A datagram the task receives itself.
task_receives(s) == Fd \/ ((cast.kind = "unixdg" \/ s.starved) /\ ~s.user_fd)
waits_for_datagram(s) == IF Fd THEN s.blocked ELSE s.poll_first \/ (s.out /\ ~s.armed)
wait_for_datagram(s, t) ==
    complete(wait(IF Fd THEN s ELSE [s EXCEPT !.poll_first = TRUE, !.task_polls = TRUE], t, 0), 0)
came_empty(s) ==
    IF Fd THEN [s EXCEPT !.blocked = TRUE] ELSE [s EXCEPT !.readable = FALSE, !.poll_first = TRUE]

\* The word left for the receives made with no guard; None: they go through the side.
quick_word(s) ==
    IF \/ has_result(s) \/ s.lent.at # "none" \/ s.user_fd \/ s.blocked
       \/ ~Fd /\ ((s.out /\ ~s.armed) \/ s.poll_first \/ (cast.kind = "udp" /\ ~s.starved))
    THEN None ELSE s.edges

receive_now(s0, t, peek, seen) ==
    LET s == IF seen # None /\ seen = s0.edges THEN came_empty(s0) ELSE s0
        c == [s EXCEPT !.readable = FALSE]
    IN IF ~waits_for_datagram(s) /\ Kernel(s) = "units"
       THEN Ready([c EXCEPT !.sock = IF peek THEN @ ELSE Tail(@)], <<s.sock[1]>>, FALSE)
       ELSE IF ~waits_for_datagram(s) /\ Kernel(s) = "err"
       THEN Ready([c EXCEPT !.err = FALSE], <<>>, FALSE)
       ELSE Pending(wait_for_datagram(IF waits_for_datagram(s) THEN s ELSE came_empty(c), t))

receive(s, t, peek, seen) ==
    IF task_receives(s) /\ ~has_result(s) /\ s.lent.at = "none"
    THEN receive_now(s, t, peek, seen)
    ELSE read_any(s, t, 1, peek)

datagram_ready(s, t) ==
    LET c == [s EXCEPT !.readable = FALSE]
    IN IF has_result(s) \/ lent_done(s) THEN Ready(s, <<>>, FALSE)
       ELSE IF ~waits_for_datagram(s) /\ Kernel(s) = "units" THEN Ready(c, <<>>, FALSE)
       ELSE IF ~waits_for_datagram(s) /\ Kernel(s) = "err"
       THEN Ready([c EXCEPT !.error = TRUE, !.err = FALSE], <<>>, FALSE)
       ELSE Pending(wait_for_datagram(IF Fd THEN [s EXCEPT !.blocked = TRUE]
                                      ELSE IF waits_for_datagram(s) THEN s ELSE c, t))

\* A starved side's look at the socket, on a poller.
starved_look(s) ==
    IF ~Fd \/ ~s.starved \/ s.blocked \/ ~Streams THEN Pending(s)
    ELSE CASE Kernel(s) = "none" -> Pending([s EXCEPT !.blocked = TRUE])
           [] Kernel(s) = "end" -> Ready([s EXCEPT !.eof = TRUE], <<>>, FALSE)
           [] Kernel(s) = "err" -> Ready([s EXCEPT !.error = TRUE, !.err = FALSE], <<>>, FALSE)
           [] OTHER -> Ready(s, <<>>, FALSE)

ready(s, t) ==
    LET len == IF s.want > 1 THEN s.want ELSE 1
        c == complete(s, len)
        look == starved_look(c)
    IN IF Datagrams /\ task_receives(s) THEN datagram_ready(s, t)
       ELSE IF ~Fd /\ s.starved /\ s.readable THEN Ready(s, <<>>, FALSE)
       ELSE IF has_result(c) THEN Ready(c, <<>>, FALSE)
       ELSE IF look.ready THEN look
       ELSE Pending(wait(look.s, t, len))

\* The caller's own calls: it may be ready while no edge is awaited.
fd_ready(s0, t) ==
    LET s == [s0 EXCEPT !.user_fd = TRUE]
        w == [s EXCEPT !.waiters = @ \union {t}]
    IN IF s0.error THEN Ready([s0 EXCEPT !.error = FALSE], <<>>, FALSE)
       ELSE IF s0.held # <<>> \/ s0.lent.at # "none" THEN Ready(s0, <<>>, FALSE)
       ELSE IF ~s.blocked /\ ~(s.out /\ ~s.polling) THEN Ready(s, <<>>, FALSE)
       ELSE Pending(IF Fd THEN w ELSE IF armed_and_quiet(w) THEN w ELSE submit_ops(w))

fd_clear(s, seen) == IF s.edges = seen THEN [s EXCEPT !.blocked = TRUE] ELSE s

drive(s) == [s EXCEPT !.user_fd = FALSE]

unstarve(s) == IF s.starved THEN wake([s EXCEPT !.starved = FALSE, !.readable = FALSE]) ELSE s

wake_all(s) == wake(wake_lent([s EXCEPT !.starved = FALSE]))

fail(s) ==
    LET l == IF lent_waits(s)
             THEN wake_lent([s EXCEPT !.lent.at = IF @ = "out" THEN "failed" ELSE "done", !.lent.res = "err"])
             ELSE s
    IN wake([l EXCEPT !.error = TRUE])

drop_ahead(s) == [s EXCEPT !.held = <<>>, !.shut = TRUE, !.eof = TRUE]

discard(s) ==
    [s EXCEPT !.held = <<>>, !.lent = NotLent, !.eof = FALSE, !.shut = FALSE, !.error = FALSE,
              !.blocked = FALSE, !.left = 0, !.poll_first = FALSE, !.task_polls = FALSE,
              !.readable = FALSE]

\* LeftClear: the newest tick left; the counts wrap.
newer(a, b) == (a - b) % TICKS \in 1..(TICKS \div 2 - 1)
leave(seen) == IF clear = None THEN seen ELSE IF newer(seen, clear) THEN seen ELSE clear

-----------------------------------------------------------------------------
\* What a step left the ring, and what it answered its task.
settle(s) ==
    /\ st' = [s EXCEPT !.issue = "none", !.cancel = FALSE, !.here = TRUE]
    /\ op' = IF s.issue # "none" THEN [want |-> s.issue, epoch |-> s.epoch, cancel |-> FALSE, news |-> TRUE]
             ELSE [op EXCEPT !.cancel = @ \/ s.cancel]

tasksv == <<call, phase, tick>>
ghost == <<taken, sent, base, ended>>
In(t, where) == phase' = [phase EXCEPT ![t] = where]

answers(t, p) ==
    /\ In(t, IF ~p.ready THEN "pend" ELSE IF call[t] = "fd" THEN "fdcall" ELSE "idle")
    /\ taken' = IF call[t] = "peek" THEN taken ELSE taken \o p.got
    /\ ended' = (ended \/ (p.end /\ ~p.s.shut /\ Len(taken) < sent - base))

step(s, t, seen) ==
    LET mine == s.lent.of = t /\ s.lent.at # "none" /\ ~s.lent.orphan
    IN CASE call[t] = "ready" -> ready(s, t)
         [] call[t] = "fd" -> fd_ready(s, t)
         [] call[t] = "owned" /\ Datagrams -> read_owned_from(s, t, mine)
         [] call[t] = "owned" -> read_owned(s, t, mine)
         [] Datagrams -> receive(s, t, call[t] = "peek", seen)
         [] Listens -> accept(s, t)
         [] OTHER -> read_step(s, t, IF call[t] = "long" THEN LARGE ELSE 1, call[t] = "peek")

\* A poll that takes the side, on the ring's thread or on another.
poll_read_side(t, seen) ==
    \E here \in IF Fd THEN {TRUE} ELSE BOOLEAN:
        LET s == [st EXCEPT !.woken = @ \ {t}, !.here = here]
            p == step(IF call[t] = "fd" THEN s ELSE drive(s), t, seen)
        IN /\ clear = None /\ settle(p.s) /\ answers(t, p)
           /\ tick' = [tick EXCEPT ![t] = IF call[t] = "fd" THEN p.s.edges ELSE 0]

begin(t) ==
    /\ phase[t] = "idle" /\ bound.calls < MaxCalls
    /\ \E c \in cast.calls \ {"stream"}: call' = [call EXCEPT ![t] = c]
    /\ In(t, "poll") /\ bound' = [bound EXCEPT !.calls = @ + 1]
    /\ UNCHANGED <<cast, st, room, edge, op, cq, tick, clear, ghost>>

Quick(t) == Datagrams /\ call[t] \in {"read", "peek"} /\ quick_word(st) # None

poll(t) ==
    /\ phase[t] = "poll" \/ (phase[t] = "pend" /\ t \in st.woken)
    /\ ~Quick(t) /\ poll_read_side(t, None)
    /\ UNCHANGED <<cast, room, edge, cq, call, clear, sent, base, bound>>

\* poll_receive_as: a receive made with no guard, then one with the word it saw.
receive_looks(t) ==
    /\ phase[t] = "poll" \/ (phase[t] = "pend" /\ t \in st.woken)
    /\ Quick(t) /\ In(t, "quick") /\ tick' = [tick EXCEPT ![t] = quick_word(st)]
    /\ st' = [st EXCEPT !.woken = @ \ {t}]
    /\ UNCHANGED <<cast, room, edge, op, cq, call, clear, ghost, bound>>

receive_quick(t) ==
    /\ phase[t] = "quick"
    /\ LET p == CASE Kernel(st) = "units" ->
                         Ready([st EXCEPT !.sock = IF call[t] = "peek" THEN @ ELSE Tail(@)], <<st.sock[1]>>, FALSE)
                  [] Kernel(st) = "err" -> Ready([st EXCEPT !.err = FALSE], <<>>, FALSE)
                  [] OTHER -> Pending(st)
       IN /\ st' = p.s
          /\ IF p.ready THEN answers(t, p) /\ tick' = [tick EXCEPT ![t] = 0]
             ELSE In(t, "held") /\ UNCHANGED <<taken, ended, tick>>
    /\ UNCHANGED <<cast, room, edge, op, cq, call, clear, sent, base, bound>>

receive_held(t) ==
    /\ phase[t] = "held" /\ poll_read_side(t, tick[t])
    /\ UNCHANGED <<cast, room, edge, cq, call, clear, sent, base, bound>>

\* The call's future is dropped.
drops(t) ==
    /\ phase[t] = "pend" /\ clear = None /\ In(t, "idle")
    /\ settle(IF st.lent.of = t /\ st.lent.at # "none" /\ ~st.lent.orphan
              THEN abandon_lent([st EXCEPT !.woken = @ \ {t}]) ELSE [st EXCEPT !.woken = @ \ {t}])
    /\ UNCHANGED <<cast, room, edge, cq, call, tick, clear, ghost, bound>>

\* async_io: the caller's own read, and the clear when it would block.
calls_itself(t) ==
    /\ phase[t] = "fdcall"
    /\ st' = [st EXCEPT !.sock = Rest(@, 1), !.err = FALSE]
    /\ taken' = taken \o Firsts(st.sock, 1)
    /\ In(t, IF Kernel(st) = "none" THEN "fdclear" ELSE "idle")
    /\ UNCHANGED <<cast, room, edge, op, cq, call, tick, clear, sent, base, ended, bound>>

fd_clear_read(t) ==
    /\ phase[t] = "fdclear" /\ In(t, "poll")
    /\ \/ clear = None /\ st' = fd_clear(st, tick[t]) /\ UNCHANGED clear
       \/ clear' = leave(tick[t]) /\ UNCHANGED st
    /\ UNCHANGED <<cast, room, edge, op, cq, call, tick, ghost, bound>>

clear_taken ==
    /\ clear # None /\ st' = fd_clear(st, clear) /\ clear' = None
    /\ UNCHANGED <<cast, room, edge, op, cq, tasksv, ghost, bound>>

-----------------------------------------------------------------------------
\* The kernel: what comes, the events a poller reports, the ring's operation.
Reported(e) == edge' = IF ~Fd THEN "no" ELSE IF edge = "hup" THEN edge ELSE e
News == op' = [op EXCEPT !.news = TRUE]

arrive ==
    /\ sent < MaxUnits /\ ~st.fin /\ sent' = sent + 1
    /\ st' = [st EXCEPT !.sock = Append(@, sent + 1)] /\ Reported("in") /\ News
    /\ UNCHANGED <<cast, room, cq, tasksv, clear, taken, base, ended, bound>>

finish ==
    /\ Streams /\ ~st.fin /\ st' = [st EXCEPT !.fin = TRUE] /\ Reported("hup") /\ News
    /\ UNCHANGED <<cast, room, cq, tasksv, clear, ghost, bound>>

fault ==
    /\ cast.errs /\ bound.events < MaxEvents /\ bound' = [bound EXCEPT !.events = @ + 1]
    /\ st' = [st EXCEPT !.err = TRUE] /\ Reported("hup") /\ News
    /\ UNCHANGED <<cast, room, cq, tasksv, clear, ghost>>

driver_edge ==
    /\ edge # "no" /\ edge' = "no"
    /\ settle(serve(IF edge = "hup" THEN [st EXCEPT !.unsure = TRUE] ELSE st))
    /\ UNCHANGED <<cast, room, cq, tasksv, clear, ghost, bound>>

Posts(end, res, got) ==
    /\ cq' = Append(cq, [want |-> op.want, epoch |-> op.epoch, end |-> end, res |-> res, got |-> got])
    /\ op' = IF end THEN NoOp ELSE [op EXCEPT !.news = FALSE]
    /\ st' = [st EXCEPT !.sock = Rest(@, Len(got)), !.err = @ /\ res # "err"]

Result(s) == CASE Kernel(s) = "err" -> "err" [] Kernel(s) = "end" -> "eof" [] OTHER -> "ok"

\* What the operation's own descriptor has for it.
Has == IF op.epoch = st.epoch THEN Kernel(st) ELSE "none"

Ends ==
    \/ op.cancel /\ Posts(TRUE, "undone", <<>>)
    \/ /\ cast.fails /\ op.want \in {"recv", "recvlent", "ready"} /\ Posts(TRUE, "forsaken", <<>>)
    \/ /\ cast.again /\ Has = "none" /\ op.want \in {"recv", "recvlent", "recvmulti"}
       /\ Posts(TRUE, "again", <<>>)
    \/ /\ Has # "none" /\ op.want \in {"recv", "recvlent"}
       /\ Posts(TRUE, Result(st), IF Has = "units" THEN Firsts(st.sock, One(BUF)) ELSE <<>>)
    \/ Has # "none" /\ op.want = "ready" /\ Posts(TRUE, "ok", <<>>)
    \/ Has = "units" /\ op.want = "recvmulti" /\ Posts(FALSE, "ok", Firsts(st.sock, 1))
    \/ Has \in {"end", "err"} /\ op.want = "recvmulti" /\ Posts(TRUE, Result(st), <<>>)
    \/ Has = "units" /\ op.want = "recvmulti" /\ ~Listens /\ Posts(TRUE, "dry", <<>>)
    \/ Has # "none" /\ op.news /\ op.want = "readymulti" /\ Posts(FALSE, "ok", <<>>)

kernel_op ==
    /\ op.want # "none" /\ Ends /\ Len(cq) < MaxUnits
    /\ UNCHANGED <<cast, room, edge, tasksv, clear, ghost, bound>>

\* The driver hands a completion over, then asks for what is still wanted.
reap ==
    /\ cq # <<>> /\ cq' = Tail(cq)
    /\ settle(IF Head(cq).end THEN submit_wanted(op_done(st, Head(cq))) ELSE take_arrival(st, Head(cq)))
    /\ UNCHANGED <<cast, room, edge, tasksv, clear, ghost, bound>>

kicked ==
    /\ st.kick /\ settle(submit_wanted([st EXCEPT !.kick = FALSE]))
    /\ UNCHANGED <<cast, room, edge, cq, tasksv, clear, ghost, bound>>

-----------------------------------------------------------------------------
pool_empties ==
    /\ room /\ bound.events < MaxEvents /\ room' = FALSE
    /\ bound' = [bound EXCEPT !.events = @ + 1]
    /\ UNCHANGED <<cast, st, edge, op, cq, tasksv, clear, ghost>>

pool_fills ==
    /\ ~room /\ room' = TRUE /\ st' = unstarve(st)
    /\ UNCHANGED <<cast, edge, op, cq, tasksv, clear, ghost, bound>>

\* The source leaves its shard and is watched again by another.
moved ==
    /\ bound.events < MaxEvents /\ bound' = [bound EXCEPT !.events = @ + 1]
    /\ st' = wake_all(st) /\ op' = [op EXCEPT !.cancel = op.want # "none"]
    /\ edge' = IF ~Fd \/ Kernel(st) = "none" THEN edge ELSE IF Kernel(st) = "units" /\ ~st.fin THEN "in" ELSE "hup"
    /\ UNCHANGED <<cast, room, cq, tasksv, clear, ghost>>

\* It leaves its shard, its operation out to be cancelled, and the other shard cannot watch it.
failed ==
    /\ cast.fails /\ bound.events < MaxEvents
    /\ bound' = [bound EXCEPT !.events = @ + 1, !.out = @ \/ st.lent.at = "out"]
    /\ st' = fail(wake_all(st)) /\ op' = [op EXCEPT !.cancel = op.want # "none"]
    /\ UNCHANGED <<cast, room, edge, cq, tasksv, clear, ghost>>

\* A shut of the reading half where the kernel drops its queue: the call,
\* then poll_drop_ahead.
shut_read ==
    /\ cast.shuts /\ bound.shut = 0 /\ bound' = [bound EXCEPT !.shut = 1]
    /\ st' = [st EXCEPT !.sock = <<>>, !.fin = TRUE] /\ Reported("hup")
    /\ UNCHANGED <<cast, room, op, cq, tasksv, clear, ghost>>

poll_drop_ahead ==
    /\ bound.shut = 1 /\ clear = None /\ bound' = [bound EXCEPT !.shut = 2]
    /\ st' = drop_ahead(drive(st))
    /\ UNCHANGED <<cast, room, edge, op, cq, tasksv, clear, ghost>>

\* Another descriptor: the epoch moves on, and the side discards what it held.
revive ==
    /\ \A t \in Tasks: phase[t] = "idle"
    /\ bound.events < MaxEvents /\ bound.shut = 0 /\ bound' = [bound EXCEPT !.events = @ + 1]
    /\ st' = discard([st EXCEPT !.epoch = @ + 1, !.waiters = {}, !.starved = FALSE,
                                !.sock = <<>>, !.fin = FALSE, !.err = FALSE])
    /\ op' = [op EXCEPT !.cancel = op.want # "none"] /\ edge' = "no" /\ clear' = None
    /\ taken' = <<>> /\ base' = sent /\ ended' = FALSE
    /\ UNCHANGED <<cast, room, cq, tasksv, sent>>

Next ==
    \/ \E t \in Tasks: \/ begin(t) \/ poll(t) \/ receive_looks(t) \/ receive_quick(t) \/ receive_held(t)
                        \/ drops(t) \/ calls_itself(t) \/ fd_clear_read(t)
    \/ clear_taken \/ arrive \/ finish \/ fault \/ driver_edge \/ kernel_op \/ reap \/ kicked
    \/ pool_empties \/ pool_fills \/ moved \/ failed \/ shut_read \/ poll_drop_ahead \/ revive

Spec == Init /\ [][Next]_vars

-----------------------------------------------------------------------------
\* The units the kernel handed over and no task has yet.
InFlight == FlattenSeq([i \in DOMAIN cq |-> IF cq[i].epoch = st.epoch THEN cq[i].got ELSE <<>>])
Units == taken \o st.held \o st.lent.got \o InFlight \o st.sock

Ours == \A i \in DOMAIN Units: Units[i] > base
Once == \A i \in DOMAIN Units: \A j \in DOMAIN Units: i < j => IF Streams THEN Units[i] < Units[j] ELSE Units[i] # Units[j]

(* read.rs promises that nothing the kernel handed over is lost, and that a
   lent buffer whose task went away hands what was read into it on, ahead of
   anything read after it: a stream's bytes are answered in order, once, with
   the end after the last; each connection and each datagram once. *)
NothingLost ==
    bound.shut = 0 => /\ ~ended
                      /\ Ours /\ Once /\ Len(Units) = sent - base

(* So it is, but of a source whose registration failed with a task's buffer out
   on the ring: fail ends the buffer's read with the error, the task takes the
   error, and what the receive then brings finds no buffer lent (op_done).  Even
   then no unit comes twice or out of order, and that one receive's at most are
   missing. *)
UnitsKept ==
    IF ~bound.out THEN NothingLost
    ELSE Ours /\ Once /\ Len(Units) + One(BUF) >= sent - base

\* The kernel's operation can end.
CanEnd == /\ op.want # "none"
          /\ op.cancel \/ (Has # "none" /\ (op.want = "readymulti" => op.news))

\* No event, completion or wake is on its way.
Still ==
    /\ edge = "no" /\ cq = <<>> /\ ~CanEnd /\ ~st.kick /\ clear = None
    /\ \A t \in Tasks: phase[t] = "idle" \/ (phase[t] = "pend" /\ t \notin st.woken)
SleepsPast(t) == phase[t] = "pend" /\ (Kernel(st) # "none" \/ has_result(st) \/ lent_done(st))

(* Once nothing is on its way, no task waits on the side while the kernel or
   the side has something for it: the edge, the armed operation, a buffer of
   the pool that comes back or the task before it in line woke it. *)
NobodySleepsPast == Still /\ (room \/ ~st.starved) => \A t \in Tasks: ~SleepsPast(t)

(* direct.rs: a reader never waits on buffers that receives or reads ahead of
   other connections hold, so a side the pool has no buffer for has its tasks
   read themselves. *)

=============================================================================
