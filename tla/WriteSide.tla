----------------------------- MODULE WriteSide -----------------------------
(***************************************************************************)
(* The write side of a source, src/io/source/write.rs and write/*.rs, with *)
(* quick.rs and the calls of send_file that write outside it: what was     *)
(* written behind, a task's own buffer lent to it, its one operation out   *)
(* on a ring, and the tasks that wait.                                     *)
(*                                                                         *)
(* `st' is the WriteState with the descriptor's send queue beside it, and  *)
(* each operator is the function of its name from state to state.  A unit  *)
(* is <<write, index>>: a write takes its number as the side accepts its   *)
(* first bytes.  The port of Windows is module Port; the zero-copy sends   *)
(* are left out here (RingOps has what the ring does with them).           *)
(***************************************************************************)
EXTENDS Integers, Sequences, FiniteSets, SequencesExt

CONSTANTS Tasks, None,
          Casts,        \* [via, kind, errs, fails, forsakes,
                        \* again, calls, far]
          BUF,          \* the units a buffer of the pool holds
          LARGE,        \* BEHIND_MIN
          QUEUE,        \* the units the socket's send queue holds
          MaxCalls,
          MaxDrains,    \* bound: the peer's reads
          MaxEvents     \* bound: of the pool, the source and its descriptor

VARIABLES cast, st,
          room,         \* the pool has a buffer
          edge,         \* a writable edge the driver has not looked at
          serving,      \* ... and one it looked at and hands to the side
          op, cq,       \* the kernel's operation, and the completions not seen
          call, phase, tick,
          biased,       \* only the owner's thread ever held the side
          far,          \* the tasks polled on other threads
          left,         \* what the last holder published: [idle, sends, holds]
          jobs,         \* the calls outside the side: [id, of, word, done]
          told,         \* a call answered why the write-behind stopped
          early,        \* a flush answered before all written went out
          bound

vars == <<cast, st, room, edge, serving, op, cq, call, phase, tick, biased, far, left, jobs,
          told, early, bound>>

Streams == cast.kind = "tcp"
Datagrams == cast.kind = "udp"
Fd == cast.via = "fd"
NoOp == [want |-> "none", units |-> <<>>, epoch |-> 0, cancel |-> FALSE]
NotLent == [at |-> "none", id |-> 0, of |-> None, buf |-> <<>>, sent |-> FALSE, res |-> "ok",
            waker |-> FALSE, orphan |-> FALSE, outside |-> FALSE]

WriteState ==
    [wire |-> <<>>, free |-> QUEUE, full |-> FALSE, err |-> FALSE, dialling |-> "no", log |-> <<>>,
     blocked |-> FALSE, direct |-> FALSE, waiters |-> {}, starved |-> FALSE, behind |-> <<>>,
     lent |-> NotLent, failed |-> FALSE, error |-> FALSE,
     connect_started |-> FALSE, connecting |-> FALSE, connected |-> "none", epoch |-> 0,
     outside |-> 0, edges |-> 0, user_fd |-> FALSE, out |-> FALSE, poll_first |-> FALSE,
     polling |-> FALSE, again |-> <<>>, dial |-> FALSE, cut |-> {},
     here |-> TRUE, kick |-> FALSE, woken |-> {}, cancel |-> FALSE, issue |-> "none", units |-> <<>>]

Init ==
    /\ cast \in Casts /\ st = WriteState /\ room = TRUE /\ edge = FALSE /\ serving = FALSE
    /\ op = NoOp /\ cq = <<>> /\ biased = TRUE /\ far = cast.far
    /\ call = [t \in Tasks |-> "none"] /\ phase = [t \in Tasks |-> "idle"] /\ tick = [t \in Tasks |-> 0]
    /\ left = [idle |-> FALSE, sends |-> FALSE, holds |-> ~Datagrams]
    /\ jobs = {} /\ told = FALSE /\ early = FALSE
    /\ bound = [calls |-> 0, drains |-> 0, events |-> 0]

Fewer(a, b) == IF a < b THEN a ELSE b
Firsts(q, n) == SubSeq(q, 1, Fewer(n, Len(q)))
Rest(q, n) == SubSeq(q, Fewer(n, Len(q)) + 1, Len(q))

Pending(s) == [s |-> s, ready |-> FALSE, res |-> "none"]
Ready(s, res) == [s |-> s, ready |-> TRUE, res |-> res]

wake(s) == [s EXCEPT !.woken = @ \union s.waiters, !.waiters = {}]
wait(s, t) == [s EXCEPT !.waiters = @ \union {t}]
wake_lent(s) ==
    IF s.lent.waker THEN [s EXCEPT !.woken = @ \union {s.lent.of}, !.lent.waker = FALSE] ELSE s

\* The next write's first n units, and the side that accepted them.
Fresh(s, n) == [i \in 1..n |-> <<Len(s.log) + 1, i>>]
Accepts(s, n, how) == [s EXCEPT !.log = Append(@, [n |-> n, how |-> how])]

\* The kernel takes what it has room for, and notes that it refused some.
Took(s, units) == IF s.err THEN 0 ELSE Fewer(s.free, Len(units))
Sent(s, units) ==
    [s EXCEPT !.wire = @ \o Firsts(units, Took(s, units)), !.free = @ - Took(s, units),
              !.full = @ \/ (~s.err /\ s.free < Len(units))]
Answer(s, units) == IF s.err THEN "err" ELSE IF s.free = 0 THEN "full" ELSE "ok"

-----------------------------------------------------------------------------
\* Where the lent buffer is: with the side ("idle"), with the ring or a call outside ("out"), ended
\* ("done"), or ended with an error while the ring still has it ("failed").
lent_waits(s) == s.lent.at \in {"idle", "out"}
lent_out(s) == s.lent.at \in {"out", "failed"}
lent_done(s) == s.lent.at \in {"done", "failed"}
\* history, `cut': the lent writes ended with an error as their source or its shard went
Cut(s) == [s EXCEPT !.cut = @ \union {s.lent.id}, !.lent.res = "err"]
ring_holds(s) == s.out \/ s.again # <<>> \/ s.dial
ring_unsent(s) == (s.out /\ ~s.polling) \/ s.again # <<>> \/ s.dial
has_unsent(s) == ~s.failed /\ (s.behind # <<>> \/ lent_waits(s) \/ ring_unsent(s))

holds_nothing(s) ==
    /\ ~(Fd /\ s.blocked) /\ ~s.failed /\ ~s.error /\ ~s.connecting
    /\ s.behind = <<>> /\ s.lent.at = "none" /\ ~ring_holds(s)
sends_now(s) == ~s.user_fd /\ holds_nothing(s)
idle(s) == ~s.user_fd /\ ~s.blocked /\ ~s.connecting /\ s.behind = <<>> /\ ~lent_waits(s)
quick_holds(s) ==
    \/ s.blocked \/ s.waiters # {} \/ s.error \/ lent_waits(s)
    \/ s.behind # <<>> \/ s.connecting \/ s.user_fd \/ ring_holds(s) \/ s.poll_first

\* What a holder leaves as it lets go.
published(s) ==
    [idle |-> Fd /\ (s.direct \/ idle(s)), sends |-> s.direct \/ sends_now(s),
     holds |-> ~Datagrams \/ quick_holds(s)]

writes_bytes(s) == Streams \/ (s.starved /\ cast.kind = "pipe")

\* A write straight from the task's buffer: [s, res], res "not" or "full" if it is the side's.
write_direct_as(s, n) ==
    LET u == Fresh(s, n)
    IN CASE ~writes_bytes(s) \/ ~holds_nothing(s) -> [s |-> s, res |-> "not"]
         [] Answer(s, u) = "full" -> [s |-> [Sent(s, u) EXCEPT !.blocked = @ \/ Fd], res |-> "full"]
         [] Answer(s, u) = "err" -> [s |-> [s EXCEPT !.direct = TRUE], res |-> "err"]
         [] OTHER -> [s |-> [Accepts(Sent(s, u), Took(s, u), "write") EXCEPT !.direct = TRUE], res |-> "ok"]

found_full(s) == [s EXCEPT !.blocked = @ \/ Fd]

\* A lent buffer's write ended: the error of one nobody waits for is the write-behind's.
lent_finished(s) ==
    LET w == wake_lent(s)
    IN IF ~w.lent.orphan THEN w
       ELSE [w EXCEPT !.lent = NotLent, !.failed = @ \/ w.lent.res = "err"]

push_lent(s) ==
    LET u == s.lent.buf
        k == Took(s, u)
        done(w, res) == lent_finished([w EXCEPT !.lent.at = "done", !.lent.res = res])
        went == [Sent(s, u) EXCEPT !.lent.buf = Rest(u, k), !.lent.sent = @ \/ k > 0]
    IN IF s.failed \/ s.err THEN <<done(s, "err"), TRUE>>
       ELSE IF went.lent.buf = <<>> THEN <<done(went, "ok"), TRUE>>
       ELSE <<[went EXCEPT !.blocked = TRUE], k > 0>>

\* The driver's calls on a poller's descriptor: <<state, whether anything changed>>.
push_fd(s) ==
    LET c == IF s.connecting
             THEN [s EXCEPT !.connecting = FALSE,
                            !.connected = IF s.dialling = "refused" THEN "err" ELSE "ok"] ELSE s
        k == Took(c, c.behind)
        b == IF c.behind = <<>> THEN c
             ELSE IF c.err THEN [c EXCEPT !.failed = TRUE, !.behind = <<>>]
             ELSE [Sent(c, c.behind) EXCEPT !.behind = Rest(@, k), !.blocked = k < Len(c.behind)]
        moved == s.connecting \/ (c.behind # <<>> /\ (c.err \/ k > 0))
        l == push_lent(b)
    IN IF s.blocked THEN <<s, FALSE>>
       ELSE IF b.behind = <<>> /\ b.lent.at = "idle" THEN <<l[1], moved \/ l[2]>> ELSE <<b, moved>>

serve_held(s) ==
    LET e == [s EXCEPT !.blocked = FALSE, !.edges = @ + 1]
        p == push_fd(e)
    IN IF e.user_fd THEN wake(e) ELSE IF p[2] \/ s.blocked THEN wake(p[1]) ELSE p[1]

serve(s) == IF idle(s) THEN [s EXCEPT !.edges = @ + 1] ELSE serve_held(s)

-----------------------------------------------------------------------------
\* The ring's operations: one out at a time, in the order of the poller's calls.
op_work(s) == s.dial \/ s.again # <<>> \/ s.behind # <<>> \/ s.lent.at = "idle"

issued(s, want, units) == [s EXCEPT !.out = TRUE, !.issue = want, !.units = units]

submit_ops(s0) ==
    LET s == IF s0.failed /\ s0.lent.at = "idle" /\ ~s0.out /\ ~s0.user_fd
             THEN lent_finished([s0 EXCEPT !.lent.at = "done", !.lent.res = "err"]) ELSE s0
        polls == issued([s EXCEPT !.polling = TRUE], "ready", <<>>)
    IN CASE s.out -> s
         [] s.user_fd /\ ~(s.blocked /\ s.waiters # {}) -> s
         [] ~s.user_fd /\ ~s.poll_first /\ ~op_work(s) -> s
         [] ~s.here -> [s EXCEPT !.kick = TRUE]
         [] s.user_fd \/ s.poll_first -> polls
         [] s.dial -> issued([s EXCEPT !.dial = FALSE], "connect", <<>>)
         [] s.again # <<>> -> issued([s EXCEPT !.again = <<>>], "send", s.again)
         [] s.behind # <<>> -> issued([s EXCEPT !.behind = <<>>], "send", s.behind)
         [] OTHER -> issued([s EXCEPT !.lent.at = "out", !.lent.buf = <<>>], "sendlent", s.lent.buf)

push(s) == IF Fd THEN push_fd(s)[1] ELSE submit_ops(s)

connected(s, res) == [s EXCEPT !.connecting = FALSE, !.connected = res]
not_ready(s, again) == [s EXCEPT !.poll_first = @ \/ again]

\* The lent buffer's operation completed: one none of which went, its task gone, is withdrawn.
lent_back(s, d) ==
    LET whole == d.res = "ok" /\ d.rest = <<>>
        l == [s EXCEPT !.lent.at = IF d.res = "err" \/ whole \/ @ = "failed" THEN "done" ELSE "idle",
                       !.lent.buf = d.rest,
                       !.lent.res = IF d.res = "err" THEN "err" ELSE IF whole THEN "ok" ELSE @,
                       !.lent.sent = @ \/ d.res = "ok"]
        n == not_ready(l, d.res = "again")
    IN IF ~lent_out(s) THEN s
       ELSE IF n.lent.at = "done" THEN lent_finished(n)
       ELSE IF n.lent.orphan /\ ~n.lent.sent THEN [n EXCEPT !.lent = NotLent] ELSE n

forsaken(s) ==
    IF s.connecting THEN connected(s, "err")
    ELSE IF lent_out(s) THEN lent_finished([Cut(s) EXCEPT !.lent.at = "done"])
    ELSE [s EXCEPT !.failed = TRUE, !.behind = <<>>]

ready_ended(s) ==
    LET r == [s EXCEPT !.poll_first = FALSE, !.blocked = @ /\ ~s.user_fd,
                       !.edges = IF s.user_fd THEN @ + 1 ELSE @]
    IN IF r.connecting THEN connected(r, IF s.dialling = "refused" THEN "err" ELSE "ok") ELSE r

send_ended(s, d) ==
    CASE d.res \in {"undone", "again"} -> [not_ready(s, d.res = "again") EXCEPT !.again = d.rest]
      [] d.res = "ok" -> [s EXCEPT !.again = d.rest]
      [] Datagrams -> [s EXCEPT !.error = TRUE]
      [] OTHER -> [s EXCEPT !.failed = TRUE, !.behind = <<>>]

op_done(s0, d) ==
    LET s == [s0 EXCEPT !.out = FALSE, !.polling = FALSE]
    IN wake(CASE d.epoch # s.epoch -> s
              [] d.res = "forsaken" -> forsaken(s)
              [] d.want = "send" -> send_ended(s, d)
              [] d.want = "sendlent" -> lent_back(s, d)
              [] d.want = "connect" -> IF d.res = "undone" THEN [s EXCEPT !.dial = TRUE]
                                       ELSE IF d.res = "again" THEN not_ready(s, TRUE)
                                       ELSE connected(s, d.res)
              [] d.res = "ok" -> ready_ended(s)
              [] OTHER -> s)

-----------------------------------------------------------------------------
\* A task's calls.
wait_for_room(s, t) ==
    LET w == wait([s EXCEPT !.poll_first = @ \/ (~Fd /\ s.behind = <<>> /\ ~ring_holds(s))], t)
        p == push_fd(w)
    IN Pending(IF ~Fd THEN submit_ops(w) ELSE IF p[2] THEN wake(p[1]) ELSE p[1])

\* No room behind: the write waits, or goes straight while the pool has nothing for it.
no_room(s, t, n) ==
    LET b == IF s.behind = <<>> /\ ~room THEN [s EXCEPT !.starved = TRUE] ELSE s
        d == write_direct_as(b, n)
        p == push([b EXCEPT !.poll_first = TRUE])
    IN IF b.behind # <<>> THEN Pending(wait(b, t))
       ELSE IF ~Fd THEN Pending(wait(p, t))
       ELSE IF d.res \in {"ok", "err"} THEN Ready(d.s, d.res) ELSE Pending(wait(d.s, t))

write(s, t, n) ==
    LET has == IF s.behind # <<>> THEN BUF - Len(s.behind) ELSE IF room THEN BUF ELSE 0
        k == Fewer(n, has)
        p == push(Accepts([s EXCEPT !.behind = @ \o Fresh(s, k)], k, "write"))
    IN CASE s.failed -> Ready(s, "failed")
         [] s.error -> Ready([s EXCEPT !.error = FALSE], "err")
         [] lent_waits(s) -> Pending(wait(s, t))
         [] n >= LARGE /\ Streams /\ ~s.connecting /\ s.lent.at = "none" -> wait_for_room(s, t)
         [] k = 0 -> no_room(s, t, n)
         [] s.behind = <<>> /\ p.failed -> Ready([p EXCEPT !.failed = FALSE], "failed")
         [] OTHER -> Ready(p, "ok")

write_step(s, t, n, asked) ==
    LET d == write_direct_as(s, n)
    IN IF asked THEN write(found_full(s), t, n)
       ELSE IF d.res \in {"ok", "err"} THEN Ready(d.s, d.res) ELSE write(d.s, t, n)

flush(s, t) ==
    LET p == push(s)
    IN IF p.failed THEN Ready([p EXCEPT !.failed = FALSE], "failed")
       ELSE IF p.behind # <<>> \/ lent_waits(p) \/ ring_unsent(p) THEN Pending(wait(p, t))
       ELSE Ready(p, "ok")

\* The stream's writing half is shut once all written went out.
close(s, t) ==
    LET p == flush(s, t)
    IN IF p.ready /\ p.res = "ok" THEN [p EXCEPT !.s.err = TRUE] ELSE p

drain(s, t) ==
    LET p == push(s) IN IF has_unsent(p) THEN Pending(wait(p, t)) ELSE Ready(p, "ok")

ready(s, t) ==
    IF s.failed \/ s.error \/ (~lent_waits(s) /\ Len(s.behind) < BUF)
    THEN Ready(s, "ok") ELSE Pending(wait(s, t))

connect(s, t) ==
    LET fd == [s EXCEPT !.connect_started = TRUE, !.connecting = TRUE, !.dialling = "going"]
        go == IF Fd THEN fd ELSE submit_ops([fd EXCEPT !.dialling = "no", !.dial = TRUE])
    IN IF s.connected # "none"
       THEN Ready([s EXCEPT !.connected = "none", !.connect_started = @ /\ s.connected = "ok"], s.connected)
       ELSE IF ~s.connect_started THEN Pending(wait(go, t))
       ELSE IF s.connecting THEN Pending(wait(s, t)) ELSE Ready(s, "ok")

send_now(s, t) ==
    LET ahead == IF Fd THEN s.blocked ELSE ring_holds(s) \/ s.poll_first
        u == Fresh(s, 1)
        full == [Sent(s, u) EXCEPT !.blocked = @ \/ Fd, !.poll_first = @ \/ ~Fd]
    IN IF ahead THEN Pending(push(wait(s, t)))
       ELSE CASE Answer(s, u) = "full" -> Pending(push(wait(full, t)))
              [] Answer(s, u) = "err" -> Ready(s, "err")
              [] OTHER -> Ready(Accepts(Sent(s, u), 1, "dgram"), "ok")

send(s, t) ==
    IF s.error THEN Ready([s EXCEPT !.error = FALSE], "err")
    ELSE IF lent_waits(s) THEN Pending(wait(s, t)) ELSE send_now(s, t)

\* A write of all of a task's own buffer; `mine': it is lent already.
write_owned(s, t, mine) ==
    LET n == IF Datagrams THEN 1 ELSE LARGE
        l == IF mine THEN [s EXCEPT !.lent.waker = FALSE]
             ELSE Accepts([s EXCEPT !.lent = [NotLent EXCEPT !.at = "idle", !.id = Len(s.log) + 1,
                                                             !.of = t, !.buf = Fresh(s, n)]], n, "lent")
        p == push(l)
    IN CASE ~mine /\ s.failed -> Ready(s, "failed")
         [] ~mine /\ s.error -> Ready([s EXCEPT !.error = FALSE], "err")
         [] ~mine /\ s.lent.at # "none" -> Pending(wait(s, t))
         [] ~lent_done(p) -> Pending([p EXCEPT !.lent.waker = TRUE])
         [] OTHER -> Ready(wake([p EXCEPT !.lent = NotLent]), p.lent.res)

\* The task of the lent buffer went: withdrawn, or left to the driver to finish.
abandon_lent(s) ==
    LET a == [s EXCEPT !.lent.waker = FALSE]
    IN IF s.lent.at = "none" THEN s
       ELSE IF ~lent_done(s) /\ (s.lent.sent \/ s.lent.at = "out") THEN [a EXCEPT !.lent.orphan = TRUE]
       ELSE wake([a EXCEPT !.failed = @ \/ (lent_done(s) /\ s.lent.res = "err"), !.lent = NotLent])

withdrawal(s) == lent_out(s) /\ s.lent.orphan /\ ~s.lent.sent /\ s.out

fd_ready(s, t) ==
    CASE s.error -> Ready([s EXCEPT !.error = FALSE], "err")
      [] s.failed -> Ready([s EXCEPT !.failed = FALSE], "failed")
      [] has_unsent(s) -> Pending(push([wait(s, t) EXCEPT !.user_fd = FALSE]))
      [] ~s.blocked -> Ready([s EXCEPT !.user_fd = TRUE], "ok")
      [] OTHER -> Pending(push([wait(s, t) EXCEPT !.user_fd = TRUE]))

drive(s) == [s EXCEPT !.user_fd = FALSE]
fd_clear(s, seen) == IF s.edges = seen THEN [s EXCEPT !.blocked = TRUE] ELSE s

\* The place of a call outside the side.
lend_outside(s, t) ==
    CASE s.failed -> Ready(s, "failed")
      [] s.error -> Ready([s EXCEPT !.error = FALSE], "err")
      [] s.lent.at # "none" -> Pending(wait(s, t))
      [] OTHER -> Ready(Accepts([s EXCEPT !.lent = [NotLent EXCEPT !.at = "out", !.outside = TRUE],
                                          !.outside = Len(s.log) + 1], LARGE, "outside"), "ok")

end_outside(s) ==
    IF \E j \in jobs: j.id = s.outside /\ "ended" \in j.word
    THEN wake([s EXCEPT !.outside = 0, !.lent = NotLent]) ELSE s

fail(s) ==
    LET c == IF s.connecting THEN connected(s, "err") ELSE [s EXCEPT !.error = TRUE]
    IN wake(IF s.outside = 0 /\ lent_waits(c)
            THEN wake_lent([Cut(c) EXCEPT !.lent.at = IF @ = "out" THEN "failed" ELSE "done"]) ELSE c)

unstarve(s) == end_outside(IF s.starved THEN wake([s EXCEPT !.starved = FALSE]) ELSE s)
wake_all(s) == wake(wake_lent([s EXCEPT !.starved = FALSE]))

discard(s) ==
    [s EXCEPT !.behind = <<>>, !.lent = NotLent, !.outside = 0, !.failed = FALSE,
              !.error = FALSE, !.connect_started = FALSE, !.connecting = FALSE, !.connected = "none",
              !.blocked = FALSE, !.poll_first = FALSE, !.again = <<>>, !.dial = FALSE]

-----------------------------------------------------------------------------
\* The side is let go: what it published, what it asked of the ring.
finish(s) ==
    /\ st' = [s EXCEPT !.issue = "none", !.units = <<>>, !.cancel = FALSE, !.here = TRUE, !.direct = FALSE]
    /\ op' = IF s.issue # "none" THEN [want |-> s.issue, units |-> s.units, epoch |-> s.epoch, cancel |-> FALSE]
             ELSE [op EXCEPT !.cancel = @ \/ s.cancel]
settle(s) == finish(s) /\ left' = published(s)

tasksv == <<call, phase, tick>>
sharing == <<biased, far>>
ghost == <<told, early>>
In(t, where) == phase' = [phase EXCEPT ![t] = where]
Size(t) == IF call[t] = "large" THEN LARGE ELSE 1

step(s, t, asked) ==
    LET mine == s.lent.of = t /\ s.lent.at # "none" /\ ~s.lent.orphan
    IN CASE call[t] \in {"write", "large"} -> write_step(s, t, Size(t), asked)
         [] call[t] = "owned" -> write_owned(s, t, mine)
         [] call[t] \in {"flush", "file"} -> flush(s, t)
         [] call[t] = "close" -> close(s, t)
         [] call[t] = "drain" -> drain(s, t)
         [] call[t] = "ready" -> ready(s, t)
         [] call[t] = "connect" -> connect(s, t)
         [] call[t] = "outside" -> lend_outside(s, t)
         [] call[t] = "fd" -> fd_ready(s, t)

\* Every accepted write the kernel has not taken whole.
Gone(s, id) == Cardinality({i \in DOMAIN s.wire: s.wire[i][1] = id})
Owing(s) == {id \in DOMAIN s.log: s.log[id].how = "write" /\ Gone(s, id) < s.log[id].n}

\* What the step answered: send_file goes on from its flush to its call, and back from a full socket.
answers(t, p) ==
    /\ call' = [call EXCEPT ![t] = IF p.ready /\ p.res = "ok" /\ @ = "file" THEN "outside" ELSE @]
    /\ In(t, IF ~p.ready THEN "pend"
             ELSE IF p.res # "ok" THEN "idle"
             ELSE CASE call[t] = "fd" -> "fdcall" [] call[t] = "file" -> "poll"
                    [] call[t] = "outside" -> "join" [] OTHER -> "idle")
    /\ jobs' = IF call[t] = "outside" /\ p.ready /\ p.res = "ok"
               THEN jobs \union {[id |-> p.s.outside, of |-> t, word |-> {}, done |-> "none"]} ELSE jobs
    /\ told' = (told \/ p.res = "failed")
    /\ early' = (early \/ (call[t] \in {"flush", "file", "close"} /\ p.ready /\ p.res = "ok" /\ ~told /\ Owing(p.s) # {}))

poll_write_side(t, asked) ==
    \E here \in IF Fd THEN {TRUE} ELSE BOOLEAN:
        LET s == [st EXCEPT !.woken = @ \ {t}, !.here = here]
        IN \E p \in {step(IF call[t] = "fd" THEN s ELSE drive(s), t, asked)}:
           /\ settle(p.s) /\ answers(t, p) /\ edge' = (edge \/ (Fd /\ p.s.err /\ ~st.err))
           /\ tick' = [tick EXCEPT ![t] = IF call[t] = "fd" THEN p.s.edges ELSE 0]

\* send_file's caller writes nothing else while it runs.
begin(t) ==
    /\ phase[t] = "idle" /\ bound.calls < MaxCalls
    /\ \A u \in Tasks: phase[u] # "idle" => call[u] \notin {"file", "outside", "fd", "connect"}
    /\ \E c \in cast.calls:
          /\ c \in {"file", "connect"} => \A u \in Tasks: phase[u] = "idle"
          /\ ("connect" \in cast.calls /\ c # "connect") => st.connect_started
          /\ c = "connect" => ~st.connect_started
          /\ call' = [call EXCEPT ![t] = c]
    /\ In(t, "poll") /\ bound' = [bound EXCEPT !.calls = @ + 1]
    /\ UNCHANGED <<cast, st, room, edge, serving, op, cq, tick, sharing, left, jobs, ghost>>

Runs(t) == phase[t] = "poll" \/ (phase[t] = "pend" /\ t \in st.woken)
Alone == \A u \in Tasks: phase[u] \notin {"holds", "sent", "refused"}
Quick(t) == call[t] = "send" /\ ~left.holds
Owners(t) == call[t] \in {"write", "large"} /\ Streams /\ biased /\ t \notin far

\* A thread that is not the owner's shares the side before it holds it.
shares(t) ==
    /\ Runs(t) \/ phase[t] \in {"asked", "full"}
    /\ t \in far /\ biased /\ biased' = FALSE
    /\ UNCHANGED <<cast, st, room, edge, serving, op, cq, tasksv, far, left, jobs, ghost, bound>>

\* The owner's write straight from its buffer under its biased hold: nothing is published.
send_as_owner(t) ==
    LET u == Fresh(st, Size(t))
    IN /\ Runs(t) /\ Owners(t) /\ left.sends /\ Alone
       /\ st' = IF Answer(st, u) = "ok" THEN [Accepts(Sent(st, u), Took(st, u), "write") EXCEPT !.woken = @ \ {t}]
                ELSE [Sent(st, u) EXCEPT !.woken = @ \ {t}]
       /\ In(t, IF Answer(st, u) = "full" THEN "asked" ELSE "idle")
       /\ UNCHANGED <<cast, room, edge, serving, op, cq, call, tick, sharing, left, jobs, ghost, bound>>

\* The shard is taken from the thread that found the socket full.
shard_taken(t) ==
    /\ phase[t] = "asked" /\ t \notin far /\ far' = far \union {t}
    /\ UNCHANGED <<cast, st, room, edge, serving, op, cq, tasksv, biased, left, jobs, ghost, bound>>

poll_asked(t) ==
    /\ phase[t] = "asked" /\ Alone /\ (t \in far => ~biased)
    /\ poll_write_side(t, biased)
    /\ UNCHANGED <<cast, room, serving, cq, sharing, bound>>

poll(t) ==
    /\ Runs(t) /\ Alone /\ (t \in far => ~biased)
    /\ ~Quick(t) /\ ~(Owners(t) /\ left.sends) /\ call[t] # "send"
    /\ poll_write_side(t, FALSE)
    /\ UNCHANGED <<cast, room, serving, cq, sharing, bound>>

\* poll_send: a send made with no guard.
send_quick(t) ==
    LET u == Fresh(st, 1)
    IN /\ phase[t] = "quick"
       /\ st' = IF Answer(st, u) = "ok" THEN Accepts(Sent(st, u), 1, "dgram") ELSE Sent(st, u)
       /\ In(t, IF Answer(st, u) = "full" THEN "full" ELSE "idle")
       /\ UNCHANGED <<cast, room, edge, serving, op, cq, call, tick, sharing, left, jobs, ghost, bound>>

send_looks(t) ==
    /\ Runs(t) /\ Quick(t) /\ In(t, "quick") /\ st' = [st EXCEPT !.woken = @ \ {t}]
    /\ UNCHANGED <<cast, room, edge, serving, op, cq, call, tick, sharing, left, jobs, ghost, bound>>

\* poll_send_held: the word is raised before the kernel is asked.
hold_write(t) ==
    /\ (Runs(t) /\ call[t] = "send" /\ ~Quick(t)) \/ phase[t] = "full"
    /\ Alone /\ (t \in far => ~biased) /\ In(t, "holds") /\ left' = [left EXCEPT !.holds = TRUE]
    /\ UNCHANGED <<cast, st, room, edge, serving, op, cq, call, tick, sharing, jobs, ghost, bound>>

poll_send_held(t) ==
    \E here \in IF Fd THEN {TRUE} ELSE BOOLEAN:
        LET p == send(drive([st EXCEPT !.woken = @ \ {t}, !.here = here]), t)
        IN /\ phase[t] = "holds" /\ finish(p.s) /\ In(t, IF p.ready THEN "sent" ELSE "refused")
           /\ UNCHANGED <<cast, room, edge, serving, cq, call, tick, sharing, left, jobs, ghost, bound>>

leave_write(t) ==
    /\ phase[t] \in {"sent", "refused"} /\ In(t, IF phase[t] = "sent" THEN "idle" ELSE "pend")
    /\ left' = published(st)
    /\ UNCHANGED <<cast, st, room, edge, serving, op, cq, call, tick, sharing, jobs, ghost, bound>>

-----------------------------------------------------------------------------
\* The call's future is dropped; a lent write's buffer is withdrawn if it can be.
drops(t) ==
    LET s == [st EXCEPT !.woken = @ \ {t}]
        a == abandon_lent(s)
    IN /\ phase[t] = "pend" /\ Alone /\ In(t, "idle")
       /\ settle(IF st.lent.of = t /\ ~st.lent.orphan THEN [a EXCEPT !.cancel = withdrawal(a)] ELSE s)
       /\ UNCHANGED <<cast, room, edge, serving, cq, call, tick, sharing, jobs, ghost, bound>>

\* The job's call: sendfile, which takes what the socket has room for.
job_calls(j) ==
    LET u == [i \in 1..LARGE |-> <<j.id, i>>]
        mine == j.id = st.outside
    IN /\ j.done = "none" /\ st' = IF mine THEN Sent(st, u) ELSE st
       /\ jobs' = (jobs \ {j}) \union {[j EXCEPT !.done = IF mine THEN Answer(st, u) ELSE "err"]}
       /\ UNCHANGED <<cast, room, edge, serving, op, cq, tasksv, sharing, left, ghost, bound>>

\* Outside::record: the second of the two has the side clear the place.
record(j, bit) ==
    jobs' = (jobs \ {j}) \union {[j EXCEPT !.word = @ \union (IF @ = {} THEN {bit} ELSE {bit, "clears"})]}

ended_drops(j) ==
    /\ j.done # "none" /\ "ended" \notin j.word /\ record(j, "ended")
    /\ UNCHANGED <<cast, st, room, edge, serving, op, cq, tasksv, sharing, left, ghost, bound>>

\* The task took the job's answer, or its future was dropped.
left_drops(t, j) ==
    /\ phase[t] = "join" /\ j.of = t /\ "left" \notin j.word /\ record(j, "left")
    /\ \/ "ended" \in j.word /\ In(t, IF j.done = "full" THEN "poll" ELSE "idle")
          /\ call' = [call EXCEPT ![t] = IF j.done = "full" THEN "fd" ELSE @]
       \/ In(t, "idle") /\ UNCHANGED call
    /\ UNCHANGED <<cast, st, room, edge, serving, op, cq, tick, sharing, left, ghost, bound>>

clear_outside(j) ==
    /\ "clears" \in j.word /\ Alone /\ settle(unstarve(st)) /\ jobs' = jobs \ {j}
    /\ UNCHANGED <<cast, room, edge, serving, cq, tasksv, sharing, ghost, bound>>

\* async_io of send_file: poll_writable, and the clear when it would block.
calls_itself(t) ==
    /\ phase[t] = "fdcall"
    /\ IF st.free > 0 \/ st.err THEN In(t, "poll") /\ call' = [call EXCEPT ![t] = "outside"] /\ UNCHANGED st
       ELSE In(t, "fdclear") /\ st' = [st EXCEPT !.full = TRUE] /\ UNCHANGED call
    /\ UNCHANGED <<cast, room, edge, serving, op, cq, tick, sharing, left, jobs, ghost, bound>>

fd_clear_write(t) ==
    /\ phase[t] = "fdclear" /\ Alone /\ In(t, "poll") /\ settle(fd_clear(st, tick[t]))
    /\ UNCHANGED <<cast, room, edge, serving, cq, call, tick, sharing, jobs, ghost, bound>>

-----------------------------------------------------------------------------
\* The kernel, and the driver.
peer_reads ==
    /\ st.free < QUEUE /\ bound.drains < MaxDrains /\ bound' = [bound EXCEPT !.drains = @ + 1]
    /\ st' = [st EXCEPT !.free = QUEUE, !.full = FALSE] /\ edge' = (edge \/ (Fd /\ st.full))
    /\ UNCHANGED <<cast, room, serving, op, cq, tasksv, sharing, left, jobs, ghost>>

peer_answers ==
    /\ st.dialling = "going" /\ edge' = (edge \/ Fd)
    /\ \E how \in {"up", "refused"}: st' = [st EXCEPT !.dialling = how]
    /\ UNCHANGED <<cast, room, serving, op, cq, tasksv, sharing, left, jobs, ghost, bound>>

fault ==
    /\ cast.errs /\ ~st.err /\ bound.events < MaxEvents /\ bound' = [bound EXCEPT !.events = @ + 1]
    /\ st' = [st EXCEPT !.err = TRUE] /\ edge' = (edge \/ Fd)
    /\ UNCHANGED <<cast, room, serving, op, cq, tasksv, sharing, left, jobs, ghost>>

\* The driver passes over an edge that brings the side nothing.
write_wants_no_edge == (biased /\ left.idle) \/ ~left.holds

on_event ==
    /\ edge /\ \A t \in Tasks \ far: phase[t] \notin {"asked", "quick", "full", "holds", "sent", "refused"}
    /\ edge' = FALSE /\ serving' = (serving \/ ~write_wants_no_edge)
    /\ UNCHANGED <<cast, st, room, op, cq, tasksv, sharing, left, jobs, ghost, bound>>

driver_serves ==
    /\ serving /\ Alone /\ serving' = FALSE /\ settle(serve(st))
    /\ UNCHANGED <<cast, room, edge, cq, tasksv, sharing, jobs, ghost, bound>>

Posts(res, units) ==
    /\ cq' = Append(cq, [want |-> op.want, epoch |-> op.epoch, res |-> res, rest |-> units]) /\ op' = NoOp

Here == op.epoch = st.epoch
Writes == op.want \in {"send", "sendlent"}
Polled == st.dialling # "going" /\ (st.free > 0 \/ st.err)

Ends ==
    \/ op.cancel /\ Posts("undone", op.units) /\ UNCHANGED st
    \/ cast.forsakes /\ Posts("forsaken", op.units) /\ UNCHANGED st
    \/ cast.again /\ Here /\ Writes /\ st.free = 0 /\ Posts("again", op.units) /\ UNCHANGED st
    \/ cast.again /\ Here /\ op.want = "connect" /\ Posts("again", <<>>) /\ st' = [st EXCEPT !.dialling = "going"]
    \/ Here /\ Writes /\ st.err /\ Posts("err", op.units) /\ UNCHANGED st
    \/ /\ Here /\ Writes /\ ~st.err /\ st.free > 0
       /\ Posts("ok", Rest(op.units, Took(st, op.units))) /\ st' = Sent(st, op.units)
    \/ \E how \in {"ok", "err"}: Here /\ op.want = "connect" /\ Posts(how, <<>>) /\ UNCHANGED st
    \/ Here /\ op.want = "ready" /\ Polled /\ Posts("ok", <<>>) /\ UNCHANGED st

kernel_op ==
    /\ op.want # "none" /\ Ends
    /\ UNCHANGED <<cast, room, edge, serving, tasksv, sharing, left, jobs, ghost, bound>>

reap ==
    /\ cq # <<>> /\ Alone /\ cq' = Tail(cq) /\ settle(submit_ops(op_done(st, Head(cq))))
    /\ UNCHANGED <<cast, room, edge, serving, tasksv, sharing, jobs, ghost, bound>>

kicked ==
    /\ st.kick /\ Alone /\ settle(submit_ops([st EXCEPT !.kick = FALSE]))
    /\ UNCHANGED <<cast, room, edge, serving, cq, tasksv, sharing, jobs, ghost, bound>>

pool_empties ==
    /\ room /\ bound.events < MaxEvents /\ room' = FALSE /\ bound' = [bound EXCEPT !.events = @ + 1]
    /\ UNCHANGED <<cast, st, edge, serving, op, cq, tasksv, sharing, left, jobs, ghost>>

pool_fills ==
    /\ ~room /\ Alone /\ room' = TRUE /\ settle(unstarve(st))
    /\ UNCHANGED <<cast, edge, serving, cq, tasksv, sharing, jobs, ghost, bound>>

\* The source leaves its shard and is watched again by another.
moved ==
    /\ Alone /\ bound.events < MaxEvents /\ bound' = [bound EXCEPT !.events = @ + 1]
    /\ st' = wake_all(st) /\ left' = published(st) /\ op' = [op EXCEPT !.cancel = op.want # "none"]
    /\ edge' = (edge \/ (Fd /\ Polled)) /\ biased' = FALSE
    /\ UNCHANGED <<cast, room, serving, cq, tasksv, far, jobs, ghost>>

\* It leaves its shard, its operation out to be cancelled, and the other shard cannot watch it; or
\* no shard watched it before.
failed ==
    /\ cast.fails /\ Alone /\ bound.events < MaxEvents /\ bound' = [bound EXCEPT !.events = @ + 1]
    /\ \/ settle(fail([wake_all(st) EXCEPT !.cancel = op.want # "none"])) /\ biased' = FALSE
       \/ op.want = "none" /\ cq = <<>> /\ settle(fail(st)) /\ UNCHANGED biased
    /\ UNCHANGED <<cast, room, edge, serving, cq, tasksv, far, jobs, ghost>>

\* Another descriptor: the epoch moves on, and the side discards what it held.
revive ==
    /\ \A t \in Tasks: phase[t] = "idle"
    /\ bound.events < MaxEvents /\ bound' = [bound EXCEPT !.events = @ + 1]
    /\ settle(discard([st EXCEPT !.epoch = @ + 1, !.waiters = {}, !.starved = FALSE, !.wire = <<>>,
                                 !.free = QUEUE, !.full = FALSE, !.err = FALSE, !.dialling = "no",
                                 !.cancel = op.want # "none",
                                 !.log = [id \in DOMAIN @ |-> [n |-> 0, how |-> "old"]]]))
    /\ edge' = FALSE /\ serving' = FALSE /\ told' = FALSE
    /\ UNCHANGED <<cast, room, cq, tasksv, sharing, jobs, early>>

Next ==
    \/ \E t \in Tasks: \/ begin(t) \/ shares(t) \/ send_as_owner(t) \/ shard_taken(t) \/ poll_asked(t) \/ poll(t)
                        \/ send_looks(t) \/ send_quick(t) \/ hold_write(t) \/ poll_send_held(t) \/ leave_write(t)
                        \/ drops(t) \/ calls_itself(t) \/ fd_clear_write(t)
                        \/ \E j \in jobs: left_drops(t, j)
    \/ \E j \in jobs: job_calls(j) \/ ended_drops(j) \/ clear_outside(j)
    \/ peer_reads \/ peer_answers \/ fault \/ on_event \/ driver_serves \/ kernel_op \/ reap \/ kicked
    \/ pool_empties \/ pool_fills \/ moved \/ failed \/ revive

Spec == Init /\ [][Next]_vars

-----------------------------------------------------------------------------
\* The units the side still has to send.
Held == (IF Here THEN op.units ELSE <<>>)
        \o FlattenSeq([i \in DOMAIN cq |-> IF cq[i].epoch = st.epoch THEN cq[i].rest ELSE <<>>])
        \o st.again \o st.behind \o st.lent.buf
HeldOf(id) == Cardinality({i \in DOMAIN Held: Held[i][1] = id})
Whole(id) == Gone(st, id) = 0 \/ Gone(st, id) + HeldOf(id) = st.log[id].n

(* write.rs: bytes go out in the order they were written, each once, whoever
   hands them to the kernel: the task, the driver, the ring, or a call outside
   the side, whose chunk lands before anything written after its future was
   dropped. What was written to an earlier descriptor of the source goes to no
   later one. *)
InOrder ==
    /\ \A i \in DOMAIN st.wire: st.log[st.wire[i][1]].how # "old"
    /\ Datagrams \/ \A i \in 2..Len(st.wire):
        \/ st.wire[i][1] > st.wire[i - 1][1] /\ st.wire[i][2] = 1
        \/ st.wire[i][1] = st.wire[i - 1][1] /\ st.wire[i][2] = st.wire[i - 1][2] + 1

(* An accepted write goes out whole, or why it did not is kept until a call
   reports it; a lent buffer goes out whole or not at all, its task gone or not,
   unless the socket failed or the write was ended with an error as its source
   or its shard went (fail, forsaken); a flush answers once everything written
   before it is out. *)
NothingLost ==
    /\ ~early
    /\ \A id \in DOMAIN st.log:
          CASE st.log[id].how = "write" -> Gone(st, id) + HeldOf(id) = st.log[id].n \/ st.failed \/ told
            [] st.log[id].how = "lent" -> Whole(id) \/ st.err \/ id \in st.cut
            [] OTHER -> TRUE

CanEnd ==
    /\ op.want # "none"
    /\ \/ op.cancel \/ (Here /\ op.want = "connect")
       \/ Here /\ Writes /\ (st.free > 0 \/ st.err)
       \/ Here /\ op.want = "ready" /\ Polled
Still ==
    /\ ~edge /\ ~serving /\ cq = <<>> /\ ~CanEnd /\ ~st.kick /\ jobs = {}
    /\ \A t \in Tasks: phase[t] = "idle" \/ (phase[t] = "pend" /\ t \notin st.woken)

\* The lent write of a task that went was ended by fail, which leaves its place taken.
PlaceKept == st.lent.orphan /\ st.lent.at = "done" /\ st.lent.id \in st.cut

(* Once nothing is on its way, no task waits on the side while the socket has
   room or an error for it, with a buffer of the pool to be had or not: the edge
   that the driver passed over brought nobody anything.  Of a source whose
   registration failed with part of an abandoned lent write sent, a later lent
   write may: fail gives the place of the one before to nobody. *)
NobodySleepsPast ==
    Still /\ Polled => \A t \in Tasks: phase[t] # "pend" \/ (PlaceKept /\ call[t] \in {"owned", "outside"})

=============================================================================
