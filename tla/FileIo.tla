------------------------------ MODULE FileIo ------------------------------
(***************************************************************************)
(* A regular file's handle: fs/file/mod.rs, work.rs, owned.rs,             *)
(* positional.rs, orphans.rs, landed.rs, fs/call.rs and fs/ring.rs.        *)
(*                                                                         *)
(* Every call on the handle runs under its side's guard, so each poll is   *)
(* one step, written as an operator from state to state. What runs at the  *)
(* same time are the calls of the blocking pool and of the ring: `jobs'.   *)
(* The file is a sequence of blocks, each the number of the write it was   *)
(* last written by (0: what it held before).                               *)
(***************************************************************************)
EXTENDS Integers, Sequences, FiniteSets

CONSTANTS
    Tasks, None,
    Casts,      \* [lands, append, direct, ring, fails, calls, seeks, beside]; beside: owned writes
                \* are asked for beside one that its task left
    AHEAD,      \* blocks a read asks for (READ_MIN)
    BUF,        \* blocks a write's buffer holds (WRITE_MIN)
    FILE_SLOTS, \* ends of landed writes kept
    BLOCKS,     \* blocks the file holds at first
    JOBS,       \* calls out at once
    MaxCalls, MaxEvents

VARIABLES
    cast,
    st,
    call,   \* each task's call: [op, n, at, tag, lends]
    phase,  \* "idle", "poll", "pend", "view"
    known,  \* the writes settled as the call began
    early, short,
    bound

vars == <<cast, st, call, phase, known, early, short, bound>>

NoCall == [op |-> "none", n |-> 0, at |-> 0, tag |-> None, lends |-> FALSE]
Free == [kind |-> "free"]
Job(kind, at, units, waker) ==
    [kind |-> kind, at |-> at, units |-> units, done |-> 0, res |-> "none", got |-> <<>>,
     via |-> IF cast.ring THEN "ring" ELSE "pool", waker |-> waker]
NoWrite == [job |-> 0, kind |-> "none"]
NoRead == [job |-> 0, at |-> 0, epoch |-> 0, gen |-> 0]

FileState ==
    [cursor |-> 0, epoch |-> 0, ahead |-> <<>>, ahead_gen |-> 0, reading |-> NoRead, writing |-> NoWrite,
     lent |-> "none", behind |-> <<>>, behind_at |-> 0, landing |-> [tag |-> None, at |-> 0, n |-> 0],
     answers |-> <<>>, failed |-> FALSE, sizing |-> 0, orphans |-> {}, cold |-> FALSE,
     gen |-> 0, lost |-> FALSE, waiters |-> {}, woken |-> {}, starved |-> {},
     mine |-> [t \in Tasks |-> NoRead],
     disk |-> [i \in 1..BLOCKS |-> 0], jobs |-> [j \in 1..JOBS |-> Free], log |-> <<>>, room |-> TRUE]

Init ==
    /\ cast \in Casts /\ st = FileState
    /\ call = [t \in Tasks |-> NoCall] /\ phase = [t \in Tasks |-> "idle"] /\ known = [t \in Tasks |-> {}]
    /\ early = FALSE /\ short = FALSE
    /\ bound = [calls |-> 0, events |-> 0]

Pending(s) == [s |-> s, ready |-> FALSE, ok |-> TRUE, got |-> <<>>]
Ready(s) == [s |-> s, ready |-> TRUE, ok |-> TRUE, got |-> <<>>]
Fails(s) == [s |-> s, ready |-> TRUE, ok |-> FALSE, got |-> <<>>]
Reads(s, got) == [s |-> s, ready |-> TRUE, ok |-> TRUE, got |-> got]

Part(q, from, n) == IF from > Len(q) THEN <<>> ELSE SubSeq(q, from, IF from + n - 1 < Len(q) THEN from + n - 1 ELSE Len(q))
Fewer(a, b) == IF a < b THEN a ELSE b
Ids(units) == {units[i]: i \in DOMAIN units}
Settled(s) == {w \in DOMAIN s.log: s.log[w].state = "settled"}
Becomes(s, ids, state) ==
    [s EXCEPT !.log = [w \in DOMAIN @ |-> IF w \in ids THEN [@[w] EXCEPT !.state = state] ELSE @[w]]]

\* Every task waiting on the file looks again.
wake(s) == [s EXCEPT !.woken = @ \union s.waiters, !.waiters = {}]

\* fs/call.rs, fs/ring.rs: a call goes out, with the waker its end wakes.
FreeJob(s) == CHOOSE j \in 1..JOBS: s.jobs[j].kind = "free" /\ \A i \in 1..(j - 1): s.jobs[i].kind # "free"
issue(s, job) == [s EXCEPT !.jobs[FreeJob(s)] = job]
Ended(s, j) == s.jobs[j].res # "none"
taken(s, j) == [s EXCEPT !.jobs[j] = Free]
register(s, j, waker) == [s EXCEPT !.jobs[j].waker = waker]

-----------------------------------------------------------------------------
\* The write is accepted: numbered, at its place.
Accepts(s, at, n, pred, state) ==
    [s EXCEPT !.log = Append(@, [at |-> IF cast.append THEN -1 ELSE at, n |-> n, pred |-> pred, state |-> state])]
Units(s, n) == [i \in 1..n |-> Len(s.log) + 1]

fail(s) == [s EXCEPT !.failed = TRUE, !.lost = TRUE]
invalidate(s) == [s EXCEPT !.ahead = <<>>, !.epoch = @ + 1]
consumed(s, n) == [s EXCEPT !.cursor = @ + n, !.ahead = Part(@, n + 1, Len(@))]

CountsAnyGeneration(s, r) == r.at = s.cursor /\ r.epoch = s.epoch
counts(s, r) == r.at = s.cursor /\ r.epoch = s.epoch /\ r.gen = s.gen

drop_stale_ahead(s) == IF s.ahead_gen # s.gen THEN [s EXCEPT !.ahead = <<>>] ELSE s
writes_idle(s) == s.writing.job = 0 /\ s.behind = <<>> /\ s.orphans = {}
has_unsent(s) == ~writes_idle(s) \/ s.failed

ReadAt(s) == [job |-> FreeJob(s), at |-> s.cursor, epoch |-> s.epoch, gen |-> s.gen]
submit_write(s, units, at) ==
    LET i == issue(s, Job(IF cast.append THEN "append" ELSE "write", at, units, "file"))
    IN [i EXCEPT !.writing = [job |-> FreeJob(s), kind |-> "pool"]]

submit_read(s, want) ==
    [issue(s, Job("read", s.cursor, [i \in 1..want |-> 0], "file")) EXCEPT !.reading = ReadAt(s)]
submit_read_owned(s, t) == [issue(s, Job("read", s.cursor, <<0, 0>>, t)) EXCEPT !.mine[t] = ReadAt(s)]
submit_read_at(s, t, at) == [issue(s, Job("read", at, <<0>>, t)) EXCEPT !.mine[t] = [NoRead EXCEPT !.job = FreeJob(s)]]
submit_pwrite(s, t, at, n) ==
    [issue(s, Job("write", at, Units(s, n), t)) EXCEPT !.mine[t] = [NoRead EXCEPT !.job = FreeJob(s)]]
submit_write_kept(s, n) == [submit_write(s, Units(s, n), s.cursor) EXCEPT !.writing.kind = "kept"]
submit_write_owned(s, n) == [submit_write(s, Units(s, n), s.cursor) EXCEPT !.writing.kind = "lent"]

\* A lent write ended: to its task, or with its job if the task is gone.
lent_back(s, err) ==
    [s EXCEPT !.lent = IF @ = "out" THEN (IF err THEN "doneErr" ELSE "done") ELSE "none"]

forget(s, answer) == IF answer.ok THEN s ELSE fail(s)

\* landed.rs: the end of a write that lands before it answers.
landed(s, err) ==
    LET c == IF err THEN [s EXCEPT !.cursor = s.landing.at] ELSE s
        f == IF Len(c.answers) = FILE_SLOTS
             THEN [forget(c, Head(c.answers)) EXCEPT !.answers = Tail(c.answers)] ELSE c
    IN [f EXCEPT !.answers = Append(@, [tag |-> s.landing.tag, ok |-> ~err, at |-> s.landing.at, n |-> s.landing.n]),
                 !.landing.tag = None]

\* Of the two that end a write of its file, the failure is the file's but a landed one's.
write_ended(s) ==
    LET j == s.jobs[s.writing.job]
        err == j.res = "err"
        t == [taken(s, s.writing.job) EXCEPT !.writing = NoWrite,
                                             !.cursor = IF cast.append /\ ~err THEN j.got[1] ELSE @]
        b == CASE s.writing.kind = "lent" -> lent_back(t, err)
               [] s.writing.kind = "kept" -> landed(t, err)
               [] OTHER -> t
    IN IF err /\ s.writing.kind # "kept"
       THEN Becomes([fail(b) EXCEPT !.behind = <<>>], Ids(b.behind), "failed") ELSE b

PollLeftQuietly(s) ==
    LET done == {j \in s.orphans: Ended(s, j)}
        n == [s EXCEPT !.orphans = @ \ done, !.gen = @ + Cardinality(done),
                       !.jobs = [j \in 1..JOBS |-> IF j \in done THEN Free ELSE @[j]]]
    IN IF \E j \in done: s.jobs[j].res = "err" THEN fail(n) ELSE n
poll_left(s) ==
    LET done == {j \in s.orphans: Ended(s, j)}
        bad == \E j \in done: s.jobs[j].res = "err"
        rest == s.orphans \ done
        n == [s EXCEPT !.orphans = rest, !.gen = @ + Cardinality(done),
                       !.jobs = [j \in 1..JOBS |-> IF j \in done THEN Free
                                                   ELSE IF j \in rest THEN [@[j] EXCEPT !.waker = "file"] ELSE @[j]]]
    IN IF bad THEN fail(n) ELSE n
poll_orphans(s) == IF s.orphans = {} THEN s ELSE poll_left(s)

\* Drives the writes: <<state, whether none is in flight>>.
next_write(o) ==
    IF o.orphans # {} THEN <<o, FALSE>>
    ELSE IF o.behind = <<>> THEN <<o, TRUE>>
    ELSE <<submit_write([o EXCEPT !.behind = <<>>], o.behind, o.behind_at), FALSE>>
poll_writes(s) ==
    IF s.writing.job # 0 /\ ~Ended(s, s.writing.job) THEN <<register(s, s.writing.job, "file"), FALSE>>
    ELSE next_write(poll_orphans(IF s.writing.job = 0 THEN s ELSE write_ended(s)))

\* In what follows p is what poll_writes left, d the state without a stale read ahead.
filled(p, d, want) ==
    LET r == d.reading
        f == [taken(d, r.job) EXCEPT !.reading = NoRead]
        got == d.jobs[r.job].got
        again(x) ==
            IF ~x.room THEN Pending([x EXCEPT !.starved = @ \union {"file"}])
            ELSE Pending(submit_read(x, want))
    IN CASE ~p[2] -> Pending(p[1])
         [] d.ahead # <<>> -> Ready(d)
         [] r.job # 0 /\ ~Ended(d, r.job) -> Pending(register(d, r.job, "file"))
         [] r.job # 0 /\ d.jobs[r.job].res = "err" -> Fails(f)
         [] r.job # 0 /\ ~counts(d, r) -> again(f)
         [] r.job # 0 -> Ready([f EXCEPT !.ahead = got, !.ahead_gen = r.gen])
         [] OTHER -> again(d)
fill_after(p, want) == filled(p, drop_stale_ahead(p[1]), want)
fill(s, want) == fill_after(poll_writes(s), want)

takes_ahead(p) ==
    LET n == Fewer(1, Len(p.s.ahead))
    IN IF p.ready /\ p.ok THEN Reads(consumed(p.s, n), SubSeq(p.s.ahead, 1, n)) ELSE p
poll_read(s) == takes_ahead(fill(s, IF cast.direct THEN 1 ELSE AHEAD))

-----------------------------------------------------------------------------
Answer(s, tag) == {i \in DOMAIN s.answers: s.answers[i].tag = tag}
Without(q, i) == SubSeq(q, 1, i - 1) \o SubSeq(q, i + 1, Len(q))
take_answer(s, tag) ==
    LET i == CHOOSE i \in Answer(s, tag): \A k \in Answer(s, tag): i <= k
        a == s.answers[i]
        d == [s EXCEPT !.answers = Without(@, i)]
    IN IF a.ok THEN Reads(d, <<a>>) ELSE Fails(d)

write_landed(s, n, tag) ==
    LET w == submit_write_kept(invalidate(s), n)
        a == Accepts([w EXCEPT !.landing = [tag |-> tag, at |-> s.cursor, n |-> n],
                               !.cursor = @ + n], s.cursor, n, Settled(s), "settled")
    IN CASE Answer(s, tag) # {} -> take_answer(s, tag)
         [] s.landing.tag = tag -> Pending(s)
         [] s.failed -> Fails(s)
         [] ~writes_idle(s) -> Pending(s)
         [] ~s.room -> Pending([s EXCEPT !.starved = @ \union {"file"}])
         [] OTHER -> Pending(a)

fail_answers(s) ==
    LET bad == {i \in DOMAIN s.answers: ~s.answers[i].ok}
        keeps(a) == a.ok
    IN IF bad = {} THEN s ELSE [fail(s) EXCEPT !.answers = SelectSeq(@, keeps)]

write_after(s, n, tag) ==
    LET v == invalidate(s)
        now == s.writing.job = 0 /\ s.orphans = {}
        k == IF now \/ s.behind = <<>> THEN Fewer(n, BUF) ELSE Fewer(n, BUF - Len(s.behind))
        u == Units(s, k)
        go == IF now THEN submit_write(v, u, v.cursor)
              ELSE [v EXCEPT !.behind = @ \o u, !.behind_at = IF v.behind = <<>> THEN v.cursor ELSE @]
    IN CASE cast.lands -> write_landed(s, n, tag)
         [] s.failed -> Fails(s)
         [] (now \/ s.behind = <<>>) /\ ~s.room -> Pending([v EXCEPT !.starved = @ \union {"file"}])
         [] k = 0 -> Pending(v)
         [] OTHER -> Ready(poll_writes([Accepts(go, v.cursor, k, Settled(v), "settled") EXCEPT !.cursor = @ + k])[1])
write(s, n, tag) == write_after(poll_writes(s)[1], n, tag)

flush_after(p) ==
    LET f == IF cast.lands THEN fail_answers(p[1]) ELSE p[1]
    IN IF ~p[2] THEN Pending(p[1])
       ELSE IF f.failed THEN Fails([f EXCEPT !.failed = FALSE]) ELSE Ready(f)

poll_flush(s) == flush_after(poll_writes(s))

\* To a place of the file, or (-1) to its end, which a job asks the system for.
seek_after(p, at) ==
    LET d == p[1]
        z == issue(d, Job("size", 0, <<>>, "file"))
        got == d.jobs[d.sizing].got[1]
        goes(x, to) == Reads(IF to # x.cursor THEN [invalidate(x) EXCEPT !.cursor = to] ELSE x, <<to>>)
    IN CASE ~p[2] -> Pending(d)
         [] at >= 0 -> goes(d, at)
         [] d.sizing = 0 -> Pending([z EXCEPT !.sizing = FreeJob(d)])
         [] ~Ended(d, d.sizing) -> Pending(register(d, d.sizing, "file"))
         [] OTHER -> goes([taken(d, d.sizing) EXCEPT !.sizing = 0], got)
seek(s, at) == seek_after(poll_writes(s), at)

-----------------------------------------------------------------------------
\* cached.rs: the bytes at the cursor that the page cache has.
cached(s) == Part(s.disk, s.cursor + 1, 2)

\* owned.rs: a read into the task's buffer; `hit': the page cache has the bytes.
poll_read_owned(s, t, hit) ==
    LET m == s.mine[t]
        job == s.jobs[m.job]
        f == [taken(s, m.job) EXCEPT !.mine[t] = NoRead]
        b == IF m.job # 0 THEN f ELSE s
        p == poll_writes(b)
        d == drop_stale_ahead(p[1])
        n == Fewer(2, Len(d.ahead))
        here == cached(d)
        tries == ~cast.direct /\ ~d.cold
        out == [submit_read_owned(d, t) EXCEPT !.cold = @ \/ tries]
    IN CASE m.job # 0 /\ job.res = "none" -> Pending(register(s, m.job, t))
         [] m.job # 0 /\ counts(s, m) ->
              IF job.res = "err" THEN Fails(f)
              ELSE Reads([f EXCEPT !.cursor = @ + Len(job.got), !.ahead = <<>>, !.cold = FALSE], job.got)
         [] ~writes_idle(b) /\ ~p[2] -> Pending([p[1] EXCEPT !.waiters = @ \union {t}])
         [] d.ahead # <<>> -> Reads(consumed(d, n), SubSeq(d.ahead, 1, n))
         [] tries /\ hit -> Reads([d EXCEPT !.cursor = @ + Len(here), !.ahead = <<>>], here)
         [] OTHER -> Pending(out)

\* A write of the task's own buffer; `mine': it is out already.
write_owned_after(s, p, mine, n) ==
    LET i == invalidate(p[1])
        w == submit_write_owned(i, n)
        o == [Accepts([w EXCEPT !.lent = "out"], i.cursor, n, Settled(i), "out") EXCEPT !.cursor = @ + n]
        l == p[1]
    IN CASE ~mine /\ s.lent # "none" -> Pending(p[1])
         [] ~mine /\ ~p[2] -> Pending(p[1])
         [] ~mine /\ p[1].failed -> Fails(p[1])
         [] ~mine -> Pending(o)
         [] l.lent = "done" -> Ready(wake([l EXCEPT !.lent = "none"]))
         [] l.lent = "doneErr" -> Fails(wake([l EXCEPT !.lent = "none"]))
         [] OTHER -> Pending(l)
write_owned(s, mine, n) == write_owned_after(s, poll_writes(s), mine, n)

abandon_lent(s) ==
    wake(CASE s.lent = "out" -> [s EXCEPT !.lent = "orphan"]
           [] s.lent = "doneErr" -> [fail(s) EXCEPT !.lent = "none"]
           [] OTHER -> [s EXCEPT !.lent = "none"])

-----------------------------------------------------------------------------
\* positional.rs: ordered after the cursor writes accepted before the call.
poll_ordered(s) == IF has_unsent(s) THEN poll_writes(s) ELSE <<s, TRUE>>
moved_on(s) == [s EXCEPT !.gen = @ + 1]

read_at(s, t, at) ==
    LET m == s.mine[t]
        p == poll_ordered(s)
        d == p[1]
        out == submit_read_at(d, t, at)
        f == [taken(s, m.job) EXCEPT !.mine[t] = NoRead]
    IN CASE m.job # 0 /\ ~Ended(s, m.job) -> Pending(register(s, m.job, t))
         [] m.job # 0 -> IF s.jobs[m.job].res = "err" THEN Fails(f) ELSE Reads(f, s.jobs[m.job].got)
         [] ~p[2] -> Pending([d EXCEPT !.waiters = @ \union {t}])
         [] ~d.room -> Pending([d EXCEPT !.starved = @ \union {t}])
         [] OTHER -> Pending(out)

write_at(s, t, at, n, pred) ==
    LET m == s.mine[t]
        p == poll_ordered(s)
        d == p[1]
        out == Accepts(submit_pwrite(d, t, at, n), at, n, pred, "out")
        f == moved_on([taken(s, m.job) EXCEPT !.mine[t] = NoRead])
    IN CASE m.job # 0 /\ ~Ended(s, m.job) -> Pending(register(s, m.job, t))
         [] m.job # 0 -> IF s.jobs[m.job].res = "err" THEN Fails(f)
                         ELSE Ready(Becomes(f, Ids(s.jobs[m.job].units), "settled"))
         [] ~p[2] -> Pending([d EXCEPT !.waiters = @ \union {t}])
         [] ~d.room -> Pending([d EXCEPT !.starved = @ \union {t}])
         [] OTHER -> Pending(out)

\* The call's future is dropped: a positional write out is left to the file.
orphan(s, t) ==
    Becomes([s EXCEPT !.orphans = @ \union {s.mine[t].job}, !.mine[t] = NoRead],
            {w \in Ids(s.jobs[s.mine[t].job].units): s.log[w].state = "out"}, "settled")

-----------------------------------------------------------------------------
OwnsLent(t) == call[t].lends

step(s, t, hit) ==
    LET c == call[t]
        w == [s EXCEPT !.waiters = @ \union {t}, !.woken = @ \ {t}]
        own == [s EXCEPT !.woken = @ \ {t}]
    IN CASE c.op = "read" -> poll_read(w)
         [] c.op = "fillbuf" -> fill(w, AHEAD)
         [] c.op = "write" -> write(w, c.n, c.tag)
         [] c.op = "flush" -> poll_flush(w)
         [] c.op = "seek" -> seek(w, c.at)
         [] c.op = "readown" -> poll_read_owned(own, t, hit)
         [] c.op = "writeown" -> write_owned(w, OwnsLent(t), c.n)
         [] c.op = "readat" -> read_at(own, t, c.at)
         [] c.op = "writeat" -> write_at(own, t, c.at, c.n, known[t])

\* What a read that began when `ks' were settled may not find at block p.
Covers(s, w, p) == s.log[w].at >= 0 /\ s.log[w].at <= p /\ p < s.log[w].at + s.log[w].n
Stale(s, ks, p) ==
    UNION {s.log[w].pred \union {0}: w \in {w \in ks: s.log[w].state = "settled" /\ Covers(s, w, p)}}
StaleRead(s, t, got, at) ==
    \/ \E i \in DOMAIN got: got[i] \in Stale(s, known[t], at + i - 1)
    \/ got = <<>> /\ \E w \in known[t]: s.log[w].state = "settled" /\ Covers(s, w, at)
Landed(s, w) ==
    s.log[w].at >= 0 /\ \A p \in s.log[w].at..(s.log[w].at + s.log[w].n - 1):
        p < Len(s.disk) /\ s.disk[p + 1] \notin s.log[w].pred \union {0}
EndOf(s, ws) == {s.log[w].at + s.log[w].n: w \in {w \in ws: s.log[w].state = "settled" /\ s.log[w].at >= 0}}

Enough == Cardinality({j \in 1..JOBS: st.jobs[j].kind = "free"}) >= 2

poll(t) ==
    /\ phase[t] = "poll" \/ (phase[t] = "pend" /\ t \in st.woken)
    /\ Enough
    /\ \E hit \in IF call[t].op = "readown" THEN BOOLEAN ELSE {FALSE}: \E p \in {step(st, t, hit)}:
        LET c == call[t]
            reads == c.op \in {"read", "readown", "readat"} /\ p.ready /\ p.ok
            at == IF c.op = "readat" THEN c.at ELSE p.s.cursor - Len(p.got)
        IN /\ st' = p.s
           /\ call' = [call EXCEPT ![t] = IF p.ready THEN NoCall
                                          ELSE IF c.op = "writeown" /\ p.s.lent = "out" /\ st.lent # "out"
                                          THEN [@ EXCEPT !.lends = TRUE] ELSE @]
           /\ known' = [known EXCEPT ![t] = IF p.ready THEN {} ELSE @]
           /\ phase' = [phase EXCEPT ![t] = IF ~p.ready THEN "pend"
                                            ELSE IF c.op = "fillbuf" /\ p.ok THEN "view" ELSE "idle"]
           /\ early' = (early \/ (reads /\ StaleRead(p.s, t, p.got, at))
                              \/ (c.op = "flush" /\ p.ready /\ p.ok
                                  /\ \E w \in known[t]: p.s.log[w].state = "settled" /\ ~Landed(p.s, w)))
           /\ short' = (short \/ (c.op = "seek" /\ c.at < 0 /\ p.ready /\ \E e \in EndOf(p.s, known[t]): p.got[1] < e))
           /\ UNCHANGED <<cast, bound>>

begin(t) ==
    /\ phase[t] = "idle" /\ bound.calls < MaxCalls /\ \A u \in Tasks: call[u].op # "fillbuf" /\ phase[u] # "view"
    /\ \E op \in cast.calls, at \in cast.seeks, n \in 1..2:
          /\ n = 2 => op \in {"write", "writeown"}
          /\ op \in {"readat", "writeat"} => at >= 0
          /\ op \notin {"seek", "readat", "writeat"} => \A x \in cast.seeks: at <= x
          /\ call' = [call EXCEPT ![t] = [op |-> op, n |-> n, at |-> at, lends |-> FALSE,
                                           tag |-> IF op = "write" /\ cast.lands THEN <<t, n>> ELSE None]]
          /\ (op = "writeown" /\ ~cast.beside) => st.lent # "orphan"
          /\ op = "fillbuf" => \A u \in Tasks: phase[u] = "idle"
    /\ phase' = [phase EXCEPT ![t] = "poll"] /\ known' = [known EXCEPT ![t] = Settled(st)]
    /\ bound' = [bound EXCEPT !.calls = @ + 1]
    /\ UNCHANGED <<cast, st, early, short>>

\* consume: at most what is read ahead.
consume(t) ==
    /\ phase[t] = "view" /\ phase' = [phase EXCEPT ![t] = "idle"]
    /\ \E n \in 0..Len(st.ahead): st' = consumed(st, n)
    /\ UNCHANGED <<cast, call, known, early, short, bound>>

drops(t) ==
    LET m == st.mine[t].job
        s == [st EXCEPT !.woken = @ \ {t}]
    IN /\ phase[t] = "pend" /\ phase' = [phase EXCEPT ![t] = "idle"]
       /\ (OwnsLent(t) /\ ~cast.beside) => \A u \in Tasks \ {t}: call[u].op # "writeown"
       /\ st' = CASE m # 0 /\ call[t].op = "writeat" -> orphan(s, t)
                  [] m # 0 -> [taken(s, m) EXCEPT !.mine[t] = NoRead]
                  [] OwnsLent(t) ->
                       Becomes(abandon_lent(s), {w \in DOMAIN s.log: s.log[w].state = "out" /\ \A u \in Tasks:
                           s.mine[u].job = 0 \/ w \notin Ids(s.jobs[s.mine[u].job].units)}, "settled")
                  [] OTHER -> s
       /\ call' = [call EXCEPT ![t] = NoCall] /\ known' = [known EXCEPT ![t] = {}]
       /\ UNCHANGED <<cast, early, short, bound>>

-----------------------------------------------------------------------------
\* The calls: the pool's, and the ring's, whose write may land in parts.
Put(s, j, res, got) ==
    LET w == s.jobs[j].waker
        e == [s EXCEPT !.jobs[j].res = res, !.jobs[j].got = got, !.jobs[j].waker = "none"]
    IN IF w = "file" THEN wake(e) ELSE IF w \in Tasks THEN [e EXCEPT !.woken = @ \union {w}] ELSE e

\* One more block of a write lands.
lands(s, j) ==
    LET b == s.jobs[j]
        id == b.units[b.done + 1]
        p == IF b.kind = "append" THEN Len(s.disk) ELSE b.at + b.done
    IN [s EXCEPT !.disk = IF p < Len(s.disk) THEN [s.disk EXCEPT ![p + 1] = id] ELSE Append(s.disk, id),
                 !.jobs[j].done = @ + 1,
                 !.log[id].at = IF @ < 0 THEN p ELSE @]

\* FileOp::complete: part of a write landed, and the rest goes on.
complete(j) ==
    LET b == st.jobs[j]
    IN /\ b.kind \in {"write", "append"} /\ b.res = "none" /\ b.done + 1 < Len(b.units)
       /\ st' = lands(st, j)
       /\ UNCHANGED <<cast, call, phase, known, early, short, bound>>

\* The call's last part: its end is left, and its waker woken.
ends(j) ==
    LET b == st.jobs[j]
    IN /\ b.kind # "free" /\ b.res = "none"
       /\ CASE b.kind = "read" -> st' = Put(st, j, "ok", Part(st.disk, b.at + 1, Len(b.units)))
            [] b.kind = "size" -> st' = Put(st, j, "ok", <<Len(st.disk)>>)
            [] OTHER -> LET l == lands(st, j)
                        IN b.done + 1 = Len(b.units) /\ st' = Put(l, j, "ok", <<Len(l.disk)>>)
       /\ UNCHANGED <<cast, call, phase, known, early, short, bound>>

fails(j) ==
    /\ cast.fails /\ bound.events < MaxEvents /\ bound' = [bound EXCEPT !.events = @ + 1]
    /\ st.jobs[j].kind \in {"read", "write", "append"} /\ st.jobs[j].res = "none"
    /\ LET ids == IF st.jobs[j].kind = "read" THEN {} ELSE Ids(st.jobs[j].units)
           own == IF st.writing.kind = "kept" THEN ids ELSE ids \ Settled(st)
       IN st' = Put(Becomes(Becomes(st, own, "refused"), ids \ own, "failed"), j, "err", <<>>)
    /\ UNCHANGED <<cast, call, phase, known, early, short>>

\* ECANCELED, or refused by a ring that polls: the pool finishes what is left.
finish_on_pool(j) ==
    /\ st.jobs[j].kind # "free" /\ st.jobs[j].res = "none" /\ st.jobs[j].via = "ring"
    /\ bound.events < MaxEvents /\ bound' = [bound EXCEPT !.events = @ + 1]
    /\ st' = [st EXCEPT !.jobs[j].via = "pool"]
    /\ UNCHANGED <<cast, call, phase, known, early, short>>

pool_empties ==
    /\ st.room /\ bound.events < MaxEvents /\ bound' = [bound EXCEPT !.events = @ + 1]
    /\ st' = [st EXCEPT !.room = FALSE]
    /\ UNCHANGED <<cast, call, phase, known, early, short>>
pool_fills ==
    /\ ~st.room
    /\ st' = [IF "file" \in st.starved THEN wake(st) ELSE st EXCEPT
                 !.room = TRUE, !.woken = @ \union (st.starved \ {"file"}), !.starved = {}]
    /\ UNCHANGED <<cast, call, phase, known, early, short, bound>>

Next ==
    \/ \E t \in Tasks: begin(t) \/ poll(t) \/ consume(t) \/ drops(t)
    \/ \E j \in 1..JOBS: complete(j) \/ ends(j) \/ fails(j) \/ finish_on_pool(j)
    \/ pool_empties \/ pool_fills

Spec == Init /\ [][Next]_vars

-----------------------------------------------------------------------------
(* A read finds every write that was accepted at the cursor, or that returned
   from its place, before the read began, through the blocks read ahead, the
   jobs out and the page cache; a flush answers once they are on the file. *)
ReadsSeeWrites == ~early

(* An accepted write is on the file, on its way there, or its failure is kept
   for the next flush and for every sync of the handle. *)
Carried(w) ==
    \/ w \in Ids(st.behind)
    \/ \E j \in 1..JOBS: st.jobs[j].kind \in {"write", "append"} /\ w \in Ids(st.jobs[j].units)
WritesKept ==
    \A w \in DOMAIN st.log:
        /\ st.log[w].state = "settled" => Landed(st, w) \/ Carried(w)
        /\ st.log[w].state = "failed" => st.lost \/ Carried(w)

Still ==
    /\ st.room /\ \A j \in 1..JOBS: st.jobs[j].kind = "free" \/ st.jobs[j].res # "none"
    /\ \A t \in Tasks: phase[t] = "idle" \/ (phase[t] = "pend" /\ t \notin st.woken)
(* Once no call is out, no task waits on the file. *)
NobodySleepsPast == Still => \A t \in Tasks: phase[t] = "idle"

(* A seek from the end goes to no place before the end of a write accepted
   before it. *)
SeekIsTrue == ~short

------------------------------------------------------------------------------
(***************************************************************************)
(* The syncs of a file and of its clones: fs/file/durable.rs. The record   *)
(* they share keeps one call out at a time, and the first failure for      *)
(* good. The system writes landed writes back when it likes; one it loses  *)
(* is reported to the next call that looks, and to no other.               *)
(***************************************************************************)

CONSTANTS DurTasks, MaxWrites, MaxSyncs, MaxLosses

VARIABLES
    kept,      \* Lost::failure: whether one is kept
    dur_calls,     \* Syncs: [out, made, ended, failed]
    dur_call,      \* the call out: "none", "out", "ok", "err"
    dur_waiters, dur_woken,
    dur_phase, dur_mine, dur_known,
    dur_disk,      \* writes landed: "dirty", "there", "gone"
    reported,  \* a loss no call was told of
    untrue, blamed,
    dur_bound

dur_vars == <<kept, dur_calls, dur_call, dur_waiters, dur_woken, dur_phase, dur_mine, dur_known, dur_disk, reported, untrue, blamed, dur_bound>>
tasks == <<dur_phase, dur_mine, dur_known, untrue, blamed>>
device == <<dur_disk, reported>>

Syncs == [out |-> 0, made |-> 0, ended |-> 0, failed |-> 0]
DurInit ==
    /\ kept = FALSE /\ dur_calls = Syncs /\ dur_call = "none" /\ dur_waiters = {} /\ dur_woken = {}
    /\ dur_phase = [t \in DurTasks |-> "idle"] /\ dur_mine = [t \in DurTasks |-> 0] /\ dur_known = [t \in DurTasks |-> {}]
    /\ dur_disk = <<>> /\ reported = TRUE /\ untrue = FALSE /\ blamed = FALSE
    /\ dur_bound = [syncs |-> 0, losses |-> 0]

\* A write of the handle or of a clone landed.
dur_lands ==
    /\ Cardinality(DOMAIN dur_disk) < MaxWrites
    /\ dur_disk' = [w \in 1..(Cardinality(DOMAIN dur_disk) + 1) |-> IF w \in DOMAIN dur_disk THEN dur_disk[w] ELSE "dirty"]
    /\ UNCHANGED <<kept, dur_calls, dur_call, dur_waiters, dur_woken, tasks, reported, dur_bound>>

\* The system wrote a write back, or lost it.
writes_back ==
    /\ \E w \in DOMAIN dur_disk:
          /\ dur_disk[w] = "dirty"
          /\ \/ dur_disk' = [dur_disk EXCEPT ![w] = "there"] /\ UNCHANGED <<reported, dur_bound>>
             \/ /\ dur_bound.losses < MaxLosses /\ dur_bound' = [dur_bound EXCEPT !.losses = @ + 1]
                /\ dur_disk' = [dur_disk EXCEPT ![w] = "gone"] /\ reported' = FALSE
    /\ UNCHANGED <<kept, dur_calls, dur_call, dur_waiters, dur_woken, tasks>>

\* FileIo::sync, once the flush answered: every write before it landed.
sync(t) ==
    /\ dur_phase[t] = "idle" /\ dur_bound.syncs < MaxSyncs /\ dur_bound' = [dur_bound EXCEPT !.syncs = @ + 1]
    /\ dur_phase' = [dur_phase EXCEPT ![t] = "poll"] /\ dur_mine' = [dur_mine EXCEPT ![t] = 0]
    /\ dur_known' = [dur_known EXCEPT ![t] = DOMAIN dur_disk]
    /\ UNCHANGED <<kept, dur_calls, dur_call, dur_waiters, dur_woken, device, untrue, blamed>>

\* Syncs::take: the end of the call out, whoever's.
take(s) ==
    IF s.call \notin {"ok", "err"} THEN s
    ELSE [s EXCEPT !.calls.ended = s.calls.out, !.calls.out = 0, !.call = "none",
                   !.calls.failed = IF s.call = "err" /\ @ = 0 THEN s.calls.out ELSE @,
                   !.kept = @ \/ s.call = "err"]

\* Syncs::poll, of the state after the call out was taken.
dur_answers(s, m) ==
    IF m # 0 /\ s.calls.ended >= m
    THEN [s |-> s, mine |-> m, answer |-> IF s.calls.failed # 0 /\ s.calls.failed <= m THEN "err" ELSE "ok"]
    ELSE IF s.calls.out # 0 THEN [s |-> s, mine |-> m, answer |-> "pending"]
    ELSE IF s.kept THEN [s |-> s, mine |-> m, answer |-> "err"]
    ELSE [s |-> [s EXCEPT !.calls.made = @ + 1, !.calls.out = s.calls.made + 1, !.call = "out"],
          mine |-> s.calls.made + 1, answer |-> "pending"]

dur_register(t, pending) == dur_waiters \union {t}

\* Lost::poll_sync.
poll_sync(t) ==
    LET s == [kept |-> kept, calls |-> dur_calls, call |-> dur_call]
        own == dur_mine[t] # 0 /\ dur_calls.ended >= dur_mine[t]
        p == dur_answers(IF own THEN s ELSE take(s), dur_mine[t])
    IN /\ dur_phase[t] = "poll" \/ (dur_phase[t] = "pend" /\ t \in dur_woken)
       /\ kept' = p.s.kept /\ dur_calls' = p.s.calls /\ dur_call' = p.s.call
       /\ dur_waiters' = dur_register(t, p.answer = "pending") /\ dur_woken' = dur_woken \ {t}
       /\ dur_phase' = [dur_phase EXCEPT ![t] = IF p.answer = "pending" THEN "pend" ELSE "idle"]
       /\ dur_mine' = [dur_mine EXCEPT ![t] = IF p.answer = "pending" THEN p.mine ELSE 0]
       /\ dur_known' = [dur_known EXCEPT ![t] = IF p.answer = "pending" THEN @ ELSE {}]
       /\ untrue' = (untrue \/ (p.answer = "ok" /\ \E w \in dur_known[t]: dur_disk[w] # "there"))
       /\ blamed' = (blamed \/ (p.answer = "err" /\ p.mine # 0 /\ p.s.calls.failed > p.mine))
       /\ UNCHANGED <<device, dur_bound>>

\* The sync's future is dropped: its call stays with the record.
dur_drops(t) ==
    /\ dur_phase[t] = "pend" /\ dur_phase' = [dur_phase EXCEPT ![t] = "idle"]
    /\ dur_mine' = [dur_mine EXCEPT ![t] = 0] /\ dur_known' = [dur_known EXCEPT ![t] = {}] /\ dur_woken' = dur_woken \ {t}
    /\ UNCHANGED <<kept, dur_calls, dur_call, dur_waiters, device, untrue, blamed, dur_bound>>

\* sync_on: the call writes back what it finds, and is told of a loss no call was told of.
sync_call ==
    /\ dur_call = "out"
    /\ dur_call' = IF reported THEN "ok" ELSE "err"
    /\ reported' = TRUE /\ dur_disk' = [w \in DOMAIN dur_disk |-> IF dur_disk[w] = "dirty" THEN "there" ELSE dur_disk[w]]
    /\ dur_woken' = dur_woken \union dur_waiters /\ dur_waiters' = {}
    /\ UNCHANGED <<kept, dur_calls, tasks, dur_bound>>

DurNext ==
    \/ dur_lands \/ writes_back \/ sync_call
    \/ \E t \in DurTasks: sync(t) \/ poll_sync(t) \/ dur_drops(t)
DurSpec == DurInit /\ [][DurNext]_dur_vars

(* A sync that answers Ok covers every write that landed before it was called:
   no loss that another call was told of, of any handle, goes unseen. *)
SyncIsTrue == ~untrue

(* A sync fails for its own call or for one made before it, never for a later
   call's failure. *)
FailsForEarlier == ~blamed

(* A sync does not wait once no call is out. *)
SyncsEnd ==
    ~ \E t \in DurTasks: dur_phase[t] = "pend" /\ t \notin dur_woken /\ dur_call # "out"
                      /\ \A u \in DurTasks: ~(dur_phase[u] = "poll") /\ u \notin dur_woken

------------------------------------------------------------------------------
(***************************************************************************)
(* The calls of a file made of several positional calls: read_many_at      *)
(* (fs/file/many.rs), a window of reads out at once, and copy_range_to     *)
(* (fs/file/copy.rs), one chunk after another, in the kernel or through a  *)
(* buffer. `range_end' (fs/file/space.rs) is theirs and allocate's.        *)
(***************************************************************************)

CONSTANTS
    Kinds,         \* of "many", "copy"
    RangeReads,         \* how many reads a call makes
    MANY_AT_ONCE,
    COPY_CHUNK, MaxLen, MAX_OFFSET,
    MayFail

VARIABLES
    range_kind,
    full,     \* the buffers with no room, which no call reads into
    waiting,  \* the next read to go out
    range_out,      \* the reads out, and "ended" or not
    range_ends,     \* the reads' ends: 0 for none, i for read i's
    range_woken, range_phase,
    args, range_done, in_kernel, chunk, dest, left, range_answer

range_vars == <<range_kind, full, waiting, range_out, range_ends, range_woken, range_phase, args, range_done, in_kernel, chunk, dest, left, range_answer>>
many == <<full, waiting, range_out, range_ends>>
copy == <<args, range_done, in_kernel, chunk, dest, left, range_answer>>

\* space.rs: where the range ends, if a file can have it (-1 if not).
range_end(offset, len) == IF offset + len <= MAX_OFFSET THEN offset + len ELSE -1

NoChunk == [want |-> 0, res |-> "none", n |-> 0]
RangeInit ==
    /\ range_kind \in Kinds /\ full \in (IF range_kind = "many" THEN SUBSET (1..RangeReads) ELSE {{}}) /\ waiting = 1
    /\ range_out = [i \in {} |-> "out"] /\ range_ends = [i \in 1..RangeReads |-> 0] /\ range_woken = FALSE /\ range_phase = "poll"
    /\ args \in [from: IF range_kind = "copy" THEN 0..1 ELSE {0}, to: IF range_kind = "copy" THEN 0..MaxLen ELSE {0},
                 len: IF range_kind = "copy" THEN 0..MaxLen ELSE {0}, same: BOOLEAN]
    /\ range_done = 0 /\ in_kernel \in BOOLEAN /\ chunk = NoChunk /\ dest = {} /\ left = FALSE /\ range_answer = -1

-----------------------------------------------------------------------------
fills(w, have) ==
    LET more == {i \in w..RangeReads: i \notin full}
    IN {i \in more: Cardinality({k \in more: k <= i}) <= MANY_AT_ONCE - have}
\* What is behind the reads out: the first that waits for room.
NextWaiting(w, have) ==
    LET more == {i \in w..RangeReads: i \notin full} \ fills(w, have)
    IN IF more = {} \/ have + Cardinality(fills(w, have)) < MANY_AT_ONCE THEN RangeReads + 1
       ELSE CHOOSE i \in w..RangeReads: (i - 1 \in fills(w, have) \/ i = w) /\ \A k \in fills(w, have): k < i

\* Whether a look that ended none waits.
looks_again(o, w, had) == Cardinality(DOMAIN o) = had

\* read_many_at: fills the window, takes the ends, and looks again if one came.
poll_many ==
    LET go == fills(waiting, Cardinality(DOMAIN range_out))
        w == NextWaiting(waiting, Cardinality(DOMAIN range_out))
        all == [i \in DOMAIN range_out \union go |-> IF i \in DOMAIN range_out THEN range_out[i] ELSE "out"]
        ended == {i \in DOMAIN all: all[i] = "ended"}
        rest == [i \in DOMAIN all \ ended |-> all[i]]
    IN /\ range_kind = "many" /\ (range_phase = "poll" \/ (range_phase = "pend" /\ range_woken))
       /\ waiting' = w /\ range_out' = rest /\ range_woken' = FALSE
       /\ range_ends' = [i \in 1..RangeReads |-> IF i \in ended \/ (i \in full /\ i >= waiting /\ i < w) THEN i ELSE range_ends[i]]
       /\ range_phase' = IF DOMAIN rest = {} /\ w > RangeReads THEN "done"
                   ELSE IF looks_again(rest, w, Cardinality(DOMAIN all)) THEN "pend" ELSE "poll"
       /\ UNCHANGED <<range_kind, full, copy>>

read_ends ==
    /\ range_kind = "many"
    /\ \E i \in DOMAIN range_out: range_out[i] = "out" /\ range_out' = [range_out EXCEPT ![i] = "ended"]
    /\ range_woken' = TRUE
    /\ UNCHANGED <<range_kind, full, waiting, range_ends, range_phase, copy>>

-----------------------------------------------------------------------------
RangeFewer(a, b) == IF a < b THEN a ELSE b
Overlaps == args.same /\ args.from < range_end(args.to, args.len) /\ args.to < range_end(args.from, args.len)

Chunk(n) == RangeFewer(args.len - n, COPY_CHUNK)
Answers(n) == range_phase' = "done" /\ range_answer' = n /\ chunk' = NoChunk

\* copy_range_to: the ranges are looked at, then the first chunk goes out.
copy_range_to ==
    /\ range_kind = "copy" /\ range_phase = "poll"
    /\ IF range_end(args.from, args.len) < 0 \/ range_end(args.to, args.len) < 0 \/ Overlaps
       THEN Answers(-2) ELSE IF args.len = 0 THEN Answers(0)
       ELSE /\ chunk' = [NoChunk EXCEPT !.want = Chunk(0)] /\ range_phase' = "pend" /\ UNCHANGED range_answer
    /\ range_woken' = FALSE /\ UNCHANGED <<range_kind, many, args, range_done, in_kernel, dest, left>>

\* kernel_chunk, buffered_chunk: the chunk's call, whose task may have gone.
chunk_runs ==
    /\ range_kind = "copy" /\ chunk.want # 0 /\ chunk.res = "none"
    /\ \/ \E n \in 0..chunk.want:
            /\ chunk' = [chunk EXCEPT !.res = "ok", !.n = n]
            /\ dest' = dest \union {args.to + range_done + i: i \in 0..(n - 1)}
       \/ /\ MayFail /\ chunk' = [chunk EXCEPT !.res = "err"]
          /\ \E n \in 0..(IF in_kernel THEN 0 ELSE chunk.want - 1):
                dest' = dest \union {args.to + range_done + i: i \in 0..(n - 1)}
       \/ /\ in_kernel /\ chunk' = [chunk EXCEPT !.res = "unavailable"] /\ UNCHANGED dest
    /\ range_woken' = TRUE /\ UNCHANGED <<range_kind, many, range_phase, args, range_done, in_kernel, left, range_answer>>

GoesOn(n, kernel) ==
    /\ range_done' = n /\ in_kernel' = kernel
    /\ IF n < args.len THEN chunk' = [NoChunk EXCEPT !.want = Chunk(n)] /\ UNCHANGED <<range_phase, range_answer>> ELSE Answers(n)
\* What the call answers when a chunk is its last.
ends_with(r, d) == IF r # "ok" /\ d = 0 THEN -2 ELSE d
range_step ==
    /\ range_kind = "copy" /\ range_phase = "pend" /\ range_woken /\ chunk.res # "none" /\ range_woken' = FALSE
    /\ CASE chunk.res = "ok" /\ chunk.n > 0 -> GoesOn(range_done + chunk.n, in_kernel)
         [] chunk.res = "unavailable" /\ range_done = 0 -> GoesOn(0, FALSE)
         [] OTHER -> Answers(ends_with(chunk.res, range_done)) /\ UNCHANGED <<range_done, in_kernel>>
    /\ UNCHANGED <<range_kind, many, args, dest, left>>

\* The future is dropped: the reads out end by themselves, a chunk is left to the file.
range_drops ==
    /\ range_phase = "pend" /\ range_phase' = "gone" /\ left' = (chunk.want # 0)
    /\ UNCHANGED <<range_kind, full, waiting, range_out, range_ends, range_woken, args, range_done, in_kernel, chunk, dest, range_answer>>

RangeNext == poll_many \/ read_ends \/ copy_range_to \/ chunk_runs \/ range_step \/ range_drops
RangeSpec == RangeInit /\ [][RangeNext]_range_vars

(* Many reads at once answer each in its own place, none before it ended, with
   no more out at once than the window holds. *)
ManyAnswered ==
    /\ (range_kind = "many" /\ range_phase = "done") => \A i \in 1..RangeReads: range_ends[i] = i
    /\ Cardinality(DOMAIN range_out) <= MANY_AT_ONCE
    /\ (range_kind = "many" /\ range_phase = "pend" /\ ~range_woken) => \E i \in DOMAIN range_out: range_out[i] = "out"

(* A copy answers bytes that are in the other file, from the first of its range
   on, and fails only if no chunk of it landed whole; it touches no byte past
   the range. *)
CopiedIsThere ==
    /\ dest \subseteq {args.to + i: i \in 0..(args.len - 1)}
    /\ (range_kind = "copy" /\ range_phase = "done") =>
          IF range_answer >= 0 THEN {args.to + i: i \in 0..(range_answer - 1)} \subseteq dest ELSE range_done = 0
==============================================================================
