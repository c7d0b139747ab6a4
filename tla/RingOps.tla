------------------------------ MODULE RingOps ------------------------------
(***************************************************************************)
(* The operations a shard's ring has out, src/rt/shard/ring.rs with        *)
(* ring/recover.rs, ring/keeper.rs, ring/exits.rs and the slab of          *)
(* syscore/linux/iouring/ops.rs: from their submission to their end, with  *)
(* cancels, files' calls waiting for room, zero-copy sends held for their  *)
(* notification, a takeover by another thread, completions the kernel      *)
(* drops, and the shard's going.                                           *)
(*                                                                         *)
(* A side is a source's side, a file's call or a child's watch: it has one *)
(* operation out at a time.  The user data of an operation is its place in *)
(* the slab and the place's generation; the three slabs, which tags keep   *)
(* apart, are one here.  The kernel (external) takes the queued entries in *)
(* order, ends requests in any order, and may drop a final completion.     *)
(* Places are enough for every operation (the slabs hold 2^30 and more).   *)
(***************************************************************************)
EXTENDS Integers, Sequences, FiniteSets, SequencesExt

CONSTANTS Sides, None, Casts,      \* Casts: what each side issues, chosen as the ring is made
          Writers,                 \* the sides whose operations are not a read side's
          Places, cap,
          ReapableOnes,            \* a subset of BOOLEAN: what the configuration may say
          MayFail,                 \* a wait of the keeper may fail
          MaxSubmits, MaxCancels, MaxDrops, MaxArrivals, MaxAdopts,
          MaxTroubles  \* bounds: the last of cancels, drops and adoptions together

VARIABLES
    kind,      \* what each side issues: "plain", "poll", "multi", "accept", "zc", "file", "exit"
    reapable,
    slab, free,             \* the slots [generation, op] and the free ones, last freed first
    queue,                  \* entries not yet with the kernel: the submission queue and what waits behind it
    room, in_kernel, writes,
    zc_denied,
    kern, timers, cq,       \* external: requests in the kernel, its sweep timeouts, the completions posted
    dropped,                \* completions dropped and not yet seen by the poller
    unswept,                \* history: the notes as the kernel dropped a sweep's own completion
    under_way, notes,       \* the recovery
    swept, kept,            \* user data whose memory the recovery holds, or that is kept for good
    side, ops_out,          \* what each side waits on, and its source's count
    adopting,
    phase,                  \* "runs", "going", "files" (only files' calls are waited for), "keeper", "gone"
    submits, cancels, drops, arrivals, adopts

table == <<slab, free>>
rooms == <<room, in_kernel>>
kernel == <<kern, timers>>
losses == <<dropped, unswept>>
recovery == <<under_way, notes, swept>>
counts == <<submits, cancels, drops, arrivals, adopts>>
vars == <<kind, reapable, table, queue, rooms, writes, zc_denied, kernel, cq, losses, recovery,
          kept, side, ops_out, adopting, phase, counts>>

More == drops + cancels + adopts < MaxTroubles
RECOVER == <<0, 0>>
SWEEP == <<0, 1>>
Init ==
    /\ kind \in Casts /\ reapable \in ReapableOnes
    /\ slab = [i \in 1..Places |-> [gen |-> 0, op |-> None]] /\ free = [i \in 1..Places |-> Places + 1 - i]
    /\ queue = <<>> /\ room = <<>> /\ in_kernel = 0 /\ writes = 0 /\ zc_denied = FALSE
    /\ kern = <<>> /\ timers = {} /\ cq = <<>> /\ dropped = 0 /\ unswept = {}
    /\ under_way = FALSE /\ notes = {} /\ swept = {} /\ kept = {}
    /\ side = [s \in Sides |-> None] /\ ops_out = [s \in Sides |-> 0] /\ adopting = None
    /\ phase = "runs" /\ submits = 0 /\ cancels = 0 /\ drops = 0 /\ arrivals = 0 /\ adopts = 0

-----------------------------------------------------------------------------
\* Ops: keys, get_mut, len.  A stale user data names nothing.
keys == {<<i, slab[i].gen>>: i \in {j \in 1..Places: slab[j].op # None}}
get(u) == slab[u[1]].op
in_flight == Cardinality(keys)

Of(mems) == {u \in keys: get(u).mem \in mems}
FileOps == Of({"file"})
ExitOps == Of({"exit"})
SourceOps == keys \ (FileOps \union ExitOps)

\* stays: what a recovery leaves alone
Staying == Of({"held", "zombie"})

counts_as_write(u) == u \in SourceOps /\ ~get(u).read /\ get(u).mem # "held"

\* insert: the place freed last, and its generation's user data
insert(op) ==
    /\ slab' = [slab EXCEPT ![Last(free)].op = op] /\ free' = Front(free)
next_user_data == <<Last(free), slab[Last(free)].gen>>

\* remove, drain: the places of these operations are free, each for another generation.
remove(us) ==
    /\ slab' = [i \in 1..Places |->
                   IF <<i, slab[i].gen>> \in us THEN [gen |-> slab[i].gen + 1, op |-> None] ELSE slab[i]]
    /\ free' = free \o SetToSeq({u[1]: u \in us})

\* get_mut, set: each operation of us is ops[u] from here on, at its place.
become(us, ops) ==
    /\ slab' = [i \in 1..Places |->
                   IF <<i, slab[i].gen>> \in us THEN [slab[i] EXCEPT !.op = ops[<<i, slab[i].gen>>]] ELSE slab[i]]
    /\ UNCHANGED free

\* op_done of these operations' sources, an exit's finish, a file's slot filled: each side goes on.
op_done(us) ==
    /\ side' = [s \in Sides |-> IF side[s] \in us THEN None ELSE side[s]]
    /\ ops_out' = [s \in Sides |-> ops_out[s] - Cardinality({u \in us \cap SourceOps: get(u).side = s})]

Issue(u, mem) == [does |-> "issue", on |-> u, mem |-> mem]
Cancel(u) == [does |-> "cancel", on |-> u, mem |-> ""]
Does(what) == [does |-> what, on |-> RECOVER, mem |-> ""]
Queued == {e.on: e \in {x \in ToSet(queue): x.does = "issue"}}

admit_waiting(n, then) ==
    LET left == cap - (in_kernel - n)
        goes == IF Len(room) < left THEN Len(room) ELSE left
    IN  /\ in_kernel' = in_kernel - n + goes
        /\ queue' = queue \o [i \in 1..goes |-> Issue(room[i], "file")] \o then
        /\ room' = SubSeq(room, goes + 1, Len(room))

-----------------------------------------------------------------------------
\* submit, submit_file, watch_exit; a zero-copy send the ring was denied goes with a copy.
submit(s) ==
    /\ phase = "runs" /\ side[s] = None /\ submits < MaxSubmits /\ free # <<>>
    /\ LET mem == IF kind[s] = "zc" /\ (zc_denied \/ ~reapable) THEN "plain" ELSE kind[s]
           u == next_user_data
       IN  /\ insert([side |-> s, mem |-> mem, read |-> s \notin Writers])
           /\ side' = [side EXCEPT ![s] = u]
           /\ ops_out' = IF mem \in {"file", "exit"} THEN ops_out ELSE [ops_out EXCEPT ![s] = @ + 1]
           /\ writes' = IF mem \in {"file", "exit"} \/ s \notin Writers THEN writes ELSE writes + 1
           /\ IF mem # "file" \/ (room = <<>> /\ in_kernel < cap)
              THEN /\ queue' = Append(queue, Issue(u, mem)) /\ UNCHANGED room
                   /\ in_kernel' = IF mem = "file" THEN in_kernel + 1 ELSE in_kernel
              ELSE room' = Append(room, u) /\ UNCHANGED <<queue, in_kernel>>
    /\ submits' = submits + 1
    /\ UNCHANGED <<kind, reapable, zc_denied, kernel, cq, losses, recovery, kept, adopting, phase,
                   cancels, drops, arrivals, adopts>>

\* cancel: a source's operation still in the table is asked to end.
cancel(s) ==
    /\ phase \in {"runs", "going"} /\ side[s] \in SourceOps
    /\ More /\ cancels < MaxCancels /\ cancels' = cancels + 1
    /\ queue' = Append(queue, Cancel(side[s]))
    /\ UNCHANGED <<kind, reapable, table, rooms, writes, zc_denied, kernel, cq, losses, recovery, kept,
                   side, ops_out, adopting, phase, submits, drops, arrivals, adopts>>

\* dropped: the poller sees the kernel's count, and asks for a recovery.
dropped_seen ==
    /\ dropped > 0 /\ phase # "gone" /\ dropped' = 0 /\ queue' = Append(queue, Does("recover"))
    /\ UNCHANGED <<kind, reapable, table, rooms, writes, zc_denied, kernel, cq, unswept, recovery, kept, side,
                   ops_out, adopting, phase, counts>>

-----------------------------------------------------------------------------
(* The kernel (external). *)
Cqe(u, res, more) == [on |-> u, res |-> res, more |-> more, of |-> {}]

\* A completion is posted, or where that may be, dropped and counted.
Posts(cqe, may_drop) ==
    \/ cq' = Append(cq, cqe) /\ UNCHANGED <<losses, drops>>
    \/ /\ may_drop /\ More /\ drops < MaxDrops /\ drops' = drops + 1 /\ dropped' = dropped + 1 /\ UNCHANGED cq
       /\ unswept' = IF cqe.on = SWEEP /\ cqe.res = "ok" THEN unswept \union notes ELSE unswept

shard_vars == <<kind, reapable, table, rooms, writes, zc_denied, recovery, kept, side, ops_out,
                adopting, phase, submits, cancels, adopts>>

\* The first queued entry reaches the kernel: a cancel marks what it finds.
kernel_takes ==
    /\ queue # <<>> /\ phase # "gone" /\ queue' = Tail(queue) /\ UNCHANGED <<shard_vars, arrivals>>
    /\ LET e == queue[1]
           Marked(us) == [u \in DOMAIN kern |-> IF u \in us THEN [kern[u] EXCEPT !.cancelled = TRUE] ELSE kern[u]]
       IN  CASE e.does = "issue" ->
                  /\ kern' = [u \in DOMAIN kern \union {e.on} |->
                                 IF u = e.on THEN [cancelled |-> FALSE, at |-> "out", mem |-> e.mem] ELSE kern[u]]
                  /\ UNCHANGED <<timers, cq, losses, drops>>
             [] e.does = "cancel" -> kern' = Marked({e.on}) /\ UNCHANGED <<timers, cq, losses, drops>>
             [] e.does = "cancel_any" ->
                  /\ kern' = Marked(DOMAIN kern) /\ timers' = {[t EXCEPT !.cancelled = TRUE]: t \in timers}
                  /\ UNCHANGED <<cq, losses, drops>>
             [] e.does = "sweep" ->
                  /\ timers' = timers \union {[of |-> notes, cancelled |-> FALSE]}
                  /\ UNCHANGED <<kern, cq, losses, drops>>
             [] e.does = "recover" -> Posts(Cqe(RECOVER, "ok", FALSE), TRUE) /\ UNCHANGED kernel

\* The sweep's timeout runs out, or was cancelled.
kernel_fires(t) ==
    /\ phase # "gone" /\ timers' = timers \ {t} /\ UNCHANGED <<shard_vars, queue, kern, arrivals>>
    /\ Posts([on |-> SWEEP, res |-> IF t.cancelled THEN "cancelled" ELSE "ok", more |-> FALSE, of |-> t.of], TRUE)

\* What a request may post at each place, and where that leaves it ("" when it is over).
Steps(u) ==
    LET k == kern[u]
        multi == k.at = "out" /\ k.mem \in {"multi", "accept"}
        zc == k.mem = "zc"
        end == {[cqe |-> Cqe(u, r, FALSE), to |-> ""]: r \in {"ok"} \union (IF k.cancelled THEN {"cancelled"} ELSE {})}
    IN  (IF k.at = "out" THEN end ELSE {})
          \union (IF multi /\ arrivals < MaxArrivals THEN {[cqe |-> Cqe(u, "arrival", TRUE), to |-> "out"]} ELSE {})
          \union (IF zc /\ k.at = "out"
                  THEN {[cqe |-> Cqe(u, "ok", TRUE), to |-> "notif"], [cqe |-> Cqe(u, "notif", FALSE), to |-> "first"],
                        [cqe |-> Cqe(u, "refused", FALSE), to |-> ""]}
                  ELSE {})
          \union (IF k.at = "notif" THEN {[cqe |-> Cqe(u, "notif", FALSE), to |-> ""]} ELSE {})
          \union (IF k.at = "first" THEN {[cqe |-> Cqe(u, "ok", TRUE), to |-> ""]} ELSE {})

kernel_posts(u) ==
    /\ phase # "gone"
    /\ \E step \in Steps(u):
         /\ kern' = IF step.to = "" THEN [v \in DOMAIN kern \ {u} |-> kern[v]] ELSE [kern EXCEPT ![u].at = step.to]
         /\ arrivals' = IF step.cqe.res = "arrival" THEN arrivals + 1 ELSE arrivals
         /\ Posts(step.cqe, step.cqe.res # "arrival")
    /\ UNCHANGED <<shard_vars, queue, timers>>

-----------------------------------------------------------------------------
(* complete: the completions, in order. *)
Reaps(u) == cq # <<>> /\ phase # "gone" /\ cq[1].on = u
Reaped ==
    /\ cq' = Tail(cq)
    /\ adopting' = IF adopting # None /\ adopting.left > 0 THEN [adopting EXCEPT !.left = @ - 1] ELSE adopting
    /\ UNCHANGED <<kind, reapable, kernel, kept, phase, losses, counts>>

\* The plain end, complete_exit, and a multishot's last completion: the operation ends for its side.
complete_ends(u) ==
    /\ Reaps(u) /\ u \in keys /\ ~cq[1].more /\ get(u).mem \in {"plain", "poll", "multi", "accept", "exit"}
    /\ Reaped /\ op_done({u}) /\ remove({u})
    /\ writes' = IF counts_as_write(u) THEN writes - 1 ELSE writes
    /\ UNCHANGED <<queue, rooms, zc_denied, recovery>>

\* arrived, accepted, readied: more come, and the operation stays.
complete_arrival(u) ==
    /\ Reaps(u) /\ cq[1].res = "arrival" /\ Reaped
    /\ UNCHANGED <<table, queue, rooms, writes, zc_denied, recovery, side, ops_out>>

\* complete_file: a call waiting for room goes in.
complete_file(u) ==
    /\ Reaps(u) /\ u \in FileOps /\ Reaped /\ op_done({u}) /\ remove({u}) /\ admit_waiting(1, <<>>)
    /\ UNCHANGED <<writes, zc_denied, recovery>>

\* zero_copy, a send's first completion: it ends for its side, and stays for its notification if one comes.
zero_copy(u) ==
    /\ Reaps(u) /\ u \in Of({"zc", "noted"}) /\ cq[1].res # "notif" /\ Reaped /\ op_done({u})
    /\ writes' = writes - 1 /\ zc_denied' = (zc_denied \/ cq[1].res = "refused")
    /\ IF cq[1].more /\ get(u).mem = "zc"
       THEN become({u}, [v \in {u} |-> [get(v) EXCEPT !.mem = "held"]])
       ELSE remove({u})
    /\ UNCHANGED <<queue, rooms, recovery>>

\* zero_copy, a notification: the buffer goes, or the first completion is still to come.
zero_copy_notified(u) ==
    /\ Reaps(u) /\ u \in Of({"zc", "held"}) /\ cq[1].res = "notif" /\ Reaped
    /\ IF get(u).mem = "held" THEN remove({u}) ELSE become({u}, [v \in {u} |-> [get(v) EXCEPT !.mem = "noted"]])
    /\ UNCHANGED <<queue, rooms, writes, zc_denied, recovery, side, ops_out>>

\* bury: a zombie's end, told to no side
bury(u) ==
    /\ Reaps(u) /\ u \in Of({"zombie"}) /\ ~cq[1].more /\ Reaped /\ remove({u})
    /\ ops_out' = [ops_out EXCEPT ![get(u).side] = @ - 1]
    /\ UNCHANGED <<queue, rooms, writes, zc_denied, recovery, side>>

\* late, swept_file_ended, exit_unknown: the end of an operation no longer in the table.  A zero-copy
\* send's first completion says more come, and is passed over.
late(u) ==
    /\ Reaps(u) /\ u \notin keys \union {RECOVER, SWEEP} /\ cq[1].res # "arrival" /\ Reaped
    /\ swept' = IF cq[1].more THEN swept ELSE swept \ {u}
    /\ UNCHANGED <<table, queue, rooms, writes, zc_denied, under_way, notes, side, ops_out>>

-----------------------------------------------------------------------------
(* The recovery. *)
\* begin_recovery: what is out and not yet noted is noted and cancelled, and the sweep armed.
Found == (keys \ (Staying \union ToSet(room))) \ notes

begin_recovery ==
    /\ Reaps(RECOVER) /\ Reaped /\ under_way' = TRUE /\ notes' = notes \union Found
    /\ queue' = IF Found = {} THEN queue ELSE queue \o <<Does("cancel_any"), Does("sweep")>>
    /\ UNCHANGED <<table, rooms, writes, zc_denied, swept, side, ops_out>>

\* sweep_source, sweep_file, sweep_exit: of the notes due, those still out
swept_of(due) == (due \cap keys) \ Staying

\* sweep, of the notes that are due: each still out ends for its side, its memory kept here.
sweep_due(due) ==
    LET out == swept_of(due)
        calls == Cardinality(out \cap FileOps)
    IN  /\ notes' = notes \ due /\ under_way' = (notes' # {})
        /\ swept' = swept \union out /\ op_done(out) /\ remove(out)
        /\ writes' = writes - Cardinality({u \in out: counts_as_write(u)})
        /\ admit_waiting(calls, IF notes' # {} THEN <<Does("sweep")>> ELSE <<>>)

\* Due are the notes the timeout was armed for, a file's call only once the linger time ran out, and maybe
\* some noted since.
sweep ==
    /\ Reaps(SWEEP) /\ Reaped /\ UNCHANGED zc_denied
    /\ IF cq[1].res = "cancelled" \/ ~under_way
       THEN UNCHANGED <<table, queue, rooms, writes, recovery, side, ops_out>>
       ELSE \E due \in SUBSET notes:
              /\ \A u \in notes \cap cq[1].of: u \in due \/ (u \in FileOps)
              /\ sweep_due(due)

-----------------------------------------------------------------------------
(* A takeover: another thread runs the ring from now on. *)
\* adopt looks at what the kernel has, and handles what it posted already.
adopt_looks ==
    /\ phase = "runs" /\ adopting = None /\ More /\ adopts < MaxAdopts /\ adopts' = adopts + 1
    /\ adopting' = [old |-> SourceOps \ Queued, left |-> Len(cq)]
    /\ UNCHANGED <<kind, reapable, table, queue, rooms, writes, zc_denied, kernel, cq, losses, recovery, kept,
                   side, ops_out, phase, submits, cancels, drops, arrivals>>

\* adopt, adopted: each poll and receive of the old thread is a zombie, and its side told it ended.
adopt ==
    /\ adopting # None /\ adopting.left = 0 /\ adopting' = None
    /\ LET us == adopting.old \cap Of({"poll", "multi"})
       IN  /\ become(us, [u \in us |-> [get(u) EXCEPT !.mem = "zombie", !.read = TRUE]])
           /\ writes' = writes - Cardinality({u \in us: counts_as_write(u)})
           /\ side' = [s \in Sides |-> IF side[s] \in us THEN None ELSE side[s]]
           /\ queue' = queue \o SetToSeq({Cancel(u): u \in us})
    /\ UNCHANGED <<kind, reapable, rooms, zc_denied, kernel, cq, losses, recovery, kept, ops_out, phase, counts>>

-----------------------------------------------------------------------------
(* The shard goes. *)
\* cancel_all: a call that waits for room ends here, and the kernel is asked to cancel the rest.
cancel_all ==
    /\ phase = "runs" /\ adopting = None /\ phase' = IF reapable THEN "keeper" ELSE "going"
    /\ op_done(ToSet(room)) /\ remove(ToSet(room)) /\ room' = <<>>
    /\ queue' = IF keys \ ToSet(room) = {} THEN queue ELSE Append(queue, Does("cancel_any"))
    /\ UNCHANGED <<kind, reapable, in_kernel, writes, zc_denied, kernel, cq, losses, recovery, kept, adopting, counts>>

\* forget_sources, as the short wait is over: what is still out ends, its memory kept for good.
forget_sources ==
    /\ phase = "going" /\ phase' = "files"
    /\ LET us == keys \ FileOps
       IN  /\ op_done(us \ Of({"held"})) /\ remove(us) /\ kept' = kept \union us
           /\ writes' = writes - Cardinality({u \in us: counts_as_write(u)})
    /\ UNCHANGED <<kind, reapable, queue, rooms, zc_denied, kernel, cq, losses, recovery, adopting, counts>>

\* forget_files, as the linger time is over, and the ring's drop (keep_leftovers)
forget_files ==
    /\ phase = "files" /\ phase' = "gone"
    /\ op_done(FileOps) /\ remove(FileOps) /\ kept' = kept \union FileOps \union swept /\ swept' = {}
    /\ UNCHANGED <<kind, reapable, queue, rooms, writes, zc_denied, kernel, cq, losses, under_way, notes, adopting,
                   counts>>

\* keep: none is out, or the ring cannot be waited on (forget_stuck); the ring goes.
DropKeepsNothing ==
    /\ phase = "keeper" /\ phase' = "gone" /\ (in_flight = 0 \/ MayFail)
    /\ op_done(keys \ Of({"held"})) /\ remove(keys) /\ kept' = kept \union keys /\ writes' = 0 /\ swept' = {}
    /\ UNCHANGED <<kind, reapable, queue, rooms, zc_denied, kernel, cq, losses, under_way, notes, adopting, counts>>

keep_ends ==
    /\ phase = "keeper" /\ phase' = "gone" /\ (in_flight = 0 \/ MayFail)
    /\ op_done(keys \ Of({"held"})) /\ remove(keys) /\ kept' = kept \union keys \union swept /\ writes' = 0 /\ swept' = {}
    /\ UNCHANGED <<kind, reapable, queue, rooms, zc_denied, kernel, cq, losses, under_way, notes, adopting, counts>>

Next ==
    \/ \E s \in Sides: submit(s) \/ cancel(s)
    \/ dropped_seen \/ kernel_takes \/ (\E t \in timers: kernel_fires(t)) \/ (\E u \in DOMAIN kern: kernel_posts(u))
    \/ \E u \in {c.on: c \in ToSet(cq)}:
         complete_ends(u) \/ complete_arrival(u) \/ complete_file(u) \/ zero_copy(u) \/ zero_copy_notified(u)
           \/ bury(u) \/ late(u)
    \/ begin_recovery \/ sweep
    \/ adopt_looks \/ adopt
    \/ cancel_all \/ forget_sources \/ forget_files \/ keep_ends

Spec == Init /\ [][Next]_vars

-----------------------------------------------------------------------------
(* Properties. *)
\* The memory of every request the kernel has, or will be given, is held: in the table, by the recovery, or
\* for good (ring.rs, recover.rs, keeper.rs).  A zero-copy send that was notified needs its buffer no more.
MemoryKept ==
    \A u \in {v \in DOMAIN kern: kern[v].at # "first"}
               \union (IF phase = "gone" THEN {} ELSE Queued):
        u \in keys \union swept \union kept

\* The counts agree with what is out: a source's count is its operations not yet over for it, a side waits on
\* an operation in the table that ends for it, the calls in the kernel are at most the cap, none waits while
\* there is room, and the writes are counted.
CountsAgree ==
    /\ \A s \in Sides: ops_out[s] = Cardinality({u \in SourceOps: get(u).side = s /\ get(u).mem # "held"})
    /\ \A s \in Sides: side[s] # None => side[s] \in keys \ Staying /\ get(side[s]).side = s
    /\ phase # "gone" => in_kernel = Cardinality(FileOps) - Len(room)
    /\ in_kernel <= cap /\ (room # <<>> => in_kernel = cap)
    /\ writes = Cardinality({u \in keys: counts_as_write(u)})

\* The completion of the operation of u was dropped, and its side waits.
Lost(u) ==
    u \notin DOMAIN kern \union ToSet(room) \union {c.on: c \in ToSet(cq)} \union Queued

\* Something will end it: a drop to be seen, a recovery to begin, the sweep of its note, the shard's give-up.
Pursued(u) ==
    \/ dropped > 0 \/ Does("recover") \in ToSet(queue) \/ RECOVER \in {c.on: c \in ToSet(cq)}
    \/ /\ u \in notes
       /\ \/ Does("sweep") \in ToSet(queue) \/ \E t \in timers: ~t.cancelled
          \/ \E c \in ToSet(cq): c.on = SWEEP /\ c.res = "ok"
    \/ phase \in {"going", "files"}

\* No operation waits for good (recover.rs, line 1): on the shard's own ring, one whose completion the kernel
\* dropped is always on its way to be ended.  The kernel may drop the sweep's own completion, which the next
\* begin_recovery does not make up for when it finds nothing new to note.
NoneWaitsForGood == phase # "keeper" => \A s \in Sides: side[s] # None /\ Lost(side[s]) => Pursued(side[s])

\* Short of that: a lost operation is on its way to be ended, unless it was noted as the kernel dropped the
\* completion of a sweep (begin_recovery, sweep).
LostPursued ==
    phase # "keeper" =>
        \A s \in Sides: side[s] # None /\ Lost(side[s]) => Pursued(side[s]) \/ side[s] \in unswept

------------------------------------------------------------------------------
(***************************************************************************)
(* The poller of a shard's ring, src/rt/park/ring.rs, over the queues of   *)
(* syscore/linux/iouring/ring: entries past a full submission queue wait   *)
(* in order, a read of an eventfd is kept armed so that a wake from any    *)
(* thread ends a wait, and a shard taken over by another thread has its    *)
(* old runner's read cancelled.                                            *)
(*                                                                         *)
(* The kernel (external) runs the completion of a request as work of the   *)
(* thread that issued it: the runner's at its enters and while it sleeps,  *)
(* an old runner's whenever that thread returns, if ever.  With a kernel   *)
(* submission thread (sqpoll) both the issue and the work are its own.     *)
(* An entry is its number and a wake id: n > 0 an operation, 0 a wake      *)
(* read, -1 the cancel of a wake read, -2 the request for a recovery.      *)
(***************************************************************************)

CONSTANTS Modes,               \* a subset of {"plain", "sqpoll"}
          ENTRIES, CQ, BATCH,  \* the queues' sizes and a wait's batch
          IDS,                 \* wake ids (NOT_AN_OP - WAKE_LOW + 1)
          MaxPushes, MaxWakes, PollerMaxAdopts, PollerMaxDrops

VARIABLES
    mode,
    sq, published, waiting,              \* the submission queue, how many of it the kernel sees, and what waits
    wake_armed, wake_id, attend, overflowed, poller_dropped_seen, entered_with_more,  \* RingPoller
    poller_at, zero,                            \* where the runner's wait is; it only looks
    runner,                              \* how many runners the ring had
    poller_kern, work, poller_cq, poller_held,                \* external: requests, task work, completions, and those with no room
    poller_dropped, badr,                       \* external: the count of drops, and whether one is to be reported
    thread,                              \* external: the kernel submission thread: "runs", "flagged" or "sleeps"
    eventfd, told,                       \* the eventfd's count is not 0; a wake was sent since the runner's last wait
    pushes, wakes, poller_drops

queues == <<sq, published, waiting>>
poller == <<wake_armed, wake_id, attend, overflowed, poller_dropped_seen, entered_with_more>>
poller_kernel == <<poller_kern, work, poller_cq, poller_held, poller_dropped, badr, thread>>
poller_counts == <<pushes, wakes, poller_drops>>
poller_vars == <<mode, queues, poller, poller_at, zero, runner, poller_kernel, eventfd, told, poller_counts>>

PollerInit ==
    /\ mode \in Modes /\ sq = <<>> /\ published = 0 /\ waiting = <<>>
    /\ wake_armed = FALSE /\ wake_id = 0 /\ attend = TRUE /\ overflowed = FALSE /\ poller_dropped_seen = 0
    /\ entered_with_more = FALSE /\ poller_at = "runs" /\ zero = FALSE /\ runner = 1
    /\ poller_kern = {} /\ work = {} /\ poller_cq = <<>> /\ poller_held = <<>> /\ poller_dropped = 0 /\ badr = FALSE /\ thread = "runs"
    /\ eventfd = FALSE /\ told = FALSE /\ pushes = 0 /\ wakes = 0 /\ poller_drops = 0

Entry(n, id) == [n |-> n, id |-> id]

-----------------------------------------------------------------------------
(* The queues: q is [sq, waiting]. *)
now == [sq |-> sq, waiting |-> waiting]

push(q, e) ==
    IF q.waiting # <<>> \/ Len(q.sq) >= ENTRIES
    THEN [q EXCEPT !.waiting = Append(@, e)] ELSE [q EXCEPT !.sq = Append(@, e)]

flush_waiting(q) ==
    LET space == ENTRIES - Len(q.sq)
        n == IF Len(q.waiting) < space THEN Len(q.waiting) ELSE space
    IN  [sq |-> q.sq \o SubSeq(q.waiting, 1, n), waiting |-> SubSeq(q.waiting, n + 1, Len(q.waiting))]

\* arm_wake: past a full queue the wake's read waits first in line.
arm_wake(q) ==
    LET e == Entry(0, wake_id)
    IN  IF wake_armed THEN q
        ELSE IF Len(q.sq) < ENTRIES THEN [q EXCEPT !.sq = Append(@, e)] ELSE [q EXCEPT !.waiting = <<e>> \o @]

\* pending: what the kernel has not taken yet
pending == ToSet(sq \o waiting)

\* dropped: the drops counted since the last report ask for a recovery.
ask_recovery(q, reported) ==
    IF poller_dropped # poller_dropped_seen \/ reported THEN push(q, Entry(-2, 0)) ELSE q

Becomes(q) == sq' = q.sq /\ waiting' = q.waiting

-----------------------------------------------------------------------------
(* What the kernel does in an enter (external). *)
Issuer == IF mode = "sqpoll" THEN 0 ELSE runner

\* The entries reach the kernel: a cancel ends a read it finds, whose end is work of its thread.
Issued(es) ==
    LET cancelling == {e.id: e \in {x \in ToSet(es): x.n = -1}}
        cut == {r \in poller_kern: r.n = 0 /\ r.id \in cancelling}
        new == {[n |-> e.n, id |-> e.id, by |-> Issuer, cancelled |-> FALSE]: e \in ToSet(es)}
        over == {r \in new: r.n < 0}
    IN  [kern |-> (poller_kern \ cut) \union (new \ over),
         work |-> work \union {[r EXCEPT !.cancelled = TRUE]: r \in cut} \union over]

\* One piece of task work is run, if it is the thread's: its completion is posted, or a read that finds the
\* eventfd's count gone waits again.  Without room the completion is held, or dropped.
PollerPosts(r) ==
    LET cqe == Entry(r.n, r.id)
        full == Len(poller_cq) >= CQ \/ poller_held # <<>>
    IN  \/ ~full /\ poller_cq' = Append(poller_cq, cqe) /\ UNCHANGED <<poller_held, poller_dropped, badr, poller_drops>>
        \/ full /\ poller_held' = Append(poller_held, cqe) /\ UNCHANGED <<poller_cq, poller_dropped, badr, poller_drops>>
        \/ /\ full /\ poller_drops < PollerMaxDrops
           /\ poller_drops' = poller_drops + 1 /\ poller_dropped' = poller_dropped + 1 /\ badr' = TRUE /\ UNCHANGED <<poller_cq, poller_held>>

runs_work(r) ==
    /\ work' = work \ {r}
    /\ IF r.n = 0 /\ ~r.cancelled
       THEN IF eventfd THEN PollerPosts(r) /\ eventfd' = FALSE /\ UNCHANGED poller_kern
            ELSE poller_kern' = poller_kern \union {r} /\ UNCHANGED <<poller_cq, poller_held, poller_dropped, badr, poller_drops, eventfd>>
       ELSE PollerPosts(r) /\ UNCHANGED <<poller_kern, eventfd>>

\* Work is run: the runner's only in an enter
work_runs(r) ==
    /\ r.by = runner => poller_at \in {"entered", "sleeps"}
    /\ runs_work(r)
    /\ UNCHANGED <<mode, queues, poller, poller_at, zero, runner, thread, told, pushes, wakes>>

\* A request ends: an operation in its own time, the wake's read once the eventfd is written.
request_ends(r) ==
    /\ r.n = 0 => eventfd
    /\ poller_kern' = poller_kern \ {r} /\ work' = work \union {r}
    /\ UNCHANGED <<mode, queues, poller, poller_at, zero, runner, poller_cq, poller_held, poller_dropped, badr, thread, eventfd, told, poller_counts>>

\* Held completions go to the queue as an enter finds room.
enter_flushes ==
    /\ poller_at \in {"entered", "sleeps"} /\ poller_held # <<>> /\ Len(poller_cq) < CQ
    /\ poller_cq' = Append(poller_cq, poller_held[1]) /\ poller_held' = Tail(poller_held)
    /\ UNCHANGED <<mode, queues, poller, poller_at, zero, runner, poller_kern, work, poller_dropped, badr, thread, eventfd, told, poller_counts>>

\* The kernel submission thread: takes what it sees, flags that it will sleep, looks again and sleeps.
thread_takes ==
    /\ mode = "sqpoll" /\ thread = "runs" /\ published > 0
    /\ poller_kern' = Issued(<<sq[1]>>).kern /\ work' = Issued(<<sq[1]>>).work
    /\ sq' = Tail(sq) /\ published' = published - 1
    /\ UNCHANGED <<mode, waiting, poller, poller_at, zero, runner, poller_cq, poller_held, poller_dropped, badr, thread, eventfd, told, poller_counts>>

thread_sleeps ==
    /\ mode = "sqpoll"
    /\ \/ thread = "runs" /\ published = 0 /\ thread' = "flagged"
       \/ thread = "flagged" /\ thread' = IF published = 0 THEN "sleeps" ELSE "runs"
    /\ UNCHANGED <<mode, queues, poller, poller_at, zero, runner, poller_kern, work, poller_cq, poller_held, poller_dropped, badr, eventfd, told, poller_counts>>

\* Another thread writes the eventfd (Notifier::notify).
notify ==
    /\ wakes < MaxWakes /\ wakes' = wakes + 1 /\ eventfd' = TRUE /\ told' = TRUE
    /\ UNCHANGED <<mode, queues, poller, poller_at, zero, runner, poller_kernel, pushes, poller_drops>>

-----------------------------------------------------------------------------
(* The runner. *)
poller_submits ==
    /\ poller_at = "runs" /\ pushes < MaxPushes /\ pushes' = pushes + 1 /\ Becomes(push(now, Entry(pushes + 1, 0)))
    /\ UNCHANGED <<mode, published, poller, poller_at, zero, runner, poller_kernel, eventfd, told, wakes, poller_drops>>

\* adopt: another thread runs the ring; a wake read in the kernel is the old one's, and cancelled.
poller_adopt ==
    /\ poller_at = "runs" /\ mode = "plain" /\ runner <= PollerMaxAdopts /\ runner' = runner + 1
    /\ IF ~wake_armed \/ Entry(0, wake_id) \in pending THEN UNCHANGED <<sq, waiting, wake_armed, wake_id>>
       ELSE /\ Becomes(push(now, Entry(-1, wake_id)))
            /\ wake_id' = (wake_id + 1) % IDS /\ wake_armed' = FALSE
    /\ UNCHANGED <<mode, published, attend, overflowed, poller_dropped_seen, entered_with_more, poller_at, zero, poller_kernel,
                   eventfd, told, poller_counts>>

\* look_for_overflow
look_for_overflow == /\ overflowed' = (poller_held # <<>>)

\* wait begins: its chores, the wake's read, what waited and fits.  A wait that may sleep with entries still
\* waiting submits first.
poller_wait(looks) ==
    /\ poller_at = "runs" /\ zero' = looks
    /\ LET q == flush_waiting(arm_wake(IF attend THEN ask_recovery(now, FALSE) ELSE now))
       IN  /\ Becomes(q)
           /\ poller_at' = IF ~looks /\ q.waiting # <<>> THEN "submit_now" ELSE "enter"
    /\ poller_dropped_seen' = IF attend THEN poller_dropped ELSE poller_dropped_seen
    /\ look_for_overflow /\ attend' = (overflowed' # overflowed)
    /\ wake_armed' = TRUE
    /\ UNCHANGED <<mode, published, wake_id, entered_with_more, runner, poller_kernel, eventfd, told, poller_counts>>

\* An enter is refused while completions are held (EBUSY), or interrupted.
Busy == poller_held # <<>>

\* The kernel takes what is queued, or with its own thread is shown it, woken if it had flagged its sleep.
publish ==
    thread' = IF mode = "sqpoll" /\ thread \in {"flagged", "sleeps"} THEN "runs" ELSE thread

Enters ==
    IF mode = "sqpoll" THEN published' = Len(sq) /\ publish /\ UNCHANGED <<sq, poller_kern, work>>
    ELSE sq' = <<>> /\ published' = 0 /\ poller_kern' = Issued(sq).kern /\ work' = Issued(sq).work /\ UNCHANGED thread

submit_now ==
    /\ poller_at = "submit_now" /\ ~badr
    /\ \/ Busy /\ poller_at' = "enter" /\ zero' = TRUE /\ UNCHANGED <<queues, poller_kern, work, thread>>
       \/ /\ poller_at' = IF mode = "sqpoll" /\ sq # <<>> THEN "enter" ELSE IF waiting = <<>> THEN "enter" ELSE "submit_flush"
          /\ zero' = (mode = "sqpoll" /\ sq # <<>>)
          /\ Enters /\ UNCHANGED waiting
    /\ UNCHANGED <<mode, poller, runner, poller_cq, poller_held, poller_dropped, badr, eventfd, told, poller_counts>>

submit_flush ==
    /\ poller_at = "submit_flush" /\ poller_at' = "submit_now" /\ Becomes(flush_waiting(now))
    /\ UNCHANGED <<mode, published, poller, zero, runner, poller_kernel, eventfd, told, poller_counts>>

dropped_reported ==
    /\ poller_at \in {"submit_now", "enter", "sleeps"} /\ badr /\ badr' = FALSE
    /\ Becomes(ask_recovery(now, TRUE)) /\ poller_dropped_seen' = poller_dropped
    /\ poller_at' = IF poller_at = "submit_now" THEN "submit_now" ELSE "reap"
    /\ UNCHANGED <<mode, published, wake_armed, wake_id, attend, overflowed, entered_with_more, zero, runner,
                   poller_kern, work, poller_cq, poller_held, poller_dropped, thread, eventfd, told, poller_counts>>

\* look_needs_enter: held completions, or task work the kernel flags
look_needs_enter == poller_held # <<>> \/ \E r \in work: r.by = runner

\* submit_or_look, submit_and_wait
enter ==
    /\ poller_at = "enter"
    /\ IF zero /\ sq = <<>> /\ ~entered_with_more /\ ~look_needs_enter
       THEN poller_at' = "reap" /\ UNCHANGED <<queues, poller_kern, work, thread>>
       ELSE \/ Busy /\ poller_at' = "reap" /\ UNCHANGED <<queues, poller_kern, work, thread>>
            \/ Enters /\ poller_at' = (IF zero THEN "entered" ELSE "sleeps") /\ UNCHANGED waiting
    /\ UNCHANGED <<mode, poller, zero, runner, poller_cq, poller_held, poller_dropped, badr, eventfd, told, poller_counts>>

\* The enter ends: a look any time; a wait with a completion, a timeout or a signal.
entered ==
    /\ poller_at \in {"entered", "sleeps"} /\ poller_at' = "reap"
    /\ UNCHANGED <<mode, queues, poller, zero, runner, poller_kernel, eventfd, told, poller_counts>>

\* reap, and what follows it in the wait
reap_wake(batch) == wake_armed' = (wake_armed /\ Entry(0, wake_id) \notin ToSet(batch))

reap ==
    /\ poller_at = "reap" /\ poller_at' = "runs" /\ zero' = FALSE /\ told' = FALSE
    /\ LET n == IF Len(poller_cq) < BATCH THEN Len(poller_cq) ELSE BATCH
           batch == SubSeq(poller_cq, 1, n)
       IN  /\ poller_cq' = SubSeq(poller_cq, n + 1, Len(poller_cq)) /\ reap_wake(batch)
           /\ entered_with_more' \in {FALSE, zero /\ batch # <<>>}
    /\ Becomes(flush_waiting(now))
    /\ look_for_overflow /\ attend' = (attend \/ overflowed' # overflowed)
    /\ UNCHANGED <<mode, published, wake_id, poller_dropped_seen, runner, poller_kern, work, poller_held, poller_dropped, badr, thread, eventfd,
                   poller_counts>>

PollerNext ==
    \/ poller_submits \/ poller_adopt \/ (\E looks \in BOOLEAN: poller_wait(looks)) \/ submit_now \/ submit_flush \/ dropped_reported
    \/ enter \/ entered \/ reap
    \/ (\E r \in work: work_runs(r)) \/ (\E r \in poller_kern: request_ends(r)) \/ enter_flushes
    \/ thread_takes \/ thread_sleeps \/ notify

PollerSpec == PollerInit /\ [][PollerNext]_poller_vars

-----------------------------------------------------------------------------
(* Properties. *)
\* A wake ends a wait: while the runner sleeps with a wake sent since it last looked, a completion or the report of a
\* drop ends the sleep, or a wake read of this runner's (or of the awake kernel thread's) finds the wake.
WakeEnds ==
    poller_at = "sleeps" /\ told =>
      \/ poller_cq \o poller_held # <<>> \/ badr
      \/ \E r \in work: r.by = Issuer /\ (r.n # 0 \/ r.cancelled)
      \/ /\ eventfd
         /\ \/ \E r \in poller_kern \union work: r.n = 0 /\ ~r.cancelled /\ r.by = Issuer
            \/ mode = "sqpoll" /\ thread # "sleeps" /\ \E i \in 1..published: sq[i].n = 0

\* Nothing is dropped and nothing overtakes: what was pushed and the kernel has not is queued, in order, and
\* what the kernel's own thread was shown it is not asleep over.
InOrder ==
    /\ LET ops == SelectSeq(sq \o waiting, LAMBDA e: e.n > 0)
       IN  \A i \in 1..Len(ops): ops[i].n = pushes - Len(ops) + i
    /\ Len(sq) <= ENTRIES
    /\ published > 0 => thread # "sleeps"

\* A drop is not passed over: while one is not accounted for, the kernel still has it to report, or the next
\* wait reads the count.
DropSeen == poller_dropped # poller_dropped_seen => badr \/ attend

------------------------------------------------------------------------------
(***************************************************************************)
(* The files of a ring's sources: the slots of                             *)
(* src/syscore/linux/iouring/files.rs and what src/rt/shard/ring.rs does   *)
(* with them (attach, submit, detach, take_out, finish_leaving).           *)
(*                                                                         *)
(* A source is one registration of a socket.  An entry names its file by a *)
(* slot of the ring's table, or past the table by the socket's own         *)
(* descriptor number, and the kernel looks the name up as it takes the     *)
(* entry.  A closed socket's number is given to the next one opened.       *)
(***************************************************************************)

CONSTANTS
    Sources,
    Numbers,
    Table,  \* the length of the table asked for
    Slots,  \* bound: the slots ever made, 0..Slots - 1
    MayRefuse,  \* the kernel may refuse the table, or an update of it
    MayBusy,  \* the kernel may take no entries for a while: it holds completions it has no room for
    MaxOps  \* bound: operations submitted for a source

VARIABLES
    files_at,                \* a source: "new", "open", "attached", "gone" (its handle went), "refused"
    number,            \* its socket's number, None once the socket is closed
    slot_of,           \* its slot
    fixed, to_make,    \* the table's length, and what of it is still to be registered
    made, copies,      \* slots made so far: of the table, and of own numbers
    slots,             \* slot -> [held, entries, own]
    files_free, spare,       \* the free slots of the table, and of own numbers
    ktable,            \* external: the kernel's table, slot -> the source whose file it holds
    files_queue,             \* entries not yet with the kernel: [src, slot, own]
    files_out,               \* requests of each source in the kernel
    leaving, todo,     \* slots of sources that went, to be taken out: [slot, lease]; those a wait took up
    timer,             \* the retry's timeout is set
    busy,
    files_ops

sources == <<files_at, number, slot_of>>
files == <<fixed, made, copies, slots, files_free, spare>>
files_vars == <<sources, files, to_make, ktable, files_queue, files_out, leaving, todo, timer, busy, files_ops>>

SlotIds == 0..Slots - 1
Empty == [held |-> FALSE, entries |-> 0, own |-> None]
FilesInit ==
    /\ files_at = [s \in Sources |-> "new"] /\ number = [s \in Sources |-> None] /\ slot_of = [s \in Sources |-> None]
    /\ fixed = Table /\ to_make = Table /\ made = 0 /\ copies = 0 /\ slots = [i \in SlotIds |-> Empty]
    /\ files_free = <<>> /\ spare = <<>> /\ ktable = [i \in SlotIds |-> None]
    /\ files_queue = <<>> /\ files_out = [s \in Sources |-> 0] /\ leaving = <<>> /\ todo = <<>> /\ timer = FALSE /\ busy = FALSE
    /\ files_ops = [s \in Sources |-> 0]

-----------------------------------------------------------------------------
(* Files *)
is_fixed(slot) == slot < fixed
is_named(slot) == slots[slot].entries > 0

\* free_slot: the lists a slot goes back to, if it is neither held nor named in `to'
Frees(slot, to) == ~to[slot].held /\ to[slot].entries = 0

free_slot(slot, to) ==
    IF ~Frees(slot, to) THEN slots' = to /\ UNCHANGED <<files_free, spare>>
    ELSE IF is_fixed(slot) THEN slots' = to /\ files_free' = Append(files_free, slot) /\ UNCHANGED spare
    ELSE slots' = [to EXCEPT ![slot].own = None] /\ spare' = Append(spare, slot) /\ UNCHANGED files_free

name(slot) == slots' = [slots EXCEPT ![slot].entries = @ + 1]
done(slot) == free_slot(slot, [slots EXCEPT ![slot].entries = @ - 1])
release(slot) == free_slot(slot, [slots EXCEPT ![slot].held = FALSE])

\* take: a free slot of the table, the one freed last, or a new one
can_take == files_free # <<>> \/ made < fixed
take_slot == IF files_free # <<>> THEN Last(files_free) ELSE made
take(held) ==
    /\ slots' = [slots EXCEPT ![take_slot].held = held]
    /\ files_free' = IF held THEN (IF files_free # <<>> THEN Front(files_free) ELSE files_free)
               ELSE (IF files_free # <<>> THEN files_free ELSE <<made>>)
    /\ made' = IF files_free # <<>> THEN made ELSE made + 1
    /\ UNCHANGED <<fixed, copies, spare>>

\* take_own: a slot naming the source's own number
own_slot == IF spare # <<>> THEN Last(spare) ELSE fixed + copies
take_own(n) ==
    /\ slots' = [slots EXCEPT ![own_slot] = [held |-> TRUE, entries |-> @.entries, own |-> n]]
    /\ spare' = IF spare # <<>> THEN Front(spare) ELSE spare
    /\ copies' = IF spare # <<>> THEN copies ELSE copies + 1
    /\ UNCHANGED <<fixed, made, files_free>>

-----------------------------------------------------------------------------
\* A socket is opened, its number one no open socket has.
open(s) ==
    /\ files_at[s] = "new"
    /\ \E n \in Numbers \ {number[t]: t \in Sources}: number' = [number EXCEPT ![s] = n]
    /\ files_at' = [files_at EXCEPT ![s] = "open"]
    /\ UNCHANGED <<slot_of, files, to_make, ktable, files_queue, files_out, leaving, todo, timer, busy, files_ops>>

\* table_or_none, without_table: the first attach makes the table; refused, the ring goes without one.
table_or_none ==
    /\ to_make # 0 /\ \E s \in Sources: files_at[s] = "open"
    /\ to_make' = 0
    /\ fixed' \in IF MayRefuse THEN {fixed, 0} ELSE {fixed}
    /\ UNCHANGED <<sources, made, copies, slots, files_free, spare, ktable, files_queue, files_out, leaving, todo, timer, busy, files_ops>>

\* attach: a slot of the table, given back if the kernel refuses the update, or past it the own number.
attach(s) ==
    /\ files_at[s] = "open" /\ to_make = 0
    /\ IF can_take
       THEN \/ /\ take(TRUE) /\ ktable' = [ktable EXCEPT ![take_slot] = s]
               /\ files_at' = [files_at EXCEPT ![s] = "attached"] /\ slot_of' = [slot_of EXCEPT ![s] = take_slot]
               /\ UNCHANGED number
            \/ /\ MayRefuse /\ take(FALSE)
               /\ files_at' = [files_at EXCEPT ![s] = "refused"] /\ number' = [number EXCEPT ![s] = None]
               /\ UNCHANGED <<ktable, slot_of>>
       ELSE /\ own_slot < Slots /\ take_own(number[s]) /\ slot_of' = [slot_of EXCEPT ![s] = own_slot]
            /\ files_at' = [files_at EXCEPT ![s] = "attached"] /\ UNCHANGED <<ktable, number>>
    /\ UNCHANGED <<to_make, files_queue, files_out, leaving, todo, timer, busy, files_ops>>

\* submit: the entry carries the slot, or the slot's own number.
files_submit(s) ==
    /\ files_at[s] = "attached" /\ files_ops[s] < MaxOps /\ files_ops' = [files_ops EXCEPT ![s] = @ + 1]
    /\ name(slot_of[s])
    /\ files_queue' = Append(files_queue, [src |-> s, slot |-> slot_of[s], own |-> slots[slot_of[s]].own])
    /\ UNCHANGED <<sources, fixed, made, copies, files_free, spare, to_make, ktable, files_out, leaving, todo, timer, busy>>

\* external: the queued entries reach the kernel, which holds each request's file from then on.
Reach(n) ==
    /\ files_queue' = SubSeq(files_queue, n + 1, Len(files_queue))
    /\ files_out' = [s \in Sources |-> files_out[s] + Cardinality({i \in 1..n: files_queue[i].src = s})]

Refusals == IF MayRefuse THEN BOOLEAN ELSE {FALSE}

take_out(slot, lease, refused) ==
    /\ number' = IF lease = None THEN number ELSE [number EXCEPT ![lease] = None]
    /\ IF is_fixed(slot) /\ refused
       THEN /\ leaving' = Append(leaving, [slot |-> slot, lease |-> None]) /\ timer' = TRUE
            /\ UNCHANGED <<ktable, slots, files_free, spare>>
       ELSE /\ ktable' = IF is_fixed(slot) THEN [ktable EXCEPT ![slot] = None] ELSE ktable
            /\ release(slot) /\ UNCHANGED <<leaving, timer>>

detach(s) ==
    /\ files_at[s] = "attached" /\ files_at' = [files_at EXCEPT ![s] = "gone"]
    /\ UNCHANGED <<slot_of, fixed, made, copies, to_make, busy, files_ops, todo>>
    /\ IF is_named(slot_of[s]) /\ busy
       THEN /\ leaving' = Append(leaving, [slot |-> slot_of[s], lease |-> s])
            /\ UNCHANGED <<number, slots, files_free, spare, ktable, files_queue, files_out, timer>>
       ELSE /\ \E refused \in Refusals: take_out(slot_of[s], s, refused)
            /\ IF is_named(slot_of[s]) THEN Reach(Len(files_queue)) ELSE UNCHANGED <<files_queue, files_out>>

\* wait, and finish_leaving at its end: what is queued reaches the kernel (a wait ends its being busy), the
\* retry's timeout may have run out, and the slots that leave are taken up, to be taken out.
files_wait ==
    /\ todo = <<>> /\ (files_queue # <<>> \/ timer \/ busy)
    /\ busy' \in {FALSE, busy} /\ timer' \in {FALSE, timer}
    /\ IF busy' \/ (busy /\ leaving = <<>>) THEN UNCHANGED <<files_queue, files_out>> ELSE Reach(Len(files_queue))
    /\ IF busy' THEN UNCHANGED <<todo, leaving>> ELSE todo' = leaving /\ leaving' = <<>>
    /\ UNCHANGED <<sources, files, to_make, ktable, files_ops>>

\* external: a request of s ended, and the wait that reaps it names its slot once less.
complete(s) ==
    /\ files_out[s] > 0 /\ files_out' = [files_out EXCEPT ![s] = @ - 1] /\ done(slot_of[s])
    /\ UNCHANGED <<sources, fixed, made, copies, to_make, ktable, files_queue, leaving, todo, timer, busy, files_ops>>

\* finish_leaving, one of its slots
finish_leaving ==
    /\ todo # <<>> /\ todo' = Tail(todo)
    /\ \E refused \in Refusals: take_out(todo[1].slot, todo[1].lease, refused)
    /\ UNCHANGED <<files_at, slot_of, fixed, made, copies, to_make, busy, files_ops, files_queue, files_out>>

\* external: the kernel has completions it has no room for.
becomes_busy ==
    /\ MayBusy /\ ~busy /\ files_queue # <<>> /\ busy' = TRUE
    /\ UNCHANGED <<sources, files, to_make, ktable, files_queue, files_out, leaving, todo, timer, files_ops>>

FilesNext ==
    \/ /\ todo = <<>>
       /\ \/ \E s \in Sources: open(s) \/ attach(s) \/ files_submit(s) \/ detach(s) \/ complete(s)
          \/ table_or_none \/ becomes_busy
    \/ files_wait \/ finish_leaving

FilesSpec == FilesInit /\ [][FilesNext]_files_vars

-----------------------------------------------------------------------------
(* Properties. *)
\* What a queued entry names when the kernel looks: the table's file, or the open socket of the number.
Named(e) == IF e.own = None THEN {ktable[e.slot]} ELSE {t \in Sources: number[t] = e.own}

\* Every entry still to reach the kernel names its own source's file: a slot is handed out again, and a
\* socket closed, only once no entry waits to name it (ring.rs, files.rs).
RightFile == \A e \in ToSet(files_queue): Named(e) = {e.src}

\* A source that went has its file taken out of the table, or is on its way: waiting to be, with a wait sure
\* to come (the retry's timeout, or the completions the kernel holds).  A free slot is empty and unnamed.
FilesLeave ==
    /\ \A i \in SlotIds: ktable[i] # None => files_at[ktable[i]] = "attached" \/ \E l \in ToSet(leaving \o todo): l.slot = i
    /\ leaving # <<>> => timer \/ busy \/ todo # <<>>
    /\ \A i \in ToSet(files_free): ktable[i] = None /\ slots[i] = Empty
    /\ \A i \in ToSet(spare): slots[i] = Empty
    /\ \A s \in Sources: files_at[s] = "gone" /\ number[s] # None => \E l \in ToSet(leaving \o todo): l.lease = s
==============================================================================
