------------------------------ MODULE Port ------------------------------
(***************************************************************************)
(* A source on the completion ports of Windows: io/source/port.rs, the     *)
(* port of rt/park/iocp.rs, its keeper (rt/shard/port.rs), and what        *)
(* io/source/ops.rs does with a completion. Any thread issues a side's one *)
(* operation to the port the handle is bound to; the packet goes to that   *)
(* port, and whoever drains it (the shard's thread, or a keeper while the  *)
(* shard does not run) hands the outcome to the side. A handle cannot move *)
(* to another port while the kernel has one of its operations.             *)
(***************************************************************************)
EXTENDS Integers, FiniteSets

CONSTANTS
    Shards, None,
    Kinds,         \* of "tcp", "udp"
    MayRefuse,     \* a bind may fail, a call may fail at once
    MaxOps, MaxLeaves

VARIABLES
    kind,
    src,     \* [bound, moving, reg, home, ops_out, awaits_idle, held, deferred, asleep]
    side,    \* of "r", "w": [op, want, on, at, cancel, took, counted]
    port,    \* of each shard: [out, waiting, wake]
    keeper,  \* of each shard: "none", or the state of its Keeper
    pc,      \* of each shard's thread, and of its keeper's
    bound

vars == <<kind, src, side, port, keeper, pc, bound>>
Sides == {"r", "w"}
Threads == Shards \X {"shard", "keeper"}
Own(s) == <<s, "shard">>
Kept(s) == <<s, "keeper">>
Idle == [at |-> "run", side |-> None, idle |-> FALSE]

Init ==
    /\ kind \in Kinds
    /\ src = [bound |-> None, moving |-> FALSE, reg |-> FALSE, home |-> None, ops_out |-> 0, awaits_idle |-> FALSE,
              held |-> None, deferred |-> {}, asleep |-> FALSE]
    /\ side = [d \in Sides |-> [op |-> "none", want |-> None, on |-> None, at |-> None, cancel |-> FALSE,
                                took |-> 0, counted |-> 0]]
    /\ port = [s \in Shards |-> [out |-> 0, waiting |-> 0, wake |-> FALSE]]
    /\ keeper = [s \in Shards |-> "none"]
    /\ pc = [t \in Threads |-> IF t[2] = "shard" THEN Idle ELSE [Idle EXCEPT !.at = "gone"]]
    /\ bound = [ops |-> 0, leaves |-> 0, leaving |-> None, late |-> None]

Runs(s) == pc[Own(s)].at = "run"
Goes(t, to) == pc' = [pc EXCEPT ![t].at = to]

-----------------------------------------------------------------------------
\* Port.
issued(p, s) == [p EXCEPT ![s].out = @ + 1]
completed(p, s) == [p EXCEPT ![s].out = @ - 1]
wait_for_move(p, s) == [p EXCEPT ![s].waiting = @ + 1]
moved(p, s) == [p EXCEPT ![s].waiting = @ - 1, ![s].wake = TRUE]
kept(s) == port[s].out > 0 \/ port[s].waiting > 0
\* A handle moves to another port only while none of its operations is out.
bind_can(s) == src.bound = None \/ \A d \in Sides: side[d].op # "out"

\* Source::may_cancel: not a TCP send.
may_cancel(d) == ~(d = "w" /\ kind = "tcp")

\* Source::detach_port, of a source whose registration goes.
detach_port(sr, p) == IF sr.moving THEN moved(p, sr.bound) ELSE p
Cancelled == [d \in Sides |-> IF side[d].op = "out" /\ may_cancel(d) THEN [side[d] EXCEPT !.cancel = TRUE] ELSE side[d]]
\* evict_now, with both sides held.
evict_now(sr) == [sr EXCEPT !.reg = FALSE, !.home = None, !.moving = FALSE, !.asleep = FALSE, !.deferred = @ \ {"evict"}]
EvictHere ==
    IF src.reg THEN src' = evict_now(src) /\ port' = detach_port(src, port) /\ side' = Cancelled
    ELSE src' = [src EXCEPT !.deferred = @ \ {"evict"}, !.asleep = FALSE] /\ UNCHANGED <<port, side>>
\* Source::evict: now, or by the sides' holder as it lets go.
evict == IF src.held = None THEN EvictHere
         ELSE src' = [src EXCEPT !.deferred = @ \union {"evict"}] /\ UNCHANGED <<port, side>>

-----------------------------------------------------------------------------
\* attach_port: a poll on shard s finds the source registered nowhere.
Registers(s, sr) == [sr EXCEPT !.reg = TRUE, !.home = s]
attach_port(s) ==
    LET t == Own(s)
    IN /\ Runs(s) /\ ~src.reg /\ src.held = None /\ ~src.asleep
       /\ \/ /\ src.bound = s \/ bind_can(s)
             /\ src' = [Registers(s, src) EXCEPT !.bound = s, !.held = t] /\ Goes(t, "release")
          \/ /\ src.bound # s /\ (~bind_can(s) \/ (MayRefuse /\ src.bound = None))
             /\ src' = [src EXCEPT !.held = t] /\ Goes(t, IF src.ops_out = 0 THEN "again" ELSE "flag")
       /\ UNCHANGED <<kind, side, port, keeper, bound>>

\* waits_for_ops: the flag goes up before the count is looked at.
waits_flag(s) ==
    /\ pc[Own(s)].at = "flag" /\ src' = [src EXCEPT !.awaits_idle = TRUE] /\ Goes(Own(s), "count")
    /\ UNCHANGED <<kind, side, port, keeper, bound>>
waits_count(s) ==
    /\ pc[Own(s)].at = "count"
    /\ IF src.ops_out # 0 \/ ~src.awaits_idle THEN Goes(Own(s), "mark") /\ UNCHANGED src
       ELSE Goes(Own(s), "again") /\ src' = [src EXCEPT !.awaits_idle = FALSE]
    /\ UNCHANGED <<kind, side, port, keeper, bound>>
\* The handle stays where it is bound: the source waits to move.
attach_marks(s) ==
    /\ pc[Own(s)].at = "mark"
    /\ IF src.bound = None THEN src' = [src EXCEPT !.asleep = TRUE] /\ UNCHANGED port
       ELSE /\ src' = [Registers(s, src) EXCEPT !.moving = TRUE]
            /\ port' = IF src.moving THEN port ELSE wait_for_move(port, src.bound)
    /\ bound' = [bound EXCEPT !.late = IF src.ops_out = 0 THEN src.bound ELSE @]
    /\ Goes(Own(s), "release") /\ UNCHANGED <<kind, side, keeper>>
\* None is out any more: once more, and that answer stands.
attach_again(s) ==
    /\ pc[Own(s)].at = "again"
    /\ \/ bind_can(s) /\ src' = [Registers(s, src) EXCEPT !.bound = s]
       \/ (~bind_can(s) \/ (MayRefuse /\ src.bound = None)) /\ UNCHANGED src
    /\ Goes(Own(s), "release") /\ UNCHANGED <<kind, side, port, keeper, bound>>

\* The holder lets go: what others left for it is done first.
Applies(d) == [side[d] EXCEPT !.op = "none", !.on = None, !.at = None, !.cancel = FALSE, !.want = None, !.took = 0]
release(s) ==
    LET t == Own(s)
        mail == {d \in Sides: side[d].op = "mail"}
    IN /\ pc[t].at = "release" /\ src.held = t
       /\ IF "evict" \in src.deferred THEN EvictHere /\ UNCHANGED pc
          ELSE /\ side' = [d \in Sides |-> IF d \in mail THEN Applies(d) ELSE side[d]]
               /\ src' = [src EXCEPT !.held = None, !.deferred = {}, !.asleep = @ /\ "look" \notin src.deferred]
               /\ Goes(t, "run") /\ UNCHANGED port
       /\ UNCHANGED <<kind, keeper, bound>>

-----------------------------------------------------------------------------
\* What a want is: the call it becomes, and the memory it takes to its slot.
Wants(d) == IF d = "r" THEN (IF kind = "tcp" THEN {"Ready", "Recv"} ELSE {"RecvFrom"})
            ELSE IF kind = "tcp" THEN {"Send"} ELSE {"PollSend", "SendTo"}
Moves(w) == w \notin {"Ready", "PollSend"}

\* PortIo::issuer: the port the handle is bound to, or its shard's.
bound_port(s) == IF src.bound = None THEN s ELSE src.bound
\* A call that queues no packet is ended by its issuer, with the error.
issue(s, d) ==
    /\ Runs(s) /\ src.reg /\ src.held = None /\ side[d].op = "none" /\ bound.ops < MaxOps
    /\ bound' = [bound EXCEPT !.ops = @ + 1]
    /\ \/ /\ \E w \in Wants(d): side' = [side EXCEPT ![d].op = "out", ![d].want = w, ![d].on = bound_port(src.home)]
          /\ src' = [src EXCEPT !.ops_out = @ + 1] /\ port' = issued(port, bound_port(src.home)) /\ UNCHANGED pc
       \/ /\ MayRefuse /\ side' = [side EXCEPT ![d].op = "taken"]
          /\ src' = [src EXCEPT !.ops_out = @ + 1] /\ UNCHANGED port
          /\ pc' = [pc EXCEPT ![Own(s)].at = "end", ![Own(s)].side = d]
    /\ UNCHANGED <<kind, keeper>>

\* The kernel takes bytes, and ends the operation at the port the handle is bound to.
kernel_moves(d) ==
    /\ side[d].op = "out" /\ Moves(side[d].want) /\ side[d].took = 0
    /\ side' = [side EXCEPT ![d].took = 1] /\ UNCHANGED <<kind, src, port, keeper, pc, bound>>
kernel_ends(d) ==
    /\ side[d].op = "out"
    /\ side[d].took > 0 \/ ~Moves(side[d].want) \/ side[d].cancel
    /\ side' = [side EXCEPT ![d].op = "packet", ![d].at = IF src.bound = None THEN side[d].on ELSE src.bound]
    /\ UNCHANGED <<kind, src, port, keeper, pc, bound>>

\* answer: a cancelled TCP send may come back with none of the bytes it took.
answer(d) == IF side[d].cancel /\ kind = "tcp" /\ d = "w" THEN {0, side[d].took} ELSE {side[d].took}

\* complete and finish: the packet is dequeued, its operation counted out.
complete(t, d) ==
    /\ side[d].op = "packet" /\ side[d].at = t[1] /\ pc[t].at \in {"run", "drain", "wait"}
    /\ \E n \in answer(d): side' = [side EXCEPT ![d].op = "taken", ![d].counted = @ + n - side[d].took]
    /\ port' = completed(port, side[d].on)
    /\ pc' = [pc EXCEPT ![t].at = "end", ![t].side = d] /\ UNCHANGED <<kind, src, keeper, bound>>

\* op_ended, then op_done: the side takes the outcome, or its holder does.
op_ended(t) ==
    /\ pc[t].at = "end" /\ src' = [src EXCEPT !.ops_out = @ - 1]
    /\ pc' = [pc EXCEPT ![t].at = "deliver", ![t].idle = src.ops_out = 1] /\ UNCHANGED <<kind, side, port, keeper, bound>>
op_done(t) ==
    LET d == pc[t].side
    IN /\ pc[t].at = "deliver"
       /\ side' = [side EXCEPT ![d] = IF src.held = None THEN Applies(d) ELSE [@ EXCEPT !.op = "mail"]]
       /\ Goes(t, "told") /\ UNCHANGED <<kind, src, port, keeper, bound>>
\* The tasks of a registration that waited for the last to end look again.
op_done_tells(t) ==
    /\ pc[t].at = "told" /\ Goes(t, "moves")
    /\ src' = CASE ~pc[t].idle \/ ~src.awaits_idle -> src
                 [] src.held = None -> [src EXCEPT !.awaits_idle = FALSE, !.asleep = FALSE]
                 [] OTHER -> [src EXCEPT !.awaits_idle = FALSE, !.deferred = @ \union {"look"}]
    /\ UNCHANGED <<kind, side, port, keeper, bound>>
\* A source that waits to move is evicted once its send ended, or none is out.
op_done_moves(t) == src.moving /\ (pc[t].idle \/ pc[t].side = "w")
op_done_ends(t) ==
    /\ pc[t].at = "moves"
    /\ IF op_done_moves(t) THEN evict ELSE UNCHANGED <<src, port, side>>
    /\ pc' = [pc EXCEPT ![t] = [Idle EXCEPT !.at = CASE t[2] = "keeper" -> "look"
                                                    [] bound.leaving = t[1] -> "drain"
                                                    [] OTHER -> "run"]]
    /\ UNCHANGED <<kind, keeper, bound>>

-----------------------------------------------------------------------------
\* Shard::leave: its sources are let go of, then its port is handed off.
leave(s) ==
    /\ Runs(s) /\ bound.leaves < MaxLeaves /\ bound.leaving = None
    /\ bound' = [bound EXCEPT !.leaves = @ + 1, !.leaving = s]
    /\ IF src.home = s THEN evict ELSE UNCHANGED <<src, port, side>>
    /\ Goes(Own(s), "evicts") /\ UNCHANGED <<kind, keeper>>
evicted(s) ==
    /\ pc[Own(s)].at = "evicts" /\ ~(src.reg /\ src.home = s) /\ Goes(Own(s), "drain")
    /\ UNCHANGED <<kind, src, side, port, keeper, bound>>
Ready(s) == \E d \in Sides: side[d].op = "packet" /\ side[d].at = s
\* hand_off_port: with none ready, the operations out go to a keeper.
hands_off(s) == port[s].out > 0 \/ port[s].waiting > 0
hand_off_port(s) ==
    /\ pc[Own(s)].at = "drain" /\ (port[s].out = 0 \/ ~Ready(s))
    /\ keeper' = [keeper EXCEPT ![s] = IF hands_off(s) THEN "asked" ELSE @]
    /\ pc' = [pc EXCEPT ![Own(s)].at = "left", ![Kept(s)].at = IF hands_off(s) THEN "asked" ELSE @]
    /\ bound' = [bound EXCEPT !.leaving = None] /\ UNCHANGED <<kind, src, side, port>>

\* The keeper's job: Port::keep until none is out or it is stopped.
keeper_starts(s) ==
    /\ pc[Kept(s)].at = "asked"
    /\ IF keeper[s] = "asked" THEN keeper' = [keeper EXCEPT ![s] = "keeping"] /\ Goes(Kept(s), "look")
       ELSE Goes(Kept(s), "gone") /\ UNCHANGED keeper
    /\ UNCHANGED <<kind, src, side, port, bound>>
keep_looks(s) ==
    /\ pc[Kept(s)].at = "look" /\ Goes(Kept(s), IF kept(s) /\ keeper[s] # "stopping" THEN "wait" ELSE "leaves")
    /\ UNCHANGED <<kind, src, side, port, keeper, bound>>
\* Its wait ends with a wake; `complete' is its other end.
keep_woken(s) ==
    /\ pc[Kept(s)].at = "wait" /\ port[s].wake /\ port' = [port EXCEPT ![s].wake = FALSE]
    /\ Goes(Kept(s), "look") /\ UNCHANGED <<kind, src, side, keeper, bound>>
keeper_done(s) ==
    /\ pc[Kept(s)].at = "leaves" /\ Goes(Kept(s), "gone")
    /\ keeper' = [keeper EXCEPT ![s] = "done"] /\ UNCHANGED <<kind, src, side, port, bound>>

\* A keeper that keeps is stopped: a wake ends its wait.
back_stops(s) == Goes(Own(s), "back") /\ port' = [port EXCEPT ![s].wake = TRUE]
take_port_back(s) ==
    /\ pc[Own(s)].at = "left"
    /\ CASE keeper[s] = "asked" -> keeper' = [keeper EXCEPT ![s] = "called_off"] /\ Goes(Own(s), "run") /\ UNCHANGED port
         [] keeper[s] = "keeping" -> keeper' = [keeper EXCEPT ![s] = "stopping"] /\ back_stops(s)
         [] OTHER -> UNCHANGED <<keeper, port>> /\ Goes(Own(s), "run")
    /\ UNCHANGED <<kind, src, side, bound>>
\* The shard waits for the keeper it stopped.
stopped(s) == keeper[s] = "done"
back(s) ==
    /\ pc[Own(s)].at = "back" /\ stopped(s) /\ keeper' = [keeper EXCEPT ![s] = "none"] /\ Goes(Own(s), "run")
    /\ UNCHANGED <<kind, src, side, port, bound>>
\* A wake ends a wait of the shard's, which looks for work then.
shard_woken(s) ==
    /\ Runs(s) /\ port[s].wake /\ port' = [port EXCEPT ![s].wake = FALSE]
    /\ UNCHANGED <<kind, src, side, keeper, pc, bound>>

Steps(s) ==
    \/ attach_port(s) \/ waits_flag(s) \/ waits_count(s) \/ attach_marks(s) \/ attach_again(s) \/ release(s)
    \/ \E d \in Sides: issue(s, d)
    \/ leave(s) \/ evicted(s) \/ hand_off_port(s) \/ take_port_back(s) \/ back(s) \/ shard_woken(s)
    \/ keeper_starts(s) \/ keep_looks(s) \/ keep_woken(s) \/ keeper_done(s)
Next ==
    \/ \E s \in Shards: Steps(s)
    \/ \E d \in Sides: kernel_moves(d) \/ kernel_ends(d)
    \/ \E t \in Threads: \/ \E d \in Sides: complete(t, d)
                          \/ op_ended(t) \/ op_done(t) \/ op_done_tells(t) \/ op_done_ends(t)
Spec == Init /\ [][Next]_vars

-----------------------------------------------------------------------------
Drains(t) == IF t[2] = "keeper" THEN pc[t].at \notin {"asked", "gone"} ELSE pc[t].at \notin {"left", "back"}
(* A port is drained by one thread at most: the shard's, or its keeper's, never
   both (`take_port_back' waits for a keeper that keeps). *)
OneDrainer == \A s \in Shards: ~(Drains(Own(s)) /\ Drains(Kept(s)))

Drained(s) ==
    \/ Drains(Own(s)) \/ pc[Own(s)].at = "back"
    \/ keeper[s] = "asked"
    \/ keeper[s] \in {"keeping", "stopping"} /\ pc[Kept(s)].at # "leaves"
(* No packet of an operation waits on a port nobody drains: while one is out there
   the shard runs, or a keeper is asked for or will look again.  But the port of a
   source whose last operation ended between an attach's look at the count and the
   mark it made for it: such a source moves for no end that is still to come. *)
PacketsDrained == \A s \in Shards: port[s].out > 0 => Drained(s) \/ bound.late = s

(* Bytes the kernel took are counted, once each: a cancelled operation that took
   some reports them, and a TCP send, which may not, is never cancelled. *)
NoneTwice == \A d \in Sides: side[d].counted = 0

------------------------------------------------------------------------------
(***************************************************************************)
(* One slot of a source on a completion port (io/source/port.rs): an       *)
(* operation's memory goes into the slot with its want, the kernel or a    *)
(* job of the blocking pool uses it, and it comes back with the outcome.   *)
(*                                                                         *)
(* A handle opened for synchronous IO has its calls made by pool threads.  *)
(* The job's word is the handshake of the job with a canceller, which ends *)
(* the call by naming the THREAD that makes it (CancelSynchronousIo): the  *)
(* thread must not be in a call of another job by then.                    *)
(***************************************************************************)

CONSTANTS
    Modes,  \* how calls are made: "socket", "stream" (overlapped), "job"
    OpThreads,  \* threads of the blocking pool
    Cancellers,  \* threads that cancel; each holds the side as it does
    OpMaxOps,  \* bound: operations issued
    MaxCancels  \* bound: cancels made

VARIABLES
    mode,
    slot,          \* Inner: the want, its memory, and how the call ended
    word,          \* Job: who has the call (IDLE, QUEUED, ABORTED or a thread) and its two flags
    thread,        \* per pool thread: where it is
    op_cancel,        \* per canceller: where it is, the thread it found, the operation it cancels
    op_held,          \* the memory the side has (None while it is in the slot)
    made           \* operations issued and cancels made

op_vars == <<mode, slot, word, thread, op_cancel, op_held, made>>

-----------------------------------------------------------------------------
Reads == {"Ready", "RecvRoom", "Recv", "RecvLent"}
Writes == {"SendRoom", "Send", "SendLent"}
\* NotStream: the wants no stream has.
NotStream == {"Accept", "RecvFrom", "RecvLentFrom", "Connect", "SendTo", "SendLentTo", "SendFile"}
OpWants == Reads \union Writes \union NotStream \union {"PollSend"}
\* The memory that goes with a want: a pool buffer, the task's, a descriptor, the slot's own room.
Memory(w) ==
    CASE w \in {"Recv", "RecvFrom", "Send", "SendTo"} -> "pool"
      [] w \in {"RecvLent", "RecvLentFrom", "SendLent", "SendLentTo"} -> "lent"
      [] w = "SendFile" -> "file"
      [] OTHER -> "none"
IDLE == [by |-> "idle", cancelling |-> FALSE, out |-> FALSE]
Empty == [want |-> None, mem |-> "none", st |-> "free", code |-> "none", bytes |-> 0, cancelled |-> FALSE]

OpInit ==
    /\ mode \in Modes
    /\ slot = Empty /\ word = IDLE /\ op_held = None /\ made = [ops |-> 0, cancels |-> 0]
    /\ thread = [t \in OpThreads |-> "idle"]
    /\ op_cancel = [c \in Cancellers |-> [at |-> "no", found |-> None, op |-> 0]]

-----------------------------------------------------------------------------
\* answer: a call ended with none of its bytes moved may be made again.
op_answer(code, bytes) ==
    CASE code = "none" -> <<"done", bytes>>
      [] code = "aborted" /\ bytes = 0 -> <<"undone", 0>>
      [] code = "aborted" -> <<"done", bytes>>
      [] OTHER -> <<"error", 0>>
\* read_answer: the writer's end closed is the end of the bytes.
read_answer(code, bytes) == IF code = "eof" THEN <<"done", 0>> ELSE op_answer(code, bytes)
OutcomeOf(s) == IF s.want \in Reads THEN read_answer(s.code, s.bytes) ELSE op_answer(s.code, s.bytes)
\* outcome: the memory comes back with it; a file's, with no buffer.
outcome(s) == [want |-> s.want, mem |-> IF s.want = "SendFile" THEN "none" ELSE s.mem, answer |-> OutcomeOf(s)]

\* finish: the operation ends, its memory and its outcome go to the side.
finish(s) == slot' = Empty /\ op_held' = outcome(s)

\* stream_memory points the slot at the want's bytes, or `keep_in' keeps what it cannot use.
stream_memory(w) == [Empty EXCEPT !.want = w, !.mem = Memory(w)]
keep_in(w) == [stream_memory(w) EXCEPT !.code = "einval"]

\* queued: a packet will come, or the call failed at once.
queued(s) ==
    \/ slot' = [s EXCEPT !.st = "kernel"] /\ UNCHANGED op_held
    \/ finish([s EXCEPT !.code = "error"])
\* start_poll: a poll of the socket for room to send.
start_poll == queued([Empty EXCEPT !.want = "PollSend"])
\* WSARecvFrom, WSASendTo and TransmitFile, of wants no stream has.
start_messages(w) == queued(stream_memory(w))
\* AcceptEx, with the socket it needs made first, and ConnectEx.
start_connections(w) ==
    \/ queued(stream_memory(w))
    \/ finish([stream_memory(w) EXCEPT !.code = "unmade"])
\* start: WSARecv or WSASend of a stream's memory, or one of the others.
start(w) ==
    CASE w = "PollSend" -> start_poll
      [] w \in {"Accept", "Connect"} -> start_connections(w)
      [] w \in NotStream -> start_messages(w)
      [] OTHER -> queued(stream_memory(w))
\* start_stream: an overlapped ReadFile or WriteFile.
start_stream(w) == IF w \in Reads \union Writes THEN queued(stream_memory(w)) ELSE finish(keep_in(w))
\* start_job: the call is a pool thread's to make.
start_job(w) ==
    IF w \in Reads \union Writes
    THEN /\ slot' = [stream_memory(w) EXCEPT !.st = "job"]
         /\ word' = [IDLE EXCEPT !.by = "queued"] /\ UNCHANGED op_held
    ELSE finish(keep_in(w)) /\ UNCHANGED word
\* PortIssuer::issue; the side is held, and by no canceller.
op_issue ==
    /\ slot.st = "free" /\ made.ops < OpMaxOps /\ \A c \in Cancellers: op_cancel[c].at = "no"
    /\ made' = [made EXCEPT !.ops = @ + 1]
    /\ \E w \in OpWants:
          /\ (mode # "socket" => w # "PollSend")
          /\ CASE mode = "socket" -> start(w) /\ UNCHANGED word
               [] mode = "stream" -> start_stream(w) /\ UNCHANGED word
               [] mode = "job" -> start_job(w)
    /\ UNCHANGED <<mode, thread, op_cancel>>

\* The kernel's end of an overlapped call, cancelled or not, and its packet.
op_kernel_ends ==
    /\ slot.st = "kernel"
    /\ \/ slot' = [slot EXCEPT !.st = "packet", !.bytes = 1]
       \/ \E code \in {"error", "eof"}: slot' = [slot EXCEPT !.st = "packet", !.code = code]
       \/ slot.cancelled /\ \E n \in {0, 1}: slot' = [slot EXCEPT !.st = "packet", !.code = "aborted", !.bytes = n]
    /\ UNCHANGED <<mode, word, thread, op_cancel, op_held, made>>
\* complete: the packet, dequeued by a shard or a keeper.
op_complete ==
    /\ slot.st = "packet" /\ finish(slot) /\ UNCHANGED <<mode, word, thread, op_cancel, made>>

-----------------------------------------------------------------------------
\* run_job: the thread has a handle a canceller can use, or the call is not made.
run_job(t) ==
    /\ slot.st = "job" /\ thread[t] = "idle"
    /\ \/ thread' = [thread EXCEPT ![t] = "begin"] /\ slot' = [slot EXCEPT !.st = "taken"] /\ UNCHANGED word
       \/ slot' = [slot EXCEPT !.st = "packet", !.code = "nobufs"] /\ word' = IDLE /\ UNCHANGED thread
    /\ UNCHANGED <<mode, op_cancel, op_held, made>>
\* Job::begin: QUEUED becomes the thread, or a canceller aborted it.
begin(t) ==
    /\ thread[t] = "begin"
    /\ IF word.by = "queued" THEN word' = [word EXCEPT !.by = t] /\ thread' = [thread EXCEPT ![t] = "call"] /\ UNCHANGED slot
       ELSE /\ word' = IDLE /\ thread' = [thread EXCEPT ![t] = "idle"]
            /\ slot' = [slot EXCEPT !.st = "packet", !.code = "aborted"]
    /\ UNCHANGED <<mode, op_cancel, op_held, made>>
\* The call enters the kernel, where a canceller finds it, and ends there.
call_enters(t) ==
    /\ thread[t] = "call" /\ thread' = [thread EXCEPT ![t] = "blocked"]
    /\ UNCHANGED <<mode, slot, word, op_cancel, op_held, made>>
call_ends(t) ==
    /\ thread[t] = "blocked" /\ thread' = [thread EXCEPT ![t] = "end"]
    /\ \/ slot' = [slot EXCEPT !.bytes = 1]
       \/ \E code \in {"error", "eof"}: slot' = [slot EXCEPT !.code = code]
       \/ slot.cancelled /\ slot' = [slot EXCEPT !.code = "aborted"]
    /\ UNCHANGED <<mode, word, op_cancel, op_held, made>>
\* Job::end: OUT is said, and the word is waited for until no canceller has it.
end_says(t) ==
    /\ thread[t] = "end" /\ word' = [word EXCEPT !.out = TRUE] /\ thread' = [thread EXCEPT ![t] = "spin"]
    /\ UNCHANGED <<mode, slot, op_cancel, op_held, made>>
end(t) ==
    /\ thread[t] = "spin" /\ ~word.cancelling
    /\ word' = IDLE /\ thread' = [thread EXCEPT ![t] = "idle"]
    /\ slot' = [slot EXCEPT !.st = "packet"] /\ UNCHANGED <<mode, op_cancel, op_held, made>>
\* The pool thread makes a blocking call of another job meanwhile.
other(t) ==
    /\ thread[t] \in {"idle", "other"} /\ thread' = [thread EXCEPT ![t] = IF @ = "idle" THEN "other" ELSE "idle"]
    /\ UNCHANGED <<mode, slot, word, op_cancel, op_held, made>>

-----------------------------------------------------------------------------
\* Source::cancel_op, by the side's holder.
cancel_op(c) ==
    /\ op_cancel[c].at = "no" /\ \A o \in Cancellers: op_cancel[o].at = "no"
    /\ slot.st \notin {"free", "packet"} /\ made.cancels < MaxCancels
    /\ made' = [made EXCEPT !.cancels = @ + 1]
    /\ IF mode = "job" THEN op_cancel' = [op_cancel EXCEPT ![c].at = "look", ![c].op = made.ops] /\ UNCHANGED slot
       ELSE slot' = [slot EXCEPT !.cancelled = TRUE] /\ UNCHANGED op_cancel
    /\ UNCHANGED <<mode, word, thread, op_held>>
Back(c) == op_cancel' = [op_cancel EXCEPT ![c].at = "no", ![c].found = None]
\* Job::cancel: what the word says, and its exchange (a failed one looks again).
cancel_looks(c) ==
    /\ op_cancel[c].at = "look"
    /\ CASE word.by \in {"idle", "aborted"} -> Back(c) /\ UNCHANGED word
         [] word.by = "queued" -> word' = [word EXCEPT !.by = "aborted"] /\ Back(c)
         [] word.cancelling \/ word.out -> Back(c) /\ UNCHANGED word
         [] OTHER -> /\ word' = [word EXCEPT !.cancelling = TRUE]
                     /\ op_cancel' = [op_cancel EXCEPT ![c].at = "calls", ![c].found = word.by]
    /\ UNCHANGED <<mode, slot, thread, op_held, made>>
\* CancelSynchronousIo: a call of that thread in the kernel is cancelled, else it fails.
CancelHits(c) == thread[op_cancel[c].found] \in {"blocked", "other"}
cancel_calls(c) ==
    /\ op_cancel[c].at = "calls"
    /\ slot' = IF thread[op_cancel[c].found] = "blocked" THEN [slot EXCEPT !.cancelled = TRUE] ELSE slot
    /\ op_cancel' = [op_cancel EXCEPT ![c].at = IF CancelHits(c) THEN "hit" ELSE "missed"]
    /\ UNCHANGED <<mode, word, thread, op_held, made>>
\* A cancel that missed is made again, unless the call ended.
clear_ends(c) == op_cancel[c].at = "hit" \/ word.out
cancel_clears(c) ==
    /\ op_cancel[c].at \in {"hit", "missed"} /\ word' = [word EXCEPT !.cancelling = FALSE]
    /\ op_cancel' = [op_cancel EXCEPT ![c].at = IF clear_ends(c) THEN "no" ELSE "look", ![c].found = None]
    /\ UNCHANGED <<mode, slot, thread, op_held, made>>

OpNext ==
    \/ op_issue \/ op_kernel_ends \/ op_complete
    \/ \E t \in OpThreads: run_job(t) \/ begin(t) \/ call_enters(t) \/ call_ends(t) \/ end_says(t) \/ end(t) \/ other(t)
    \/ \E c \in Cancellers: cancel_op(c) \/ cancel_looks(c) \/ cancel_calls(c) \/ cancel_clears(c)
OpSpec == OpInit /\ [][OpNext]_op_vars

-----------------------------------------------------------------------------
(* `CancelSynchronousIo' names a thread: while a canceller may call it, the thread
   makes the job's call (`Job::end' waits for it), never another job's. *)
CancelIsOurs == \A c \in Cancellers: op_cancel[c].at = "calls" => thread[op_cancel[c].found] \in {"call", "blocked", "end", "spin"}

(* A cancel that returned was heard: the call it was made for is not begun, is
   cancelled, or is out of the kernel. *)
CancelHeard ==
    \A c \in Cancellers:
        (mode = "job" /\ op_cancel[c].at = "no" /\ op_cancel[c].op # 0 /\ op_cancel[c].op = made.ops) =>
            \/ slot.st \in {"free", "packet"} \/ word.by = "aborted" \/ slot.cancelled
            \/ \E t \in OpThreads: thread[t] \in {"end", "spin"}
==============================================================================
