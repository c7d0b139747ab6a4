------------------------------ MODULE Fanout ------------------------------
(***************************************************************************)
(* The watch channel of src/sync/watch.rs: the last value sent, published  *)
(* by one swap, and a version bumped after it that says what each receiver *)
(* has seen.  Values are numbered in the order of their swaps.             *)
(*                                                                         *)
(* The two Notify are here what module Notify shows them to be: a future   *)
(* created at a generation completes once a broadcast moved it on.         *)
(***************************************************************************)
EXTENDS Integers, FiniteSets

CONSTANTS WatchSenders, WatchReceivers,
          WatchMaxSends,  \* bound: values sent, in all
          MaxCalls   \* bound: calls of each receiver

VARIABLES
    value,      \* the latest value swapped in
    version,    \* the version part of the state word
    CLOSED,     \* its closed bit
    watch_receivers,  \* ref_count_rx
    watch_senders,    \* ref_count_tx
    watch_toldRx,     \* notify_rx's generation
    watch_toldTx,     \* notify_tx's generation
    watch_tx,         \* of a sender: where its call is and the value it loaded
    watch_rx,         \* of a receiver: its version, where its call is, what it saw
    calls

watch_vars == <<value, version, CLOSED, watch_receivers, watch_senders, watch_toldRx, watch_toldTx, watch_tx, watch_rx, calls>>

WatchInit ==
    /\ value = 0 /\ version = 0 /\ CLOSED = FALSE /\ watch_toldRx = 0 /\ watch_toldTx = 0
    /\ watch_receivers = Cardinality(WatchReceivers) /\ watch_senders = Cardinality(WatchSenders)
    /\ watch_tx = [s \in WatchSenders |-> [at |-> "idle", loaded |-> 0, told |-> 0]]
    /\ watch_rx = [r \in WatchReceivers |-> [at |-> "idle", version |-> 0, look |-> 0, saw |-> 0, told |-> 0,
                                  closed |-> FALSE, marks |-> FALSE]]
    /\ calls = [r \in WatchReceivers |-> 0]

WatchTx(s, where) == watch_tx' = [watch_tx EXCEPT ![s].at = where]
Rx(r, where) == watch_rx' = [watch_rx EXCEPT ![r].at = where]

-----------------------------------------------------------------------------
\* send fails only with no receiver left; send_replace goes on regardless.
watch_send(s) ==
    /\ watch_tx[s].at = "idle" /\ value < WatchMaxSends /\ watch_receivers > 0 /\ WatchTx(s, "store")
    /\ UNCHANGED <<value, version, CLOSED, watch_receivers, watch_senders, watch_toldRx, watch_toldTx, watch_rx, calls>>

send_replace(s) ==
    /\ watch_tx[s].at \in {"idle", "store"} /\ value < WatchMaxSends /\ value' = value + 1 /\ WatchTx(s, "publish")
    /\ UNCHANGED <<version, CLOSED, watch_receivers, watch_senders, watch_toldRx, watch_toldTx, watch_rx, calls>>

\* send_if_modified and send_modify: a copy is changed, and swapped in only if
\* nobody was faster; a closure that declines publishes nothing.
send_if_modified(s) ==
    /\ watch_tx[s].at = "idle" /\ watch_tx' = [watch_tx EXCEPT ![s].at = "modify", ![s].loaded = value]
    /\ UNCHANGED <<value, version, CLOSED, watch_receivers, watch_senders, watch_toldRx, watch_toldTx, watch_rx, calls>>

compare_and_swap(s) ==
    /\ watch_tx[s].at = "modify"
    /\ \/ WatchTx(s, "idle") /\ UNCHANGED value
       \/ value # watch_tx[s].loaded /\ watch_tx' = [watch_tx EXCEPT ![s].loaded = value] /\ UNCHANGED value
       \/ value = watch_tx[s].loaded /\ value < WatchMaxSends /\ value' = value + 1 /\ WatchTx(s, "publish")
    /\ UNCHANGED <<version, CLOSED, watch_receivers, watch_senders, watch_toldRx, watch_toldTx, watch_rx, calls>>

\* published: the version, then the wake.
published(s) ==
    /\ watch_tx[s].at = "publish" /\ version' = version + 1 /\ WatchTx(s, "notify")
    /\ UNCHANGED <<value, CLOSED, watch_receivers, watch_senders, watch_toldRx, watch_toldTx, watch_rx, calls>>

published_wakes(s) ==
    /\ watch_tx[s].at = "notify" /\ watch_toldRx' = watch_toldRx + 1 /\ WatchTx(s, "idle")
    /\ UNCHANGED <<value, version, CLOSED, watch_receivers, watch_senders, watch_toldTx, watch_rx, calls>>

\* Sender::drop: the last one closes, then wakes.
watch_sender_drop(s) ==
    /\ watch_tx[s].at = "idle" /\ watch_senders' = watch_senders - 1 /\ WatchTx(s, IF watch_senders = 1 THEN "close" ELSE "gone")
    /\ UNCHANGED <<value, version, CLOSED, watch_receivers, watch_toldRx, watch_toldTx, watch_rx, calls>>

watch_sender_closes(s) ==
    /\ watch_tx[s].at = "close" /\ CLOSED' = TRUE /\ WatchTx(s, "close_notify")
    /\ UNCHANGED <<value, version, watch_receivers, watch_senders, watch_toldRx, watch_toldTx, watch_rx, calls>>

watch_close_wakes(s) ==
    /\ watch_tx[s].at = "close_notify" /\ watch_toldRx' = watch_toldRx + 1 /\ WatchTx(s, "gone")
    /\ UNCHANGED <<value, version, CLOSED, watch_receivers, watch_senders, watch_toldTx, watch_rx, calls>>

\* Sender::closed: the future is created between two looks at the receivers.
watch_closed(s) ==
    /\ watch_tx[s].at \in {"idle", "again"} /\ watch_receivers > 0
    /\ watch_tx' = [watch_tx EXCEPT ![s].at = "closed", ![s].told = watch_toldTx]
    /\ UNCHANGED <<value, version, CLOSED, watch_receivers, watch_senders, watch_toldRx, watch_toldTx, watch_rx, calls>>

watch_closed_looks(s) ==
    /\ watch_tx[s].at = "closed" /\ WatchTx(s, IF watch_receivers = 0 THEN "idle" ELSE "sleep")
    /\ UNCHANGED <<value, version, CLOSED, watch_receivers, watch_senders, watch_toldRx, watch_toldTx, watch_rx, calls>>

watch_closed_wakes(s) ==
    /\ watch_tx[s].at = "sleep" /\ watch_toldTx # watch_tx[s].told /\ WatchTx(s, IF watch_receivers > 0 THEN "again" ELSE "idle")
    /\ UNCHANGED <<value, version, CLOSED, watch_receivers, watch_senders, watch_toldRx, watch_toldTx, watch_rx, calls>>

-----------------------------------------------------------------------------
Calls(r) == watch_rx[r].at = "idle" /\ calls[r] < MaxCalls /\ calls' = [calls EXCEPT ![r] = @ + 1]

\* snapshot: the version is read before the value.
snapshot(r, where, marks) ==
    watch_rx' = [watch_rx EXCEPT ![r].at = where, ![r].look = version, ![r].marks = marks]

\* borrow, borrow_and_update
borrow(r, marks) ==
    /\ Calls(r) /\ snapshot(r, "load", marks)
    /\ UNCHANGED <<value, version, CLOSED, watch_receivers, watch_senders, watch_toldRx, watch_toldTx, watch_tx>>

\* A borrow that marks takes the version it read as seen.
borrow_loads(r) ==
    /\ watch_rx[r].at = "load"
    /\ watch_rx' = [watch_rx EXCEPT ![r].at = "idle", ![r].look = 0,
                        ![r].saw = IF watch_rx[r].marks THEN value ELSE @,
                        ![r].version = IF watch_rx[r].marks THEN watch_rx[r].look ELSE @]
    /\ UNCHANGED <<value, version, CLOSED, watch_receivers, watch_senders, watch_toldRx, watch_toldTx, watch_tx, calls>>

\* mark_changed, mark_unchanged
mark_changed(r) ==
    /\ Calls(r) /\ watch_rx' = [watch_rx EXCEPT ![r].version = @ - 1]
    /\ UNCHANGED <<value, version, CLOSED, watch_receivers, watch_senders, watch_toldRx, watch_toldTx, watch_tx>>

mark_unchanged(r) ==
    /\ Calls(r) /\ watch_rx' = [watch_rx EXCEPT ![r].version = version, ![r].saw = value]
    /\ UNCHANGED <<value, version, CLOSED, watch_receivers, watch_senders, watch_toldRx, watch_toldTx, watch_tx>>

\* changed: the future is created before the look, so no send falls between.
changed(r, where) ==
    /\ \/ Calls(r) /\ where = "changed"
       \/ watch_rx[r].at = "wait_next" /\ where = "wait_changed" /\ UNCHANGED calls
    /\ watch_rx' = [watch_rx EXCEPT ![r].at = where, ![r].told = watch_toldRx]
    /\ UNCHANGED <<value, version, CLOSED, watch_receivers, watch_senders, watch_toldRx, watch_toldTx, watch_tx>>

ChangedTrusts(r) ==
    /\ watch_rx[r].at \in {"changed", "wait_changed"}
    /\ LET waits == watch_rx[r].at = "wait_changed" IN
       watch_rx' = IF watch_rx[r].version # version
             THEN [watch_rx EXCEPT ![r].version = version, ![r].saw = value,
                             ![r].at = IF waits THEN "wait_look" ELSE "idle"]
             ELSE [watch_rx EXCEPT ![r].at = IF waits THEN "wait_sleep" ELSE "sleep"]
    /\ UNCHANGED <<value, version, CLOSED, watch_receivers, watch_senders, watch_toldRx, watch_toldTx, watch_tx, calls>>

\* maybe_changed: a version unseen, else the closing; else it sleeps.
maybe_changed(r) ==
    /\ watch_rx[r].at \in {"changed", "wait_changed"}
    /\ LET waits == watch_rx[r].at = "wait_changed" IN
       watch_rx' = CASE watch_rx[r].version # version ->
                    [watch_rx EXCEPT ![r].version = version, ![r].saw = value, ![r].told = 0,
                               ![r].at = IF waits THEN "wait_look" ELSE "idle"]
               [] watch_rx[r].version = version /\ CLOSED ->
                    [watch_rx EXCEPT ![r].at = IF waits THEN "wait_look" ELSE "idle", ![r].closed = waits,
                               ![r].told = 0]
               [] OTHER -> [watch_rx EXCEPT ![r].at = IF waits THEN "wait_sleep" ELSE "sleep"]
    /\ UNCHANGED <<value, version, CLOSED, watch_receivers, watch_senders, watch_toldRx, watch_toldTx, watch_tx, calls>>

changed_wakes(r) ==
    /\ watch_rx[r].at \in {"sleep", "wait_sleep"} /\ watch_toldRx # watch_rx[r].told
    /\ watch_rx' = [watch_rx EXCEPT ![r].at = IF watch_rx[r].at = "sleep" THEN "changed" ELSE "wait_changed",
                        ![r].told = watch_toldRx]
    /\ UNCHANGED <<value, version, CLOSED, watch_receivers, watch_senders, watch_toldRx, watch_toldTx, watch_tx, calls>>

\* wait_for: a snapshot is judged by the closure, and the last one once the
\* channel closed only if it is new.
wait_for(r) ==
    /\ \/ Calls(r)
       \/ watch_rx[r].at = "wait_look" /\ UNCHANGED calls
    /\ watch_rx' = [watch_rx EXCEPT ![r].at = "wait_load", ![r].look = version,
                        ![r].closed = watch_rx[r].at = "wait_look" /\ @]
    /\ UNCHANGED <<value, version, CLOSED, watch_receivers, watch_senders, watch_toldRx, watch_toldTx, watch_tx>>

wait_for_judges(r) ==
    /\ watch_rx[r].at = "wait_load"
    /\ LET fresh == watch_rx[r].version # watch_rx[r].look IN
       \E takes \in {(~watch_rx[r].closed \/ fresh), FALSE}:
         watch_rx' = [watch_rx EXCEPT ![r].at = IF takes \/ watch_rx[r].closed THEN "idle" ELSE "wait_next",
                          ![r].version = watch_rx[r].look, ![r].look = 0, ![r].saw = value,
                          ![r].closed = FALSE]
    /\ UNCHANGED <<value, version, CLOSED, watch_receivers, watch_senders, watch_toldRx, watch_toldTx, watch_tx, calls>>

\* subscribe and clone: a receiver that left may come back, with the version
\* of that moment as seen.
watch_subscribe(r) ==
    /\ watch_rx[r].at = "gone" /\ calls[r] < MaxCalls /\ calls' = [calls EXCEPT ![r] = @ + 1]
    /\ \E s \in WatchSenders: watch_tx[s].at = "idle"
    /\ watch_receivers' = watch_receivers + 1
    /\ watch_rx' = [watch_rx EXCEPT ![r].at = "idle", ![r].version = version, ![r].saw = value]
    /\ UNCHANGED <<value, version, CLOSED, watch_senders, watch_toldRx, watch_toldTx, watch_tx>>

\* Receiver::drop: the last one wakes the senders that wait for it.
watch_receiver_drop(r) ==
    /\ Calls(r) /\ watch_receivers' = watch_receivers - 1 /\ Rx(r, IF watch_receivers = 1 THEN "leaving" ELSE "gone")
    /\ UNCHANGED <<value, version, CLOSED, watch_senders, watch_toldRx, watch_toldTx, watch_tx>>

watch_receiver_wakes(r) ==
    /\ watch_rx[r].at = "leaving" /\ watch_toldTx' = watch_toldTx + 1 /\ Rx(r, "gone")
    /\ UNCHANGED <<value, version, CLOSED, watch_receivers, watch_senders, watch_toldRx, watch_tx, calls>>

WatchNext ==
    \/ \E s \in WatchSenders:
        \/ watch_send(s) \/ send_replace(s) \/ send_if_modified(s) \/ compare_and_swap(s)
        \/ published(s) \/ published_wakes(s)
        \/ watch_sender_drop(s) \/ watch_sender_closes(s) \/ watch_close_wakes(s)
        \/ watch_closed(s) \/ watch_closed_looks(s) \/ watch_closed_wakes(s)
    \/ \E r \in WatchReceivers:
        \/ \E marks \in BOOLEAN: borrow(r, marks)
        \/ borrow_loads(r) \/ mark_changed(r) \/ mark_unchanged(r)
        \/ \E where \in {"changed", "wait_changed"}: changed(r, where)
        \/ maybe_changed(r) \/ changed_wakes(r) \/ wait_for(r) \/ wait_for_judges(r)
        \/ watch_subscribe(r) \/ watch_receiver_drop(r) \/ watch_receiver_wakes(r)

WatchSpec == WatchInit /\ [][WatchNext]_watch_vars

\* What the queries answer: the receiver's has_changed and is_closed (its
\* channel), the sender's is_closed (no receiver).
has_changed(r) == watch_rx[r].version # version
is_closed == CLOSED
no_receiver == watch_receivers = 0

InFlight(stages) == \E s \in WatchSenders: watch_tx[s].at \in stages

(***************************************************************************)
(* A receiver never takes a value as seen that it did not see: once every  *)
(* send is over, one whose version is the current one was shown, or told   *)
(* of, the current value (snapshot reads the version before the value, and *)
(* published bumps it after).                                              *)
(***************************************************************************)
SeenIsSeen ==
    ~InFlight({"publish", "notify"}) =>
        \A r \in WatchReceivers: watch_rx[r].at \in {"idle", "sleep"} /\ ~has_changed(r) => watch_rx[r].saw = value

(***************************************************************************)
(* Nobody sleeps through a change: with every send, close and drop over, a *)
(* receiver asleep has seen the version and the channel is open, and a     *)
(* sender asleep in closed has a receiver left.                            *)
(***************************************************************************)
WatchNobodySleepsPast ==
    /\ ~InFlight({"publish", "notify", "close", "close_notify"}) =>
        \A r \in WatchReceivers: watch_rx[r].at \in {"sleep", "wait_sleep"} /\ watch_rx[r].told = watch_toldRx =>
            ~has_changed(r) /\ ~is_closed
    /\ (\A r \in WatchReceivers: watch_rx[r].at # "leaving") =>
        \A s \in WatchSenders: watch_tx[s].at = "sleep" /\ watch_tx[s].told = watch_toldTx => ~no_receiver

------------------------------------------------------------------------------
(***************************************************************************)
(* The broadcast channel of src/sync/broadcast.rs: a ring of slots, a      *)
(* position taken by one fetch_add per value, a slot published by one      *)
(* compare-and-swap that a later value wins, and a cursor per receiver.    *)
(* A value is named by its position; the Notify are as above.              *)
(***************************************************************************)

CONSTANTS CastSenders, CastReceivers, cast_capacity,
          Casts,    \* the sets of handles a channel may have: the others are never made
          CastMaxSends  \* bound: positions taken

VARIABLES
    slots,      \* the position of the node in each slot, or -1
    tail,
    isClosed,   \* the closed flag
    cast_receivers, cast_senders, weak,
    cast_toldRx, cast_toldTx,
    cast_tx,         \* of a sender: where its call is, the position it holds
    cast_rx,         \* of a receiver: where its call is, its cursor
    got         \* of a receiver: positions read, positions told lost

cast_vars == <<slots, tail, isClosed, cast_receivers, cast_senders, weak, cast_toldRx, cast_toldTx, cast_tx, cast_rx, got>>

slot(pos) == pos % cast_capacity

\* Every handle but one sender and one receiver is made from those.
handle(x, first, cast) == IF x = first THEN "idle" ELSE IF x \in cast THEN "gone" ELSE "never"

CastInit ==
    /\ slots = [i \in 0..cast_capacity - 1 |-> -1] /\ tail = 0 /\ isClosed = FALSE
    /\ cast_toldRx = 0 /\ cast_toldTx = 0 /\ cast_senders = 1 /\ weak = 0 /\ cast_receivers = 1
    /\ \E cast \in Casts: \E s \in CastSenders \cap cast, r \in CastReceivers \cap cast:
        /\ cast_tx = [x \in CastSenders |-> [at |-> handle(x, s, cast), pos |-> -1, told |-> 0]]
        /\ cast_rx = [x \in CastReceivers |-> [at |-> handle(x, r, cast), next |-> 0, told |-> 0]]
    /\ got = [r \in CastReceivers |-> [from |-> 0, read |-> {}, lost |-> 0, shut |-> FALSE]]

CastTx(s, where) == cast_tx' = [cast_tx EXCEPT ![s].at = where]

-----------------------------------------------------------------------------
\* send: it takes a position, if anybody listens ...
cast_send(s) ==
    /\ cast_tx[s].at = "idle" /\ cast_receivers > 0 /\ CastTx(s, "take")
    /\ UNCHANGED <<slots, tail, isClosed, cast_receivers, cast_senders, weak, cast_toldRx, cast_toldTx, cast_rx, got>>

send_takes(s) ==
    /\ cast_tx[s].at = "take" /\ tail < CastMaxSends /\ tail' = tail + 1
    /\ cast_tx' = [cast_tx EXCEPT ![s].at = "publish", ![s].pos = tail]
    /\ UNCHANGED <<slots, isClosed, cast_receivers, cast_senders, weak, cast_toldRx, cast_toldTx, cast_rx, got>>

\* ... publishes its node unless a later value has the slot ...
send_publishes(s) ==
    /\ cast_tx[s].at = "publish"
    /\ LET pos == cast_tx[s].pos IN
       slots' = [slots EXCEPT ![slot(pos)] = IF @ > pos THEN @ ELSE pos]
    /\ cast_tx' = [cast_tx EXCEPT ![s].at = "notify", ![s].pos = -1]
    /\ UNCHANGED <<tail, isClosed, cast_receivers, cast_senders, weak, cast_toldRx, cast_toldTx, cast_rx, got>>

\* ... and wakes every receiver.
send_wakes(s) ==
    /\ cast_tx[s].at = "notify" /\ cast_toldRx' = cast_toldRx + 1 /\ CastTx(s, "idle")
    /\ UNCHANGED <<slots, tail, isClosed, cast_receivers, cast_senders, weak, cast_toldTx, cast_rx, got>>

\* Sender::clone
clone(s) ==
    /\ cast_tx[s].at = "gone" /\ (\E t \in CastSenders: cast_tx[t].at = "idle")
    /\ cast_senders' = cast_senders + 1 /\ CastTx(s, "idle")
    /\ UNCHANGED <<slots, tail, isClosed, cast_receivers, weak, cast_toldRx, cast_toldTx, cast_rx, got>>

\* downgrade: the sender it was made of drops after it.
downgrade(s) ==
    /\ cast_tx[s].at = "idle" /\ weak = 0 /\ weak' = 1
    /\ UNCHANGED <<slots, tail, isClosed, cast_receivers, cast_senders, cast_toldRx, cast_toldTx, cast_tx, cast_rx, got>>

\* WeakSender::upgrade: none once the last sender went.
upgrade(s) ==
    /\ weak > 0 /\ cast_tx[s].at = "gone" /\ cast_senders > 0 /\ cast_senders' = cast_senders + 1 /\ CastTx(s, "idle")
    /\ UNCHANGED <<slots, tail, isClosed, cast_receivers, weak, cast_toldRx, cast_toldTx, cast_rx, got>>

\* Sender::drop
cast_sender_drop(s) ==
    /\ cast_tx[s].at = "idle" /\ cast_senders' = cast_senders - 1 /\ CastTx(s, IF cast_senders = 1 THEN "close" ELSE "gone")
    /\ UNCHANGED <<slots, tail, isClosed, cast_receivers, weak, cast_toldRx, cast_toldTx, cast_rx, got>>

cast_sender_closes(s) ==
    /\ cast_tx[s].at = "close" /\ isClosed' = TRUE /\ CastTx(s, "close_notify")
    /\ UNCHANGED <<slots, tail, cast_receivers, cast_senders, weak, cast_toldRx, cast_toldTx, cast_rx, got>>

cast_close_wakes(s) ==
    /\ cast_tx[s].at = "close_notify" /\ cast_toldRx' = cast_toldRx + 1 /\ CastTx(s, "gone")
    /\ UNCHANGED <<slots, tail, isClosed, cast_receivers, cast_senders, weak, cast_toldTx, cast_rx, got>>

\* Sender::closed
cast_closed(s) ==
    /\ cast_tx[s].at = "idle" /\ cast_receivers > 0 /\ cast_tx' = [cast_tx EXCEPT ![s].at = "closed", ![s].told = cast_toldTx]
    /\ UNCHANGED <<slots, tail, isClosed, cast_receivers, cast_senders, weak, cast_toldRx, cast_toldTx, cast_rx, got>>

cast_closed_looks(s) ==
    /\ cast_tx[s].at = "closed"
    /\ cast_tx' = [cast_tx EXCEPT ![s].at = IF cast_receivers = 0 THEN "idle" ELSE "sleep", ![s].told = IF cast_receivers = 0 THEN 0 ELSE @]
    /\ UNCHANGED <<slots, tail, isClosed, cast_receivers, cast_senders, weak, cast_toldRx, cast_toldTx, cast_rx, got>>

cast_closed_wakes(s) ==
    /\ cast_tx[s].at = "sleep" /\ cast_toldTx # cast_tx[s].told /\ cast_tx' = [cast_tx EXCEPT ![s].at = "idle", ![s].told = 0]
    /\ UNCHANGED <<slots, tail, isClosed, cast_receivers, cast_senders, weak, cast_toldRx, cast_toldTx, cast_rx, got>>

-----------------------------------------------------------------------------
\* Shared::subscribe, from a sender or (resubscribe) another receiver: the
\* cursor is at the tail of that moment, and is counted after.
cast_subscribe(r) ==
    /\ cast_rx[r].at = "gone" /\ got[r].read = {} /\ got[r].lost = 0 /\ ~got[r].shut
    /\ \/ \E s \in CastSenders: cast_tx[s].at = "idle"
       \/ \E q \in CastReceivers: cast_rx[q].at = "idle"
    /\ cast_rx' = [cast_rx EXCEPT ![r].at = "subscribe", ![r].next = tail]
    /\ got' = [got EXCEPT ![r].from = tail]
    /\ UNCHANGED <<slots, tail, isClosed, cast_receivers, cast_senders, weak, cast_toldRx, cast_toldTx, cast_tx>>

subscribe_counts(r) ==
    /\ cast_rx[r].at = "subscribe" /\ cast_receivers' = cast_receivers + 1 /\ cast_rx' = [cast_rx EXCEPT ![r].at = "idle"]
    /\ UNCHANGED <<slots, tail, isClosed, cast_senders, weak, cast_toldRx, cast_toldTx, cast_tx, got>>

\* recv: its future is created before the look at the slot.
cast_recv(r) ==
    /\ cast_rx[r].at = "idle" /\ ~got[r].shut /\ cast_rx' = [cast_rx EXCEPT ![r].at = "look", ![r].told = cast_toldRx]
    /\ UNCHANGED <<slots, tail, isClosed, cast_receivers, cast_senders, weak, cast_toldRx, cast_toldTx, cast_tx, got>>

\* try_recv_if: the node of its position is read; a later one means it lagged.
try_recv_if(r) ==
    /\ cast_rx[r].at = "look"
    /\ LET pos == slots[slot(cast_rx[r].next)] IN
       \/ /\ pos = cast_rx[r].next
          /\ cast_rx' = [cast_rx EXCEPT ![r].at = "idle", ![r].next = pos + 1, ![r].told = 0]
          /\ got' = [got EXCEPT ![r].read = @ \union {pos}]
       \/ /\ pos > cast_rx[r].next /\ cast_rx' = [cast_rx EXCEPT ![r].at = "lagged", ![r].told = 0] /\ UNCHANGED got
       \/ /\ pos < cast_rx[r].next /\ cast_rx' = [cast_rx EXCEPT ![r].at = "empty"] /\ UNCHANGED got
    /\ UNCHANGED <<slots, tail, isClosed, cast_receivers, cast_senders, weak, cast_toldRx, cast_toldTx, cast_tx>>

advance(r) ==
    /\ cast_rx[r].at = "lagged"
    /\ LET oldest == IF tail > cast_capacity THEN tail - cast_capacity ELSE 0 IN
       /\ cast_rx' = [cast_rx EXCEPT ![r].at = "idle", ![r].next = oldest]
       /\ got' = [got EXCEPT ![r].lost = @ + oldest - cast_rx[r].next]
    /\ UNCHANGED <<slots, tail, isClosed, cast_receivers, cast_senders, weak, cast_toldRx, cast_toldTx, cast_tx>>

\* A closed channel is over once every position was read; else it waits.  The
\* tail is read after the flag, and no position is taken once that is up.
recv_empty(r) ==
    /\ cast_rx[r].at = "empty"
    /\ LET over == isClosed /\ tail <= cast_rx[r].next IN
       /\ cast_rx' = [cast_rx EXCEPT ![r].at = IF over THEN "idle" ELSE "sleep", ![r].told = IF over THEN 0 ELSE @]
       /\ got' = [got EXCEPT ![r].shut = over]
    /\ UNCHANGED <<slots, tail, isClosed, cast_receivers, cast_senders, weak, cast_toldRx, cast_toldTx, cast_tx>>

recv_wakes(r) ==
    /\ cast_rx[r].at = "sleep" /\ cast_toldRx # cast_rx[r].told /\ cast_rx' = [cast_rx EXCEPT ![r].at = "idle", ![r].told = 0]
    /\ UNCHANGED <<slots, tail, isClosed, cast_receivers, cast_senders, weak, cast_toldRx, cast_toldTx, cast_tx, got>>

\* Receiver::drop
cast_receiver_drop(r) ==
    /\ cast_rx[r].at = "idle" /\ cast_receivers' = cast_receivers - 1
    /\ cast_rx' = [cast_rx EXCEPT ![r].at = IF cast_receivers = 1 THEN "leaving" ELSE "gone"]
    /\ got' = [got EXCEPT ![r].shut = TRUE]
    /\ UNCHANGED <<slots, tail, isClosed, cast_senders, weak, cast_toldRx, cast_toldTx, cast_tx>>

cast_receiver_wakes(r) ==
    /\ cast_rx[r].at = "leaving" /\ cast_toldTx' = cast_toldTx + 1 /\ cast_rx' = [cast_rx EXCEPT ![r].at = "gone"]
    /\ UNCHANGED <<slots, tail, isClosed, cast_receivers, cast_senders, weak, cast_toldRx, cast_tx, got>>

CastNext ==
    \/ \E s \in CastSenders:
        \/ cast_send(s) \/ send_takes(s) \/ send_publishes(s) \/ send_wakes(s)
        \/ clone(s) \/ downgrade(s) \/ upgrade(s)
        \/ cast_sender_drop(s) \/ cast_sender_closes(s) \/ cast_close_wakes(s)
        \/ cast_closed(s) \/ cast_closed_looks(s) \/ cast_closed_wakes(s)
    \/ \E r \in CastReceivers:
        \/ cast_subscribe(r) \/ subscribe_counts(r) \/ cast_recv(r) \/ try_recv_if(r) \/ advance(r)
        \/ recv_empty(r) \/ recv_wakes(r) \/ cast_receiver_drop(r) \/ cast_receiver_wakes(r)

CastSpec == CastInit /\ [][CastNext]_cast_vars

\* What the queries answer: a receiver's len, and a sender's, the most any
\* receiver has before it of what the ring keeps.
len(r) == tail - cast_rx[r].next
is_empty(r) == len(r) = 0
kept == LET held == {len(r): r \in {q \in CastReceivers: cast_rx[q].at \notin {"never", "gone", "leaving"}}}
        IN CHOOSE n \in 0..cast_capacity:
              /\ \A h \in held: h <= n \/ n = cast_capacity
              /\ n = 0 \/ \E h \in held: h >= n

(***************************************************************************)
(* Every value is accounted for: a receiver has read or been told the loss *)
(* of each position from its subscription to its cursor, once, and hears   *)
(* Closed only with its cursor at the tail (a slower sender's value, that  *)
(* a later one overtook in the slot, is told lost and not waited for).     *)
(***************************************************************************)
ValuesAccounted ==
    \A r \in CastReceivers:
        /\ Cardinality(got[r].read) + got[r].lost = cast_rx[r].next - got[r].from
        /\ got[r].shut /\ cast_rx[r].at = "idle" => is_empty(r)
        /\ cast_rx[r].at = "idle" /\ len(r) > kept => len(r) > cast_capacity

(***************************************************************************)
(* Nobody sleeps past anything: with no send, close or drop under way, the *)
(* slot of a receiver that sleeps holds neither its value nor a later one, *)
(* and the channel is not closed behind its last value; and a sender       *)
(* asleep in closed has a receiver left.                                   *)
(***************************************************************************)
CastNobodySleepsPast ==
    /\ (\A s \in CastSenders: cast_tx[s].at \notin {"publish", "notify", "close", "close_notify"}) =>
        \A r \in CastReceivers: cast_rx[r].at = "sleep" /\ cast_rx[r].told = cast_toldRx =>
            /\ slots[slot(cast_rx[r].next)] < cast_rx[r].next
            /\ is_empty(r) /\ ~isClosed
    /\ (\A r \in CastReceivers: cast_rx[r].at # "leaving") =>
        \A s \in CastSenders: cast_tx[s].at = "sleep" /\ cast_tx[s].told = cast_toldTx => cast_receivers > 0

------------------------------------------------------------------------------
(***************************************************************************)
(* The mesh of src/sync/mesh.rs: a bounded channel from every party to     *)
(* every party, itself included, and a receive over all of a party's       *)
(* channels that starts after the one it took from last.                   *)
(*                                                                         *)
(* A channel is module Channel's queue: a count of values, full at the     *)
(* capacity, ended once its sender is gone and its values taken.           *)
(***************************************************************************)

CONSTANTS N,         \* parties, 0 .. N - 1
          mesh_capacity,
          MeshMaxSends   \* bound: values sent, in all

Parties == 0 .. N - 1

VARIABLES
    queue,     \* queue[from][to]: the values in the channel
    mesh_senders,   \* the parties whose senders are not closed
    ended, mesh_next,
    armed,     \* of a party: the channels its pending receive left its waker in
    mesh_told,      \* the parties woken since
    mesh_over,      \* the parties a receive has told that all is over
    passed,    \* passed[from][to]: values taken before the one waiting there
    sends

mesh_vars == <<queue, mesh_senders, ended, mesh_next, armed, mesh_told, mesh_over, passed, sends>>

MeshInit ==
    /\ queue = [f \in Parties |-> [t \in Parties |-> 0]] /\ mesh_senders = Parties
    /\ ended = [p \in Parties |-> {}] /\ mesh_next = [p \in Parties |-> 0]
    /\ armed = [p \in Parties |-> {}] /\ mesh_told = {} /\ mesh_over = {}
    /\ passed = [f \in Parties |-> [t \in Parties |-> 0]] /\ sends = 0

\* send_to, try_send_to: the value goes in, and wakes a receive waiting there.
send_to(from, to) ==
    /\ from \in mesh_senders /\ queue[from][to] < mesh_capacity /\ sends < MeshMaxSends
    /\ sends' = sends + 1 /\ queue' = [queue EXCEPT ![from][to] = @ + 1]
    /\ mesh_told' = IF from \in armed[to] THEN mesh_told \union {to} ELSE mesh_told
    /\ UNCHANGED <<mesh_senders, ended, mesh_next, armed, mesh_over, passed>>

close_senders(p) ==
    /\ p \in mesh_senders /\ mesh_senders' = mesh_senders \ {p}
    /\ mesh_told' = mesh_told \union {q \in Parties: p \in armed[q]}
    /\ UNCHANGED <<queue, ended, mesh_next, armed, mesh_over, passed, sends>>

-----------------------------------------------------------------------------
\* The order in which a receive looks at the channels.
Order(p) == [step \in 1 .. N |-> (mesh_next[p] + step - 1) % N]
Holds(p, step) == queue[Order(p)[step]][p] > 0 /\ Order(p)[step] \notin ended[p]
Finished(p, from) == queue[from][p] = 0 /\ from \notin mesh_senders

\* end, of every channel looked at and found over
end(p, looked) == ended' = [ended EXCEPT ![p] = @ \union {f \in looked: Finished(p, f)}]

mesh_takes(p, from) == mesh_next' = [mesh_next EXCEPT ![p] = (from + 1) % N]

\* poll_recv and try_recv that find a value
mesh_recv(p) ==
    \E step \in 1 .. N:
      LET from == Order(p)[step] IN
      /\ Holds(p, step) /\ \A before \in 1 .. step - 1: ~Holds(p, before)
      /\ queue' = [queue EXCEPT ![from][p] = @ - 1] /\ mesh_takes(p, from)
      /\ end(p, {Order(p)[before]: before \in 1 .. step - 1})
      /\ passed' = [f \in Parties |-> [passed[f] EXCEPT ![p] =
                     IF f = from \/ queue[f][p] = 0 THEN 0 ELSE @ + 1]]
      /\ armed' = [armed EXCEPT ![p] = {}] /\ mesh_told' = mesh_told \ {p}
      /\ UNCHANGED <<mesh_senders, mesh_over, sends>>

arms(p, open) == armed' = [armed EXCEPT ![p] = open]

\* ... that find none: over, or pending on every channel not ended
recv_none(p) ==
    /\ \A step \in 1 .. N: ~Holds(p, step)
    /\ end(p, Parties)
    /\ LET open == Parties \ ended'[p] IN
       /\ arms(p, open) /\ mesh_over' = IF open = {} THEN mesh_over \union {p} ELSE mesh_over
    /\ mesh_told' = mesh_told \ {p}
    /\ UNCHANGED <<queue, mesh_senders, mesh_next, passed, sends>>

MeshNext ==
    \E p \in Parties:
      \/ \E q \in Parties: send_to(p, q)
      \/ close_senders(p) \/ mesh_recv(p) \/ recv_none(p)

MeshSpec == MeshInit /\ [][MeshNext]_mesh_vars

(***************************************************************************)
(* The receive is fair: before the value at the head of a channel is taken *)
(* at most one value is taken from each of the other channels, however     *)
(* fast they are filled.                                                   *)
(***************************************************************************)
NotPassedOver == \A f, t \in Parties: passed[f][t] < N

(***************************************************************************)
(* A pending receive is woken by whichever channel gets a value or ends,   *)
(* and a receive says that all is over only once no channel to the party   *)
(* can ever give a value again.                                            *)
(***************************************************************************)
MeshNobodySleepsPast ==
    \A p \in Parties:
      /\ armed[p] # {} /\ p \notin mesh_told =>
           \A f \in Parties \ ended[p]: queue[f][p] = 0 /\ f \in mesh_senders
      /\ p \in mesh_over => \A f \in Parties: Finished(p, f)
==============================================================================
