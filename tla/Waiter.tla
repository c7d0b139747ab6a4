------------------------------ MODULE Waiter -------------------------------
(***************************************************************************)
(* One waiter node of src/sync/waiter: the state word, its two waker slots *)
(* and its reference bits.  Three parties use it at once: the future that  *)
(* queued it, the drain pass that grants or nudges it, and a wake list     *)
(* that takes its waker out to call it.  Each step below is one access to  *)
(* the word or to a slot.  The node goes back to its pool when the last    *)
(* reference bit is cleared and is then armed again for a later wait.      *)
(***************************************************************************)
EXTENDS FiniteSets, Integers

CONSTANTS Wakers,   \* the wakers the future is polled with
          NoWaker   \* an empty slot

ASSUME NoWakerDiffers == NoWaker \notin Wakers

VARIABLES
    word,     \* the marks and reference bits set in the state word
    phase,    \* its phase field
    current,  \* its bit 5: the slot the future registered in
    takes_from,  \* its bit 6: the slot the wake list takes from
    slots,    \* the two slots
    fut,      \* where the future is in its poll, look or drop
    reg,      \* the waker of the future's last poll
    drainer,  \* what the drain pass holds the node for
    wl,       \* what the wake list that claimed the node is at
    out_waker,  \* the waker it took out
    calling,  \* wakers taken off wake lists and not called yet
    awake     \* wakers called since their task was last polled

nodevars == <<word, phase, current, takes_from, slots, fut, reg, drainer, wl, out_waker, calling, awake>>
others == <<drainer, wl, out_waker, calling>>

Refs == {"QUEUE_REF", "FUTURE_REF", "WAKE_REF"}
Marks == {"REGISTERING", "ARMED", "TAKING", "NUDGED"}
Last(bit) == word \cap Refs = {bit}

\* A node in the pool, and the future not queued.
NodeInit ==
    /\ word = {} /\ phase = "WAITING" /\ current = 0 /\ takes_from = 0
    /\ slots = [i \in {0, 1} |-> NoWaker]
    /\ fut = "none" /\ reg = NoWaker /\ drainer = "idle" /\ wl = "idle" /\ out_waker = NoWaker
    /\ calling = {} /\ awake = {}

Pooled == word \cap Refs = {} /\ {fut, drainer, wl} \cap {"put", "held"} = {}

-----------------------------------------------------------------------------
(* The future *)

\* A poll by the task of waker w begins: the wake it had is used up.
Polled(w) == reg' = w /\ awake' = awake \ {w}

\* enqueue and arm: the node comes out of the pool with its first waker in
\* slot 0 and registering, and is pushed for the drainers to find.
enqueue(w) ==
    /\ fut = "none" /\ Pooled /\ Polled(w)
    /\ word' = {"REGISTERING", "QUEUE_REF", "FUTURE_REF"} /\ phase' = "WAITING"
    /\ current' = 0 /\ takes_from' = 0
    /\ slots' = [slots EXCEPT ![0] = w]
    /\ fut' = "settle"
    /\ UNCHANGED others

\* A mutant: the waker is written where the last one was, take or no take.
WriteCurrent ==
    /\ fut = "look"
    /\ IF phase = "GRANTED"
       THEN fut' = "release" /\ UNCHANGED <<word, current>>
       ELSE IF "NUDGED" \in word
            THEN /\ word' = word \ {"NUDGED"}
                 /\ fut' = "nudged"
                 /\ UNCHANGED current
            ELSE /\ word' = (word \ {"ARMED"}) \cup {"REGISTERING"}
                 /\ fut' = "store"
                 /\ UNCHANGED current
    /\ UNCHANGED <<phase, takes_from, slots, reg, awake, others>>

\* park with a waker, its first exchange: a granted node is let go, a nudge is
\* used up, and otherwise the future registers in the slot that a take under
\* way is not reading.
park ==
    /\ fut = "look"
    /\ IF phase = "GRANTED"
       THEN fut' = "release" /\ UNCHANGED <<word, current>>
       ELSE IF "NUDGED" \in word
            THEN /\ word' = word \ {"NUDGED"}
                 /\ fut' = "nudged"
                 /\ UNCHANGED current
            ELSE /\ word' = (word \ {"ARMED"}) \cup {"REGISTERING"}
                 /\ current' = IF "TAKING" \in word THEN 1 - takes_from ELSE current
                 /\ fut' = "store"
    /\ UNCHANGED <<phase, takes_from, slots, reg, awake, others>>

\* The waker is written, unless the slot holds one that wakes the same task.
store_waker ==
    /\ fut = "store" /\ fut' = "settle"
    /\ slots' = [slots EXCEPT ![current] = reg]
    /\ UNCHANGED <<word, phase, current, takes_from, reg, awake, others>>

\* The waker's clone panics: Settle arms the node as it is, and the unwinding
\* future leaves the queue.
register_panics ==
    /\ fut = "store" /\ slots[current] # reg
    /\ word' = (word \ {"REGISTERING"}) \cup {"ARMED"}
    /\ fut' = "leaving"
    /\ UNCHANGED <<phase, current, takes_from, slots, reg, awake, others>>

\* A mutant: the node is armed by a blind write, the marks looked at before.
SettleBlind ==
    /\ fut = "settle"
    /\ word' = (word \ {"REGISTERING"}) \cup {"ARMED"}
    /\ fut' = IF phase = "GRANTED" THEN "release" ELSE "asleep"
    /\ UNCHANGED <<phase, current, takes_from, slots, reg, awake, others>>

\* park's second exchange: the node is armed, and what a grant or a nudge left
\* on it meanwhile is read in the same exchange.
settle ==
    /\ fut = "settle"
    /\ word' = (word \ {"REGISTERING", "NUDGED"}) \cup {"ARMED"}
    /\ fut' = IF phase = "GRANTED" THEN "release"
              ELSE IF "NUDGED" \in word THEN "nudged" ELSE "asleep"
    /\ UNCHANGED <<phase, current, takes_from, slots, reg, awake, others>>

\* A nudged future that lost its retry looks again, in the same poll.
retry_lost ==
    /\ fut = "nudged" /\ fut' = "look"
    /\ UNCHANGED <<word, phase, current, takes_from, slots, reg, awake, others>>

\* begin_spin: an armed waker is disarmed, so a mark that comes during the
\* spin calls nobody; the look that ends the spin finds it.
begin_spin ==
    /\ fut = "nudged" /\ phase # "GRANTED" /\ "NUDGED" \notin word
    /\ fut' = "look" /\ word' = word \ {"ARMED"}
    /\ UNCHANGED <<phase, current, takes_from, slots, reg, awake, others>>

\* The future is polled again: woken, or for another reason, by any task.
poll_node(w) ==
    /\ fut = "asleep" /\ Polled(w) /\ fut' = "look"
    /\ UNCHANGED <<word, phase, current, takes_from, slots, others>>

\* granted: a look without a waker, which lets a granted node go.
granted ==
    /\ fut = "asleep" /\ phase = "GRANTED" /\ fut' = "release"
    /\ UNCHANGED <<word, phase, current, takes_from, slots, reg, awake, others>>

\* withdraw: the future is dropped, or took what it waits for in its retry.
withdraw ==
    /\ fut \in {"asleep", "nudged", "leaving"} /\ phase # "GRANTED"
    /\ phase' = "CANCELLED" /\ word' = word \ {"ARMED"}
    /\ fut' = IF "ARMED" \in word THEN "unslot" ELSE "release"
    /\ UNCHANGED <<current, takes_from, slots, reg, awake, others>>

\* withdraw of a node granted first: the owner passes the grant on.
withdraw_granted ==
    /\ fut \in {"asleep", "nudged", "leaving"} /\ phase = "GRANTED"
    /\ fut' = "release"
    /\ UNCHANGED <<word, phase, current, takes_from, slots, reg, awake, others>>

\* The armed waker is taken out of the current slot.
withdraw_waker ==
    /\ fut = "unslot" /\ fut' = "release"
    /\ slots' = [slots EXCEPT ![current] = NoWaker]
    /\ UNCHANGED <<word, phase, current, takes_from, reg, awake, others>>

\* release of the future's reference; the last one out returns the node.
release_future ==
    /\ fut = "release"
    /\ word' = word \ {"FUTURE_REF"}
    /\ fut' = IF Last("FUTURE_REF") THEN "put" ELSE "none"
    /\ UNCHANGED <<phase, current, takes_from, slots, reg, awake, others>>

-----------------------------------------------------------------------------
(* The drain pass: the node is on its list while QUEUE_REF is set. *)

\* Whether the armed waker can be claimed: nobody registers or takes.
claimable == word \cap {"ARMED", "REGISTERING", "TAKING"} = {"ARMED"}

\* claim and the mark of one touch: the current slot becomes the taken one,
\* and the wake list holds the node.
touch(marks) ==
    IF claimable
    THEN /\ word' = (word \ {"ARMED"}) \cup {"TAKING", "WAKE_REF"} \cup marks
         /\ takes_from' = current
    ELSE word' = word \cup marks /\ UNCHANGED takes_from

Listed == drainer = "idle" /\ "QUEUE_REF" \in word

\* nudge: the node stays listed.  A node nudged already is left alone.
nudge ==
    /\ Listed /\ phase = "WAITING" /\ "NUDGED" \notin word
    /\ touch({"NUDGED"})
    /\ UNCHANGED <<phase, current, slots, fut, reg, drainer, wl, out_waker, calling, awake>>

\* grant: the node left the list, and the queue's reference goes next.
grant ==
    /\ Listed /\ phase = "WAITING"
    /\ touch({}) /\ phase' = "GRANTED" /\ drainer' = "release"
    /\ UNCHANGED <<current, slots, fut, reg, wl, out_waker, calling, awake>>

\* A withdrawn node is met on the list, or was as its grant came, and is let go.
prune ==
    /\ Listed /\ phase = "CANCELLED" /\ drainer' = "release"
    /\ UNCHANGED <<word, phase, current, takes_from, slots, fut, reg, wl, out_waker, calling, awake>>

\* A mutant: the queue returns the node once the future let go of it.
ReleaseIgnoresWake ==
    /\ drainer = "release"
    /\ word' = word \ {"QUEUE_REF"}
    /\ drainer' = IF "FUTURE_REF" \notin word THEN "put" ELSE "idle"
    /\ UNCHANGED <<phase, current, takes_from, slots, fut, reg, wl, out_waker, calling, awake>>

\* release of the queue's reference; the last one out returns the node.
release_queued ==
    /\ drainer = "release"
    /\ word' = word \ {"QUEUE_REF"}
    /\ drainer' = IF Last("QUEUE_REF") THEN "put" ELSE "idle"
    /\ UNCHANGED <<phase, current, takes_from, slots, fut, reg, wl, out_waker, calling, awake>>

-----------------------------------------------------------------------------
(* The wake list *)

\* take_claimed: the waker comes out of the taken slot,
take_slot ==
    /\ wl = "idle" /\ "TAKING" \in word
    /\ wl' = "held" /\ out_waker' = slots[takes_from]
    /\ slots' = [slots EXCEPT ![takes_from] = NoWaker]
    /\ UNCHANGED <<word, phase, current, takes_from, fut, reg, drainer, calling, awake>>

\* A mutant: the wake list never returns the node.
TakeLeaks ==
    LET again == /\ word \cap {"ARMED", "REGISTERING"} = {"ARMED"}
                 /\ "NUDGED" \in word \/ phase = "GRANTED"
    IN  /\ wl = "held" /\ out_waker' = NoWaker
        /\ calling' = calling \cup ({out_waker} \ {NoWaker})
        /\ word' = word \ (IF again THEN {"ARMED"}
                           ELSE IF Last("WAKE_REF") THEN {"TAKING"} ELSE {"TAKING", "WAKE_REF"})
        /\ takes_from' = IF again THEN current ELSE takes_from
        /\ wl' = "idle"
        /\ UNCHANGED <<phase, current, slots, fut, reg, drainer, awake>>

\* and the slot is given back, unless a grant or a nudge marked a waker armed
\* meanwhile: that one is claimed too.
take_claimed ==
    LET again == /\ word \cap {"ARMED", "REGISTERING"} = {"ARMED"}
                 /\ "NUDGED" \in word \/ phase = "GRANTED"
    IN  /\ wl = "held" /\ out_waker' = NoWaker
        /\ calling' = calling \cup ({out_waker} \ {NoWaker})
        /\ word' = word \ (IF again THEN {"ARMED"} ELSE {"TAKING", "WAKE_REF"})
        /\ takes_from' = IF again THEN current ELSE takes_from
        /\ wl' = IF ~again /\ Last("WAKE_REF") THEN "put" ELSE "idle"
        /\ UNCHANGED <<phase, current, slots, fut, reg, drainer, awake>>

\* A waker taken off a wake list is called; its panic stops no other.
call_waker(w) ==
    /\ w \in calling
    /\ calling' = calling \ {w} /\ awake' = awake \cup {w}
    /\ UNCHANGED <<word, phase, current, takes_from, slots, fut, reg, drainer, wl, out_waker>>

\* Pool::put, by whichever party cleared the last reference.
put ==
    /\ "put" \in {fut, drainer, wl}
    /\ slots' = [i \in {0, 1} |-> NoWaker]
    /\ fut' = IF fut = "put" THEN "none" ELSE fut
    /\ drainer' = IF drainer = "put" THEN "idle" ELSE drainer
    /\ wl' = IF wl = "put" THEN "idle" ELSE wl
    /\ UNCHANGED <<word, phase, current, takes_from, reg, out_waker, calling, awake>>

-----------------------------------------------------------------------------
FutureGoesOn == park \/ store_waker \/ settle \/ begin_spin \/ withdraw_waker \/ release_future
                \/ (fut = "leaving" /\ (withdraw \/ withdraw_granted))
WakeListGoesOn == take_slot \/ take_claimed \/ \E w \in Wakers: call_waker(w)
PollWoken == fut = "asleep" /\ reg \in awake /\ poll_node(reg)

\* Nobody waits, perhaps never again.
Idles == fut = "none" /\ UNCHANGED nodevars

NodeNext == \/ \E w \in Wakers: enqueue(w) \/ poll_node(w)
            \/ register_panics \/ retry_lost \/ granted \/ withdraw \/ withdraw_granted
            \/ FutureGoesOn \/ prune \/ release_queued \/ WakeListGoesOn \/ put \/ nudge \/ grant \/ Idles

NodeSpec == NodeInit /\ [][NodeNext]_nodevars

\* Calls under way finish, and the executor polls a task that was woken.
NodeFair == /\ NodeSpec
            /\ WF_nodevars(FutureGoesOn) /\ WF_nodevars(retry_lost) /\ WF_nodevars(put)
            /\ WF_nodevars(release_queued) /\ WF_nodevars(WakeListGoesOn) /\ WF_nodevars(PollWoken)

-----------------------------------------------------------------------------
\* The word's fields and every party's place; a future that sleeps is armed
\* unless its waker was claimed.
NodeTypeOK ==
    /\ word \subseteq Refs \cup Marks
    /\ phase \in {"WAITING", "GRANTED", "CANCELLED"}
    /\ {current, takes_from} \subseteq {0, 1} /\ slots \in [{0, 1} -> Wakers \cup {NoWaker}]
    /\ fut \in {"none", "look", "store", "settle", "nudged", "asleep", "leaving",
                "unslot", "release", "put"}
    /\ {reg, out_waker} \subseteq Wakers \cup {NoWaker}
    /\ drainer \in {"idle", "release", "put"} /\ wl \in {"idle", "held", "put"}
    /\ calling \cup awake \subseteq Wakers
    /\ fut = "asleep" => \/ word \cap {"ARMED", "REGISTERING"} = {"ARMED"}
                         \/ phase = "GRANTED" \/ "NUDGED" \in word

\* No slot is used by two parties: what the future writes, or takes its waker
\* out of, is never the slot a wake list takes from.
SlotsApart ==
    fut \in {"store", "unslot"} /\ "TAKING" \in word /\ wl = "idle" => current # takes_from

\* A party that goes on using the node holds its reference, so the node is not
\* in the pool, and one party alone returns it.
HeldWhileUsed ==
    /\ fut \notin {"none", "put"} => "FUTURE_REF" \in word
    /\ drainer = "release" => "QUEUE_REF" \in word
    /\ wl = "held" => "WAKE_REF" \in word
    /\ Cardinality({p \in {<<1, fut>>, <<2, drainer>>, <<3, wl>>}: p[2] = "put"}) <= 1
    /\ "put" \in {fut, drainer, wl} => word \cap Refs = {}

\* A future that sleeps on a node granted or nudged was woken, with the waker
\* of its last poll, or that waker is on its way to being called.
LastWakerWoken ==
    fut = "asleep" /\ (phase = "GRANTED" \/ "NUDGED" \in word) =>
        \/ reg \in awake \cup calling \cup {out_waker}
        \/ "TAKING" \in word /\ wl = "idle" /\ slots[takes_from] = reg
        \/ "TAKING" \in word /\ "ARMED" \in word /\ slots[current] = reg

\* The three together: a node is held by whoever uses it, no slot of it is used by
\* two, and its future is woken with the waker of its last poll.
NodeSafe == SlotsApart /\ HeldWhileUsed /\ LastWakerWoken

\* A granted node whose future let go of it is back in its pool in the end.  (A
\* withdrawn one may stay listed until a pass meets it: see List::tidy.)
LetGo == phase = "GRANTED" /\ fut = "none"
Returned == LetGo ~> Pooled
=============================================================================
