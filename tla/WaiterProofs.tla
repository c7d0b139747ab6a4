---------------------------- MODULE WaiterProofs ----------------------------
(***************************************************************************)
(* A waiter's node is held by whoever uses it, no slot of it is used by    *)
(* two, and a future that sleeps on a granted or nudged node is woken with *)
(* the waker of its last poll (module Waiter), for any set of wakers.      *)
(***************************************************************************)
EXTENDS Waiter, FiniteSetTheorems, TLAPS

Types ==
    /\ word \subseteq {"QUEUE_REF", "FUTURE_REF", "WAKE_REF", "REGISTERING", "ARMED", "TAKING", "NUDGED"}
    /\ phase \in {"WAITING", "GRANTED", "CANCELLED"}
    /\ current \in {0, 1} /\ takes_from \in {0, 1}
    /\ slots \in [{0, 1} -> Wakers \cup {NoWaker}]
    /\ fut \in {"none", "look", "store", "settle", "nudged", "asleep", "leaving",
                "unslot", "release", "put"}
    /\ reg \in Wakers \cup {NoWaker} /\ out_waker \in Wakers \cup {NoWaker}
    /\ drainer \in {"idle", "release", "put"} /\ wl \in {"idle", "held", "put"}

\* Each party's reference bit is set while the party goes on using the node, and a
\* party returns the node to its pool when every bit is clear.
RefsHeld ==
    /\ "FUTURE_REF" \in word <=> fut \notin {"none", "put"}
    /\ drainer = "release" => "QUEUE_REF" \in word
    /\ wl = "held" => "WAKE_REF" \in word
    /\ "WAKE_REF" \in word <=> "TAKING" \in word
    /\ "put" \in {fut, drainer, wl} =>
           "FUTURE_REF" \notin word /\ "QUEUE_REF" \notin word /\ "WAKE_REF" \notin word
    /\ ~(fut = "put" /\ drainer = "put") /\ ~(fut = "put" /\ wl = "put") /\ ~(drainer = "put" /\ wl = "put")

\* REGISTERING is up while the future writes its slot, and that slot, or the one of
\* the waker armed since, is not the one a take under way reads.
Apart ==
    /\ "REGISTERING" \in word <=> fut \in {"store", "settle"}
    /\ "TAKING" \in word /\ ("REGISTERING" \in word \/ "ARMED" \in word \/ fut = "unslot") =>
           current # takes_from
    /\ fut = "unslot" => "ARMED" \notin word

\* An armed future sleeps with the waker of its last poll in the current slot, and
\* one whose waker was claimed has a mark to find.
Armed ==
    /\ fut \notin {"none", "put"} => reg \in Wakers
    /\ fut = "settle" \/ (fut = "asleep" /\ "ARMED" \in word) => slots[current] = reg
    /\ fut = "asleep" => "ARMED" \in word \/ phase = "GRANTED" \/ "NUDGED" \in word
    /\ wl # "held" => out_waker = NoWaker

IInv == Types /\ RefsHeld /\ Apart /\ Armed /\ LastWakerWoken

\* A node in its pool.
LEMMA InitIInv == NodeInit => IInv
BY DEF NodeInit, IInv, Types, RefsHeld, Apart, Armed, LastWakerWoken

\* The last reference out is the only one.
LEMMA LastOut ==
  /\ Last("FUTURE_REF") => "QUEUE_REF" \notin word /\ "WAKE_REF" \notin word
  /\ Last("QUEUE_REF") => "FUTURE_REF" \notin word /\ "WAKE_REF" \notin word
  /\ Last("WAKE_REF") => "QUEUE_REF" \notin word /\ "FUTURE_REF" \notin word
BY DEF Last, Refs

\* A node in its pool has no reference, and nobody uses it.
LEMMA PooledIsFree ==
  ASSUME Types, Pooled
  PROVE  /\ "FUTURE_REF" \notin word /\ "QUEUE_REF" \notin word /\ "WAKE_REF" \notin word
         /\ fut # "put" /\ drainer # "put" /\ wl \notin {"put", "held"}
BY DEF Pooled, Refs, Types

\* An armed waker is claimed when nobody registers and nobody takes.
LEMMA Claimable == claimable <=> "ARMED" \in word /\ "REGISTERING" \notin word /\ "TAKING" \notin word
BY DEF claimable

\* A poll: its first look, the write of its waker, its second look, its sleep.
LEMMA FutureStep ==
  ASSUME IInv,
         \/ \E w \in Wakers : enqueue(w) \/ poll_node(w)
         \/ park \/ store_waker \/ register_panics \/ settle \/ retry_lost \/ begin_spin
  PROVE  IInv'
<1> USE NoWakerDiffers DEF IInv, Types, RefsHeld, Apart, Armed, LastWakerWoken, others
<1>1. ASSUME NEW w \in Wakers, enqueue(w) PROVE IInv'
  BY <1>1, PooledIsFree DEF enqueue, Polled
<1>2. ASSUME NEW w \in Wakers, poll_node(w) PROVE IInv'
  BY <1>2 DEF poll_node, Polled
<1>3. CASE park
  <2>1. 1 - takes_from \in {0, 1} /\ 1 - takes_from # takes_from
    OBVIOUS
  <2>2. CASE phase = "GRANTED"
    BY <1>3, <2>2 DEF park
  <2>3. CASE phase # "GRANTED" /\ "NUDGED" \in word
    BY <1>3, <2>3 DEF park
  <2>4. CASE phase # "GRANTED" /\ "NUDGED" \notin word
    <3>1. Types'          BY <1>3, <2>1, <2>4 DEF park
    <3>2. RefsHeld'       BY <1>3, <2>1, <2>4 DEF park
    <3>3. Apart'          BY <1>3, <2>1, <2>4 DEF park
    <3>4. Armed'          BY <1>3, <2>1, <2>4 DEF park
    <3>5. LastWakerWoken' BY <1>3, <2>1, <2>4 DEF park
    <3> QED BY <3>1, <3>2, <3>3, <3>4, <3>5
  <2> QED BY <2>2, <2>3, <2>4
<1>4. CASE store_waker     BY <1>4 DEF store_waker
<1>5. CASE register_panics BY <1>5 DEF register_panics
<1>6. CASE settle          BY <1>6 DEF settle
<1>7. CASE retry_lost      BY <1>7 DEF retry_lost
<1>8. CASE begin_spin      BY <1>8 DEF begin_spin
<1> QED BY <1>1, <1>2, <1>3, <1>4, <1>5, <1>6, <1>7, <1>8

\* The future leaves its node.
LEMMA LeaveStep ==
  ASSUME IInv, granted \/ withdraw \/ withdraw_granted \/ withdraw_waker \/ release_future
  PROVE  IInv'
<1> USE NoWakerDiffers DEF IInv, Types, RefsHeld, Apart, Armed, LastWakerWoken, others
<1>1. CASE granted          BY <1>1 DEF granted
<1>2. CASE withdraw         BY <1>2 DEF withdraw
<1>3. CASE withdraw_granted BY <1>3 DEF withdraw_granted
<1>4. CASE withdraw_waker   BY <1>4 DEF withdraw_waker
<1>5. CASE release_future   BY <1>5, LastOut DEF release_future
<1> QED BY <1>1, <1>2, <1>3, <1>4, <1>5

\* The drain pass marks the node, or lets go of it.
LEMMA DrainStep ==
  ASSUME IInv, nudge \/ grant \/ prune \/ release_queued
  PROVE  IInv'
<1> USE NoWakerDiffers DEF IInv, Types, RefsHeld, Apart, Armed, LastWakerWoken
<1>1. CASE nudge
  <2>1. CASE claimable
    <3>1. Types'          BY <1>1, <2>1, Claimable DEF nudge, touch, Listed
    <3>2. RefsHeld'       BY <1>1, <2>1, Claimable DEF nudge, touch, Listed
    <3>3. Apart'          BY <1>1, <2>1, Claimable DEF nudge, touch, Listed
    <3>4. Armed'          BY <1>1, <2>1, Claimable DEF nudge, touch, Listed
    <3>5. LastWakerWoken' BY <1>1, <2>1, Claimable DEF nudge, touch, Listed
    <3> QED BY <3>1, <3>2, <3>3, <3>4, <3>5
  <2>2. CASE ~claimable
    <3>1. Types'          BY <1>1, <2>2, Claimable DEF nudge, touch, Listed
    <3>2. RefsHeld'       BY <1>1, <2>2, Claimable DEF nudge, touch, Listed
    <3>3. Apart'          BY <1>1, <2>2, Claimable DEF nudge, touch, Listed
    <3>4. Armed'          BY <1>1, <2>2, Claimable DEF nudge, touch, Listed
    <3>5. LastWakerWoken' BY <1>1, <2>2, Claimable DEF nudge, touch, Listed
    <3> QED BY <3>1, <3>2, <3>3, <3>4, <3>5
  <2> QED BY <2>1, <2>2
<1>2. CASE grant
  <2>1. CASE claimable
    <3>1. Types'          BY <1>2, <2>1, Claimable DEF grant, touch, Listed
    <3>2. RefsHeld'       BY <1>2, <2>1, Claimable DEF grant, touch, Listed
    <3>3. Apart'          BY <1>2, <2>1, Claimable DEF grant, touch, Listed
    <3>4. Armed'          BY <1>2, <2>1, Claimable DEF grant, touch, Listed
    <3>5. LastWakerWoken' BY <1>2, <2>1, Claimable DEF grant, touch, Listed
    <3> QED BY <3>1, <3>2, <3>3, <3>4, <3>5
  <2>2. CASE ~claimable
    <3>1. Types'          BY <1>2, <2>2, Claimable DEF grant, touch, Listed
    <3>2. RefsHeld'       BY <1>2, <2>2, Claimable DEF grant, touch, Listed
    <3>3. Apart'          BY <1>2, <2>2, Claimable DEF grant, touch, Listed
    <3>4. Armed'          BY <1>2, <2>2, Claimable DEF grant, touch, Listed
    <3>5. LastWakerWoken' BY <1>2, <2>2, Claimable DEF grant, touch, Listed
    <3> QED BY <3>1, <3>2, <3>3, <3>4, <3>5
  <2> QED BY <2>1, <2>2
<1>3. CASE prune          BY <1>3 DEF prune, Listed
<1>4. CASE release_queued BY <1>4, LastOut DEF release_queued
<1> QED BY <1>1, <1>2, <1>3, <1>4

\* A wake list takes the claimed waker and calls it; the last one out returns the
\* node.
LEMMA WakeStep ==
  ASSUME IInv, take_slot \/ take_claimed \/ (\E w \in Wakers : call_waker(w)) \/ put
  PROVE  IInv'
<1> USE NoWakerDiffers DEF IInv, Types, RefsHeld, Apart, Armed, LastWakerWoken
<1>1. CASE take_slot
  <2>1. Types' /\ RefsHeld' /\ Apart'  BY <1>1 DEF take_slot
  <2>2. Armed'                         BY <1>1 DEF take_slot
  <2>3. LastWakerWoken'                BY <1>1 DEF take_slot
  <2> QED BY <2>1, <2>2, <2>3
<1>2. CASE take_claimed
  <2> DEFINE again == /\ word \cap {"ARMED", "REGISTERING"} = {"ARMED"}
                      /\ "NUDGED" \in word \/ phase = "GRANTED"
  <2>1. again <=> /\ "ARMED" \in word /\ "REGISTERING" \notin word
                  /\ "NUDGED" \in word \/ phase = "GRANTED"
    OBVIOUS
  <2>2. /\ wl = "held" /\ out_waker' = NoWaker
        /\ calling' = calling \cup ({out_waker} \ {NoWaker})
        /\ word' = word \ (IF again THEN {"ARMED"} ELSE {"TAKING", "WAKE_REF"})
        /\ takes_from' = IF again THEN current ELSE takes_from
        /\ wl' = IF ~again /\ Last("WAKE_REF") THEN "put" ELSE "idle"
        /\ UNCHANGED <<phase, current, slots, fut, reg, drainer, awake>>
    BY <1>2 DEF take_claimed
  <2> HIDE DEF again
  <2>3. CASE again  BY <2>1, <2>2, <2>3
  <2>4. CASE ~again
    <3>1. Types'          BY <2>1, <2>2, <2>4, LastOut
    <3>2. RefsHeld'       BY <2>1, <2>2, <2>4, LastOut
    <3>3. Apart'          BY <2>1, <2>2, <2>4, LastOut
    <3>4. Armed'          BY <2>1, <2>2, <2>4, LastOut
    <3>5. LastWakerWoken' BY <2>1, <2>2, <2>4, LastOut
    <3> QED BY <3>1, <3>2, <3>3, <3>4, <3>5
  <2> QED BY <2>3, <2>4
<1>3. ASSUME NEW w \in Wakers, call_waker(w) PROVE IInv'
  BY <1>3 DEF call_waker
<1>4. CASE put BY <1>4 DEF put
<1> QED BY <1>1, <1>2, <1>3, <1>4

\* The state word of a waiter's node says who holds it, which slot is whose, and
\* where the waker of the last poll is (sync/waiter), in every state.
THEOREM NodeInvariant == NodeSpec => []IInv
<1>1. IInv /\ [NodeNext]_nodevars => IInv'
  <2> SUFFICES ASSUME IInv, [NodeNext]_nodevars PROVE IInv'
    OBVIOUS
  <2>1. CASE UNCHANGED nodevars
    <3>1. Types' /\ RefsHeld'  BY <2>1 DEF nodevars, IInv, Types, RefsHeld
    <3>2. Apart' /\ Armed'     BY <2>1 DEF nodevars, IInv, Apart, Armed
    <3>3. LastWakerWoken'      BY <2>1 DEF nodevars, IInv, LastWakerWoken
    <3> QED BY <3>1, <3>2, <3>3 DEF IInv
  <2> QED BY <2>1, FutureStep, LeaveStep, DrainStep, WakeStep DEF NodeNext, FutureGoesOn, WakeListGoesOn, Idles
<1> QED BY <1>1, InitIInv, PTL DEF NodeSpec

\* A node is held by whoever uses it and returned to its pool by one party; a slot
\* is never written while a wake list takes from it; and a future that sleeps on a
\* granted or nudged node is woken with the waker of its last poll (park, settle,
\* withdraw, claim and take_claimed of sync/waiter), for any set of wakers.
THEOREM NodeIsSafe == NodeSpec => []NodeSafe
<1>1. IInv => NodeSafe
  <2> SUFFICES ASSUME IInv PROVE NodeSafe
    OBVIOUS
  <2>1. SlotsApart
    BY DEF IInv, Apart, SlotsApart
  <2>2. Cardinality({p \in {<<1, fut>>, <<2, drainer>>, <<3, wl>>} : p[2] = "put"}) <= 1
    <3> DEFINE S == {p \in {<<1, fut>>, <<2, drainer>>, <<3, wl>>} : p[2] = "put"}
    <3>1. S = {} \/ \E x : S = {x}
      BY DEF IInv, RefsHeld
    <3>2. \A x : Cardinality({x}) = 1
      BY FS_Singleton
    <3>3. Cardinality({}) = 0
      BY FS_EmptySet
    <3>4. Cardinality(S) \in {0, 1}
      <4> HIDE DEF S
      <4> QED BY <3>1, <3>2, <3>3
    <3> QED BY <3>4
  <2>3. HeldWhileUsed
    BY <2>2 DEF IInv, RefsHeld, HeldWhileUsed, Refs
  <2> QED BY <2>1, <2>3 DEF NodeSafe, IInv
<1> QED BY <1>1, NodeInvariant, PTL
=============================================================================
