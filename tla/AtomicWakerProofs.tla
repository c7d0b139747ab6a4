------------------------- MODULE AtomicWakerProofs --------------------------
(***************************************************************************)
(* Proofs about AtomicWaker, for any sets of tasks and threads.            *)
(*                                                                         *)
(* OneHolder, WakerKept and WakeSeen are not inductive by themselves: that *)
(* two registrations do not meet rests on the word saying that one is in   *)
(* progress (Word), and that a wake is not lost on what the slot holds     *)
(* while somebody has the cell (SlotIs).                                   *)
(***************************************************************************)
EXTENDS AtomicWaker, TLAPS

\* The flags are set exactly while somebody holds the cell.
Word ==
    /\ "REGISTERING" \in state <=> \E t \in Tasks : RegHolds(t)
    /\ state = {"WAKING"} <=> \E w \in WakingThreads : WakeHolds(w)
    /\ \A t \in Tasks : doing[t] \in {"empty", "give", "abandoned"} => "WAKING" \in state

\* What the slot holds while a registration or a take has it.
SlotIs ==
    /\ \A t \in Tasks : /\ doing[t] \in {"publish", "empty"} => slot = t
                        /\ doing[t] \in {"give", "abandoned"} => slot = None
                        /\ doing[t] = "abandon" => slot # t
    /\ \A w \in WakingThreads : taking[w] = "give" => slot = None

\* WakerKept from the moment a registration kept the waker.
KeptOn ==
    \A t \in Tasks : doing[t] \in {"kept", "check", "asleep"} /\ ~roused[t]
                           => slot = t \/ InHand(t)

IInv == CellTypeOK /\ Word /\ OneHolder /\ SlotIs /\ KeptOn /\ WakeSeen

-----------------------------------------------------------------------------
\* Nobody holds the cell, and nothing is asleep.
LEMMA InitIInv == CellInit => IInv
BY OneOrDisplacing DEF CellInit, IInv, CellTypeOK, Word, OneHolder, SlotIs, KeptOn, WakeSeen,
   RegHolds, WakeHolds, Asleep

\* The values the word takes.
LEMMA StateValues ==
    ASSUME CellTypeOK
    PROVE  state \in {{}, {"REGISTERING"}, {"WAKING"}, {"REGISTERING", "WAKING"}}
<1>. DEFINE R == "REGISTERING" \in state  W == "WAKING" \in state
<1>1. state \subseteq {"REGISTERING", "WAKING"}
  BY DEF CellTypeOK
<1>2. /\ R /\ W   => state = {"REGISTERING", "WAKING"}
      /\ R /\ ~W  => state = {"REGISTERING"}
      /\ ~R /\ W  => state = {"WAKING"}
      /\ ~R /\ ~W => state = {}
  BY <1>1
<1>. QED
  BY <1>2

\* The invariant is kept by `register`.
LEMMA Step_register == ASSUME IInv, NEW t \in Tasks, register(t) PROVE IInv'
<1>. USE OneOrDisplacing DEF IInv, register, TaskGoes, tasks, threads
<1>1. CellTypeOK'
  BY DEF CellTypeOK, SlotIs
<1>2. Word'
  BY DEF CellTypeOK, Word, OneHolder, RegHolds, WakeHolds
<1>3. OneHolder'
  BY DEF CellTypeOK, Word, OneHolder, RegHolds, WakeHolds
<1>4. SlotIs'
  BY DEF CellTypeOK, Word, OneHolder, SlotIs, RegHolds, WakeHolds
<1>5. KeptOn'
  BY DEF CellTypeOK, SlotIs, KeptOn, InHand
<1>6. WakeSeen'
  BY DEF CellTypeOK, Word, SlotIs, WakeSeen, Asleep
<1>. QED
  BY <1>1, <1>2, <1>3, <1>4, <1>5, <1>6

\* The invariant is kept by `store`.
LEMMA Step_store == ASSUME IInv, NEW t \in Tasks, store(t) PROVE IInv'
<1>. USE OneOrDisplacing DEF IInv, store, TaskGoes, tasks, threads
<1>1. CellTypeOK'
  BY DEF CellTypeOK, SlotIs
<1>2. Word'
  BY DEF CellTypeOK, Word, OneHolder, RegHolds, WakeHolds
<1>3. OneHolder'
  BY DEF CellTypeOK, Word, OneHolder, RegHolds, WakeHolds
<1>4. SlotIs'
  BY DEF CellTypeOK, Word, OneHolder, SlotIs, RegHolds, WakeHolds
<1>5. KeptOn'
  BY DEF CellTypeOK, SlotIs, KeptOn, InHand
<1>6. WakeSeen'
  BY DEF CellTypeOK, Word, SlotIs, WakeSeen, Asleep
<1>. QED
  BY <1>1, <1>2, <1>3, <1>4, <1>5, <1>6

\* The invariant is kept by `publish`.
LEMMA Step_publish == ASSUME IInv, NEW t \in Tasks, publish(t) PROVE IInv'
<1>. USE OneOrDisplacing DEF IInv, publish, TaskGoes, tasks, threads
<1>1. CellTypeOK'
  BY DEF CellTypeOK, SlotIs
<1>2. Word'
  <2>1. state \in {{}, {"REGISTERING"}, {"WAKING"}, {"REGISTERING", "WAKING"}}
    BY StateValues
  <2>. QED
    BY <2>1 DEF CellTypeOK, Word, OneHolder, RegHolds, WakeHolds
<1>3. OneHolder'
  BY DEF CellTypeOK, Word, OneHolder, RegHolds, WakeHolds
<1>4. SlotIs'
  BY DEF CellTypeOK, Word, OneHolder, SlotIs, RegHolds, WakeHolds
<1>5. KeptOn'
  BY DEF CellTypeOK, SlotIs, KeptOn, InHand
<1>6. WakeSeen'
  BY DEF CellTypeOK, Word, SlotIs, WakeSeen, Asleep
<1>. QED
  BY <1>1, <1>2, <1>3, <1>4, <1>5, <1>6

\* The invariant is kept by `kept`.
LEMMA Step_kept == ASSUME IInv, NEW t \in Tasks, kept(t) PROVE IInv'
<1>. USE OneOrDisplacing DEF IInv, kept, TaskGoes, tasks, threads
<1>1. CellTypeOK'
  BY DEF CellTypeOK, SlotIs
<1>2. Word'
  BY DEF CellTypeOK, Word, OneHolder, RegHolds, WakeHolds
<1>3. OneHolder'
  BY DEF CellTypeOK, Word, OneHolder, RegHolds, WakeHolds
<1>4. SlotIs'
  BY DEF CellTypeOK, Word, OneHolder, SlotIs, RegHolds, WakeHolds
<1>5. KeptOn'
  BY DEF CellTypeOK, SlotIs, KeptOn, InHand
<1>6. WakeSeen'
  BY DEF CellTypeOK, Word, SlotIs, WakeSeen, Asleep
<1>. QED
  BY <1>1, <1>2, <1>3, <1>4, <1>5, <1>6

\* The invariant is kept by `empty`.
LEMMA Step_empty == ASSUME IInv, NEW t \in Tasks, empty(t) PROVE IInv'
<1>. USE OneOrDisplacing DEF IInv, empty, TaskGoes, tasks, threads
<1>1. CellTypeOK'
  BY DEF CellTypeOK, SlotIs
<1>2. Word'
  BY DEF CellTypeOK, Word, OneHolder, RegHolds, WakeHolds
<1>3. OneHolder'
  BY DEF CellTypeOK, Word, OneHolder, RegHolds, WakeHolds
<1>4. SlotIs'
  BY DEF CellTypeOK, Word, OneHolder, SlotIs, RegHolds, WakeHolds
<1>5. KeptOn'
  BY DEF CellTypeOK, SlotIs, KeptOn, InHand
<1>6. WakeSeen'
  BY DEF CellTypeOK, Word, SlotIs, WakeSeen, Asleep
<1>. QED
  BY <1>1, <1>2, <1>3, <1>4, <1>5, <1>6

\* The invariant is kept by `give`.
LEMMA Step_give == ASSUME IInv, NEW t \in Tasks, give(t) PROVE IInv'
<1>. USE OneOrDisplacing DEF IInv, give, TaskGoes, tasks, threads
<1>1. CellTypeOK'
  BY DEF CellTypeOK, SlotIs
<1>2. Word'
  BY DEF CellTypeOK, Word, OneHolder, RegHolds, WakeHolds
<1>3. OneHolder'
  BY DEF CellTypeOK, Word, OneHolder, RegHolds, WakeHolds
<1>4. SlotIs'
  BY DEF CellTypeOK, Word, OneHolder, SlotIs, RegHolds, WakeHolds
<1>5. KeptOn'
  BY DEF CellTypeOK, SlotIs, KeptOn, InHand
<1>6. WakeSeen'
  BY DEF CellTypeOK, Word, SlotIs, WakeSeen, Asleep
<1>. QED
  BY <1>1, <1>2, <1>3, <1>4, <1>5, <1>6

\* The invariant is kept by `wakes`.
LEMMA Step_wakes == ASSUME IInv, NEW t \in Tasks, wakes(t) PROVE IInv'
<1>. USE OneOrDisplacing DEF IInv, wakes, TaskGoes, tasks, threads
<1>1. CellTypeOK'
  BY DEF CellTypeOK, SlotIs
<1>2. Word'
  BY DEF CellTypeOK, Word, OneHolder, RegHolds, WakeHolds
<1>3. OneHolder'
  BY DEF CellTypeOK, Word, OneHolder, RegHolds, WakeHolds
<1>4. SlotIs'
  BY DEF CellTypeOK, Word, OneHolder, SlotIs, RegHolds, WakeHolds
<1>5. KeptOn'
  <2>1. SUFFICES ASSUME NEW u \in Tasks, doing'[u] \in {"kept", "check", "asleep"}, ~roused'[u]
                 PROVE  slot' = u \/ InHand(u)'
    BY DEF KeptOn
  <2>2. ~roused[u] /\ ~(u \in {t, displaced[t]})
    BY <2>1 DEF CellTypeOK
  <2>3. slot = u \/ InHand(u)
    BY <2>1, <2>2 DEF CellTypeOK, KeptOn
  <2>. QED
    BY <2>1, <2>2, <2>3 DEF CellTypeOK, InHand
<1>6. WakeSeen'
  BY DEF CellTypeOK, Word, SlotIs, WakeSeen, Asleep
<1>. QED
  BY <1>1, <1>2, <1>3, <1>4, <1>5, <1>6

\* The invariant is kept by `abandon`.
LEMMA Step_abandon == ASSUME IInv, NEW t \in Tasks, abandon(t) PROVE IInv'
<1>. USE OneOrDisplacing DEF IInv, abandon, TaskGoes, tasks, threads
<1>1. CellTypeOK'
  <2>1. slot # t
    BY DEF SlotIs
  <2>2. displaced' \in [Tasks -> Tasks \cup {None}] /\ \A u \in Tasks : displaced'[u] # u
    BY <2>1 DEF CellTypeOK
  <2>. QED
    BY <2>2 DEF CellTypeOK
<1>2. Word'
  <2>1. state \in {{}, {"REGISTERING"}, {"WAKING"}, {"REGISTERING", "WAKING"}}
    BY StateValues
  <2>. QED
    BY <2>1 DEF CellTypeOK, Word, OneHolder, RegHolds, WakeHolds
<1>3. OneHolder'
  BY DEF CellTypeOK, Word, OneHolder, RegHolds, WakeHolds
<1>4. SlotIs'
  BY DEF CellTypeOK, Word, OneHolder, SlotIs, RegHolds, WakeHolds
<1>5. KeptOn'
  BY DEF CellTypeOK, SlotIs, KeptOn, InHand
<1>6. WakeSeen'
  BY DEF CellTypeOK, Word, SlotIs, WakeSeen, Asleep
<1>. QED
  BY <1>1, <1>2, <1>3, <1>4, <1>5, <1>6

\* The invariant is kept by `abandon_gives`.
LEMMA Step_abandon_gives == ASSUME IInv, NEW t \in Tasks, abandon_gives(t) PROVE IInv'
<1>. USE OneOrDisplacing DEF IInv, abandon_gives, TaskGoes, tasks, threads
<1>1. CellTypeOK'
  BY DEF CellTypeOK, SlotIs
<1>2. Word'
  BY DEF CellTypeOK, Word, OneHolder, RegHolds, WakeHolds
<1>3. OneHolder'
  BY DEF CellTypeOK, Word, OneHolder, RegHolds, WakeHolds
<1>4. SlotIs'
  BY DEF CellTypeOK, Word, OneHolder, SlotIs, RegHolds, WakeHolds
<1>5. KeptOn'
  BY DEF CellTypeOK, SlotIs, KeptOn, InHand
<1>6. WakeSeen'
  BY DEF CellTypeOK, Word, SlotIs, WakeSeen, Asleep
<1>. QED
  BY <1>1, <1>2, <1>3, <1>4, <1>5, <1>6

\* The invariant is kept by `abandon_wakes`.
LEMMA Step_abandon_wakes == ASSUME IInv, NEW t \in Tasks, abandon_wakes(t) PROVE IInv'
<1>. USE OneOrDisplacing DEF IInv, abandon_wakes, TaskGoes, tasks, threads
<1>1. CellTypeOK'
  BY DEF CellTypeOK, SlotIs
<1>2. Word'
  BY DEF CellTypeOK, Word, OneHolder, RegHolds, WakeHolds
<1>3. OneHolder'
  BY DEF CellTypeOK, Word, OneHolder, RegHolds, WakeHolds
<1>4. SlotIs'
  BY DEF CellTypeOK, Word, OneHolder, SlotIs, RegHolds, WakeHolds
<1>5. KeptOn'
  BY DEF CellTypeOK, SlotIs, KeptOn, InHand
<1>6. WakeSeen'
  BY DEF CellTypeOK, Word, SlotIs, WakeSeen, Asleep
<1>. QED
  BY <1>1, <1>2, <1>3, <1>4, <1>5, <1>6

\* The invariant is kept by `check`.
LEMMA Step_check == ASSUME IInv, NEW t \in Tasks, check(t) PROVE IInv'
<1>. USE OneOrDisplacing DEF IInv, check, TaskGoes, tasks, threads
<1>1. CellTypeOK'
  BY DEF CellTypeOK, SlotIs
<1>2. Word'
  BY DEF CellTypeOK, Word, OneHolder, RegHolds, WakeHolds
<1>3. OneHolder'
  BY DEF CellTypeOK, Word, OneHolder, RegHolds, WakeHolds
<1>4. SlotIs'
  BY DEF CellTypeOK, Word, OneHolder, SlotIs, RegHolds, WakeHolds
<1>5. KeptOn'
  BY DEF CellTypeOK, SlotIs, KeptOn, InHand
<1>6. WakeSeen'
  BY DEF CellTypeOK, Word, SlotIs, WakeSeen, Asleep
<1>. QED
  BY <1>1, <1>2, <1>3, <1>4, <1>5, <1>6

\* The invariant is kept by `poll`.
LEMMA Step_poll == ASSUME IInv, NEW t \in Tasks, poll_woken(t) PROVE IInv'
<1>. USE OneOrDisplacing DEF IInv, poll_woken, TaskGoes, tasks, threads
<1>1. CellTypeOK'
  BY DEF CellTypeOK, SlotIs
<1>2. Word'
  BY DEF CellTypeOK, Word, OneHolder, RegHolds, WakeHolds
<1>3. OneHolder'
  BY DEF CellTypeOK, Word, OneHolder, RegHolds, WakeHolds
<1>4. SlotIs'
  BY DEF CellTypeOK, Word, OneHolder, SlotIs, RegHolds, WakeHolds
<1>5. KeptOn'
  BY DEF CellTypeOK, SlotIs, KeptOn, InHand
<1>6. WakeSeen'
  BY DEF CellTypeOK, Word, SlotIs, WakeSeen, Asleep
<1>. QED
  BY <1>1, <1>2, <1>3, <1>4, <1>5, <1>6

\* The invariant is kept by `poll_again`.
LEMMA Step_poll_again == ASSUME IInv, NEW t \in Tasks, poll_again(t) PROVE IInv'
<1>. USE OneOrDisplacing DEF IInv, poll_again, TaskGoes, tasks, threads
<1>1. CellTypeOK'
  BY DEF CellTypeOK, SlotIs
<1>2. Word'
  BY DEF CellTypeOK, Word, OneHolder, RegHolds, WakeHolds
<1>3. OneHolder'
  BY DEF CellTypeOK, Word, OneHolder, RegHolds, WakeHolds
<1>4. SlotIs'
  BY DEF CellTypeOK, Word, OneHolder, SlotIs, RegHolds, WakeHolds
<1>5. KeptOn'
  BY DEF CellTypeOK, SlotIs, KeptOn, InHand
<1>6. WakeSeen'
  BY DEF CellTypeOK, Word, SlotIs, WakeSeen, Asleep
<1>. QED
  BY <1>1, <1>2, <1>3, <1>4, <1>5, <1>6

\* The invariant is kept by `clone_panics`.
LEMMA Step_clone_panics == ASSUME IInv, NEW t \in Tasks, clone_panics(t) PROVE IInv'
<1>. USE OneOrDisplacing DEF IInv, clone_panics, TaskGoes, tasks, threads
<1>1. CellTypeOK'
  BY DEF CellTypeOK, SlotIs
<1>2. Word'
  BY DEF CellTypeOK, Word, OneHolder, RegHolds, WakeHolds
<1>3. OneHolder'
  BY DEF CellTypeOK, Word, OneHolder, RegHolds, WakeHolds
<1>4. SlotIs'
  BY DEF CellTypeOK, Word, OneHolder, SlotIs, RegHolds, WakeHolds
<1>5. KeptOn'
  BY DEF CellTypeOK, SlotIs, KeptOn, InHand
<1>6. WakeSeen'
  BY DEF CellTypeOK, Word, SlotIs, WakeSeen, Asleep
<1>. QED
  BY <1>1, <1>2, <1>3, <1>4, <1>5, <1>6

\* The invariant is kept by `make_ready`.
LEMMA Step_make_ready == ASSUME IInv, NEW w \in WakingThreads, make_ready(w) PROVE IInv'
<1>. USE OneOrDisplacing DEF IInv, make_ready, ThreadGoes, tasks, threads
<1>1. CellTypeOK'
  BY DEF CellTypeOK, SlotIs
<1>2. Word'
  BY DEF CellTypeOK, Word, OneHolder, RegHolds, WakeHolds
<1>3. OneHolder'
  BY DEF CellTypeOK, Word, OneHolder, RegHolds, WakeHolds
<1>4. SlotIs'
  BY DEF CellTypeOK, Word, OneHolder, SlotIs, RegHolds, WakeHolds
<1>5. KeptOn'
  BY DEF CellTypeOK, SlotIs, KeptOn, InHand
<1>6. WakeSeen'
  BY DEF CellTypeOK, Word, SlotIs, WakeSeen, Asleep
<1>. QED
  BY <1>1, <1>2, <1>3, <1>4, <1>5, <1>6

\* The invariant is kept by `wake`.
LEMMA Step_wake == ASSUME IInv, NEW w \in WakingThreads, wake(w) PROVE IInv'
<1>. USE OneOrDisplacing DEF IInv, wake, ThreadGoes, tasks, threads
<1>1. CellTypeOK'
  BY DEF CellTypeOK, SlotIs
<1>2. Word'
  BY DEF CellTypeOK, Word, OneHolder, RegHolds, WakeHolds
<1>3. OneHolder'
  BY DEF CellTypeOK, Word, OneHolder, RegHolds, WakeHolds
<1>4. SlotIs'
  BY DEF CellTypeOK, Word, OneHolder, SlotIs, RegHolds, WakeHolds
<1>5. KeptOn'
  BY DEF CellTypeOK, SlotIs, KeptOn, InHand
<1>6. WakeSeen'
  BY DEF CellTypeOK, Word, SlotIs, WakeSeen, Asleep
<1>. QED
  BY <1>1, <1>2, <1>3, <1>4, <1>5, <1>6

\* The invariant is kept by `take_begin`.
LEMMA Step_take_begin == ASSUME IInv, NEW w \in WakingThreads, take_begin(w) PROVE IInv'
<1>. USE OneOrDisplacing DEF IInv, take_begin, ThreadGoes, tasks, threads
<1>1. CellTypeOK'
  BY DEF CellTypeOK, SlotIs
<1>2. Word'
  <2>1. state \in {{}, {"REGISTERING"}, {"WAKING"}, {"REGISTERING", "WAKING"}}
    BY StateValues
  <2>. QED
    BY <2>1 DEF CellTypeOK, Word, OneHolder, RegHolds, WakeHolds
<1>3. OneHolder'
  BY DEF CellTypeOK, Word, OneHolder, RegHolds, WakeHolds
<1>4. SlotIs'
  BY DEF CellTypeOK, Word, OneHolder, SlotIs, RegHolds, WakeHolds
<1>5. KeptOn'
  BY DEF CellTypeOK, SlotIs, KeptOn, InHand
<1>6. WakeSeen'
  BY DEF CellTypeOK, Word, SlotIs, WakeSeen, Asleep
<1>. QED
  BY <1>1, <1>2, <1>3, <1>4, <1>5, <1>6

\* The invariant is kept by `take`.
LEMMA Step_take == ASSUME IInv, NEW w \in WakingThreads, take(w) PROVE IInv'
<1>. USE OneOrDisplacing DEF IInv, take, ThreadGoes, tasks, threads
<1>1. CellTypeOK'
  BY DEF CellTypeOK, SlotIs
<1>2. Word'
  BY DEF CellTypeOK, Word, OneHolder, RegHolds, WakeHolds
<1>3. OneHolder'
  BY DEF CellTypeOK, Word, OneHolder, RegHolds, WakeHolds
<1>4. SlotIs'
  BY DEF CellTypeOK, Word, OneHolder, SlotIs, RegHolds, WakeHolds
<1>5. KeptOn'
  BY DEF CellTypeOK, SlotIs, KeptOn, InHand
<1>6. WakeSeen'
  BY DEF CellTypeOK, Word, SlotIs, WakeSeen, Asleep
<1>. QED
  BY <1>1, <1>2, <1>3, <1>4, <1>5, <1>6

\* The invariant is kept by `take_end`.
LEMMA Step_take_end == ASSUME IInv, NEW w \in WakingThreads, take_end(w) PROVE IInv'
<1>. USE OneOrDisplacing DEF IInv, take_end, ThreadGoes, tasks, threads
<1>1. CellTypeOK'
  BY DEF CellTypeOK, SlotIs
<1>2. Word'
  BY DEF CellTypeOK, Word, OneHolder, RegHolds, WakeHolds
<1>3. OneHolder'
  BY DEF CellTypeOK, Word, OneHolder, RegHolds, WakeHolds
<1>4. SlotIs'
  BY DEF CellTypeOK, Word, OneHolder, SlotIs, RegHolds, WakeHolds
<1>5. KeptOn'
  BY DEF CellTypeOK, SlotIs, KeptOn, InHand
<1>6. WakeSeen'
  BY DEF CellTypeOK, Word, SlotIs, WakeSeen, Asleep
<1>. QED
  BY <1>1, <1>2, <1>3, <1>4, <1>5, <1>6

\* The invariant is kept by `waken`.
LEMMA Step_waken == ASSUME IInv, NEW w \in WakingThreads, waken(w) PROVE IInv'
<1>. USE OneOrDisplacing DEF IInv, waken, ThreadGoes, tasks, threads
<1>1. CellTypeOK'
  BY DEF CellTypeOK, SlotIs
<1>2. Word'
  BY DEF CellTypeOK, Word, OneHolder, RegHolds, WakeHolds
<1>3. OneHolder'
  BY DEF CellTypeOK, Word, OneHolder, RegHolds, WakeHolds
<1>4. SlotIs'
  BY DEF CellTypeOK, Word, OneHolder, SlotIs, RegHolds, WakeHolds
<1>5. KeptOn'
  <2>1. SUFFICES ASSUME NEW u \in Tasks, doing'[u] \in {"kept", "check", "asleep"}, ~roused'[u]
                 PROVE  slot' = u \/ InHand(u)'
    BY DEF KeptOn
  <2>2. ~roused[u] /\ ~(hand[w] = u)
    BY <2>1 DEF CellTypeOK
  <2>3. slot = u \/ InHand(u)
    BY <2>1, <2>2 DEF CellTypeOK, KeptOn
  <2>. QED
    BY <2>1, <2>2, <2>3 DEF CellTypeOK, InHand
<1>6. WakeSeen'
  BY DEF CellTypeOK, Word, SlotIs, WakeSeen, Asleep
<1>. QED
  BY <1>1, <1>2, <1>3, <1>4, <1>5, <1>6

\* The invariant of the cell: the word says who holds it, and every waker of a
\* sleeping task is where a wake finds it.
THEOREM CellInvariant == CellSpec => []IInv
<1>1. IInv /\ [CellNext]_cellvars => IInv'
  <2>. SUFFICES ASSUME IInv, [CellNext]_cellvars PROVE IInv'
    OBVIOUS
  <2>1. ASSUME NEW t \in Tasks, TaskStep(t) \/ poll_again(t) \/ clone_panics(t) PROVE IInv'
    BY <2>1, Step_register, Step_store, Step_publish, Step_kept, Step_empty,
       Step_give, Step_wakes, Step_abandon, Step_abandon_gives,
       Step_abandon_wakes, Step_check, Step_poll, Step_poll_again,
       Step_clone_panics DEF TaskStep, Registers
  <2>2. ASSUME NEW w \in WakingThreads, make_ready(w) \/ wake(w) \/ Takes(w) PROVE IInv'
    BY <2>2, Step_make_ready, Step_wake, Step_take_begin, Step_take,
       Step_take_end, Step_waken DEF Takes
  <2>3. CASE UNCHANGED cellvars
    BY <2>3 DEF cellvars, IInv, CellTypeOK, Word, OneHolder, SlotIs, KeptOn, WakeSeen,
       RegHolds, WakeHolds, Asleep, InHand
  <2>. QED
    BY <2>1, <2>2, <2>3 DEF CellNext
<1>. QED
  BY InitIInv, <1>1, PTL DEF CellSpec

\* The slot is touched by one thread at a time, and a sleeping task's waker is in
\* it or about to be woken.
THEOREM SlotIsSafe == CellSpec => []SlotSafe
<1>1. IInv => SlotSafe
  BY DEF IInv, KeptOn, SlotSafe, WakerKept, Asleep
<1>. QED
  BY CellInvariant, <1>1, PTL

\* A wake that meets a registration, or another wake, is not lost.
THEOREM WakesAreSeen == CellSpec => []WakeSeen
<1>1. IInv => WakeSeen
  BY DEF IInv
<1>. QED
  BY CellInvariant, <1>1, PTL
=============================================================================
