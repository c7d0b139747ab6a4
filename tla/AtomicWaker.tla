----------------------------- MODULE AtomicWaker ----------------------------
(***************************************************************************)
(* The single-slot waker cell (sync/atomic_waker.rs): tasks register the   *)
(* waker they are polled with, threads take it and wake it.                *)
(*                                                                         *)
(* A task's waker is named by the task.  The caller's side is the use the  *)
(* cell is made for: a task registers, looks at what it waits for, and     *)
(* goes to sleep if it is not there; a thread makes it ready, then wakes.  *)
(* With Displacing several tasks share the slot and register_displacing    *)
(* is used; without, the one task uses register.                           *)
(***************************************************************************)
CONSTANTS Tasks, WakingThreads, None, Displacing

ASSUME OneOrDisplacing ==
    /\ None \notin Tasks /\ Displacing \in BOOLEAN
    /\ Displacing \/ \A t, u \in Tasks : t = u

VARIABLES
    state,      \* the flags of the word that are set
    slot,       \* the waker in the cell
    doing,      \* where each task is
    displaced,  \* the different waker a registration replaced
    taking,     \* where each thread is
    hand,       \* the waker a take has in hand
    roused,     \* the task was woken since its last poll began
    ready       \* what the tasks wait for

cellvars == <<state, slot, doing, displaced, taking, hand, roused, ready>>
tasks == <<doing, displaced>>
threads == <<taking, hand>>

CellInit ==
    /\ state = {} /\ slot = None
    /\ doing = [t \in Tasks |-> "poll"]
    /\ displaced = [t \in Tasks |-> None]
    /\ taking = [w \in WakingThreads |-> "idle"]
    /\ hand = [w \in WakingThreads |-> None]
    /\ roused = [t \in Tasks |-> FALSE]
    /\ ready = FALSE

TaskGoes(t, x)   == doing' = [doing EXCEPT ![t] = x]
ThreadGoes(w, x) == taking' = [taking EXCEPT ![w] = x]

-----------------------------------------------------------------------------
(* register_returning, and what its callers do with the answer.            *)

\* The first exchange; in use, the caller's own waker is woken.
register(t) ==
    /\ doing[t] = "poll"
    /\ \/ /\ state = {}
          /\ state' = {"REGISTERING"} /\ TaskGoes(t, "store")
          /\ UNCHANGED roused
       \/ /\ state # {}
          /\ roused' = [roused EXCEPT ![t] = TRUE] /\ TaskGoes(t, "check")
          /\ UNCHANGED state
    /\ UNCHANGED <<slot, displaced, threads, ready>>

\* Mutant: a waker registered again counts as replaced.
StoreReplaces(t) ==
    /\ doing[t] = "store"
    /\ displaced' = [displaced EXCEPT ![t] = slot]
    /\ slot' = t
    /\ TaskGoes(t, "publish")
    /\ UNCHANGED <<state, threads, roused, ready>>

\* The waker is put in the slot, unless it is there already (will_wake).
store(t) ==
    /\ doing[t] = "store"
    /\ displaced' = [displaced EXCEPT ![t] = IF slot = t THEN None ELSE slot]
    /\ slot' = t
    /\ TaskGoes(t, "publish")
    /\ UNCHANGED <<state, threads, roused, ready>>

\* The clone of a waker that is not in the slot panics.
clone_panics(t) ==
    /\ doing[t] = "store" /\ slot # t
    /\ TaskGoes(t, "abandon")
    /\ UNCHANGED <<state, slot, displaced, threads, roused, ready>>

publish(t) ==
    /\ doing[t] = "publish"
    /\ \/ state = {"REGISTERING"} /\ state' = {} /\ TaskGoes(t, "kept")
       \/ state # {"REGISTERING"} /\ TaskGoes(t, "empty") /\ UNCHANGED state
    /\ UNCHANGED <<slot, displaced, threads, roused, ready>>

\* Mutant: the waker a registration replaced is dropped.
KeptDrops(t) ==
    /\ doing[t] = "kept"
    /\ displaced' = [displaced EXCEPT ![t] = None]
    /\ TaskGoes(t, "check")
    /\ UNCHANGED <<state, slot, threads, roused, ready>>

\* Kept: register_displacing wakes the waker it replaced.
kept(t) ==
    /\ doing[t] = "kept"
    /\ roused' = [u \in Tasks |-> roused[u] \/ (Displacing /\ displaced[t] = u)]
    /\ displaced' = [displaced EXCEPT ![t] = None]
    /\ TaskGoes(t, "check")
    /\ UNCHANGED <<state, slot, threads, ready>>

\* woken_while_registering: the slot is emptied, ...
empty(t) ==
    /\ doing[t] = "empty"
    /\ slot' = None /\ TaskGoes(t, "give")
    /\ UNCHANGED <<state, displaced, threads, roused, ready>>

\* ... the cell given back, ...
give(t) ==
    /\ doing[t] = "give"
    /\ state' = {} /\ TaskGoes(t, "wakes")
    /\ UNCHANGED <<slot, displaced, threads, roused, ready>>

\* ... and both wakers woken.
wakes(t) ==
    /\ doing[t] = "wakes"
    /\ roused' = [u \in Tasks |-> roused[u] \/ u \in {t, displaced[t]}]
    /\ displaced' = [displaced EXCEPT ![t] = None]
    /\ TaskGoes(t, "check")
    /\ UNCHANGED <<state, slot, threads, ready>>

\* Mutant: the cell is given back as it is, a wake that came meanwhile lost.
AbandonLosesWake(t) ==
    /\ doing[t] = "abandon"
    /\ state' = {} /\ TaskGoes(t, "gone")
    /\ UNCHANGED <<slot, displaced, threads, roused, ready>>

\* Abandon::drop: the cell is given back with the slot as it was; with a wake
\* that came meanwhile, the waker in the slot is taken out first, ...
abandon(t) ==
    /\ doing[t] = "abandon"
    /\ \/ /\ state = {"REGISTERING"} /\ state' = {} /\ TaskGoes(t, "gone")
          /\ UNCHANGED <<slot, displaced>>
       \/ /\ state # {"REGISTERING"} /\ TaskGoes(t, "abandoned")
          /\ slot' = None /\ displaced' = [displaced EXCEPT ![t] = slot]
          /\ UNCHANGED state
    /\ UNCHANGED <<threads, roused, ready>>

\* ... and woken.
abandon_gives(t) ==
    /\ doing[t] = "abandoned"
    /\ state' = {} /\ TaskGoes(t, "unwinds")
    /\ UNCHANGED <<slot, displaced, threads, roused, ready>>

abandon_wakes(t) ==
    /\ doing[t] = "unwinds"
    /\ roused' = [u \in Tasks |-> roused[u] \/ displaced[t] = u]
    /\ displaced' = [displaced EXCEPT ![t] = None]
    /\ TaskGoes(t, "gone")
    /\ UNCHANGED <<state, slot, threads, ready>>

-----------------------------------------------------------------------------
(* The task around a registration.                                         *)

check(t) ==
    /\ doing[t] = "check"
    /\ TaskGoes(t, IF ready THEN "done" ELSE "asleep")
    /\ UNCHANGED <<state, slot, displaced, threads, roused, ready>>

poll_woken(t) ==
    /\ doing[t] = "asleep" /\ roused[t]
    /\ roused' = [roused EXCEPT ![t] = FALSE]
    /\ TaskGoes(t, "poll")
    /\ UNCHANGED <<state, slot, displaced, threads, ready>>

\* A poll for another reason.
poll_again(t) ==
    /\ doing[t] = "asleep" /\ ~roused[t]
    /\ TaskGoes(t, "poll")
    /\ UNCHANGED <<state, slot, displaced, threads, roused, ready>>

-----------------------------------------------------------------------------
(* wake, with the change that it tells of.                                 *)

make_ready(w) ==
    /\ taking[w] = "idle"
    /\ ready' = TRUE /\ ThreadGoes(w, "wake")
    /\ UNCHANGED <<state, slot, tasks, hand, roused>>

\* A wake for some other reason.
wake(w) ==
    /\ taking[w] = "idle"
    /\ ThreadGoes(w, "wake")
    /\ UNCHANGED <<state, slot, tasks, hand, roused, ready>>

\* Mutant: the slot is taken though a registration writes it.
TakeAlways(w) ==
    /\ taking[w] = "wake"
    /\ state' = state \cup {"WAKING"} /\ ThreadGoes(w, "take")
    /\ UNCHANGED <<slot, tasks, hand, roused, ready>>

take_begin(w) ==
    /\ taking[w] = "wake"
    /\ state' = state \cup {"WAKING"}
    /\ ThreadGoes(w, IF state = {} THEN "take" ELSE "idle")
    /\ UNCHANGED <<slot, tasks, hand, roused, ready>>

take(w) ==
    /\ taking[w] = "take"
    /\ hand' = [hand EXCEPT ![w] = slot] /\ slot' = None
    /\ ThreadGoes(w, "give")
    /\ UNCHANGED <<state, tasks, roused, ready>>

take_end(w) ==
    /\ taking[w] = "give"
    /\ state' = state \ {"WAKING"}
    /\ ThreadGoes(w, "waken")
    /\ UNCHANGED <<slot, tasks, hand, roused, ready>>

waken(w) ==
    /\ taking[w] = "waken"
    /\ roused' = [u \in Tasks |-> roused[u] \/ hand[w] = u]
    /\ hand' = [hand EXCEPT ![w] = None]
    /\ ThreadGoes(w, "idle")
    /\ UNCHANGED <<state, slot, tasks, ready>>

-----------------------------------------------------------------------------
Registers(t) == register(t) \/ store(t) \/ publish(t) \/ kept(t) \/ empty(t)
                \/ give(t) \/ wakes(t) \/ abandon(t) \/ abandon_gives(t)
                \/ abandon_wakes(t)
TaskStep(t) == Registers(t) \/ check(t) \/ poll_woken(t)
Takes(w) == take_begin(w) \/ take(w) \/ take_end(w) \/ waken(w)

CellNext == \/ \E t \in Tasks : TaskStep(t) \/ poll_again(t) \/ clone_panics(t)
            \/ \E w \in WakingThreads : make_ready(w) \/ wake(w) \/ Takes(w)

CellSpec == CellInit /\ [][CellNext]_cellvars

\* A thread that began a wake ends it, and a task that is woken is polled; with
\* the clones panicking for ever a task would have no progress to speak of, so a
\* panic ends it.
CellFair == /\ CellSpec
            /\ \A t \in Tasks : WF_cellvars(TaskStep(t))
            /\ \A w \in WakingThreads : WF_cellvars(Takes(w))

-----------------------------------------------------------------------------
(* Properties.                                                             *)

\* The variables have their types, and the waker a registration replaced is
\* another task's.
CellTypeOK ==
    /\ state \subseteq {"REGISTERING", "WAKING"}
    /\ slot \in Tasks \cup {None}
    /\ doing \in [Tasks -> {"poll", "store", "publish", "kept", "empty", "give", "wakes",
                            "abandon", "abandoned", "unwinds", "gone",
                            "check", "asleep", "done"}]
    /\ displaced \in [Tasks -> Tasks \cup {None}] /\ \A t \in Tasks : displaced[t] # t
    /\ taking \in [WakingThreads -> {"idle", "wake", "take", "give", "waken"}]
    /\ hand \in [WakingThreads -> Tasks \cup {None}]
    /\ roused \in [Tasks -> BOOLEAN]
    /\ ready \in BOOLEAN

RegHolds(t) == doing[t] \in {"store", "publish", "empty", "give", "abandon", "abandoned"}
WakeHolds(w) == taking[w] \in {"take", "give"}

\* "The slot is touched only by the holder of REGISTERING or of WAKING, and the
\* state word never lets the two be held at once."
OneHolder ==
    /\ \A t, u \in Tasks : RegHolds(t) /\ RegHolds(u) => t = u
    /\ \A v, w \in WakingThreads : WakeHolds(v) /\ WakeHolds(w) => v = w
    /\ \A t \in Tasks, w \in WakingThreads : ~(RegHolds(t) /\ WakeHolds(w))

\* A task asleep that nobody has woken yet.
Asleep(t) == doing[t] = "asleep" /\ ~roused[t]

\* The waker of u is in somebody's hands, about to be woken.
InHand(u) == \/ \E t \in Tasks : /\ displaced[t] = u
                                 /\ doing[t] \in {"publish", "kept", "empty", "give", "wakes",
                                                  "abandoned", "unwinds"}
             \/ \E w \in WakingThreads : hand[w] = u /\ taking[w] \in {"give", "waken"}

\* No waker is lost: a sleeping task's is in the slot, or about to be woken.
WakerKept == \A t \in Tasks : Asleep(t) => slot = t \/ InHand(t)

\* The two together: the slot has one user at a time, and loses no waker.
SlotSafe == OneHolder /\ WakerKept

\* "A wake that comes while the task is still registering is never lost": once
\* what it waits for is there, a sleeping task whose waker is in the slot has a
\* wake on its way to it, or one that a registration will find on its way out.
WakeSeen ==
    ready => \A t \in Tasks : Asleep(t) /\ slot = t =>
        \/ "WAKING" \in state
        \/ \E w \in WakingThreads : taking[w] = "wake"

\* Every task that waits for what is there is polled in the end, and finds it.
IsReady == ready
Found == \A t \in Tasks : doing[t] \in {"done", "gone"}
AllFind == IsReady ~> Found
=============================================================================
