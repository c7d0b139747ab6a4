-------------------------------- MODULE Task --------------------------------
(***************************************************************************)
(* One task of the runtime (rt/task): its state word, the cell that holds  *)
(* the future and then the output, the cell that holds the awaiter's       *)
(* waker, and every party that reaches them at once: the threads that run  *)
(* or drop its Runnable, the wakers, the abort handles and list references *)
(* (a waker reference each), and the Task handle.                          *)
(*                                                                         *)
(* Grain.  An access to the state word is one step.  A loop that loads the *)
(* word, decides, and exchanges it is one step at the exchange that        *)
(* succeeds, as a failed exchange has no effect; the loops whose body has  *)
(* effects of its own (`complete`, `register`) have a step per effect.     *)
(*                                                                         *)
(* Each process p has a program counter pc[p] and the set later[p] of what *)
(* the call it is in does after the step at pc[p] (see After).             *)
(***************************************************************************)
EXTENDS Naturals, FiniteSets, TLC

CONSTANTS
    Runners,    \* threads that take the task's Runnable, and run or drop it
    Wakers,     \* slots for references: Waker, AbortHandle or TaskRef
    Awaiters,   \* the wakers the handle may be polled with
    Handle,     \* the process that owns the Task handle
    None        \* no waker

ASSUME ProcessesDiffer ==
    /\ Runners \cap Wakers = {}
    /\ Handle \notin Runners \cup Wakers
    /\ None \notin Awaiters

Procs == Runners \cup Wakers \cup {Handle}

Flags == {"SCHEDULED", "RUNNING", "COMPLETED", "CLOSED", "TASK",
          "AWAITER", "REGISTERING", "NOTIFYING"}

VARIABLES
    flags,      \* the flags of the state word
    refs,       \* its count of references
    core,       \* the union of the future and the output
    stored,     \* the awaiter's cell
    named,      \* awaiter_data and awaiter_table: the waker last stored
    freed,      \* the memory was given back
    queued,     \* runnables handed to the schedule and not taken yet
    held,       \* the references, and the handle, that exist
    pc, later,  \* where each process is
    how,        \* which end of the future, or which look, a process is in
    aw,         \* the awaiter's waker a run took out, to wake it at its end
    seen,       \* the word a run in `complete` loaded
    claimed,    \* that run holds the awaiter's cell
    unclaimed,  \* and took the output out to drop it, as nobody else will
    hw, told,   \* the waker of the handle's last poll; woken since it began
    hres,       \* what the handle's last poll answered, or its first answer
    woken,      \* the open task was woken since its last poll began
    panicked    \* the task's code panicked

word  == <<flags, refs>>
cells == <<core, stored, named, freed>>
local == <<how, aw, seen, claimed, unclaimed>>
hist  == <<woken, panicked>>
hpoll == <<hw, told, hres>>
vars  == <<word, cells, queued, held, pc, later, local, hpoll, hist>>

-----------------------------------------------------------------------------
(* What a process does next.                                               *)

\* What is left of a call is done in this order.
After(l) ==
    CASE "notify"  \in l -> "notify"
      [] "dropref" \in l /\ "notify" \notin l -> "dropref"
      [] "detach"  \in l /\ l \cap {"notify", "dropref"} = {} -> "detach"
      [] "answer"  \in l /\ l \cap {"notify", "dropref", "detach"} = {} -> "answer"
      [] l = {"wake"} -> "wake"
      [] OTHER -> "idle"

\* p goes on at label x, and then does what l says.
GoTo(p, x, l) ==
    /\ pc' = [pc EXCEPT ![p] = x]
    /\ later' = [later EXCEPT ![p] = l]

\* p is done with its step and goes on with the first thing of l.
Proceed(p, l) == GoTo(p, After(l), l \ {After(l)})

Has(f)    == f \in flags
Open      == flags \cap {"COMPLETED", "CLOSED"} = {}
Idle      == flags \cap {"SCHEDULED", "RUNNING"} = {}
Wake(x)   == told' = (told \/ x = hw)

-----------------------------------------------------------------------------
(* The task as `spawn` leaves it: scheduled, its runnable in the queue.    *)

Init ==
    /\ flags = {"SCHEDULED", "TASK"} /\ refs = 1
    /\ core = "future" /\ stored = None /\ named = None /\ freed = FALSE
    /\ queued = 1 /\ held = {Handle}
    /\ pc = [p \in Procs |-> "idle"] /\ later = [p \in Procs |-> {}]
    /\ how = [p \in Procs |-> "none"] /\ aw = [p \in Procs |-> None]
    /\ seen = [flags |-> {}, refs |-> 0] /\ claimed = FALSE /\ unclaimed = FALSE
    /\ hw = None /\ told = FALSE /\ hres = "open"
    /\ woken = FALSE /\ panicked = FALSE

-----------------------------------------------------------------------------
(* References: wakers, abort handles and list references.                  *)

\* A reference can be cloned from another one, from the waker of the poll,
\* by the schedule while the future is dropped, or from the handle.
CanClone ==
    \/ held # {}
    \/ \E p \in Procs : pc[p] \in {"poll", "drop"}

clone_waker(w) ==
    /\ pc[w] = "idle" /\ w \notin held /\ CanClone
    /\ refs' = refs + 1 /\ held' = held \cup {w}
    /\ UNCHANGED <<flags, cells, queued, pc, later, local, hpoll, hist>>

\* Mutant: a wake that finds the task running leaves no mark.
WakeForgetsRunning(w) ==
    /\ pc[w] = "idle" /\ w \in held
    /\ held' = held \ {w}
    /\ flags' = IF Open /\ Idle THEN flags \cup {"SCHEDULED"} ELSE flags
    /\ woken' = (woken \/ Open)
    /\ GoTo(w, IF Open /\ Idle THEN "schedule" ELSE "dropwaker", {})
    /\ UNCHANGED <<refs, cells, queued, local, hpoll, panicked>>

\* The reference of a wake that finds the task idle becomes the runnable's.
wake(w) ==
    /\ pc[w] = "idle" /\ w \in held
    /\ held' = held \ {w}
    /\ flags' = IF Open THEN flags \cup {"SCHEDULED"} ELSE flags
    /\ woken' = (woken \/ Open)
    /\ GoTo(w, IF Open /\ Idle THEN "schedule" ELSE "dropwaker", {})
    /\ UNCHANGED <<refs, cells, queued, local, hpoll, panicked>>

\* Mutant: a wake by reference schedules a task that is running.
WakeByRefWhileRunning(w) ==
    /\ pc[w] = "idle" /\ w \in held /\ Open
    /\ flags' = flags \cup {"SCHEDULED"}
    /\ refs' = IF ~Has("SCHEDULED") THEN refs + 1 ELSE refs
    /\ woken' = TRUE
    /\ GoTo(w, IF ~Has("SCHEDULED") THEN "schedule" ELSE "idle", {})
    /\ UNCHANGED <<cells, queued, held, local, hpoll, panicked>>

wake_by_ref(w) ==
    /\ pc[w] = "idle" /\ w \in held /\ Open
    /\ flags' = flags \cup {"SCHEDULED"}
    /\ refs' = IF Idle THEN refs + 1 ELSE refs
    /\ woken' = TRUE
    /\ GoTo(w, IF Idle THEN "schedule" ELSE "idle", {})
    /\ UNCHANGED <<cells, queued, held, local, hpoll, panicked>>

forget(w) ==
    /\ pc[w] = "idle" /\ w \in held
    /\ held' = held \ {w}
    /\ GoTo(w, "dropwaker", {})
    /\ UNCHANGED <<word, cells, queued, local, hpoll, hist>>

\* Mutant: the last waker frees a task whose handle is there.
DropWakerForgetsHandle(p) ==
    /\ pc[p] = "dropwaker"
    /\ refs' = refs - 1
    /\ IF refs' = 0
       THEN GoTo(p, IF Open THEN "reopen" ELSE "destroy", later[p])
       ELSE Proceed(p, later[p])
    /\ UNCHANGED <<flags, cells, queued, held, local, hpoll, hist>>

\* The last reference of an open task with no handle closes and reschedules
\* it, in two steps as the code does.
drop_waker(p) ==
    /\ pc[p] = "dropwaker"
    /\ refs' = refs - 1
    /\ IF refs' = 0 /\ ~Has("TASK")
       THEN GoTo(p, IF Open THEN "reopen" ELSE "destroy", later[p])
       ELSE Proceed(p, later[p])
    /\ UNCHANGED <<flags, cells, queued, held, local, hpoll, hist>>

drop_last_waker(p) ==
    /\ pc[p] = "reopen"
    /\ flags' = {"SCHEDULED", "CLOSED"} /\ refs' = 1
    /\ GoTo(p, "schedule", later[p])
    /\ UNCHANGED <<cells, queued, held, local, hpoll, hist>>

\* Sched::schedule on the shard's own thread, or on another one, which keeps
\* a waker of the task over the push and drops it after.
schedule(p) ==
    /\ pc[p] = "schedule"
    /\ queued' = queued + 1
    /\ Proceed(p, later[p])
    /\ UNCHANGED <<word, cells, held, local, hpoll, hist>>

schedule_elsewhere(p) ==
    \/ /\ pc[p] = "schedule"
       /\ refs' = refs + 1
       /\ GoTo(p, "push", later[p])
       /\ UNCHANGED <<flags, cells, queued, held, local, hpoll, hist>>
    \/ /\ pc[p] = "push"
       /\ queued' = queued + 1
       /\ GoTo(p, "dropwaker", later[p])
       /\ UNCHANGED <<word, cells, held, local, hpoll, hist>>

destroy(p) ==
    /\ pc[p] = "destroy"
    /\ freed' = TRUE /\ stored' = None
    /\ Proceed(p, later[p])
    /\ UNCHANGED <<word, core, named, queued, held, local, hpoll, hist>>

-----------------------------------------------------------------------------
(* Closing, by an abort handle, by the handle, or by the walk of a list.   *)

CloseWord ==
    /\ flags' = flags \cup {"CLOSED"} \cup (IF Idle THEN {"SCHEDULED"} ELSE {})
    /\ refs' = IF Idle THEN refs + 1 ELSE refs

\* What p goes on with once it cancelled, and then did l.
cancel(p, l) ==
    LET rest == IF Open /\ Has("AWAITER") THEN l \cup {"notify"} ELSE l
    IN  /\ IF Open THEN CloseWord ELSE UNCHANGED word
        /\ IF Open /\ Idle THEN GoTo(p, "schedule", rest) ELSE Proceed(p, rest)

abort(p) ==
    /\ pc[p] = "idle" /\ p \in held /\ Open
    /\ cancel(p, {})
    /\ UNCHANGED <<cells, queued, held, local, hpoll, hist>>

\* TaskRef::close and TaskList::cancel_all: the runnable of an idle task is
\* dropped at once by the thread that closed it.
close_listed(w) ==
    /\ pc[w] = "idle" /\ w \in held /\ Open
    /\ CloseWord
    /\ IF Idle
       THEN GoTo(w, "drop", {}) /\ how' = [how EXCEPT ![w] = "dropped"]
       ELSE UNCHANGED <<pc, later, how>>
    /\ UNCHANGED <<cells, queued, held, aw, seen, claimed, unclaimed, hpoll, hist>>

-----------------------------------------------------------------------------
(* The awaiter's cell.                                                     *)

\* Mutant: a notifier takes the cell while a registration stores in it.
TakeIgnoresRegistering(p) ==
    /\ pc[p] \in {"notify", "take"}
    /\ flags' = flags \cup {"NOTIFYING"}
    /\ IF Has("NOTIFYING")
       THEN Proceed(p, later[p])
       ELSE GoTo(p, IF pc[p] = "notify" THEN "notifying" ELSE "taking", later[p])
    /\ UNCHANGED <<refs, cells, queued, held, local, hpoll, hist>>

\* Header::take: `notify` wakes what it takes, `finish` keeps it for later.
\* Who finds the cell busy leaves it, and NOTIFYING, to whoever holds it.
take_begin(p) ==
    /\ pc[p] \in {"notify", "take"}
    /\ flags' = flags \cup {"NOTIFYING"}
    /\ IF flags \cap {"NOTIFYING", "REGISTERING"} # {}
       THEN Proceed(p, later[p])
       ELSE GoTo(p, IF pc[p] = "notify" THEN "notifying" ELSE "taking", later[p])
    /\ UNCHANGED <<refs, cells, queued, held, local, hpoll, hist>>

\* The notify of a poll that answers wakes no waker that wakes its own task.
notify(p) ==
    /\ pc[p] = "notifying"
    /\ stored' = None
    /\ flags' = flags \ {"NOTIFYING", "AWAITER"}
    /\ IF "answer" \notin later[p] /\ stored # None THEN Wake(stored) ELSE UNCHANGED told
    /\ Proceed(p, later[p])
    /\ UNCHANGED <<refs, core, named, freed, queued, held, local, hw, hres, hist>>

take_end(p) ==
    /\ pc[p] = "taking"
    /\ stored' = None
    /\ flags' = flags \ {"NOTIFYING", "AWAITER"}
    /\ aw' = [aw EXCEPT ![p] = stored]
    /\ Proceed(p, IF stored # None THEN later[p] \cup {"wake"} ELSE later[p])
    /\ UNCHANGED <<refs, core, named, freed, queued, held,
                   how, seen, claimed, unclaimed, hpoll, hist>>

wake_awaiter(p) ==
    /\ pc[p] = "wake"
    /\ Wake(aw[p])
    /\ aw' = [aw EXCEPT ![p] = None]
    /\ Proceed(p, later[p])
    /\ UNCHANGED <<word, cells, queued, held, how, seen, claimed, unclaimed,
                   hw, hres, hist>>

\* Header::register, up to the exchange that sets REGISTERING.  A notifier
\* that holds the cell wakes this poll's waker if it is the one stored.
register(h) ==
    /\ pc[h] = "register"
    /\ IF Has("NOTIFYING")
       THEN /\ told' = (told \/ ~Has("AWAITER") \/ named # hw)
            /\ pc' = [pc EXCEPT ![h] = "relook"]
            /\ UNCHANGED flags
       ELSE /\ flags' = flags \cup {"REGISTERING"}
            /\ pc' = [pc EXCEPT ![h] = "store"]
            /\ UNCHANGED told
    /\ UNCHANGED <<refs, cells, queued, held, later, local, hw, hres, hist>>

register_store(h) ==
    /\ pc[h] = "store"
    /\ stored' = hw /\ named' = hw
    /\ pc' = [pc EXCEPT ![h] = "stored"]
    /\ UNCHANGED <<word, core, freed, queued, held, later, local, hpoll, hist>>

\* A notifier that came meanwhile took nothing: its wake is made here.
register_end(h) ==
    /\ pc[h] = "stored"
    /\ IF Has("NOTIFYING")
       THEN /\ stored' = None
            /\ flags' = flags \ {"NOTIFYING", "REGISTERING", "AWAITER"}
            /\ Wake(stored)
       ELSE /\ flags' = (flags \ {"REGISTERING"}) \cup {"AWAITER"}
            /\ UNCHANGED <<stored, told>>
    /\ pc' = [pc EXCEPT ![h] = "relook"]
    /\ UNCHANGED <<refs, core, named, freed, queued, held, later, local, hw, hres, hist>>

-----------------------------------------------------------------------------
(* The Runnable: run, or dropped without running.                          *)

run(r) ==
    /\ pc[r] = "idle" /\ queued > 0
    /\ queued' = queued - 1
    /\ flags' = (flags \ {"SCHEDULED"}) \cup {"RUNNING"}
    /\ woken' = FALSE
    /\ IF Has("CLOSED")
       THEN GoTo(r, "drop", {}) /\ how' = [how EXCEPT ![r] = "queued"]
       ELSE GoTo(r, "poll", {}) /\ UNCHANGED how
    /\ UNCHANGED <<refs, cells, held, aw, seen, claimed, unclaimed, hpoll, panicked>>

\* The poll answers Pending: settle_run.
run_pending(r) ==
    /\ pc[r] = "poll"
    /\ IF Has("CLOSED")
       THEN /\ GoTo(r, "drop", {}) /\ how' = [how EXCEPT ![r] = "closed"]
            /\ UNCHANGED word
       ELSE /\ flags' = flags \ {"RUNNING"}
            /\ refs' = IF Has("SCHEDULED") THEN refs ELSE refs - 1
            /\ GoTo(r, CASE Has("SCHEDULED") -> "schedule"
                         [] ~Has("SCHEDULED") /\ refs' = 0 /\ ~Has("TASK") -> "unawaited"
                         [] OTHER -> "idle", {})
            /\ UNCHANGED how
    /\ UNCHANGED <<cells, queued, held, aw, seen, claimed, unclaimed, hpoll, hist>>

\* The poll answers a value or panics, or the drop of the future after it
\* does: the word is read, the future dropped, its outcome written.
run_ready(r, outcome) ==
    /\ pc[r] = "poll"
    /\ core' = outcome
    /\ panicked' = (panicked \/ outcome = "panic")
    /\ seen' = [flags |-> flags, refs |-> refs]
    /\ claimed' = FALSE /\ unclaimed' = FALSE
    /\ GoTo(r, "complete", {})
    /\ UNCHANGED <<word, stored, named, freed, queued, held, how, aw, hpoll, woken>>

MustClaim == /\ ~claimed /\ "AWAITER" \in seen.flags
             /\ seen.flags \cap {"NOTIFYING", "REGISTERING"} = {}
Cancelled == /\ core = "value" /\ {"TASK", "CLOSED"} \subseteq seen.flags
MustTake  == /\ ~unclaimed
             /\ "TASK" \notin seen.flags \/ Cancelled

complete_claim(r) ==
    /\ pc[r] = "complete" /\ MustClaim
    /\ LET ours == flags \cap {"NOTIFYING", "REGISTERING"} = {}
       IN  /\ aw' = [aw EXCEPT ![r] = IF ours THEN stored ELSE None]
           /\ stored' = IF ours THEN None ELSE stored
           /\ claimed' = ours
    /\ flags' = flags \cup {"NOTIFYING"}
    /\ seen' = [flags |-> flags', refs |-> refs]
    /\ UNCHANGED <<refs, core, named, freed, queued, held, pc, later, how,
                   unclaimed, hpoll, hist>>

\* The output nobody takes is taken out before the exchange.  (The value of a
\* handle that cancelled is dropped here, the output of a task without a handle
\* after the exchange: by then nobody can tell.)
complete_take(r) ==
    /\ pc[r] = "complete" /\ ~MustClaim /\ MustTake
    /\ unclaimed' = TRUE
    /\ core' = "gone"
    /\ UNCHANGED <<word, stored, named, freed, queued, held, pc, later, how, aw,
                   seen, claimed, hpoll, hist>>

\* Mutant: a completion leaves the handle the output it dropped.
ReopensCancelled == IF Has("TASK") THEN {} ELSE {"CLOSED"}

\* A completed task without a handle is closed, and a panic opens it again for
\* the handle that cancelled.
ClosedAfter == CASE ~Has("TASK") -> {"CLOSED"}
                 [] Has("TASK") /\ core = "panic" -> {}
                 [] OTHER -> flags \cap {"CLOSED"}

\* The exchange: on the word as it was seen, or the word is seen again.
complete_exchange(r) ==
    /\ pc[r] = "complete" /\ ~MustClaim /\ ~MustTake
    /\ IF flags = seen.flags /\ refs = seen.refs
       THEN LET cleared == {"RUNNING", "SCHEDULED", "CLOSED"}
                           \cup (IF claimed THEN {"NOTIFYING", "AWAITER"} ELSE {})
                rest == IF aw[r] # None THEN {"wake"} ELSE {}
            IN  /\ flags' = (flags \ cleared) \cup {"COMPLETED"} \cup ClosedAfter
                /\ refs' = refs - 1
                /\ claimed' = FALSE
                /\ IF refs' = 0 /\ ~Has("TASK")
                   THEN GoTo(r, "destroy", rest)
                   ELSE Proceed(r, rest)
                /\ UNCHANGED seen
       ELSE /\ seen' = [flags |-> flags, refs |-> refs]
            /\ UNCHANGED <<word, claimed, pc, later>>
    /\ UNCHANGED <<cells, queued, held, how, aw, unclaimed, hpoll, hist>>

\* A Runnable dropped without running closes the task unless it completed.
drop_runnable(r) ==
    /\ pc[r] = "idle" /\ queued > 0
    /\ queued' = queued - 1
    /\ flags' = IF Open THEN flags \cup {"CLOSED"} ELSE flags
    /\ GoTo(r, "drop", {}) /\ how' = [how EXCEPT ![r] = "dropped"]
    /\ UNCHANGED <<refs, cells, held, aw, seen, claimed, unclaimed, hpoll, hist>>

\* The future is dropped by who owns it; the drop may panic, and the panic is
\* written as the output (settle_panicked) or, with nobody to take it, logged.
drop_future(p, panic) ==
    /\ pc[p] = "drop"
    /\ core' = IF panic /\ how[p] # "unawaited" THEN "panic" ELSE "gone"
    /\ panicked' = (panicked \/ panic)
    /\ GoTo(p, IF how[p] = "unawaited" THEN "release" ELSE "settle", later[p])
    /\ UNCHANGED <<word, stored, named, freed, queued, held, local, hpoll, woken>>

\* The exchange that ends a cancel: a panic completes the task for its handle,
\* closed no more.  Then the awaiter is told and the reference dropped: by
\* `finish` after a run, by `notify` and `drop_ref` after a dropped runnable.
settle(p) ==
    /\ pc[p] = "settle"
    /\ LET clear == CASE how[p] = "queued"  -> {"RUNNING"}
                      [] how[p] = "closed"  -> {"RUNNING", "SCHEDULED"}
                      [] how[p] = "dropped" -> {"SCHEDULED"}
           kept  == core = "panic" /\ Has("TASK")
       IN  /\ flags' = IF kept THEN (flags \ (clear \cup {"CLOSED"})) \cup {"COMPLETED"}
                               ELSE flags \ clear
           /\ core' = IF kept THEN core ELSE "gone"
    /\ how' = [how EXCEPT ![p] = "none"]
    /\ CASE ~Has("AWAITER") -> GoTo(p, "dropref", {})
         [] Has("AWAITER") /\ how[p] = "dropped" -> GoTo(p, "notify", {"dropref"})
         [] Has("AWAITER") /\ how[p] # "dropped" -> GoTo(p, "take", {"dropref"})
    /\ UNCHANGED <<refs, stored, named, freed, queued, held, aw, seen, claimed,
                   unclaimed, hpoll, hist>>

drop_ref(p) ==
    /\ pc[p] = "dropref"
    /\ refs' = refs - 1
    /\ IF refs' = 0 /\ ~Has("TASK")
       THEN GoTo(p, IF Open THEN "unawaited" ELSE "destroy", later[p])
       ELSE Proceed(p, later[p])
    /\ UNCHANGED <<flags, cells, queued, held, local, hpoll, hist>>

\* Mutant: the task is not closed while its future is dropped, so the last drop
\* of a reference taken meanwhile finds it open.
EndUnawaitedOpen(p) ==
    \/ /\ pc[p] = "unawaited"
       /\ refs' = refs + 1
       /\ GoTo(p, "drop", later[p]) /\ how' = [how EXCEPT ![p] = "unawaited"]
       /\ UNCHANGED <<flags, cells, queued, held, aw, seen, claimed, unclaimed, hpoll, hist>>
    \/ /\ pc[p] = "release"
       /\ refs' = refs - 1
       /\ how' = [how EXCEPT ![p] = "none"]
       /\ IF refs' = 0 /\ ~Has("TASK") THEN GoTo(p, "destroy", later[p])
                                        ELSE Proceed(p, later[p])
       /\ UNCHANGED <<flags, cells, queued, held, aw, seen, claimed, unclaimed, hpoll, hist>>

\* end_unawaited: closed, with a reference of its own while the future goes.
end_unawaited(p) ==
    \/ /\ pc[p] = "unawaited"
       /\ flags' = flags \cup {"CLOSED"} /\ refs' = refs + 1
       /\ GoTo(p, "drop", later[p]) /\ how' = [how EXCEPT ![p] = "unawaited"]
       /\ UNCHANGED <<cells, queued, held, aw, seen, claimed, unclaimed, hpoll, hist>>
    \/ /\ pc[p] = "release"
       /\ refs' = refs - 1
       /\ how' = [how EXCEPT ![p] = "none"]
       /\ IF refs' = 0 /\ ~Has("TASK") THEN GoTo(p, "destroy", later[p])
                                        ELSE Proceed(p, later[p])
       /\ UNCHANGED <<flags, cells, queued, held, aw, seen, claimed, unclaimed, hpoll, hist>>

-----------------------------------------------------------------------------
(* The Task handle.                                                        *)

Answer(x) == hres' = IF hres \in {"open", "pending"} THEN x ELSE hres

\* poll_raw begins, with the waker of the task that awaits the handle.
poll_begin(h, a) ==
    /\ pc[h] = "idle" /\ h \in held
    /\ hw' = a /\ told' = FALSE
    /\ Answer("open")
    /\ pc' = [pc EXCEPT ![h] = "look"]
    /\ UNCHANGED <<word, cells, queued, held, later, local, hist>>

\* The top of poll_raw's loop.  An answer is charged to the task's budget:
\* with the budget spent the poll is Pending, and its task woken.
poll_look(h) ==
    /\ pc[h] = "look"
    /\ \/ /\ Has("CLOSED") /\ ~Idle
          /\ pc' = [pc EXCEPT ![h] = "register"] /\ how' = [how EXCEPT ![h] = "closed"]
          /\ UNCHANGED later
       \/ /\ Open
          /\ pc' = [pc EXCEPT ![h] = "register"] /\ how' = [how EXCEPT ![h] = "open"]
          /\ UNCHANGED later
       \/ /\ Has("CLOSED") /\ Idle
          /\ GoTo(h, "notify", {"answer"}) /\ how' = [how EXCEPT ![h] = "none"]
       \/ /\ Has("COMPLETED") /\ ~Has("CLOSED")
          /\ pc' = [pc EXCEPT ![h] = "claim"] /\ how' = [how EXCEPT ![h] = "none"]
          /\ UNCHANGED later
    /\ UNCHANGED <<word, cells, queued, held, aw, seen, claimed, unclaimed, hpoll, hist>>

poll_refused(h) ==
    /\ pc[h] \in {"look", "claim"} /\ (pc[h] = "look" => Has("CLOSED") /\ Idle)
    /\ told' = TRUE /\ Answer("pending")
    /\ GoTo(h, "idle", {})
    /\ how' = [how EXCEPT ![h] = "none"]
    /\ UNCHANGED <<word, cells, queued, held, aw, seen, claimed, unclaimed, hw, hist>>

\* Mutant: a handle whose task was closed answers without waiting for its future.
RelookClosedIsDone(h) ==
    /\ pc[h] = "relook"
    /\ IF Open
       THEN /\ pc' = [pc EXCEPT ![h] = "idle"] /\ Answer("pending")
            /\ UNCHANGED later
       ELSE /\ IF Has("CLOSED") THEN GoTo(h, "notify", {"answer"})
                                ELSE GoTo(h, "look", {})
            /\ UNCHANGED hres
    /\ how' = [how EXCEPT ![h] = "none"]
    /\ UNCHANGED <<word, cells, queued, held, aw, seen, claimed, unclaimed,
                   hw, told, hist>>

\* Mutant: a handle that registered does not look at the word again.
RelookNever(h) ==
    /\ pc[h] = "relook"
    /\ pc' = [pc EXCEPT ![h] = "idle"] /\ Answer("pending")
    /\ how' = [how EXCEPT ![h] = "none"]
    /\ UNCHANGED <<word, cells, queued, held, later, aw, seen, claimed, unclaimed,
                   hw, told, hist>>

\* The word read again after the registration.
poll_relook(h) ==
    /\ pc[h] = "relook"
    /\ LET pending == IF how[h] = "closed" THEN ~Idle ELSE Open
       IN  /\ pc' = [pc EXCEPT ![h] = IF pending THEN "idle" ELSE "look"]
           /\ IF pending THEN Answer("pending") ELSE UNCHANGED hres
    /\ how' = [how EXCEPT ![h] = "none"]
    /\ UNCHANGED <<word, cells, queued, held, later, aw, seen, claimed, unclaimed,
                   hw, told, hist>>

\* The exchange that takes the output: it closes the completed task.
poll_claim(h) ==
    /\ pc[h] = "claim" /\ ~Has("CLOSED")
    /\ flags' = flags \cup {"CLOSED"}
    /\ Proceed(h, {"answer"} \cup (IF Has("AWAITER") THEN {"notify"} ELSE {}))
    /\ how' = [how EXCEPT ![h] = "output"]
    /\ UNCHANGED <<refs, cells, queued, held, aw, seen, claimed, unclaimed, hpoll, hist>>

\* Ready: with the output (read_output), or with none.
poll_answer(h) ==
    /\ pc[h] = "answer"
    /\ IF how[h] = "output" THEN Answer(core) /\ core' = "gone"
                            ELSE Answer("none") /\ UNCHANGED core
    /\ how' = [how EXCEPT ![h] = "none"]
    /\ Proceed(h, later[h])
    /\ UNCHANGED <<word, stored, named, freed, queued, held, aw, seen, claimed,
                   unclaimed, hw, told, hist>>

\* Task::detach, and Task's drop, which cancels first.  An awaited handle of a
\* task without references frees it at once.
detach(h) ==
    /\ pc[h] = "idle" /\ h \in held
    /\ GoTo(h, "detach", {})
    /\ held' = held \ {h}
    /\ UNCHANGED <<word, cells, queued, local, hpoll, hist>>

drop_handle(h) ==
    /\ pc[h] = "idle" /\ h \in held
    /\ held' = held \ {h}
    /\ IF flags = {"COMPLETED", "CLOSED", "TASK"} /\ refs = 0
       THEN GoTo(h, "destroy", {}) /\ UNCHANGED word
       ELSE cancel(h, {"detach"})
    /\ UNCHANGED <<cells, queued, local, hpoll, hist>>

set_detached(h) ==
    /\ pc[h] = "detach"
    /\ \/ /\ Has("COMPLETED") /\ ~Has("CLOSED")
          /\ flags' = flags \cup {"CLOSED"} /\ core' = "gone"
          /\ UNCHANGED <<pc, later>>
          /\ UNCHANGED refs
       \/ /\ ~(Has("COMPLETED") /\ ~Has("CLOSED")) /\ refs > 0
          /\ flags' = flags \ {"TASK"}
          /\ Proceed(h, later[h])
          /\ UNCHANGED <<refs, core>>
       \/ /\ Has("CLOSED") /\ refs = 0
          /\ flags' = flags \ {"TASK"}
          /\ GoTo(h, "destroy", later[h])
          /\ UNCHANGED <<refs, core>>
       \/ /\ Open /\ refs = 0
          /\ flags' = {"SCHEDULED", "CLOSED"} /\ refs' = 1
          /\ GoTo(h, "schedule", later[h])
          /\ UNCHANGED core
    /\ UNCHANGED <<stored, named, freed, queued, held, local, hpoll, hist>>

-----------------------------------------------------------------------------
(* What any process does once it is at the label.                          *)
Step(p) ==
    \/ drop_waker(p) \/ drop_last_waker(p)
    \/ schedule(p) \/ schedule_elsewhere(p) \/ destroy(p)
    \/ take_begin(p) \/ notify(p) \/ take_end(p) \/ wake_awaiter(p)
    \/ settle(p) \/ drop_ref(p) \/ end_unawaited(p)
    \/ \E panic \in BOOLEAN : drop_future(p, panic)

RunStep(r) ==
    \/ run_pending(r) \/ \E o \in {"value", "panic"} : run_ready(r, o)
    \/ complete_claim(r) \/ complete_take(r) \/ complete_exchange(r)

HandleStep(h) ==
    \/ register(h) \/ register_store(h) \/ register_end(h)
    \/ poll_look(h) \/ poll_refused(h) \/ poll_relook(h)
    \/ poll_claim(h) \/ poll_answer(h) \/ set_detached(h)

RunnerTakes(r) == run(r) \/ drop_runnable(r)

Next ==
    \/ \E p \in Procs : Step(p)
    \/ \E r \in Runners : RunStep(r) \/ RunnerTakes(r)
    \/ \E w \in Wakers : clone_waker(w) \/ wake(w) \/ wake_by_ref(w)
                         \/ forget(w) \/ abort(w) \/ close_listed(w)
    \/ HandleStep(Handle)
    \/ abort(Handle) \/ detach(Handle) \/ drop_handle(Handle)
    \/ \E a \in Awaiters : poll_begin(Handle, a)

Spec == Init /\ [][Next]_vars

\* A thread that began a call goes on with it, a poll of the future returns,
\* and the shard takes what is in its queue.  Nothing makes a waker wake, a
\* handle poll, or a reference go.
Fairness ==
    /\ \A p \in Procs : WF_vars(Step(p))
    /\ \A r \in Runners : WF_vars(RunStep(r)) /\ WF_vars(RunnerTakes(r))
    /\ WF_vars(HandleStep(Handle))

FairSpec == Spec /\ Fairness

-----------------------------------------------------------------------------
(* Properties.                                                             *)

Labels == {"idle", "schedule", "push", "dropwaker", "reopen", "destroy",
           "notify", "notifying", "take", "taking", "wake", "poll", "complete",
           "drop", "settle", "dropref", "unawaited", "release", "look",
           "register", "store", "stored", "relook", "claim", "answer", "detach"}

\* The variables have their types.
TypeOK ==
    /\ flags \subseteq Flags /\ refs \in Nat /\ queued \in Nat
    /\ core \in {"future", "value", "panic", "gone"} /\ freed \in BOOLEAN
    /\ stored \in Awaiters \cup {None} /\ named \in Awaiters \cup {None}
    /\ hw \in Awaiters \cup {None}
    /\ held \subseteq Wakers \cup {Handle}
    /\ pc \in [Procs -> Labels]
    /\ later \in [Procs -> SUBSET {"notify", "dropref", "detach", "answer", "wake"}]
    /\ how \in [Procs -> {"none", "queued", "closed", "dropped", "unawaited", "open", "output"}]
    /\ aw \in [Procs -> Awaiters \cup {None}]
    /\ seen \in [flags : SUBSET Flags, refs : Nat]
    /\ claimed \in BOOLEAN /\ unclaimed \in BOOLEAN
    /\ told \in BOOLEAN /\ woken \in BOOLEAN /\ panicked \in BOOLEAN
    /\ hres \in {"open", "pending", "value", "panic", "none"}

AllIdle == \A p \in Procs : pc[p] = "idle"

\* Who owns the future or what became of it: a Runnable on its way, a run, a
\* drop of the future, and the last reference of an open task.
OwnerLabels == {"schedule", "push", "poll", "complete", "drop", "settle",
                "reopen", "unawaited"}

\* One poll at a time (raw.rs, Invariants): there is at most one Runnable, run
\* or drop of the future at once, whatever the wakers, cancels and drops of the
\* handle do meanwhile.
OneOwner == queued + Cardinality({p \in Procs : pc[p] \in OwnerLabels}) <= 1

\* The future is dropped once, by the side that owns it: whoever is about to
\* poll, drop or reschedule it finds it there, and an open task that nobody
\* completes still has it.
FutureLives ==
    /\ (\E p \in Procs : pc[p] \in OwnerLabels \ {"complete", "settle"}) \/ queued > 0
          => core = "future"
    /\ Open /\ (\A r \in Runners : pc[r] # "complete") => core = "future"

\* The memory lives while anything refers to it: once it is freed nobody holds
\* the task, no call that still touches it is in progress (nor one that would
\* free it again), and neither the future nor the output was left behind.
FreedLast ==
    freed => /\ core = "gone" /\ held = {} /\ queued = 0
             /\ \A p \in Procs : pc[p] \in {"idle", "wake"}

\* The awaiter's cell has one user at a time: a registration, a notifier, or the
\* run that claimed it until its exchange.
CellExclusive ==
    Cardinality({p \in Procs : \/ pc[p] \in {"notifying", "taking", "store", "stored"}
                               \/ pc[p] = "complete" /\ claimed}) <= 1

\* The awaiter is told: with no call in progress, a handle whose last poll was
\* Pending and whose task completed, or was closed and ended, had the waker of
\* that poll woken since it began.
Finished == Idle /\ ~Open
AwaiterTold == AllIdle /\ Handle \in held /\ hres = "pending" /\ Finished => told

\* A wake is not lost: a task woken since its last poll began, and neither
\* completed nor closed, has its runnable queued.
WakeNotLost == AllIdle /\ woken /\ Open => queued = 1

\* `None` means that the future and any output are gone (Task::cancel), and a
\* panic stays for the handle even after a cancel (task/mod.rs).
NoneMeansGone == hres = "none" => core = "gone" /\ ~panicked

\* The handle reads an output that is there.
OutputThere ==
    pc[Handle] \in {"notify", "notifying", "answer"} /\ how[Handle] = "output"
        => core \in {"value", "panic"}

\* A task woken while open is polled again in the end, unless it was closed or
\* the poll it was woken in gave its outcome.  (The exchange of that outcome is
\* a retry loop: others that keep changing the word could hold it up for ever.)
WokenOpen == woken /\ Open
Repolls == woken /\ Open /\ core = "future"

\* A task that nobody holds any more is freed in the end.
Unheld == held = {}
Freed == freed

\* The threads, the slots and the awaiters are alike.
Symmetry == Permutations(Runners) \cup Permutations(Wakers) \cup Permutations(Awaiters)
=============================================================================
