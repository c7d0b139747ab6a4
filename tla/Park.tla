-------------------------------- MODULE Park --------------------------------
(***************************************************************************)
(* A shard that runs out of work and parks (rt/shard/run.rs, the run loop; *)
(* rt/handshake.rs), and the threads that give it work meanwhile: a task   *)
(* for its inbox (push_remote), a change for its timers or its sources     *)
(* (post_timer, post_io), a wake of its block_on future (Signal).          *)
(*                                                                         *)
(* The inbox is as its taker sees it (Inbox!DrainedIsEmpty): the number of *)
(* tasks swapped in.  A mailbox of posted changes (shard/counted.rs) is a  *)
(* queue and a count, which a push raises once its change is in the queue. *)
(* Every access of the handshake is sequentially consistent, so the steps  *)
(* interleave.                                                             *)
(***************************************************************************)
EXTENDS Naturals, Sequences, FiniteSets

CONSTANTS
    Posters,    \* the other threads
    Quiet,      \* whether a removal is posted with no wake (TimerOp::needs_wake)
    MaxQueued,  \* bound: tasks in the inbox, or changes in a mailbox
    MaxLocal    \* bound: runnables in the shard's own queue

ASSUME BoundsAreNat ==
    /\ Quiet \in BOOLEAN /\ MaxQueued \in Nat /\ MaxLocal \in Nat
    /\ IsFiniteSet(Posters)

Mailboxes == {"timer", "io"}

VARIABLES
    parked,     \* ParkState::parked
    notified,   \* a wake is left on the shard's poller
    inbox,      \* how many tasks the inbox holds
    posted,     \* the changes each mailbox holds: "loud" ones wake the shard
    count,      \* the count of each mailbox
    woken,      \* Signal::woken
    local,      \* how many runnables the shard's own queue and slot hold
    owed,       \* how many of them run before the future's next poll
    loop,       \* where the shard is in its loop
    zero,       \* its wait on the poller returns at once
    pc, what    \* where each poster is, and the change it posts

queues == <<inbox, posted, count, woken>>
shard  == <<local, owed, loop, zero>>
parkvars   == <<parked, notified, queues, shard, pc, what>>

ParkInit ==
    /\ parked = FALSE /\ notified = FALSE
    /\ inbox = 0 /\ posted = [m \in Mailboxes |-> <<>>] /\ count = [m \in Mailboxes |-> 0]
    /\ woken = TRUE /\ local = 0 /\ owed = 0 /\ loop = "top" /\ zero = FALSE
    /\ pc = [p \in Posters |-> "idle"]
    /\ what = [p \in Posters |-> <<"io", "loud">>]

-----------------------------------------------------------------------------
(* The posters.                                                            *)

Goes(p, x) == pc' = [pc EXCEPT ![p] = x]

\* Shared::push_remote: the head's swap, then the look whether the shard parks.
push_remote(p) ==
    /\ pc[p] = "idle" /\ inbox < MaxQueued
    /\ inbox' = inbox + 1
    /\ Goes(p, "load")
    /\ UNCHANGED <<parked, notified, posted, count, woken, shard, what>>

\* Signal::wake_by_ref.
wake_future(p) ==
    /\ pc[p] = "idle"
    /\ woken' = TRUE
    /\ Goes(p, "load")
    /\ UNCHANGED <<parked, notified, inbox, posted, count, shard, what>>

\* post_timer and post_io: Counted::push puts the change in the queue, ...
post(p, m, loud) ==
    /\ pc[p] = "idle" /\ Len(posted[m]) < MaxQueued
    /\ loud = "quiet" => Quiet /\ m = "timer"
    /\ posted' = [posted EXCEPT ![m] = Append(@, loud)]
    /\ what' = [what EXCEPT ![p] = <<m, loud>>]
    /\ Goes(p, "count")
    /\ UNCHANGED <<parked, notified, inbox, count, woken, shard>>

\* ... then counts it, and a removal wakes nobody.
post_count(p) ==
    /\ pc[p] = "count"
    /\ count' = [count EXCEPT ![what[p][1]] = @ + 1]
    /\ Goes(p, IF what[p][2] = "loud" THEN "load" ELSE "idle")
    /\ UNCHANGED <<parked, notified, inbox, posted, woken, shard, what>>

\* ParkState::wake: the waker that swaps `parked` back to false notifies.
wake_load(p) ==
    /\ pc[p] = "load"
    /\ Goes(p, IF parked THEN "swap" ELSE "idle")
    /\ UNCHANGED <<parked, notified, queues, shard, what>>

wake_swap(p) ==
    /\ pc[p] = "swap"
    /\ parked' = FALSE
    /\ Goes(p, IF parked THEN "notify" ELSE "idle")
    /\ UNCHANGED <<notified, queues, shard, what>>

wake_notify(p) ==
    /\ pc[p] = "notify"
    /\ notified' = TRUE
    /\ Goes(p, "idle")
    /\ UNCHANGED <<parked, queues, shard, what>>

-----------------------------------------------------------------------------
(* The shard.                                                              *)

\* Mutant: the queue is emptied, whatever was counted.
TakeWhole ==
    /\ posted' = [m \in Mailboxes |-> <<>>]
    /\ count' = [m \in Mailboxes |-> 0]

\* Counted::take_all, of every mailbox: as many changes as were counted.
TakePosted ==
    /\ posted' = [m \in Mailboxes |-> SubSeq(posted[m], count[m] + 1, Len(posted[m]))]
    /\ count' = [m \in Mailboxes |-> 0]

\* Code the shard runs (a task, a timer that fires, IO that completes) may wake
\* tasks of the shard, whose runnables go to its own queue, ...
WakesTasks(least) == local' \in least..MaxLocal

\* Mutant: the shard's own wake of its future does not look whether it parks.
WakesFutureOnly ==
    \/ UNCHANGED <<woken, parked, notified>>
    \/ woken' = TRUE /\ UNCHANGED <<parked, notified>>

\* ... and its future, on its own thread: Signal::wake_by_ref all the same.
WakesFuture ==
    \/ UNCHANGED <<woken, parked, notified>>
    \/ woken' = TRUE /\ parked' = FALSE /\ notified' = (notified \/ parked)

\* The top of the loop: the future is polled if it was woken, and lets the tasks
\* queued now run first if it woke itself.
poll_future ==
    /\ loop = "top" /\ woken /\ owed = 0
    /\ woken' \in BOOLEAN /\ WakesTasks(local)
    /\ owed' = IF woken' THEN local' ELSE 0
    /\ loop' = "next"
    /\ UNCHANGED <<parked, notified, inbox, posted, count, zero, pc, what>>

no_poll ==
    /\ loop = "top" /\ ~(woken /\ owed = 0)
    /\ loop' = "next"
    /\ UNCHANGED <<parked, notified, queues, local, owed, zero, pc, what>>

\* Mutant: a runnable is taken from a queue that may hold none.
RunUnlooked ==
    /\ loop = "next"
    /\ WakesTasks(local - 1) /\ (woken' = woken \/ woken' = TRUE)
    /\ owed' = IF owed > 0 THEN owed - 1 ELSE 0
    /\ loop' \in {"top", "look"}
    /\ UNCHANGED <<parked, notified, inbox, posted, count, zero, pc, what>>

\* A runnable runs; the driver gets a look every so many runs.
run_local ==
    /\ loop = "next" /\ local > 0
    /\ WakesTasks(local - 1) /\ (woken' = woken \/ woken' = TRUE)
    /\ owed' = IF owed > 0 THEN owed - 1 ELSE 0
    /\ loop' \in {"top", "look"}
    /\ UNCHANGED <<parked, notified, inbox, posted, count, zero, pc, what>>

run_remote ==
    /\ loop = "next" /\ inbox > 0
    /\ inbox' = inbox - 1
    /\ WakesTasks(local) /\ (woken' = woken \/ woken' = TRUE)
    /\ owed' = IF owed > 0 THEN owed - 1 ELSE 0
    /\ loop' \in {"top", "look"}
    /\ UNCHANGED <<parked, notified, posted, count, zero, pc, what>>

\* Nothing to run (a push between its swap and its link is not there yet): the
\* posted changes are applied and the due timers fired.
apply_ops ==
    /\ loop = "next" /\ local = 0
    /\ TakePosted /\ WakesTasks(0) /\ WakesFuture
    /\ owed' = 0
    /\ loop' = "check"
    /\ UNCHANGED <<inbox, zero, pc, what>>

check_again ==
    /\ loop = "check"
    /\ \/ (local > 0 \/ woken) /\ loop' \in {"top", "look"}
       \/ ~(local > 0 \/ woken) /\ loop' = "spin"
    /\ UNCHANGED <<parked, notified, queues, local, owed, zero, pc, what>>

\* drive(ZERO): a look at the poller between tasks.
drive_look ==
    /\ loop = "look"
    /\ TakePosted /\ WakesTasks(local)
    /\ (woken' = woken \/ woken' = TRUE) /\ notified' = FALSE
    /\ loop' = "top"
    /\ UNCHANGED <<parked, inbox, owed, zero, pc, what>>

\* The spin ends at work, or IO that completes, or not, or is not made.
spin ==
    /\ loop = "spin"
    /\ \/ /\ inbox > 0 \/ woken \/ (\E m \in Mailboxes : count[m] > 0)
          /\ loop' = "top" /\ UNCHANGED local
       \/ loop' = "top" /\ WakesTasks(1)
       \/ loop' = "say" /\ UNCHANGED local
    /\ UNCHANGED <<parked, notified, queues, owed, zero, pc, what>>

\* ParkState::begin_park: the shard says it parks, then looks for work again.
begin_park ==
    /\ loop = "say"
    /\ parked' = TRUE
    /\ loop' = "tasks"
    /\ UNCHANGED <<notified, queues, local, owed, zero, pc, what>>

\* Mutant: the last look is not at the inbox.
LookAtPostedOnly ==
    /\ loop \in {"tasks", "timers", "sources", "future"}
    /\ loop' = CASE loop = "tasks"   -> "timers"
               [] loop = "timers"  -> (IF count["timer"] > 0 THEN "back" ELSE "sources")
               [] loop = "sources" -> (IF count["io"] > 0 THEN "back" ELSE "future")
               [] loop = "future"  -> (IF woken THEN "back" ELSE "drive")
    /\ UNCHANGED <<parked, notified, queues, local, owed, zero, pc, what>>

\* has_remote_work, then the future's flag.
look_again ==
    /\ loop \in {"tasks", "timers", "sources", "future"}
    /\ loop' = CASE loop = "tasks"   -> (IF inbox > 0 THEN "back" ELSE "timers")
               [] loop = "timers"  -> (IF count["timer"] > 0 THEN "back" ELSE "sources")
               [] loop = "sources" -> (IF count["io"] > 0 THEN "back" ELSE "future")
               [] loop = "future"  -> (IF woken THEN "back" ELSE "drive")
    /\ UNCHANGED <<parked, notified, queues, local, owed, zero, pc, what>>

back_out ==
    /\ loop = "back"
    /\ parked' = FALSE
    /\ loop' \in {"top", "look"}
    /\ UNCHANGED <<notified, queues, local, owed, zero, pc, what>>

\* drive(None): the changes are applied, the due timers fired, and the wait is
\* over at once if that woke a task.
drive ==
    /\ loop = "drive"
    /\ TakePosted /\ WakesTasks(0) /\ WakesFuture
    /\ zero' = (local' > 0)
    /\ loop' = "wait"
    /\ UNCHANGED <<inbox, owed, pc, what>>

\* The wait ends at a notification, or with it at once, ...
wait_ends ==
    /\ loop = "wait" /\ (zero \/ notified)
    /\ notified' = FALSE /\ zero' = FALSE
    /\ WakesTasks(local) /\ (woken' = woken \/ woken' = TRUE)
    /\ loop' = "end"
    /\ UNCHANGED <<parked, inbox, posted, count, owed, pc, what>>

\* ... or at IO, or at the next timer's deadline.
wait_event ==
    /\ loop = "wait"
    /\ zero' = FALSE
    /\ WakesTasks(local) /\ (woken' = woken \/ woken' = TRUE)
    /\ loop' = "end"
    /\ UNCHANGED <<parked, notified, inbox, posted, count, owed, pc, what>>

end_park ==
    /\ loop = "end"
    /\ parked' = FALSE
    /\ loop' = "top"
    /\ UNCHANGED <<notified, queues, local, owed, zero, pc, what>>

-----------------------------------------------------------------------------

PosterGoesOn(p) == post_count(p) \/ wake_load(p) \/ wake_swap(p) \/ wake_notify(p)

Poster(p) ==
    \/ push_remote(p) \/ wake_future(p)
    \/ \E m \in Mailboxes, l \in {"loud", "quiet"} : post(p, m, l)
    \/ PosterGoesOn(p)

ShardStep == poll_future \/ no_poll \/ run_local \/ run_remote \/ apply_ops
             \/ check_again \/ drive_look \/ spin \/ begin_park \/ look_again
             \/ back_out \/ drive \/ wait_ends \/ end_park

ParkNext == ShardStep \/ wait_event \/ \E p \in Posters : Poster(p)

ParkSpec == ParkInit /\ [][ParkNext]_parkvars

\* The shard's thread runs and a thread that began a post ends it.  No IO and no
\* timer need come.
ParkFair == ParkSpec /\ WF_parkvars(ShardStep) /\ \A p \in Posters : WF_parkvars(PosterGoesOn(p))

-----------------------------------------------------------------------------
(* Properties.                                                             *)

\* The variables have their types.
ParkTypeOK ==
    /\ parked \in BOOLEAN /\ notified \in BOOLEAN /\ woken \in BOOLEAN /\ zero \in BOOLEAN
    /\ inbox \in Nat /\ local \in Nat /\ owed \in Nat
    /\ posted \in [Mailboxes -> Seq({"loud", "quiet"})] /\ count \in [Mailboxes -> Nat]
    /\ loop \in {"top", "next", "check", "look", "spin", "say", "tasks", "timers",
                 "sources", "future", "back", "drive", "wait", "end"}
    /\ pc \in [Posters -> {"idle", "count", "load", "swap", "notify"}]
    /\ what \in [Posters -> Mailboxes \X {"loud", "quiet"}]

Sleeps == loop = "wait" /\ ~zero /\ ~notified

\* What other threads handed the shard and it has not taken.  (With Quiet a
\* mailbox may hold a removal that nobody wakes the shard for.)
HandedWork ==
    inbox > 0 \/ woken \/ (~Quiet /\ \E m \in Mailboxes : posted[m] # <<>>)

\* Someone is about to notify the shard.
WakeComes ==
    \/ \E p \in Posters : pc[p] = "notify"
    \/ parked /\ \E p \in Posters : \/ pc[p] \in {"load", "swap"}
                                    \/ pc[p] = "count" /\ what[p][2] = "loud"

\* No wake is lost (rt/handshake.rs): a shard asleep with no notification has
\* nothing ready in its own queue, and no task in its inbox, no change in a
\* mailbox and no wake of its future, unless a thread is about to notify it.
NoLostWake == Sleeps => local = 0 /\ (HandedWork => WakeComes)

\* An arm request wakes the shard, which may sleep past its deadline otherwise
\* (Shared::post_timer).
ArmWakes ==
    Sleeps /\ (\E k \in 1..Len(posted["timer"]) : posted["timer"][k] = "loud") => WakeComes

\* The posters that put a change in m and have not counted it yet.
Uncounted(m) == {p \in Posters : pc[p] = "count" /\ what[p][1] = m}

\* The count of a mailbox never exceeds the changes in it: it lags by the pushes
\* under way (shard/counted.rs).
CountLags ==
    \A m \in Mailboxes : Len(posted[m]) = count[m] + Cardinality(Uncounted(m))

\* A shard that sleeps with work handed to it wakes in the end.
Waits == loop = "wait"
SleepEnds == (Waits /\ HandedWork) ~> ~Waits
=============================================================================
