------------------------------ MODULE ShardStop -----------------------------
(***************************************************************************)
(* A shard that stops, its inbox, and the threads that still wake its      *)
(* tasks (push_remote, drop_stopped, release_inbox and settled of          *)
(* rt/shard.rs, the end of a shard in rt/shard/going.rs).                  *)
(*                                                                         *)
(* The inbox is the one of module Inbox, step by step; its taker's role is *)
(* the word `taken`.  Each item is a task that a thread named after it     *)
(* wakes once; the threads of Writers end a file write with that wake.     *)
(* While the shard runs it alone holds the role.  Once it stopped, a       *)
(* pusher drops the runnable it pushed itself, unless another thread has   *)
(* the role.  A runtime's drop meanwhile polls `settled`.                  *)
(***************************************************************************)
EXTENDS Inbox, FiniteSets

CONSTANTS
    Writers,    \* the items woken by a file write issued on the shard
    Shard       \* the shard's own thread

ASSUME ThreadsDiffer ==
    Writers \subseteq Items /\ IsFiniteSet(Writers) /\ Shard \notin Nodes \cup {Null}

Threads == Items \cup {Shard}

VARIABLES
    taken,      \* who holds the taker's role (Null: nobody)
    stopped, released,
    writes,     \* file writes issued on the shard and not ended
    at,         \* where each thread is
    held,       \* the runnable the taker popped and has still to run or drop
    outcome,    \* of each task: waiting, ran or dropped
    look,       \* where the runtime's drop is in its poll of `settled`
    nudged      \* it was woken since it registered

svars == <<taken, stopped, released, writes, at, held, outcome, look, nudged>>
stopvars == <<inboxvars, svars>>

StopInit ==
    /\ InboxInit
    /\ taken = Shard /\ stopped = FALSE /\ released = FALSE /\ writes = Cardinality(Writers)
    /\ at = [t \in Threads |-> IF t = Shard THEN "run" ELSE "push"]
    /\ held = Null /\ outcome = [i \in Items |-> "waiting"]
    /\ look = "off" /\ nudged = FALSE

ThreadAt(t, a) == at' = [at EXCEPT ![t] = a]

-----------------------------------------------------------------------------
(* A thread that wakes a task of the shard.                                *)

push_begin(i) ==
    /\ at[i] = "push" /\ push_swap(i) /\ ThreadAt(i, "link")
    /\ UNCHANGED <<taken, stopped, released, writes, held, outcome, look, nudged>>

push_ends(i) ==
    /\ at[i] = "link" /\ push_link(i) /\ ThreadAt(i, "look")
    /\ UNCHANGED <<taken, stopped, released, writes, held, outcome, look, nudged>>

\* A push that finds the shard running wakes it, and is done.
look_stopped(i) ==
    /\ at[i] = "look"
    /\ ThreadAt(i, IF stopped THEN "take" ELSE "ended")
    /\ UNCHANGED <<inboxvars, taken, stopped, released, writes, held, outcome, look, nudged>>

\* Mutant: the last write to end tells nobody.
WriteEndsSilently(i) ==
    /\ at[i] = "ended" /\ i \in Items /\ ThreadAt(i, "gone")
    /\ writes' = IF i \in Writers THEN writes - 1 ELSE writes
    /\ UNCHANGED <<inboxvars, taken, stopped, released, held, outcome, look, nudged>>

\* The wake is over; a file write's count goes down after it, and the last one
\* tells a stopped shard's runtime.
write_ended(i) ==
    /\ at[i] = "ended" /\ i \in Items /\ ThreadAt(i, "gone")
    /\ \/ /\ i \in Writers /\ writes' = writes - 1
          /\ nudged' = (nudged \/ (writes = 1 /\ stopped))
       \/ i \notin Writers /\ UNCHANGED <<writes, nudged>>
    /\ UNCHANGED <<inboxvars, taken, stopped, released, held, outcome, look>>

-----------------------------------------------------------------------------
(* drop_stopped, by any thread t.                                          *)

try_take(t) ==
    /\ at[t] = "take"
    /\ \/ taken = Null /\ taken' = t /\ ThreadAt(t, "drain")
       \/ taken # Null /\ ThreadAt(t, "ended") /\ UNCHANGED taken
    /\ UNCHANGED <<inboxvars, stopped, released, writes, held, outcome, look, nudged>>

\* One access of a pop by the role's holder.  A drain goes on until the pop says
\* Empty; the going shard's own loop stops at Busy too, and its running loop
\* never.
pop(t) ==
    /\ at[t] \in {"run", "drop", "drain"} /\ taken = t /\ held = Null
    /\ pop_first \/ PopGoesOn
    /\ held' = IF popping' = "idle" /\ answer' \in Items THEN answer' ELSE Null
    /\ ThreadAt(t, IF popping' # "idle" \/ answer' \in Items THEN at[t]
                   ELSE IF at[t] = "drain" /\ answer' = Empty THEN "release"
                   ELSE IF at[t] = "drop" THEN "drain" ELSE at[t])
    /\ UNCHANGED <<taken, stopped, released, writes, outcome, look, nudged>>

\* Mutant: a popped runnable is forgotten.
ForgetRunnable(t) ==
    /\ taken = t /\ held # Null /\ held' = Null
    /\ UNCHANGED <<inboxvars, taken, stopped, released, writes, at, outcome, look, nudged>>

\* The popped runnable runs, or is dropped where the shard stopped.
hand_on(t) ==
    /\ taken = t /\ held # Null
    /\ outcome' = [outcome EXCEPT ![held] = IF at[t] = "run" THEN "ran" ELSE "dropped"]
    /\ held' = Null
    /\ UNCHANGED <<inboxvars, taken, stopped, released, writes, at, look, nudged>>

release(t) ==
    /\ at[t] = "release" /\ taken' = Null /\ ThreadAt(t, "again")
    /\ UNCHANGED <<inboxvars, stopped, released, writes, held, outcome, look, nudged>>

\* Mutant: a drainer lets go without another look.
AgainNever(t) ==
    /\ at[t] = "again" /\ ThreadAt(t, "ended") /\ nudged' = TRUE
    /\ UNCHANGED <<inboxvars, taken, stopped, released, writes, held, outcome, look>>

\* is_empty, and nudge_runtime once nothing is seen.
look_back(t) ==
    /\ at[t] = "again"
    /\ \/ head = Stub /\ ThreadAt(t, "ended") /\ nudged' = TRUE
       \/ head # Stub /\ ThreadAt(t, "take") /\ UNCHANGED nudged
    /\ UNCHANGED <<inboxvars, taken, stopped, released, writes, held, outcome, look>>

-----------------------------------------------------------------------------
(* The shard's own thread.                                                 *)

\* Another thread stops the shard (a runtime's shutdown).
stop ==
    /\ ~stopped /\ stopped' = TRUE
    /\ UNCHANGED <<inboxvars, taken, released, writes, at, held, outcome, look, nudged>>

\* The shard is dropped, between two tasks: no wake from now on finds it running.
go ==
    /\ at[Shard] = "run" /\ held = Null /\ popping = "idle"
    /\ stopped' = TRUE /\ ThreadAt(Shard, "drop")
    /\ UNCHANGED <<inboxvars, taken, released, writes, held, outcome, look, nudged>>

\* release_inbox: its drain is over.
inbox_released ==
    /\ at[Shard] = "ended" /\ released' = TRUE /\ ThreadAt(Shard, "gone")
    /\ UNCHANGED <<inboxvars, taken, stopped, writes, held, outcome, look, nudged>>

-----------------------------------------------------------------------------
(* The runtime's drop, which stopped the shard, and polls `settled` of it. *)

\* The poll registers first.
poll_settled ==
    /\ stopped
    /\ look = "off" \/ (look = "pending" /\ nudged)
    /\ look' = "writes" /\ nudged' = FALSE
    /\ UNCHANGED <<inboxvars, taken, stopped, released, writes, at, held, outcome>>

\* Mutant: the inbox is not looked at.
SettledByWrites ==
    \/ look = "writes" /\ look' = IF writes = 0 THEN "released" ELSE "pending"
    \/ look = "released" /\ look' = IF released THEN "settled" ELSE "early"
    \/ look = "taken" /\ look' = "settled"
    \/ look = "empty" /\ look' = "settled"

\* Its loads, in order.  A shard that has its inbox still is not waited for.
SettledLoads ==
    \/ look = "writes" /\ look' = IF writes = 0 THEN "released" ELSE "pending"
    \/ look = "released" /\ look' = IF released THEN "taken" ELSE "early"
    \/ look = "taken" /\ look' = IF taken = Null THEN "empty" ELSE "pending"
    \/ look = "empty" /\ look' = IF head = Stub THEN "settled" ELSE "pending"

settled == SettledLoads /\ UNCHANGED <<inboxvars, taken, stopped, released, writes,
                                       at, held, outcome, nudged>>

-----------------------------------------------------------------------------
Thread(t) == \/ try_take(t) \/ pop(t) \/ hand_on(t) \/ release(t) \/ look_back(t)

Pusher(i) == push_ends(i) \/ look_stopped(i) \/ write_ended(i) \/ Thread(i)

Gone == \A t \in Threads : at[t] = "gone"

\* Every wake came and the shard went.
Over == Gone /\ UNCHANGED stopvars

StopNext ==
    \/ \E i \in Items : push_begin(i) \/ Pusher(i)
    \/ Thread(Shard) \/ stop \/ go \/ inbox_released
    \/ poll_settled \/ settled
    \/ Over

StopSpec == StopInit /\ [][StopNext]_stopvars

\* Every thread goes on: a pusher's steps after its first are its own code's, the
\* shard's loop and its end run on its thread, and the runtime's drop polls when
\* it is woken.  A wake, a stop and the shard's drop need not come.
StopFair ==
    /\ StopSpec
    /\ \A i \in Items : WF_stopvars(Pusher(i))
    /\ WF_stopvars(Thread(Shard) \/ inbox_released)
    /\ WF_stopvars(poll_settled) /\ WF_stopvars(settled)

-----------------------------------------------------------------------------
(* Properties.                                                             *)

\* The variables have their types.
StopTypeOK ==
    /\ InboxTypeOK
    /\ taken \in Threads \cup {Null} /\ held \in Items \cup {Null}
    /\ stopped \in BOOLEAN /\ released \in BOOLEAN /\ nudged \in BOOLEAN
    /\ writes \in 0..Cardinality(Writers)
    /\ at \in [Threads -> {"push", "link", "look", "ended", "gone", "take",
                           "run", "drop", "drain", "release", "again"}]
    /\ outcome \in [Items -> {"waiting", "ran", "dropped"}]
    /\ look \in {"off", "writes", "released", "taken", "empty", "pending",
                 "settled", "early"}

\* "A push that found the role held is not left": while a runnable is in the
\* inbox, the shard has not let go of it, or a thread holds the role, or one is
\* still to look (drop_stopped).
NotLeft ==
    q # <<>> => \/ at[Shard] \notin {"ended", "gone"} \/ taken # Null
                \/ \E t \in Items : at[t] \in {"link", "look", "take", "again"}

\* A task woken on the shard is run or dropped once: it waits exactly while its
\* wake is to come, it is in the inbox, or its taker has it in hand.
HandedOnOnce ==
    \A i \in Items :
        outcome[i] = "waiting" <=> \/ at[i] = "push" \/ where[i] # "out" \/ held = i

\* The answer a runtime's drop waits for leaves no task unattended: one that a
\* write's wake pushed is dropped, or a thread is dropping it.
SettledIsAttended ==
    look = "settled" => \A w \in Writers : outcome[w] = "waiting" => taken # Null

\* The three together: no task woken on a shard that stops is left or handed on
\* twice, and the answer its runtime's drop waits for leaves none unattended.
StopSafe == NotLeft /\ HandedOnOnce /\ SettledIsAttended

\* "once the shard let go of its inbox, every task woken since was dropped (the
\* inbox is empty and nobody drains it) ... so a task a write's wake left to
\* another thread's drain is seen": the answer comes with every task a write
\* woke dropped.
SettledIsDropped ==
    look = "settled" => \A w \in Writers : outcome[w] # "waiting"

\* A runtime's drop that polls its stopped shard is not left waiting once the
\* shard's writes ended: the last write to end and every drain nudge it.
WritesEnded == look = "writes" /\ \A w \in Writers : at[w] # "push"
Answered == look \in {"settled", "early"}
SettledComes == WritesEnded ~> Answered
=============================================================================
