------------------------------ MODULE TaskList ------------------------------
(***************************************************************************)
(* The lists of live tasks (rt/task/list.rs) and who may edit them: a      *)
(* shard's runner lists a task at its first poll that returned pending and *)
(* unlists it as its future is dropped; a thread that lost the shard in a  *)
(* poll posts the edit to the shard's mailbox (rt/shard/list_op.rs,        *)
(* rt/sched.rs); a shard that stops drops what is queued and cancels what  *)
(* is listed, pass after pass (rt/shard/ending.rs, going.rs).  `kind` says *)
(* whose list it is: a shard's, or a home's, whose bound tasks are listed  *)
(* from their spawn and touched on the home's thread only                  *)
(* (rt/handoff/home.rs).                                                   *)
(*                                                                         *)
(* The links are pointers: `next` and `prev` of every task and of the two  *)
(* heads, the list's own and the one a walk keeps aside.                   *)
(***************************************************************************)
EXTENDS Integers, Sequences, FiniteSets, SequencesExt

CONSTANTS Tasks,        \* the tasks spawned
          None,         \* the null pointer
          Kinds,        \* whose list: a subset of {"shard", "home"}
          MaxTakes,     \* how often the monitor takes the shard in a poll
          MaxPanics     \* how many wakers of awaiters panic in a walk

VARIABLES kind, links,
          st,           \* of each task: "new", "queue", "way" (its runnable pushed, not yet
                        \* in), "running", "settling", "ends", "drops", "cancelled",
                        \* "idle", "done"
          closed, woken,
          lost,         \* the tasks whose poll runs on a thread that lost the shard
          posts, phase, pass, dropped, cur, waits, left, takes, panics

vars == <<kind, links, st, closed, woken, lost, posts, phase, pass, dropped, cur, waits,
          left, takes, panics>>
shard == <<kind, phase, pass, dropped, cur, left, takes, panics>>
task == <<closed, woken, lost>>

Heads == {"list", "waiting"}
Nodes == Tasks \cup Heads

\* TaskList::new, Links::new.
Unlinked == [prev |-> [n \in Nodes |-> None], next |-> [n \in Nodes |-> None]]

Init ==
    /\ kind \in Kinds
    /\ links = Unlinked
    /\ st = [t \in Tasks |-> "new"]
    /\ closed = {} /\ woken = {} /\ lost = {}
    /\ posts = <<>>
    /\ phase = "runs" /\ pass = "none" /\ dropped = FALSE /\ cur = None
    /\ waits = FALSE /\ left = 0 /\ takes = 0 /\ panics = 0

-----------------------------------------------------------------------------
(* The links. *)

is_listed(l, t) == l.next[t] # None

unlink(l, t) ==
    [prev |-> [l.prev EXCEPT ![l.next[t]] = l.prev[t]],
     next |-> [[l.next EXCEPT ![l.prev[t]] = l.next[t]] EXCEPT ![t] = None]]

\* push: at the front of the list of head h, which points at itself once used.
push(l, h, t) ==
    LET first == IF l.next[h] = None THEN h ELSE l.next[h]
    IN  [prev |-> [[l.prev EXCEPT ![t] = h] EXCEPT ![first] = t],
         next |-> [[l.next EXCEPT ![t] = first] EXCEPT ![h] = t]]

\* A home's list is edited as a shard's, with plain writes.
unlink_home(l, t) == unlink(l, t)
push_home(l, t) == push(l, "list", t)

\* The node n links past head h, as the walks of len and first see it.
After(l, h) ==
    LET at[n \in 0..(Cardinality(Tasks) + 1)] ==
            IF n = 0 THEN h
            ELSE IF l.next[at[n - 1]] = None THEN h ELSE l.next[at[n - 1]]
    IN  at
len(l, h) ==
    LET back == {n \in 1..(Cardinality(Tasks) + 1) : After(l, h)[n] = h}
    IN  (CHOOSE n \in back : \A m \in back : n <= m) - 1
order(l, h) == [n \in 1..len(l, h) |-> After(l, h)[n]]
is_empty(l, h) == l.next[h] \in {None, h}
first_of(l, h) == IF is_empty(l, h) THEN None ELSE l.next[h]

\* Back: what the walk only closed goes back to the list.
Back(l) == FoldLeft(LAMBDA m, t : push(unlink(m, t), "list", t), l, order(l, "waiting"))

\* forget_all: every task off the list.
forget_all(l) == FoldLeft(LAMBDA m, t : unlink(m, t), l, order(l, "list"))

-----------------------------------------------------------------------------
(* The posted edits. *)

\* IoOp::gone, ListOp::late: the list was walked for the last time; a task to list is
\* closed, an idle one's future dropped here.
LateForgets(s, op) == s
late(s, op) ==
    IF op[1] = "unlist" \/ s.st[op[2]] = "done" THEN s
    ELSE [st |-> [s.st EXCEPT ![op[2]] = IF @ = "idle" /\ op[2] \notin s.closed THEN "done"
                                          ELSE @],
          closed |-> s.closed \cup {op[2]}]

\* post_io: an op posted once the mailbox closed is let go of by its poster.
post_io(op, s) ==
    IF phase = "closed"
    THEN LET gone == late(s, op)
         IN  st' = gone.st /\ closed' = gone.closed /\ posts' = posts
    ELSE st' = s.st /\ closed' = s.closed /\ posts' = Append(posts, op)

\* TaskRef::is_open.
is_open(t) == st[t] # "done" /\ t \notin closed

apply(l, op) ==
    IF op[1] = "list"
    THEN IF is_open(op[2]) /\ ~is_listed(l, op[2]) THEN push(l, "list", op[2]) ELSE l
    ELSE IF is_listed(l, op[2]) THEN unlink(l, op[2]) ELSE l

\* apply_list_ops, and what a turn of the driver applies.
apply_list_ops ==
    /\ links' = FoldLeft(apply, links, posts)
    /\ posts' = <<>>

drives ==
    /\ phase = "runs" /\ posts # <<>>
    /\ apply_list_ops
    /\ UNCHANGED <<st, task, shard, waits>>

-----------------------------------------------------------------------------
(* A task's life. *)

\* task_ended: a home's last task tells whoever waits for the home to drain.
task_ended(l) == waits' = (waits /\ ~is_empty(l, "list"))

\* drop_future by the thread that owns the list: off the list, then dropped.
Dropped(l, t) ==
    LET off == IF ~is_listed(l, t) THEN l
               ELSE IF kind = "home" THEN unlink_home(l, t) ELSE unlink(l, t)
    IN  /\ links' = off
        /\ IF kind = "home" THEN task_ended(off) ELSE waits' = waits
        /\ st' = [st EXCEPT ![t] = "done"]
        /\ woken' = woken \ {t}

\* spawn: queued; a bound task is listed from now on.
spawn(t) ==
    /\ st[t] = "new" /\ phase = "runs"
    /\ st' = [st EXCEPT ![t] = "queue"]
    /\ links' = IF kind = "home" THEN push_home(links, t) ELSE links
    /\ UNCHANGED <<task, shard, posts, waits>>

Polled == {t \in Tasks : st[t] = "running" /\ t \notin lost}

\* The runner polls t; a task found closed is dropped in place of the poll (end_queued).
polls(t) ==
    /\ st[t] = "queue" /\ phase = "runs" /\ Polled = {}
    /\ IF t \in closed THEN Dropped(links, t) /\ UNCHANGED <<closed, lost>>
       ELSE /\ st' = [st EXCEPT ![t] = "running"]
            /\ UNCHANGED <<task, links, waits>>
    /\ UNCHANGED <<shard, posts>>

\* The monitor takes the shard in the poll: another thread runs it, this one finishes.
takes_shard(t) ==
    /\ t \in Polled /\ kind = "shard" /\ takes < MaxTakes /\ phase = "runs"
    /\ lost' = lost \cup {t}
    /\ takes' = takes + 1
    /\ UNCHANGED <<kind, links, st, closed, woken, posts, phase, pass, dropped, cur, waits,
                   left, panics>>

\* Where a poll that returned pending leaves its task: closed meanwhile (the run drops the
\* future, unlisting it first), woken meanwhile, or idle.
Settled(t) ==
    IF t \in closed THEN "ends" ELSE IF t \in woken THEN "queue" ELSE "idle"

\* pending and what follows, on the runner's thread: listed at the first pending poll.
pending(t) ==
    /\ t \in Polled
    /\ LET l == IF kind = "shard" /\ ~is_listed(links, t) THEN push(links, "list", t)
                ELSE links
       IN  IF t \in closed THEN Dropped(l, t)
           ELSE /\ links' = l /\ waits' = waits
                /\ st' = [st EXCEPT ![t] = Settled(t)]
                /\ woken' = woken \ {t}
    /\ UNCHANGED <<closed, lost, shard, posts>>

ready(t) ==
    /\ t \in Polled
    /\ Dropped(links, t)
    /\ UNCHANGED <<closed, lost, shard, posts>>

\* list: the thread that lost the shard posts the edit to its owner.
list_posts(t) ==
    /\ t \in lost /\ st[t] = "running"
    /\ LET s == [st |-> [st EXCEPT ![t] = "settling"], closed |-> closed]
       IN  IF is_listed(links, t) THEN st' = s.st /\ UNCHANGED <<closed, posts>>
           ELSE post_io(<<"list", t>>, s)
    /\ UNCHANGED <<links, woken, lost, shard, waits>>
lost_settles(t) ==
    /\ t \in lost /\ st[t] = "settling"
    /\ st' = [st EXCEPT ![t] = Settled(t)]
    /\ woken' = woken \ {t}
    /\ lost' = IF t \in closed THEN lost ELSE lost \ {t}
    /\ UNCHANGED <<links, closed, posts, shard, waits>>

\* drop_future on such a thread: a look at the links, then unlist's post, then the drop.
lost_ready(t) ==
    /\ t \in lost /\ st[t] = "running"
    /\ st' = [st EXCEPT ![t] = "ends"]
    /\ UNCHANGED <<links, task, posts, shard, waits>>
unlist_looks(t) ==
    /\ t \in lost /\ st[t] = "ends"
    /\ IF is_listed(links, t)
       THEN post_io(<<"unlist", t>>, [st |-> [st EXCEPT ![t] = "drops"], closed |-> closed])
       ELSE st' = [st EXCEPT ![t] = "drops"] /\ UNCHANGED <<closed, posts>>
    /\ UNCHANGED <<links, woken, lost, shard, waits>>
lost_drops(t) ==
    /\ t \in lost /\ st[t] = "drops"
    /\ st' = [st EXCEPT ![t] = "done"]
    /\ lost' = lost \ {t} /\ woken' = woken \ {t}
    /\ UNCHANGED <<links, closed, posts, shard, waits>>

\* Any thread wakes the task: an idle one's runnable is pushed to its shard or its home.
wake(t) ==
    /\ t \notin closed
    /\ \/ st[t] = "idle" /\ st' = [st EXCEPT ![t] = "way"] /\ woken' = woken
       \/ /\ st[t] \in {"running", "settling"} /\ t \notin woken
          /\ woken' = woken \cup {t} /\ st' = st
    /\ UNCHANGED <<links, closed, lost, posts, shard, waits>>

\* A handle cancels it: an idle one is scheduled once more, to be dropped where it runs.
cancel(t) ==
    /\ t \notin closed /\ st[t] \in {"queue", "way", "running", "settling", "idle"}
    /\ closed' = closed \cup {t}
    /\ st' = [st EXCEPT ![t] = IF @ = "idle" THEN "way" ELSE @]
    /\ UNCHANGED <<links, woken, lost, posts, shard, waits>>

\* The push is in.  Once the shard let its inbox go, the pusher drops the runnable itself:
\* unlist_off posts without a look at the links.
pushed(t) ==
    /\ st[t] = "way"
    /\ IF kind = "shard" /\ phase \in {"released", "closed"}
       THEN post_io(<<"unlist", t>>, [st |-> [st EXCEPT ![t] = "done"],
                                      closed |-> closed \cup {t}])
       ELSE st' = [st EXCEPT ![t] = "queue"] /\ UNCHANGED <<closed, posts>>
    /\ UNCHANGED <<links, woken, lost, shard, waits>>

-----------------------------------------------------------------------------
(* The end of the tasks. *)

Begins(p) ==
    /\ phase' = p /\ pass' = "queues" /\ dropped' = FALSE

\* The shard stops: a worker ends its tasks first, then goes; a thread's own goes.
stops ==
    /\ phase = "runs" /\ Polled = {}
    /\ \/ Begins("ending")
       \/ kind = "shard" /\ Begins("going")
    /\ UNCHANGED <<kind, links, st, task, posts, cur, waits, left, takes, panics>>

\* drop_queued and the drain of the inbox: each runnable is dropped, its task closed.
drop_queued(t) ==
    /\ pass = "queues" /\ st[t] = "queue"
    /\ Dropped(links, t)
    /\ closed' = closed \cup {t}
    /\ dropped' = TRUE
    /\ UNCHANGED <<kind, lost, posts, phase, pass, cur, left, takes, panics>>

end_tasks_lists ==
    /\ pass = "queues" /\ \A t \in Tasks : st[t] # "queue"
    /\ phase \in {"ending", "going"}
    /\ apply_list_ops
    /\ pass' = "cancel"
    /\ UNCHANGED <<kind, st, task, phase, dropped, cur, waits, left, takes, panics>>

\* cancel_all: the first task of the list is closed; an idle one's runnable comes back, any
\* other is kept aside.
cancel_all(t) ==
    /\ pass = "cancel" /\ cur = None /\ t = first_of(links, "list")
    /\ closed' = IF st[t] = "done" THEN closed ELSE closed \cup {t}
    /\ IF st[t] = "idle" /\ t \notin closed
       THEN cur' = t /\ st' = [st EXCEPT ![t] = "cancelled"] /\ links' = links
       ELSE /\ links' = push(unlink(links, t), "waiting", t)
            /\ UNCHANGED <<cur, st>>
    /\ UNCHANGED <<kind, woken, lost, posts, phase, pass, dropped, waits, left, takes, panics>>

cancel_drops ==
    /\ cur # None
    /\ Dropped(links, cur)
    /\ cur' = None /\ dropped' = TRUE
    /\ UNCHANGED <<kind, closed, lost, posts, phase, pass, left, takes, panics>>
cancel_unwinds ==
    /\ cur # None /\ phase = "ending" /\ kind = "shard" /\ panics < MaxPanics
    /\ links' = Back(unlink(links, cur))
    /\ waits' = waits
    /\ st' = [st EXCEPT ![cur] = "done"]
    /\ woken' = woken \ {cur}
    /\ cur' = None /\ panics' = panics + 1
    /\ Begins("going")
    /\ UNCHANGED <<kind, closed, lost, posts, left, takes>>

\* The walk is over.  A shard's pass that dropped something is made again; then a worker's
\* shard is dropped, and a shard that goes forgets what is listed.
cancel_ends ==
    /\ kind = "shard" /\ pass = "cancel" /\ cur = None /\ first_of(links, "list") = None
    /\ pass' = "queues"
    /\ phase' = CASE dropped -> phase
                 [] ~dropped /\ phase = "ending" -> "going"
                 [] OTHER -> "forgot"
    /\ links' = IF phase' = "forgot" THEN forget_all(Back(links)) ELSE Back(links)
    /\ dropped' = FALSE
    /\ UNCHANGED <<kind, st, task, posts, cur, waits, left, takes, panics>>

\* Home::cancel_all: done once the home is idle, else another round; past its deadline it
\* says how many it leaves.
home_cancel_ends ==
    /\ kind = "home" /\ pass = "cancel" /\ cur = None /\ first_of(links, "list") = None
    /\ links' = Back(links)
    /\ \/ is_empty(links', "list") /\ phase' = "closed" /\ pass' = "none" /\ left' = left
       \/ ~is_empty(links', "list") /\ pass' = "queues" /\ UNCHANGED <<phase, left>>
       \/ /\ ~is_empty(links', "list")
          /\ phase' = "closed" /\ pass' = "none" /\ left' = len(links', "list")
    /\ dropped' = FALSE
    /\ UNCHANGED <<kind, st, task, posts, cur, waits, takes, panics>>

\* release_inbox: its last drain is over.
release_inbox ==
    /\ phase = "forgot" /\ \A t \in Tasks : st[t] # "queue"
    /\ phase' = "released" /\ pass' = "none"
    /\ UNCHANGED <<kind, links, st, task, posts, dropped, cur, waits, left, takes, panics>>

\* close_io: what the mailbox holds is let go of.
close_io ==
    /\ phase = "released"
    /\ LET s == FoldLeft(late, [st |-> st, closed |-> closed], posts)
       IN  st' = s.st /\ closed' = s.closed
    /\ posts' = <<>> /\ phase' = "closed"
    /\ UNCHANGED <<kind, links, woken, lost, pass, dropped, cur, waits, left, takes, panics>>

\* poll_drained: a thread that lost its shard waits for its home's tasks.
poll_drained ==
    /\ kind = "home" /\ phase = "runs" /\ Polled = {}
    /\ ~is_empty(links, "list") /\ ~waits
    /\ waits' = TRUE
    /\ UNCHANGED <<links, st, task, posts, shard>>

Next ==
    \/ \E t \in Tasks :
        \/ spawn(t) \/ polls(t) \/ takes_shard(t) \/ pending(t) \/ ready(t)
        \/ list_posts(t) \/ lost_settles(t) \/ lost_ready(t) \/ unlist_looks(t)
        \/ lost_drops(t) \/ wake(t) \/ cancel(t) \/ pushed(t)
        \/ drop_queued(t) \/ cancel_all(t)
    \/ drives \/ stops \/ end_tasks_lists \/ cancel_drops \/ cancel_unwinds \/ cancel_ends
    \/ home_cancel_ends \/ release_inbox \/ close_io \/ poll_drained

Spec == Init /\ [][Next]_vars

-----------------------------------------------------------------------------

OnRing(h) == {After(links, h)[n] : n \in 1..(Cardinality(Tasks) + 1)} \ Heads

(* The links stay one well-formed ring per list whatever order the walk of cancel_all, the  *)
(* code its drops run, the posted edits and an unwind come in: every listed task is on       *)
(* exactly one ring, each node's neighbours point back at it, and no task is left on the      *)
(* ring of a walk that is over.                                                              *)
ListsWhole ==
    /\ \A t \in Tasks : is_listed(links, t) <=>
                            Cardinality({h \in Heads : t \in OnRing(h)}) = 1
    /\ \A n \in Nodes : links.next[n] # None =>
                            /\ links.prev[links.next[n]] = n
                            /\ links.next[links.prev[n]] = n
    /\ pass # "cancel" => is_empty(links, "waiting")

(* A task whose future is gone, and whose memory its last reference frees, is on no list,    *)
(* unless the edit that takes it off, which holds a reference, is still in the mailbox.      *)
NoneDangling ==
    \A t \in Tasks : st[t] = "done" /\ is_listed(links, t) =>
        \E i \in DOMAIN posts : posts[i] = <<"unlist", t>>

(* A shard that went leaves no task idle: each was dropped, or was closed and is ended by    *)
(* whoever holds its runnable; a home that went at its deadline says how many it left, and    *)
(* leaves only closed tasks whose wake is on its way; and who waits for a home to drain       *)
(* still has a task to wait for.                                                             *)
NoneForgotten ==
    /\ phase = "closed" => \A t \in Tasks :
        st[t] \notin {"new", "done"} => t \in closed \/ t \in lost \/ st[t] = "way"
    /\ phase = "closed" => left = len(links, "list")
    /\ waits /\ phase = "runs" => ~is_empty(links, "list")

------------------------------------------------------------------------------
(***************************************************************************)
(* join_set.rs: a set of tasks joined in the order they finish.  Each slot *)
(* keeps one waker for every member it holds; a wake queues the slot (once *)
(* per `queued`) and wakes the set's awaiter.  Tasks end on other threads. *)
(*                                                                         *)
(* `pc[t]` is where the thread that ends task t stands in the wake of the  *)
(* slot's waker it took, `set` where the set's own thread stands.  A push  *)
(* on the ready queue is the inbox's: a swap of the tail, then the link;   *)
(* until it is linked a pop finds the queue busy.                          *)
(***************************************************************************)

CONSTANTS
    SetTasks,
    MaxDetaches,  \* bound: calls of detach_all
    MaxTries  \* bound: calls of try_join_next

VARIABLES slots, free, wakes, set_ready, awaiter, set, set_task, pc, joined,
          answered, detaches, tries
set_vars == <<slots, free, wakes, set_ready, awaiter, set, set_task, pc, joined,
          answered, detaches, tries>>

Idle == [at |-> "idle", left |-> 0, wake |-> 0, try |-> FALSE, due |-> FALSE]

\* JoinSet::new. `awaiter` is "none", "here" (a task's waker, not woken yet),
\* "noop" or "woken".
SetInit ==
  /\ slots = <<>>
  /\ free = <<>>
  /\ wakes = <<>>
  /\ set_ready = <<>>
  /\ awaiter = "none"
  /\ set = Idle
  /\ set_task = [t \in SetTasks |-> [state |-> "new", waker |-> 0]]
  /\ pc = [t \in SetTasks |-> [at |-> "idle", wake |-> 0]]
  /\ joined = {}
  /\ answered = "no"
  /\ detaches = 0
  /\ tries = 0

members == {slots[s].member : s \in DOMAIN slots} \ {None}

set_len == Cardinality({s \in DOMAIN slots : slots[s].member # None})

set_is_empty == set_len = 0

Woken == IF awaiter = "here" THEN "woken" ELSE awaiter

Queue(w) == Append(set_ready, [wake |-> w, linked |-> TRUE])

\* insert: the member goes to a free slot, or to a new one with its waker, and the
\* slot is queued unless a stale wake queued it already.
Placed(t, s, w, slots1, wakes1) ==
  /\ slots' = [slots1 EXCEPT ![s].member = t]
  /\ wakes' = [wakes1 EXCEPT ![w].queued = TRUE]
  /\ set_ready' = IF wakes1[w].queued THEN set_ready ELSE Queue(w)

InsertReused(t) ==
  /\ free # <<>>
  /\ LET s == Last(free) IN Placed(t, s, slots[s].wake, slots, wakes)
  /\ free' = Front(free)

InsertNew(t) ==
  /\ free = <<>>
  /\ LET s == Len(slots) + 1
         w == Len(wakes) + 1
     IN  Placed(t, s, w, Append(slots, [wake |-> w, member |-> None]),
                Append(wakes, [slot |-> s, queued |-> FALSE]))
  /\ UNCHANGED free

insert(t) ==
  /\ set.at = "idle"
  /\ set_task[t].state = "new"
  /\ InsertReused(t) \/ InsertNew(t)
  /\ set_task' = [set_task EXCEPT ![t].state = "runs"]
  /\ answered' = "no"
  /\ UNCHANGED <<awaiter, set, pc, joined, detaches, tries>>

(***************************************************************************)
(* poll_join_next: the awaiter is registered, then each woken slot is      *)
(* taken and its member polled, at most `len` of them.  `due` records that *)
(* a member had ended, its wake over, when the call began.                 *)
(***************************************************************************)
Due == \E t \in members : set_task[t].state = "ended" /\ pc[t].at = "idle"

SetBegins(try) ==
  IF set_is_empty
  THEN /\ answered' = "none"
       /\ UNCHANGED <<set, awaiter>>
  ELSE /\ set' = [at |-> "pop", left |-> set_len, wake |-> 0, try |-> try, due |-> Due]
       /\ awaiter' = IF try THEN "noop" ELSE "here"
       /\ answered' = "no"

poll_join_next ==
  /\ set.at = "idle"
  /\ answered # "pending" \/ awaiter = "woken"
  /\ SetBegins(FALSE)
  /\ UNCHANGED <<slots, free, wakes, set_ready, set_task, pc, joined, detaches, tries>>

\* try_join_next: the same poll with a waker that does nothing.
try_join_next ==
  /\ set.at = "idle"
  /\ tries < MaxTries
  /\ tries' = tries + 1
  /\ SetBegins(TRUE)
  /\ UNCHANGED <<slots, free, wakes, set_ready, set_task, pc, joined, detaches>>

Pends == IF ~set.try THEN "pending" ELSE IF set.due THEN "missed" ELSE "nothing"

\* The queue is empty or busy: the poll pends.
pop_none ==
  /\ set.at = "pop"
  /\ set.left > 0
  /\ IF set_ready = <<>> THEN TRUE ELSE ~Head(set_ready).linked
  /\ set' = Idle
  /\ answered' = Pends
  /\ UNCHANGED <<slots, free, wakes, set_ready, awaiter, set_task, pc, joined, detaches, tries>>

\* A slot's waker comes off the queue.
pop ==
  /\ set.at = "pop"
  /\ set.left > 0
  /\ set_ready # <<>>
  /\ Head(set_ready).linked
  /\ set_ready' = Tail(set_ready)
  /\ set' = [set EXCEPT !.at = "clear", !.wake = Head(set_ready).wake, !.left = @ - 1]
  /\ UNCHANGED <<slots, free, wakes, awaiter, set_task, pc, joined, answered, detaches, tries>>

\* The slot of a waker the set still has, with a member in it.
Held(w) ==
  LET s == wakes[w].slot IN
    s \in DOMAIN slots /\ slots[s].wake = w /\ slots[s].member # None

\* `queued` is cleared before the member is looked at; a stale waker is passed over.
clear ==
  /\ set.at = "clear"
  /\ wakes' = [wakes EXCEPT ![set.wake].queued = FALSE]
  /\ set' = [set EXCEPT !.at = IF Held(set.wake) THEN "look" ELSE "pop"]
  /\ UNCHANGED <<slots, free, set_ready, awaiter, set_task, pc, joined, answered, detaches, tries>>

Member == slots[wakes[set.wake].slot].member

Ready ==
  /\ slots' = [slots EXCEPT ![wakes[set.wake].slot].member = None]
  /\ free' = Append(free, wakes[set.wake].slot)
  /\ joined' = joined \union {Member}
  /\ answered' = "some"
  /\ set' = Idle

\* Join::poll, external here: a task that ended answers; otherwise the waker is
\* registered and the task looked at again.
look ==
  /\ set.at = "look"
  /\ IF set_task[Member].state = "ended"
     THEN Ready /\ UNCHANGED set_task
     ELSE /\ set_task' = [set_task EXCEPT ![Member].waker = set.wake]
          /\ set' = [set EXCEPT !.at = "again"]
          /\ UNCHANGED <<slots, free, joined, answered>>
  /\ UNCHANGED <<wakes, set_ready, awaiter, pc, detaches, tries>>

look_again ==
  /\ set.at = "again"
  /\ IF set_task[Member].state = "ended"
     THEN Ready
     ELSE /\ set' = [set EXCEPT !.at = "pop"]
          /\ UNCHANGED <<slots, free, joined, answered>>
  /\ UNCHANGED <<wakes, set_ready, awaiter, set_task, pc, detaches, tries>>

\* Every look found an unfinished member: the caller is woken to come back.
yields ==
  /\ set.at = "pop"
  /\ set.left = 0
  /\ awaiter' = Woken
  /\ answered' = Pends
  /\ set' = Idle
  /\ UNCHANGED <<slots, free, wakes, set_ready, set_task, pc, joined, detaches, tries>>

\* detach_all: slots and queue go, and the tasks run on.  The drain waits out the
\* pushes under way.
detach_all ==
  /\ set.at = "idle"
  /\ detaches < MaxDetaches
  /\ slots # <<>>
  /\ detaches' = detaches + 1
  /\ slots' = <<>>
  /\ free' = <<>>
  /\ \A i \in DOMAIN set_ready : set_ready[i].linked
  /\ set_ready' = <<>>
  /\ answered' = "no"
  /\ UNCHANGED <<wakes, awaiter, set, set_task, pc, joined, tries>>

(***************************************************************************)
(* A task ends, by itself or cancelled (abort_all, shutdown), on its own   *)
(* thread: it takes the waker registered with it and wakes it.             *)
(***************************************************************************)
ends(t) ==
  /\ set_task[t].state = "runs"
  /\ set_task' = [set_task EXCEPT ![t] = [state |-> "ended", waker |-> 0]]
  /\ pc' = [pc EXCEPT ![t] = IF set_task[t].waker = 0 THEN @
                             ELSE [at |-> "swap", wake |-> set_task[t].waker]]
  /\ UNCHANGED <<slots, free, wakes, set_ready, awaiter, set, joined, answered, detaches, tries>>

\* SlotWake::wake_by_ref: the flag, then the queue's tail, its link, and the awaiter.
wake_queued(t) ==
  /\ pc[t].at = "swap"
  /\ wakes' = [wakes EXCEPT ![pc[t].wake].queued = TRUE]
  /\ pc' = [pc EXCEPT ![t].at = IF wakes[pc[t].wake].queued THEN "idle" ELSE "push"]
  /\ UNCHANGED <<slots, free, set_ready, awaiter, set, set_task, joined, answered, detaches, tries>>

wake_pushes(t) ==
  /\ pc[t].at = "push"
  /\ set_ready' = Append(set_ready, [wake |-> pc[t].wake, linked |-> FALSE])
  /\ pc' = [pc EXCEPT ![t].at = "link"]
  /\ UNCHANGED <<slots, free, wakes, awaiter, set, set_task, joined, answered, detaches, tries>>

wake_links(t) ==
  /\ pc[t].at = "link"
  /\ set_ready' = [i \in DOMAIN set_ready |-> IF set_ready[i].wake = pc[t].wake
                                      THEN [set_ready[i] EXCEPT !.linked = TRUE] ELSE set_ready[i]]
  /\ pc' = [pc EXCEPT ![t].at = "wake"]
  /\ UNCHANGED <<slots, free, wakes, awaiter, set, set_task, joined, answered, detaches, tries>>

wake_awaiter(t) ==
  /\ pc[t].at = "wake"
  /\ awaiter' = Woken
  /\ pc' = [pc EXCEPT ![t].at = "idle"]
  /\ UNCHANGED <<slots, free, wakes, set_ready, set, set_task, joined, answered, detaches, tries>>

SetStep == poll_join_next \/ try_join_next \/ pop_none \/ pop \/ clear \/ look
             \/ look_again \/ yields \/ detach_all

TaskStep(t) == ends(t) \/ wake_queued(t) \/ wake_pushes(t) \/ wake_links(t) \/ wake_awaiter(t)

SetNext ==
  \/ SetStep
  \/ \E t \in SetTasks : insert(t) \/ TaskStep(t)

SetSpec == SetInit /\ [][SetNext]_set_vars

(***************************************************************************)
(* Properties.                                                             *)
(***************************************************************************)
\* A join_next that pends with a member ended is woken: the awaiter was woken, or
\* the thread that ended a task is still on its way to it.
JoinerWoken ==
  answered = "pending" /\ awaiter = "here" /\ set.at = "idle"
  /\ (\E t \in members : set_task[t].state = "ended")
    => \E t \in SetTasks : pc[t].at # "idle"

\* A member that ended is found by the next looks: its slot is queued, a wake of its
\* slot is under way, or the set is looking at it.
EndedIsFound ==
  \A s \in DOMAIN slots :
    slots[s].member # None /\ set_task[slots[s].member].state = "ended" =>
      \/ \E i \in DOMAIN set_ready : set_ready[i].wake = slots[s].wake
      \/ \E t \in SetTasks : pc[t].at \in {"swap", "push"} /\ pc[t].wake = slots[s].wake
      \/ set.at # "idle" /\ set.wake = slots[s].wake

\* A slot is free or holds a member, never both, and a task is joined once, while it
\* is no longer in the set.
SlotsKept ==
  /\ \A s \in DOMAIN slots : (slots[s].member = None) = Contains(free, s)
  /\ IsInjective(free)
  /\ members \intersect joined = {}
  /\ \A s, r \in DOMAIN slots : slots[s].member = slots[r].member /\ s # r
       => slots[s].member = None
==============================================================================
