------------------------------ MODULE MCCore ------------------------------
(* A task, a shard's park, inbox and end, and the cells its wakes go       *)
(* through, on small instances, one at a time.                             *)
EXTENDS Sum, Park, ShardStop, AtomicWaker, Oneshot, Waiter

CONSTANTS Parts,  \* the parts a run covers
          a, b, c, d



Task == INSTANCE Task WITH
    Runners <- {a}, Wakers <- {b}, Awaiters <- {c}, Handle <- d,
    flags <- v1, refs <- v2, core <- v3, stored <- v4, named <- v5, freed <- v6,
    queued <- v7, held <- v8, pc <- v9, later <- v10, how <- v11, aw <- v12, seen <-
    v13, claimed <- v14, unclaimed <- v15, hw <- v16, told <- v17, hres <- v18,
    woken <- v19, panicked <- v20

Box == INSTANCE Inbox WITH
    Items <- {a, b, c}, Stub <- Stub, Null <- Null, Empty <- Empty, Busy <- Busy,
    next <- v1, head <- v2, tail <- v3, where <- v4, prev <- v5, popping <- v6, cur
    <- v7, q <- v8, answer <- v9

comps == <<parkvars, stopvars, cellvars, oneshotvars, nodevars>>
mcvars == <<allvars, comps>>

MCInit ==
    /\ on \in Parts
    /\ ParkInit /\ StopInit /\ CellInit /\ OneshotInit /\ NodeInit
    /\ \/ on = "task" /\ Task!Init /\ Zero20
       \/ on = "inbox" /\ Box!InboxInit /\ Zero9
       \/ on \in {"park", "stop", "waker", "oneshot", "waiter"} /\ v1 = 0 /\ Zero1

\* A task that is freed is over.
TaskEnds == on = "task" /\ Task!Freed /\ UNCHANGED mcvars

MCNext ==
    \/ on = "task" /\ Task!Next /\ UNCHANGED <<on, rest20, comps>>
    \/ on = "inbox" /\ Box!InboxNext /\ UNCHANGED <<on, rest9, comps>>
    \/ on = "park" /\ ParkNext /\ UNCHANGED <<allvars, stopvars, cellvars, oneshotvars, nodevars>>
    \/ on = "stop" /\ StopNext /\ UNCHANGED <<allvars, parkvars, cellvars, oneshotvars, nodevars>>
    \/ on = "waker" /\ CellNext /\ UNCHANGED <<allvars, parkvars, stopvars, oneshotvars, nodevars>>
    \/ on = "oneshot" /\ OneshotNext /\ UNCHANGED <<allvars, parkvars, stopvars, cellvars, nodevars>>
    \/ on = "waiter" /\ NodeNext /\ UNCHANGED <<allvars, parkvars, stopvars, cellvars, oneshotvars>>
    \/ TaskEnds

MCSpec == MCInit /\ [][MCNext]_mcvars

\* Every part is fair as its module has it, while it is the one that goes on.
taskvars == <<v1, v2, v3, v4, v5, v6, v7, v8, v9, v10, v11, v12, v13, v14, v15, v16, v17, v18, v19, v20>>
boxvars == <<v1, v2, v3, v4, v5, v6, v7, v8, v9>>

MCFairSpec ==
    /\ MCSpec
    /\ \A t \in {a, b, d} : WF_taskvars(on = "task" /\ Task!Step(t))
    /\ WF_taskvars(on = "task" /\ Task!RunStep(a)) /\ WF_taskvars(on = "task" /\ Task!RunnerTakes(a))
    /\ WF_taskvars(on = "task" /\ Task!HandleStep(d))
    /\ WF_parkvars(on = "park" /\ ShardStep) /\ \A p \in Posters : WF_parkvars(on = "park" /\ PosterGoesOn(p))
    /\ \A i \in {a, b, c} : WF_boxvars(on = "inbox" /\ Box!push_link(i))
    /\ WF_boxvars(on = "inbox" /\ Box!PopGoesOn) /\ WF_boxvars(on = "inbox" /\ ~Box!is_drained /\ Box!pop_first)
    /\ \A i \in Items : WF_stopvars(on = "stop" /\ Pusher(i))
    /\ WF_stopvars(on = "stop" /\ (Thread(Shard) \/ inbox_released))
    /\ WF_stopvars(on = "stop" /\ poll_settled) /\ WF_stopvars(on = "stop" /\ settled)
    /\ \A t \in Tasks : WF_cellvars(on = "waker" /\ TaskStep(t))
    /\ \A w \in WakingThreads : WF_cellvars(on = "waker" /\ Takes(w))
    /\ WF_oneshotvars(on = "oneshot" /\ TxGoesOn) /\ WF_oneshotvars(on = "oneshot" /\ RxGoesOn)
    /\ WF_oneshotvars(on = "oneshot" /\ RxPolled) /\ WF_oneshotvars(on = "oneshot" /\ TxPolled)
    /\ SF_oneshotvars(on = "oneshot" /\ RxPolledThrough)
    /\ WF_nodevars(on = "waiter" /\ FutureGoesOn) /\ WF_nodevars(on = "waiter" /\ retry_lost)
    /\ WF_nodevars(on = "waiter" /\ put) /\ WF_nodevars(on = "waiter" /\ release_queued)
    /\ WF_nodevars(on = "waiter" /\ WakeListGoesOn) /\ WF_nodevars(on = "waiter" /\ PollWoken)

-----------------------------------------------------------------------------
(* Properties, besides those of the modules extended here.                 *)

\* What is awaited comes: a task woken is polled and one nobody holds is freed, a
\* shard with work wakes, an item pushed is handed out, a
\* runtime's drop is answered, a task finds what it waited for, a value sent is
\* received, a node granted and let go of is back in its pool.
Awaited == \/ on = "task" /\ (Task!WokenOpen \/ Task!Unheld)
           \/ on = "park" /\ Waits /\ HandedWork
           \/ on = "inbox" /\ Box!Inside(a)
           \/ on = "stop" /\ WritesEnded
           \/ on = "waker" /\ IsReady
           \/ on = "oneshot" /\ SentTo
           \/ on = "waiter" /\ LetGo

There == \/ on = "task" /\ ~Task!Repolls /\ (Task!Freed \/ ~Task!Unheld)
         \/ on = "park" /\ ~Waits
         \/ on = "inbox" /\ ~Box!Inside(a)
         \/ on = "stop" /\ Answered
         \/ on = "waker" /\ Found
         \/ on = "oneshot" /\ ReceivedOrClosed
         \/ on = "waiter" /\ Pooled

Comes == Awaited ~> There
=============================================================================
