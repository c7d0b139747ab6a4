------------------------------ MODULE MCSync ------------------------------
(* The primitives of src/sync on small instances, one at a time.           *)
EXTENDS Sum, OnceCell

CONSTANTS Parts,  \* the parts a run covers
          RxTask, x1, x2, x3, x4

\* What the tasks of the lock ask for, the losses before a handoff, and the acquires in all
Asks(a, b, c, losses, n) == [may |-> (x1 :> a) @@ (x2 :> b) @@ (x3 :> c), max_bypass |-> losses, asks |-> n]
Askers == {Asks({"upgradable", "upgrade", "drop"}, {"read", "drop"}, {"read", "write", "drop"}, 2, 3),
           Asks({"write", "drop"}, {"read", "drop"}, {"write", "upgradable", "drop"}, 2, 3),
           Asks({"write"}, {"upgradable"}, {"read"}, 1, 4)}

\* The channels: their kind, what the receiver calls, the second sender's handle and what it asks for
Channel(kind, does, handle, asks, sends) ==
    [kind |-> kind, calls |-> does, handle |-> (x1 :> "strong") @@ (x2 :> handle),
     asks |-> (x1 :> {"send"}) @@ (x2 :> asks), sends |-> sends]
Channels ==
    {Channel("bounded", {"recv"}, "strong", {"reserve_many"}, 1), Channel("bounded", {"try", "close"}, "strong", {"reserve_many"}, 1),
     Channel("bounded", {"recv", "close"}, "strong", {"send_timeout", "try_send"}, 1),
     Channel("bounded", {"recv", "many", "try", "drop"}, "strong", {"reserve_owned"}, 1),
     Channel("bounded", {"recv"}, "strong",
             {"send_timeout", "reserve", "try_send", "try_reserve", "try_reserve_many", "try_reserve_owned"}, 1),
     Channel("unbounded", {"recv", "close"}, "strong", {}, 1), Channel("unbounded", {"recv", "weak"}, "weak", {}, 2),
     Channel("unbounded", {"recv", "clone"}, "none", {}, 1), Channel("unbounded", {"many", "try", "drop"}, "strong", {}, 1)}

Gate == INSTANCE Event WITH
    Tasks <- {x1, x2, x3}, n <- 2, MaxArrivals <- 5, MaxCalls <- 2,
    flags <- v1, arrivals <- v2, list <- v3, node <- v4, woken <- v5, drain <- v6,
    at <- v7, barrier_at <- v7, arrived <- v8, listed <- v9, current <- v10, fresh
    <- v11, of <- v12, value <- v8, slot <- v9, turn <- v10, closed <- v11, in <-
    v12, got <- v13, calls <- v14

Note == INSTANCE Notify WITH
    Tasks <- {x1, x2}, FULL <- 2, TAGS <- 8, MaxCalls <- 2, Kinds <- {"first",
    "last", "all"}, Nodes <- {x1, x2, x3}, Root <- x1, Threads <- {x1, x2},
    MaxCancels <- 1,
    flags <- v1, arrivals <- v2, list <- v3, node <- v4, woken <- v5, drain <- v6,
    generation <- v7, owed <- v8, at <- v9, of <- v10, call <- v11, turn <- v12,
    fresh <- v13, calls <- v14, asked <- v15, done <- v16, parent <- v1, alive <-
    v2, handle <- v3, is_set <- v4, children <- v5, token_at <- v6, token_node <-
    v7, stack <- v8, found <- v9, base <- v10, owes <- v11, cancels <- v12

Hold == INSTANCE Guards WITH
    Guards <- {x1, x2, x3}, Places <- {x1, x2, x3}, MAX <- 3, First <- 2, Amounts <-
    {0, 1, 2}, MaxAdds <- 2, Total <- 3, MutexOwners <- {x1, x2}, MutexRequests <-
    {x2, x3, x4}, MutexOwnerOf <- (x2 :> x1) @@ (x3 :> x1) @@ (x4 :> x2),
    MutexMaxDepth <- 2, RwOwners <- {x1, x2}, RwRequests <- {x1, x2, x3, x4},
    RwOwnerOf <- (x1 :> x1) @@ (x2 :> x1) @@ (x3 :> x2) @@ (x4 :> x2), KindOf <- (x1
    :> "read") @@ (x2 :> "write") @@ (x3 :> "write") @@ (x4 :> "read"), RwMaxDepth
    <- 2, Tasks <- {x1, x2, x3}, max_readers <- 1, Casts <- Askers,
    permit <- v1, readers <- v2, writer <- v3, upgradable <- v4, guard <- v5, at <-
    v6, arcs <- v7, available <- v1, isClosed <- v2, permit_at <- v3, n <- v4, total
    <- v5, adds <- v6, mutex_permit <- v1, holder <- v2, depth <- v3, mutex_at <-
    v4, mutex_queued <- v5, mutex_armed <- v6, guards <- v7, shares <- v1, locked <-
    v2, rw_writer <- v3, write_depth <- v4, reads <- v5, rw_at <- v6, rw_queued <-
    v7, rw_armed <- v8, rguards <- v9, wguards <- v10, flags <- v1, arrivals <- v2,
    list <- v3, node <- v4, woken <- v5, drain <- v6, lock_readers <- v7, held <-
    v8, lock_at <- v9, lock_kind <- v10, bypass <- v11, nudged <- v12, owed <- v13,
    took <- v14, lock_upgrade <- v15, front <- v16, lock_asks <- v17, cast <- v18,
    skipped <- v19

Mpsc == INSTANCE Mpsc WITH
    Tasks <- {x1, x2}, Casts <- Channels, Bound <- 2, MaxPolls <- 2, MayPanic <-
    TRUE, MayYield <- TRUE, Rx <- RxTask, Senders <- {x1, x2}, CELLS <- 1, FAN <- 2,
    WINDOW <- 4, MaxPushes <- 3, RadixMayPanic <- TRUE,
    flags <- v1, arrivals <- v2, list <- v3, node <- v4, woken <- v5, drain <- v6,
    avail <- v7, set_aside <- v8, cast <- v9, cells <- v10, stash <- v11, rx_waker
    <- v12, rx_waiting <- v13, rx_closed <- v14, tx_count <- v15, tx_weak <- v16,
    handle <- v17, pc <- v18, then <- v19, op <- v20, permits <- v21, sent <- v22,
    got <- v23, rx <- v24, polls <- v25, rx_awake <- v26, ended <- v27, tail <- v1,
    level <- v2, made <- v3, retired <- v4, radix_ready <- v5, head <- v6, ahead <-
    v7, leaf <- v8, radix_stash <- v9, diverted <- v10, radix_pc <- v11, pos <- v12,
    pushes <- v13, rpc <- v14, seek <- v15, found <- v16, end <- v17, radix_value <-
    v18, radix_out <- v19, before <- v20

Fan == INSTANCE Fanout WITH
    WatchSenders <- {x1, x2}, WatchReceivers <- {x3}, WatchMaxSends <- 2, MaxCalls
    <- 2, CastSenders <- {x1, x2}, CastReceivers <- {x3, x4}, cast_capacity <- 2,
    Casts <- {{x1, x2, x3}, {x1, x3, x4}}, CastMaxSends <- 3, N <- 2, mesh_capacity
    <- 2, MeshMaxSends <- 5,
    value <- v1, version <- v2, CLOSED <- v3, watch_receivers <- v4, watch_senders
    <- v5, watch_toldRx <- v6, watch_toldTx <- v7, watch_tx <- v8, watch_rx <- v9,
    calls <- v10, slots <- v1, tail <- v2, isClosed <- v3, cast_receivers <- v4,
    cast_senders <- v5, weak <- v6, cast_toldRx <- v7, cast_toldTx <- v8, cast_tx <-
    v9, cast_rx <- v10, got <- v11, queue <- v1, mesh_senders <- v2, ended <- v3,
    mesh_next <- v4, armed <- v5, mesh_told <- v6, mesh_over <- v7, passed <- v8,
    sends <- v9

Near == INSTANCE LocalSync WITH
    Requests <- {x1, x2}, Kinds <- {"sem", "mutex", "bounded", "unbounded"}, First
    <- 1, Needs <- {1, 2}, MaxCalls <- 5, MaxDepth <- 3, MaxPanics <- 1, MaxPolls <-
    3, FrameCalls <- {x1, x2, x3}, Plain <- {x4}, Away <- {RxTask}, MaxTakes <- 2,
    kind <- v1, st <- v2, frames <- v3, bound <- v4, one_state <- v1, value <- v2,
    wakers <- v3, ends <- v4, one_got <- v5, reg <- v6, one_told <- v7, polls <- v8,
    stack <- v1, frame_line <- v2, granted <- v3, holder <- v4, header <- v5, takes
    <- v6

comps == <<cvars>>
mcvars == <<allvars, comps>>

MCInit ==
    /\ on \in Parts
    /\ Init
    /\ \/ on = "event" /\ Gate!Init /\ Zero7
       \/ on = "barrier" /\ Gate!BarrierInit /\ Zero12
       \/ on = "set_once" /\ Gate!OnceInit /\ Zero14
       \/ on = "notify" /\ Note!Init /\ Zero16
       \/ on = "token" /\ Note!TokenInit /\ Zero12
       \/ on = "rwlock" /\ Hold!LockInit /\ Zero19
       \/ on = "guards" /\ Hold!Init /\ Zero7
       \/ on = "permits" /\ Hold!PermitInit /\ Zero6
       \/ on = "mutex" /\ Hold!MutexInit /\ Zero7
       \/ on = "rw" /\ Hold!RwInit /\ Zero10
       \/ on = "mpsc" /\ Mpsc!Init
       \/ on = "radix" /\ Mpsc!RadixInit /\ Zero20
       \/ on = "watch" /\ Fan!WatchInit /\ Zero10
       \/ on = "broadcast" /\ Fan!CastInit /\ Zero11
       \/ on = "mesh" /\ Fan!MeshInit /\ Zero9
       \/ on = "local" /\ Near!Init /\ Zero4
       \/ on = "oneshot" /\ Near!OneInit /\ Zero8
       \/ on \in {"cell"} /\ v1 = 0 /\ Zero1

MCNext ==
    \/ on = "event" /\ Gate!Next /\ UNCHANGED <<on, rest7, comps>>
    \/ on = "barrier" /\ Gate!BarrierNext /\ UNCHANGED <<on, rest12, comps>>
    \/ on = "set_once" /\ Gate!OnceNext /\ UNCHANGED <<on, rest14, comps>>
    \/ on = "notify" /\ Note!Next /\ UNCHANGED <<on, rest16, comps>>
    \/ on = "token" /\ Note!TokenNext /\ UNCHANGED <<on, rest12, comps>>
    \/ on = "rwlock" /\ Hold!LockNext /\ UNCHANGED <<on, rest19, comps>>
    \/ on = "guards" /\ Hold!Next /\ UNCHANGED <<on, rest7, comps>>
    \/ on = "permits" /\ Hold!PermitNext /\ UNCHANGED <<on, rest6, comps>>
    \/ on = "mutex" /\ Hold!MutexNext /\ UNCHANGED <<on, rest7, comps>>
    \/ on = "rw" /\ Hold!RwNext /\ UNCHANGED <<on, rest10, comps>>
    \/ on = "mpsc" /\ Mpsc!Next /\ UNCHANGED <<on, comps>>
    \/ on = "radix" /\ Mpsc!RadixNext /\ UNCHANGED <<on, rest20, comps>>
    \/ on = "watch" /\ Fan!WatchNext /\ UNCHANGED <<on, rest10, comps>>
    \/ on = "broadcast" /\ Fan!CastNext /\ UNCHANGED <<on, rest11, comps>>
    \/ on = "mesh" /\ Fan!MeshNext /\ UNCHANGED <<on, rest9, comps>>
    \/ on = "local" /\ Near!Next /\ UNCHANGED <<on, rest4, comps>>
    \/ on = "oneshot" /\ Near!OneNext /\ UNCHANGED <<on, rest8, comps>>
    \/ on = "cell" /\ Next /\ UNCHANGED allvars

MCSpec == MCInit /\ [][MCNext]_mcvars

\* A lock is held by those its guards say hold it, a semaphore's permits are the
\* free ones and those its permits hold (sync/rwlock.rs, semaphore.rs,
\* reentrant_mutex.rs, reentrant_rwlock.rs, local/).
Excludes ==
    /\ on = "rwlock" => Hold!Excludes
    /\ on = "guards" => Hold!GuardsHold
    /\ on = "permits" => Hold!PermitsConserved
    /\ on = "mutex" => Hold!MutexHeldByGuards
    /\ on = "rw" => Hold!RwHeldByGuards
    /\ on = "local" => Near!PermitsConserved

\* Nobody waits for what it could have: a lock, a notification, an event, a
\* barrier's generation, a cell's value or a token's cancellation (sync/event.rs,
\* barrier.rs, set_once.rs, notify.rs, cancellation_token.rs and the locks).
NobodyStranded ==
    /\ on = "rwlock" => Hold!NobodyStranded
    /\ on = "mutex" => Hold!MutexSiblingsWoken
    /\ on = "rw" => Hold!RwSiblingsWoken
    /\ on = "event" => Gate!SetWaitsForNobody
    /\ on = "barrier" => Gate!TogetherOnly
    /\ on = "set_once" => Gate!ValueIsTold
    /\ on = "notify" => Note!BroadcastReaches /\ Note!NotificationKept
    /\ on = "token" => Note!CancelReaches /\ Note!ChildFollows
    /\ on = "local" => Near!NobodyStranded

\* No receiver sleeps past a value, a free place or an end it could have, and no
\* sender past a place (sync/mpsc, watch.rs, broadcast.rs, mesh.rs, local/oneshot.rs).
NobodySleepsPast ==
    /\ on = "mpsc" => Mpsc!NotLeft
    /\ on = "watch" => Fan!WatchNobodySleepsPast
    /\ on = "broadcast" => Fan!CastNobodySleepsPast
    /\ on = "mesh" => Fan!MeshNobodySleepsPast
    /\ on = "oneshot" => Near!OneshotTold

\* What a channel was given is accounted for: each value is handed out once, in
\* its sender's order, while it is there, and admitted while it is counted
\* (sync/mpsc/chan.rs, queue/radix.rs, watch.rs, broadcast.rs, mesh.rs, local/).
InOrder ==
    /\ on = "mpsc" => Mpsc!Admitted
    /\ on = "radix" => Mpsc!InOrder /\ Mpsc!NodesLive
    /\ on = "watch" => Fan!SeenIsSeen
    /\ on = "broadcast" => Fan!ValuesAccounted
    /\ on = "mesh" => Fan!NotPassedOver
    /\ on = "local" => Near!LocalFifo

\* The channels of sync/mpsc are the channel of module Channel.
IsChannel == /\ on = "mpsc" => Mpsc!Chan!Init
             /\ [][on = "mpsc" => Mpsc!ChanStep]_allvars
=============================================================================
