------------------------------ MODULE MCRuntime ------------------------------
(* The runtime around a shard on small instances, one part at a time: its  *)
(* threads and loops, its tasks' lists, its timers, its children.          *)
EXTENDS Sum

CONSTANTS Parts,  \* the parts a run covers
          None, Stub, Outside, Service, Waiter, x1, x2, x3, x4, x5,
          Kinds,    \* the ways a child's end is watched
          MaxMoves, \* bound: moves of a sleep to another shard
          Teams,    \* the crews, by number
          PoolThreads, \* the most threads of the blocking pool
          TimerShards, \* the shards of the sleeps
          Stays,    \* shards of a child's that do not stop
          TakesServing, \* a shard may be taken while it serves another runtime
          MaxTakes  \* bound: takes of a shard while a task of it is polled

\* The runtimes torn down: the handoff, the callers and their calls, the shutdowns
Crews == <<[handoff |-> FALSE, callers |-> {x1, x2}, calls |-> 3, timed |-> BOOLEAN, inside |-> TRUE],
           [handoff |-> TRUE, callers |-> {x1, x2}, calls |-> 2, timed |-> BOOLEAN, inside |-> TRUE],
           [handoff |-> TRUE, callers |-> {x1}, calls |-> 3, timed |-> {FALSE}, inside |-> FALSE]>>

Tasks == INSTANCE TaskList WITH
    Tasks <- {x1, x2}, Kinds <- {"shard", "home"}, MaxTakes <- MaxTakes, MaxPanics
    <- 1, SetTasks <- {x1, x2}, MaxDetaches <- 1, MaxTries <- 1,
    kind <- v1, links <- v2, st <- v3, closed <- v4, woken <- v5, lost <- v6, posts
    <- v7, phase <- v8, pass <- v9, dropped <- v10, cur <- v11, waits <- v12, left
    <- v13, takes <- v14, panics <- v15, slots <- v1, free <- v2, wakes <- v3,
    set_ready <- v4, awaiter <- v5, set <- v6, set_task <- v7, pc <- v8, joined <-
    v9, answered <- v10, detaches <- v11, tries <- v12

Loops == INSTANCE Runner WITH
    Threads <- {x1, x2}, First <- x1, TakesServing <- TakesServing, Drains <- TRUE,
    max <- 7, MaxTakes <- 2, Runtimes <- {x1, x2, x3}, Base <- x1, ShardKinds <-
    {"own", "watched", "unwatched"}, MaxDepth <- 5, MaxTimers <- 1,
    here <- v1, frames <- v2, mode <- v3, word <- v4, pins <- v5, claim <- v6, made
    <- v7, loans <- v8, lendq <- v9, detached <- v10, closed <- v11, draining <-
    v12, sk <- v1, stack <- v2, visit_current <- v3, serving <- v4, place <- v5,
    side <- v6, foreign_poll <- v7

Crew == INSTANCE Workers WITH
    Callers <- {x1, x2}, Monitor <- x5, N <- 2, min <- 1, Runners <- {x3}, MayFail
    <- TRUE, Casts <- {Crews[i]: i \in Teams}, MaxLive <- 1, LingerWorks <- {x1,
    x2}, Files <- {x1}, Shards <- {x3}, MaxTimeouts <- 1, Jobs <- {x1, x2}, Workers
    <- {x3, x5}, max_threads <- PoolThreads, Stub <- Stub,
    claimed <- v1, slots <- v2, running <- v3, draining <- v4, stopped <- v5, live
    <- v6, closed <- v7, list <- v8, thread <- v9, of <- v10, life <- v11, monitor
    <- v12, monitor_closed <- v13, watch <- v14, spares <- v15, pc <- v16, mine <-
    v17, down <- v18, joins <- v19, apart <- v20, how <- v21, late <- v22, calls <-
    v23, linger_at <- v1, linger_how <- v2, on <- v3, Guarded <- v4, active <- v5,
    list_woken <- v6, closing <- v7, over <- v8, linger_stopped <- v9, linger_drop
    <- v10, timeouts <- v11, files_out <- v12, exiting <- v13, exit <- v14,
    exit_woken <- v15, line <- v1, linked <- v2, taker <- v3, slot <- v4, named <-
    v5, index <- v6, pool_threads <- v7, idle <- v8, jobs <- v9, pool_at <- v10,
    pool_mine <- v11, scan <- v12, job <- v13, token <- v14, ran <- v15

Hand == INSTANCE Handoff WITH
    Threads <- {x1, x2}, First <- x1, MaxSlots <- 2, MaxEpoch <- 1, MaxBuffer <- 1,
    STREAK <- 1, full_fence <- FALSE,
    word <- v1, pins <- v2, claim <- v3, buffer <- v4, slot <- v5, epoch <- v6, at
    <- v7, way <- v8, parked <- v9, stopped <- v10, closed <- v11, made <- v12, mon
    <- v13, watch <- v14, gift <- v15, asleep <- v16, rung <- v17, spares <- v18,
    given <- v19, token <- v20, life <- v21, detached <- v22

Sleep == INSTANCE Sleep WITH
    Shards <- TimerShards, Sleeps <- {x3}, Outside <- Outside, MaxTime <- 2, UNIT <-
    2, MaxMoves <- MaxMoves, MaxCells <- 1, SLOT_BITS <- 1, LEVELS <- 2,
    WheelMaxTime <- 8, MaxEntries <- 2, MaxGen <- 2, Wakers <- {x1}, NoWaker <- None,
    clock <- v1, deadline <- v2, state <- v3, place <- v4, woken <- v5, pc <- v6, op
    <- v7, then <- v8, moves <- v9, made <- v10, cell <- v11, entries <- v12,
    elapsed <- v13, queue <- v14, count <- v15, stopped <- v16, at <- v17, parked <-
    v18, token <- v19, due <- v20, firing <- v21, taker <- v22, wheel <- v1, answer
    <- v2

Clock == INSTANCE Clock WITH
    Readers <- {x1}, Alterers <- {x2}, GRID <- 2, MaxSystem <- 3, MaxCalls <- 3,
    Workers <- {x1}, Guest <- x2, Pool <- x3, Arm <- x5, Comes <- TRUE, MaxTime <-
    2, MaxActs <- 2,
    system <- v1, ALTERED <- v2, altered <- v3, paused <- v4, base <- v5, skew <-
    v6, last <- v7, pc <- v8, call <- v9, mine <- v10, looked <- v11, calls <- v12,
    seen <- v13, floor <- v14, paused_base <- v1, advancing <- v2, jobs <- v3,
    detached <- v4, arms <- v5, timers <- v6, pushed <- v7, posted <- v8, timer_at
    <- v9, flag <- v10, at <- v11, joined <- v12, taken <- v13, armed <- v14,
    paused_pc <- v15, me <- v16, look <- v17, earliest <- v18, due <- v19, acts <-
    v20

Child == INSTANCE Exit WITH
    Workers <- {x1, x2}, Own <- x3, Stays <- Stays, Kinds <- Kinds, Shards <- {x1,
    x2}, SignalStays <- {x2}, Service <- Service, Listeners <- {x3}, Waiter <-
    Waiter, Casts <- {{x3}, {Waiter}}, MayFail <- TRUE, MaxSignals <- 2,
    kind <- v1, child <- v2, state <- v3, result <- v4, settled <- v5, watched <-
    v6, gone <- v7, waker <- v8, waits <- v9, live <- v10, posted <- v11, reg <-
    v12, cqe <- v13, at <- v14, next <- v15, handler <- v1, caught <- v2, raised <-
    v3, writing <- v4, fd <- v5, count <- v6, dispatched <- v7, seen <- v8,
    signal_waker <- v9, signal_at <- v10, spot <- v11, flag <- v12, pump <- v13, on
    <- v14, now <- v15, woken <- v16, drops <- v17, alive <- v18, signal_child <-
    v19, held <- v20, signals <- v21, failed <- v22

Near == INSTANCE LocalSync WITH
    Requests <- 0, Kinds <- 0, First <- 0, Needs <- 0, MaxCalls <- 0, MaxDepth <- 3,
    MaxPanics <- 0, MaxPolls <- 3, FrameCalls <- {x1, x2, x3}, Plain <- {x4}, Away
    <- {x5}, MaxTakes <- 2,
    kind <- v1, st <- v2, frames <- v3, bound <- v4, one_state <- v1, value <- v2,
    wakers <- v3, ends <- v4, one_got <- v5, reg <- v6, one_told <- v7, polls <- v8,
    stack <- v1, frame_line <- v2, granted <- v3, holder <- v4, header <- v5, takes
    <- v6

Init ==
    /\ on \in Parts
    /\ \/ on = "tasks" /\ Tasks!Init /\ Zero15
       \/ on = "joinset" /\ Tasks!SetInit /\ Zero12
       \/ on = "runner" /\ Loops!Init /\ Zero12
       \/ on = "foreign" /\ Loops!VisitInit /\ Zero7
       \/ on = "workers" /\ Crew!Init /\ Zero23
       \/ on = "linger" /\ Crew!LingerInit /\ Zero15
       \/ on = "pool" /\ Crew!PoolInit /\ Zero15
       \/ on = "handoff" /\ Hand!Init /\ Zero22
       \/ on = "sleep" /\ Sleep!Init /\ Zero22
       \/ on = "wheel" /\ Sleep!WheelInit /\ Zero2
       \/ on = "clock" /\ Clock!Init /\ Zero14
       \/ on = "paused" /\ Clock!PausedInit /\ Zero20
       \/ on = "exit" /\ Child!Init /\ Zero15
       \/ on = "signal" /\ Child!SignalInit /\ Zero22
       \/ on = "frames" /\ Near!FrameInit /\ Zero6

Next ==
    \/ on = "tasks" /\ Tasks!Next /\ UNCHANGED <<on, rest15>>
    \/ on = "joinset" /\ Tasks!SetNext /\ UNCHANGED <<on, rest12>>
    \/ on = "runner" /\ Loops!Next /\ UNCHANGED <<on, rest12>>
    \/ on = "foreign" /\ Loops!VisitNext /\ UNCHANGED <<on, rest7>>
    \/ on = "workers" /\ Crew!Next /\ UNCHANGED <<on, rest23>>
    \/ on = "linger" /\ Crew!LingerNext /\ UNCHANGED <<on, rest15>>
    \/ on = "pool" /\ Crew!PoolNext /\ UNCHANGED <<on, rest15>>
    \/ on = "handoff" /\ Hand!Next /\ UNCHANGED <<on, rest22>>
    \/ on = "sleep" /\ Sleep!Next /\ UNCHANGED <<on, rest22>>
    \/ on = "wheel" /\ Sleep!WheelNext /\ UNCHANGED <<on, rest2>>
    \/ on = "clock" /\ Clock!Next /\ UNCHANGED <<on, rest14>>
    \/ on = "paused" /\ Clock!PausedNext /\ UNCHANGED <<on, rest20>>
    \/ on = "exit" /\ Child!Next /\ UNCHANGED <<on, rest15>>
    \/ on = "signal" /\ Child!SignalNext /\ UNCHANGED <<on, rest22>>
    \/ on = "frames" /\ Near!FrameNext /\ UNCHANGED <<on, rest6>>

Spec == Init /\ [][Next]_allvars

\* Threads run, what was submitted to the kernel or to a thread's start comes about,
\* and a task woken is polled: the fairness each part's module states.  A behaviour
\* is of one part, so the steps of different parts share a condition.
OfWorkers == on = "workers" /\ UNCHANGED <<on, rest23>>
OfPool == on = "pool" /\ UNCHANGED <<on, rest15>>
OfHandoff == on = "handoff" /\ UNCHANGED <<on, rest22>>
OfSleep == on = "sleep" /\ UNCHANGED <<on, rest22>>
OfExit == on = "exit" /\ UNCHANGED <<on, rest15>>
OfFrames == on = "frames" /\ UNCHANGED <<on, rest6>>

Goes1 == \/ OfWorkers /\ Crew!Ends
         \/ OfPool /\ Crew!Steps(x1)
         \/ OfHandoff /\ Hand!Monitors
         \/ OfSleep /\ Sleep!Tick
         \/ OfExit /\ Child!Runs(x1)
         \/ OfFrames /\ Near!frame_release

Goes2 == \/ OfWorkers /\ Crew!deadline
         \/ OfPool /\ Crew!Steps(x2)
         \/ OfHandoff /\ Hand!Drain(x1)
         \/ OfSleep /\ Sleep!Inner(x1)
         \/ OfExit /\ Child!Runs(x2)
         \/ OfFrames /\ Near!frame_poll(x1)

Goes3 == \/ OfWorkers /\ Crew!Monitors
         \/ OfPool /\ Crew!Steps(x3)
         \/ OfHandoff /\ Hand!Drain(x2)
         \/ OfSleep /\ x2 \in TimerShards /\ Sleep!Inner(x2)
         \/ OfExit /\ Child!Runs(x3)
         \/ OfFrames /\ Near!frame_poll(x2)

Goes4 == \/ OfWorkers /\ Crew!Works(0)
         \/ OfPool /\ Crew!Steps(x5)
         \/ OfHandoff /\ Hand!Runs(x1)
         \/ OfSleep /\ Sleep!announce(x1)
         \/ OfExit /\ Child!kernel_ends(x1)
         \/ OfFrames /\ Near!frame_poll(x3)

Goes5 == \/ OfWorkers /\ Crew!Works(1)
         \/ OfHandoff /\ Hand!Runs(x2)
         \/ OfSleep /\ x2 \in TimerShards /\ Sleep!announce(x2)
         \/ OfExit /\ Child!kernel_ends(x2)
         \/ OfFrames /\ Near!plain_ends(x4)

Goes6 == \/ OfWorkers /\ Crew!Works(x3)
         \/ OfExit /\ Child!kernel_ends(x3)
         \/ OfFrames /\ Near!taken(x5)

Goes8 == \/ OfHandoff /\ Hand!heavy
         \/ OfSleep /\ Sleep!SleepStep(x3)
         \/ OfExit /\ Child!PollsAgain

Goes9 == OfHandoff /\ Hand!give

FairSpec == /\ Spec
            /\ WF_allvars(Goes1) /\ WF_allvars(Goes2) /\ WF_allvars(Goes3) /\ WF_allvars(Goes4)
            /\ WF_allvars(Goes5) /\ WF_allvars(Goes6)
            /\ SF_allvars(Goes8) /\ SF_allvars(Goes9)

-----------------------------------------------------------------------------
(* Properties.                                                             *)

\* One at a time: a shard is run by one thread, inside it one poll at a time, and a
\* child has one watcher and its signals are sent while it is ours
\* (rt/handoff, rt/shard/run.rs, process/exit.rs).
OneRunner ==
    /\ on = "handoff" => Hand!OneRunner /\ Hand!CountsSettle
    /\ on = "runner" => Loops!OneInside
    /\ on = "exit" => Child!OneWatcher /\ Child!SignalsOurs

\* What a loop found it puts back: the shard and value of its thread, the wheels,
\* and the loans it gave out (rt/shard/run.rs, foreign.rs).
Restored ==
    /\ on = "runner" => Loops!ValueKept /\ Loops!Restored /\ Loops!LoanKept
    /\ on = "foreign" => Loops!RightWheels /\ Loops!AsideCounted

\* Nothing the runtime owes is forgotten: a task of a list, a member of a set, an
\* operation of a socket that lingers, a job of the pool, a thread to end, a status
\* or a signal to report (rt/task/list.rs, rt/join_set.rs, rt/linger.rs,
\* rt/blocking.rs, rt/workers.rs, process/).
NoneForgotten ==
    /\ on = "tasks" => Tasks!ListsWhole /\ Tasks!NoneDangling /\ Tasks!NoneForgotten
    /\ on = "joinset" => Tasks!JoinerWoken /\ Tasks!EndedIsFound /\ Tasks!SlotsKept
    /\ on = "workers" => Crew!TornDown /\ Crew!TaskHasThread /\ Crew!FewestLeft
    /\ on = "linger" => Crew!NoneLeft /\ Crew!WaitsForSome
    /\ on = "pool" => Crew!JobHasThread /\ Crew!Accounted
    /\ on = "exit" => Child!StatusKept
    /\ on = "signal" => Child!NoneMissed /\ Child!Served
    /\ on = "frames" => Near!TopIsServed

\* The wheel is the set of deadlines of module Deadlines and a park ends by the
\* first; no sleep ends early or reaches the timer of another; the clock never
\* reads back and, paused, skips no timer (time/wheel.rs, sleep.rs, clock.rs).
InTime ==
    /\ [](/\ on = "sleep" => Sleep!NotEarly /\ Sleep!CellHeld /\ Sleep!NoLeak
          /\ on = "wheel" => Sleep!ParkIsShort
          /\ on = "clock" => Clock!ReadsForward)
    /\ on = "wheel" => Sleep!Timers!Init
    /\ [][on = "wheel" => Sleep!TimersStep]_allvars
    /\ [][on = "paused" => Clock!SkipsNone]_allvars

\* What the runtime waits for comes: its drop ends, a job taken is run, the monitor
\* wakes for a worker out of its park and hands on the shard of one that blocks, a
\* sleep ends, a child is reaped and its wait answered, a blocking call ends
\* (rt/workers.rs, rt/blocking.rs, rt/handoff, time/sleep.rs, process/exit.rs).
Owed == \/ on = "workers" /\ Crew!Down("monitor")
        \/ on = "pool" /\ Crew!Submitted(x1)
        \/ on = "handoff" /\ Hand!SleepsOn
        \/ on = "sleep"
        \/ on = "exit" /\ Child!Orphaned
        \/ on = "frames" /\ Near!Call(x1, "open")

Paid == \/ on = "workers" /\ Crew!Down("over")
        \/ on = "pool" /\ Crew!JobRan(x1)
        \/ on = "handoff" /\ ~Hand!MonitorSleeps
        \/ on = "sleep" /\ Sleep!Over(x3)
        \/ on = "exit" /\ Child!Reaped
        \/ on = "frames" /\ Near!Call(x1, "over")

Comes ==
    /\ Owed ~> Paid
    /\ []<>~((on = "handoff" /\ Hand!OutWithShard(x1)) \/ (on = "exit" /\ Child!WaitsEnded))
    /\ []<>~(on = "handoff" /\ Hand!OutWithShard(x2))
=============================================================================
