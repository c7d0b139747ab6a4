------------------------------ MODULE MCIo ------------------------------
(* The sockets of src/io on small instances, one part at a time.           *)
EXTENDS Sum

CONSTANTS Parts,  \* the parts a run covers
          None, x1, x2, x3, x4

\* The reading sides: how they read, what of, and what their tasks call
Reads(via, kind, group, calls) ==
    [via |-> via, kind |-> kind, inq |-> FALSE, group |-> group, errs |-> FALSE, shuts |-> FALSE, fails |-> FALSE,
     again |-> FALSE, calls |-> calls]
Readers ==
    {[Reads("fd", "tcp", FALSE, {"read", "long"}) EXCEPT !.inq = TRUE],
     [Reads("fd", "tcp", FALSE, {"owned", "peek"}) EXCEPT !.fails = TRUE],
     [Reads("fd", "unix", FALSE, {"ready", "long"}) EXCEPT !.shuts = TRUE, !.errs = TRUE],
     Reads("fd", "listener", FALSE, {"read"}), Reads("fd", "udp", FALSE, {"read", "ready"}),
     Reads("fd", "tcp", FALSE, {"fd"}), Reads("ops", "tcp", TRUE, {"read", "owned"}),
     [Reads("ops", "tcp", FALSE, {"fd"}) EXCEPT !.fails = TRUE],
     [Reads("ops", "tcp", FALSE, {"owned"}) EXCEPT !.fails = TRUE],
     [Reads("ops", "listener", FALSE, {"read", "stream"}) EXCEPT !.again = TRUE],
     Reads("ops", "udp", TRUE, {"read", "owned"})}

\* The writing sides
Writes(via, kind, calls) ==
    [via |-> via, kind |-> kind, errs |-> FALSE, fails |-> FALSE, forsakes |-> FALSE, again |-> FALSE,
     calls |-> calls, far |-> {}]
Writers ==
    {Writes("fd", "tcp", {"write", "large", "flush"}), [Writes("fd", "tcp", {"write"}) EXCEPT !.far = {x2}],
     [Writes("fd", "tcp", {"write", "owned"}) EXCEPT !.errs = TRUE],
     [Writes("fd", "tcp", {"write", "close"}) EXCEPT !.fails = TRUE],
     [Writes("fd", "tcp", {"owned"}) EXCEPT !.fails = TRUE],
     [Writes("ops", "tcp", {"owned", "write"}) EXCEPT !.fails = TRUE],
     Writes("fd", "tcp", {"file", "write"}), Writes("fd", "tcp", {"connect", "write"}),
     Writes("fd", "udp", {"send", "owned"}), [Writes("fd", "udp", {"send"}) EXCEPT !.far = {x2}],
     Writes("fd", "pipe", {"write", "ready", "drain"}), Writes("ops", "tcp", {"write", "large"}),
     [Writes("ops", "tcp", {"write", "flush"}) EXCEPT !.errs = TRUE],
     [Writes("ops", "tcp", {"owned"}) EXCEPT !.forsakes = TRUE], Writes("ops", "tcp", {"file"}),
     [Writes("ops", "tcp", {"connect", "write"}) EXCEPT !.again = TRUE],
     [Writes("ops", "udp", {"send"}) EXCEPT !.again = TRUE],
     [Writes("ops", "pipe", {"write", "ready"}) EXCEPT !.again = TRUE]}

Side == INSTANCE Side WITH
    Threads <- {x1, x2}, Owner <- x1, Drivers <- {x1}, First <- x1, FenceWorks <-
    {TRUE, FALSE}, MayGo <- TRUE, MaxCalls <- 3, MaxBuffer <- 1, Wakers <- {x1, x2},
    Bufs <- {x3}, MaxFrames <- 3, MaxPanics <- 1, ReqThreads <- {x1, x2, x3}, Shards
    <- {x1, x2}, Service <- x1, Quits <- {x1}, ReqMaxCalls <- 2, MaxLeases <- 1,
    busy <- v1, word <- v2, deferred <- v3, contended <- v4, own <- v5, intent <-
    v6, shared <- v7, owner <- v8, buffer <- v9, inside <- v10, ready <- v11, reg <-
    v12, event <- v13, owed <- v14, pc <- v15, call <- v16, held <- v17, expect <-
    v18, rest <- v19, waits <- v20, woken <- v21, nudged <- v22, gone <- v23,
    panicked <- v24, calls <- v25, forgotten <- v26, after_t <- v1, req_side <- v1,
    req <- v2, requests <- v3, req_reg <- v4, ask <- v5, slots <- v6, fd <- v7,
    handle <- v8, object <- v9, holds <- v10, leases <- v11, retired <- v12,
    awaits_ops <- v13, retire_wakes <- v14, stopped <- v15, posted <- v16, req_pc <-
    v17, req_call <- v18, saw <- v19, result <- v20, req_waits <- v21, req_inside <-
    v22, req_woken <- v23, req_calls <- v24, untold <- v25, reused <- v26

Read == INSTANCE ReadSide WITH
    Tasks <- {x1, x2}, Casts <- Readers, BUF <- 2, LARGE <- 2, TICKS <- 8, MaxUnits
    <- 2, MaxCalls <- 2, MaxEvents <- 1,
    cast <- v1, st <- v2, room <- v3, edge <- v4, op <- v5, cq <- v6, call <- v7,
    phase <- v8, tick <- v9, clear <- v10, taken <- v11, sent <- v12, base <- v13,
    ended <- v14, bound <- v15

Write == INSTANCE WriteSide WITH
    Tasks <- {x1, x2}, Casts <- Writers, BUF <- 2, LARGE <- 2, QUEUE <- 1, MaxCalls
    <- 3, MaxDrains <- 1, MaxEvents <- 1,
    cast <- v1, st <- v2, room <- v3, edge <- v4, serving <- v5, op <- v6, cq <- v7,
    call <- v8, phase <- v9, tick <- v10, biased <- v11, far <- v12, left <- v13,
    jobs <- v14, told <- v15, early <- v16, bound <- v17

Port == INSTANCE Port WITH
    Shards <- {x1, x2}, Kinds <- {"tcp", "udp"}, MayRefuse <- TRUE, MaxOps <- 3,
    MaxLeaves <- 1, Modes <- {"socket", "stream", "job"}, OpThreads <- {x1, x2},
    Cancellers <- {x3}, OpMaxOps <- 2, MaxCancels <- 2,
    kind <- v1, src <- v2, side <- v3, port <- v4, keeper <- v5, pc <- v6, bound <-
    v7, mode <- v1, slot <- v2, word <- v3, thread <- v4, op_cancel <- v5, op_held
    <- v6, made <- v7

Init ==
    /\ on \in Parts
    /\ \/ on = "side" /\ Side!Init /\ Zero26
       \/ on = "after" /\ Side!AfterInit /\ Zero1
       \/ on = "requests" /\ Side!ReqInit /\ Zero26
       \/ on = "read" /\ Read!Init /\ Zero15
       \/ on = "write" /\ Write!Init /\ Zero17
       \/ on = "port" /\ Port!Init /\ Zero7
       \/ on = "portop" /\ Port!OpInit /\ Zero7

Next ==
    \/ on = "side" /\ Side!Next /\ UNCHANGED <<on, rest26>>
    \/ on = "after" /\ Side!AfterNext /\ UNCHANGED <<on, rest1>>
    \/ on = "requests" /\ Side!ReqNext /\ UNCHANGED <<on, rest26>>
    \/ on = "read" /\ Read!Next /\ UNCHANGED <<on, rest15>>
    \/ on = "write" /\ Write!Next /\ UNCHANGED <<on, rest17>>
    \/ on = "port" /\ Port!Next /\ UNCHANGED <<on, rest7>>
    \/ on = "portop" /\ Port!OpNext /\ UNCHANGED <<on, rest7>>

Spec == Init /\ [][Next]_allvars

\* One at a time: a side of a socket has one holder, a port one drainer, and a
\* number or a cancellation reaches the one it was made for (io/side.rs,
\* io/requests.rs, sys/windows).
OneHolder ==
    /\ on = "side" => Side!OneHolder
    /\ on = "requests" => Side!NumberIsOurs
    /\ on = "port" => Port!OneDrainer /\ Port!NoneTwice
    /\ on = "portop" => Port!CancelIsOurs

\* Bytes and datagrams pass once and in order, and what a side left to do is done
\* once, outside of it (io/source.rs, io/after.rs).
InOrder ==
    /\ on = "read" => Read!UnitsKept
    /\ on = "write" => Write!InOrder /\ Write!NothingLost
    /\ on = "after" => Side!LeftIsRun /\ Side!RunOutside

\* No task sleeps past what its socket could answer, and no readiness, packet or
\* cancellation is left unattended.
NobodySleepsPast ==
    /\ on = "side" => Side!NothingLeft /\ Side!EdgeServed
    /\ on = "requests" => Side!WaitersWatched
    /\ on = "read" => Read!NobodySleepsPast
    /\ on = "write" => Write!NobodySleepsPast
    /\ on = "port" => Port!PacketsDrained
    /\ on = "portop" => Port!CancelHeard

\* What comments of these parts say and the properties above have an exception to:
\* TLC finds each violated (io/source/read.rs, io/side.rs, io/side/after.rs,
\* io/source/requests.rs, io/source.rs).
AsDocumented ==
    /\ on = "read" => Read!NothingLost
    /\ on = "side" => Side!PanicsLoseNone
    /\ on = "after" => Side!ParkedIsRun
    /\ on = "requests" => Side!ClosedIsUnused /\ Side!WaitersHaveDriver
=============================================================================
