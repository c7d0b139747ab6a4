------------------------------ MODULE MCFiles ------------------------------
(* The ring, the buffers, the files and the streams on small instances,    *)
(* one part at a time.                                                     *)
EXTENDS Sum

CONSTANTS Parts,  \* the parts a run covers
          Nil, Closed, x1, x2, x3, x4, x5, x6

\* What the operations of the reading and of the writing side are
Works == {(x1 :> "multi") @@ (x2 :> "poll"), (x1 :> "exit") @@ (x2 :> "zc"), (x1 :> "file") @@ (x2 :> "file"),
          (x1 :> "accept") @@ (x2 :> "file")}

\* A vectored buffer: of each part, where its bytes begin and how many it has
Shapes == {<<<<1, 3>>>>, <<<<0, 2>>, <<1, 1>>, <<0, 2>>>>, <<<<1, 2>>, <<0, 1>>, <<0, 1>>, <<1, 2>>>>}

\* The files and what their tasks call
File(calls) ==
    [lands |-> FALSE, append |-> FALSE, direct |-> FALSE, ring |-> FALSE, fails |-> FALSE, calls |-> calls,
     seeks |-> {0}, beside |-> FALSE]
Files ==
    {File({"read", "write"}), File({"read", "writeat"}), [File({"fillbuf", "write", "flush"}) EXCEPT !.fails = TRUE],
     [File({"write", "read", "seek"}) EXCEPT !.append = TRUE],
     [File({"readown", "writeown"}) EXCEPT !.ring = TRUE], [File({"readown", "writeat"}) EXCEPT !.ring = TRUE],
     [File({"readat", "write"}) EXCEPT !.direct = TRUE], [File({"readat", "writeat"}) EXCEPT !.direct = TRUE],
     [File({"writeown", "flush"}) EXCEPT !.fails = TRUE], [File({"write", "flush"}) EXCEPT !.lands = TRUE, !.fails = TRUE],
     [File({"write", "seek"}) EXCEPT !.seeks = {0, -1}], [File({"read", "seek"}) EXCEPT !.seeks = {0, -1}]}

\* The texts a stream carries, and the adapters and calls over it
Texts == {<<"x", "cr", "nl", "x">>, <<"nl", "x", "nl">>, <<"x", "bad", "cr", "x", "nl">>}
Stream(top, calls) == [top |-> top, calls |-> calls]
Adapters ==
    {Stream("plain", {"read", "exact", "end"}), Stream("take", {"read", "exact", "end"}),
     Stream("chain", {"read", "exact", "string"}), Stream("buf", {"read", "exact", "seek", "end"}),
     Stream("buf", {"read", "until", "seek"}), Stream("buf", {"lines"}), Stream("plain", {"write", "flush", "shutdown"}),
     Stream("plain", {"copy"}), Stream("buf", {"transfer"}), Stream("buf", {"copy_buf"})}

Ring == INSTANCE RingOps WITH
    Sides <- {x1, x2}, None <- Nil, Casts <- Works, Writers <- {x2}, Places <- 3,
    cap <- 1, ReapableOnes <- {TRUE, FALSE}, MayFail <- TRUE, MaxSubmits <- 2,
    MaxCancels <- 1, MaxDrops <- 2, MaxArrivals <- 1, MaxAdopts <- 1, MaxTroubles <-
    2, Modes <- {"plain", "sqpoll"}, ENTRIES <- 1, CQ <- 1, BATCH <- 1, IDS <- 2,
    MaxPushes <- 2, MaxWakes <- 1, PollerMaxAdopts <- 1, PollerMaxDrops <- 1,
    Sources <- {x1, x2, x3}, Numbers <- {x1, x2}, Table <- 1, Slots <- 3, MayRefuse
    <- TRUE, MayBusy <- TRUE, MaxOps <- 1,
    kind <- v1, reapable <- v2, slab <- v3, free <- v4, queue <- v5, room <- v6,
    in_kernel <- v7, writes <- v8, zc_denied <- v9, kern <- v10, timers <- v11, cq
    <- v12, dropped <- v13, unswept <- v14, under_way <- v15, notes <- v16, swept <-
    v17, kept <- v18, side <- v19, ops_out <- v20, adopting <- v21, phase <- v22,
    submits <- v23, cancels <- v24, drops <- v25, arrivals <- v26, adopts <- v27,
    mode <- v1, sq <- v2, published <- v3, waiting <- v4, wake_armed <- v5, wake_id
    <- v6, attend <- v7, overflowed <- v8, poller_dropped_seen <- v9,
    entered_with_more <- v10, poller_at <- v11, zero <- v12, runner <- v13,
    poller_kern <- v14, work <- v15, poller_cq <- v16, poller_held <- v17,
    poller_dropped <- v18, badr <- v19, thread <- v20, eventfd <- v21, told <- v22,
    pushes <- v23, wakes <- v24, poller_drops <- v25, files_at <- v1, number <- v2,
    slot_of <- v3, fixed <- v4, to_make <- v5, made <- v6, copies <- v7, slots <-
    v8, files_free <- v9, spare <- v10, ktable <- v11, files_queue <- v12, files_out
    <- v13, leaving <- v14, todo <- v15, timer <- v16, busy <- v17, files_ops <- v18

Bufs == INSTANCE Buffers WITH
    Bufs <- {x1, x2, x3}, PoolThreads <- {x1}, Sides <- {x1}, None <- Nil, CLASSES
    <- <<1, 2>>, Wholes <- {3}, Caps <- {2, 4}, Groups <- {1}, MayFail <- TRUE,
    MaxOps <- 4, Forms <- {"pool", "read", "write"}, BYTES_CAP <- 3, IOV_MAX <- 2,
    Shapes <- Shapes, Types <- {"Vec", "Aligned", "Own", "OwnedBuf"}, MaxBytes <- 6,
    BlockThreads <- {x1, x2}, Blocks <- {x3, x4}, Records <- {x5, x6}, CLOSED <-
    Closed, BlockSizeOf <- (x3 :> 1) @@ (x4 :> 2), KEPT_BYTES <- 2, MaxAllocs <- 4,
    Receives <- {x1, x2}, Entries <- 2, SIZE <- 2, RECV_CAP <- 2, MIN_CHARGE <- 2,
    RETURNS <- 1, Modes <- {TRUE, FALSE}, MaxArrivals <- 3,
    pool <- v1, fallback <- v2, pool_size <- v3, pool_at <- v4, home <- v5, own <-
    v6, giver <- v7, side <- v8, pool_ops <- v9, form <- v1, bytes_p <- v2, v <- v3,
    bytes_back <- v4, next <- v5, from <- v6, model <- v7, lists <- v1, rec <- v2,
    life <- v3, pc <- v4, record <- v5, link <- v6, block <- v7, block_owner <- v8,
    count <- v9, allocs <- v10, incremental <- v1, ring <- v2, pending <- v3, kused
    <- v4, kern <- v5, cq <- v6, fills <- v7, recv_ops <- v8, chunks <- v9, local <-
    v10, queue <- v11, arrivals <- v12

Disk == INSTANCE FileIo WITH
    Tasks <- {x1, x2}, None <- Nil, Casts <- Files, AHEAD <- 2, BUF <- 2, FILE_SLOTS
    <- 2, BLOCKS <- 2, JOBS <- 5, MaxCalls <- 3, MaxEvents <- 1, DurTasks <- {x1,
    x2}, MaxWrites <- 2, MaxSyncs <- 4, MaxLosses <- 2, Kinds <- {"many", "copy"},
    RangeReads <- 4, MANY_AT_ONCE <- 2, COPY_CHUNK <- 2, MaxLen <- 4, MAX_OFFSET <-
    6, MayFail <- TRUE,
    cast <- v1, st <- v2, call <- v3, phase <- v4, known <- v5, early <- v6, short
    <- v7, bound <- v8, kept <- v1, dur_calls <- v2, dur_call <- v3, dur_waiters <-
    v4, dur_woken <- v5, dur_phase <- v6, dur_mine <- v7, dur_known <- v8, dur_disk
    <- v9, reported <- v10, untrue <- v11, blamed <- v12, dur_bound <- v13,
    range_kind <- v1, full <- v2, waiting <- v3, range_out <- v4, range_ends <- v5,
    range_woken <- v6, range_phase <- v7, args <- v8, range_done <- v9, in_kernel <-
    v10, chunk <- v11, dest <- v12, left <- v13, range_answer <- v14

Flow == INSTANCE Streams WITH
    Texts <- Texts, Casts <- Adapters, READ_CAP <- 2, WRITE_CAP <- 2, COPY_SIZE <-
    2, MIN_READ <- 2, MAX_READ <- 3, MaxWant <- 3, MaxHiccups <- 2, MaxCalls <- 3,
    cap <- 2, MaxLen <- 2, PipeMaxBytes <- 5, MayLeave <- TRUE, Kinds <- {"in",
    "out"}, MAX_BUF <- 2, StdioMaxWant <- 3, StdioMaxBytes <- 4, MaxFails <- 2,
    JobsDie <- TRUE,
    cast <- v1, text <- v2, s <- v3, w <- v4, fut <- v5, hiccups <- v6, calls <- v7,
    base <- v8, got <- v9, results <- v10, given <- v11, answer <- v12, ring <- v1,
    pipe_written <- v2, pipe_read <- v3, write_closed <- v4, read_closed <- v5,
    reader <- v6, writer <- v7, rd <- v8, wr <- v9, pipe_got <- v10, stdio_kind <-
    v1, stdio_at <- v2, stdio_buf <- v3, stdio_pos <- v4, job <- v5, stdio_given <-
    v6, stdio_got <- v7, taken <- v8, put <- v9, stdio_flushed <- v10, fails <- v11,
    owed <- v12, call <- v13

Init ==
    /\ on \in Parts
    /\ \/ on = "ops" /\ Ring!Init
       \/ on = "poller" /\ Ring!PollerInit /\ Zero25
       \/ on = "table" /\ Ring!FilesInit /\ Zero18
       \/ on = "recv" /\ Bufs!RecvInit /\ Zero12
       \/ on = "pool" /\ Bufs!PoolInit /\ Zero9
       \/ on = "bytes" /\ Bufs!BytesInit /\ Zero7
       \/ on = "blocks" /\ Bufs!BlockInit /\ Zero10
       \/ on = "file" /\ Disk!Init /\ Zero8
       \/ on = "sync" /\ Disk!DurInit /\ Zero13
       \/ on = "ranges" /\ Disk!RangeInit /\ Zero14
       \/ on = "stream" /\ Flow!Init /\ Zero12
       \/ on = "pipe" /\ Flow!PipeInit /\ Zero10
       \/ on = "stdio" /\ Flow!StdioInit /\ Zero13

Next ==
    \/ on = "ops" /\ Ring!Next /\ UNCHANGED on
    \/ on = "poller" /\ Ring!PollerNext /\ UNCHANGED <<on, rest25>>
    \/ on = "table" /\ Ring!FilesNext /\ UNCHANGED <<on, rest18>>
    \/ on = "recv" /\ Bufs!RecvNext /\ UNCHANGED <<on, rest12>>
    \/ on = "pool" /\ Bufs!PoolNext /\ UNCHANGED <<on, rest9>>
    \/ on = "bytes" /\ Bufs!BytesNext /\ UNCHANGED <<on, rest7>>
    \/ on = "blocks" /\ Bufs!BlockNext /\ UNCHANGED <<on, rest10>>
    \/ on = "file" /\ Disk!Next /\ UNCHANGED <<on, rest8>>
    \/ on = "sync" /\ Disk!DurNext /\ UNCHANGED <<on, rest13>>
    \/ on = "ranges" /\ Disk!RangeNext /\ UNCHANGED <<on, rest14>>
    \/ on = "stream" /\ Flow!Next /\ UNCHANGED <<on, rest12>>
    \/ on = "pipe" /\ Flow!PipeNext /\ UNCHANGED <<on, rest10>>
    \/ on = "stdio" /\ Flow!StdioNext /\ UNCHANGED <<on, rest13>>

Spec == Init /\ [][Next]_allvars

\* Memory is kept while the kernel or a holder may use it, and given back and
\* charged once: an operation's, a file's slot, a received chunk, a pooled buffer, a
\* block (rt/shard/ring, buf/, io/recv_group.rs).
MemoryKept ==
    /\ [](/\ on = "ops" => Ring!MemoryKept /\ Ring!CountsAgree
          /\ on = "table" => Ring!RightFile /\ Ring!FilesLeave
          /\ on = "recv" => Bufs!ChunksStable /\ Bufs!BuffersKept /\ Bufs!ChargesAgree
          /\ on = "pool" => Bufs!LedgerTrue
          /\ on = "bytes" => Bufs!BytesKept
          /\ on = "blocks" => Bufs!GivenKept /\ Bufs!ListBounded)
    /\ [][on = "pool" => Bufs!UnderCap]_allvars

\* Reads see the writes before them, a sync that succeeds is true of every write it
\* covers, and streams carry their bytes and lines unchanged and in order (fs/, io/util).
DataKept ==
    /\ on = "poller" => Ring!InOrder
    /\ on = "file" => Disk!ReadsSeeWrites /\ Disk!WritesKept /\ Disk!SeekIsTrue
    /\ on = "sync" => Disk!SyncIsTrue /\ Disk!FailsForEarlier
    /\ on = "ranges" => Disk!ManyAnswered /\ Disk!CopiedIsThere
    /\ on = "stream" => Flow!ReadInOrder /\ Flow!LinesTrue /\ Flow!RoomZeroed /\ Flow!WrittenInOrder /\ Flow!NothingWaits
    /\ on = "pipe" => Flow!PipeInOrder
    /\ on = "stdio" => Flow!FlushTrue /\ Flow!InputTrue

\* Nobody sleeps past what is there, and a lost answer is pursued.
NobodySleepsPast ==
    /\ on = "ops" => Ring!LostPursued
    /\ on = "poller" => Ring!WakeEnds /\ Ring!DropSeen
    /\ on = "pool" => Bufs!ReturnTold
    /\ on = "file" => Disk!NobodySleepsPast
    /\ on = "sync" => Disk!SyncsEnd
    /\ on = "pipe" => Flow!PipeWakes

\* What comments of these parts say and the properties above have an exception to:
\* TLC finds each violated (rt/shard/ring/recover.rs, io/util/stdio.rs).
AsDocumented ==
    /\ on = "ops" => Ring!NoneWaitsForGood
    /\ on = "stdio" => Flow!InputExact
=============================================================================
