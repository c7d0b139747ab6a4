------------------------------ MODULE Streams ------------------------------
(***************************************************************************)
(* The reads, writes and copies built over any stream (io/util): the       *)
(* buffered reader and writer (buffered.rs), the reads of read_ext.rs and  *)
(* buf_read_ext.rs, the writes of write_ext.rs and the copies of copy.rs.  *)
(* The stream inside gives and takes any number of bytes a call, is not    *)
(* ready, or fails. Each step is one call of it by the future under way,   *)
(* which may be dropped wherever it waits. A call from the stream inside   *)
(* is an outcome: what is answered, the bytes, and the stream after it.    *)
(***************************************************************************)
EXTENDS Integers, Sequences, SequencesExt, FiniteSetsExt

CONSTANTS
    Texts,         \* what the stream inside holds: bytes "x", "cr", "nl", "bad" (not UTF-8)
    Casts,         \* the reader ("plain", "take", "chain", "buf") and the calls made on it
    READ_CAP,      \* the capacity of the reader's buffer
    WRITE_CAP,     \* the capacity of the writer's
    COPY_SIZE,     \* the size of copy's buffer
    MIN_READ, MAX_READ,    \* a read to the end: the least room, the most a read takes
    MaxWant,       \* bound: bytes asked of one read, or given to one write
    MaxHiccups,    \* bound: calls of the stream inside that are not ready or fail
    MaxCalls       \* bound: futures made

VARIABLES
    cast, text,
    s,         \* the reader: at, limit, first_done, buf, pos
    w,         \* the writer: buf, written, sink, flushed, closed
    fut,       \* the future under way
    hiccups, calls,
    base, got, \* bytes read since the position `base`
    results,   \* the lines or segments answered
    given,     \* bytes the writer took
    answer     \* what the last future answered

vars == <<cast, text, s, w, fut, hiccups, calls, base, got, results, given, answer>>

-----------------------------------------------------------------------------
None == [kind |-> "none"]
Init ==
    /\ cast \in Casts /\ text \in Texts
    /\ s = [at |-> 0, limit |-> Len(text) - 1, first_done |-> FALSE, buf |-> <<>>, pos |-> 0]
    /\ w = [buf |-> <<>>, written |-> 0, sink |-> <<>>, flushed |-> 0, closed |-> FALSE]
    /\ fut = None /\ hiccups = 0 /\ calls = 0 /\ base = 0 /\ got = <<>> /\ results = <<>> /\ given = <<>>
    /\ answer = [kind |-> "none", is |-> "ok", n |-> 0]

Part(q, from, n) == [i \in 1 .. n |-> q[from + i]]
Rest(q, from) == Part(q, from, Len(q) - from)
\* The stream inside, external: what a call of it may answer.
Hiccups == IF hiccups < MaxHiccups THEN {"pending", "err"} ELSE {}
InnerRead(r, n, end) ==
    LET most == Min({n, end - r.at})
    IN {[is |-> "ok", bytes |-> Part(text, r.at, k), r |-> [r EXCEPT !.at = @ + k]]: k \in (IF most <= 0 THEN {0} ELSE 1 .. most)}
       \union {[is |-> h, bytes |-> <<>>, r |-> r]: h \in Hiccups}

-----------------------------------------------------------------------------
(* read_ext.rs, buffered.rs: the readers *)
\* Take::poll_read.
take_poll_read(r, n) ==
    IF r.limit = 0 THEN {[is |-> "ok", bytes |-> <<>>, r |-> r]}
    ELSE {[o EXCEPT !.r.limit = @ - Len(o.bytes)]: o \in InnerRead(r, Min({r.limit, n}), Len(text))}

\* Chain::poll_read: the first half of the text, then the second.
Mid == Len(text) \div 2
chain_poll_read(r, n) ==
    IF r.first_done THEN InnerRead(r, n, Len(text))
    ELSE UNION {IF o.is = "ok" /\ o.bytes = <<>> /\ n > 0
                THEN InnerRead([o.r EXCEPT !.first_done = TRUE], n, Len(text))
                ELSE {o}: o \in InnerRead(r, n, Mid)}

\* BufReader: the bytes buffered, discard_buffer, poll_fill_buf, consume, poll_read.
buffer(r) == Rest(r.buf, r.pos)
discard_buffer(r) == [r EXCEPT !.buf = <<>>, !.pos = 0]
poll_fill_buf(r) ==
    IF r.pos < Len(r.buf) THEN {[is |-> "ok", bytes |-> buffer(r), r |-> r]}
    ELSE {IF o.is = "ok" THEN [o EXCEPT !.r.buf = o.bytes, !.r.pos = 0] ELSE o: o \in InnerRead(r, READ_CAP, Len(text))}
consume(r, n) == [r EXCEPT !.pos = Min({@ + n, Len(r.buf)})]
buf_poll_read(r, n) ==
    IF r.pos = Len(r.buf) /\ n >= READ_CAP
    THEN {IF o.is = "ok" THEN [o EXCEPT !.r = discard_buffer(o.r)] ELSE o: o \in InnerRead(r, n, Len(text))}
    ELSE {LET k == Min({Len(o.bytes), n})
          IN IF o.is = "ok" THEN [o EXCEPT !.bytes = Part(@, 0, k), !.r = consume(@, k)] ELSE o: o \in poll_fill_buf(r)}

poll_read(r, n) == CASE cast.top = "take" -> take_poll_read(r, n)
                     [] cast.top = "chain" -> chain_poll_read(r, n)
                     [] cast.top = "buf" -> buf_poll_read(r, n)
                     [] OTHER -> InnerRead(r, n, Len(text))
\* Where the reader ends.
EndOf == IF cast.top = "take" THEN Len(text) - 1 ELSE Len(text)

poll_seek(r, n) == discard_buffer([r EXCEPT !.at = @ + n - Len(buffer(r))])

-----------------------------------------------------------------------------
(* Futures that read *)
Starts(f) == /\ fut = None /\ calls < MaxCalls /\ f.kind \in cast.calls /\ fut' = f /\ calls' = calls + 1
\* The future ends with an answer, waits, or goes on with its loop.
Ends(f, is, n) == fut' = None /\ answer' = [kind |-> f.kind, is |-> is, n |-> n]
Goes(f) == fut' = [f EXCEPT !.waits = "no"] /\ UNCHANGED answer
Waits(f) == fut' = [f EXCEPT !.waits = "reader"] /\ UNCHANGED answer
WaitsToWrite(f) == fut' = [f EXCEPT !.waits = "writer"] /\ UNCHANGED answer
Missed(o) == hiccups' = hiccups + IF o.is = "ok" THEN 0 ELSE 1
UpTo(k) == 1 .. Min({k, MaxWant})

\* ReadBuf over `want` bytes: read, read_exact and the typed reads fill it from `done`.
start_read ==
    /\ \E kind \in {"read", "exact"}, want \in 1 .. MaxWant: Starts([kind |-> kind, want |-> want, done |-> 0, waits |-> "no"])
    /\ UNCHANGED <<cast, text, s, w, hiccups, base, got, results, given, answer>>
\* Read::poll and poll_read_buf: one call.
read ==
    /\ fut.kind = "read"
    /\ \E o \in poll_read(s, fut.want):
          /\ s' = o.r /\ Missed(o) /\ got' = got \o o.bytes
          /\ IF o.is = "pending" THEN Waits(fut) ELSE Ends(fut, o.is, Len(o.bytes))
    /\ UNCHANGED <<cast, text, w, calls, base, results, given>>
\* fill: until it is full; the end first is an error.
fills_to(f, o) == f.done + Len(o.bytes)
fill ==
    /\ fut.kind = "exact"
    /\ \E o \in poll_read(s, fut.want - fut.done):
          LET f == [fut EXCEPT !.done = fills_to(fut, o)]
          IN /\ s' = o.r /\ Missed(o) /\ got' = got \o o.bytes
             /\ CASE o.is = "pending" -> Waits(fut)
                  [] o.is = "err" -> Ends(fut, "err", fut.done)
                  [] o.is = "ok" /\ o.bytes = <<>> -> Ends(fut, "eof", fut.done)
                  [] o.is = "ok" /\ o.bytes # <<>> -> IF f.done = f.want THEN Ends(f, "ok", f.done) ELSE Goes(f)
    /\ UNCHANGED <<cast, text, w, calls, base, results, given>>

\* read_to_end: the vector's length and capacity, the bytes of it written so far, and what `zeroed` says.
start_end ==
    /\ \E kind \in {"end", "string"}, c \in 0 .. MIN_READ:
          Starts([kind |-> kind, len |-> 0, capacity |-> c, inited |-> 0, zeroed |-> 0, bytes |-> <<>>, handed |-> 0, waits |-> "no"])
    /\ UNCHANGED <<cast, text, s, w, hiccups, base, got, results, given, answer>>
Clamp(n) == Max({MIN_READ, Min({n, MAX_READ})})
\* Vec::reserve, external: at least doubled; new memory, what was written moved.
reserve(f, more) ==
    IF f.len + more <= f.capacity THEN f
    ELSE [f EXCEPT !.capacity = Max({2 * f.capacity, f.len + more}), !.inited = f.len]
\* The room past what `zeroed` counts is zeroed; `inited` is the bytes written without a gap.
zeroes(g, room) ==
    [g EXCEPT !.zeroed = Max({@, room}),
              !.inited = IF g.zeroed < room /\ @ >= g.len + g.zeroed THEN Max({@, g.len + room}) ELSE @]
\* The room of a read: grown when short, zeroed once.
grows(f) ==
    LET g == IF f.capacity - f.len < MIN_READ
             THEN LET r == reserve(f, Clamp(f.len)) IN IF r.capacity # f.capacity THEN [r EXCEPT !.zeroed = 0] ELSE r
             ELSE f
        room == Min({g.capacity - g.len, MAX_READ})
    IN [zeroes(g, room) EXCEPT !.handed = room]
\* set_len past what came, which was in the room zeroed.
adds(f, n) == [f EXCEPT !.len = @ + n, !.zeroed = @ - n, !.inited = Max({@, f.len + n})]
IsText(q) == \A i \in DOMAIN q: q[i] # "bad"
read_to_end ==
    /\ fut.kind \in {"end", "string"}
    /\ LET g == grows(fut)
       IN \E o \in poll_read(s, g.handed):
          LET f == [adds(g, Len(o.bytes)) EXCEPT !.bytes = @ \o o.bytes]
          IN /\ s' = o.r /\ Missed(o) /\ got' = got \o o.bytes
             /\ CASE o.is = "pending" -> Waits(g)
                  [] o.is = "err" -> Ends(g, "err", g.len)
                  [] o.is = "ok" /\ o.bytes = <<>> ->
                       Ends(g, IF g.kind = "string" /\ ~IsText(g.bytes) THEN "not_text" ELSE "ok", g.len)
                  [] o.is = "ok" /\ o.bytes # <<>> -> Goes(f)
    /\ UNCHANGED <<cast, text, w, calls, base, results, given>>

\* read_until (its own future and ReadLine's), and Lines and Split, which keep their bytes when one is dropped.
start_until ==
    /\ \E kind \in {"until", "lines"}:
          /\ cast.top = "buf" /\ Starts([kind |-> kind, bytes |-> <<>>, waits |-> "no"])
          /\ kind = "lines" => answer.kind = "none"
    /\ UNCHANGED <<cast, text, s, w, hiccups, base, got, results, given, answer>>
memchr(q) == {i \in DOMAIN q: q[i] = "nl"}
\* next_line: without its newline, and the return before it.
line_of(q) ==
    IF q = <<>> \/ q[Len(q)] # "nl" THEN q
    ELSE IF Len(q) > 1 /\ q[Len(q) - 1] = "cr" THEN Front(Front(q)) ELSE Front(q)
Answers(f, q) ==
    IF f.kind = "lines"
    THEN /\ results' = IF q = <<>> THEN results ELSE Append(results, line_of(q))
         /\ IF q = <<>> THEN Ends(f, "ok", 0) ELSE Goes([f EXCEPT !.bytes = <<>>])
    ELSE results' = Append(results, q) /\ Ends(f, "ok", Len(q))
read_until ==
    /\ fut.kind \in {"until", "lines"}
    /\ \E o \in poll_fill_buf(s):
          LET found == memchr(o.bytes)
              used == IF found = {} THEN Len(o.bytes) ELSE Min(found)
              bytes == fut.bytes \o Part(o.bytes, 0, used)
          IN /\ Missed(o)
             /\ IF o.is # "ok" THEN /\ s' = o.r /\ UNCHANGED <<got, results>>
                                    /\ IF o.is = "err" /\ fut.kind = "until" THEN Ends(fut, "err", 0) ELSE Waits(fut)
                ELSE /\ s' = consume(o.r, used) /\ got' = got \o Part(o.bytes, 0, used)
                     /\ IF found # {} \/ o.bytes = <<>> THEN Answers(fut, bytes)
                        ELSE Goes([fut EXCEPT !.bytes = bytes]) /\ UNCHANGED results
    /\ UNCHANGED <<cast, text, w, calls, base, given>>

\* AsyncSeekExt::seek by an offset, stream_position.
seek ==
    /\ fut = None /\ "seek" \in cast.calls /\ cast.top = "buf" /\ calls < MaxCalls
    /\ \E n \in {-1, 0, 1}:
          /\ poll_seek(s, n).at \in 0 .. Len(text)
          /\ s' = poll_seek(s, n) /\ base' = base + Len(got) + n /\ answer' = [kind |-> "seek", is |-> "ok", n |-> s'.at]
    /\ got' = <<>> /\ calls' = calls + 1 /\ UNCHANGED <<cast, text, w, fut, hiccups, results, given>>

-----------------------------------------------------------------------------
(* buffered.rs: BufWriter, over a stream that takes some of what it is given *)
Unsent(b) == Rest(b.buf, b.written)
InnerWrite(b, q) ==
    {[is |-> "ok", n |-> k, b |-> [b EXCEPT !.sink = @ \o Part(q, 0, k)]]: k \in 1 .. Len(q)}
    \union {[is |-> h, n |-> 0, b |-> b]: h \in Hiccups}
    \union (IF hiccups < MaxHiccups THEN {[is |-> "zero", n |-> 0, b |-> b]} ELSE {})
\* flush_buf: all of the buffer; what went is counted as it goes.
RECURSIVE flush_buf(_)
flush_buf(b) ==
    IF b.written >= Len(b.buf) THEN {[is |-> "ok", n |-> 0, b |-> [b EXCEPT !.buf = <<>>, !.written = 0]]}
    ELSE UNION {IF o.is = "ok" THEN flush_buf([o.b EXCEPT !.written = b.written + o.n]) ELSE {o}: o \in InnerWrite(b, Unsent(b))}
\* poll_write and poll_write_vectored: a small one joins the buffer.
poll_write(b, q) ==
    UNION {CASE o.is # "ok" -> {o}
             [] o.is = "ok" /\ Len(q) >= WRITE_CAP -> InnerWrite(o.b, q)
             [] OTHER -> {[is |-> "ok", n |-> Len(q), b |-> [o.b EXCEPT !.buf = @ \o q]]}:
           o \in IF Len(b.buf) + Len(q) > WRITE_CAP THEN flush_buf(b) ELSE {[is |-> "ok", n |-> 0, b |-> b]}}
\* poll_flush and poll_close: the buffer, then the writer's own.
poll_flush(b) ==
    UNION {IF o.is # "ok" THEN {o}
           ELSE {[o EXCEPT !.b.flushed = Len(o.b.sink)]} \union {[o EXCEPT !.is = h]: h \in Hiccups}: o \in flush_buf(b)}
poll_close(b) ==
    UNION {IF o.is # "ok" THEN {o}
           ELSE {[o EXCEPT !.b.closed = TRUE]} \union {[o EXCEPT !.is = h]: h \in Hiccups}: o \in flush_buf(b)}

MissedW(o) == hiccups' = hiccups + IF o.is \in {"pending", "err", "zero"} THEN 1 ELSE 0
Refused(o) == o.is \in {"err", "zero"}

\* write, write_all and the typed writes: the bytes left of a slice of the text.
start_write ==
    /\ ~w.closed
    /\ \/ \E n \in UpTo(Len(text) - Len(given)): Starts([kind |-> "write", left |-> Part(text, Len(given), n), waits |-> "no"])
       \/ \E kind \in {"flush", "shutdown"}: Starts([kind |-> kind, waits |-> "no"])
    /\ UNCHANGED <<cast, text, s, w, hiccups, base, got, results, given, answer>>
write_all ==
    /\ fut.kind = "write"
    /\ \E o \in poll_write(w, fut.left):
          LET f == [fut EXCEPT !.left = Rest(@, o.n)]
          IN /\ w' = o.b /\ MissedW(o) /\ given' = IF o.is = "ok" THEN given \o Part(fut.left, 0, o.n) ELSE given
             /\ CASE o.is = "pending" -> WaitsToWrite(fut) [] Refused(o) -> Ends(fut, "err", 0)
                  [] OTHER -> IF f.left = <<>> THEN Ends(f, "ok", 0) ELSE Goes(f)
    /\ UNCHANGED <<cast, text, s, calls, base, got, results>>
flush ==
    /\ fut.kind = "flush"
    /\ \E o \in poll_flush(w):
          /\ w' = o.b /\ MissedW(o)
          /\ CASE o.is = "pending" -> WaitsToWrite(fut) [] OTHER -> Ends(fut, IF Refused(o) THEN "err" ELSE "ok", 0)
    /\ UNCHANGED <<cast, text, s, calls, base, got, results, given>>
shutdown ==
    /\ fut.kind = "shutdown"
    /\ \E o \in poll_close(w):
          /\ w' = o.b /\ MissedW(o)
          /\ CASE o.is = "pending" -> WaitsToWrite(fut) [] OTHER -> Ends(fut, IF Refused(o) THEN "err" ELSE "ok", 0)
    /\ UNCHANGED <<cast, text, s, calls, base, got, results, given>>

-----------------------------------------------------------------------------
(* copy.rs *)
\* CopyBuffer::new; Transfer closes its writer after the copy.
new(kind) == [kind |-> kind, read_done |-> FALSE, need_flush |-> FALSE, buf |-> <<>>, pos |-> 0, amount |-> 0, state |-> "running", waits |-> "no"]
start_copy ==
    /\ ~w.closed /\ given = <<>> /\ s.at = 0 /\ \E kind \in {"copy", "copy_buf", "transfer"}: Starts(new(kind))
    /\ UNCHANGED <<cast, text, s, w, hiccups, base, got, results, given, answer>>
CopyDone(f) == IF f.kind = "transfer" THEN Goes([f EXCEPT !.state = "shutting_down"]) ELSE Ends(f, "ok", f.amount)
\* Before it waits on the reader it flushes what it wrote.
copy_pending(f, o) ==
    /\ s' = o.r
    /\ IF ~f.need_flush THEN Waits(f) /\ UNCHANGED w /\ hiccups' = hiccups + 1
       ELSE \E u \in poll_flush(w):
              /\ w' = u.b /\ hiccups' = hiccups + 1
              /\ CASE u.is = "pending" -> WaitsToWrite(f)
                   [] Refused(u) -> Ends(f, "err", f.amount)
                   [] OTHER -> Waits([f EXCEPT !.need_flush = FALSE])
\* poll_copy: reads when its buffer is out, ...
copy_reads ==
    /\ fut.kind \in {"copy", "transfer"} /\ fut.state = "running" /\ fut.pos = Len(fut.buf) /\ ~fut.read_done
    /\ \E o \in poll_read(s, COPY_SIZE):
          /\ got' = got \o o.bytes
          /\ CASE o.is = "pending" -> copy_pending(fut, o)
               [] o.is = "err" -> Ends(fut, "err", fut.amount) /\ s' = o.r /\ Missed(o) /\ UNCHANGED w
               [] OTHER -> /\ s' = o.r /\ UNCHANGED <<w, hiccups>>
                           /\ Goes(IF o.bytes = <<>> THEN [fut EXCEPT !.read_done = TRUE] ELSE [fut EXCEPT !.buf = o.bytes, !.pos = 0])
    /\ UNCHANGED <<cast, text, calls, base, results, given>>
\* ... writes what is in it, ...
copy_writes ==
    /\ fut.kind \in {"copy", "transfer"} /\ fut.state = "running" /\ fut.pos < Len(fut.buf)
    /\ \E o \in poll_write(w, Rest(fut.buf, fut.pos)):
          /\ w' = o.b /\ MissedW(o) /\ given' = IF o.is = "ok" THEN given \o Part(fut.buf, fut.pos, o.n) ELSE given
          /\ CASE o.is = "pending" -> WaitsToWrite(fut) [] Refused(o) -> Ends(fut, "err", fut.amount)
               [] OTHER -> Goes([fut EXCEPT !.pos = @ + o.n, !.amount = @ + o.n, !.need_flush = TRUE])
    /\ UNCHANGED <<cast, text, s, calls, base, got, results>>
\* ... and flushes at the end.
copy_ends ==
    /\ fut.kind \in {"copy", "transfer"} /\ fut.state = "running" /\ fut.pos = Len(fut.buf) /\ fut.read_done
    /\ \E o \in poll_flush(w):
          /\ w' = o.b /\ MissedW(o)
          /\ CASE o.is = "pending" -> WaitsToWrite(fut) [] Refused(o) -> Ends(fut, "err", fut.amount)
               [] OTHER -> CopyDone(fut)
    /\ UNCHANGED <<cast, text, s, calls, base, got, results, given>>
\* Transfer::poll_after_copy.
poll_after_copy ==
    /\ fut.kind = "transfer" /\ fut.state = "shutting_down"
    /\ \E o \in poll_close(w):
          /\ w' = o.b /\ MissedW(o)
          /\ CASE o.is = "pending" -> WaitsToWrite(fut) [] Refused(o) -> Ends(fut, "err", fut.amount)
               [] OTHER -> Ends(fut, "ok", fut.amount)
    /\ UNCHANGED <<cast, text, s, calls, base, got, results, given>>
\* copy_buf: from the reader's own buffer, consumed as it is taken.
copy_buf ==
    /\ fut.kind = "copy_buf" /\ cast.top = "buf"
    /\ \E o \in poll_fill_buf(s):
          IF o.is # "ok" THEN /\ s' = o.r /\ Missed(o) /\ UNCHANGED <<w, got, given>>
                              /\ IF o.is = "pending" THEN Waits(fut) ELSE Ends(fut, "err", fut.amount)
          ELSE \E u \in IF o.bytes = <<>> THEN poll_flush(w) ELSE poll_write(w, o.bytes):
                 LET n == IF u.is = "ok" THEN u.n ELSE 0
                 IN /\ w' = u.b /\ MissedW(u) /\ s' = consume(o.r, n)
                    /\ got' = got \o Part(o.bytes, 0, n) /\ given' = given \o Part(o.bytes, 0, n)
                    /\ CASE u.is = "pending" -> WaitsToWrite(fut) [] Refused(u) -> Ends(fut, "err", fut.amount)
                         [] OTHER -> IF o.bytes = <<>> THEN Ends(fut, "ok", fut.amount) ELSE Goes([fut EXCEPT !.amount = @ + n])
    /\ UNCHANGED <<cast, text, calls, base, results>>

\* The future is dropped where it waits; a copy's bytes read and not written go with it.
dropped ==
    /\ fut # None /\ fut.waits # "no" /\ fut.kind \notin {"lines", "copy", "transfer"} /\ fut' = None /\ answer' = [kind |-> "dropped", is |-> "ok", n |-> 0]
    /\ UNCHANGED <<cast, text, s, w, hiccups, calls, base, got, results, given>>

Next ==
    \/ start_read \/ read \/ fill \/ start_end \/ read_to_end \/ start_until \/ read_until \/ seek
    \/ start_write \/ write_all \/ flush \/ shutdown
    \/ start_copy \/ copy_reads \/ copy_writes \/ copy_ends \/ poll_after_copy \/ copy_buf \/ dropped
Spec == Init /\ [][Next]_vars

-----------------------------------------------------------------------------
(* What the callers read, then what is buffered, is the text from where they are, byte
   for byte: across short reads, errors, dropped futures and seeks (BufReader's buffer
   holds what the inner reader is ahead by). *)
ReadInOrder ==
    /\ got \o buffer(s) = Part(text, base, Len(got) + Len(buffer(s))) /\ s.at = base + Len(got) + Len(buffer(s))
    /\ answer.kind = "exact" /\ answer.is = "eof" => base + Len(got) = EndOf
    /\ answer.kind \in {"end", "string"} /\ answer.is # "err" /\ fut = None => base + Len(got) = EndOf

\* The lines of a text, by the positions of its newlines.
LinesOf(q) ==
    LET ends == SetToSortSeq(memchr(q), LAMBDA a, b: a < b)
        from(i) == IF i = 1 THEN 0 ELSE ends[i - 1]
        line(a, b) == SelectSeq(Part(q, a, b - a - 1), LAMBDA c: TRUE)
        chop(l) == IF l # <<>> /\ l[Len(l)] = "cr" THEN Front(l) ELSE l
        last == IF ends = <<>> THEN 0 ELSE ends[Len(ends)]
    IN [i \in 1 .. Len(ends) |-> chop(line(from(i), ends[i]))] \o (IF last = Len(q) THEN <<>> ELSE <<Rest(q, last)>>)

(* Lines answers the lines of the text, without their ends, one by one and then none:
   however the reads fell, and across errors between them. *)
LinesTrue ==
    /\ fut.kind = "lines" => IsPrefix(results, LinesOf(text))
    /\ answer.kind = "lines" /\ answer.is = "ok" => results = LinesOf(text)

(* A read to the end hands its reader only memory that was written: `zeroed` never counts
   more of the spare capacity than was zeroed since the vector last moved. *)
RoomZeroed == fut.kind \in {"end", "string"} => fut.len + fut.zeroed <= fut.inited /\ fut.inited <= fut.capacity

(* What reached the writer inside, then what is buffered, is what the callers were told
   was taken, in order and once: a flush that stops half way goes on where it was. *)
WrittenInOrder ==
    /\ w.sink \o Unsent(w) = given
    /\ answer.kind \in {"flush", "copy", "copy_buf", "transfer"} /\ answer.is = "ok" /\ fut = None =>
         w.sink = given /\ (answer.kind # "flush" => answer.n = Len(text) /\ given = text)

(* A copy that waits on its reader left nothing in the writer: poll_copy flushes what it
   wrote before it waits. *)
NothingWaits ==
    fut.kind \in {"copy", "transfer"} /\ fut.waits = "reader" => Unsent(w) = <<>>

------------------------------------------------------------------------------
(***************************************************************************)
(* An in-memory pipe of io/util/duplex.rs (each direction of `duplex`, and *)
(* `simplex`): a ring of bytes with one writer and one reader on threads   *)
(* of their own, each moving its own count. The bytes written are 1, 2,    *)
(* 3, ...: byte i of the stream is i.                                      *)
(***************************************************************************)

CONSTANTS
    cap,           \* the ring's capacity
    MaxLen,        \* bound: bytes of one call
    PipeMaxBytes,      \* bound: bytes written in all
    MayLeave       \* the reading end may be dropped

VARIABLES
    ring, pipe_written, pipe_read, write_closed, read_closed,
    reader, writer,    \* the wakers registered
    rd, wr,            \* the two ends: at, seen (the other's count), n, woken
    pipe_got                \* bytes read, in order

pipe_vars == <<ring, pipe_written, pipe_read, write_closed, read_closed, reader, writer, rd, wr, pipe_got>>

-----------------------------------------------------------------------------
\* Pipe::new.
Idle == [at |-> "run", seen |-> 0, n |-> 0, woken |-> FALSE]
pipe_new ==
    /\ ring = [i \in 0 .. cap - 1 |-> 0] /\ pipe_written = 0 /\ pipe_read = 0
    /\ write_closed = FALSE /\ read_closed = FALSE /\ reader = FALSE /\ writer = FALSE
    /\ rd = Idle /\ wr = Idle /\ pipe_got = <<>>
PipeInit == pipe_new

\* An end is polled as it is made, or once its waker was woken.
Polled(e) == e.at = "run" \/ (e.at = "waits" /\ e.woken)
\* AtomicWaker::wake of the other end.
WakesReader == rd' = [rd EXCEPT !.woken = @ \/ reader] /\ reader' = FALSE
WakesWriter == wr' = [wr EXCEPT !.woken = @ \/ writer] /\ writer' = FALSE

\* The two runs of the ring that hold the n bytes counted from `from`.
Place(from, i) == LET at == from % cap
                      first == cap - at
                  IN IF i < first THEN at + i ELSE i - first

\* Pipe::poll_read: the first look.
pipe_poll_read ==
    /\ Polled(rd)
    /\ rd' = [rd EXCEPT !.seen = pipe_written, !.woken = FALSE, !.at = IF pipe_written = pipe_read THEN "closed" ELSE "copies"]
    /\ UNCHANGED <<ring, pipe_written, pipe_read, write_closed, read_closed, reader, writer, wr, pipe_got>>
read_closed_looks ==
    /\ rd.at = "closed" /\ rd' = [rd EXCEPT !.at = IF write_closed THEN "end" ELSE "registers"]
    /\ UNCHANGED <<ring, pipe_written, pipe_read, write_closed, read_closed, reader, writer, wr, pipe_got>>
read_registers ==
    /\ rd.at = "registers" /\ reader' = TRUE /\ rd' = [rd EXCEPT !.at = "again"]
    /\ UNCHANGED <<ring, pipe_written, pipe_read, write_closed, read_closed, writer, wr, pipe_got>>
\* The look once more before it waits.
read_again ==
    /\ rd.at = "again"
    /\ rd' = [rd EXCEPT !.seen = pipe_written, !.at = IF pipe_written = pipe_read THEN "again_closed" ELSE "copies"]
    /\ UNCHANGED <<ring, pipe_written, pipe_read, write_closed, read_closed, reader, writer, wr, pipe_got>>
read_again_closed ==
    /\ rd.at = "again_closed" /\ rd' = [rd EXCEPT !.at = IF write_closed THEN "end" ELSE "waits"]
    /\ UNCHANGED <<ring, pipe_written, pipe_read, write_closed, read_closed, reader, writer, wr, pipe_got>>
\* Copies out what is there, up to the room the caller gave; ...
read_copies ==
    /\ rd.at = "copies"
    /\ \E len \in 1 .. MaxLen:
         LET n == Min({rd.seen - pipe_read, len})
         IN rd' = [rd EXCEPT !.n = n, !.at = "publishes"] /\ pipe_got' = pipe_got \o [i \in 1 .. n |-> ring[Place(pipe_read, i - 1)]]
    /\ UNCHANGED <<ring, pipe_written, pipe_read, write_closed, read_closed, reader, writer, wr>>
\* ... the count is published, ...
read_publishes ==
    /\ rd.at = "publishes" /\ pipe_read' = pipe_read + rd.n /\ rd' = [rd EXCEPT !.at = "wakes"]
    /\ UNCHANGED <<ring, pipe_written, write_closed, read_closed, reader, writer, wr, pipe_got>>
\* ... and the writer woken.
read_wakes ==
    /\ rd.at = "wakes" /\ WakesWriter /\ rd' = [rd EXCEPT !.at = "run", !.n = 0, !.seen = 0]
    /\ UNCHANGED <<ring, pipe_written, pipe_read, write_closed, read_closed, reader, pipe_got>>
\* close_read, as the reading end is dropped.
close_read ==
    /\ MayLeave /\ rd.at \in {"run", "waits", "end"} /\ ~read_closed /\ read_closed' = TRUE /\ rd' = [rd EXCEPT !.at = "leaves"]
    /\ UNCHANGED <<ring, pipe_written, pipe_read, write_closed, reader, writer, wr, pipe_got>>
close_read_wakes ==
    /\ rd.at = "leaves" /\ WakesWriter /\ rd' = [rd EXCEPT !.at = "gone"]
    /\ UNCHANGED <<ring, pipe_written, pipe_read, write_closed, read_closed, reader, pipe_got>>

\* Pipe::poll_write: fails once an end is closed, ...
pipe_poll_write ==
    /\ Polled(wr) /\ pipe_written < PipeMaxBytes
    /\ wr' = [wr EXCEPT !.woken = FALSE, !.at = IF read_closed \/ write_closed THEN "failed" ELSE "looks"]
    /\ UNCHANGED <<ring, pipe_written, pipe_read, write_closed, read_closed, reader, writer, rd, pipe_got>>
write_looks ==
    /\ wr.at = "looks"
    /\ wr' = [wr EXCEPT !.seen = pipe_read, !.at = IF pipe_written - pipe_read = cap THEN "registers" ELSE "copies"]
    /\ UNCHANGED <<ring, pipe_written, pipe_read, write_closed, read_closed, reader, writer, rd, pipe_got>>
\* ... waits for room, ...
write_registers ==
    /\ wr.at = "registers" /\ writer' = TRUE /\ wr' = [wr EXCEPT !.at = "again"]
    /\ UNCHANGED <<ring, pipe_written, pipe_read, write_closed, read_closed, reader, rd, pipe_got>>
write_again ==
    /\ wr.at = "again"
    /\ wr' = [wr EXCEPT !.seen = pipe_read, !.at = IF pipe_written - pipe_read = cap THEN "again_closed" ELSE "copies"]
    /\ UNCHANGED <<ring, pipe_written, pipe_read, write_closed, read_closed, reader, writer, rd, pipe_got>>
write_again_closed ==
    /\ wr.at = "again_closed" /\ wr' = [wr EXCEPT !.at = IF read_closed THEN "failed" ELSE "waits"]
    /\ UNCHANGED <<ring, pipe_written, pipe_read, write_closed, read_closed, reader, writer, rd, pipe_got>>
\* ... or copies in what fits.
write_copies ==
    /\ wr.at = "copies"
    /\ \E len \in 1 .. MaxLen:
         LET n == Min({cap - (pipe_written - wr.seen), len, PipeMaxBytes - pipe_written})
         IN /\ wr' = [wr EXCEPT !.n = n, !.at = "publishes"]
            /\ ring' = [p \in 0 .. cap - 1 |->
                          LET I == {i \in 0 .. n - 1: Place(pipe_written, i) = p} IN IF I = {} THEN ring[p] ELSE pipe_written + 1 + Max(I)]
    /\ UNCHANGED <<pipe_written, pipe_read, write_closed, read_closed, reader, writer, rd, pipe_got>>
write_publishes ==
    /\ wr.at = "publishes" /\ pipe_written' = pipe_written + wr.n /\ wr' = [wr EXCEPT !.at = "wakes"]
    /\ UNCHANGED <<ring, pipe_read, write_closed, read_closed, reader, writer, rd, pipe_got>>
write_wakes ==
    /\ wr.at = "wakes" /\ WakesReader /\ wr' = [wr EXCEPT !.at = "run", !.n = 0, !.seen = 0]
    /\ UNCHANGED <<ring, pipe_written, pipe_read, write_closed, read_closed, writer, pipe_got>>
\* close_write, by poll_close or as the writing end is dropped.
close_write ==
    /\ wr.at \in {"run", "waits", "failed"} /\ ~write_closed /\ write_closed' = TRUE /\ wr' = [wr EXCEPT !.at = "leaves"]
    /\ UNCHANGED <<ring, pipe_written, pipe_read, read_closed, reader, writer, rd, pipe_got>>
close_write_wakes ==
    /\ wr.at = "leaves" /\ WakesReader /\ wr' = [wr EXCEPT !.at = "gone"]
    /\ UNCHANGED <<ring, pipe_written, pipe_read, write_closed, read_closed, writer, pipe_got>>

Reads == pipe_poll_read \/ read_closed_looks \/ read_registers \/ read_again \/ read_again_closed
         \/ read_copies \/ read_publishes \/ read_wakes \/ close_read \/ close_read_wakes
Writes == pipe_poll_write \/ write_looks \/ write_registers \/ write_again \/ write_again_closed
          \/ write_copies \/ write_publishes \/ write_wakes \/ close_write \/ close_write_wakes
PipeNext == Reads \/ Writes
PipeSpec == PipeInit /\ [][PipeNext]_pipe_vars

-----------------------------------------------------------------------------
(* The reader gets the bytes written, each once and in order: no copy into the ring
   (poll_write) overtakes the copy out of it (poll_read), over the ring's end too. *)
PipeInOrder == pipe_got = [i \in 1 .. Len(pipe_got) |-> i]

(* An end that waits with nobody about to wake it has nothing to wake for: the ring is
   empty and open for the reader, full with its reader there for the writer. *)
PipeWakes ==
    /\ rd.at = "waits" /\ ~rd.woken /\ wr.at \notin {"publishes", "wakes", "leaves"} => pipe_written = pipe_read /\ ~write_closed
    /\ wr.at = "waits" /\ ~wr.woken /\ rd.at \notin {"publishes", "wakes", "leaves"} => pipe_written - pipe_read = cap /\ ~read_closed

(* The reader sees the end only after everything that was written: poll_read answers 0
   once the writing end closed and the ring is empty. *)

------------------------------------------------------------------------------
(***************************************************************************)
(* The standard streams (io/util/stdio.rs): a blocking stream whose reads, *)
(* writes and flushes run on the blocking pool, one at a time. Byte i the  *)
(* stream gives, or the caller writes, is i; a byte that was only zeroed   *)
(* is 0.                                                                   *)
(***************************************************************************)

CONSTANTS
    Kinds,         \* the streams: "in", "out"
    MAX_BUF,       \* the most bytes one blocking call moves
    StdioMaxWant,       \* bound: bytes of a call
    StdioMaxBytes,      \* bound: bytes given or written
    MaxFails,      \* bound: blocking calls that fail
    JobsDie        \* a job may not come back

VARIABLES
    stdio_kind,
    stdio_at,            \* Blocking: "idle", "busy" or "gone"
    stdio_buf, stdio_pos,      \* bytes read and not handed out; what is being written
    job,           \* the operation on the pool: op, want, done, result
    stdio_given, stdio_got,    \* of input: bytes the stream gave, bytes handed out
    taken, put, stdio_flushed,   \* of output: bytes answered, bytes the stream has, those flushed
    fails, owed,   \* failures; one not reported yet
    call           \* the call under way, with its answer

stdio_vars == <<stdio_kind, stdio_at, stdio_buf, stdio_pos, job, stdio_given, stdio_got, taken, put, stdio_flushed, fails, owed, call>>

-----------------------------------------------------------------------------
NoJob == [op |-> "none", want |-> 0, done |-> FALSE, result |-> "ok"]
\* Blocking::new.
StdioInit ==
    /\ stdio_kind \in Kinds /\ stdio_at = "idle" /\ stdio_buf = <<>> /\ stdio_pos = 0 /\ job = NoJob
    /\ stdio_given = 0 /\ stdio_got = <<>> /\ taken = 0 /\ put = 0 /\ stdio_flushed = 0 /\ fails = 0 /\ owed = FALSE
    /\ call = [op |-> "none", n |-> 0, is |-> "ok"]

\* Blocking::start: the stream and its buffer go to a job.
start(op, want) == stdio_at' = "busy" /\ job' = [op |-> op, want |-> want, done |-> FALSE, result |-> "ok"]
StdioAnswers(is, n) == call' = [op |-> "none", n |-> n, is |-> is]
\* poll_idle of a job that ended: the stream is back, or lost.
Back == IF job.result = "died" THEN "gone" ELSE "idle"

\* The job runs, on the pool: external.
Fails(may) == {"ok"} \union (IF may /\ fails < MaxFails THEN {"err"} ELSE {}) \union (IF JobsDie /\ fails < MaxFails THEN {"died"} ELSE {})
Ran(r) == /\ job' = [job EXCEPT !.done = TRUE, !.result = r]
          /\ fails' = fails + IF r = "ok" THEN 0 ELSE 1
          /\ owed' = IF r = "ok" THEN owed ELSE TRUE
\* inner.read: the buffer is sized and zeroed first, and truncated to what came: a read that
\* fails leaves the zeros.
read_runs ==
    /\ job.op = "read" /\ ~job.done
    /\ \E r \in Fails(TRUE):
          /\ Ran(r)
          /\ IF r # "ok" THEN stdio_buf' = [i \in 1 .. job.want |-> 0] /\ UNCHANGED stdio_given
             ELSE \E n \in 0 .. Min({job.want, StdioMaxBytes - stdio_given}): stdio_buf' = [i \in 1 .. n |-> stdio_given + i] /\ stdio_given' = stdio_given + n
    /\ UNCHANGED <<stdio_kind, stdio_at, stdio_pos, stdio_got, taken, put, stdio_flushed, call>>
\* inner.write_all: some went when it fails.
write_runs ==
    /\ job.op = "write" /\ ~job.done
    /\ \E r \in Fails(TRUE):
          Ran(r) /\ IF r = "ok" THEN put' = put + Len(stdio_buf) ELSE \E n \in 0 .. Len(stdio_buf): put' = put + n
    /\ UNCHANGED <<stdio_kind, stdio_at, stdio_buf, stdio_pos, stdio_given, stdio_got, taken, stdio_flushed, call>>
flush_runs ==
    /\ job.op = "flush" /\ ~job.done
    /\ \E r \in Fails(TRUE): Ran(r) /\ stdio_flushed' = (IF r = "ok" THEN put ELSE stdio_flushed)
    /\ stdio_buf' = <<>> /\ UNCHANGED <<stdio_kind, stdio_at, stdio_pos, stdio_given, stdio_got, taken, put, call>>

\* A call is made; a call may be dropped while it waits, and the next is another.
asks ==
    /\ call.op = "none" \/ (call.op # "none" /\ stdio_at = "busy" /\ ~job.done)
    /\ \E op \in IF stdio_kind = "in" THEN {"read"} ELSE {"write", "flush"}, n \in 1 .. StdioMaxWant:
          /\ op = "write" => taken + n <= StdioMaxBytes
          /\ op = "flush" => n = 1
          /\ call' = [op |-> op, n |-> n, is |-> "ok"] /\ call' # call
    /\ UNCHANGED <<stdio_kind, stdio_at, stdio_buf, stdio_pos, job, stdio_given, stdio_got, taken, put, stdio_flushed, fails, owed>>
\* poll_read: what one blocking read gave, the rest on later reads.
stdio_poll_read ==
    /\ call.op = "read"
    /\ CASE stdio_at = "idle" /\ stdio_pos < Len(stdio_buf) ->
              LET n == Min({Len(stdio_buf) - stdio_pos, call.n})
              IN /\ stdio_got' = stdio_got \o [i \in 1 .. n |-> stdio_buf[stdio_pos + i]] /\ stdio_pos' = stdio_pos + n /\ StdioAnswers("ok", n) /\ UNCHANGED <<stdio_at, job, owed>>
         [] stdio_at = "idle" /\ stdio_pos >= Len(stdio_buf) -> start("read", Min({call.n, MAX_BUF})) /\ UNCHANGED <<stdio_pos, stdio_got, owed, call>>
         [] stdio_at = "busy" -> /\ job.done /\ stdio_at' = Back /\ stdio_pos' = 0 /\ job' = NoJob /\ owed' = FALSE /\ UNCHANGED stdio_got
                           /\ IF job.result # "ok" THEN StdioAnswers("err", 0) ELSE IF stdio_buf = <<>> THEN StdioAnswers("ok", 0) ELSE UNCHANGED call
         [] stdio_at = "gone" -> StdioAnswers("err", 0) /\ UNCHANGED <<stdio_at, job, stdio_pos, stdio_got, owed>>
    /\ UNCHANGED <<stdio_kind, stdio_buf, stdio_given, taken, put, stdio_flushed, fails>>
\* poll_write waits for the job before it, reports its failure, ...
poll_write_waits ==
    /\ call.op = "write" /\ stdio_at = "busy" /\ job.done /\ stdio_at' = Back /\ stdio_pos' = 0 /\ job' = NoJob /\ owed' = FALSE
    /\ IF job.result # "ok" THEN StdioAnswers("err", 0) ELSE UNCHANGED call
    /\ UNCHANGED <<stdio_kind, stdio_buf, stdio_given, stdio_got, taken, put, stdio_flushed, fails>>
\* ... and is answered as its bytes are copied for the next job.
stdio_poll_write ==
    /\ call.op = "write"
    /\ IF stdio_at = "gone" THEN StdioAnswers("err", 0) /\ UNCHANGED <<stdio_at, stdio_buf, job, taken>>
       ELSE LET n == Min({call.n, MAX_BUF})
            IN /\ stdio_at = "idle" /\ stdio_buf' = [i \in 1 .. n |-> taken + i] /\ start("write", n) /\ taken' = taken + n /\ StdioAnswers("ok", n)
    /\ UNCHANGED <<stdio_kind, stdio_pos, stdio_given, stdio_got, put, stdio_flushed, fails, owed>>
\* poll_flush: a write before it is followed by a flush; an empty buffer says the flush ran.
stdio_poll_flush ==
    /\ call.op = "flush"
    /\ CASE stdio_at = "idle" -> start("flush", 0) /\ UNCHANGED <<stdio_pos, owed, call>>
         [] stdio_at = "busy" -> /\ job.done /\ stdio_pos' = 0 /\ owed' = FALSE
                           /\ CASE job.result # "ok" -> stdio_at' = Back /\ job' = NoJob /\ StdioAnswers("err", 0)
                                [] job.result = "ok" /\ stdio_buf = <<>> -> stdio_at' = Back /\ job' = NoJob /\ StdioAnswers("flushed", 0)
                                [] OTHER -> start("flush", 0) /\ UNCHANGED call
         [] stdio_at = "gone" -> StdioAnswers("err", 0) /\ UNCHANGED <<stdio_at, job, stdio_pos, owed>>
    /\ UNCHANGED <<stdio_kind, stdio_buf, stdio_given, stdio_got, taken, put, stdio_flushed, fails>>

StdioNext == read_runs \/ write_runs \/ flush_runs \/ asks \/ stdio_poll_read \/ poll_write_waits \/ stdio_poll_write \/ stdio_poll_flush
StdioSpec == StdioInit /\ [][StdioNext]_stdio_vars

-----------------------------------------------------------------------------
\* What the stream gave and no read handed out yet
Unread == IF stdio_at = "idle" THEN SubSeq(stdio_buf, stdio_pos + 1, Len(stdio_buf)) ELSE IF stdio_at = "busy" /\ job.done THEN stdio_buf ELSE <<>>
Given(bytes) == SelectSeq(bytes, LAMBDA b: b # 0)
(* Of standard input every byte the stream gave is handed out, once and in order, or is still
   in the buffer; a byte it never gave is handed out only after a blocking read that failed,
   at most that read's buffer of them (Blocking::poll_read, which zeroes the buffer first and
   leaves it as it is on an error). *)
InputTrue ==
    stdio_kind = "in" => /\ Given(stdio_got \o Unread) = [i \in 1 .. stdio_given |-> i]
                   /\ Len(stdio_got) - Len(Given(stdio_got)) <= fails * MAX_BUF

(* Standard input hands out only bytes the stream gave, in order: what io/util/stdio.rs says
   of a read ("takes what one blocking read gave and hands the rest out on later reads"). *)
InputExact == stdio_got = [i \in 1 .. Len(stdio_got) |-> i]

(* A flush that answered leaves nothing of the writes answered before it unwritten or
   unflushed, and a write that failed was reported: by the next write, flush or close. *)
FlushTrue ==
    /\ call.is = "flushed" => stdio_flushed = put /\ (fails = 0 => put = taken)
    /\ owed => stdio_at = "busy"
==============================================================================
