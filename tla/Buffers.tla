------------------------------ MODULE Buffers ------------------------------
(***************************************************************************)
(* A thread's pool of IO buffers (buf/mod.rs): its free lists and its      *)
(* ledger, used by the pool's own thread, and its Home, where any thread   *)
(* gives a buffer back and wakes whoever waits for one.                    *)
(*                                                                         *)
(* Buffers of one class are alike; a buffer is named, and has a size while *)
(* the pool has its memory. What a buffer holds is modelled further below. *)
(***************************************************************************)
EXTENDS Integers, Sequences, FiniteSetsExt, SequencesExt, TLC, FiniteSets

CONSTANTS
    Bufs,          \* buffers
    PoolThreads,       \* threads that are not the pool's
    Sides,         \* the sides of sources, which wait for a buffer
    None,
    CLASSES,       \* the sizes of the classes, smallest first
    Wholes,        \* lengths larger than every class that are asked for
    Caps,          \* what `new' and `hold_to' hold the pool to
    Groups,        \* what `reserve' charges
    MayFail,       \* the allocator may have no memory
    MaxOps         \* bound: calls that take memory or move the cap

VARIABLES
    pool,          \* Pool: cap, reserved, charged, and whether it is there
    fallback,      \* the thread runs no shard: its pool is FALLBACK
    pool_size,          \* per buffer: its size, 0 for none
    pool_at,            \* per buffer: "none", "out", "free" or "returned"
    home,          \* Home: the waiting flag and the waiters
    own,           \* where the pool's thread is, in a call that others see the steps of
    giver,         \* per other thread: where it is in give_back
    side,          \* per side: "runs", "waits" or "woken"
    pool_ops

pool_vars == <<pool, fallback, pool_size, pool_at, home, own, giver, side, pool_ops>>

-----------------------------------------------------------------------------
PoolSizeOf(B) == MapThenSumSet(LAMBDA b: pool_size[b], B)
In(place) == {b \in Bufs: pool_at[b] = place}

\* top_for, class_for: the largest class that fits the room, the smallest that holds len.
top_for(room) == Max({0} \union {c \in DOMAIN CLASSES: CLASSES[c] <= room})
class_for(len) == Min({Len(CLASSES)} \union {c \in DOMAIN CLASSES: CLASSES[c] >= len})
PoolRoom(p) == p.cap - p.reserved
AtLeastOne(cap) == Max({cap, CLASSES[1]})
could_hold_whole(len) == (IF len <= CLASSES[Len(CLASSES)] THEN CLASSES[class_for(len)] ELSE len) <= PoolRoom(pool)

new(cap) == [cap |-> AtLeastOne(cap), reserved |-> 0, charged |-> 0, there |-> TRUE]
PoolInit ==
    /\ pool \in {new(cap): cap \in Caps} /\ fallback \in BOOLEAN
    /\ pool_size = [b \in Bufs |-> 0] /\ pool_at = [b \in Bufs |-> "none"]
    /\ home = [waiting |-> FALSE, waiters |-> <<>>]
    /\ own = [at |-> "run", side |-> None] /\ giver = [t \in PoolThreads |-> "no"]
    /\ side = [s \in Sides |-> "runs"] /\ pool_ops = 0

-----------------------------------------------------------------------------
\* make_room: idle buffers are freed, the largest first, until the bytes fit.
Largest(B) == SetToSortSeq(B, LAMBDA a, b: pool_size[a] > pool_size[b])
Fits(p, freed, bytes) == p.charged - PoolSizeOf(freed) + bytes <= p.cap
make_room(p, idle, bytes) ==
    LET order == Largest(idle)
        firsts == {Range(SubSeq(order, 1, n)): n \in 0 .. Len(order)}
        enough == {F \in firsts: Fits(p, F, bytes)}
    IN IF enough = {} THEN [freed |-> idle, fits |-> FALSE]
       ELSE [freed |-> CHOOSE F \in enough: \A G \in enough: Cardinality(F) <= Cardinality(G), fits |-> TRUE]
Frees(F, a) == [b \in Bufs |-> IF b \in F THEN "none" ELSE a[b]]
Unsized(F) == [b \in Bufs |-> IF b \in F THEN 0 ELSE pool_size[b]]
release(p, bytes) == [p EXCEPT !.charged = @ - bytes]

\* charge: the bytes are counted if they fit.
pool_charge(p, idle, bytes) ==
    LET room == make_room(p, idle, bytes)
        left == release(p, PoolSizeOf(room.freed))
    IN [freed |-> room.freed, fits |-> room.fits, pool |-> IF room.fits THEN [left EXCEPT !.charged = @ + bytes] ELSE left]

\* take_returned: those given back go to their free lists, the wholes to the allocator.
IsWhole(b) == pool_size[b] > CLASSES[Len(CLASSES)]
TakenWholes == {b \in In("returned"): IsWhole(b)}
take_returned(a) == [b \in Bufs |-> IF pool_at[b] # "returned" THEN a[b] ELSE IF IsWhole(b) THEN "none" ELSE "free"]
take_wholes(p) == release(p, PoolSizeOf(TakenWholes))

\* allocate: charged first; released again if the allocator has none.
allocate(p, idle, a, gone, bytes) ==
    LET c == pool_charge(p, idle, bytes)
        gone2 == gone \union c.freed
    IN \/ /\ c.fits /\ \E b \in In("none"):
                /\ pool' = c.pool /\ pool_at' = [Frees(c.freed, a) EXCEPT ![b] = "out"]
                /\ pool_size' = [Unsized(gone2) EXCEPT ![b] = bytes]
       \/ /\ ~c.fits \/ MayFail
          /\ pool' = IF c.fits THEN release(c.pool, bytes) ELSE c.pool
          /\ pool_at' = Frees(c.freed, a) /\ pool_size' = Unsized(gone2)

\* get_class: the free list, then what came back, then the allocator.
get_class(class) ==
    LET bytes == CLASSES[class]
        free == {b \in In("free"): pool_size[b] = bytes}
        back == {b \in In("returned"): pool_size[b] = bytes}
    IN CASE free # {} -> \E b \in free: pool_at' = [pool_at EXCEPT ![b] = "out"] /\ UNCHANGED <<pool, pool_size>>
         [] free = {} /\ back # {} ->
              \E b \in back: /\ pool_at' = [take_returned(pool_at) EXCEPT ![b] = "out"] /\ pool' = take_wholes(pool)
                             /\ pool_size' = Unsized(TakenWholes)
         [] OTHER -> LET a == take_returned(pool_at)
                     IN allocate(take_wholes(pool), {b \in Bufs: a[b] = "free"}, a, TakenWholes, bytes)

Calls == own.at = "run" /\ pool.there /\ pool_ops < MaxOps /\ pool_ops' = pool_ops + 1
Side(s) == side[s] # "waits"
\* What a call found: a buffer, or none, and then the side may wait.
Asked(s) == own' = IF In("out") \subseteq {b \in Bufs: pool_at'[b] = "out"} /\ Cardinality({b \in Bufs: pool_at'[b] = "out"}) > Cardinality(In("out"))
                   THEN own ELSE [at |-> "wait", side |-> s]
get(s, len) ==
    /\ Calls /\ Side(s) /\ top_for(PoolRoom(pool)) # 0 /\ get_class(Min({class_for(len), top_for(PoolRoom(pool))}))
    /\ Asked(s) /\ UNCHANGED <<fallback, home, giver, side>>
\* get_whole: all of the bytes, in a buffer made for them if no class holds them.
get_whole(s, len) ==
    /\ Calls /\ Side(s) /\ could_hold_whole(len)
    /\ LET a == take_returned(pool_at)
       IN IF len <= CLASSES[Len(CLASSES)] THEN get_class(class_for(len))
          ELSE allocate(take_wholes(pool), {b \in Bufs: a[b] = "free"}, a, TakenWholes, len)
    /\ Asked(s) /\ UNCHANGED <<fallback, home, giver, side>>

\* reserve and unreserve: the receive group's bytes.
reserve(bytes) ==
    /\ Calls /\ pool.reserved + bytes + CLASSES[1] <= pool.cap
    /\ LET c == pool_charge(pool, In("free"), bytes)
       IN /\ pool' = IF c.fits THEN [c.pool EXCEPT !.reserved = @ + bytes] ELSE c.pool
          /\ pool_at' = Frees(c.freed, pool_at) /\ pool_size' = Unsized(c.freed)
    /\ UNCHANGED <<fallback, home, own, giver, side>>
unreserve ==
    /\ own.at = "run" /\ pool.there /\ pool.reserved > 0
    /\ \E bytes \in Groups:
          LET n == Min({bytes, pool.reserved}) IN pool' = [release(pool, n) EXCEPT !.reserved = @ - n]
    /\ UNCHANGED <<fallback, pool_size, pool_at, home, own, giver, side, pool_ops>>
\* hold_to: a new cap; what is idle past it is freed now.
hold_to(cap) ==
    /\ fallback /\ Calls
    /\ LET p == [pool EXCEPT !.cap = Max({AtLeastOne(cap), pool.reserved + CLASSES[1]})]
           room == make_room(p, In("free"), 0)
       IN pool' = release(p, PoolSizeOf(room.freed)) /\ pool_at' = Frees(room.freed, pool_at) /\ pool_size' = Unsized(room.freed)
    /\ UNCHANGED <<fallback, home, own, giver, side>>

-----------------------------------------------------------------------------
\* wake_waiters: the flag is taken, then the waiters are woken one by one.
Wakes == home.waiting
TakeFlag == home' = [home EXCEPT !.waiting = FALSE]
PopWakes == /\ home' = [home EXCEPT !.waiters = Tail(@)]
            /\ side' = [side EXCEPT ![Head(home.waiters)] = "woken"]

\* take_back: a buffer dropped on its pool's own thread.
pool_take_back(b) ==
    /\ own.at = "run" /\ pool.there /\ ~fallback /\ pool_at[b] = "out"
    /\ IF IsWhole(b) THEN /\ pool' = release(pool, pool_size[b]) /\ pool_at' = [pool_at EXCEPT ![b] = "none"] /\ pool_size' = Unsized({b})
       ELSE pool_at' = [pool_at EXCEPT ![b] = "free"] /\ UNCHANGED <<pool, pool_size>>
    /\ IF Wakes THEN TakeFlag /\ own' = [own EXCEPT !.at = "pops"] ELSE UNCHANGED <<home, own>>
    /\ UNCHANGED <<fallback, giver, side, pool_ops>>
own_pops ==
    /\ own.at = "pops"
    /\ IF home.waiters # <<>> THEN PopWakes /\ UNCHANGED own
       ELSE own' = [at |-> "run", side |-> None] /\ UNCHANGED <<home, side>>
    /\ UNCHANGED <<pool, fallback, pool_size, pool_at, giver, pool_ops>>

\* give_back: the push; then, past the fence, the look at the flag.
pool_give_back(t) ==
    /\ giver[t] = "no" /\ \E b \in In("out"): pool_at' = [pool_at EXCEPT ![b] = "returned"]
    /\ giver' = [giver EXCEPT ![t] = "look"] /\ UNCHANGED <<pool, fallback, pool_size, home, own, side, pool_ops>>
give_back_looks(t) ==
    /\ giver[t] = "look"
    /\ IF Wakes THEN TakeFlag /\ giver' = [giver EXCEPT ![t] = "pops"]
       ELSE giver' = [giver EXCEPT ![t] = "no"] /\ UNCHANGED home
    /\ UNCHANGED <<pool, fallback, pool_size, pool_at, own, side, pool_ops>>
giver_pops(t) ==
    /\ giver[t] = "pops"
    /\ IF home.waiters # <<>> THEN PopWakes /\ UNCHANGED giver
       ELSE giver' = [giver EXCEPT ![t] = "no"] /\ UNCHANGED <<home, side>>
    /\ UNCHANGED <<pool, fallback, pool_size, pool_at, own, pool_ops>>
\* A buffer of the fallback pool dropped on its own thread: given back as by another.
fallback_gives(b) ==
    /\ own.at = "run" /\ fallback /\ pool_at[b] = "out" /\ pool_at' = [pool_at EXCEPT ![b] = "returned"]
    /\ IF Wakes THEN TakeFlag /\ own' = [own EXCEPT !.at = "pops"] ELSE UNCHANGED <<home, own>>
    /\ UNCHANGED <<pool, fallback, pool_size, giver, side, pool_ops>>

\* wait_for_return: nothing out comes back at all, or the waiter is pushed, the flag raised, ...
wait_for_return ==
    /\ own.at = "wait"
    /\ IF pool.charged = pool.reserved
       THEN side' = [side EXCEPT ![own.side] = "woken"] /\ own' = [at |-> "run", side |-> None] /\ UNCHANGED home
       ELSE /\ home' = [home EXCEPT !.waiters = Append(@, own.side)] /\ own' = [own EXCEPT !.at = "flag"]
            /\ side' = [side EXCEPT ![own.side] = "waits"]
    /\ UNCHANGED <<pool, fallback, pool_size, pool_at, giver, pool_ops>>
wait_flags ==
    /\ own.at = "flag" /\ home' = [home EXCEPT !.waiting = TRUE] /\ own' = [own EXCEPT !.at = "looks"]
    /\ UNCHANGED <<pool, fallback, pool_size, pool_at, giver, side, pool_ops>>
\* ... and past the fence what came back since is looked for.
wait_looks ==
    /\ own.at = "looks"
    /\ IF (In("free") # {} \/ In("returned") # {}) /\ Wakes THEN TakeFlag /\ own' = [own EXCEPT !.at = "pops"]
       ELSE own' = [at |-> "run", side |-> None] /\ UNCHANGED home
    /\ UNCHANGED <<pool, fallback, pool_size, pool_at, giver, side, pool_ops>>

\* Pool::drop: the idle buffers are freed, the waiters woken; Home frees what comes back.
pool_drop ==
    /\ own.at = "run" /\ pool.there /\ pool' = [pool EXCEPT !.there = FALSE]
    /\ pool_at' = Frees(In("free"), pool_at) /\ pool_size' = Unsized(In("free"))
    /\ IF Wakes THEN TakeFlag /\ own' = [own EXCEPT !.at = "pops"] ELSE UNCHANGED <<home, own>>
    /\ UNCHANGED <<fallback, giver, side, pool_ops>>
home_drop ==
    /\ ~pool.there /\ own.at = "run" /\ In("out") = {} /\ \A t \in PoolThreads: giver[t] = "no"
    /\ In("returned") # {} /\ pool_at' = Frees(In("returned"), pool_at) /\ pool_size' = Unsized(In("returned"))
    /\ UNCHANGED <<pool, fallback, home, own, giver, side, pool_ops>>

PoolNext ==
    \/ \E s \in Sides: (\E c \in DOMAIN CLASSES: get(s, CLASSES[c])) \/ (\E len \in Wholes: get_whole(s, len))
    \/ (\E bytes \in Groups: reserve(bytes)) \/ unreserve \/ (\E cap \in Caps: hold_to(cap))
    \/ (\E b \in Bufs: pool_take_back(b) \/ fallback_gives(b)) \/ own_pops
    \/ \E t \in PoolThreads: pool_give_back(t) \/ give_back_looks(t) \/ giver_pops(t)
    \/ wait_for_return \/ wait_flags \/ wait_looks \/ pool_drop \/ home_drop
PoolSpec == PoolInit /\ [][PoolNext]_pool_vars

-----------------------------------------------------------------------------
(* The ledger is true: what the pool counts is the bytes of every buffer it took
   from the allocator, in use, free or on its way back, and the reservation; and it
   takes no byte past the cap of its last call. *)
LedgerTrue ==
    /\ pool.there => pool.charged = pool.reserved + PoolSizeOf(Bufs)
    /\ \A b \in Bufs: (pool_at[b] = "none") = (pool_size[b] = 0)

(* No memory is taken past the cap: a pool that grows is under it. *)
UnderCap == pool'.charged > pool.charged => pool'.charged <= pool'.cap

(* A side waits for a buffer only while one is out, or a thread that gave one back
   has yet to look at the flag or to wake the waiters: no return is missed. *)
ReturnTold ==
    \A s \in Sides: (side[s] = "waits" /\ own.at = "run") =>
        In("out") # {} \/ \E t \in PoolThreads: giver[t] # "no"

------------------------------------------------------------------------------
(***************************************************************************)
(* The bytes of the buffers a call works on: a pool's buffer, a window of  *)
(* filled bytes over its memory (PoolBuf, buf/mod.rs), and the caller's    *)
(* own, one or several, read into or written from (OwnedBuf, Vectored,     *)
(* AlignedBuf: buf/owned.rs, buf/vectored.rs, buf/aligned.rs).             *)
(*                                                                         *)
(* Each is an algorithm on indices; the reference beside it is a sequence. *)
(* A byte is a number, given out in order, so that two are never mistaken. *)
(***************************************************************************)

CONSTANTS
    Forms,         \* which buffer: "pool", "read", "write"
    BYTES_CAP,           \* a buffer's size
    IOV_MAX,       \* slices a vectored call hands the kernel
    Shapes,        \* the caller's buffers: for each, <<bytes it holds, its capacity>>
    Types,         \* the caller's buffer types: "Vec", "Aligned", "Own", "OwnedBuf"
    MaxBytes       \* bound: bytes moved

VARIABLES
    form,
    bytes_p,             \* PoolBuf: mem, start, end
    v,             \* the caller's buffers: mem, len, cap and the count held at first, each
    bytes_back,          \* the type handed in, how it is kept, and the type that came back
    next,          \* the next byte
    from,          \* the bytes of a write that went out
    model          \* the reference: the unread bytes; those read; those sent

bytes_vars == <<form, bytes_p, v, bytes_back, next, from, model>>

-----------------------------------------------------------------------------
BytesFresh(n) == [i \in 1 .. n |-> next + i - 1]
Zeros(n) == [i \in 1 .. n |-> 0]
\* bytes laid over mem after the first at.
BytesOver(mem, at, bytes) == [i \in DOMAIN mem |-> IF i > at /\ i <= at + Len(bytes) THEN bytes[i - at] ELSE mem[i]]
Drops(s, n) == SubSeq(s, n + 1, Len(s))
Firsts(s, n) == SubSeq(s, 1, n)
Less(a, b) == IF a > b THEN a - b ELSE 0

-----------------------------------------------------------------------------
\* PoolBuf.
filled(b) == SubSeq(b.mem, b.start + 1, b.end)
spare(b) == [b EXCEPT !.start = 0, !.end = 0]
set_filled(b, n) == [b EXCEPT !.start = 0, !.end = Min({n, BYTES_CAP})]
set_filled_at(b, f, n) == LET s == Min({f, BYTES_CAP}) IN [b EXCEPT !.start = s, !.end = Min({s + n, BYTES_CAP})]
\* fill_at: as many as fit from there; what it held is gone.
FitsAt(f, bytes) == Min({Len(bytes), Less(BYTES_CAP, f)})
fill_at(b, f, bytes) ==
    LET n == FitsAt(f, bytes)
    IN set_filled_at([spare(b) EXCEPT !.mem = BytesOver(@, f, Firsts(bytes, n))], f, n)
fill_from(b, bytes) ==
    LET n == Min({Len(bytes), BYTES_CAP}) IN set_filled([spare(b) EXCEPT !.mem = BytesOver(@, 0, Firsts(bytes, n))], n)
\* append: the unread bytes go to the front first, when that makes room.
append(b, bytes) ==
    LET moved == IF b.start > 0 /\ b.end + Len(bytes) > BYTES_CAP
                 THEN [mem |-> BytesOver(b.mem, 0, filled(b)), start |-> 0, end |-> b.end - b.start] ELSE b
        n == Min({BYTES_CAP - moved.end, Len(bytes)})
    IN [to |-> [moved EXCEPT !.mem = BytesOver(@, moved.end, Firsts(bytes, n)), !.end = @ + n], n |-> n]
\* append_vectored: until one does not fit whole.
append_vectored(b, a, c) ==
    LET first == append(b, a)
    IN IF first.n < Len(a) THEN first ELSE LET second == append(first.to, c) IN [second EXCEPT !.n = @ + first.n]
consume(b, n) == [b EXCEPT !.start = @ + Min({n, b.end - b.start})]
peek_into(b, n) == Firsts(filled(b), Min({n, b.end - b.start}))
read_into(b, n) == consume(b, Len(peek_into(b, n)))

PoolStep ==
    /\ form = "pool" /\ UNCHANGED <<form, v, bytes_back, from>>
    /\ \/ \E n \in 1 .. 3: /\ next + n <= MaxBytes
             /\ \/ /\ bytes_p' = append(bytes_p, BytesFresh(n)).to /\ model' = model \o Firsts(BytesFresh(n), append(bytes_p, BytesFresh(n)).n)
                \/ bytes_p' = fill_from(bytes_p, BytesFresh(n)) /\ model' = Firsts(BytesFresh(n), Min({n, BYTES_CAP}))
                \/ \E f \in 0 .. BYTES_CAP + 1: bytes_p' = fill_at(bytes_p, f, BytesFresh(n)) /\ model' = Firsts(BytesFresh(n), FitsAt(f, BytesFresh(n)))
                \/ /\ n <= BYTES_CAP /\ bytes_p' = set_filled([spare(bytes_p) EXCEPT !.mem = BytesOver(@, 0, BytesFresh(n))], n) /\ model' = BytesFresh(n)
                \/ \E k \in 0 .. n:
                      LET put == append_vectored(bytes_p, Firsts(BytesFresh(n), k), Drops(BytesFresh(n), k))
                      IN bytes_p' = put.to /\ model' = model \o Firsts(BytesFresh(n), put.n)
             /\ next' = next + n
       \/ \E n \in 1 .. BYTES_CAP + 1: bytes_p' = read_into(bytes_p, n) /\ model' = Drops(model, Min({n, Len(model)})) /\ UNCHANGED next

-----------------------------------------------------------------------------
\* OwnedBuf and AlignedBuf, one of the caller's buffers.
Hands(shape) == [mem |-> Zeros(shape[2]), len |-> shape[1], cap |-> shape[2], held |-> shape[1]]
bytes_len(w) == FoldLeft(LAMBDA n, b: n + b.len, 0, w)
capacity(w) == FoldLeft(LAMBDA n, b: n + b.cap, 0, w)
bytes_of(b) == Firsts(b.mem, b.len)
rest_of(b, f) == IF f < b.len THEN SubSeq(b.mem, f + 1, b.len) ELSE <<>>
\* extend_from_slice and OwnedBuf::append: as much as the spare capacity holds.
extend(b, bytes) ==
    LET n == Min({Len(bytes), b.cap - b.len})
    IN [b EXCEPT !.mem = BytesOver(@, b.len, Firsts(bytes, n)), !.len = @ + n]

\* Vectored::rest_from: the rest of the buffer that byte is in.
RestFrom(acc, b) ==
    IF acc.found THEN acc
    ELSE IF acc.left < b.len THEN [acc EXCEPT !.found = TRUE, !.bytes = rest_of(b, acc.left)]
    ELSE [acc EXCEPT !.left = @ - b.len]
rest_from(w, f) == FoldLeft(RestFrom, [found |-> FALSE, left |-> f, bytes |-> <<>>], w).bytes
\* write_iovecs: a slice per buffer with bytes left, up to the kernel's most.
WriteIov(acc, b) ==
    IF Len(acc.iov) = IOV_MAX THEN acc
    ELSE LET bytes == rest_of(b, acc.skip)
         IN [skip |-> Less(acc.skip, b.len), iov |-> IF bytes = <<>> THEN acc.iov ELSE Append(acc.iov, bytes)]
write_iovecs(w, f) == FlattenSeq(FoldLeft(WriteIov, [skip |-> f, iov |-> <<>>], w).iov)

\* read_iovecs: the rooms, in order: which buffers, up to the kernel's most.
Rooms(w) == SelectSeq([i \in DOMAIN w |-> i], LAMBDA i: w[i].len < w[i].cap)
read_iovecs(w) == Firsts(Rooms(w), Min({IOV_MAX, Len(Rooms(w))}))
\* spare_capacity_mut: the first room.
spare_capacity(w) == Firsts(Rooms(w), Min({1, Len(Rooms(w))}))
BytesRoom(b) == b.cap - b.len
RoomOf(w, iov) == FoldLeft(LAMBDA n, i: n + BytesRoom(w[i]), 0, iov)
\* The kernel lays bytes over the rooms it was handed, and says how many.
KernelFills(w, iov, bytes) ==
    LET before(k) == RoomOf(w, Firsts(iov, k - 1))
    IN [i \in DOMAIN w |->
          IF \E k \in DOMAIN iov: iov[k] = i
          THEN LET k == CHOOSE k \in DOMAIN iov: iov[k] = i
                   mine == Firsts(Drops(bytes, Min({before(k), Len(bytes)})), Min({BytesRoom(w[i]), Less(Len(bytes), before(k))}))
               IN [w[i] EXCEPT !.mem = BytesOver(@, w[i].len, mine)]
          ELSE w[i]]
\* Vectored::set_len: counted from what each held at first, the rooms filled in order.
Takes(acc, b) ==
    LET take == Min({acc.left, b.cap - b.held})
    IN [left |-> acc.left - take, w |-> Append(acc.w, [b EXCEPT !.len = b.held + take])]
HeldSum(w) == FoldLeft(LAMBDA n, b: n + b.held, 0, w)
set_len(w, n) == FoldLeft(Takes, [left |-> Less(n, HeldSum(w)), w |-> <<>>], w).w
add_len(w, n) == set_len(w, bytes_len(w) + n)
truncate(w, n) == IF n < bytes_len(w) THEN set_len(w, n) ELSE w
\* Vectored::append: copied over the rooms, in order.
AppendOver(acc, b) ==
    LET rest == Drops(acc.bytes, acc.n)
    IN IF rest = <<>> THEN [acc EXCEPT !.w = Append(@, b)]
       ELSE LET to == extend(b, rest) IN [acc EXCEPT !.n = @ + to.len - b.len, !.w = Append(@, to)]
append_all(w, bytes) == FoldLeft(AppendOver, [bytes |-> bytes, n |-> 0, w |-> <<>>], w)
\* read_parts: what was read into each.
ReadPart(b) == SubSeq(b.mem, b.held + 1, b.len)
read_parts(w) == FlattenSeq([i \in DOMAIN w |-> ReadPart(w[i])])

ReadStep ==
    /\ form = "read" /\ bytes_back.out = "no" /\ UNCHANGED <<form, bytes_p, bytes_back, from>>
    /\ \/ \E n \in 1 .. 3: /\ next + n <= MaxBytes /\ next' = next + n
             /\ \/ \E iov \in {read_iovecs(v), spare_capacity(v)}:
                      /\ n <= RoomOf(v, iov) /\ model' = model \o BytesFresh(n)
                      /\ v' = add_len(KernelFills(v, iov, BytesFresh(n)), n)
                \/ /\ v' = append_all(v, BytesFresh(n)).w
                   /\ model' = model \o Firsts(BytesFresh(n), append_all(v, BytesFresh(n)).n)
       \/ \E n \in 0 .. Len(model): /\ v' = truncate(v, HeldSum(v) + n) /\ model' = Firsts(model, n) /\ UNCHANGED next
WriteStep ==
    /\ form = "write" /\ bytes_back.out = "no" /\ UNCHANGED <<form, bytes_p, v, bytes_back, next>>
    /\ \E bytes \in {write_iovecs(v, from), rest_from(v, from)}: \E n \in 1 .. Len(bytes):
          from' = from + n /\ model' = model \o Firsts(bytes, n)

-----------------------------------------------------------------------------
\* written and filled: how the caller's type is kept while the call has it.
Keeps(type, use) == CASE type = "Vec" -> <<"Vec">>
                      [] type = "OwnedBuf" -> <<"OwnedBuf">>
                      [] type = "Aligned" -> <<"Boxed", "Aligned">>
                      [] OTHER -> <<"Boxed", "Kept", use, type>>
written(type) == Keeps(type, "Written")
filled_as(type) == Keeps(type, "Filled")
\* into_other: the same type again, or an empty one.
into_other(kept, type, use) ==
    CASE kept[1] = "OwnedBuf" /\ type = "OwnedBuf" -> type
      [] kept[1] = "Vec" -> "empty"
      [] Len(kept) = 2 /\ kept[2] = type -> type
      [] Len(kept) = 4 /\ kept[3] = use /\ kept[4] = type -> type
      [] OTHER -> "empty"
into(kept, type, use) == IF kept[1] = "Vec" /\ type = "Vec" THEN type ELSE into_other(kept, type, use)
\* The call ends; one the kernel still holds a buffer of gives back an empty one.
GiveBack ==
    /\ form \in {"read", "write"} /\ bytes_back.out = "no"
    /\ \/ bytes_back' = [bytes_back EXCEPT !.out = into(bytes_back.kept, bytes_back.type, IF form = "read" THEN "Filled" ELSE "Written")]
       \/ bytes_back' = [bytes_back EXCEPT !.kept = <<"Vec">>, !.out = "empty"]
    /\ UNCHANGED <<form, bytes_p, v, next, from, model>>

BytesInit ==
    /\ form \in Forms
    /\ bytes_p = [mem |-> Zeros(BYTES_CAP), start |-> 0, end |-> 0]
    /\ \/ form = "read" /\ v \in {[i \in DOMAIN s |-> Hands(s[i])]: s \in Shapes}
       \/ /\ form = "write"
          /\ v \in {[i \in DOMAIN s |-> [Hands(s[i]) EXCEPT !.mem = [j \in 1 .. s[i][2] |-> 10 * i + j], !.len = s[i][2]]]: s \in Shapes}
       \/ form = "pool" /\ v = <<>>
    /\ \E type \in Types: bytes_back = [type |-> type, kept |-> IF form = "read" THEN filled_as(type) ELSE written(type), out |-> "no"]
    /\ next = 1 /\ from = 0 /\ model = <<>>
BytesNext == PoolStep \/ ReadStep \/ WriteStep \/ GiveBack
BytesSpec == BytesInit /\ [][BytesNext]_bytes_vars

-----------------------------------------------------------------------------
(* The bytes a buffer holds are those put into it, in order, less those taken: the
   window of a pool's buffer, over every fill, append, move and read; the rooms of
   the caller's buffers, over every read and copy, with what they held before left
   alone; and what went out of them, over every partial write. A buffer comes back
   as the type it was handed in as or, when the kernel keeps it, as an empty one. *)
BytesKept ==
    /\ form = "pool" => filled(bytes_p) = model
    /\ form = "read" => /\ read_parts(v) = model /\ bytes_len(v) <= capacity(v)
                        /\ \A i \in DOMAIN v: \A j \in 1 .. v[i].held: v[i].mem[j] = 0
    /\ form = "write" => model = Firsts(FlattenSeq([i \in DOMAIN v |-> bytes_of(v[i])]), from)
    /\ bytes_back.out \in {"no", bytes_back.type} \/ (bytes_back.out = "empty" /\ bytes_back.kept = <<"Vec">>)

------------------------------------------------------------------------------
(***************************************************************************)
(* The cache of small blocks (mem/mod.rs), in which tasks and counted      *)
(* state are made (mem/arc.rs, mem/rc.rs). Each thread keeps free blocks   *)
(* of its own; a block freed elsewhere is pushed onto its owner's record,  *)
(* a list linked through the blocks, closed when the thread ends and       *)
(* opened again by the next thread that claims the record.                 *)
(***************************************************************************)

CONSTANTS
    BlockThreads,
    Blocks,
    Records,
    CLOSED,  \* the head of a list whose thread ended
    BlockSizeOf,  \* per block: its class's size
    KEPT_BYTES,  \* bytes a thread keeps of a class, and a record's list holds
    MaxAllocs  \* bound: values made

VARIABLES
    lists,         \* per thread: the free blocks it keeps
    rec,           \* per thread: its record
    life,          \* per thread: "lives", or its lists "went" as it ends
    pc,            \* per thread: where it is, with the block, record and head it has
    record,        \* per record: head, bytes, claimed
    link,          \* per block: the next of the list it lies in
    block,         \* per block: "none" (the allocator's), "used", "cached", "given" or "held"
    block_owner,         \* per block: the record of the thread it came from
    count,         \* per block: the handles of the value in it (BlockArc, BlockRc)
    allocs

block_vars == <<lists, rec, life, pc, record, link, block, block_owner, count, allocs>>

-----------------------------------------------------------------------------
Idle == [at |-> "run", b |-> None, r |-> None, head |-> None, size |-> 0]
BlockInit ==
    /\ lists = [t \in BlockThreads |-> {}] /\ rec = [t \in BlockThreads |-> None] /\ life = [t \in BlockThreads |-> "lives"]
    /\ pc = [t \in BlockThreads |-> Idle]
    /\ record = [r \in Records |-> [head |-> CLOSED, bytes |-> 0, claimed |-> FALSE, made |-> FALSE]]
    /\ link = [b \in Blocks |-> None] /\ block = [b \in Blocks |-> "none"] /\ block_owner = [b \in Blocks |-> None]
    /\ count = [b \in Blocks |-> 0] /\ allocs = 0

block_kept(size) == KEPT_BYTES \div size
Bytes(B) == MapThenSumSet(LAMBDA b: BlockSizeOf[b], B)
\* The blocks of a list, by its links.
Chain(h) ==
    LET reach[n \in 0 .. Cardinality(Blocks)] ==
            IF n = 0 THEN {h} \ {None, CLOSED} ELSE reach[n - 1] \union ({link[b]: b \in reach[n - 1]} \ {None})
    IN reach[Cardinality(Blocks)]
Goes(t, to) == pc' = [pc EXCEPT ![t].at = to]
Runs(t) == pc[t].at = "run"

\* claim: a record whose thread ended, opened again, or a new one.
claim(t) ==
    /\ Runs(t) /\ life[t] = "lives" /\ rec[t] = None
    /\ \E r \in Records:
          /\ ~record[r].claimed /\ record' = [record EXCEPT ![r].claimed = TRUE, ![r].made = TRUE]
          /\ ~record[r].made => \A o \in Records: record[o].made => record[o].claimed
          /\ pc' = [pc EXCEPT ![t].at = "open", ![t].r = r]
    /\ UNCHANGED <<lists, rec, life, link, block, block_owner, count, allocs>>
claim_opens(t) ==
    /\ pc[t].at = "open" /\ record' = [record EXCEPT ![pc[t].r].head = None]
    /\ rec' = [rec EXCEPT ![t] = pc[t].r] /\ pc' = [pc EXCEPT ![t] = Idle]
    /\ UNCHANGED <<lists, life, link, block, block_owner, count, allocs>>

\* Lists::keep: below the class's bound.
keeps(t, b) == Cardinality({o \in lists[t]: BlockSizeOf[o] = BlockSizeOf[b]}) < block_kept(BlockSizeOf[b])

\* alloc: the thread's own block, one given back to it, or the allocator's.
Used(b, r) == /\ block' = [block EXCEPT ![b] = "used"] /\ block_owner' = [block_owner EXCEPT ![b] = r]
              /\ count' = [count EXCEPT ![b] = 1] /\ allocs' = allocs + 1
block_take(t, size) ==
    /\ Runs(t) /\ life[t] = "lives" /\ rec[t] # None /\ allocs < MaxAllocs
    /\ \E b \in lists[t]: BlockSizeOf[b] = size /\ lists' = [lists EXCEPT ![t] = @ \ {b}] /\ Used(b, rec[t])
    /\ UNCHANGED <<rec, life, pc, record, link>>
\* take_slow with none of the class: take_back swaps the head, ...
block_take_back(t, size) ==
    /\ Runs(t) /\ life[t] = "lives" /\ rec[t] # None /\ allocs < MaxAllocs
    /\ \A b \in lists[t]: BlockSizeOf[b] # size
    /\ IF record[rec[t]].head = None THEN pc' = [pc EXCEPT ![t].at = "fresh", ![t].size = size] /\ UNCHANGED <<record, block>>
       ELSE /\ block' = [b \in Blocks |-> IF b \in Chain(record[rec[t]].head) THEN "held" ELSE block[b]]
            /\ pc' = [pc EXCEPT ![t].at = "keeps", ![t].head = record[rec[t]].head, ![t].size = size]
            /\ record' = [record EXCEPT ![rec[t]].head = None]
    /\ UNCHANGED <<lists, rec, life, link, block_owner, count, allocs>>
\* ... keeps what its classes have room for, and takes it off the count.
take_back_keeps(t) ==
    LET taken == Chain(pc[t].head)
        sizes == {BlockSizeOf[b]: b \in taken}
        room(s) == block_kept(s) - Cardinality({o \in lists[t]: BlockSizeOf[o] = s})
    IN /\ pc[t].at = "keeps"
       /\ \E K \in SUBSET taken:
             /\ \A s \in sizes: LET n == Cardinality({b \in taken: BlockSizeOf[b] = s})
                                IN Cardinality({b \in K: BlockSizeOf[b] = s}) = Min({n, room(s)})
             /\ lists' = [lists EXCEPT ![t] = @ \union K]
             /\ block' = [b \in Blocks |-> IF b \in K THEN "cached" ELSE IF b \in taken THEN "none" ELSE block[b]]
       /\ link' = [b \in Blocks |-> IF b \in taken THEN None ELSE link[b]]
       /\ record' = [record EXCEPT ![rec[t]].bytes = @ - Bytes(taken)]
       /\ pc' = [pc EXCEPT ![t].at = "fresh", ![t].head = None]
       /\ UNCHANGED <<rec, life, block_owner, count, allocs>>
\* The block found, else one of the allocator's; owned by this thread's record either way.
take_ends(t) ==
    /\ pc[t].at = "fresh" /\ pc' = [pc EXCEPT ![t] = Idle]
    /\ \E b \in Blocks:
          /\ BlockSizeOf[b] = pc[t].size
          /\ IF \E o \in lists[t]: BlockSizeOf[o] = pc[t].size THEN b \in lists[t] ELSE block[b] = "none"
          /\ lists' = [lists EXCEPT ![t] = @ \ {b}] /\ Used(b, rec[t])
    /\ UNCHANGED <<rec, life, record, link>>
\* A thread whose lists went has none: the block has no owner.
take_gone(t) ==
    /\ Runs(t) /\ life[t] = "went" /\ allocs < MaxAllocs /\ \E b \in Blocks: block[b] = "none" /\ Used(b, None)
    /\ UNCHANGED <<lists, rec, life, pc, record, link>>

\* BlockArc::clone.
clone(b) ==
    /\ block[b] = "used" /\ count[b] = 1 /\ count' = [count EXCEPT ![b] = 2]
    /\ UNCHANGED <<lists, rec, life, pc, record, link, block, block_owner, allocs>>
\* BlockArc::drop: the last frees it.
block_drop(t, b) ==
    /\ Runs(t) /\ block[b] = "used" /\ (life[t] = "lives" => rec[t] # None)
    /\ count' = [count EXCEPT ![b] = @ - 1]
    /\ IF count[b] = 1 THEN /\ block' = [block EXCEPT ![b] = "held"]
                            /\ pc' = [pc EXCEPT ![t].at = "free", ![t].b = b, ![t].r = block_owner[b]]
       ELSE UNCHANGED <<block, pc>>
    /\ UNCHANGED <<lists, rec, life, record, link, block_owner, allocs>>

\* keep: this thread's block, or the owner's, or this thread's all the same.
Local(t, b) ==
    /\ pc' = [pc EXCEPT ![t] = Idle]
    /\ IF life[t] = "lives" /\ keeps(t, b)
       THEN lists' = [lists EXCEPT ![t] = @ \union {b}] /\ block' = [block EXCEPT ![b] = "cached"]
       ELSE block' = [block EXCEPT ![b] = "none"] /\ UNCHANGED lists
keep(t) ==
    LET b == pc[t].b
    IN /\ pc[t].at = "free"
       /\ IF pc[t].r = None \/ pc[t].r = rec[t] THEN Local(t, b) /\ UNCHANGED record
          ELSE /\ record' = [record EXCEPT ![pc[t].r].bytes = @ + BlockSizeOf[b]]
               /\ Goes(t, IF record[pc[t].r].bytes + BlockSizeOf[b] > KEPT_BYTES THEN "refused" ELSE "load")
               /\ UNCHANGED <<lists, block>>
       /\ UNCHANGED <<rec, life, link, block_owner, count, allocs>>
\* give_back undoes its count when the list is full or closed.
refused(t) ==
    /\ pc[t].at = "refused" /\ record' = [record EXCEPT ![pc[t].r].bytes = @ - BlockSizeOf[pc[t].b]]
    /\ Local(t, pc[t].b) /\ UNCHANGED <<rec, life, link, block_owner, count, allocs>>
block_give_back(t) ==
    /\ pc[t].at = "load" /\ pc' = [pc EXCEPT ![t].at = "push", ![t].head = record[pc[t].r].head]
    /\ UNCHANGED <<lists, rec, life, record, link, block, block_owner, count, allocs>>
\* The exchange: linked to the head it found, or it looks again.
give_back_push(t) ==
    LET r == pc[t].r
        b == pc[t].b
    IN /\ pc[t].at = "push"
       /\ CASE pc[t].head = CLOSED -> Goes(t, "refused") /\ UNCHANGED <<record, link, block>>
            [] pc[t].head # CLOSED /\ record[r].head = pc[t].head ->
                 /\ link' = [link EXCEPT ![b] = pc[t].head] /\ record' = [record EXCEPT ![r].head = b]
                 /\ block' = [block EXCEPT ![b] = "given"] /\ pc' = [pc EXCEPT ![t] = Idle]
            [] OTHER -> pc' = [pc EXCEPT ![t].head = record[r].head] /\ UNCHANGED <<record, link, block>>
       /\ UNCHANGED <<lists, rec, life, block_owner, count, allocs>>

\* Cache::drop: the list is closed and emptied, ...
cache_drop(t) ==
    /\ Runs(t) /\ life[t] = "lives" /\ rec[t] # None /\ life' = [life EXCEPT ![t] = "went"]
    /\ pc' = [pc EXCEPT ![t].at = "empties", ![t].head = record[rec[t]].head, ![t].r = rec[t]]
    /\ block' = [b \in Blocks |-> IF b \in Chain(record[rec[t]].head) THEN "held" ELSE block[b]]
    /\ record' = [record EXCEPT ![rec[t]].head = CLOSED] /\ UNCHANGED <<lists, rec, link, block_owner, count, allocs>>
\* ... then the record is let go of.
cache_empties(t) ==
    LET taken == Chain(pc[t].head)
    IN /\ pc[t].at = "empties" /\ Goes(t, "unclaims")
       /\ block' = [b \in Blocks |-> IF b \in taken \union lists[t] THEN "none" ELSE block[b]]
       /\ link' = [b \in Blocks |-> IF b \in taken THEN None ELSE link[b]]
       /\ lists' = [lists EXCEPT ![t] = {}]
       /\ record' = [record EXCEPT ![pc[t].r].bytes = @ - Bytes(taken)]
       /\ UNCHANGED <<rec, life, block_owner, count, allocs>>
cache_unclaims(t) ==
    /\ pc[t].at = "unclaims" /\ record' = [record EXCEPT ![pc[t].r].claimed = FALSE]
    /\ rec' = [rec EXCEPT ![t] = None] /\ pc' = [pc EXCEPT ![t] = Idle]
    /\ UNCHANGED <<lists, life, link, block, block_owner, count, allocs>>

Step(t) ==
    \/ claim(t) \/ claim_opens(t)
    \/ \E size \in {BlockSizeOf[b]: b \in Blocks}: block_take(t, size) \/ block_take_back(t, size)
    \/ take_back_keeps(t) \/ take_ends(t) \/ take_gone(t)
    \/ (\E b \in Blocks: block_drop(t, b))
    \/ keep(t) \/ refused(t) \/ block_give_back(t) \/ give_back_push(t)
    \/ cache_drop(t) \/ cache_empties(t) \/ cache_unclaims(t)
BlockNext == (\E t \in BlockThreads: Step(t)) \/ (\E b \in Blocks: clone(b))
BlockSpec == BlockInit /\ [][BlockNext]_block_vars

-----------------------------------------------------------------------------
(* Every block given back lies in the list of a record that a thread has claimed,
   once: none is lost or met twice, and none is left in a record no thread has. *)
GivenKept ==
    /\ \A r \in Records: ~record[r].claimed => record[r].head = CLOSED
    /\ {b \in Blocks: block[b] = "given"} = UNION {Chain(record[r].head): r \in Records}
    /\ \A r, q \in Records: r # q => Chain(record[r].head) \intersect Chain(record[q].head) = {}

(* The memory a record holds is bounded: its count is never below the bytes of its
   list, and its list is never past KEPT_BYTES. *)
ListBounded ==
    \A r \in Records: record[r].bytes >= Bytes(Chain(record[r].head)) /\ Bytes(Chain(record[r].head)) <= KEPT_BYTES

------------------------------------------------------------------------------
(***************************************************************************)
(* The receive buffers of a shard's ring, src/rt/shard/recv.rs, with the   *)
(* buffer ring of syscore/linux/iouring/ring/buf_ring.rs and the arrivals  *)
(* of src/rt/shard/ring/arrivals.rs: the kernel fills a buffer for a       *)
(* multishot receive, the shard hands the bytes out as a chunk, and the    *)
(* buffer goes back once its chunks are dropped, on whatever thread.       *)
(*                                                                         *)
(* With incremental buffers the kernel puts one arrival behind another in  *)
(* a buffer until it is full; else each arrival takes a buffer.  A receive *)
(* is named by the user data no other ever has.                            *)
(***************************************************************************)

CONSTANTS Receives,          \* the receives issued, one after another or, after a takeover, two at once
          Entries, SIZE,     \* the group: its buffers 0..Entries - 1 and their size
          RECV_CAP, MIN_CHARGE,
          RETURNS,             \* room in the shard's own list of returns
          Modes,             \* a subset of BOOLEAN: whether the kernel's buffers are incremental
          MaxArrivals        \* bound

VARIABLES
    incremental,
    ring, pending,           \* the buffer ring: committed buffers the kernel may take, and added ones
    kused,                   \* external: what the kernel has filled of each buffer
    kern,                    \* external: the receives in the kernel
    cq,                      \* arrivals and ends posted: [op, bid, len, more, final]
    fills,                   \* the shard's view of each buffer: [used, live, done]
    recv_ops,                     \* receives in the table: [held, stopping, zombie], or gone
    chunks,                  \* chunks not dropped: [bid, start, end, owner]
    local, queue,            \* returns: kept by the shard's thread, and pushed from others
    arrivals

recv_vars == <<incremental, ring, pending, kused, kern, cq, fills, recv_ops, chunks, local, queue, arrivals>>

Bids == 0..Entries - 1
RecvFresh == [used |-> 0, live |-> 0, done |-> FALSE]
NoOp == [state |-> "new", held |-> 0, stopping |-> FALSE]
RecvInit ==
    /\ incremental \in Modes
    /\ ring = [i \in 1..Entries |-> i - 1] /\ pending = <<>>   \* add_all, commit
    /\ kused = [b \in Bids |-> 0] /\ kern = {} /\ cq = <<>> /\ fills = [b \in Bids |-> RecvFresh]
    /\ recv_ops = [o \in Receives |-> NoOp] /\ chunks = {} /\ local = <<>> /\ queue = <<>> /\ arrivals = 0

-----------------------------------------------------------------------------
\* charge: what a chunk counts against its receive
recv_charge(len) == IF incremental /\ len < MIN_CHARGE THEN MIN_CHARGE ELSE len

\* release_charge: a receive that is gone is charged nothing.
release_charge(to, item) ==
    IF to[item.owner].state \in {"out", "zombie"}
    THEN LET left == to[item.owner].held - recv_charge(item.len)
         IN  [to EXCEPT ![item.owner].held = IF left < 0 THEN 0 ELSE left]
    ELSE to

\* add, commit: the buffers in `bids' are the kernel's again.
add(bids) == ring' = ring \o bids

RecvOver(to, bid) == to[bid].live = 1 /\ to[bid].done

take_in(to, bid) ==
    IF RecvOver(to, bid) THEN [to EXCEPT ![bid] = RecvFresh] ELSE [to EXCEPT ![bid].live = @ - 1]

-----------------------------------------------------------------------------
(* The kernel (external). *)
\* A receive is armed; the side arms another only as the last ended, or was made a zombie.
arm(o) ==
    /\ recv_ops[o].state = "new" /\ \A p \in Receives: recv_ops[p].state # "out"
    /\ recv_ops' = [recv_ops EXCEPT ![o].state = "out"] /\ kern' = kern \union {o}
    /\ UNCHANGED <<incremental, ring, pending, kused, cq, fills, chunks, local, queue, arrivals>>

Cqe(o, bid, len, more, final) == [op |-> o, bid |-> bid, len |-> len, more |-> more, final |-> final]

\* The kernel puts bytes in the ring's first buffer, which it keeps only while there is room in it.
kernel_fills(o) ==
    /\ o \in kern /\ ring # <<>> /\ arrivals < MaxArrivals /\ arrivals' = arrivals + 1
    /\ LET b == ring[1] IN
       \E len \in 1..(SIZE - kused[b]), final \in BOOLEAN:
         LET more == incremental /\ kused[b] + len < SIZE
         IN  /\ cq' = Append(cq, Cqe(o, b, len, more, final))
             /\ kused' = [kused EXCEPT ![b] = IF more THEN @ + len ELSE 0]
             /\ ring' = IF more THEN ring ELSE Tail(ring)
             /\ kern' = IF final THEN kern \ {o} ELSE kern
    /\ UNCHANGED <<incremental, pending, fills, recv_ops, chunks, local, queue>>

\* A receive ends without a buffer: none left (ENOBUFS), cancelled, or at the stream's end.
kernel_ends(o) ==
    /\ o \in kern /\ kern' = kern \ {o} /\ cq' = Append(cq, Cqe(o, 0, 0, FALSE, TRUE))
    /\ UNCHANGED <<incremental, ring, pending, kused, fills, recv_ops, chunks, local, queue, arrivals>>

-----------------------------------------------------------------------------
\* hand_out: the chunk's place is behind what the buffer was used for
Chunk(c) ==
    LET start == IF incremental THEN fills[c.bid].used ELSE 0
    IN  [bid |-> c.bid, start |-> start, end |-> start + c.len, owner |-> c.op]

Ended(to, c) == IF c.final THEN [to EXCEPT ![c.op] = [NoOp EXCEPT !.state = "gone"]] ELSE to

hand_out(c, ended) ==
    /\ chunks' = chunks \union {Chunk(c)}
    /\ fills' = [fills EXCEPT ![c.bid] = [used |-> Chunk(c).end, live |-> @.live + 1, done |-> ~c.more]]
    /\ LET held == recv_ops[c.op].held + recv_charge(c.len)
           stop == recv_ops[c.op].state = "out" /\ (held > RECV_CAP \/ ended)
       IN  recv_ops' = Ended([recv_ops EXCEPT ![c.op].held = held, ![c.op].stopping = @ \/ stop], c)

\* look_for_end: a receive that stays is also stopped if the stream's end is found queued behind the bytes.
look_for_end(c) == IF c.final THEN {FALSE} ELSE BOOLEAN

\* arrived, of a receive in the table; its last completion also ends it.
arrived ==
    /\ cq # <<>> /\ cq[1].len > 0 /\ recv_ops[cq[1].op].state \in {"out", "zombie"} /\ cq' = Tail(cq)
    /\ \E ended \in look_for_end(cq[1]): hand_out(cq[1], ended)
    /\ UNCHANGED <<incremental, ring, pending, kused, kern, local, queue, arrivals>>

settle(fill) == fill.live = 0 /\ fill.done

\* give_back: the bytes of a receive that is gone
recv_give_back ==
    /\ cq # <<>> /\ cq[1].len > 0 /\ recv_ops[cq[1].op].state = "gone" /\ cq' = Tail(cq)
    /\ LET c == cq[1]
           fill == [used |-> fills[c.bid].used + c.len, live |-> fills[c.bid].live, done |-> ~c.more]
       IN  /\ fills' = [fills EXCEPT ![c.bid] = IF settle(fill) THEN RecvFresh ELSE fill]
           /\ IF settle(fill) THEN add(<<c.bid>>) ELSE UNCHANGED ring
    /\ UNCHANGED <<incremental, pending, kused, kern, recv_ops, chunks, local, queue, arrivals>>

\* The end of a receive, with no buffer
ends ==
    /\ cq # <<>> /\ cq[1].len = 0 /\ cq' = Tail(cq)
    /\ recv_ops' = IF recv_ops[cq[1].op].state = "gone" THEN recv_ops ELSE Ended(recv_ops, cq[1])
    /\ UNCHANGED <<incremental, ring, pending, kused, kern, fills, chunks, local, queue, arrivals>>

\* adopt: the receive of a thread whose shard was taken over goes on as a zombie.
adopt(o) ==
    /\ recv_ops[o].state = "out" /\ recv_ops' = [recv_ops EXCEPT ![o].state = "zombie"]
    /\ UNCHANGED <<incremental, ring, pending, kused, kern, cq, fills, chunks, local, queue, arrivals>>

\* sweep_source, forget: the receive is ended though the kernel may still have it.
forsake(o) ==
    /\ recv_ops[o].state = "out" /\ recv_ops' = [recv_ops EXCEPT ![o] = [NoOp EXCEPT !.state = "gone"]]
    /\ UNCHANGED <<incremental, ring, pending, kused, kern, cq, fills, chunks, local, queue, arrivals>>

-----------------------------------------------------------------------------
(* A chunk is dropped. *)
Item(c) == [bid |-> c.bid, owner |-> c.owner, len |-> c.end - c.start]

\* take_in_now, on the shard's thread: the buffer is added at once.
take_in_now(c) ==
    /\ chunks' = chunks \ {c} /\ fills' = take_in(fills, c.bid)
    /\ recv_ops' = release_charge(recv_ops, Item(c))
    /\ IF RecvOver(fills, c.bid) THEN add(<<c.bid>>) ELSE UNCHANGED ring
    /\ UNCHANGED <<incremental, pending, kused, kern, cq, local, queue, arrivals>>

\* keep_local, while the ring is in use under it
keep_local(c) ==
    /\ Len(local) < RETURNS /\ chunks' = chunks \ {c} /\ local' = Append(local, Item(c))
    /\ UNCHANGED <<incremental, ring, pending, kused, kern, cq, fills, recv_ops, queue, arrivals>>

\* The drop elsewhere
recv_drop(c) ==
    /\ chunks' = chunks \ {c} /\ queue' = Append(queue, Item(c))
    /\ UNCHANGED <<incremental, ring, pending, kused, kern, cq, fills, recv_ops, local, arrivals>>

\* take_back, before each wait: one of the returns, the shard's own first and last in first out; what they
\* add is committed once none is left.
recv_take_back ==
    /\ local \o queue # <<>>
    /\ LET item == IF local # <<>> THEN Last(local) ELSE queue[1]
           added == IF RecvOver(fills, item.bid) THEN Append(pending, item.bid) ELSE pending
           last == Len(local) + Len(queue) = 1
       IN  /\ fills' = take_in(fills, item.bid) /\ recv_ops' = release_charge(recv_ops, item)
           /\ IF local # <<>> THEN local' = Front(local) /\ UNCHANGED queue
              ELSE queue' = Tail(queue) /\ UNCHANGED local
           /\ IF last THEN add(added) /\ pending' = <<>> ELSE pending' = added /\ UNCHANGED ring
    /\ UNCHANGED <<incremental, kused, kern, cq, chunks, arrivals>>

RecvNext ==
    \/ \E o \in Receives: arm(o) \/ kernel_fills(o) \/ kernel_ends(o) \/ adopt(o) \/ forsake(o)
    \/ arrived \/ recv_give_back \/ ends
    \/ \E c \in chunks: take_in_now(c) \/ keep_local(c) \/ recv_drop(c)
    \/ recv_take_back

RecvSpec == RecvInit /\ [][RecvNext]_recv_vars

-----------------------------------------------------------------------------
(* Properties. *)
\* The bytes of a chunk stay as they arrived: the kernel writes no buffer a chunk, or a completion still to be
\* handled, is of, except behind what it filled of it.
ChunksStable ==
    \A c \in chunks: \A i \in 1..Len(ring):
        ring[i] = c.bid => i = 1 /\ c.end <= kused[c.bid]

\* Every buffer is where it may be used again: with the kernel or about to be, or with a chunk, a return or a
\* completion that will bring it back; and it is with the kernel only once.
BuffersKept ==
    \A b \in Bids:
        LET places == {i \in 1..Len(ring \o pending): (ring \o pending)[i] = b}
            used == {c \in chunks: c.bid = b} \union {x \in ToSet(local \o queue): x.bid = b}
                      \union {x \in ToSet(cq): x.bid = b /\ x.len > 0}
        IN  Cardinality(places) <= 1 /\ (places = {} => used # {})

\* What a receive is charged is what its chunks, dropped or not, still keep from coming back; past the cap it
\* is asked to stop.
ChargesAgree ==
    \A o \in Receives: recv_ops[o].state \in {"out", "zombie"} =>
        /\ recv_ops[o].held = FoldSet(LAMBDA c, n: n + recv_charge(c.end - c.start), 0, {c \in chunks: c.owner = o})
                           + FoldSeq(LAMBDA x, n: n + (IF x.owner = o THEN recv_charge(x.len) ELSE 0), 0, local \o queue)
        /\ recv_ops[o].held > RECV_CAP => recv_ops[o].stopping \/ recv_ops[o].state = "zombie"
==============================================================================
