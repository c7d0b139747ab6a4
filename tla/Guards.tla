------------------------------ MODULE Guards ------------------------------
(***************************************************************************)
(* The guards of src/sync/mutex.rs, rwlock.rs and rwlock/guards.rs: what   *)
(* each of the locks' guards and futures holds of its lock through map,    *)
(* try_map, downgrade and upgrade, where the caller's closure or a waker   *)
(* the lock wakes may panic.  The raw locks (module Contend, and below)    *)
(* are here their state words; their queues are left out: a future that    *)
(* waits is handed the lock at some moment the word admits it.             *)
(***************************************************************************)
EXTENDS Integers, FiniteSets, FiniteSetsExt, WaitQueue

CONSTANTS Guards   \* the places a guard or a future lives in

VARIABLES
    permit,    \* the mutex's semaphore has its one permit
    readers, writer, upgradable,   \* the lock word
    guard,     \* of a place: the type of guard in it, or of the guard awaited
    at,        \* of a place: what is being done with it
    arcs       \* references the owned guards and futures keep their lock by

vars == <<permit, readers, writer, upgradable, guard, at, arcs>>

Mutexes == {"MutexGuard", "OwnedMutexGuard", "MappedMutexGuard", "OwnedMappedMutexGuard"}
Reads == {"RwLockReadGuard", "OwnedRwLockReadGuard"}
Writes == {"RwLockWriteGuard", "OwnedRwLockWriteGuard",
           "RwLockMappedWriteGuard", "OwnedRwLockMappedWriteGuard"}
Owned == {"OwnedMutexGuard", "OwnedMappedMutexGuard", "OwnedRwLockReadGuard",
          "OwnedRwLockWriteGuard", "OwnedRwLockMappedWriteGuard"}
Arc(type) == IF type \in Owned THEN 1 ELSE 0

Init ==
    /\ permit = TRUE /\ readers = 0 /\ writer = FALSE /\ upgradable = FALSE /\ arcs = 0
    /\ guard = [g \in Guards |-> "none"] /\ at = [g \in Guards |-> "none"]

Place(g, type, where) == guard' = [guard EXCEPT ![g] = type] /\ at' = [at EXCEPT ![g] = where]

-----------------------------------------------------------------------------
\* The words: take and give back what a guard of a type holds.
acquire(type) ==
    \/ type \in Mutexes /\ permit /\ permit' = FALSE /\ UNCHANGED <<readers, writer, upgradable>>
    \/ type \in Reads /\ ~writer /\ readers' = readers + 1 /\ UNCHANGED <<permit, writer, upgradable>>
    \/ /\ type \in Writes /\ ~writer /\ ~upgradable /\ readers = 0 /\ writer' = TRUE
       /\ UNCHANGED <<permit, readers, upgradable>>
    \/ /\ type = "RwLockUpgradableReadGuard" /\ ~writer /\ ~upgradable /\ upgradable' = TRUE
       /\ UNCHANGED <<permit, readers, writer>>

unlock(type) ==
    /\ permit' = (permit \/ type \in Mutexes)
    /\ readers' = readers - (IF type \in Reads THEN 1 ELSE 0)
    /\ writer' = (writer /\ type \notin Writes)
    /\ upgradable' = (upgradable /\ type # "RwLockUpgradableReadGuard")

-----------------------------------------------------------------------------
\* Each call makes its guard once the word lets it, or a future that waits.
Tries(g, type) ==
    /\ at[g] = "none" /\ acquire(type) /\ Place(g, type, "held") /\ arcs' = arcs + Arc(type)
Waits(g, type) ==
    /\ at[g] = "none" /\ Place(g, type, "waits") /\ arcs' = arcs + Arc(type)
    /\ UNCHANGED <<permit, readers, writer, upgradable>>

try_lock(g) == Tries(g, "MutexGuard")
try_lock_owned(g) == Tries(g, "OwnedMutexGuard")
try_read(g) == Tries(g, "RwLockReadGuard")
try_read_owned(g) == Tries(g, "OwnedRwLockReadGuard")
try_write(g) == Tries(g, "RwLockWriteGuard")
try_write_owned(g) == Tries(g, "OwnedRwLockWriteGuard")
try_upgradable_read(g) == Tries(g, "RwLockUpgradableReadGuard")
lock(g) == Waits(g, "MutexGuard")
lock_owned(g) == Waits(g, "OwnedMutexGuard")
read(g) == Waits(g, "RwLockReadGuard")
read_owned(g) == Waits(g, "OwnedRwLockReadGuard")
write(g) == Waits(g, "RwLockWriteGuard")
write_owned(g) == Waits(g, "OwnedRwLockWriteGuard")
upgradable_read(g) == Waits(g, "RwLockUpgradableReadGuard")

\* The queue hands the lock to a future ...
handed(g) ==
    /\ at[g] = "waits" /\ acquire(guard[g]) /\ at' = [at EXCEPT ![g] = "granted"]
    /\ UNCHANGED <<guard, arcs>>

\* ... whose poll makes the guard of it: the owned one with a reference of its
\* own, before the future's goes with the future;
poll(g) ==
    /\ at[g] = "granted" /\ at' = [at EXCEPT ![g] = "held"]
    /\ UNCHANGED <<permit, readers, writer, upgradable, guard, arcs>>

\* dropped before that, it gives back what it was handed.
cancel(g) ==
    /\ at[g] \in {"waits", "granted"} /\ Place(g, "none", "none") /\ arcs' = arcs - Arc(guard[g])
    /\ IF at[g] = "granted" THEN unlock(guard[g]) ELSE UNCHANGED <<permit, readers, writer, upgradable>>

\* The drop of a guard.
drop(g) ==
    /\ at[g] = "held" /\ unlock(guard[g]) /\ Place(g, "none", "none") /\ arcs' = arcs - Arc(guard[g])

-----------------------------------------------------------------------------
\* The maps: the closure runs with the guard in place; the guard is taken apart
\* after it, with nothing released.  A closure that finds nothing gives the
\* guard back, one that panics drops it.
Mapping(g, from, to) ==
    /\ at[g] = "held" /\ guard[g] = from /\ at' = [at EXCEPT ![g] = to]
    /\ UNCHANGED <<permit, readers, writer, upgradable, guard, arcs>>

map(g) == Mapping(g, "MutexGuard", "MappedMutexGuard")
owned_map(g) == Mapping(g, "OwnedMutexGuard", "OwnedMappedMutexGuard")
mapped_map(g) == Mapping(g, "MappedMutexGuard", "MappedMutexGuard")
owned_mapped_map(g) == Mapping(g, "OwnedMappedMutexGuard", "OwnedMappedMutexGuard")
read_map(g) == Mapping(g, "RwLockReadGuard", "RwLockReadGuard")
owned_read_map(g) == Mapping(g, "OwnedRwLockReadGuard", "OwnedRwLockReadGuard")
write_map(g) == Mapping(g, "RwLockWriteGuard", "RwLockMappedWriteGuard")
owned_write_map(g) == Mapping(g, "OwnedRwLockWriteGuard", "OwnedRwLockMappedWriteGuard")
mapped_write_map(g) == Mapping(g, "RwLockMappedWriteGuard", "RwLockMappedWriteGuard")
owned_mapped_write_map(g) == Mapping(g, "OwnedRwLockMappedWriteGuard", "OwnedRwLockMappedWriteGuard")
downgrade_map(g) == Mapping(g, "RwLockWriteGuard", "RwLockReadGuard")
owned_downgrade_map(g) == Mapping(g, "OwnedRwLockWriteGuard", "OwnedRwLockReadGuard")

IsMapping(g) == at[g] \in Mutexes \union Reads \union Writes

\* A write to be a read steps down once its closure returned.
Downgrades(g) == guard[g] \in Writes /\ at[g] \in Reads

closure_returns(g) ==
    /\ IsMapping(g) /\ ~Downgrades(g) /\ Place(g, at[g], "held")
    /\ UNCHANGED <<permit, readers, writer, upgradable, arcs>>

closure_declines(g) ==
    /\ IsMapping(g) /\ at' = [at EXCEPT ![g] = "held"]
    /\ UNCHANGED <<permit, readers, writer, upgradable, guard, arcs>>

closure_panics(g) ==
    /\ IsMapping(g) /\ unlock(guard[g]) /\ Place(g, "none", "none") /\ arcs' = arcs - Arc(guard[g])

\* The raw downgrade changes the word, then wakes readers; the read guard was
\* made before it, so a waker's panic drops that guard.
raw_downgrade == writer' = FALSE /\ readers' = 1 /\ UNCHANGED <<permit, upgradable>>
StepsDown(g, to) == raw_downgrade /\ Place(g, to, "downgraded") /\ UNCHANGED arcs

downgrade(g) == at[g] = "held" /\ guard[g] = "RwLockWriteGuard" /\ StepsDown(g, "RwLockReadGuard")
owned_downgrade(g) ==
    at[g] = "held" /\ guard[g] = "OwnedRwLockWriteGuard" /\ StepsDown(g, "OwnedRwLockReadGuard")
downgrade_mapped(g) == IsMapping(g) /\ Downgrades(g) /\ StepsDown(g, at[g])

downgrade_wakes(g) ==
    /\ at[g] = "downgraded"
    /\ \/ at' = [at EXCEPT ![g] = "held"] /\ UNCHANGED <<permit, readers, writer, upgradable, guard, arcs>>
       \/ unlock(guard[g]) /\ Place(g, "none", "none") /\ arcs' = arcs - Arc(guard[g])

\* try_upgrade; upgrade, whose future holds what the guard held until its poll
\* makes the write guard, and lets go of it if it is dropped first.
raw_upgrade == readers = 0 /\ upgradable /\ upgradable' = FALSE /\ writer' = TRUE /\ UNCHANGED <<permit, readers>>
IsUpgradable(g) == at[g] = "held" /\ guard[g] = "RwLockUpgradableReadGuard"

try_upgrade(g) == IsUpgradable(g) /\ raw_upgrade /\ Place(g, "RwLockWriteGuard", "held") /\ UNCHANGED arcs
upgrade(g) ==
    /\ IsUpgradable(g) /\ at' = [at EXCEPT ![g] = "upgrades"]
    /\ UNCHANGED <<permit, readers, writer, upgradable, guard, arcs>>
upgrade_granted(g) == at[g] = "upgrades" /\ raw_upgrade /\ Place(g, "RwLockWriteGuard", "granted") /\ UNCHANGED arcs
upgrade_cancels(g) ==
    at[g] = "upgrades" /\ unlock(guard[g]) /\ Place(g, "none", "none") /\ UNCHANGED arcs

Next ==
    \E g \in Guards:
        \/ try_lock(g) \/ try_lock_owned(g) \/ try_read(g) \/ try_read_owned(g)
        \/ try_write(g) \/ try_write_owned(g) \/ try_upgradable_read(g)
        \/ lock(g) \/ lock_owned(g) \/ read(g) \/ read_owned(g)
        \/ write(g) \/ write_owned(g) \/ upgradable_read(g)
        \/ handed(g) \/ poll(g) \/ cancel(g) \/ drop(g)
        \/ map(g) \/ owned_map(g) \/ mapped_map(g) \/ owned_mapped_map(g)
        \/ read_map(g) \/ owned_read_map(g) \/ write_map(g) \/ owned_write_map(g)
        \/ mapped_write_map(g) \/ owned_mapped_write_map(g) \/ downgrade_map(g) \/ owned_downgrade_map(g)
        \/ closure_returns(g) \/ closure_declines(g) \/ closure_panics(g)
        \/ downgrade(g) \/ owned_downgrade(g) \/ downgrade_mapped(g) \/ downgrade_wakes(g)
        \/ try_upgrade(g) \/ upgrade(g) \/ upgrade_granted(g) \/ upgrade_cancels(g)

Spec == Init /\ [][Next]_vars

Live(types) == {g \in Guards: guard[g] \in types /\ at[g] # "waits"}

(***************************************************************************)
(* The locks hold exactly what their guards hold: whatever closure or      *)
(* waker panics and whichever future is dropped, the words count the live  *)
(* guards, each once (no lock stays locked by nobody, none is released     *)
(* twice), and every owned guard keeps one reference to its lock.          *)
(***************************************************************************)
GuardsHold ==
    /\ Cardinality(Live(Mutexes)) = (IF permit THEN 0 ELSE 1)
    /\ Cardinality(Live(Reads)) = readers
    /\ Cardinality(Live(Writes)) = (IF writer THEN 1 ELSE 0)
    /\ Cardinality(Live({"RwLockUpgradableReadGuard"})) = (IF upgradable THEN 1 ELSE 0)
    /\ writer => readers = 0 /\ ~upgradable
    /\ arcs = Cardinality({g \in Guards: guard[g] \in Owned})

------------------------------------------------------------------------------
(***************************************************************************)
(* The permits of src/sync/semaphore.rs: what a semaphore, its permits and *)
(* its futures hold between them through merge, split, forget, close and   *)
(* the counts a caller adds or removes.  The waiting is module Contend's;  *)
(* a future that waits is handed its permits at some moment they are free. *)
(* The count lives in the high bits of a word and wraps: MAX + 1 is its    *)
(* modulus.                                                                *)
(***************************************************************************)

CONSTANTS Places,   \* the places a permit or a future lives in
          MAX,      \* MAX_PERMITS
          First,    \* the permits it is made with
          Amounts,  \* what is asked for, split off, added, removed
          MaxAdds,  \* bound: calls of add_permits
          Total     \* the most permits the callers let exist at once

VARIABLES available, isClosed, permit_at, n, total, adds

permit_vars == <<available, isClosed, permit_at, n, total, adds>>

PermitInit ==
    /\ available = First /\ isClosed = FALSE /\ total = First /\ adds = 0
    /\ permit_at = [p \in Places |-> "none"] /\ n = [p \in Places |-> 0]

PermitPlace(p, where, k) == permit_at' = [permit_at EXCEPT ![p] = where] /\ n' = [n EXCEPT ![p] = k]

\* RawSemaphore::try_take: a request for nothing is refused only by a close.
try_take(k) == ~isClosed /\ available >= k /\ available' = available - k

\* RawSemaphore::release: one fetch_add, unchecked
release(k) == available' = (available + k) % (MAX + 1)

-----------------------------------------------------------------------------
\* try_acquire, try_acquire_many and their owned kinds
try_acquire_many(p, k) ==
    /\ permit_at[p] = "none" /\ k <= MAX /\ try_take(k) /\ PermitPlace(p, "held", k) /\ UNCHANGED <<isClosed, total, adds>>

\* acquire, acquire_many, their owned and their blocking kinds
acquire_many(p, k) ==
    /\ permit_at[p] = "none" /\ k <= MAX /\ PermitPlace(p, "waits", k) /\ UNCHANGED <<available, isClosed, total, adds>>

\* A waiter is handed its permits; or its poll makes them its permit;
permit_handed(p) ==
    /\ permit_at[p] = "waits" /\ try_take(n[p]) /\ PermitPlace(p, "granted", n[p]) /\ UNCHANGED <<isClosed, total, adds>>

permit_poll(p) ==
    /\ permit_at[p] = "granted" /\ PermitPlace(p, "held", n[p]) /\ UNCHANGED <<available, isClosed, total, adds>>

\* or finds the semaphore closed: a wait not yet handed its permits fails, and
\* one handed them before keeps them.
poll_closed(p) ==
    /\ permit_at[p] = "waits" /\ isClosed /\ PermitPlace(p, "none", 0) /\ UNCHANGED <<available, isClosed, total, adds>>

\* A future dropped after it was handed its permits returns them.
permit_cancel(p) ==
    /\ permit_at[p] \in {"waits", "granted"} /\ PermitPlace(p, "none", 0)
    /\ IF permit_at[p] = "granted" THEN release(n[p]) ELSE UNCHANGED available
    /\ UNCHANGED <<isClosed, total, adds>>

-----------------------------------------------------------------------------
permit_drop(p) == permit_at[p] = "held" /\ release(n[p]) /\ PermitPlace(p, "none", 0) /\ UNCHANGED <<isClosed, total, adds>>

\* SemaphorePermit::forget: its count is zeroed, then it drops.
forget(p) ==
    /\ permit_at[p] = "held" /\ total' = total - n[p] /\ PermitPlace(p, "none", 0)
    /\ UNCHANGED <<available, isClosed, adds>>

merge(p, other) ==
    /\ p # other /\ permit_at[p] = "held" /\ permit_at[other] = "held"
    /\ permit_at' = [permit_at EXCEPT ![other] = "none"] /\ n' = [n EXCEPT ![p] = @ + n[other], ![other] = 0]
    /\ UNCHANGED <<available, isClosed, total, adds>>

split(p, new, k) ==
    /\ permit_at[p] = "held" /\ permit_at[new] = "none" /\ k <= n[p]
    /\ permit_at' = [permit_at EXCEPT ![new] = "held"] /\ n' = [n EXCEPT ![p] = @ - k, ![new] = k]
    /\ UNCHANGED <<available, isClosed, total, adds>>

\* add_permits: it panics where the FREE permits would pass the most.
add_permits(k) ==
    /\ adds < MaxAdds /\ total + k <= Total /\ available + k <= MAX
    /\ available' = available + k /\ total' = total + k /\ adds' = adds + 1
    /\ UNCHANGED <<isClosed, permit_at, n>>

\* forget_permits: as many as are free, at most k.
forget_permits(k) ==
    /\ LET taken == IF available < k THEN available ELSE k IN
       available' = available - taken /\ total' = total - taken
    /\ UNCHANGED <<isClosed, permit_at, n, adds>>

close == isClosed' = TRUE /\ UNCHANGED <<available, permit_at, n, total, adds>>

PermitNext ==
    \/ \E p \in Places, k \in Amounts:
        try_acquire_many(p, k) \/ acquire_many(p, k) \/ \E new \in Places: split(p, new, k)
    \/ \E p \in Places:
        \/ permit_handed(p) \/ permit_poll(p) \/ poll_closed(p) \/ permit_cancel(p) \/ permit_drop(p) \/ forget(p)
        \/ \E other \in Places: merge(p, other)
    \/ \E k \in Amounts: add_permits(k) \/ forget_permits(k)
    \/ close

PermitSpec == PermitInit /\ [][PermitNext]_permit_vars

Outstanding == MapThenSumSet(LAMBDA p: IF permit_at[p] = "waits" THEN 0 ELSE n[p], Places)

(***************************************************************************)
(* No permit is made or lost: the free ones and those of the live permits  *)
(* and granted futures are those that exist, whatever is split, merged,    *)
(* closed or dropped, as long as the callers let no more than MAX exist.   *)
(***************************************************************************)
PermitsConserved == available + Outstanding = total

(***************************************************************************)
(* What src/sync/raw_semaphore.rs says of its unchecked release: "It       *)
(* cannot overflow: the permits were in the semaphore before."  A permit   *)
(* that is out always fits back into the count.                            *)
(***************************************************************************)

------------------------------------------------------------------------------
(***************************************************************************)
(* The reentrant mutex of src/sync/reentrant_mutex.rs with the registry of *)
(* src/sync/siblings.rs: an owner that holds it locks it again at once,    *)
(* and an owner's entry wakes the requests of the same owner that queued   *)
(* before it.  An owner and its requests stay on one thread, so a call is  *)
(* one step; the queue (module Contend) hands the permit to any waiter.    *)
(***************************************************************************)

CONSTANTS
    MutexOwners,
    MutexRequests,
    MutexOwnerOf,  \* of a request, its owner
    MutexMaxDepth  \* bound: guards of one owner

VARIABLES
    mutex_permit,   \* the semaphore's permit is free
    holder, depth,
    mutex_at,       \* of a request: where it is
    mutex_queued,   \* the requests in the semaphore's queue, each with its ticket
    mutex_armed,    \* those whose waker is in their ticket's entry
    guards    \* of an owner: its live guards

mutex_vars == <<mutex_permit, holder, depth, mutex_at, mutex_queued, mutex_armed, guards>>

MutexInit ==
    /\ mutex_permit = TRUE /\ holder = None /\ depth = 0 /\ mutex_queued = {} /\ mutex_armed = {}
    /\ mutex_at = [r \in MutexRequests |-> "none"] /\ guards = [o \in MutexOwners |-> 0]

MutexGo(r, where) == mutex_at' = [mutex_at EXCEPT ![r] = where]
Guard(o) == guards' = [guards EXCEPT ![o] = @ + 1]

-----------------------------------------------------------------------------
\* wake_siblings, of all but the request that enters: each waker is taken out of
\* its entry and woken, the rest too where one panics.
mutex_siblings(o, r) == {s \in mutex_armed: MutexOwnerOf[s] = o /\ s # r}
mutex_wake_siblings(o, r, then) ==
    mutex_at' = [s \in MutexRequests |-> CASE s = r -> then
                                [] s \in mutex_siblings(o, r) /\ mutex_at[s] = "asleep" -> "woken"
                                [] OTHER -> mutex_at[s]]

\* enter: the guard is made after the siblings were woken.
mutex_enter(o, r, then) ==
    /\ depth' = 1 /\ holder' = o /\ mutex_wake_siblings(o, r, then)
    /\ mutex_armed' = mutex_armed \ ({r} \union mutex_siblings(o, r)) /\ mutex_queued' = mutex_queued \ {r}
    /\ Guard(o)

\* reenter
reenters(o) == holder = o
deepen(o) == depth' = depth + 1 /\ Guard(o)

mutex_try_lock(o) ==
    /\ guards[o] < MutexMaxDepth
    /\ \/ reenters(o) /\ deepen(o) /\ UNCHANGED <<mutex_permit, holder, mutex_at, mutex_queued, mutex_armed>>
       \/ ~reenters(o) /\ mutex_permit /\ mutex_permit' = FALSE /\ mutex_enter(o, None, "none")

mutex_lock(r) ==
    /\ mutex_at[r] = "none" /\ guards[MutexOwnerOf[r]] < MutexMaxDepth /\ MutexGo(r, "woken")
    /\ UNCHANGED <<mutex_permit, holder, depth, mutex_queued, mutex_armed, guards>>

\* poll, of an owner that is in: the request leaves the queue, and gives its level
\* back if the budget refuses it (and wakes it) or leaving the queue panics.
poll_reenters(r) ==
    /\ mutex_at[r] \in {"woken", "granted"} /\ reenters(MutexOwnerOf[r])
    /\ mutex_armed' = mutex_armed \ {r} /\ mutex_queued' = mutex_queued \ {r}
    /\ mutex_permit' = (mutex_permit \/ mutex_at[r] = "granted")
    /\ \/ deepen(MutexOwnerOf[r]) /\ MutexGo(r, "none")
       \/ UNCHANGED <<depth, guards>> /\ mutex_at' = [mutex_at EXCEPT ![r] = "woken"]
       \/ UNCHANGED <<depth, guards>> /\ mutex_at' = [mutex_at EXCEPT ![r] = "none"]
    /\ UNCHANGED holder

\* poll, handed the permit or finding it free
mutex_poll_enters(r) ==
    /\ mutex_at[r] \in {"woken", "granted"} /\ ~reenters(MutexOwnerOf[r])
    /\ mutex_at[r] = "granted" \/ mutex_permit
    /\ mutex_permit' = FALSE /\ mutex_enter(MutexOwnerOf[r], r, "none")

\* poll, of one that waits, the permit out or owed to another: queued, registered
mutex_register(r) ==
    /\ mutex_at[r] = "woken" /\ ~reenters(MutexOwnerOf[r])
    /\ MutexGo(r, "asleep") /\ mutex_queued' = mutex_queued \union {r} /\ mutex_armed' = mutex_armed \union {r}
    /\ UNCHANGED <<mutex_permit, holder, depth, guards>>

\* The queue hands a waiter the permit, and wakes it.
mutex_handed(r) ==
    /\ r \in mutex_queued /\ mutex_at[r] # "granted" /\ mutex_permit /\ mutex_permit' = FALSE /\ MutexGo(r, "granted")
    /\ UNCHANGED <<holder, depth, mutex_queued, mutex_armed, guards>>

\* Drop of a request, and of its ticket
mutex_drop(r) ==
    /\ mutex_at[r] # "none" /\ MutexGo(r, "none") /\ mutex_armed' = mutex_armed \ {r} /\ mutex_queued' = mutex_queued \ {r}
    /\ mutex_permit' = (mutex_permit \/ mutex_at[r] = "granted")
    /\ UNCHANGED <<holder, depth, guards>>

mutex_unlock(o) ==
    /\ guards[o] > 0 /\ guards' = [guards EXCEPT ![o] = @ - 1] /\ depth' = depth - 1
    /\ IF depth = 1 THEN holder' = None /\ mutex_permit' = TRUE ELSE UNCHANGED <<holder, mutex_permit>>
    /\ UNCHANGED <<mutex_at, mutex_queued, mutex_armed>>

MutexNext ==
    \/ \E o \in MutexOwners: mutex_try_lock(o) \/ mutex_unlock(o)
    \/ \E r \in MutexRequests: \/ mutex_lock(r) \/ poll_reenters(r) \/ mutex_poll_enters(r) \/ mutex_register(r)
                          \/ mutex_handed(r) \/ mutex_drop(r)

MutexSpec == MutexInit /\ [][MutexNext]_mutex_vars

(***************************************************************************)
(* The lock is held exactly while guards live: the depth is the number of  *)
(* its guards, all of the holder, and the permit is out only for them or   *)
(* for a request that was handed it ("the mutex unlocks when the last of   *)
(* its guards drops").                                                     *)
(***************************************************************************)
MutexHeldByGuards ==
    /\ \A o \in MutexOwners: guards[o] > 0 => holder = o /\ depth = guards[o]
    /\ holder # None => guards[holder] > 0
    /\ ~mutex_permit <=> holder # None \/ \E r \in MutexRequests: mutex_at[r] = "granted"

(***************************************************************************)
(* No request of the owner that is in stays asleep: its entry wakes those  *)
(* that queued before it, whichever was polled first, so that two requests *)
(* of one owner do not wait for each other.                                *)
(***************************************************************************)
MutexSiblingsWoken ==
    \A r \in MutexRequests: mutex_at[r] = "asleep" => holder # MutexOwnerOf[r]

------------------------------------------------------------------------------
(***************************************************************************)
(* The reentrant read-write lock of src/sync/reentrant_rwlock.rs: an owner *)
(* that reads reads again past any waiting writer, one that writes may     *)
(* read and write again, and keeps its read when the write goes.  As in    *)
(* the reentrant mutex a call is one step, and the queue of the raw lock   *)
(* hands it to any waiter it admits.                                       *)
(***************************************************************************)

CONSTANTS
    RwOwners,
    RwRequests,
    RwOwnerOf,
    KindOf,  \* of a request, its owner and what it asks for
    RwMaxDepth  \* bound: guards of a kind of one owner

VARIABLES
    shares, locked,   \* the raw lock: its readers, and whether it is written
    rw_writer, write_depth,
    reads,            \* of an owner: the count of its record, 0 without one
    rw_at, rw_queued, rw_armed,
    rguards, wguards  \* of an owner: its live guards

rw_rwvars == <<shares, locked, rw_writer, write_depth, reads>>
qvars == <<rw_at, rw_queued, rw_armed>>
gvars == <<rguards, wguards>>
rw_vars == <<rw_rwvars, qvars, gvars>>

RwInit ==
    /\ shares = 0 /\ locked = FALSE /\ rw_writer = None /\ write_depth = 0 /\ reads = [o \in RwOwners |-> 0]
    /\ rw_at = [r \in RwRequests |-> "none"] /\ rw_queued = {} /\ rw_armed = {}
    /\ rguards = [o \in RwOwners |-> 0] /\ wguards = [o \in RwOwners |-> 0]

More(count, o) == [count EXCEPT ![o] = @ + 1]
Less(count, o) == [count EXCEPT ![o] = @ - 1]

\* The raw lock
rw_admits(kind) == ~locked /\ (kind = "write" => shares = 0)
Taken(kind) == IF kind = "read" THEN shares' = shares + 1 /\ UNCHANGED locked
               ELSE locked' = TRUE /\ UNCHANGED shares
Given(kind) == IF kind = "read" THEN shares' = shares - 1 /\ UNCHANGED locked
               ELSE locked' = FALSE /\ UNCHANGED shares

\* A request leaves the queue and the registry, and the siblings its owner's entry
\* finds registered are woken.
rw_siblings(o, r) == {s \in rw_armed: RwOwnerOf[s] = o /\ s # r}
RwLeaves(r, then) ==
    /\ rw_at' = [rw_at EXCEPT ![r] = then] /\ rw_queued' = rw_queued \ {r} /\ rw_armed' = rw_armed \ {r}
rw_wake_siblings(o, r) ==
    /\ rw_at' = [s \in RwRequests |-> CASE s = r -> "none"
                                   [] s \in rw_siblings(o, r) /\ rw_at[s] = "asleep" -> "woken"
                                   [] OTHER -> rw_at[s]]
    /\ rw_queued' = rw_queued \ {r} /\ rw_armed' = rw_armed \ ({r} \union rw_siblings(o, r))

-----------------------------------------------------------------------------
\* enter_read: a first read, of a share or of the owner's own write
enter_read(o, r) ==
    /\ reads' = [reads EXCEPT ![o] = 1] /\ rguards' = More(rguards, o) /\ rw_wake_siblings(o, r)
    /\ UNCHANGED <<rw_writer, write_depth, wguards>>

\* reenter_read: one more read of the record, or the first of its own write
may_reenter_read(o) == reads[o] > 0 \/ rw_writer = o
reenter_read(o, r) ==
    \/ /\ reads[o] > 0 /\ reads' = More(reads, o) /\ rguards' = More(rguards, o)
       /\ IF r = None THEN UNCHANGED qvars ELSE RwLeaves(r, "none")
       /\ UNCHANGED <<rw_writer, write_depth, wguards>>
    \/ reads[o] = 0 /\ rw_writer = o /\ enter_read(o, r)

\* enter_write and reenter_write
enter_write(o, r) ==
    /\ rw_writer' = o /\ write_depth' = 1 /\ wguards' = More(wguards, o) /\ rw_wake_siblings(o, r)
    /\ UNCHANGED <<reads, rguards>>
reenter_write(o, r) ==
    /\ write_depth' = write_depth + 1 /\ wguards' = More(wguards, o)
    /\ IF r = None THEN UNCHANGED qvars ELSE RwLeaves(r, "none")
    /\ UNCHANGED <<rw_writer, reads, rguards>>

-----------------------------------------------------------------------------
rw_try_read(o) ==
    /\ rguards[o] < RwMaxDepth
    /\ IF may_reenter_read(o) THEN reenter_read(o, None) /\ UNCHANGED <<shares, locked>>
       ELSE rw_admits("read") /\ Taken("read") /\ enter_read(o, None)

rw_try_write(o) ==
    /\ wguards[o] < RwMaxDepth
    /\ IF rw_writer = o THEN reenter_write(o, None) /\ UNCHANGED <<shares, locked>>
       ELSE reads[o] = 0 /\ rw_admits("write") /\ Taken("write") /\ enter_write(o, None)

\* read and write
rw_asks(r) ==
    /\ rw_at[r] = "none" /\ rguards[RwOwnerOf[r]] < RwMaxDepth /\ wguards[RwOwnerOf[r]] < RwMaxDepth
    /\ rw_at' = [rw_at EXCEPT ![r] = "woken"] /\ UNCHANGED <<rw_rwvars, rw_queued, rw_armed, gvars>>

Polled(r) == rw_at[r] \in {"woken", "granted"}
Back(r) == IF rw_at[r] = "granted" THEN Given(KindOf[r]) ELSE UNCHANGED <<shares, locked>>

\* ReentrantRead::poll of an owner that is in; the budget may refuse it, and then
\* its level goes and it is woken again.
poll_reads_again(r) ==
    /\ Polled(r) /\ KindOf[r] = "read" /\ may_reenter_read(RwOwnerOf[r]) /\ Back(r)
    /\ \/ reenter_read(RwOwnerOf[r], r)
       \/ RwLeaves(r, "woken") /\ UNCHANGED <<rw_writer, write_depth, reads, gvars>>

\* ReentrantWrite::poll of an owner that writes, and of one that reads
poll_writes_again(r) ==
    /\ Polled(r) /\ KindOf[r] = "write" /\ rw_writer = RwOwnerOf[r] /\ Back(r)
    /\ \/ reenter_write(RwOwnerOf[r], r)
       \/ RwLeaves(r, "woken") /\ UNCHANGED <<rw_writer, write_depth, reads, gvars>>

poll_refused(r) ==
    /\ Polled(r) /\ KindOf[r] = "write" /\ rw_writer # RwOwnerOf[r] /\ reads[RwOwnerOf[r]] > 0 /\ Back(r)
    /\ \E then \in {"none", "woken"}: RwLeaves(r, then)
    /\ UNCHANGED <<rw_writer, write_depth, reads, gvars>>

Inside(r) == rw_writer = RwOwnerOf[r] \/ reads[RwOwnerOf[r]] > 0

rw_poll_enters(r) ==
    /\ Polled(r) /\ ~Inside(r)
    /\ IF rw_at[r] = "granted" THEN UNCHANGED <<shares, locked>> ELSE rw_admits(KindOf[r]) /\ Taken(KindOf[r])
    /\ IF KindOf[r] = "read" THEN enter_read(RwOwnerOf[r], r) ELSE enter_write(RwOwnerOf[r], r)

\* A poll that finds it taken, or owed to another, queues and registers.
rw_register(r) ==
    /\ rw_at[r] = "woken" /\ ~Inside(r)
    /\ rw_at' = [rw_at EXCEPT ![r] = "asleep"] /\ rw_queued' = rw_queued \union {r} /\ rw_armed' = rw_armed \union {r}
    /\ UNCHANGED <<rw_rwvars, gvars>>

rw_handed(r) ==
    /\ r \in rw_queued /\ rw_at[r] # "granted" /\ rw_admits(KindOf[r]) /\ Taken(KindOf[r])
    /\ rw_at' = [rw_at EXCEPT ![r] = "granted"]
    /\ UNCHANGED <<rw_writer, write_depth, reads, rw_queued, rw_armed, gvars>>

rw_drop(r) ==
    /\ rw_at[r] # "none" /\ Back(r) /\ RwLeaves(r, "none") /\ UNCHANGED <<rw_writer, write_depth, reads, gvars>>

\* read_unlock: the last read gives the share back, unless its owner writes: then
\* the write holds for both.
read_unlock(o) ==
    /\ rguards[o] > 0 /\ rguards' = Less(rguards, o) /\ reads' = Less(reads, o)
    /\ IF reads[o] = 1 /\ rw_writer # o THEN Given("read") ELSE UNCHANGED <<shares, locked>>
    /\ UNCHANGED <<rw_writer, write_depth, qvars, wguards>>

\* write_unlock: the last write steps down to the owner's read, if it has one.
write_unlock(o) ==
    /\ wguards[o] > 0 /\ wguards' = Less(wguards, o) /\ write_depth' = write_depth - 1
    /\ IF write_depth > 1 THEN UNCHANGED <<rw_writer, shares, locked>>
       ELSE rw_writer' = None /\ locked' = FALSE /\ shares' = IF reads[o] > 0 THEN 1 ELSE shares
    /\ UNCHANGED <<reads, qvars, rguards>>

RwNext ==
    \/ \E o \in RwOwners: rw_try_read(o) \/ rw_try_write(o) \/ read_unlock(o) \/ write_unlock(o)
    \/ \E r \in RwRequests: \/ rw_asks(r) \/ poll_reads_again(r) \/ poll_writes_again(r) \/ poll_refused(r)
                          \/ rw_poll_enters(r) \/ rw_register(r) \/ rw_handed(r) \/ rw_drop(r)

RwSpec == RwInit /\ [][RwNext]_rw_vars

(***************************************************************************)
(* The raw lock holds what the guards hold: one share for each owner that  *)
(* reads and does not write, the write while its owner's guards live, a    *)
(* writer beside no other owner's guard; and what requests were handed.    *)
(***************************************************************************)
RwHeldByGuards ==
    LET granted(kind) == Cardinality({r \in RwRequests: rw_at[r] = "granted" /\ KindOf[r] = kind}) IN
    /\ shares = Cardinality({o \in RwOwners: rguards[o] > 0 /\ wguards[o] = 0}) + granted("read")
    /\ (IF locked THEN 1 ELSE 0) = Cardinality({o \in RwOwners: wguards[o] > 0}) + granted("write")
    /\ \A o \in RwOwners: wguards[o] > 0 => \A p \in RwOwners \ {o}: rguards[p] = 0 /\ wguards[p] = 0

(***************************************************************************)
(* No request of an owner that is in stays asleep: a read of its, queued   *)
(* behind a writer that waits for it, would wait for itself.               *)
(***************************************************************************)
RwSiblingsWoken == \A r \in RwRequests: rw_at[r] = "asleep" => ~Inside(r)

------------------------------------------------------------------------------
(***************************************************************************)
(* The read-write lock of src/sync/raw_rwlock.rs and rwlock.rs: readers    *)
(* barge past queued waiters until a waiter that lost too often is owed a  *)
(* handoff, one upgradable read may wait to become the write, and a write  *)
(* may step down to a read.                                                *)
(*                                                                         *)
(* The acquire is Contend's, which module Contend takes apart to the       *)
(* accesses of the node too; here each access of the state word and of the *)
(* count of the waiters owed is a step.                                    *)
(***************************************************************************)

CONSTANTS max_readers,
          Casts     \* of a task, what it may ask for and whether it drops its futures;
                    \* the bypass bound; and the bound: acquires begun, in all

VARIABLES
    lock_readers,   \* the reader count of the state word
    held,      \* of a task: the guard it holds
    lock_at, lock_kind,  \* of a task: where its acquire is, and what it asks for
    bypass,    \* of a task: the losses of its acquire
    nudged,    \* the waiters nudged and not polled since
    owed,      \* the waiters counted as owed a handoff
    took,      \* the waiters whose last attempt took after all
    lock_upgrade,   \* the waiting upgrade
    front,     \* whether the pass was asked to wake the front whatever it asks
    lock_asks, cast,
    skipped    \* history: the waiters a release passed over for a nudge that a grant outran

xvars == <<lock_readers, held, lock_at, lock_kind, bypass, nudged, owed, took, lock_upgrade, front, lock_asks, cast, skipped>>
lock_rwvars == <<wvars, xvars>>

LockInit ==
    /\ InitQueue /\ lock_readers = 0 /\ held = [t \in Tasks |-> "none"]
    /\ lock_at = [t \in Tasks |-> "none"] /\ lock_kind = [t \in Tasks |-> "read"]
    /\ bypass = [t \in Tasks |-> 0] /\ nudged = {} /\ owed = {} /\ lock_upgrade = None /\ front = FALSE
    /\ took = {} /\ lock_asks = 0 /\ cast \in Casts /\ skipped = {}

MAX_BYPASS == cast.max_bypass

LockGo(t, where) == lock_at' = [lock_at EXCEPT ![t] = where]
Hold(t, gd) == held' = [held EXCEPT ![t] = gd]

AdmitsPastUpgrade(k, bits, count) ==
    CASE k = "read" -> "WRITER" \notin bits /\ count < max_readers
      [] k = "write" -> bits \cap {"WRITER", "UPGRADABLE"} = {} /\ count = 0
      [] k = "upgradable" -> bits \cap {"WRITER", "UPGRADABLE"} = {}

\* admits, of a word's bits and its readers
admits_in(k, bits, count) ==
    CASE k = "read" -> bits \cap {"WRITER", "UPGRADING"} = {} /\ count < max_readers
      [] k = "write" -> bits \cap {"WRITER", "UPGRADABLE"} = {} /\ count = 0
      [] k = "upgradable" -> bits \cap {"WRITER", "UPGRADABLE"} = {}
lock_admits(k) == admits_in(k, flags, lock_readers)

\* enter
Bit(k) == CASE k = "read" -> {} [] k = "write" -> {"WRITER"} [] k = "upgradable" -> {"UPGRADABLE"}
lock_enter(k) == flags' = flags \cup Bit(k) /\ lock_readers' = lock_readers + (IF k = "read" THEN 1 ELSE 0)

\* Lock::try_take: not past a handoff
may_take(k) == lock_admits(k) /\ "HANDOFF" \notin flags

-----------------------------------------------------------------------------
\* try_read, try_write, try_upgradable_read and their owned kinds
try_kind(t, k) ==
    /\ lock_at[t] = "none" /\ held[t] = "none" /\ Free(t) /\ k \in cast.may[t] /\ may_take(k)
    /\ lock_asks < cast.asks /\ lock_asks' = lock_asks + 1
    /\ lock_enter(k) /\ Hold(t, k)
    /\ UNCHANGED <<arrivals, list, node, woken, drain, lock_at, lock_kind, bypass, nudged, owed, lock_upgrade, front, cast, took, skipped>>

\* read, write, upgradable_read: a first poll that does not find it free queues,
lock_poll(t, k) ==
    /\ lock_at[t] = "none" /\ held[t] = "none" /\ Free(t) /\ k \in cast.may[t] /\ ~may_take(k)
    /\ lock_asks < cast.asks /\ lock_asks' = lock_asks + 1
    /\ LockGo(t, "queue") /\ lock_kind' = [lock_kind EXCEPT ![t] = k] /\ bypass' = [bypass EXCEPT ![t] = 0]
    /\ UNCHANGED <<wvars, lock_readers, held, nudged, owed, lock_upgrade, front, cast, took, skipped>>

queue(t) ==
    /\ lock_at[t] = "queue" /\ LockGo(t, "park") /\ enqueue(t, lock_kind[t]) /\ skipped' = skipped \ {t}
    /\ UNCHANGED <<lock_readers, held, lock_kind, bypass, nudged, owed, lock_upgrade, front, lock_asks, cast, took>>

\* and each poll after it finds a grant, a nudge, or arms its waker.
park(t) ==
    /\ lock_at[t] = "park" /\ Free(t)
    /\ CASE Granted(t) ->
              /\ node' = [node EXCEPT ![t] = NoNode] /\ flags' = flags \ {"NUDGE_OUT"}
              /\ Hold(t, lock_kind[t]) /\ LockGo(t, "none")
              /\ nudged' = nudged \ {t} /\ owed' = owed \ {t}
         [] ~Granted(t) /\ t \in nudged ->
              /\ flags' = flags \ {"NUDGE_OUT"} /\ nudged' = nudged \ {t} /\ LockGo(t, "retry")
              /\ node' = [node EXCEPT ![t].armed = FALSE] /\ UNCHANGED <<held, owed>>
         [] OTHER -> node' = [node EXCEPT ![t].armed = TRUE] /\ UNCHANGED <<flags, held, lock_at, nudged, owed>>
    /\ woken' = woken \ {t}
    /\ UNCHANGED <<arrivals, list, drain, lock_readers, lock_kind, bypass, lock_upgrade, front, lock_asks, cast, took, skipped>>

\* A loss seen with no handoff up counts.
Loses(t) == bypass' = [bypass EXCEPT ![t] = IF "HANDOFF" \in flags THEN @ ELSE Min({@ + 1, MAX_BYPASS})]

\* The nudged waiter competes again: it takes, or counts a loss in its future; but
\* before the attempt that would be its last loss it is counted as owed,
retry(t) ==
    /\ lock_at[t] = "retry"
    /\ IF bypass[t] + 1 = MAX_BYPASS
       THEN owed' = owed \cup {t} /\ LockGo(t, "owing") /\ UNCHANGED <<flags, lock_readers, bypass>>
       ELSE /\ IF may_take(lock_kind[t]) THEN lock_enter(lock_kind[t]) /\ LockGo(t, "won") /\ UNCHANGED bypass
               ELSE LockGo(t, "park") /\ Loses(t) /\ UNCHANGED <<flags, lock_readers>>
            /\ UNCHANGED owed
    /\ UNCHANGED <<arrivals, list, node, woken, drain, held, lock_kind, nudged, took, lock_upgrade, front, lock_asks, cast, skipped>>

\* marked so, unless it was granted meanwhile,
owe(t) ==
    /\ lock_at[t] = "owing" /\ LockGo(t, IF Granted(t) THEN "forgives" ELSE "marked")
    /\ UNCHANGED <<wvars, lock_readers, held, lock_kind, bypass, nudged, owed, took, lock_upgrade, front, lock_asks, cast, skipped>>

\* and in one swap takes, or raises the handoff; one owed already is kept.
owe_or_take(t) ==
    /\ lock_at[t] = "marked"
    /\ CASE "HANDOFF" \in flags -> LockGo(t, "forgives") /\ UNCHANGED <<flags, lock_readers, drain, bypass, took>>
         [] "HANDOFF" \notin flags /\ lock_admits(lock_kind[t]) ->
              lock_enter(lock_kind[t]) /\ took' = took \cup {t} /\ LockGo(t, "forgives") /\ UNCHANGED <<drain, bypass>>
         [] OTHER -> StepDrain(t, flags \cup {"HANDOFF"}) /\ Loses(t) /\ LockGo(t, "park") /\ UNCHANGED <<lock_readers, took>>
    /\ UNCHANGED <<arrivals, list, node, woken, held, lock_kind, nudged, owed, lock_upgrade, front, lock_asks, cast, skipped>>

\* It is owed nothing then: forgive, and, with a handoff still up, one more pass.
forgive(t) ==
    /\ lock_at[t] = "forgives" /\ owed' = owed \ {t} /\ LockGo(t, "forgiven")
    /\ UNCHANGED <<wvars, lock_readers, held, lock_kind, bypass, nudged, took, lock_upgrade, front, lock_asks, cast, skipped>>

forgiven(t) ==
    /\ lock_at[t] = "forgiven"
    /\ LockGo(t, CASE "HANDOFF" \in flags -> "decides" [] t \in took -> "won" [] OTHER -> "park")
    /\ UNCHANGED <<wvars, lock_readers, held, lock_kind, bypass, nudged, owed, took, lock_upgrade, front, lock_asks, cast, skipped>>

decides(t) ==
    /\ lock_at[t] = "decides" /\ StepDrain(t, flags) /\ LockGo(t, IF t \in took THEN "won" ELSE "park")
    /\ UNCHANGED <<arrivals, list, node, woken, lock_readers, held, lock_kind, bypass, nudged, owed, took, lock_upgrade, front, lock_asks,
                   cast, skipped>>

-----------------------------------------------------------------------------
\* unlock_kind: the word first, then the pass it asks for.
Gone(k) == CASE k = "write" -> {"WRITER"} [] k = "upgradable" -> {"UPGRADABLE", "UPGRADING"} [] OTHER -> {}

Entered(k) == IF k = "read" THEN 1 ELSE 0
wants_upgrade(k) == "UPGRADING" \in flags /\ (k = "upgradable" \/ (k = "read" /\ lock_readers = 1))

\* A release that leaves the pass to a nudge on its way, when the nudged were granted.
Outrun == ~wants_drain /\ Queued /\ \A t \in nudged: Granted(t)
Skips == skipped' = IF Outrun THEN skipped \cup Range(list) \cup Range(arrivals) ELSE skipped

UnlockForgetsUpgrade(t, k) ==
    /\ flags' = flags \ Gone(k) /\ lock_readers' = lock_readers - Entered(k) /\ Skips
    /\ LockGo(t, IF wants_drain THEN "released" ELSE "none")

unlock_kind(t, k) ==
    /\ flags' = flags \ Gone(k) /\ lock_readers' = lock_readers - Entered(k) /\ Skips
    /\ LockGo(t, IF wants_drain \/ wants_upgrade(k) THEN "released" ELSE "none")

\* read_unlock, write_unlock, upgradable_unlock: a guard dropped
lock_unlock(t) ==
    /\ lock_at[t] = "none" /\ held[t] # "none" /\ Free(t) /\ Hold(t, "none") /\ unlock_kind(t, held[t])
    /\ UNCHANGED <<arrivals, list, node, woken, drain, lock_kind, bypass, nudged, owed, took, lock_upgrade, front, lock_asks, cast>>

\* Policy::released
released(t) ==
    /\ lock_at[t] \in {"released", "up_released"} /\ LockGo(t, IF lock_at[t] = "released" THEN "none" ELSE "withdrawn")
    /\ StepWake(t, flags \cup {"WAKE_FRONT"})
    /\ UNCHANGED <<arrivals, list, node, woken, lock_readers, held, lock_kind, bypass, nudged, owed, lock_upgrade, front, lock_asks, cast, took, skipped>>

\* downgrade: the write becomes one read in the one step.
lock_downgrade(t) ==
    /\ lock_at[t] = "none" /\ held[t] = "write" /\ Free(t) /\ Hold(t, "read") /\ lock_readers' = lock_readers + 1
    /\ IF Queued THEN StepWake(t, (flags \ {"WRITER"}) \cup {"WAKE_FRONT"})
                 ELSE flags' = flags \ {"WRITER"} /\ UNCHANGED drain
    /\ UNCHANGED <<arrivals, list, node, woken, lock_at, lock_kind, bypass, nudged, owed, lock_upgrade, front, lock_asks, cast, took, skipped>>

\* Contend::cancel, of a waiter that took by itself or whose future is dropped: its
\* node goes, or the grant a pass made meanwhile, whose nudge goes first, is given back.
withdraw(t) ==
    /\ nudged' = nudged \ {t} /\ owed' = owed \ {t} /\ took' = took \ {t} /\ skipped' = skipped \ {t}
    /\ woken' = woken \ {t} /\ node' = [node EXCEPT ![t] = NoNode]
    /\ arrivals' = SelectSeq(arrivals, LAMBDA u: u # t)
    /\ list' = SelectSeq(list, LAMBDA u: u # t)
    /\ lock_upgrade' = IF lock_upgrade = t THEN None ELSE lock_upgrade

LockLeaves(t) ==
    /\ withdraw(t)
    /\ IF Granted(t) THEN flags' = flags \ {"NUDGE_OUT"} /\ LockGo(t, "gives")
                     ELSE UNCHANGED flags /\ LockGo(t, IF t \in nudged THEN "passes_on" ELSE "withdrawn")

cancel_won(t) ==
    /\ lock_at[t] = "won" /\ Free(t) /\ Hold(t, lock_kind[t]) /\ LockLeaves(t)
    /\ UNCHANGED <<drain, lock_readers, lock_kind, bypass, front, lock_asks, cast>>

\* RwWait::cancel: the future is dropped.
lock_cancel(t) ==
    /\ lock_at[t] = "park" /\ Free(t) /\ "drop" \in cast.may[t] /\ LockLeaves(t)
    /\ UNCHANGED <<drain, lock_readers, held, lock_kind, bypass, front, lock_asks, cast>>

\* Policy::withdrawn: the marker goes, and a wake not used passes to the front.
withdrawal(t) ==
    /\ lock_at[t] \in {"withdrawn", "passes_on"} /\ Free(t) /\ LockGo(t, "none")
    /\ StepDrain(t, (flags \ {"NUDGE_OUT"}) \cup (IF lock_at[t] = "passes_on" THEN {"WAKE_FRONT"} ELSE {}))
    /\ UNCHANGED <<arrivals, list, node, woken, lock_readers, held, lock_kind, bypass, nudged, owed, took, lock_upgrade, front, lock_asks,
                   cast, skipped>>

give_back(t) ==
    /\ lock_at[t] = "gives" /\ unlock_kind(t, lock_kind[t])
    /\ UNCHANGED <<arrivals, list, node, woken, drain, held, lock_kind, bypass, nudged, owed, took, lock_upgrade, front, lock_asks, cast>>

-----------------------------------------------------------------------------
\* RwLockUpgradableReadGuard::try_upgrade, and the first poll of an Upgrade,
\* which holds new readers back before it tries.
BecomeWrite == flags' = (flags \ {"UPGRADABLE", "UPGRADING"}) \cup {"WRITER"}

lock_try_upgrade(t) ==
    /\ lock_at[t] = "none" /\ held[t] = "upgradable" /\ Free(t) /\ "upgrade" \in cast.may[t] /\ lock_readers = 0
    /\ BecomeWrite /\ Hold(t, "write")
    /\ UNCHANGED <<arrivals, list, node, woken, drain, lock_readers, lock_at, lock_kind, bypass, nudged, owed, lock_upgrade, front, lock_asks, cast, took, skipped>>

upgrade_begins(t) ==
    /\ lock_at[t] = "none" /\ held[t] = "upgradable" /\ Free(t) /\ "upgrade" \in cast.may[t]
    /\ flags' = flags \cup {"UPGRADING"} /\ LockGo(t, "upgrade")
    /\ UNCHANGED <<arrivals, list, node, woken, drain, lock_readers, held, lock_kind, bypass, nudged, owed, lock_upgrade, front, lock_asks, cast, took, skipped>>

upgrade_tries(t) ==
    /\ lock_at[t] = "upgrade"
    /\ IF lock_readers = 0
       THEN BecomeWrite /\ Hold(t, "write") /\ LockGo(t, "none") /\ UNCHANGED <<arrivals, list, node, woken, drain>>
       ELSE enqueue(t, "upgrade") /\ LockGo(t, "up_park") /\ UNCHANGED held
    /\ UNCHANGED <<lock_readers, lock_kind, bypass, nudged, owed, lock_upgrade, front, lock_asks, cast, took, skipped>>

\* UpgradeWait::poll: the grant says that the readers left, and finish_upgrade
\* makes it the write.
upgrade_polls(t) ==
    /\ lock_at[t] = "up_park" /\ Free(t)
    /\ IF Granted(t)
       THEN /\ BecomeWrite /\ Hold(t, "write") /\ LockGo(t, "none")
            /\ node' = [node EXCEPT ![t] = NoNode] /\ woken' = woken \ {t} /\ UNCHANGED <<arrivals, list, drain>>
       ELSE arm(t) /\ UNCHANGED <<held, lock_at>>
    /\ UNCHANGED <<lock_readers, lock_kind, bypass, nudged, owed, lock_upgrade, front, lock_asks, cast, took, skipped>>

\* UpgradeWait::cancel: the node goes, or its grant is found; then the upgradable
\* read goes, with the pass it asks for; then, of a node withdrawn, a second pass.
lock_upgrade_cancels(t) ==
    /\ lock_at[t] = "up_park" /\ Free(t) /\ withdraw(t) /\ LockGo(t, IF Granted(t) THEN "up_granted" ELSE "up_gone")
    /\ UNCHANGED <<flags, drain, lock_readers, held, lock_kind, bypass, front, lock_asks, cast>>

upgrade_unlocks(t) ==
    /\ lock_at[t] \in {"up_granted", "up_gone"} /\ Hold(t, "none") /\ flags' = flags \ {"UPGRADABLE", "UPGRADING"}
    /\ LockGo(t, IF lock_at[t] = "up_granted" THEN "released" ELSE "up_released")
    /\ UNCHANGED <<arrivals, list, node, woken, drain, lock_readers, lock_kind, bypass, nudged, owed, took, lock_upgrade, front, lock_asks,
                   cast, skipped>>

-----------------------------------------------------------------------------
\* pass: an upgrade queued is kept apart, and told once the readers left;
pass_upgrade ==
    /\ drain.at = "pass" /\ drain' = [drain EXCEPT !.at = "hand"]
    /\ LET is_up(t) == node[t].payload = "upgrade"
           up == {t \in Range(list): is_up(t)} \cup ({lock_upgrade} \ {None})
           grant_upgrade == up # {} /\ "UPGRADING" \in flags /\ lock_readers = 0
       IN  /\ list' = SelectSeq(list, LAMBDA t: ~is_up(t))
           /\ Granting(IF grant_upgrade THEN up ELSE {}, "upgrade")
           /\ lock_upgrade' = IF up = {} \/ grant_upgrade THEN None ELSE CHOOSE t \in up: TRUE
    /\ UNCHANGED <<flags, arrivals, lock_readers, held, lock_at, lock_kind, bypass, nudged, owed, front, lock_asks, cast, took, skipped>>

\* with a handoff owed, what is free goes to the waiters in order;
pass_hands ==
    /\ drain.at = "hand"
    /\ IF "HANDOFF" \in flags /\ list # <<>> /\ lock_admits(node[list[1]].payload)
       THEN LET k == node[list[1]].payload IN
            /\ lock_enter(k) /\ Granting({list[1]}, k) /\ list' = Tail(list)
            /\ owed' = IF lock_at[list[1]] = "owing" THEN owed ELSE owed \ {list[1]}
            /\ skipped' = skipped \ {list[1]}
            /\ drain' = [drain EXCEPT !.at = IF k = "write" THEN "nudge" ELSE "hand"]
       ELSE drain' = [drain EXCEPT !.at = "nudge"] /\ UNCHANGED <<flags, lock_readers, node, woken, list, owed, skipped>>
    /\ UNCHANGED <<arrivals, held, lock_at, lock_kind, bypass, nudged, took, lock_upgrade, front, lock_asks, cast>>

\* without one, the front is nudged, and with a reader there all that share.
Shares(i) ==
    LET ahead == {node[list[j]].payload: j \in 1..i-1}
        count == Cardinality({j \in 1..i-1: node[list[j]].payload = "read"})
    IN  admits_in(node[list[i]].payload, flags \cup (IF "upgradable" \in ahead THEN {"UPGRADABLE"} ELSE {}),
                  lock_readers + count)

Nudged == {i \in DOMAIN list:
              IF i = 1 THEN Shares(1) \/ front
              ELSE \A j \in 1..i: Shares(j) /\ node[list[j]].payload # "write"}

pass_nudges ==
    /\ drain.at = "nudge" /\ drain' = [drain EXCEPT !.at = "end"] /\ front' = FALSE
    /\ LET out == IF "HANDOFF" \in flags /\ owed # {} THEN {} ELSE {list[i]: i \in Nudged} IN
       /\ nudged' = nudged \cup out /\ skipped' = skipped \ out /\ woken' = woken \cup {t \in out: node[t].armed}
       /\ node' = [t \in Tasks |-> IF t \in out THEN [node[t] EXCEPT !.armed = FALSE] ELSE node[t]]
       /\ flags' = IF out = {} THEN flags ELSE flags \cup {"NUDGE_OUT"}
    /\ UNCHANGED <<arrivals, list, lock_readers, held, lock_at, lock_kind, bypass, owed, took, lock_upgrade, lock_asks, cast>>

DrainStep ==
    \/ /\ drain_begin /\ front' = ("WAKE_FRONT" \in flags)
       /\ UNCHANGED <<lock_readers, held, lock_at, lock_kind, bypass, nudged, owed, lock_upgrade, lock_asks, cast, took, skipped>>
    \/ pass_upgrade \/ pass_hands \/ pass_nudges
    \/ /\ drain_end((IF list = <<>> /\ lock_upgrade = None THEN {"QUEUED"} ELSE {})
                    \cup (IF owed = {} THEN {"HANDOFF"} ELSE {}))
       /\ UNCHANGED xvars

LockNext ==
    \/ \E t \in Tasks:
        \/ \E k \in {"read", "write", "upgradable"}: try_kind(t, k) \/ lock_poll(t, k)
        \/ queue(t) \/ park(t) \/ retry(t) \/ owe(t) \/ owe_or_take(t) \/ forgive(t) \/ forgiven(t) \/ decides(t)
        \/ cancel_won(t) \/ lock_cancel(t) \/ withdrawal(t) \/ give_back(t)
        \/ lock_unlock(t) \/ released(t) \/ lock_downgrade(t)
        \/ lock_try_upgrade(t) \/ upgrade_begins(t) \/ upgrade_tries(t) \/ upgrade_polls(t)
        \/ lock_upgrade_cancels(t) \/ upgrade_unlocks(t)
    \/ DrainStep

LockSpec == LockInit /\ [][LockNext]_lock_rwvars

(***************************************************************************)
(* A write excludes every other guard, two upgradable reads never hold at  *)
(* once, and the readers inside stay within max_readers, through barging,  *)
(* handoffs, upgrades and downgrades.                                      *)
(***************************************************************************)
Excludes ==
    /\ \A t, u \in Tasks: t # u =>
        /\ held[t] = "write" => held[u] = "none"
        /\ held[t] = "upgradable" => held[u] # "upgradable"
    /\ Cardinality({t \in Tasks: held[t] = "read"}) <= max_readers

(***************************************************************************)
(* Nobody is left asleep before a lock it could have: with every call and  *)
(* pass over, a front waiter that would be admitted was nudged or granted, *)
(* no handoff is owed over a lock that is free for it, and an upgrade whose*)
(* readers left was told.  But a waiter a release passed over for a nudge  *)
(* on its way to one already granted, whose poll takes the marker back and *)
(* wakes nobody: it waits for the next release.                            *)
(***************************************************************************)
NobodyStranded ==
    drain = NoDrain /\ (\A t \in Tasks: lock_at[t] \in {"none", "park", "up_park"}) =>
        /\ list # <<>> /\ lock_admits(node[list[1]].payload) => list[1] \in nudged \cup skipped
        /\ lock_upgrade # None => lock_readers # 0
        /\ "HANDOFF" \in flags => owed # {} /\ ~lock_admits(node[list[1]].payload)
==============================================================================
