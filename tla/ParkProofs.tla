------------------------------ MODULE ParkProofs -----------------------------
(***************************************************************************)
(* Proofs about the park of a shard, for any number of posters.            *)
(*                                                                         *)
(* The inductive invariant follows the shard's last look: once it looked   *)
(* at a queue, work that is in it came after, so its poster is yet to look *)
(* at `parked`; and once `parked` is false in a park, someone swapped it   *)
(* and notifies.                                                           *)
(***************************************************************************)
EXTENDS Park, FiniteSetTheorems, SequenceTheorems, TLAPS

\* The wake of a shard that parks is there or on its way.
Comes == notified \/ WakeComes

\* A park is announced and its end not yet.
Parking == {"tasks", "timers", "sources", "future", "drive", "wait"}

\* A flag cleared during a park was cleared by a poster, which notifies.
ClearedIsNotified ==
    loop \in Parking /\ ~parked => notified \/ \E p \in Posters : pc[p] = "notify"

\* What is in a queue already looked at came after the look.
LookedAt ==
    /\ loop \in Parking \ {"tasks"} /\ inbox > 0 => Comes
    /\ loop \in {"sources", "future", "drive", "wait"} /\ ~Quiet /\ posted["timer"] # <<>> => Comes
    /\ loop \in {"future", "drive", "wait"} /\ ~Quiet /\ posted["io"] # <<>> => Comes
    /\ loop \in {"drive", "wait"} /\ woken => Comes

\* The shard's own queue is empty as it parks.
QueueDry ==
    /\ loop \in {"spin", "say"} \cup (Parking \ {"wait"}) => local = 0
    /\ loop = "wait" /\ local > 0 => zero

\* Without quiet removals every change wakes the shard.
AllLoud == ~Quiet => \A p \in Posters : pc[p] = "count" => what[p][2] = "loud"

IInv == ParkTypeOK /\ CountLags /\ AllLoud /\ ClearedIsNotified /\ LookedAt /\ QueueDry

-----------------------------------------------------------------------------

\* Finitely many posters are between a push and its count (Counted::push).
LEMMA UncountedFinite == \A m : IsFiniteSet(Uncounted(m)) /\ Cardinality(Uncounted(m)) \in Nat
  BY BoundsAreNat, FS_Subset, FS_CardinalityType DEF Uncounted

\* What is left of a sequence when its first n elements are taken.
LEMMA TakeLen ==
  ASSUME NEW S, NEW s \in Seq(S), NEW n \in Nat, NEW k \in Nat, Len(s) = n + k
  PROVE  LET t == SubSeq(s, n + 1, Len(s))
         IN  t \in Seq(S) /\ Len(t) = k /\ (s = <<>> => t = <<>>)
<1> DEFINE t == SubSeq(s, n + 1, Len(s))
<1>1. t \in Seq(S) /\ Len(t) = k
  BY SubSeqProperties
<1>2. s = <<>> => k = 0
  OBVIOUS
<1>3. k = 0 => t = <<>>
  BY <1>1, EmptySeq
<1> HIDE DEF t
<1> QED BY <1>1, <1>2, <1>3 DEF t

\* Counted::take_all leaves the changes whose push did not count them yet.
LEMMA TakeLeavesUncounted ==
  ASSUME ParkTypeOK, CountLags, TakePosted, UNCHANGED <<pc, what>>
  PROVE  /\ CountLags'
         /\ posted' \in [Mailboxes -> Seq({"loud", "quiet"})]
         /\ count' \in [Mailboxes -> Nat]
         /\ \A m \in Mailboxes : posted'[m] # <<>> => posted[m] # <<>>
<1>1. ASSUME NEW m \in Mailboxes
      PROVE  /\ Len(posted'[m]) = count'[m] + Cardinality(Uncounted(m)')
             /\ posted'[m] \in Seq({"loud", "quiet"})
             /\ posted'[m] # <<>> => posted[m] # <<>>
  <2>1. Uncounted(m)' = Uncounted(m)
    BY DEF Uncounted
  <2>2. /\ posted[m] \in Seq({"loud", "quiet"}) /\ count[m] \in Nat
        /\ Len(posted[m]) = count[m] + Cardinality(Uncounted(m))
    BY <1>1 DEF ParkTypeOK, CountLags
  <2>3. posted'[m] = SubSeq(posted[m], count[m] + 1, Len(posted[m])) /\ count'[m] = 0
    BY <1>1 DEF TakePosted
  <2>4. PICK k \in Nat : k = Cardinality(Uncounted(m))
    BY UncountedFinite
  <2>5. /\ posted'[m] \in Seq({"loud", "quiet"}) /\ Len(posted'[m]) = k
        /\ posted[m] = <<>> => posted'[m] = <<>>
    <3> DEFINE s == posted[m]  n == count[m]
    <3>1. s \in Seq({"loud", "quiet"}) /\ n \in Nat /\ Len(s) = n + k
      BY <2>2, <2>4
    <3>2. LET t == SubSeq(s, n + 1, Len(s))
          IN  t \in Seq({"loud", "quiet"}) /\ Len(t) = k /\ (s = <<>> => t = <<>>)
      <4> HIDE DEF s, n
      <4> QED BY <3>1, TakeLen
    <3> QED BY <2>3, <3>2
  <2> QED BY <2>1, <2>3, <2>4, <2>5
<1> QED BY <1>1 DEF CountLags, TakePosted

\* A step of a poster that neither posts nor counts.
LEMMA CountLagsKept ==
  ASSUME ParkTypeOK, CountLags, UNCHANGED <<posted, count, what>>,
         NEW p \in Posters, NEW x, Goes(p, x), pc[p] # "count", x # "count"
  PROVE  CountLags'
<1>1. \A m : Uncounted(m)' = Uncounted(m)
  BY DEF Uncounted, Goes, ParkTypeOK
<1> QED BY <1>1 DEF CountLags

\* A push adds one item and one poster that has not counted it (Counted::push).
LEMMA CountLagsPost ==
  ASSUME ParkTypeOK, CountLags, NEW p \in Posters, NEW m \in Mailboxes,
         NEW l \in {"loud", "quiet"}, post(p, m, l)
  PROVE  CountLags'
<1> SUFFICES ASSUME NEW n \in Mailboxes
             PROVE  Len(posted'[n]) = count'[n] + Cardinality(Uncounted(n)')
  BY DEF CountLags
<1>1. /\ posted[n] \in Seq({"loud", "quiet"}) /\ count[n] \in Nat /\ count'[n] = count[n]
      /\ Len(posted[n]) = count[n] + Cardinality(Uncounted(n))
  BY DEF ParkTypeOK, CountLags, post
<1>2. CASE n = m
  <2>1. Uncounted(n)' = Uncounted(n) \cup {p} /\ p \notin Uncounted(n)
    BY <1>2 DEF Uncounted, post, Goes, ParkTypeOK
  <2>2. Cardinality(Uncounted(n)') = Cardinality(Uncounted(n)) + 1
    BY <2>1, UncountedFinite, FS_AddElement
  <2>3. Len(posted'[n]) = Len(posted[n]) + 1
    BY <1>1, <1>2 DEF post, ParkTypeOK
  <2>4. PICK k \in Nat : k = Cardinality(Uncounted(n))
    BY UncountedFinite
  <2>5. Cardinality(Uncounted(n)') = k + 1 /\ Len(posted[n]) = count[n] + k
    BY <1>1, <2>2, <2>4
  <2> QED BY <1>1, <2>3, <2>5
<1>3. CASE n # m
  <2>1. Uncounted(n)' = Uncounted(n) /\ posted'[n] = posted[n]
    BY <1>3 DEF Uncounted, post, Goes, ParkTypeOK
  <2> QED BY <1>1, <2>1
<1> QED BY <1>2, <1>3

\* A count adds one and takes its poster out of the uncounted (Counted::push).
LEMMA CountLagsCount ==
  ASSUME ParkTypeOK, CountLags, NEW p \in Posters, post_count(p)
  PROVE  CountLags'
<1> SUFFICES ASSUME NEW n \in Mailboxes
             PROVE  Len(posted'[n]) = count'[n] + Cardinality(Uncounted(n)')
  BY DEF CountLags
<1>1. /\ posted'[n] = posted[n] /\ count[n] \in Nat
      /\ Len(posted[n]) = count[n] + Cardinality(Uncounted(n))
  BY DEF ParkTypeOK, CountLags, post_count
<1>2. CASE n = what[p][1]
  <2>1. Uncounted(n)' = Uncounted(n) \ {p} /\ p \in Uncounted(n)
    BY <1>2 DEF Uncounted, post_count, Goes, ParkTypeOK
  <2>2. Cardinality(Uncounted(n)') = Cardinality(Uncounted(n)) - 1
    BY <2>1, UncountedFinite, FS_RemoveElement
  <2>3. count'[n] = count[n] + 1
    BY <1>2 DEF post_count, ParkTypeOK
  <2> QED BY <1>1, <2>2, <2>3, UncountedFinite
<1>3. CASE n # what[p][1]
  <2>1. Uncounted(n)' = Uncounted(n)
    BY <1>3 DEF Uncounted, post_count, Goes, ParkTypeOK
  <2>2. count'[n] = count[n]
    BY <1>3 DEF post_count, ParkTypeOK
  <2> QED BY <1>1, <2>1, <2>2
<1> QED BY <1>2, <1>3

-----------------------------------------------------------------------------

\* A shard starts with empty mailboxes and no poster under way.
LEMMA InitIInv == ParkInit => IInv
<1> SUFFICES ASSUME ParkInit PROVE IInv
  OBVIOUS
<1>1. \A m : Uncounted(m) = {}
  BY DEF ParkInit, Uncounted
<1>2. CountLags
  <2> SUFFICES ASSUME NEW m \in Mailboxes
               PROVE  Len(posted[m]) = count[m] + Cardinality(Uncounted(m))
    BY DEF CountLags
  <2>1. posted[m] = <<>> /\ count[m] = 0
    BY DEF ParkInit
  <2>2. Cardinality(Uncounted(m)) = 0
    BY <1>1, FS_EmptySet
  <2> QED BY <2>1, <2>2
<1>3. ParkTypeOK
  <2>1. posted \in [Mailboxes -> Seq({"loud", "quiet"})]
    BY DEF ParkInit, Mailboxes
  <2>2. what \in [Posters -> Mailboxes \X {"loud", "quiet"}]
    BY DEF ParkInit, Mailboxes
  <2> QED BY <2>1, <2>2 DEF ParkInit, ParkTypeOK
<1> QED BY <1>2, <1>3 DEF ParkInit, IInv, AllLoud, ClearedIsNotified, LookedAt, QueueDry, Parking

\* The parts of the invariant besides the types and the counts.
Handshake == AllLoud /\ ClearedIsNotified /\ LookedAt /\ QueueDry

\* Steps of the posters.
LEMMA PosterStep ==
  ASSUME IInv, NEW p \in Posters, Poster(p)
  PROVE  IInv'
<1> USE DEF IInv
<1>1. CASE push_remote(p)
  <2>1. ParkTypeOK' BY <1>1 DEF ParkTypeOK, push_remote, Goes, shard
  <2>2. CountLags' BY <1>1, CountLagsKept DEF push_remote, shard, queues
  <2>3. Handshake'
    BY <1>1 DEF push_remote, Handshake, AllLoud, ClearedIsNotified, LookedAt, QueueDry, Comes,
                WakeComes, Parking, ParkTypeOK, Goes, shard
  <2> QED BY <2>1, <2>2, <2>3 DEF Handshake
<1>2. CASE wake_future(p)
  <2>1. ParkTypeOK' BY <1>2 DEF ParkTypeOK, wake_future, Goes, shard
  <2>2. CountLags' BY <1>2, CountLagsKept DEF wake_future
  <2>3. Handshake'
    BY <1>2 DEF wake_future, Handshake, AllLoud, ClearedIsNotified, LookedAt, QueueDry, Comes,
                WakeComes, Parking, ParkTypeOK, Goes, shard
  <2> QED BY <2>1, <2>2, <2>3 DEF Handshake
<1>3. ASSUME NEW m \in Mailboxes, NEW l \in {"loud", "quiet"}, post(p, m, l)
      PROVE  IInv'
  <2>1. ParkTypeOK' BY <1>3 DEF ParkTypeOK, post, Goes, shard, Mailboxes
  <2>2. CountLags' BY <1>3, CountLagsPost
  <2>3. Handshake'
    BY <1>3 DEF post, Handshake, AllLoud, ClearedIsNotified, LookedAt, QueueDry, Comes,
                WakeComes, Parking, ParkTypeOK, Goes, shard, Mailboxes
  <2> QED BY <2>1, <2>2, <2>3 DEF Handshake
<1>4. CASE post_count(p)
  <2>1. ParkTypeOK' BY <1>4 DEF ParkTypeOK, post_count, Goes, shard, Mailboxes
  <2>2. CountLags' BY <1>4, CountLagsCount
  <2>3. Handshake'
    BY <1>4 DEF post_count, Handshake, AllLoud, ClearedIsNotified, LookedAt, QueueDry, Comes,
                WakeComes, Parking, ParkTypeOK, Goes, shard, Mailboxes
  <2> QED BY <2>1, <2>2, <2>3 DEF Handshake
<1>5. CASE wake_load(p)
  <2>1. ParkTypeOK' BY <1>5 DEF ParkTypeOK, wake_load, Goes, shard, queues
  <2>2. CountLags' BY <1>5, CountLagsKept DEF wake_load, queues
  <2>3. Handshake'
    BY <1>5 DEF wake_load, Handshake, AllLoud, ClearedIsNotified, LookedAt, QueueDry, Comes,
                WakeComes, Parking, ParkTypeOK, Goes, shard, queues
  <2> QED BY <2>1, <2>2, <2>3 DEF Handshake
<1>6. CASE wake_swap(p)
  <2>1. ParkTypeOK' BY <1>6 DEF ParkTypeOK, wake_swap, Goes, shard, queues
  <2>2. CountLags' BY <1>6, CountLagsKept DEF wake_swap, queues
  <2>3. Handshake'
    BY <1>6 DEF wake_swap, Handshake, AllLoud, ClearedIsNotified, LookedAt, QueueDry, Comes,
                WakeComes, Parking, ParkTypeOK, Goes, shard, queues
  <2> QED BY <2>1, <2>2, <2>3 DEF Handshake
<1>7. CASE wake_notify(p)
  <2>1. ParkTypeOK' BY <1>7 DEF ParkTypeOK, wake_notify, Goes, shard, queues
  <2>2. CountLags' BY <1>7, CountLagsKept DEF wake_notify, queues
  <2>3. Handshake'
    BY <1>7 DEF wake_notify, Handshake, AllLoud, ClearedIsNotified, LookedAt, QueueDry, Comes,
                WakeComes, Parking, ParkTypeOK, Goes, shard, queues
  <2> QED BY <2>1, <2>2, <2>3 DEF Handshake
<1> QED BY <1>1, <1>2, <1>3, <1>4, <1>5, <1>6, <1>7 DEF Poster, PosterGoesOn

\* Steps of the shard that touch neither a mailbox nor a poster.
LEMMA LoopStep ==
  ASSUME IInv, UNCHANGED <<posted, count, pc, what>>,
         \/ poll_future \/ no_poll \/ run_local \/ run_remote \/ check_again \/ spin
         \/ begin_park \/ look_again \/ back_out \/ wait_ends \/ wait_event \/ end_park
  PROVE  IInv'
<1> USE DEF IInv
<1>0. CountLags'
  BY DEF CountLags, Uncounted
<1>1. CASE poll_future
  <2>1. ParkTypeOK' BY <1>1, BoundsAreNat DEF ParkTypeOK, poll_future, WakesTasks
  <2>2. Handshake' BY <1>1 DEF poll_future, Handshake, AllLoud, ClearedIsNotified, LookedAt,
                               QueueDry, Parking, ParkTypeOK
  <2> QED BY <1>0, <2>1, <2>2 DEF Handshake
<1>2. CASE no_poll
  <2>1. ParkTypeOK' BY <1>2 DEF ParkTypeOK, no_poll, queues
  <2>2. Handshake' BY <1>2 DEF no_poll, Handshake, AllLoud, ClearedIsNotified, LookedAt,
                               QueueDry, Parking, ParkTypeOK, queues
  <2> QED BY <1>0, <2>1, <2>2 DEF Handshake
<1>3. CASE run_local
  <2>0. woken' \in BOOLEAN BY <1>3, Zenon DEF ParkTypeOK, run_local
  <2>1. ParkTypeOK' BY <1>3, <2>0, BoundsAreNat DEF ParkTypeOK, run_local, WakesTasks
  <2>2. Handshake' BY <1>3 DEF run_local, Handshake, AllLoud, ClearedIsNotified, LookedAt,
                               QueueDry, Parking, ParkTypeOK
  <2> QED BY <1>0, <2>1, <2>2 DEF Handshake
<1>4. CASE run_remote
  <2>0. woken' \in BOOLEAN BY <1>4, Zenon DEF ParkTypeOK, run_remote
  <2>1. ParkTypeOK' BY <1>4, <2>0, BoundsAreNat DEF ParkTypeOK, run_remote, WakesTasks
  <2>2. Handshake' BY <1>4 DEF run_remote, Handshake, AllLoud, ClearedIsNotified, LookedAt,
                               QueueDry, Parking, ParkTypeOK
  <2> QED BY <1>0, <2>1, <2>2 DEF Handshake
<1>5. CASE check_again
  <2>1. ParkTypeOK' BY <1>5 DEF ParkTypeOK, check_again, queues
  <2>2. Handshake' BY <1>5 DEF check_again, Handshake, AllLoud, ClearedIsNotified, LookedAt,
                               QueueDry, Parking, ParkTypeOK, queues
  <2> QED BY <1>0, <2>1, <2>2 DEF Handshake
<1>6. CASE spin
  <2>1. ParkTypeOK' BY <1>6, BoundsAreNat DEF ParkTypeOK, spin, WakesTasks, queues
  <2>2. Handshake' BY <1>6 DEF spin, Handshake, AllLoud, ClearedIsNotified, LookedAt,
                               QueueDry, Parking, ParkTypeOK, queues
  <2> QED BY <1>0, <2>1, <2>2 DEF Handshake
<1>7. CASE begin_park
  <2>1. ParkTypeOK' BY <1>7 DEF ParkTypeOK, begin_park, queues
  <2>2. Handshake' BY <1>7 DEF begin_park, Handshake, AllLoud, ClearedIsNotified, LookedAt,
                               QueueDry, Parking, ParkTypeOK, queues
  <2> QED BY <1>0, <2>1, <2>2 DEF Handshake
<1>9. CASE back_out
  <2>1. ParkTypeOK' BY <1>9 DEF ParkTypeOK, back_out, queues
  <2>2. Handshake' BY <1>9 DEF back_out, Handshake, AllLoud, ClearedIsNotified, LookedAt,
                               QueueDry, Parking, ParkTypeOK, queues
  <2> QED BY <1>0, <2>1, <2>2 DEF Handshake
<1>10. CASE wait_ends
  <2>0. woken' \in BOOLEAN BY <1>10, Zenon DEF ParkTypeOK, wait_ends
  <2>1. local' \in Nat BY <1>10, BoundsAreNat DEF ParkTypeOK, wait_ends, WakesTasks
  <2>3. ParkTypeOK' BY <1>10, <2>0, <2>1 DEF ParkTypeOK, wait_ends
  <2>2. Handshake' BY <1>10 DEF wait_ends, Handshake, AllLoud, ClearedIsNotified, LookedAt,
                                QueueDry, Parking, ParkTypeOK
  <2> QED BY <1>0, <2>2, <2>3 DEF Handshake
<1>11. CASE wait_event
  <2>0. woken' \in BOOLEAN BY <1>11, Zenon DEF ParkTypeOK, wait_event
  <2>1. local' \in Nat BY <1>11, BoundsAreNat DEF ParkTypeOK, wait_event, WakesTasks
  <2>3. ParkTypeOK' BY <1>11, <2>0, <2>1 DEF ParkTypeOK, wait_event
  <2>2. Handshake' BY <1>11 DEF wait_event, Handshake, AllLoud, ClearedIsNotified, LookedAt,
                                QueueDry, Parking, ParkTypeOK
  <2> QED BY <1>0, <2>2, <2>3 DEF Handshake
<1>12. CASE end_park
  <2>1. ParkTypeOK' BY <1>12 DEF ParkTypeOK, end_park, queues
  <2>2. Handshake' BY <1>12 DEF end_park, Handshake, AllLoud, ClearedIsNotified, LookedAt,
                                QueueDry, Parking, ParkTypeOK, queues
  <2> QED BY <1>0, <2>1, <2>2 DEF Handshake
<1>8. CASE look_again
  <2>0. /\ UNCHANGED <<parked, notified, inbox, woken, local, zero>>
        /\ Comes' = Comes
    BY <1>8 DEF look_again, queues, Comes, WakeComes
  <2>1. ParkTypeOK' BY <1>8 DEF ParkTypeOK, look_again, queues
  <2>2. ClearedIsNotified' /\ AllLoud' /\ QueueDry'
    BY <1>8, <2>0 DEF look_again, AllLoud, ClearedIsNotified, QueueDry, Parking, ParkTypeOK
  \* A mailbox with changes and no count: a poster is yet to count, and then wakes.
  <2>3. ASSUME NEW m \in Mailboxes, count[m] = 0, posted[m] # <<>>, ~Quiet, loop \in Parking
        PROVE  Comes
    <3>1. Cardinality(Uncounted(m)) # 0
      BY <2>3, EmptySeq DEF CountLags, ParkTypeOK
    <3>2. PICK p \in Posters : pc[p] = "count"
      BY <3>1, FS_EmptySet DEF Uncounted
    <3>3. what[p][2] = "loud"
      BY <2>3, <3>2 DEF AllLoud
    <3> QED BY <2>3, <3>2, <3>3 DEF ClearedIsNotified, Comes, WakeComes
  <2>4. LookedAt'
    BY <1>8, <2>0, <2>3 DEF look_again, LookedAt, Parking, ParkTypeOK, Mailboxes
  <2> QED BY <1>0, <2>1, <2>2, <2>4
<1> QED BY <1>1, <1>2, <1>3, <1>4, <1>5, <1>6, <1>7, <1>8, <1>9, <1>10, <1>11, <1>12

\* Steps of the shard that apply the posted changes.
LEMMA DriveStep ==
  ASSUME IInv, apply_ops \/ drive_look \/ drive
  PROVE  IInv'
<1> USE DEF IInv
<1>0. UNCHANGED <<pc, what>> /\ TakePosted
  BY DEF apply_ops, drive_look, drive
<1>1. /\ CountLags'
      /\ posted' \in [Mailboxes -> Seq({"loud", "quiet"})]
      /\ count' \in [Mailboxes -> Nat]
      /\ \A m \in Mailboxes : posted'[m] # <<>> => posted[m] # <<>>
  BY <1>0, TakeLeavesUncounted
<1>2. ParkTypeOK'
  <2>1. woken' \in BOOLEAN /\ parked' \in BOOLEAN
    BY Zenon DEF ParkTypeOK, apply_ops, drive_look, drive, WakesFuture
  <2>2. notified' \in BOOLEAN
    BY DEF ParkTypeOK, apply_ops, drive_look, drive, WakesFuture
  <2>3. local' \in Nat
    BY BoundsAreNat DEF ParkTypeOK, apply_ops, drive_look, drive, WakesTasks
  <2>4. zero' \in BOOLEAN
    <3>1. CASE apply_ops \/ drive_look
      BY <3>1, Zenon DEF ParkTypeOK, apply_ops, drive_look
    <3>2. CASE drive
      <4>1. zero' = (local' > 0) /\ (local' > 0) \in BOOLEAN
        BY <3>2 DEF drive
      <4> QED BY <4>1, Zenon
    <3> QED BY <3>1, <3>2
  <2> QED BY <1>0, <1>1, <2>1, <2>2, <2>3, <2>4 DEF ParkTypeOK, apply_ops, drive_look, drive
<1>3. CASE apply_ops \/ drive_look
  BY <1>0, <1>1, <1>2, <1>3 DEF apply_ops, drive_look, AllLoud, ClearedIsNotified, LookedAt, QueueDry, Parking
<1>4. CASE drive
  <2>1. AllLoud' /\ QueueDry'
    BY <1>0, <1>2, <1>4 DEF drive, AllLoud, QueueDry, Parking, ParkTypeOK
  <2>2. CASE UNCHANGED <<woken, parked, notified>>
    <3>1. Comes' = Comes
      BY <1>0, <2>2 DEF Comes, WakeComes
    <3>2. ClearedIsNotified'
      BY <1>0, <1>4, <2>2 DEF drive, ClearedIsNotified, Parking
    <3>3. LookedAt'
      BY <1>1, <1>4, <2>2, <3>1 DEF drive, LookedAt, Parking, Mailboxes
    <3> QED BY <1>1, <1>2, <2>1, <3>2, <3>3
  <2>3. CASE parked' = FALSE /\ notified' = (notified \/ parked)
    <3>1. Comes' /\ ClearedIsNotified'
      BY <1>0, <1>4, <2>3 DEF drive, Comes, WakeComes, ClearedIsNotified, Parking, ParkTypeOK
    <3> QED BY <1>1, <1>2, <2>1, <3>1 DEF LookedAt
  <2> QED BY <1>4, <2>2, <2>3 DEF drive, WakesFuture
<1> QED BY <1>3, <1>4

\* TypeOK and the handshake hold in every state of the park, for any number of
\* posters and whatever they post.
THEOREM ParkInvariant == ParkSpec => []IInv
<1>1. ParkInit => IInv
  BY InitIInv
<1>2. IInv /\ [ParkNext]_parkvars => IInv'
  <2> SUFFICES ASSUME IInv, [ParkNext]_parkvars PROVE IInv'
    OBVIOUS
  <2>1. ASSUME NEW p \in Posters, Poster(p) PROVE IInv'
    BY <2>1, PosterStep
  <2>2. CASE apply_ops \/ drive_look \/ drive
    BY <2>2, DriveStep
  <2>3. CASE \/ poll_future \/ no_poll \/ run_local \/ run_remote \/ check_again \/ spin
             \/ begin_park \/ look_again \/ back_out \/ wait_ends \/ wait_event \/ end_park
    <3>1. UNCHANGED <<posted, count, pc, what>>
      BY <2>3 DEF poll_future, no_poll, run_local, run_remote, check_again, spin, begin_park,
                  look_again, back_out, wait_ends, wait_event, end_park, queues
    <3> QED BY <2>3, <3>1, LoopStep
  <2>4. CASE UNCHANGED parkvars
    BY <2>4 DEF parkvars, queues, shard, IInv, ParkTypeOK, CountLags, Uncounted, AllLoud,
                ClearedIsNotified, LookedAt, QueueDry, Comes, WakeComes
  <2> QED BY <2>1, <2>2, <2>3, <2>4 DEF ParkNext, ShardStep
<1> QED BY <1>1, <1>2, PTL DEF ParkSpec

\* No wake is lost: a shard asleep with no notification has nothing to do, or a
\* thread is about to notify it.
THEOREM WakesNotLost == ParkSpec => []NoLostWake
<1>1. IInv => NoLostWake
  BY DEF IInv, ParkTypeOK, LookedAt, QueueDry, Comes, NoLostWake, Sleeps, HandedWork, Parking, Mailboxes
<1> QED BY <1>1, ParkInvariant, PTL

\* The count of a mailbox lags by the pushes under way and never exceeds what is
\* in it.
THEOREM CountsLag == ParkSpec => []CountLags
<1>1. IInv => CountLags
  BY DEF IInv
<1> QED BY <1>1, ParkInvariant, PTL
=============================================================================
