--------------------------- MODULE ShardStopProofs --------------------------
(***************************************************************************)
(* A shard that stops leaves no task and hands none on twice (module       *)
(* ShardStop), for any items and writers.                                  *)
(*                                                                         *)
(* Its inbox is linked as InboxProofs has it; the invariant adds who has   *)
(* the taker's role and what the looks of a runtime's drop have seen.      *)
(***************************************************************************)
EXTENDS ShardStop, InboxProofs

StopTypes ==
    /\ taken \in Threads \cup {Null} /\ held \in Items \cup {Null}
    /\ at \in [Threads -> {"push", "link", "look", "ended", "gone", "take",
                           "run", "drop", "drain", "release", "again"}]
    /\ outcome \in [Items -> {"waiting", "ran", "dropped"}]

\* The last pop said Empty, and nothing is in hand.
LeftEmpty == popping = "idle" /\ tail = Stub /\ held = Null

\* The taker's role is its holder's, who lets go of it after a pop that said Empty.
Role ==
    /\ \A t \in Threads : at[t] \in {"run", "drop", "drain", "release"} <=> taken = t
    /\ taken = Null => LeftEmpty
    /\ \A t \in Threads : at[t] = "release" => LeftEmpty
    /\ ~stopped => at[Shard] = "run"

\* A wake pushes its item once.
PushedOnce ==
    \A i \in Items :
        /\ at[i] = "push" => where[i] = "out" /\ held # i
        /\ at[i] = "link" <=> where[i] = "swapped"
        /\ held = i => where[i] = "out"

\* The writes counted are those that have not ended.
Unended == {w \in Writers : at[w] # "gone"}
WritesCounted == writes = Cardinality(Unended)

\* A drop past its look at the writes has them ended, and one that is answered has
\* none of their tasks in an inbox that nobody drains.
Attended ==
    /\ look \in {"released", "taken", "empty", "settled"} => \A w \in Writers : at[w] = "gone"
    /\ look = "settled" /\ (taken = Null \/ at[taken] = "release") =>
           \A w \in Writers : where[w] = "out"

StopInv ==
    /\ Linked /\ StopTypes /\ Role /\ PushedOnce /\ WritesCounted /\ Attended
    /\ NotLeft /\ HandedOnOnce

\* What a step has to keep besides the queue.
StopRest == StopTypes /\ Role /\ PushedOnce /\ WritesCounted /\ Attended /\ NotLeft /\ HandedOnOnce

\* The threads are the items' and the shard's.
LEMMA Sorts ==
  /\ Items \subseteq Threads /\ Writers \subseteq Items /\ Shard \in Threads /\ Shard \notin Items
  /\ Null \notin Threads /\ Null \notin Items
BY NodesDiffer, ThreadsDiffer DEF Threads, Nodes

\* A running shard, its inbox empty and every wake to come.
LEMMA InitStop == StopInit => StopInv
<1> SUFFICES ASSUME StopInit PROVE StopInv
  OBVIOUS
<1>1. Linked
  BY InitLinked DEF StopInit
<1>2. StopTypes /\ Role /\ PushedOnce /\ Attended /\ NotLeft /\ HandedOnOnce
  BY Sorts DEF StopInit, InboxInit, StopTypes, Role, LeftEmpty, PushedOnce, Attended, NotLeft,
               HandedOnOnce, Threads
<1>3. Unended = Writers
  BY Sorts DEF StopInit, Unended, Threads
<1> QED BY <1>1, <1>2, <1>3 DEF StopInit, StopInv, WritesCounted

\* A step that ends no write keeps their count.
LEMMA KeepsCount ==
  ASSUME WritesCounted, writes' = writes, \A w \in Writers : at'[w] = "gone" <=> at[w] = "gone"
  PROVE  WritesCounted'
<1>1. Unended' = Unended
  BY DEF Unended
<1> QED BY <1>1 DEF WritesCounted

\* While the role is free, or about to be, its taker's end is the stub: the head
\* tells all.
LEMMA LeftEmptyTells ==
  ASSUME Linked, LeftEmpty
  PROVE  /\ head = Stub <=> q = <<>>
         /\ q = <<>> => \A i \in Items : where[i] = "out"
<1>1. head = Stub <=> q = <<>>
  BY LinkedDrained DEF LeftEmpty, DrainedIsEmpty, is_drained
<1>2. q = <<>> => \A i \in Items : where[i] = "out"
  <2>1. q = <<>> => 1..Len(q) = {}
    OBVIOUS
  <2> QED BY <2>1 DEF Linked, InQueue
<1> QED BY <1>1, <1>2

\* A pop hands out an item that was linked, or changes no item's place; one that
\* says Empty found the queue so.
LEMMA PopSays ==
  ASSUME Linked, pop_first \/ PopGoesOn
  PROVE  \/ /\ where' = where /\ (popping' = "idle" => answer' \notin Items)
            /\ popping' = "idle" /\ answer' = Empty =>
                  tail' = Stub /\ \A i \in Items : where'[i] = "out"
         \/ /\ popping' = "idle" /\ answer' \in Items /\ where[answer'] = "linked"
            /\ where' = [where EXCEPT ![answer'] = "out"]
<1>1. InboxTypeOK /\ TakerAt /\ InQueue
  BY DEF Linked
<1>2. PICK k \in 0..Len(q) + 1 : \E x \in {Spell(k)} : Chain(x, k)
  BY DEF Linked, Chained
<1>3. PICK c : c = Spell(k) /\ Chain(c, k)
  BY <1>2
<1>4. tail # Stub => tail \in Items /\ where[tail] = "linked"
  <2> SUFFICES ASSUME tail # Stub PROVE tail \in Items /\ where[tail] = "linked"
    OBVIOUS
  <2>1. tail \in Items /\ where[tail] # "out" /\ where[tail] # "swapped"
    BY <1>1, <1>3, EndsSay DEF InboxTypeOK, Nodes, Chain, Swapped
  <2> QED BY <1>1, <2>1 DEF InboxTypeOK
<1>5. Empty \notin Items /\ Busy \notin Items /\ Empty # Busy
  BY NodesDiffer
<1>6. CASE tail # Stub /\ HandOut(tail, next[tail])
  BY <1>1, <1>4, <1>6 DEF HandOut, Ends
<1>7. CASE where' = where /\ popping' # "idle"
  BY <1>7
<1>8. CASE where' = where /\ Ends(Busy)
  BY <1>5, <1>8 DEF Ends
<1>9. CASE pop_empty
  <2>1. tail = Stub /\ UNCHANGED <<head, tail, where, q>>
    BY <1>1, <1>9 DEF pop_empty, TakerAt, mem
  <2>2. head = Stub => Len(q) = 0
    BY <1>1, <1>3, <2>1, EndsSay, SpellNodes
  <2>3. head = Stub => 1..Len(q) = {}
    BY <2>2
  <2>4. head = Stub => \A i \in Items : where[i] = "out"
    BY <1>1, <2>3 DEF InQueue
  <2> QED BY <1>5, <1>9, <2>1, <2>4 DEF pop_empty, Ends
<1>10. CASE pop_first
  BY <1>6, <1>7, <1>10 DEF pop_first
<1>11. CASE pop_second \/ pop_final
  BY <1>1, <1>6, <1>7, <1>8, <1>11 DEF pop_second, pop_final, TakerAt
<1>12. CASE pop_last \/ pop_clear \/ pop_swap \/ pop_link
  BY <1>7, <1>8, <1>12 DEF pop_last, pop_clear, pop_swap, pop_link
<1> QED BY <1>9, <1>10, <1>11, <1>12 DEF PopGoesOn

\* A wake: its push, and its look at the shard.
LEMMA PushStep ==
  ASSUME Linked, StopRest, Linked', NEW i \in Items,
         push_begin(i) \/ push_ends(i) \/ look_stopped(i)
  PROVE  StopRest'
<1> USE Sorts DEF StopRest, StopTypes, Role, LeftEmpty, PushedOnce, Attended, NotLeft, HandedOnOnce
<1>1. CASE push_begin(i)
  <2>1. /\ at[i] = "push" /\ at' = [at EXCEPT ![i] = "link"]
        /\ where[i] = "out" /\ where' = [where EXCEPT ![i] = "swapped"]
        /\ where \in [Items -> {"out", "swapped", "linked"}]
        /\ UNCHANGED <<tail, popping, taken, stopped, writes, held, outcome, look>>
    BY <1>1 DEF push_begin, push_swap, ThreadAt, Linked, InboxTypeOK
  <2>2. StopTypes'     BY <2>1
  <2>3. Role'          BY <2>1
  <2>4. PushedOnce'    BY <2>1
  <2>5. Attended'      BY <2>1
  <2>6. NotLeft'       BY <2>1
  <2>7. HandedOnOnce'  BY <2>1
  <2>8. WritesCounted' BY <2>1, KeepsCount
  <2> QED BY <2>2, <2>3, <2>4, <2>5, <2>6, <2>7, <2>8
<1>2. CASE push_ends(i)
  <2>1. /\ at[i] = "link" /\ at' = [at EXCEPT ![i] = "look"]
        /\ where[i] = "swapped" /\ where' = [where EXCEPT ![i] = "linked"]
        /\ where \in [Items -> {"out", "swapped", "linked"}]
        /\ UNCHANGED <<tail, popping, q, taken, stopped, writes, held, outcome, look>>
    BY <1>2 DEF push_ends, push_link, ThreadAt, Linked, InboxTypeOK
  <2>2. StopTypes'     BY <2>1
  <2>3. Role'          BY <2>1
  <2>4. PushedOnce'    BY <2>1
  <2>5. Attended'      BY <2>1
  <2>6. NotLeft'       BY <2>1
  <2>7. HandedOnOnce'  BY <2>1
  <2>8. WritesCounted' BY <2>1, KeepsCount
  <2> QED BY <2>2, <2>3, <2>4, <2>5, <2>6, <2>7, <2>8
<1>3. CASE look_stopped(i)
  <2>1. /\ at[i] = "look" /\ at' = [at EXCEPT ![i] = IF stopped THEN "take" ELSE "ended"]
        /\ UNCHANGED <<where, tail, popping, q, taken, stopped, writes, held, outcome, look>>
    BY <1>3 DEF look_stopped, ThreadAt, inboxvars
  <2>2. StopTypes'     BY <2>1
  <2>3. Role'          BY <2>1
  <2>4. PushedOnce'    BY <2>1
  <2>5. Attended'      BY <2>1
  <2>6. NotLeft'       BY <2>1
  <2>7. HandedOnOnce'  BY <2>1
  <2>8. WritesCounted' BY <2>1, KeepsCount
  <2> QED BY <2>2, <2>3, <2>4, <2>5, <2>6, <2>7, <2>8
<1> QED BY <1>1, <1>2, <1>3

\* The end of a wake: a file write's count goes down with it.
LEMMA WriteEndedStep ==
  ASSUME Linked, StopRest, NEW i \in Items, write_ended(i)
  PROVE  StopRest'
<1> USE Sorts DEF StopRest, StopTypes, Role, LeftEmpty, PushedOnce, Attended, NotLeft, HandedOnOnce
<1>1. /\ at[i] = "ended" /\ at' = [at EXCEPT ![i] = "gone"]
      /\ writes' = IF i \in Writers THEN writes - 1 ELSE writes
      /\ UNCHANGED <<where, tail, popping, q, taken, stopped, held, outcome, look>>
  BY DEF write_ended, ThreadAt, inboxvars
<1>2. StopTypes'     BY <1>1
<1>3. Role'          BY <1>1
<1>4. PushedOnce'    BY <1>1
<1>5. Attended'      BY <1>1
<1>6. NotLeft'       BY <1>1
<1>7. HandedOnOnce'  BY <1>1
<1>8. WritesCounted'
  <2>1. CASE i \notin Writers
    <3>1. Unended' = Unended
      BY <1>1, <2>1 DEF Unended
    <3> QED BY <1>1, <2>1, <3>1 DEF WritesCounted
  <2>2. CASE i \in Writers
    <3>1. Unended' = Unended \ {i} /\ i \in Unended
      BY <1>1, <2>2 DEF Unended
    <3>2. IsFiniteSet(Unended)
      BY ThreadsDiffer, FS_Subset DEF Unended
    <3>3. Cardinality(Unended \ {i}) = Cardinality(Unended) - 1
      BY <3>1, <3>2, FS_RemoveElement
    <3> QED BY <1>1, <2>2, <3>1, <3>3 DEF WritesCounted
  <2> QED BY <2>1, <2>2
<1> QED BY <1>2, <1>3, <1>4, <1>5, <1>6, <1>7, <1>8

\* A thread takes the role or goes on without, and lets go of it.
LEMMA RoleStep ==
  ASSUME Linked, StopRest, NEW t \in Threads, try_take(t) \/ release(t) \/ look_back(t)
  PROVE  StopRest'
<1> USE Sorts DEF StopRest, StopTypes, Role, LeftEmpty, PushedOnce, Attended, NotLeft, HandedOnOnce
<1>1. CASE try_take(t)
  <2>1. /\ at[t] = "take"
        /\ \/ taken = Null /\ taken' = t /\ at' = [at EXCEPT ![t] = "drain"]
           \/ taken # Null /\ at' = [at EXCEPT ![t] = "ended"] /\ taken' = taken
        /\ UNCHANGED <<where, tail, popping, q, stopped, writes, held, outcome, look>>
    BY <1>1 DEF try_take, ThreadAt, inboxvars
  <2>2. StopTypes'     BY <2>1
  <2>3. Role'          BY <2>1
  <2>4. PushedOnce'    BY <2>1
  <2>5. Attended'      BY <2>1
  <2>6. NotLeft'       BY <2>1
  <2>7. HandedOnOnce'  BY <2>1
  <2>8. WritesCounted' BY <2>1, KeepsCount
  <2> QED BY <2>2, <2>3, <2>4, <2>5, <2>6, <2>7, <2>8
<1>2. CASE release(t)
  <2>1. /\ at[t] = "release" /\ taken' = Null /\ at' = [at EXCEPT ![t] = "again"]
        /\ UNCHANGED <<where, tail, popping, q, stopped, writes, held, outcome, look>>
    BY <1>2 DEF release, ThreadAt, inboxvars
  <2>2. StopTypes'     BY <2>1
  <2>3. Role'          BY <2>1
  <2>4. PushedOnce'    BY <2>1
  <2>5. Attended'      BY <2>1
  <2>6. NotLeft'       BY <2>1 DEF Threads
  <2>7. HandedOnOnce'  BY <2>1
  <2>8. WritesCounted' BY <2>1, KeepsCount
  <2> QED BY <2>2, <2>3, <2>4, <2>5, <2>6, <2>7, <2>8
<1>3. CASE look_back(t)
  <2>1. /\ at[t] = "again" /\ at' = [at EXCEPT ![t] = IF head = Stub THEN "ended" ELSE "take"]
        /\ UNCHANGED <<where, tail, popping, q, taken, stopped, writes, held, outcome, look>>
    BY <1>3 DEF look_back, ThreadAt, inboxvars
  <2>2. StopTypes'     BY <2>1
  <2>3. Role'          BY <2>1
  <2>4. PushedOnce'    BY <2>1
  <2>5. Attended'      BY <2>1
  <2>6. NotLeft'
    <3>1. CASE head # Stub BY <2>1, <3>1 DEF Threads
    <3>2. CASE head = Stub /\ taken = Null
      <4>1. q = <<>>
        BY <3>2, LeftEmptyTells
      <4> QED BY <2>1, <4>1
    <3>3. CASE taken # Null BY <2>1, <3>3
    <3> QED BY <3>1, <3>2, <3>3
  <2>7. HandedOnOnce'  BY <2>1
  <2>8. WritesCounted' BY <2>1, KeepsCount
  <2> QED BY <2>2, <2>3, <2>4, <2>5, <2>6, <2>7, <2>8
<1> QED BY <1>1, <1>2, <1>3

\* The role's holder pops, and runs or drops what it got.
LEMMA TakerStep ==
  ASSUME Linked, StopRest, Linked', NEW t \in Threads, pop(t) \/ hand_on(t)
  PROVE  StopRest'
<1> USE Sorts DEF StopRest, StopTypes, Role, LeftEmpty, PushedOnce, Attended, NotLeft, HandedOnOnce
<1>1. CASE pop(t)
  <2>1. PICK x : x = IF popping' = "idle" /\ answer' \in Items THEN answer' ELSE Null
    OBVIOUS
  <2>2. PICK a : a = IF popping' # "idle" \/ answer' \in Items THEN at[t]
                     ELSE IF at[t] = "drain" /\ answer' = Empty THEN "release"
                     ELSE IF at[t] = "drop" THEN "drain" ELSE at[t]
    OBVIOUS
  <2>3. /\ at[t] \in {"run", "drop", "drain"} /\ taken = t /\ held = Null
        /\ held' = x /\ at' = [at EXCEPT ![t] = a]
        /\ where \in [Items -> {"out", "swapped", "linked"}]
        /\ UNCHANGED <<taken, stopped, writes, outcome, look>>
    <3>1. where \in [Items -> {"out", "swapped", "linked"}]
      BY DEF Linked, InboxTypeOK
    <3> QED BY <1>1, <2>1, <2>2, <3>1 DEF pop, ThreadAt
  <2>4. \/ x = Null /\ where' = where
        \/ x \in Items /\ where[x] = "linked" /\ where' = [where EXCEPT ![x] = "out"]
    BY <1>1, <2>1, PopSays DEF pop
  <2>5. /\ a \in {"run", "drop", "drain", "release"} /\ (at[t] = "run" => a = "run")
        /\ a = "release" => /\ popping' = "idle" /\ x = Null /\ tail' = Stub
                            /\ \A i \in Items : where'[i] = "out"
    <3>1. a \in {"run", "drop", "drain", "release"} /\ (at[t] = "run" => a = "run")
      BY <2>2, <2>3
    <3>2. a = "release" => popping' = "idle" /\ answer' \notin Items /\ answer' = Empty
      BY <2>2, <2>3
    <3>3. a = "release" => x = Null
      BY <2>1, <3>2
    <3>4. a = "release" => tail' = Stub /\ \A i \in Items : where'[i] = "out"
      BY <1>1, <3>2, PopSays DEF pop
    <3> QED BY <3>1, <3>2, <3>3, <3>4
  <2>6. StopTypes'     BY <2>3, <2>4, <2>5
  <2>7. Role'          BY <2>3, <2>4, <2>5
  <2>8. PushedOnce'    BY <2>3, <2>4, <2>5
  <2>9. Attended'      BY <2>3, <2>5
  <2>10. NotLeft'      BY <2>3
  <2>11. HandedOnOnce'
    <3>1. \A i \in Items : at'[i] = "push" <=> at[i] = "push"
      BY <2>3, <2>5
    <3> QED BY <2>3, <2>4, <3>1
  <2>12. WritesCounted'
    <3>1. \A w \in Writers : at'[w] = "gone" <=> at[w] = "gone"
      BY <2>3, <2>5
    <3> QED BY <2>3, <3>1, KeepsCount
  <2> QED BY <2>6, <2>7, <2>8, <2>9, <2>10, <2>11, <2>12
<1>2. CASE hand_on(t)
  <2>1. /\ taken = t /\ held # Null /\ held' = Null
        /\ outcome' = [outcome EXCEPT ![held] = IF at[t] = "run" THEN "ran" ELSE "dropped"]
        /\ UNCHANGED <<where, tail, popping, q, taken, stopped, writes, at, look>>
    BY <1>2 DEF hand_on, inboxvars
  <2>2. StopTypes' /\ PushedOnce' /\ Attended' /\ NotLeft' BY <2>1
  <2>3. Role'          BY <2>1
  <2>4. HandedOnOnce'  BY <2>1
  <2>5. WritesCounted' BY <2>1, KeepsCount
  <2> QED BY <2>2, <2>3, <2>4, <2>5
<1> QED BY <1>1, <1>2

\* The shard stops, and lets go of its inbox.
LEMMA ShardStopStep ==
  ASSUME Linked, StopRest, stop \/ go \/ inbox_released
  PROVE  StopRest'
<1> USE Sorts DEF StopRest, StopTypes, Role, LeftEmpty, PushedOnce, Attended, NotLeft, HandedOnOnce
<1> DEFINE a == IF go THEN "drop" ELSE IF inbox_released THEN "gone" ELSE at[Shard]
<1>1. /\ at' = [at EXCEPT ![Shard] = a]
      /\ a = at[Shard] \/ (at[Shard] = "run" /\ a = "drop") \/ (at[Shard] = "ended" /\ a = "gone")
      /\ stopped' \/ (stopped' = stopped /\ at[Shard] # "run")
      /\ UNCHANGED <<where, tail, popping, q, taken, writes, held, outcome, look>>
  BY DEF stop, go, inbox_released, ThreadAt, inboxvars
<1> HIDE DEF a
<1>2. StopTypes'     BY <1>1
<1>3. Role'
  <2>1. \A t \in Threads : at'[t] \in {"run", "drop", "drain", "release"} <=> taken' = t
    BY <1>1
  <2>2. LeftEmpty' <=> LeftEmpty
    BY <1>1
  <2>3. /\ taken' = Null => LeftEmpty
        /\ \A t \in Threads : at'[t] = "release" => LeftEmpty
    BY <1>1
  <2>4. ~stopped' => at'[Shard] = "run"
    BY <1>1
  <2> QED BY <2>1, <2>2, <2>3, <2>4
<1>4. PushedOnce'    BY <1>1
<1>5. Attended'      BY <1>1
<1>6. NotLeft'       BY <1>1
<1>7. HandedOnOnce'  BY <1>1
<1>8. WritesCounted' BY <1>1, KeepsCount
<1> QED BY <1>2, <1>3, <1>4, <1>5, <1>6, <1>7, <1>8

\* The runtime's drop looks.
LEMMA LookStep ==
  ASSUME Linked, StopRest, poll_settled \/ settled
  PROVE  StopRest'
<1> USE Sorts DEF StopRest, StopTypes, Role, LeftEmpty, PushedOnce, NotLeft, HandedOnOnce
<1>1. UNCHANGED <<where, tail, head, popping, q, taken, stopped, writes, held, outcome, at>>
  BY DEF poll_settled, settled, inboxvars
<1>2. StopTypes' /\ Role' /\ PushedOnce' /\ NotLeft' /\ HandedOnOnce'
  BY <1>1
<1>3. WritesCounted'
  BY <1>1, KeepsCount
<1>4. writes = 0 => \A w \in Writers : at[w] = "gone"
  <2>1. IsFiniteSet(Unended)
    BY ThreadsDiffer, FS_Subset DEF Unended
  <2>2. writes = 0 => Unended = {}
    BY <2>1, FS_EmptySet DEF WritesCounted
  <2> QED BY <2>2 DEF Unended
<1>5. ASSUME look' \in {"released", "taken", "empty", "settled"}
      PROVE  \A w \in Writers : at'[w] = "gone"
  BY <1>1, <1>4, <1>5 DEF Attended, poll_settled, settled, SettledLoads
<1>6. ASSUME look' = "settled", taken = Null \/ at[taken] = "release"
      PROVE  \A w \in Writers : where'[w] = "out"
  <2>1. head = Stub
    BY <1>6 DEF poll_settled, settled, SettledLoads
  <2>2. LeftEmpty
    BY <1>6
  <2>3. \A i \in Items : where[i] = "out"
    BY <2>1, <2>2, LeftEmptyTells
  <2> QED BY <1>1, <2>3
<1>7. Attended'
  BY <1>1, <1>5, <1>6 DEF Attended
<1> QED BY <1>2, <1>3, <1>7

\* The invariant of a shard that stops: who has the taker's role, what its last pop
\* left, which wakes pushed, and what the runtime's drop has seen (rt/shard.rs).
THEOREM StopInvariant == StopSpec => []StopInv
<1>1. StopInv /\ [StopNext]_stopvars => StopInv'
  <2> SUFFICES ASSUME StopInv, [StopNext]_stopvars PROVE StopInv'
    OBVIOUS
  <2>1. Linked /\ StopRest
    BY DEF StopInv, StopRest
  <2>2. [InboxNext]_inboxvars
    BY DEF StopNext, stopvars, push_begin, Pusher, push_ends, look_stopped, write_ended, Thread, try_take,
           pop, hand_on, release, look_back, stop, go, inbox_released, poll_settled, settled, Over, InboxNext
  <2>3. Linked'
    BY <2>1, <2>2, InboxStep
  <2>4. CASE UNCHANGED stopvars
    <3>1. StopTypes' /\ Role' /\ PushedOnce'
      BY <2>1, <2>4 DEF stopvars, svars, inboxvars, StopRest, StopTypes, Role, LeftEmpty, PushedOnce
    <3>2. Attended' /\ NotLeft' /\ HandedOnOnce'
      BY <2>1, <2>4 DEF stopvars, svars, inboxvars, StopRest, Attended, NotLeft, HandedOnOnce
    <3>3. WritesCounted'
      BY <2>1, <2>4, KeepsCount DEF stopvars, svars, StopRest
    <3> QED BY <2>3, <3>1, <3>2, <3>3 DEF StopInv
  <2>5. StopNext => StopRest' \/ UNCHANGED stopvars
    BY <2>1, <2>3, Sorts, PushStep, WriteEndedStep, RoleStep, TakerStep, ShardStopStep, LookStep
       DEF StopNext, Pusher, Thread, Over
  <2> QED BY <2>3, <2>4, <2>5 DEF StopInv, StopRest
<1> QED BY <1>1, InitStop, PTL DEF StopSpec

\* No task woken on a shard that stops is left or handed on twice, and the answer a
\* runtime's drop waits for leaves none unattended (push_remote, drop_stopped,
\* release_inbox and settled of rt/shard.rs).
THEOREM StopIsSafe == StopSpec => []StopSafe
<1>1. StopInv => StopSafe
  <2> SUFFICES ASSUME StopInv PROVE SettledIsAttended
    BY DEF StopInv, StopSafe
  <2>1. SUFFICES ASSUME look = "settled", NEW w \in Writers, outcome[w] = "waiting", taken = Null PROVE FALSE
    BY DEF SettledIsAttended
  <2>2. at[w] = "gone" /\ where[w] = "out" /\ held = Null /\ w \in Items
    BY <2>1, Sorts DEF StopInv, Attended, Role, LeftEmpty
  <2> QED BY <2>1, <2>2, Sorts DEF StopInv, HandedOnOnce
<1> QED BY <1>1, StopInvariant, PTL
=============================================================================
