------------------------------ MODULE Side ------------------------------
(***************************************************************************)
(* The guard of one direction of a source, src/io/side.rs, with the parts  *)
(* of src/io/source/hooks.rs that say whose side it is.  A thread that     *)
(* finds the side held leaves its work in the word for the holder.  A      *)
(* biased side's owner holds it by plain stores to `own'; any other thread *)
(* raises `intent', runs a heavy fence and reads `own'.                    *)
(*                                                                         *)
(* The owner's plain stores wait in its store buffer: a locked instruction *)
(* of its own, or another thread's heavy fence, drains it.                 *)
(*                                                                         *)
(* The contents are the tasks waiting inside and whether the descriptor    *)
(* was found ready; a poll's step takes the readiness or waits inside.     *)
(* A call made under the owner's own hold is not modelled.                 *)
(***************************************************************************)
EXTENDS Integers, Sequences, FiniteSets, SequencesExt

CONSTANTS Threads,
          Owner,        \* the thread of the shard that claims the side
          Drivers,      \* the threads of shards the source is registered with in turn
          First,        \* ... and the first of them
          FenceWorks,   \* how a heavy fence can end
          MayGo,        \* the owner's shard may let go of the source
          MaxCalls,     \* bound: calls and edges, in all
          MaxBuffer     \* bound: stores in the owner's buffer as it takes the side

VARIABLES
    busy, word,      \* state: BUSY, and the flags beside it
    deferred,        \* side-local work was left
    contended,       \* the tasks in the contended set
    own, intent, shared, owner,
    buffer,          \* the owner's stores not yet seen by others
    inside, ready,   \* the contents
    reg, event, owed,\* the driver registered, the drivers with an event to hand on, an edge not served
    pc, call,        \* of a thread: its step, and what its call is
    held, expect, rest,
    waits, woken,    \* the tasks whose poll is pending; those woken since
    nudged, gone, panicked, calls,
    forgotten        \* history: the tasks whose WAITING a panicking holder had taken

wordv == <<busy, word, deferred, contended>>
bias == <<own, intent, shared, owner, buffer>>
contents == <<inside, ready, reg, event, owed>>
hold == <<held, expect, rest>>
tasks == <<waits, woken>>
ends == <<nudged, gone, panicked, calls, forgotten>>
vars == <<wordv, bias, contents, pc, call, hold, tasks, ends>>

Init ==
    /\ busy = FALSE /\ word = {} /\ deferred = FALSE /\ contended = {}
    /\ own = 0 /\ intent = {} /\ shared = FALSE /\ owner = "none" /\ buffer = <<>>
    /\ inside = {} /\ ready = FALSE /\ reg = First /\ event = {} /\ owed = FALSE
    /\ pc = [t \in Threads |-> "idle"] /\ call = [t \in Threads |-> "none"]
    /\ held = [t \in Threads |-> "no"] /\ expect = [t \in Threads |-> {}]
    /\ rest = [t \in Threads |-> {}] /\ waits = {} /\ woken = {}
    /\ nudged = FALSE /\ gone = FALSE /\ panicked = FALSE /\ calls = 0 /\ forgotten = {}

Go(t, where) == pc' = [pc EXCEPT ![t] = where]
Ends(t) == Go(t, "idle") /\ call' = [call EXCEPT ![t] = "none"]

\* What the owner reads of its own words, and a locked instruction's drain.
Latest(name, memory) ==
    LET mine == {i \in DOMAIN buffer: buffer[i][1] = name}
    IN IF mine = {} THEN memory ELSE buffer[CHOOSE i \in mine: \A j \in mine: j <= i][2]
Seen(t) == t = Owner => buffer = <<>>

flush ==
    /\ buffer # <<>> /\ buffer' = Tail(buffer)
    /\ own' = IF buffer[1][1] = "own" THEN buffer[1][2] ELSE own
    /\ shared' = IF buffer[1][1] = "shared" THEN TRUE ELSE shared
    /\ UNCHANGED <<wordv, intent, owner, contents, pc, call, hold, tasks, ends>>

-----------------------------------------------------------------------------
\* A call begins: a poll, the driver's edge, side-local work, or a request.
edge(d) ==
    /\ reg = d /\ d \notin event /\ calls < MaxCalls /\ calls' = calls + 1
    /\ event' = event \union {d} /\ owed' = TRUE
    /\ UNCHANGED <<wordv, bias, inside, ready, reg, pc, call, hold, tasks, nudged, gone, panicked, forgotten>>

begin(t, kind) ==
    /\ pc[t] = "idle" /\ ~(t = Owner /\ gone) /\ Go(t, "role") /\ call' = [call EXCEPT ![t] = kind]
    /\ CASE kind = "drive" -> t \in event /\ event' = event \ {t} /\ UNCHANGED <<tasks, nudged, calls>>
         [] kind = "touch" -> t = Owner /\ nudged /\ nudged' = FALSE /\ UNCHANGED <<event, tasks, calls>>
         [] kind = "poll" ->
              /\ calls < MaxCalls /\ calls' = calls + 1 /\ (t \in waits => t \in woken)
              /\ waits' = waits \ {t} /\ woken' = woken \ {t} /\ UNCHANGED <<event, nudged>>
         [] OTHER -> calls < MaxCalls /\ calls' = calls + 1 /\ UNCHANGED <<event, tasks, nudged>>
    /\ UNCHANGED <<wordv, bias, inside, ready, reg, owed, hold, gone, panicked, forgotten>>

Extra(t) == CASE call[t] = "drive" -> {"READY"} [] call[t] \in {"defer", "touch"} -> {"DEFER"}
              [] call[t] = "req" -> {"REQ"} [] OTHER -> {}

\* The step before a take that may miss: side-local work goes to its word first.
Leaving(t, where) == IF call[t] \in {"defer", "touch"} THEN where \o "_leaving" ELSE where

leaves(t, where) ==
    /\ pc[t] = where \o "_leaving" /\ Seen(t)
    /\ deferred' = (deferred \/ call[t] = "defer") /\ Go(t, where)
    /\ UNCHANGED <<busy, word, contended, bias, contents, call, hold, tasks, ends>>

\* role, and claim
role(t) ==
    /\ pc[t] = "role"
    /\ IF t = Owner
       THEN IF Latest("shared", shared)
            THEN Go(t, Leaving(t, "word")) /\ UNCHANGED bias
            ELSE IF owner = "claimed" THEN Go(t, "bias") /\ UNCHANGED bias
            ELSE /\ buffer = <<>> /\ owner' = "claimed" /\ Go(t, "bias")
                 /\ UNCHANGED <<own, intent, shared, buffer>>
       ELSE Go(t, Leaving(t, IF shared THEN "word" ELSE "intent")) /\ UNCHANGED bias
    /\ UNCHANGED <<wordv, contents, call, hold, tasks, ends>>

switch_if_unfenced == IF "unfenced" \in intent THEN <<<<"shared", TRUE>>>> ELSE <<>>

\* try_biased: own goes up, ...
biased_up(t) ==
    /\ pc[t] = "bias" /\ Len(buffer) <= MaxBuffer /\ buffer' = Append(buffer, <<"own", 1>>) /\ Go(t, "look")
    /\ UNCHANGED <<wordv, own, intent, shared, owner, contents, call, hold, tasks, ends>>

\* ... and the side is held unless a foreign thread came.
try_biased(t) ==
    /\ pc[t] = "look"
    /\ IF intent = {} /\ ~Latest("shared", shared)
       THEN held' = [held EXCEPT ![t] = "biased"] /\ Go(t, "step") /\ UNCHANGED buffer
       ELSE /\ buffer' = buffer \o <<<<"own", 0>>>> \o switch_if_unfenced
            /\ Go(t, Leaving(t, "word")) /\ UNCHANGED held
    /\ UNCHANGED <<wordv, own, intent, shared, owner, contents, call, expect, rest, tasks, ends>>

\* take_word, with the flags `extra'; missed, the call goes on at `missed'.
Take(t, extra, missed) ==
    /\ Seen(t) /\ busy' = TRUE /\ word' = word \union extra
    /\ IF ~busy
       THEN /\ held' = [held EXCEPT ![t] = "word"] /\ expect' = [expect EXCEPT ![t] = extra \cap {"READY"}]
            /\ Go(t, "step") /\ UNCHANGED call
       ELSE /\ (IF missed = "idle" THEN Ends(t) ELSE Go(t, missed) /\ UNCHANGED call)
            /\ UNCHANGED <<held, expect>>
    /\ UNCHANGED <<deferred, contended, rest>>

take_word(t) ==
    /\ pc[t] = "word" /\ Take(t, Extra(t), IF call[t] = "poll" THEN "contend" ELSE "idle")
    /\ waits' = IF call[t] = "poll" /\ busy THEN waits \union {t} ELSE waits
    /\ UNCHANGED <<bias, contents, woken, ends>>

-----------------------------------------------------------------------------
\* take_foreign: intent, the heavy fence, and own.
take_foreign(t) ==
    /\ pc[t] = "intent" /\ intent' = intent \union {"came"} /\ Go(t, "fence")
    /\ UNCHANGED <<wordv, own, shared, owner, buffer, contents, call, hold, tasks, ends>>

NoFence(t) ==
    /\ pc[t] = "fence" /\ Go(t, "own")
    /\ UNCHANGED <<wordv, bias, contents, call, hold, tasks, ends>>

heavy(t) ==
    /\ pc[t] = "fence"
    /\ \/ /\ TRUE \in FenceWorks /\ Go(t, "own") /\ buffer' = <<>>
          /\ own' = Latest("own", own) /\ shared' = Latest("shared", shared)
       \/ FALSE \in FenceWorks /\ Go(t, "unserved") /\ UNCHANGED <<own, shared, buffer>>
    /\ UNCHANGED <<wordv, intent, owner, contents, call, hold, tasks, ends>>

foreign_looks(t) ==
    /\ pc[t] = "own"
    /\ IF own = 0 THEN shared' = TRUE /\ Go(t, "word") /\ UNCHANGED waits
       ELSE /\ Go(t, IF Extra(t) = {} THEN "contend_left" ELSE "leave") /\ UNCHANGED shared
            /\ waits' = IF Extra(t) = {} THEN waits \union {t} ELSE waits
    /\ UNCHANGED <<wordv, own, intent, owner, buffer, contents, call, hold, woken, ends>>

\* The owner holds: the flags are left for it, and own looked at again.
foreign_leaves(t) ==
    /\ pc[t] = "leave" /\ word' = word \union Extra(t)
    /\ IF busy THEN Ends(t) ELSE Go(t, "own_again") /\ UNCHANGED call
    /\ UNCHANGED <<busy, deferred, contended, bias, contents, hold, tasks, ends>>

foreign_again(t) ==
    /\ pc[t] = "own_again"
    /\ IF own = 0 THEN shared' = TRUE /\ Go(t, "word") /\ UNCHANGED call ELSE Ends(t) /\ UNCHANGED shared
    /\ UNCHANGED <<wordv, own, intent, owner, buffer, contents, hold, tasks, ends>>

\* unserved: the fence failed.  none_holds_biased lets the call take the word.
none_holds_biased == owner \in {"none", "left"}

unserved(t) ==
    /\ pc[t] = "unserved"
    /\ IF none_holds_biased THEN shared' = TRUE /\ Go(t, "word") /\ UNCHANGED <<intent, waits>>
       ELSE /\ intent' = intent \union {"unfenced"} /\ UNCHANGED shared
            /\ Go(t, IF Extra(t) = {} THEN "contend_unserved" ELSE "unserved_leave")
            /\ waits' = IF Extra(t) = {} THEN waits \union {t} ELSE waits
    /\ UNCHANGED <<wordv, own, owner, buffer, contents, call, hold, woken, ends>>

unserved_leaves(t) ==
    /\ pc[t] = "unserved_leave" /\ word' = word \union Extra(t) /\ Go(t, "given_up")
    /\ UNCHANGED <<busy, deferred, contended, bias, contents, call, hold, tasks, ends>>

\* claim_given_up: the call may take the word after all; else the owner is nudged.
claim_given_up(t) ==
    /\ pc[t] = "given_up"
    /\ IF owner = "left" \/ shared
       THEN shared' = TRUE /\ Take(t, {}, "nudge")
       ELSE Go(t, "nudge") /\ UNCHANGED <<shared, wordv, call, hold>>
    /\ waits' = IF held'[t] # "no" THEN waits \ {t} ELSE waits
    /\ UNCHANGED <<own, intent, owner, buffer, contents, woken, ends>>

nudge(t) ==
    /\ pc[t] = "nudge" /\ nudged' = TRUE /\ Ends(t)
    /\ UNCHANGED <<wordv, bias, contents, hold, tasks, gone, panicked, calls, forgotten>>

-----------------------------------------------------------------------------
\* contend, leave_waker: the waker goes to the contended set.  A take of the set
\* that meets the registration wakes the task at once instead (WakerSet::register).
Contending == {"contend", "contend_left", "contend_unserved"}

register(t) ==
    /\ pc[t] \in Contending
    /\ \/ contended' = contended \union {t} /\ Go(t, pc[t] \o "_raise") /\ UNCHANGED <<call, woken>>
       \/ /\ \E u \in Threads: pc[u] = "waking"
          /\ woken' = woken \union {t} /\ Ends(t) /\ UNCHANGED contended
    /\ UNCHANGED <<busy, word, deferred, bias, contents, hold, waits, ends>>

contend(t, from) ==
    /\ pc[t] = from \o "_raise" /\ from \in Contending /\ Seen(t)
    /\ word' = word \union {"WAITING"}
    /\ CASE from = "contend_unserved" -> Go(t, "given_up") /\ UNCHANGED call
         [] from # "contend_unserved" /\ busy -> Ends(t)
         [] OTHER -> Go(t, IF from = "contend" THEN "retake" ELSE "retake_left") /\ UNCHANGED call
    /\ UNCHANGED <<busy, deferred, contended, bias, contents, hold, tasks, ends>>

retake_left(t) ==
    /\ pc[t] = "retake_left"
    /\ IF own # 0 THEN Ends(t) /\ UNCHANGED shared ELSE shared' = TRUE /\ Go(t, "retake") /\ UNCHANGED call
    /\ UNCHANGED <<wordv, own, intent, owner, buffer, contents, hold, tasks, ends>>

retake(t) ==
    /\ pc[t] = "retake" /\ Take(t, {}, "idle")
    /\ waits' = IF busy THEN waits ELSE waits \ {t}
    /\ UNCHANGED <<bias, contents, woken, ends>>

-----------------------------------------------------------------------------
\* Under the hold.  The driver's part runs for the registration in place only: a
\* driver's own serve knows the token its event came for.
Serve(t) ==
    IF call[t] = "drive" /\ reg # t THEN UNCHANGED <<inside, ready, owed, woken>>
    ELSE ready' = TRUE /\ owed' = FALSE /\ woken' = woken \union inside /\ inside' = {}

Poll(t) ==
    IF ready THEN ready' = FALSE /\ inside' = inside \ {t} /\ waits' = waits \ {t}
    ELSE inside' = inside \union {t} /\ waits' = waits \union {t} /\ UNCHANGED ready

\* What the call itself came for; a request here moves the registration.
step(t) ==
    /\ pc[t] = "step" /\ Go(t, "release")
    /\ CASE call[t] = "poll" -> Poll(t) /\ UNCHANGED <<woken, owed, reg, deferred, event>>
         [] call[t] = "drive" -> deferred' = FALSE /\ Serve(t) /\ UNCHANGED <<waits, reg, event>>
         [] call[t] \in {"defer", "touch"} ->
              deferred' = FALSE /\ UNCHANGED <<inside, ready, reg, event, owed, tasks>>
         [] call[t] = "req" ->
              /\ reg' \in Drivers /\ owed' = (owed /\ reg' = reg) /\ UNCHANGED <<deferred, ready, waits, event>>
              /\ IF reg' = reg THEN UNCHANGED <<inside, woken>> ELSE woken' = woken \union inside /\ inside' = {}
         [] OTHER -> UNCHANGED <<deferred, contents, tasks>>
    /\ UNCHANGED <<busy, word, contended, bias, call, hold, ends>>

\* release_biased: own goes down, and the word is read only if a thread came.
own_down(t) ==
    /\ pc[t] = "release" /\ held[t] = "biased" /\ Go(t, "came")
    /\ held' = [held EXCEPT ![t] = "no"] /\ buffer' = Append(buffer, <<"own", 0>>)
    /\ UNCHANGED <<wordv, own, intent, shared, owner, contents, call, expect, rest, tasks, ends>>

release_biased(t) ==
    /\ pc[t] = "came"
    /\ IF intent = {} THEN Ends(t) /\ UNCHANGED buffer
       ELSE Go(t, "left") /\ buffer' = buffer \o switch_if_unfenced /\ UNCHANGED call
    /\ UNCHANGED <<wordv, own, intent, shared, owner, contents, hold, tasks, ends>>

release_biased_came(t) ==
    /\ pc[t] = "left" /\ Seen(t)
    /\ IF word = {} THEN Ends(t) ELSE Go(t, "take_left") /\ UNCHANGED call
    /\ UNCHANGED <<wordv, bias, contents, hold, tasks, ends>>

takes_left(t) ==
    /\ pc[t] = "take_left" /\ busy' = TRUE
    /\ IF busy THEN Ends(t) /\ UNCHANGED hold
       ELSE /\ Go(t, "release") /\ UNCHANGED call /\ held' = [held EXCEPT ![t] = "word"]
            /\ expect' = [expect EXCEPT ![t] = {}] /\ UNCHANGED rest
    /\ UNCHANGED <<word, deferred, contended, bias, contents, tasks, ends>>

\* finish_flags: what was taken with the word and comes after the driver's part.
finish_flags(t) ==
    /\ pc[t] = "release" /\ held[t] = "word" /\ rest[t] # {}
    /\ rest' = [rest EXCEPT ![t] = {}] /\ IF "WAITING" \in rest[t] THEN Go(t, "waking") ELSE UNCHANGED pc
    /\ UNCHANGED <<wordv, bias, contents, call, held, expect, tasks, ends>>

wake_contended(t) ==
    /\ pc[t] = "waking" /\ woken' = woken \union contended /\ contended' = {}
    /\ IF held[t] = "no" THEN Ends(t) ELSE Go(t, "release") /\ UNCHANGED call
    /\ UNCHANGED <<busy, word, deferred, bias, contents, hold, waits, ends>>

\* release_word: one swap back to nothing from the word it took, ...
release_word(t) ==
    /\ pc[t] = "release" /\ held[t] = "word" /\ rest[t] = {} /\ Seen(t)
    /\ IF word = expect[t]
       THEN /\ busy' = FALSE /\ word' = {} /\ held' = [held EXCEPT ![t] = "no"] /\ Ends(t)
            /\ expect' = [expect EXCEPT ![t] = {}]
       ELSE Go(t, "swap") /\ UNCHANGED <<busy, word, call, held, expect>>
    /\ UNCHANGED <<deferred, contended, bias, contents, rest, tasks, ends>>

\* ... or the flags others left are taken and done; a pending poll steps again
\* after the driver's part.
swap(t) ==
    LET flags == word \ expect[t] IN
    /\ pc[t] = "swap" /\ word' = {} /\ expect' = [expect EXCEPT ![t] = {}]
    /\ rest' = [rest EXCEPT ![t] = flags \cap {"WAITING", "REQ"}]
    /\ deferred' = (deferred /\ "DEFER" \notin flags)
    /\ IF "READY" \in flags
       THEN Serve(t) /\ Go(t, IF call[t] = "poll" /\ t \in waits THEN "step" ELSE "release")
       ELSE Go(t, "release") /\ UNCHANGED <<inside, ready, owed, woken>>
    /\ UNCHANGED <<busy, contended, bias, reg, event, call, held, waits, ends>>

\* Held::drop: a waker's clone panics as a poll's step registers it, in its first
\* step or in one after a driver's part.  The word keeps what is left in it; what
\* release_word had taken from it for the end of the release goes with the holder.
panics(t) ==
    /\ pc[t] = "step" /\ call[t] = "poll" /\ panicked' = TRUE /\ held' = [held EXCEPT ![t] = "no"]
    /\ expect' = [expect EXCEPT ![t] = {}] /\ rest' = [rest EXCEPT ![t] = {}]
    /\ forgotten' = IF "WAITING" \in rest[t] THEN forgotten \union contended ELSE forgotten
    /\ IF held[t] = "biased"
       THEN /\ buffer' = Append(buffer, <<"own", 0>>) /\ UNCHANGED <<busy, word>>
            /\ IF intent = {} THEN Ends(t) ELSE Go(t, "unwinds") /\ UNCHANGED call
       ELSE /\ Seen(t) /\ busy' = FALSE /\ word' = word \ {"WAITING"} /\ UNCHANGED buffer
            /\ IF "WAITING" \in word THEN Go(t, "waking") /\ UNCHANGED call ELSE Ends(t)
    /\ waits' = waits \ {t} /\ inside' = inside \ {t}
    /\ UNCHANGED <<deferred, contended, own, intent, shared, owner, ready, reg, event, owed, woken, nudged, gone, calls>>

unwinds(t) ==
    /\ pc[t] = "unwinds" /\ Seen(t)
    /\ IF "WAITING" \in word THEN Go(t, "waking") /\ UNCHANGED call ELSE Ends(t)
    /\ UNCHANGED <<wordv, bias, contents, hold, tasks, ends>>

-----------------------------------------------------------------------------
\* give_up: the claimant's shard lets go of the source, and may run nothing again.
give_up(t) ==
    /\ MayGo /\ t = Owner /\ pc[t] = "idle" /\ owner = "claimed" /\ Seen(t) /\ t \notin event
    /\ owner' = "left" /\ Go(t, "giving") /\ call' = [call EXCEPT ![t] = "give"]
    /\ gone' = TRUE /\ waits' = waits \ {t} /\ inside' = inside \ {t} /\ contended' = contended \ {t}
    /\ UNCHANGED <<busy, word, deferred, own, intent, shared, buffer, ready, reg, event, owed, hold, woken,
                   nudged, panicked, calls, forgotten>>

give_up_looks(t) ==
    /\ pc[t] = "giving"
    /\ IF word = {} THEN Ends(t) /\ UNCHANGED <<shared, wordv, hold>>
       ELSE shared' = TRUE /\ Take(t, {}, "idle")
    /\ UNCHANGED <<own, intent, owner, buffer, contents, tasks, ends>>

Step(t) ==
    \/ \E where \in {"word", "intent"}: leaves(t, where)
    \/ \E from \in Contending: contend(t, from)
    \/ role(t) \/ biased_up(t) \/ try_biased(t) \/ take_word(t) \/ take_foreign(t) \/ heavy(t)
    \/ foreign_looks(t) \/ foreign_leaves(t) \/ foreign_again(t) \/ unserved(t) \/ unserved_leaves(t)
    \/ claim_given_up(t) \/ nudge(t) \/ register(t) \/ retake_left(t) \/ retake(t) \/ step(t)
    \/ own_down(t) \/ release_biased(t) \/ release_biased_came(t) \/ takes_left(t) \/ finish_flags(t)
    \/ wake_contended(t) \/ release_word(t) \/ swap(t) \/ panics(t) \/ unwinds(t) \/ give_up_looks(t)

Next ==
    \/ flush
    \/ \E t \in Threads:
        \/ \E kind \in {"poll", "drive", "defer", "req", "touch"}: begin(t, kind)
        \/ give_up(t) \/ edge(t) \/ Step(t)

Spec == Init /\ [][Next]_vars

(***************************************************************************)
(* One thread at a time is under the guard, however it took it: biased     *)
(* through plain stores, or through the word.                              *)
(***************************************************************************)
OneHolder == Cardinality({t \in Threads: held[t] # "no"}) <= 1

(***************************************************************************)
(* Nothing left for a holder stays behind.  With every call over, and no   *)
(* nudge on its way to a thread that still runs: no flag and no side-local *)
(* work is left (but after a panic, for the next holder), and every task   *)
(* whose poll is pending is woken or waits inside; but a task whose        *)
(* WAITING the holder had taken from the word when its step panicked.      *)
(***************************************************************************)
AllOver == (\A t \in Threads: pc[t] = "idle") /\ (nudged => gone)
NothingLeft ==
    AllOver =>
        /\ panicked \/ (word = {} /\ ~deferred)
        /\ waits \subseteq inside \union woken \union forgotten

(***************************************************************************)
(* "The polls waiting on it are woken to look again, and the work others   *)
(* left for the holder stays in the word for the next one" (Held::drop,    *)
(* io/side.rs): with every call over, no pending poll was left asleep      *)
(* outside, whoever panicked.                                              *)
(***************************************************************************)
PanicsLoseNone == AllOver => waits \subseteq inside \union woken

(***************************************************************************)
(* "So an edge is never lost" (io/side.rs): once every event was handed on *)
(* and every call is over, the edge of the registration in place was       *)
(* served, or its flag waits in the word a panic left for the next holder. *)
(***************************************************************************)
EdgeServed ==
    AllOver /\ event = {} => ~owed \/ (panicked /\ "READY" \in word)

------------------------------------------------------------------------------
(***************************************************************************)
(* What a step under a side's guard leaves for once the guard is let go    *)
(* (io/side/after.rs), and how a source settles it (io/source.rs): wakers  *)
(* to wake, wakers and buffers to drop, a submit to post, a wait for a     *)
(* buffer, a registration.  Waking and dropping may run a user's code,     *)
(* which may reach the same source, so neither may happen under the guard, *)
(* inside a call marked into a watched shard, or while the thread unwinds  *)
(* through a view of a source: then the work is parked until the view is   *)
(* gone.                                                                   *)
(*                                                                         *)
(* One thread.  Its frames are the views (Unwound) the ring's wait takes   *)
(* and the polls of tasks, which catch a panic, one inside another as a    *)
(* waker run in a wait polls or waits itself.  The panic is the one the    *)
(* code names, a user's waker clone as a step registers it.                *)
(***************************************************************************)

CONSTANTS Wakers,       \* the wakers of tasks
          Bufs,         \* pool buffers
          None,
          MaxFrames,    \* views and polls one inside another
          MaxPanics

VARIABLE after_t  \* the thread, its step, the side's list and what became of all

after_vars == after_t

Items == Wakers \union Bufs

\* Wakers: the tasks waiting on a side, one waker each.
NoWakers == [first |-> None, rest |-> <<>>]
is_empty(ws) == ws.first = None
len(ws) == (IF ws.first = None THEN 0 ELSE 1) + Len(ws.rest)

push_rest(ws, w) == [ws EXCEPT !.rest = Append(@, w)]
push(ws, w) == IF ws.first = None THEN [ws EXCEPT !.first = w] ELSE push_rest(ws, w)
known(ws, w) == ws.first = w \/ Contains(ws.rest, w)
after_register(ws, w) == IF known(ws, w) THEN ws ELSE push(ws, w)
append(ws, other) ==
  LET first == IF other.first = None THEN ws ELSE push(ws, other.first)
  IN [first EXCEPT !.rest = @ \o other.rest]
AllOf(ws) == (IF ws.first = None THEN {} ELSE {ws.first}) \union ToSet(ws.rest)

\* More, After: the slots and flags of a step.
NoMore == [wake |-> <<>>, forget |-> NoWakers, bufs |-> <<>>]
default == [wake |-> None, drop_one |-> None, more |-> None, kick |-> FALSE,
            starved |-> FALSE, register |-> FALSE, unmark |-> FALSE]

more(a) == IF a.more = None THEN [a EXCEPT !.more = NoMore] ELSE a
starved(a) == a.starved
set_starved(a) == [a EXCEPT !.starved = TRUE]
marked(a) == a.unmark
must_register(a) == a.register
set_must_register(a) == [a EXCEPT !.register = TRUE]
take_kick(a) == [a EXCEPT !.kick = FALSE]
set_kick(a) == [take_kick(a) EXCEPT !.kick = TRUE]
after_is_empty(a) ==
  /\ a.wake = None
  /\ a.drop_one = None
  /\ a.more = None
  /\ ~a.kick

wake_more(a, w) == [more(a) EXCEPT !.more.wake = Append(@, w)]
wake_one(a, w) == IF a.wake = None THEN [a EXCEPT !.wake = w] ELSE wake_more(a, w)
wake_rest(a, ws) == [more(a) EXCEPT !.more.wake = @ \o ws.rest]
wake(a, ws) ==
  LET one == IF ws.first = None THEN a ELSE wake_one(a, ws.first)
  IN IF ws.rest = <<>> THEN one ELSE wake_rest(one, ws)
forget(a, ws) ==
  IF is_empty(ws) THEN a ELSE [more(a) EXCEPT !.more.forget = append(@, ws)]
forget_one(a, w) == [more(a) EXCEPT !.more.forget = push(@, w)]
drop_buf(a, b) ==
  IF a.drop_one = None THEN [a EXCEPT !.drop_one = b]
  ELSE [more(a) EXCEPT !.more.bufs = Append(@, b)]

\* Waking or dropping one value: a user's code runs.  `early` holds what ran
\* where none may, but for what an inner view's drop ran; `twice` what ran again.
Runs(s, x, how) ==
  [s EXCEPT !.done[x] = how,
            !.twice = IF s.done[x] = "no" THEN @ ELSE @ \union {x},
            !.early = IF s.guard \/ s.marked \/ (s.live /\ s.unwinding /\ ~s.inner)
                      THEN @ \union {x} ELSE @]
RunsOne(s, x, how) == IF x = None THEN s ELSE Runs(s, x, how)
RunsAll(s, xs, how) == FoldLeft(LAMBDA st, x: Runs(st, x, how), s, xs)

wake_alone(s, a) == RunsOne(s, a.wake, "woken")

flush_more(s, a) ==
  LET bufs == RunsAll(s, a.more.bufs, "dropped")
      forgot == RunsAll(RunsOne(bufs, a.more.forget.first, "dropped"),
                        a.more.forget.rest, "dropped")
  IN RunsAll(RunsOne(forgot, a.wake, "woken"), a.more.wake, "woken")

after_flush(s, a) ==
  LET one == RunsOne(s, a.drop_one, "dropped")
  IN IF a.more = None THEN RunsOne(one, a.wake, "woken") ELSE flush_more(one, a)

run_held(s, a) == after_flush(s, a)

\* run: one waker alone inline, else all that is held; a kick goes with it.
OnlyWake(a) == a.wake # None /\ after_is_empty([a EXCEPT !.wake = None])
run(s, a) ==
  IF OnlyWake(a) THEN wake_alone(s, a)
  ELSE IF after_is_empty(a) THEN s ELSE run_held(s, a)

\* mark_call, unmark_call: a call into the shard from a task's code, where
\* the monitor watches it, until the step is settled.
NeedsMark(s) ==
  /\ s.watched
  /\ ~s.marked
  /\ s.frames # <<>>
  /\ Last(s.frames).kind = "poll"
mark_call(s) == [s EXCEPT !.marked = TRUE]
unmark_call(s) == [s EXCEPT !.marked = FALSE]
unmark_unwound(s) == IF s.marked THEN unmark_call(s) ELSE s

\* enter: the step of an owner's poll.
enter(s, a) ==
  IF NeedsMark(s) THEN [mark_call(s) EXCEPT !.step = [a EXCEPT !.unmark = TRUE]]
  ELSE [s EXCEPT !.step = a]

\* The view of a source: Unwound::enter, and what its drop runs.
view_live(s) == s.live
parking(s) == view_live(s) /\ s.unwinding
park(s, a) == IF after_is_empty(a) THEN s ELSE [s EXCEPT !.parked = Append(@, a)]
ItemsOf(a) ==
  ({a.wake, a.drop_one} \union
     (IF a.more = None THEN {}
      ELSE ToSet(a.more.wake) \union AllOf(a.more.forget) \union ToSet(a.more.bufs))) \ {None}
Parked(s) == UNION {ItemsOf(a): a \in ToSet(s.parked)}
run_unwound(s) ==
  LET ran == FoldLeft(LAMBDA st, a: run(st, a), [s EXCEPT !.parked = <<>>, !.inner = s.live], s.parked)
  IN [ran EXCEPT !.inner = FALSE]
unwound_enter(s) ==
  [s EXCEPT !.live = TRUE,
            !.frames = Append(@, [kind |-> "view", outer |-> s.live])]
unwound_drop(s) ==
  LET left == [s EXCEPT !.live = Last(s.frames).outer, !.frames = Front(@)]
  IN IF left.unwinding THEN run_unwound(left) ELSE left

\* Drop of an After a panic left: the call ends, then the work is parked or
\* run; the flags go with it.
after_drop(s, a) ==
  LET out == IF marked(a) THEN unmark_unwound(s) ELSE s
  IN IF parking(out) THEN park(out, a) ELSE after_flush(out, a)

\* settle and its two light forms.
kick(s, a) == IF a.kick THEN [s EXCEPT !.told = @ \union {"kick"}] ELSE s
wait_for_buffer(s) == [s EXCEPT !.told = @ \union {"buffer"}]
settle_rest(s, a) ==
  LET out == IF marked(a) THEN unmark_call(s) ELSE s
      kicked == kick(out, a)
      waiting == IF starved(a) THEN wait_for_buffer(kicked) ELSE kicked
  IN run(waiting, take_kick(a))

IsLight(a) == ~a.starved /\ ~a.register /\ ~a.unmark /\ (after_is_empty(a) \/ OnlyWake(a))
settle_light(s, a) == IF OnlyWake(a) THEN wake_alone(s, a) ELSE s
unmark_and_wake(s, w) == RunsOne(unmark_call(s), w, "woken")
IsLightMarked(a) == a.unmark /\ IsLight([a EXCEPT !.unmark = FALSE])
settle_light_owned(s, a) ==
  IF IsLightMarked(a) THEN unmark_and_wake(s, a.wake) ELSE settle_light(s, a)

settle(s, a) == IF IsLight(a) THEN settle_light(s, a) ELSE settle_rest(s, a)
settle_owned(s, a) ==
  IF IsLight(a) \/ IsLightMarked(a) THEN settle_light_owned(s, a) ELSE settle_rest(s, a)

\* The end of a poll: a driver watches the source if the poll waits or left
\* work.
after_ensure_registered(s) == [s EXCEPT !.told = @ \union {"watch"}]
Watches(a, pending) == must_register(a) \/ pending
finish_poll(s, a, pending) ==
  LET done == settle(s, a)
  IN IF Watches(a, pending) THEN after_ensure_registered(done) ELSE done
finish_owned_poll(s, a, pending) ==
  LET done == settle_owned(s, a)
  IN IF Watches(a, pending) THEN after_ensure_registered(done) ELSE done

--------------------------------------------------------------------------
AfterInit ==
  \E w \in BOOLEAN:
    after_t = [side |-> NoWakers, step |-> None, guard |-> FALSE, marked |-> FALSE,
         watched |-> w, frames |-> <<>>, live |-> FALSE, unwinding |-> FALSE,
         parked |-> <<>>, told |-> {}, asked |-> {}, missed |-> {}, panics |-> 0,
         owed |-> [x \in Items |-> "none"], done |-> [x \in Items |-> "no"],
         early |-> {}, twice |-> {}, inner |-> FALSE, caught |-> FALSE]

Calm == ~after_t.unwinding /\ after_t.step = None

\* The ring's wait takes its view, and leaves it, unwinding or not.
drive_enters ==
  /\ Calm
  /\ Len(after_t.frames) < MaxFrames
  /\ after_t' = unwound_enter(after_t)
drive_leaves ==
  /\ after_t.step = None
  /\ after_t.frames # <<>>
  /\ Last(after_t.frames).kind = "view"
  /\ after_t' = unwound_drop(after_t)

\* A task's poll, which catches what unwinds into it.
poll_enters ==
  /\ Calm
  /\ Len(after_t.frames) < MaxFrames
  /\ after_t' = [after_t EXCEPT !.frames = Append(@, [kind |-> "poll", outer |-> FALSE])]
poll_ends ==
  /\ after_t.step = None
  /\ after_t.frames # <<>>
  /\ Last(after_t.frames).kind = "poll"
  /\ after_t' = [after_t EXCEPT !.frames = Front(@), !.unwinding = FALSE,
                    !.caught = @ \/ parking(after_t)]

\* A step takes the side, of an owner's poll or of another.
begins ==
  /\ Calm
  /\ after_t.frames # <<>>
  /\ after_t' = [enter(after_t, default) EXCEPT !.guard = TRUE]

Under == after_t.step # None
Owes(xs, how) == [x \in Items |-> IF x \in xs THEN how ELSE after_t.owed[x]]
Fresh(x) == after_t.owed[x] = "none" /\ (x \in Bufs \/ ~known(after_t.side, x))

registers(w) ==
  /\ Under
  /\ after_t.owed[w] = "none"
  /\ after_t' = [after_t EXCEPT !.side = after_register(@, w)]
wakes ==
  /\ Under
  /\ ~is_empty(after_t.side)
  /\ after_t' = [after_t EXCEPT !.step = wake(@, after_t.side), !.side = NoWakers,
                    !.owed = Owes(AllOf(after_t.side), "wake")]
forgets ==
  /\ Under
  /\ ~is_empty(after_t.side)
  /\ after_t' = [after_t EXCEPT !.step = forget(@, after_t.side), !.side = NoWakers,
                    !.owed = Owes(AllOf(after_t.side), "drop")]
wakes_one(w) ==
  /\ Under
  /\ Fresh(w)
  /\ after_t' = [after_t EXCEPT !.step = wake_one(@, w), !.owed = Owes({w}, "wake")]
forgets_one(w) ==
  /\ Under
  /\ Fresh(w)
  /\ after_t' = [after_t EXCEPT !.step = forget_one(@, w), !.owed = Owes({w}, "drop")]
drops_buf(b) ==
  /\ Under
  /\ Fresh(b)
  /\ after_t' = [after_t EXCEPT !.step = drop_buf(@, b), !.owed = Owes({b}, "drop")]
asks ==
  /\ Under
  /\ \/ after_t' = [after_t EXCEPT !.step = set_starved(@), !.asked = @ \union {"buffer"}]
     \/ after_t' = [after_t EXCEPT !.step = set_kick(@), !.asked = @ \union {"kick"}]
     \/ after_t' = [after_t EXCEPT !.step = set_must_register(@), !.asked = @ \union {"watch"}]

\* The step's end: the guard let go, then the settle.
Released(s) == [s EXCEPT !.guard = FALSE, !.step = None]
Settled(s) ==
  [s EXCEPT !.missed = @ \union ((s.asked \ {"watch"}) \ s.told), !.told = {}, !.asked = {}]
ends_step ==
  /\ Under
  /\ ~after_t.marked
  /\ after_t' = Settled(settle(Released(after_t), after_t.step))
ends_poll(pending) ==
  /\ Under
  /\ Last(after_t.frames).kind = "poll"
  /\ after_t' = Settled(IF after_t.marked THEN finish_owned_poll(Released(after_t), after_t.step, pending)
                  ELSE finish_poll(Released(after_t), after_t.step, pending))

\* A waker's clone panics as a step registers it: the guard's drop, the
\* step's, then the frames'.  What the step asked for goes with it.
after_panics(w) ==
  /\ Under
  /\ after_t.panics < MaxPanics
  /\ Fresh(w)
  /\ after_t' = [after_drop([Released(after_t) EXCEPT !.unwinding = TRUE], after_t.step)
             EXCEPT !.panics = @ + 1, !.asked = {}]

AfterNext ==
  \/ drive_enters
  \/ drive_leaves
  \/ poll_enters
  \/ poll_ends
  \/ begins
  \/ \E w \in Wakers: registers(w) \/ wakes_one(w) \/ forgets_one(w) \/ after_panics(w)
  \/ wakes
  \/ forgets
  \/ \E b \in Bufs: drops_buf(b)
  \/ asks
  \/ ends_step
  \/ \E pending \in BOOLEAN: ends_poll(pending)

AfterSpec == AfterInit /\ [][AfterNext]_after_vars

--------------------------------------------------------------------------
Woken == {x \in Items: after_t.owed[x] = "wake"}
Dropped == {x \in Items: after_t.owed[x] = "drop"}

\* What a step left is run, as it was left and once, by the time the thread
\* is out of its frames: a step that panicked, or panicked under a view,
\* loses none of it (After::drop, park, run_unwound).  What was parked when a
\* poll inside the view caught the panic is kept, whole, for the next view
\* that unwinds: neither the poll's end nor the view's, left in peace, runs it.
RunOrKept(x, how) == after_t.done[x] = how \/ x \in Parked(after_t)
LeftIsRun ==
  /\ after_t.twice = {}
  /\ Calm /\ after_t.frames = <<>> =>
       /\ \A x \in Woken: RunOrKept(x, "woken")
       /\ \A x \in Dropped: RunOrKept(x, "dropped")
       /\ after_t.parked # <<>> => after_t.caught
       /\ len(after_t.side) = Cardinality(AllOf(after_t.side))

\* "The work goes to the thread's list for `Unwound' or the end of the poll to
\* run" (After::park, io/side/after.rs): out of its frames, the thread has run
\* all that was parked.
ParkedIsRun == Calm /\ after_t.frames = <<>> => after_t.parked = <<>>

\* No user's code runs under a guard, inside a marked call or under a view
\* the thread unwinds through, but what an inner view's drop runs while an
\* outer view is still live; no mark outlives its step, however that ends, so
\* the monitor may take the shard again; and nothing a step asked of its
\* source (a submit, a buffer) is forgotten.
RunOutside ==
  /\ after_t.early = {}
  /\ after_t.step = None => ~after_t.marked
  /\ after_t.missed = {}

------------------------------------------------------------------------------
(***************************************************************************)
(* The requests of a source, src/io/source/requests.rs: work that needs    *)
(* both of its sides, done by whoever ends up holding both; with the       *)
(* registration of src/io/source.rs that most of them change, and the      *)
(* holds that keep a dropped handle's object open.                         *)
(*                                                                         *)
(* A side is module Side's guard, through its word: a holder or nobody,    *)
(* and the REQ flag its holder sees as it lets go.  A poll starts when it  *)
(* finds its side free (what a held side does to it is Side's matter).     *)
(* The thread named as a shard runs that shard.                            *)
(***************************************************************************)

CONSTANTS
    ReqThreads,
    Shards,
    Service,  \* the shard that registers for threads that run none
    Quits,  \* the shards that may stop
    ReqMaxCalls,  \* bound: polls and changes of the handle but its close, in all
    MaxLeases  \* bound: leases out

VARIABLES
    req_side,        \* side["read"], side["write"]: the holder
    req,         \* the sides whose word has REQ
    requests,    \* the request word
    req_reg,         \* "none", "registering", or the shard
    ask,         \* Ask::attach: the shard of an attach asked
    slots,       \* the shards with a slot for the source
    fd,          \* the descriptor is in place
    handle,      \* "live", "changing" (retired, its object out), "lingers", "gone"
    object,      \* the handle's object is open
    holds, leases,
    retired, awaits_ops, retire_wakes,
    stopped, posted,
    req_pc, req_call, saw, result,
    req_waits, req_inside, req_woken,
    req_calls,
    untold,      \* history: the tasks a failed attach was not told to
    reused       \* history: a close was performed together with the linger before it

sides == <<req_side, req, requests>>
regs == <<req_reg, ask, slots>>
keeps == <<handle, object, holds, leases, retired, awaits_ops, retire_wakes>>
req_tasks == <<req_waits, req_inside, req_woken>>
history == <<untold, reused>>
req_vars == <<sides, regs, fd, keeps, stopped, posted, req_pc, req_call, saw, result, req_tasks, req_calls, history>>

ReqInit ==
    /\ req_side = [s \in {"read", "write"} |-> None] /\ req = {} /\ requests = {}
    /\ req_reg = "none" /\ ask = None /\ slots = {} /\ fd = TRUE /\ handle = "live" /\ object = TRUE
    /\ holds = 1 /\ leases = 0 /\ retired = FALSE /\ awaits_ops = FALSE /\ retire_wakes = FALSE
    /\ stopped = {} /\ posted = {}
    /\ req_pc = [t \in ReqThreads |-> "idle"] /\ req_call = [t \in ReqThreads |-> "none"]
    /\ saw = [t \in ReqThreads |-> FALSE] /\ result = [t \in ReqThreads |-> "none"]
    /\ req_waits = {} /\ req_inside = {} /\ req_woken = {} /\ req_calls = 0
    /\ untold = {} /\ reused = FALSE

ReqGo(t, where) == req_pc' = [req_pc EXCEPT ![t] = where]
Polling == \E t \in ReqThreads: req_call[t] \in {"poll", "attach", "look"}
leased == holds > 1

-----------------------------------------------------------------------------
\* A poll of either direction: it revives a retired source, and holds its side.
poll(t, which) ==
    /\ req_pc[t] = "idle" /\ req_side[which] = None
    /\ handle = "live" \/ (handle = "lingers" /\ which = "write")   \* poll_drain
    /\ ~\E u \in ReqThreads: req_call[u] \in {"retire", "close", "linger"}
    /\ req_calls < ReqMaxCalls \/ t \in req_woken
    /\ req_calls' = IF t \in req_woken THEN req_calls ELSE req_calls + 1
    /\ fd' = TRUE /\ req_side' = [req_side EXCEPT ![which] = t]
    /\ req_call' = [req_call EXCEPT ![t] = "poll"] /\ ReqGo(t, which)
    /\ req_woken' = req_woken \ {t} /\ req_waits' = req_waits \ {t} /\ untold' = untold \ {t}
    /\ UNCHANGED <<req, requests, regs, keeps, stopped, posted, saw, result, req_inside, reused>>

\* An edge of the driver, of the shard that watches the source: whoever waits is woken.
on_event(s, which) ==
    /\ req_pc[s] = "idle" /\ req_reg = s /\ s \notin stopped /\ req_side[which] = None
    /\ req_side' = [req_side EXCEPT ![which] = s] /\ req_call' = [req_call EXCEPT ![s] = "drive"] /\ ReqGo(s, which)
    /\ UNCHANGED <<req, requests, regs, fd, keeps, stopped, posted, saw, result, req_tasks, req_calls, history>>

drives(s) ==
    /\ req_call[s] = "drive" /\ req_pc[s] \in {"read", "write"}
    /\ ReqGo(s, IF req_pc[s] = "read" THEN "read_release" ELSE "write_release")
    /\ req_woken' = req_woken \union (req_inside \cap req_waits) /\ req_inside' = {}
    /\ UNCHANGED <<sides, regs, fd, keeps, stopped, posted, req_call, saw, result, req_waits, req_calls, history>>

\* Its step is done, or waits inside.
poll_steps(t) ==
    /\ req_call[t] = "poll" /\ req_pc[t] \in {"read", "write"}
    /\ ReqGo(t, IF req_pc[t] = "read" THEN "read_release" ELSE "write_release")
    /\ \/ UNCHANGED <<req_waits, req_inside>>
       \/ req_waits' = req_waits \union {t} /\ req_inside' = req_inside \union {t}
    /\ UNCHANGED <<sides, regs, fd, keeps, stopped, posted, req_call, saw, result, req_woken, req_calls, history>>

\* request: the bits go up, and the read side is taken with REQ.
Raise(t, bits) == requests' = requests \union bits /\ ReqGo(t, "take_read")

take_read(t) ==
    /\ req_pc[t] = "take_read" /\ req' = req \union {"read"}
    /\ IF req_side["read"] = None
       THEN req_side' = [req_side EXCEPT !["read"] = t] /\ ReqGo(t, "take_write")
       ELSE ReqGo(t, "end") /\ UNCHANGED req_side
    /\ UNCHANGED <<requests, regs, fd, keeps, stopped, posted, req_call, saw, result, req_tasks, req_calls, history>>

\* try_write_and_perform, with the read side held
try_write(t) ==
    /\ req_pc[t] = "take_write"
    /\ IF requests = {} THEN ReqGo(t, "read_release") /\ UNCHANGED <<req_side, req>>
       ELSE /\ req' = req \union {"write"}
            /\ IF req_side["write"] = None
               THEN req_side' = [req_side EXCEPT !["write"] = t] /\ ReqGo(t, "perform")
               ELSE ReqGo(t, "read_release") /\ UNCHANGED req_side
    /\ UNCHANGED <<requests, regs, fd, keeps, stopped, posted, req_call, saw, result, req_tasks, req_calls, history>>

\* The read side's release looks at REQ: requests_holding_read.
release_read(t) ==
    /\ req_pc[t] = "read_release"
    /\ IF "read" \in req THEN req' = req \ {"read"} /\ ReqGo(t, "take_write") /\ UNCHANGED req_side
       ELSE req_side' = [req_side EXCEPT !["read"] = None] /\ ReqGo(t, "end") /\ UNCHANGED req
    /\ UNCHANGED <<requests, regs, fd, keeps, stopped, posted, req_call, saw, result, req_tasks, req_calls, history>>

\* The write side's release remembers REQ, and looks once it let go.
release_write(t) ==
    /\ req_pc[t] = "write_release"
    /\ IF "write" \in req
       THEN req' = req \ {"write"} /\ saw' = [saw EXCEPT ![t] = TRUE] /\ UNCHANGED <<req_side, req_pc>>
       ELSE /\ req_side' = [req_side EXCEPT !["write"] = None] /\ saw' = [saw EXCEPT ![t] = FALSE] /\ UNCHANGED req
            /\ ReqGo(t, IF saw[t] THEN "after_write" ELSE IF req_side["read"] = t THEN "read_release" ELSE "end")
    /\ UNCHANGED <<requests, regs, fd, keeps, stopped, posted, req_call, result, req_tasks, req_calls, history>>

requests_after_write(t) ==
    /\ req_pc[t] = "after_write"
    /\ IF requests = {}
       THEN ReqGo(t, IF req_side["read"] = t THEN "read_release" ELSE "end") /\ UNCHANGED <<req_side, req>>
       ELSE /\ req' = req \union {"read"}
            /\ CASE req_side["read"] = None -> req_side' = [req_side EXCEPT !["read"] = t] /\ ReqGo(t, "take_write")
                 [] req_side["read"] = t -> ReqGo(t, "read_release") /\ UNCHANGED req_side
                 [] OTHER -> ReqGo(t, "end") /\ UNCHANGED req_side
    /\ UNCHANGED <<requests, regs, fd, keeps, stopped, posted, req_call, saw, result, req_tasks, req_calls, history>>

-----------------------------------------------------------------------------
Gone == requests \cap {"RETIRE", "CLOSE", "LINGER"} # {}

\* What is left of the registration and the descriptor once detached, and how an
\* attach asked ends with that.
detach == IF Gone /\ req_reg \in Shards THEN "none" ELSE req_reg
fd_left == fd /\ (~Gone \/ "LINGER" \in requests)

attach_now(outcome) ==
    CASE ~fd_left -> outcome = "refused"
      [] fd_left /\ ask \in stopped -> outcome = "refused"
      [] OTHER -> outcome \in {"ok", "failed"}

evict_now(left) == IF "EVICT" \in requests /\ left \in Shards THEN "none" ELSE left

\* release_hold, of the close
Closing == IF "CLOSE" \in requests THEN 1 ELSE 0

\* Whom the requests wake: of an attach performed for another thread, everybody.
tells(t, attached, here) ==
    req_inside' = IF \/ Gone \/ requests \cap {"FAIL", "EVICT", "ORPHANED"} # {}
                 \/ (~here /\ attached \in {"refused", "failed"}) THEN {} ELSE req_inside

\* Who waits, done polling, on the registration `t' made: they saw it under way.
Unasked(t) == {u \in (req_inside \cap req_waits) \ {t}: req_call[u] # "poll"}

\* perform, with both sides held
perform(t) ==
    /\ req_pc[t] = "perform" /\ requests' = {} /\ ReqGo(t, "write_release")
    /\ LET attaching == "ATTACH" \in requests /\ ask # None
           here == req_call[t] = "attach" IN
       \E attached \in {"none", "ok", "refused", "failed"}:
         /\ IF attaching THEN attach_now(attached) ELSE attached = "none"
         /\ ask' = IF attaching THEN None ELSE ask
         /\ LET after == CASE attached = "ok" -> ask [] attached \in {"refused", "failed"} -> "none"
                           [] OTHER -> detach IN
            /\ req_reg' = evict_now(after)
            /\ slots' = (slots \ ({req_reg, ask} \union (IF "EVICT" \in requests THEN {after} ELSE {}))) \union
                        (IF req_reg' \in Shards THEN {req_reg'} ELSE {})
         /\ fd' = fd_left
         /\ tells(t, attached, here)
         /\ req_woken' = IF requests \cap {"RETIRE", "CLOSE"} # {} THEN req_woken
                     ELSE req_woken \union ((req_inside \ req_inside') \cap req_waits)
         /\ result' = IF here /\ attaching THEN [result EXCEPT ![t] = attached] ELSE result
         /\ untold' = IF here /\ attached = "failed" THEN untold \union Unasked(t) ELSE untold
    /\ reused' = (reused \/ {"LINGER", "CLOSE"} \subseteq requests)
    /\ retired' = (retired \/ "RETIRE" \in requests)
    /\ retire_wakes' = (retire_wakes \/ "RETIRE" \in requests)
    /\ holds' = holds - Closing /\ object' = (object /\ holds' > 0)
    /\ UNCHANGED <<req_side, req, handle, leases, awaits_ops, stopped, posted, req_call, saw, req_waits, req_calls>>

-----------------------------------------------------------------------------
\* The call is over: a pending poll has the source registered, ...
req_ensure_registered(t) ==
    /\ req_pc[t] = "end" /\ req_call[t] = "poll"
    /\ IF t \notin req_waits \/ req_reg # "none" THEN
         ReqGo(t, "idle") /\ req_call' = [req_call EXCEPT ![t] = "none"] /\ UNCHANGED <<req_reg, posted, requests, ask, slots>>
       ELSE CASE t \in Shards \ stopped ->   \* register_source, attach
                   /\ req_reg' = "registering" /\ ask' = t /\ slots' = slots \union {t}
                   /\ req_call' = [req_call EXCEPT ![t] = "attach"] /\ Raise(t, {"ATTACH"}) /\ UNCHANGED posted
              [] t \in stopped ->            \* registration_abandoned, look_again
                   /\ req_call' = [req_call EXCEPT ![t] = "look"] /\ Raise(t, {"ORPHANED"})
                   /\ UNCHANGED <<req_reg, ask, slots, posted>>
              [] OTHER ->                    \* left to the service's shard
                   /\ req_reg' = "registering" /\ posted' = posted \union {Service}
                   /\ ReqGo(t, "idle") /\ req_call' = [req_call EXCEPT ![t] = "none"] /\ UNCHANGED <<requests, ask, slots>>
    /\ UNCHANGED <<req_side, req, fd, keeps, stopped, saw, result, req_tasks, req_calls, history>>

\* ... an attach refused for now has the tasks look again, one that failed fails
\* the poll that asked, or, made for another thread, all who wait.
req_register(t) ==
    /\ req_pc[t] = "end" /\ req_call[t] = "attach" /\ result' = [result EXCEPT ![t] = "none"]
    /\ CASE result[t] = "refused" ->
              Raise(t, {"ORPHANED"}) /\ req_call' = [req_call EXCEPT ![t] = "look"] /\ UNCHANGED <<req_waits, req_inside>>
         [] result[t] = "failed" ->
              /\ ReqGo(t, "idle") /\ req_call' = [req_call EXCEPT ![t] = "none"] /\ UNCHANGED requests
              /\ req_waits' = req_waits \ {t} /\ req_inside' = req_inside \ {t}
         [] OTHER -> /\ ReqGo(t, "idle") /\ req_call' = [req_call EXCEPT ![t] = "none"]
                     /\ UNCHANGED <<requests, req_waits, req_inside>>
    /\ UNCHANGED <<req_side, req, regs, fd, keeps, stopped, posted, saw, req_woken, req_calls, history>>

\* apply_io_ops, on the service's shard; a stopped shard's mail is orphaned.
apply_register(s) ==
    /\ s \in posted /\ s \in ReqThreads /\ req_pc[s] = "idle" /\ posted' = posted \ {s}
    /\ IF s \in stopped
       THEN req_reg' = "none" /\ req_call' = [req_call EXCEPT ![s] = "orphan"] /\ Raise(s, {"ORPHANED"}) /\ UNCHANGED <<ask, slots>>
       ELSE /\ ask' = s /\ slots' = slots \union {s} /\ UNCHANGED req_reg
            /\ req_call' = [req_call EXCEPT ![s] = "apply"] /\ Raise(s, {"ATTACH"})
    /\ UNCHANGED <<req_side, req, fd, keeps, stopped, saw, result, req_tasks, req_calls, history>>

\* The shard stops and evicts its sources.
evict(s) ==
    /\ s \in Quits \ stopped /\ req_pc[s] = "idle" /\ stopped' = stopped \union {s}
    /\ req_call' = [req_call EXCEPT ![s] = "evict"] /\ Raise(s, {"EVICT"})
    /\ UNCHANGED <<req_side, req, regs, fd, keeps, posted, saw, result, req_tasks, req_calls, history>>

over(t) ==
    /\ req_pc[t] = "end" /\ req_call[t] \in {"look", "orphan", "evict", "close", "linger", "apply", "drive"}
    /\ ReqGo(t, "idle") /\ req_call' = [req_call EXCEPT ![t] = "none"]
    /\ UNCHANGED <<sides, regs, fd, keeps, stopped, posted, saw, result, req_tasks, req_calls, history>>

-----------------------------------------------------------------------------
\* The handle's owner, with no poll of it under way: retire, close and linger.
Change(t, kind, from) ==
    /\ req_pc[t] = "idle" /\ handle \in from /\ ~Polling
    /\ ~\E u \in ReqThreads: req_call[u] \in {"retire", "close", "linger"}
    /\ req_call' = [req_call EXCEPT ![t] = kind] /\ req_waits' = {} /\ req_woken' = {}
    /\ UNCHANGED <<req_side, req, regs, fd, object, holds, leases, stopped, posted, saw, result, req_inside, history>>

retire(t) ==
    /\ Change(t, "retire", {"live"}) /\ retired' = FALSE /\ Raise(t, {"RETIRE"})
    /\ req_calls < ReqMaxCalls /\ req_calls' = req_calls + 1
    /\ UNCHANGED <<handle, awaits_ops, retire_wakes>>

\* The close of a handle, and of one that lingers once its drain ended or its time
\* ran out; the linger may still be with the holders.
close(t) ==
    /\ Change(t, "close", {"live", "lingers"}) /\ handle' = "gone" /\ Raise(t, {"CLOSE"})
    /\ UNCHANGED <<retired, awaits_ops, retire_wakes, req_calls>>

linger(t) ==
    /\ Change(t, "linger", {"live"}) /\ handle' = "lingers" /\ Raise(t, {"LINGER"})
    /\ req_calls < ReqMaxCalls /\ req_calls' = req_calls + 1
    /\ UNCHANGED <<retired, awaits_ops, retire_wakes>>

\* A retire waits until it was performed and no lease is out: its waker, the flag,
retire_arms(t) ==
    /\ req_call[t] = "retire" /\ (req_pc[t] = "end" \/ (req_pc[t] = "asleep" /\ retire_wakes))
    /\ ReqGo(t, "arms") /\ retire_wakes' = FALSE /\ awaits_ops' = TRUE
    /\ UNCHANGED <<sides, regs, fd, handle, object, holds, leases, retired, stopped, posted, req_call, saw, result,
                   req_tasks, req_calls, history>>

\* and a look after them.
retire_looks(t) ==
    /\ req_pc[t] = "arms"
    /\ IF retired /\ ~leased
       THEN /\ handle' = "changing" /\ awaits_ops' = FALSE /\ ReqGo(t, "idle")
            /\ req_call' = [req_call EXCEPT ![t] = "none"]
       ELSE ReqGo(t, "asleep") /\ UNCHANGED <<handle, awaits_ops, req_call>>
    /\ UNCHANGED <<sides, regs, fd, object, holds, leases, retired, retire_wakes, stopped, posted, saw, result, req_tasks, req_calls, history>>

\* The object is back in its handle.
changed ==
    /\ handle = "changing" /\ handle' = "live"
    /\ UNCHANGED <<sides, regs, fd, object, holds, leases, retired, awaits_ops, retire_wakes, stopped, posted,
                   req_pc, req_call, saw, result, req_tasks, req_calls, history>>

\* A lease, by a holder of the handle or of another lease, with the descriptor in
\* place; its drop is release_hold.
lease ==
    /\ leases < MaxLeases /\ fd /\ (leases > 0 \/ handle \in {"live", "lingers"})
    /\ ~\E t \in ReqThreads: req_call[t] \in {"retire", "close", "linger"}
    /\ leases' = leases + 1 /\ holds' = holds + 1
    /\ UNCHANGED <<sides, regs, fd, handle, object, retired, awaits_ops, retire_wakes, stopped, posted, req_pc, req_call,
                   saw, result, req_tasks, req_calls, history>>

release_hold ==
    /\ leases > 0 /\ leases' = leases - 1 /\ holds' = holds - 1 /\ object' = (object /\ holds' > 0)
    /\ retire_wakes' = (retire_wakes \/ (holds' = 1 /\ awaits_ops))
    /\ UNCHANGED <<sides, regs, fd, handle, retired, awaits_ops, stopped, posted, req_pc, req_call, saw, result, req_tasks, req_calls, history>>

ReqNext ==
    \/ changed \/ lease \/ release_hold
    \/ \E t \in ReqThreads:
        \/ \E which \in {"read", "write"}: poll(t, which) \/ on_event(t, which)
        \/ drives(t) \/ poll_steps(t) \/ take_read(t) \/ try_write(t) \/ release_read(t) \/ release_write(t)
        \/ requests_after_write(t) \/ perform(t) \/ req_ensure_registered(t) \/ req_register(t) \/ over(t)
        \/ apply_register(t) \/ evict(t) \/ retire(t) \/ close(t) \/ linger(t) \/ retire_arms(t) \/ retire_looks(t)

ReqSpec == ReqInit /\ [][ReqNext]_req_vars

(***************************************************************************)
(* The descriptor is closed, or out of the runtime's hands while its       *)
(* object changes, only when nothing can use its number: no lease is out,  *)
(* no shard watches it, and no side's holder finds it in place; but where  *)
(* one perform took a linger and the close after it, whose number it then  *)
(* leaves in place.                                                        *)
(***************************************************************************)
NumberInUse == req_reg \in Shards \/ (fd /\ \E t \in ReqThreads: req_pc[t] \in {"read", "write"})
NumberIsOurs ==
    /\ leases > 0 => object
    /\ NumberInUse => object \/ reused
    /\ handle = "changing" => ~fd /\ leases = 0 /\ req_reg \notin Shards

(***************************************************************************)
(* "So no call of the driver, no job of the blocking pool and no entry     *)
(* queued on a ring can use its number" (Source::close,                    *)
(* io/source/requests.rs): a number in use is open.                        *)
(***************************************************************************)
ClosedIsUnused == NumberInUse => object

(***************************************************************************)
(* Nothing left to the holders is forgotten: with every call over and no   *)
(* mail out, no request is pending, a task that waits is woken or some     *)
(* shard that runs watches the source, a retire asleep still has what to   *)
(* wait for, and a shard keeps a slot only for the source it watches.  But *)
(* a task whose poll ended on the registration another poll was making is  *)
(* told nothing when that registration fails.                              *)
(***************************************************************************)
AtRest == posted = {} /\ \A t \in ReqThreads: req_pc[t] \in {"idle", "asleep"}
WaitersWatched ==
    AtRest =>
        /\ requests = {}
        /\ req_waits \subseteq req_woken \union untold \/ req_reg \in Shards \ stopped
        /\ (\E t \in ReqThreads: req_pc[t] = "asleep") => retire_wakes \/ ~retired \/ leased
        /\ slots = {req_reg} \cap Shards

(***************************************************************************)
(* "Readiness is reported once the registration is in place"               *)
(* (Source::ensure_registered, io/source.rs): a task that waits has a      *)
(* driver, or is woken.                                                    *)
(***************************************************************************)
WaitersHaveDriver == AtRest => req_waits \subseteq req_woken \/ req_reg \in Shards \ stopped
==============================================================================
