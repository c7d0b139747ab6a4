------------------------------ MODULE OnceCell ------------------------------
(***************************************************************************)
(* The cell written once of src/sync/once_cell.rs: one word says where the *)
(* value is (nowhere, the cell's slot, a racing builder's box), and a turn *)
(* with one permit says who may write the slot.  The turn is a             *)
(* RawSemaphore, of module Contend: here it is held, free or closed.       *)
(***************************************************************************)
EXTENDS Integers, FiniteSets, TLAPS

CONSTANTS Tasks, None,
          MaxCalls  \* bound: calls made of the cell, in all

ASSUME NoneIsNoTask == None \notin Tasks

VARIABLES
    value,   \* where the published value is, and whose it is
    slot,    \* whose value the slot holds
    turn,    \* who holds the turn
    closed,  \* whether the turn's semaphore is closed
    in,      \* of a task: where its call is
    got,     \* of a task: whose value its call answered
    calls

cvars == <<value, slot, turn, closed, in, got, calls>>

Nowhere == [place |-> "null", of |-> None]

Init ==
    /\ value = Nowhere /\ slot = None /\ turn = None /\ closed = FALSE
    /\ in = [t \in Tasks |-> "idle"] /\ got = [t \in Tasks |-> None] /\ calls = 0

initialized == value.place # "null"

\* resolve: what a reference answered now reads
resolve == IF value.place = "slot" THEN slot ELSE value.of

At(t, where) == in' = [in EXCEPT ![t] = where]
Answers(t, of) == At(t, "idle") /\ got' = [got EXCEPT ![t] = of]

Call(t, where) ==
    /\ in[t] = "idle" /\ got[t] = None /\ calls < MaxCalls /\ calls' = calls + 1
    /\ At(t, where) /\ UNCHANGED <<value, slot, turn, closed, got>>

\* set: a look, then the turn without waiting for it
set(t) == Call(t, "set")

set_looks(t) ==
    /\ in[t] = "set" /\ At(t, IF initialized THEN "refused" ELSE "set_turn")
    /\ UNCHANGED <<value, slot, turn, closed, got, calls>>

set_takes(t) ==
    /\ in[t] = "set_turn"
    /\ IF ~closed /\ turn = None THEN turn' = t /\ At(t, "set_write")
                                 ELSE UNCHANGED turn /\ At(t, "refused")
    /\ UNCHANGED <<value, slot, closed, got, calls>>

\* An error hands the value back.
set_refused(t) == in[t] = "refused" /\ At(t, "idle") /\ UNCHANGED <<value, slot, turn, closed, got, calls>>

\* get_or_init_racy: a look, then a box built aside
get_or_init_racy(t) == Call(t, "racy")

racy_looks(t) ==
    /\ in[t] = "racy"
    /\ IF initialized THEN Answers(t, resolve) ELSE At(t, "box") /\ UNCHANGED got
    /\ UNCHANGED <<value, slot, turn, closed, calls>>

\* get_or_init and get_or_try_init: a look, the turn, a second look, and then
\* the initializer runs with the turn held
get_or_try_init(t) == Call(t, "init")

init_looks(t) ==
    /\ in[t] = "init"
    /\ IF initialized THEN Answers(t, resolve) ELSE At(t, "wait") /\ UNCHANGED got
    /\ UNCHANGED <<value, slot, turn, closed, calls>>

init_waits(t) ==
    /\ in[t] = "wait" /\ (closed \/ turn = None)
    /\ IF closed THEN At(t, "closed") /\ UNCHANGED turn ELSE turn' = t /\ At(t, "again")
    /\ UNCHANGED <<value, slot, closed, got, calls>>

init_looks_again(t) ==
    /\ in[t] = "again"
    /\ IF initialized THEN Answers(t, resolve) /\ turn' = None
                      ELSE At(t, "running") /\ UNCHANGED <<got, turn>>
    /\ UNCHANGED <<value, slot, closed, calls>>

\* A closed queue over an empty cell: this call builds as a racing one does.
init_closed(t) ==
    /\ in[t] = "closed"
    /\ IF initialized THEN Answers(t, resolve) ELSE At(t, "box") /\ UNCHANGED got
    /\ UNCHANGED <<value, slot, turn, closed, calls>>

\* The initializer answers, or fails or is dropped, which gives the turn up.
init_ends(t) ==
    /\ in[t] = "running"
    /\ \/ At(t, "write") /\ UNCHANGED turn
       \/ At(t, "idle") /\ turn' = None
    /\ UNCHANGED <<value, slot, closed, got, calls>>

\* A call dropped while it waits for the turn.
init_dropped(t) ==
    /\ in[t] = "wait" /\ At(t, "idle") /\ UNCHANGED <<value, slot, turn, closed, got, calls>>

\* publish_inline: the slot is written, then one exchange publishes it.
publish_writes(t) ==
    /\ in[t] \in {"write", "set_write"} /\ slot' = t
    /\ At(t, IF in[t] = "write" THEN "swap" ELSE "set_swap")
    /\ UNCHANGED <<value, turn, closed, got, calls>>

PublishBlindly(t) ==
    /\ in[t] \in {"swap", "set_swap"}
    /\ value' = [place |-> "slot", of |-> t] /\ At(t, IF in[t] = "swap" THEN "close" ELSE "set_close")
    /\ turn' = None
    /\ UNCHANGED <<slot, got, closed, calls>>

\* The loser reads its value back out and answers the winner's.
publish_inline(t) ==
    /\ in[t] \in {"swap", "set_swap"}
    /\ IF ~initialized
       THEN /\ value' = [place |-> "slot", of |-> t] /\ UNCHANGED <<slot, turn, got>>
            /\ At(t, IF in[t] = "swap" THEN "close" ELSE "set_close")
       ELSE /\ UNCHANGED value /\ slot' = None /\ turn' = None
            /\ IF in[t] = "swap" THEN Answers(t, value.of) ELSE At(t, "refused") /\ UNCHANGED got
    /\ UNCHANGED <<closed, calls>>

\* publish_boxed: the exchange decides, and the loser's box is dropped.
publish_boxed(t) ==
    /\ in[t] = "box"
    /\ IF initialized THEN Answers(t, resolve) /\ UNCHANGED value
                      ELSE value' = [place |-> "box", of |-> t] /\ At(t, "close") /\ UNCHANGED got
    /\ UNCHANGED <<slot, turn, closed, calls>>

\* Whoever published closes the turn: its permit is forgotten, and everyone
\* that waits for it finds the value.
publish_closes(t) ==
    /\ in[t] \in {"close", "set_close"} /\ closed' = TRUE
    /\ turn' = (IF turn = t THEN None ELSE turn)
    /\ IF in[t] = "close" THEN Answers(t, resolve) ELSE At(t, "ok") /\ UNCHANGED got
    /\ UNCHANGED <<value, slot, calls>>

set_ok(t) == in[t] = "ok" /\ At(t, "idle") /\ UNCHANGED <<value, slot, turn, closed, got, calls>>

\* The steps of a call of set up to its answer
SetStep(t) ==
    \/ set_looks(t) \/ set_takes(t) \/ publish_writes(t) \/ publish_inline(t)
    \/ publish_closes(t)

Next ==
    \E t \in Tasks:
        \/ set(t) \/ get_or_init_racy(t) \/ get_or_try_init(t)
        \/ SetStep(t) \/ set_refused(t) \/ set_ok(t)
        \/ racy_looks(t) \/ publish_boxed(t)
        \/ init_looks(t) \/ init_waits(t) \/ init_looks_again(t) \/ init_closed(t)
        \/ init_ends(t) \/ init_dropped(t)

Spec == Init /\ [][Next]_cvars

(***************************************************************************)
(* Every reference the cell answered reads the one value published, as     *)
(* long as the cell lives: a slow initializer that lost to a racing        *)
(* builder writes the slot without harm, and no second value is published  *)
(* over the first (publish_inline and publish_boxed).                      *)
(***************************************************************************)
OneValue ==
    /\ value.place = "slot" => slot = value.of
    /\ \A t \in Tasks: got[t] # None => got[t] = value.of

(***************************************************************************)
(* A published value leaves nobody waiting for the turn: once its          *)
(* publisher's call is over the turn is closed, even while an initializer  *)
(* that lost still runs, and a closed turn is never over an empty cell.    *)
(***************************************************************************)
ClosedWithValue ==
    /\ closed => initialized
    /\ initialized /\ (\A t \in Tasks: in[t] \notin {"close", "set_close"}) => closed

\* A cell's one value is read by whoever finds it, and leaves nobody waiting.
ValueKept == OneValue /\ ClosedWithValue

-----------------------------------------------------------------------------
(* Proofs.  A cell keeps its one value because the turn that writes its    *)
(* slot is one call's until it is closed, for any number of tasks.         *)

\* The places of a call that holds the turn and has not published.
Turns == {"set_write", "set_swap", "again", "running", "write", "swap"}
Closes == {"close", "set_close"}

CellTypeOK ==
    /\ value \in [place : {"null", "slot", "box"}, of : Tasks \cup {None}]
    /\ value.place = "null" <=> value.of = None
    /\ in \in [Tasks -> Turns \cup Closes \cup
               {"idle", "set", "set_turn", "refused", "racy", "box", "init", "wait", "closed", "ok"}]
    /\ got \in [Tasks -> Tasks \cup {None}]
    /\ closed \in BOOLEAN

\* One call at a time has the turn, so one at a time writes the slot.
TurnIsHeld ==
    \A t \in Tasks : /\ in[t] \in Turns => turn = t
                     /\ in[t] \in {"swap", "set_swap"} => slot = t

\* A value published from the slot was published by the turn's holder, who keeps
\* the turn until it is closed: nobody writes the slot after it.
SlotIsKept ==
    value.place = "slot" =>
        /\ slot = value.of
        /\ \A t \in Tasks : in[t] \notin Turns
        /\ closed \/ (turn = value.of /\ in[turn] \in Closes)

\* A call answers the published value.
Answered == \A t \in Tasks : got[t] # None => got[t] = value.of

\* Whoever published closes the turn, over a cell that has its value.
ClosedAfter ==
    /\ closed => initialized
    /\ \A t \in Tasks : in[t] \in Closes => initialized
    /\ initialized => closed \/ \E t \in Tasks : in[t] \in Closes

IInv == CellTypeOK /\ TurnIsHeld /\ SlotIsKept /\ Answered /\ ClosedAfter

\* An empty cell, with nobody calling.
LEMMA InitIInv == Init => IInv
<1> SUFFICES ASSUME Init PROVE IInv
  OBVIOUS
<1>1. /\ value.place = "null" /\ value.of = None
      /\ value \in [place : {"null", "slot", "box"}, of : Tasks \cup {None}]
  BY DEF Init, Nowhere
<1>2. \A t \in Tasks : in[t] = "idle" /\ got[t] = None
  BY DEF Init
<1>3. CellTypeOK
  BY <1>1 DEF Init, CellTypeOK
<1> QED BY <1>1, <1>2, <1>3 DEF Init, IInv, TurnIsHeld, SlotIsKept, Answered, ClosedAfter,
       initialized, Turns, Closes

\* A published value is what a reference reads.
LEMMA ResolveIsValue == ASSUME IInv PROVE initialized => resolve = value.of /\ value.of \in Tasks
BY DEF IInv, CellTypeOK, SlotIsKept, initialized, resolve

\* A call that begins, looks, or ends with no answer.
LEMMA CallStep ==
  ASSUME IInv, NEW t \in Tasks,
         \/ set(t) \/ get_or_init_racy(t) \/ get_or_try_init(t)
         \/ set_looks(t) \/ set_refused(t) \/ set_ok(t) \/ init_dropped(t)
  PROVE  IInv'
BY NoneIsNoTask DEF set, get_or_init_racy, get_or_try_init, set_looks, set_refused, set_ok, init_dropped,
   Call, At, IInv, CellTypeOK, TurnIsHeld, SlotIsKept, Answered, ClosedAfter, initialized, Turns, Closes

\* A call that takes the turn, or gives it up unused.
LEMMA TurnStep ==
  ASSUME IInv, NEW t \in Tasks, set_takes(t) \/ init_waits(t) \/ init_ends(t)
  PROVE  IInv'
BY NoneIsNoTask DEF set_takes, init_waits, init_ends,
   At, IInv, CellTypeOK, TurnIsHeld, SlotIsKept, Answered, ClosedAfter, initialized, Turns, Closes

\* A call that answers the value it found.
LEMMA AnswerStep ==
  ASSUME IInv, NEW t \in Tasks, racy_looks(t) \/ init_looks(t) \/ init_looks_again(t) \/ init_closed(t)
  PROVE  IInv'
BY NoneIsNoTask, ResolveIsValue DEF racy_looks, init_looks, init_looks_again, init_closed, Answers,
   At, IInv, CellTypeOK, TurnIsHeld, SlotIsKept, Answered, ClosedAfter, initialized, Turns, Closes

\* A call that publishes, or finds that it lost.
LEMMA PublishStep ==
  ASSUME IInv, NEW t \in Tasks,
         publish_writes(t) \/ publish_inline(t) \/ publish_boxed(t) \/ publish_closes(t)
  PROVE  IInv'
<1> USE NoneIsNoTask, ResolveIsValue
    DEF Answers, At, IInv, CellTypeOK, TurnIsHeld, SlotIsKept, Answered, ClosedAfter, initialized, Turns, Closes
<1>1. CASE publish_writes(t) BY <1>1 DEF publish_writes
<1>2. CASE publish_inline(t)
  <2>1. in[t] \in Turns /\ turn = t /\ in[t] \in {"swap", "set_swap"}
    BY <1>2 DEF publish_inline
  <2>2. CASE ~initialized
    <3>1. /\ value' = [place |-> "slot", of |-> t] /\ UNCHANGED <<slot, turn, got, closed>>
          /\ in' = [in EXCEPT ![t] = IF in[t] = "swap" THEN "close" ELSE "set_close"]
      BY <1>2, <2>2 DEF publish_inline
    <3>2. value'.place = "slot" /\ value'.of = t
      BY <3>1
    <3>3. slot = t
      BY <2>1
    <3> QED BY <2>1, <2>2, <3>1, <3>2, <3>3
  <2>3. CASE initialized
    BY <1>2, <2>1, <2>3 DEF publish_inline
  <2> QED BY <2>2, <2>3
<1>3. CASE publish_boxed(t)  BY <1>3 DEF publish_boxed
<1>4. CASE publish_closes(t) BY <1>4 DEF publish_closes
<1> QED BY <1>1, <1>2, <1>3, <1>4

\* Who has the cell's one permit, who writes its slot and what each call answered or
\* will (sync/once_cell.rs), in every state.
THEOREM OnceInvariant == Spec => []IInv
<1>1. IInv /\ [Next]_cvars => IInv'
  <2> SUFFICES ASSUME IInv, [Next]_cvars PROVE IInv'
    OBVIOUS
  <2>1. CASE UNCHANGED cvars
    BY <2>1 DEF cvars, IInv, CellTypeOK, TurnIsHeld, SlotIsKept, Answered, ClosedAfter, initialized
  <2> QED BY <2>1, CallStep, TurnStep, AnswerStep, PublishStep DEF Next, SetStep
<1> QED BY <1>1, InitIInv, PTL DEF Spec

\* A cell gets one value, which every call that answers one answers, and its
\* semaphore is closed once the value is there (OnceCell::set, get_or_init and
\* publish of sync/once_cell.rs), for any number of tasks.
THEOREM OneValueKept == Spec => []ValueKept
<1>1. IInv => ValueKept
  BY DEF IInv, SlotIsKept, Answered, ClosedAfter, ValueKept, OneValue, ClosedWithValue, Closes
<1> QED BY <1>1, OnceInvariant, PTL
=============================================================================
