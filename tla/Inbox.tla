-------------------------------- MODULE Inbox -------------------------------
(***************************************************************************)
(* A shard's inbox (rt/inbox.rs) at the grain of its memory accesses: a    *)
(* queue linked through its items, pushed to by any thread, taken from by  *)
(* the one thread that holds the taker's role.                             *)
(*                                                                         *)
(* An item is in the queue at most once, so the push of an item is named   *)
(* by the item: where[i] says how far it got.                              *)
(***************************************************************************)
EXTENDS Naturals, Sequences

CONSTANTS
    Items,      \* the items, each with one Link
    Stub,       \* the queue's own node
    Null,       \* the null pointer
    Empty, Busy \* the answers of a pop that takes nothing

ASSUME NodesDiffer ==
    /\ Stub \notin Items /\ Null \notin Items \cup {Stub}
    /\ Empty \notin Items /\ Busy \notin Items /\ Empty # Busy

Nodes == Items \cup {Stub}

VARIABLES
    next,       \* Link::next of every node
    head,       \* the pushers' end
    tail,       \* the taker's end
    where,      \* out of the queue, swapped in as its head, or linked
    prev,       \* the old head a push, or the taker's push of the stub, links
    popping,    \* where the taker is in `pop`
    cur,        \* the node the pop is at
    q,          \* history: the items swapped in and not handed out, in order
    answer      \* what the last pop answered

inboxvars == <<next, head, tail, where, prev, popping, cur, q, answer>>
mem  == <<next, head, tail>>

InboxInit ==
    /\ next = [n \in Nodes |-> Null]
    /\ head = Stub /\ tail = Stub
    /\ where = [i \in Items |-> "out"]
    /\ prev = [n \in Nodes |-> Null]
    /\ popping = "idle" /\ cur = Null
    /\ q = <<>> /\ answer = Empty

-----------------------------------------------------------------------------
(* push_link, for an item.                                                 *)

\* The item's link is cleared (nobody else reaches it yet) and it becomes the
\* head.
push_swap(i) ==
    /\ where[i] = "out"
    /\ next' = [next EXCEPT ![i] = Null]
    /\ head' = i /\ prev' = [prev EXCEPT ![i] = head]
    /\ where' = [where EXCEPT ![i] = "swapped"]
    /\ q' = Append(q, i)
    /\ UNCHANGED <<tail, popping, cur, answer>>

push_link(i) ==
    /\ where[i] = "swapped"
    /\ next' = [next EXCEPT ![prev[i]] = i]
    /\ where' = [where EXCEPT ![i] = "linked"]
    /\ prev' = [prev EXCEPT ![i] = Null]
    /\ UNCHANGED <<head, tail, popping, cur, q, answer>>

-----------------------------------------------------------------------------
(* pop, by the holder of the taker's role.                                 *)

Ends(a) == popping' = "idle" /\ cur' = Null /\ answer' = a

\* The taker's end moves on to n and item i, which it was at, is handed out.
HandOut(i, n) ==
    /\ tail' = n
    /\ where' = [where EXCEPT ![i] = "out"]
    /\ q' = Tail(q)
    /\ Ends(i)

\* The first load of the link at the taker's end, and past the stub.
pop_first ==
    /\ popping = "idle"
    /\ LET n == next[tail]
       IN  \/ /\ tail = Stub /\ n = Null
              /\ popping' = "empty" /\ cur' = tail
              /\ UNCHANGED <<tail, where, q, answer>>
           \/ /\ tail = Stub /\ n # Null
              /\ tail' = n /\ popping' = "second" /\ cur' = n
              /\ UNCHANGED <<where, q, answer>>
           \/ /\ tail # Stub /\ n # Null
              /\ HandOut(tail, n)
           \/ /\ tail # Stub /\ n = Null
              /\ popping' = "last" /\ cur' = tail
              /\ UNCHANGED <<tail, where, q, answer>>
    /\ UNCHANGED <<next, head, prev>>

\* Mutant: the queue is said to be empty without a look at its head.
EmptyWithoutLook ==
    /\ popping = "empty"
    /\ Ends(Empty)
    /\ UNCHANGED <<mem, where, prev, q>>

\* is_empty: the look at the head.
pop_empty ==
    /\ popping = "empty"
    /\ Ends(IF head = Stub THEN Empty ELSE Busy)
    /\ UNCHANGED <<mem, where, prev, q>>

pop_second ==
    /\ popping = "second"
    /\ \/ next[cur] # Null /\ HandOut(cur, next[cur])
       \/ /\ next[cur] = Null
          /\ popping' = "last"
          /\ UNCHANGED <<tail, where, cur, q, answer>>
    /\ UNCHANGED <<next, head, prev>>

\* An item that is not the head waits for its successor's link.
pop_last ==
    /\ popping = "last"
    /\ \/ head # cur /\ Ends(Busy)
       \/ head = cur /\ popping' = "clear" /\ UNCHANGED <<cur, answer>>
    /\ UNCHANGED <<mem, where, prev, q>>

\* push_link, for the stub: behind the last item, in its three steps.
pop_clear ==
    /\ popping = "clear"
    /\ next' = [next EXCEPT ![Stub] = Null]
    /\ popping' = "swap"
    /\ UNCHANGED <<head, tail, where, prev, cur, q, answer>>

pop_swap ==
    /\ popping = "swap"
    /\ head' = Stub /\ prev' = [prev EXCEPT ![Stub] = head]
    /\ popping' = "link"
    /\ UNCHANGED <<next, tail, where, cur, q, answer>>

pop_link ==
    /\ popping = "link"
    /\ next' = [next EXCEPT ![prev[Stub]] = Stub]
    /\ prev' = [prev EXCEPT ![Stub] = Null]
    /\ popping' = "final"
    /\ UNCHANGED <<head, tail, where, cur, q, answer>>

\* A push that swapped in before the stub has the last item still to link.
pop_final ==
    /\ popping = "final"
    /\ \/ next[cur] # Null /\ HandOut(cur, next[cur])
       \/ next[cur] = Null /\ Ends(Busy) /\ UNCHANGED <<tail, where, q>>
    /\ UNCHANGED <<next, head, prev>>

PopGoesOn == pop_empty \/ pop_second \/ pop_last \/ pop_clear \/ pop_swap
             \/ pop_link \/ pop_final

InboxNext == \/ \E i \in Items : push_swap(i) \/ push_link(i)
             \/ pop_first \/ PopGoesOn

InboxSpec == InboxInit /\ [][InboxNext]_inboxvars

\* Mutant: the look of any thread, at the head alone.
IsEmptyOnly == head = Stub

\* Both ends on the stub.
is_drained == tail = Stub /\ head = Stub

\* A thread that began a push or a pop ends it, and a taker whose queue is not
\* drained pops again (a park looks at `is_drained`, a drain waits for Empty).
InboxFair == /\ InboxSpec
             /\ \A i \in Items : WF_inboxvars(push_link(i))
             /\ WF_inboxvars(PopGoesOn) /\ WF_inboxvars(~is_drained /\ pop_first)

-----------------------------------------------------------------------------
(* Properties.                                                             *)

\* The variables have their types.
InboxTypeOK ==
    /\ next \in [Nodes -> Nodes \cup {Null}]
    /\ head \in Nodes /\ tail \in Nodes /\ cur \in Nodes \cup {Null}
    /\ where \in [Items -> {"out", "swapped", "linked"}]
    /\ prev \in [Nodes -> Nodes \cup {Null}]
    /\ popping \in {"idle", "empty", "second", "last", "clear", "swap", "link", "final"}
    /\ q \in Seq(Items) /\ answer \in Items \cup {Empty, Busy}

\* A taker between two pops tells from both ends whether anything is left: the
\* last look of a park misses no push, however far it got.
DrainedIsEmpty == popping = "idle" => (is_drained <=> q = <<>>)

\* The queue is a first-in first-out queue.
Queue == INSTANCE Fifo WITH q <- q, answer <- answer
IsFifo == Queue!Spec
QueueStep == [Queue!Next]_(Queue!vars)

\* Every item pushed is handed out in the end.
Inside(i) == where[i] # "out"
HandedOut == \A i \in Items : Inside(i) ~> ~Inside(i)
=============================================================================
