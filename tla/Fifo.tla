-------------------------------- MODULE Fifo --------------------------------
(***************************************************************************)
(* What an inbox (rt/inbox.rs) promises the shard that takes from it: the  *)
(* items come out in the order of their pushes, each once; `Empty` is said *)
(* of an empty queue only, and `Busy` only of one that holds something.    *)
(***************************************************************************)
EXTENDS Naturals, Sequences

CONSTANTS
    Items,      \* what the queue holds: runnables, or a join set's members
    Empty, Busy \* the answers of a pop that takes nothing

VARIABLES
    q,          \* the items pushed and not taken, the oldest first
    answer      \* what the last pop answered

Init == q = <<>> /\ answer = Empty

\* An item is in the queue at most once.
Push(i) ==
    /\ \A k \in 1..Len(q) : q[k] # i
    /\ q' = Append(q, i)
    /\ UNCHANGED answer

Pop ==
    \/ q # <<>> /\ answer' = Head(q) /\ q' = Tail(q)
    \/ q # <<>> /\ answer' = Busy /\ UNCHANGED q
    \/ q = <<>> /\ answer' = Empty /\ UNCHANGED q

Next == Pop \/ \E i \in Items : Push(i)

vars == <<q, answer>>

Spec == Init /\ [][Next]_vars
=============================================================================
