------------------------------- MODULE Channel -------------------------------
(***************************************************************************)
(* What a channel (src/sync/mpsc) promises: every value a sender sent is   *)
(* received once, in the order its sender sent it, and the end is said     *)
(* only when nothing is left to receive and nothing will be sent any more. *)
(* A receiver that is dropped discards what it did not receive.            *)
(***************************************************************************)
EXTENDS Naturals, Sequences

CONSTANTS Tasks,   \* the senders
          Values   \* what one of them may send

VARIABLES
    queued,   \* of a sender: its values sent and not received, oldest first
    gone,     \* whether the receiver is dropped
    ended     \* whether the receiver was told that the channel ended

Init == queued = [t \in Tasks |-> <<>>] /\ gone = FALSE /\ ended = FALSE

Send(t) ==
    /\ ~ended /\ \E v \in Values: queued' = [queued EXCEPT ![t] = Append(@, v)]
    /\ UNCHANGED <<gone, ended>>

Receive(t) ==
    /\ queued[t] # <<>> /\ queued' = [queued EXCEPT ![t] = Tail(@)]
    /\ UNCHANGED <<gone, ended>>

End ==
    /\ ~gone /\ \A t \in Tasks: queued[t] = <<>>
    /\ ended' = TRUE /\ UNCHANGED <<queued, gone>>

Drop == gone' = TRUE /\ UNCHANGED <<queued, ended>>

Next == End \/ Drop \/ \E t \in Tasks: Send(t) \/ Receive(t)

vars == <<queued, gone, ended>>

Spec == Init /\ [][Next]_vars
==============================================================================
