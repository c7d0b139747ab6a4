------------------------------ MODULE Deadlines ------------------------------
(***************************************************************************)
(* What a shard's timers promise: a set of armed timers and a time.  A     *)
(* timer fires in the step that moves the time to its deadline or past it, *)
(* and in no other; one removed never fires.                               *)
(***************************************************************************)
EXTENDS Naturals

CONSTANT Key
VARIABLES
    armed,  \* the deadline of each timer armed
    now,    \* the time every deadline up to which was seen to
    fired   \* the timers the last step fired

vars == <<armed, now, fired>>

Restricted(S) == [k \in S |-> armed[k]]

Init == armed = [k \in {} |-> 0] /\ now = 0 /\ fired = {}

Arm(k, when) ==
    /\ k \notin DOMAIN armed /\ when > now
    /\ armed' = [j \in DOMAIN armed \cup {k} |-> IF j = k THEN when ELSE armed[j]]
    /\ fired' = {} /\ UNCHANGED now

Remove(k) ==
    /\ k \in DOMAIN armed /\ armed' = Restricted(DOMAIN armed \ {k})
    /\ fired' = {} /\ UNCHANGED now

Advance ==
    /\ now' \in Nat /\ now' >= now
    /\ fired' = {k \in DOMAIN armed : armed[k] <= now'}
    /\ armed' = Restricted(DOMAIN armed \ fired')

Quiet == fired' = {} /\ UNCHANGED <<armed, now>>

Next ==
    \/ \E k \in Key : Remove(k)
    \/ \E k \in Key \ DOMAIN armed : k \in DOMAIN armed' /\ Arm(k, armed'[k])
    \/ Advance \/ Quiet

Spec == Init /\ [][Next]_vars
=============================================================================
