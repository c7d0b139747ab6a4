------------------------------ MODULE WaitQueue ------------------------------
(***************************************************************************)
(* The wait queue of src/sync/queue.rs as the primitives built on it see   *)
(* it: a state word, the waiters, and the drain role.  A change that may   *)
(* let a waiter go on claims the role or marks the word DIRTY for its      *)
(* holder; the holder takes the arrivals, runs the primitive's `pass`, and *)
(* ends its turn only with a word nobody marked meanwhile.                 *)
(*                                                                         *)
(* Module Contend takes the queue apart to single accesses.  Here a node   *)
(* joins or leaves the queue in one step with its mark on the word, and a  *)
(* grant wakes the task it grants.                                         *)
(***************************************************************************)
EXTENDS Integers, Sequences, FiniteSets, FiniteSetsExt, Functions

CONSTANTS Tasks, None

VARIABLES
    flags,     \* the queue's bits and the primitive's, of the state word
    arrivals,  \* the nodes pushed and not taken by a pass
    list,      \* the waiting list of the drain role's holder
    node,      \* of a task: its node's phase, payload and armed waker
    woken,     \* the tasks woken and not polled since
    drain      \* the drain role: who holds it and where it is

wvars == <<flags, arrivals, list, node, woken, drain>>

NoNode == [phase |-> "none", payload |-> 0, armed |-> FALSE]
NoDrain == [by |-> None, at |-> "none"]

InitQueue ==
    /\ flags = {} /\ arrivals = <<>> /\ list = <<>> /\ woken = {} /\ drain = NoDrain
    /\ node = [t \in Tasks |-> NoNode]

\* A thread that drains does nothing else until its turn is over.
Free(t) == drain.by # t

Granted(t) == node[t].phase = "granted"
Waiting(t) == node[t].phase = "waiting"

\* Policy::transition with Step::Drain: t claims the role, or its holder is
\* told to pass again.
StepDrain(t, next) ==
    IF "DRAINING" \in flags
    THEN flags' = next \cup {"DIRTY"} /\ UNCHANGED drain
    ELSE flags' = next \cup {"DRAINING"} /\ drain' = [by |-> t, at |-> "begin"]

\* Policy::transition with Step::Wake: the request alone is left.
StepWake(t, next) ==
    IF "DRAINING" \in flags
    THEN flags' = next /\ UNCHANGED drain
    ELSE flags' = next \cup {"DRAINING"} /\ drain' = [by |-> t, at |-> "begin"]

\* Policy::enqueue: the node is pushed and published.
enqueue(t, payload) ==
    /\ node' = [node EXCEPT ![t] = [phase |-> "waiting", payload |-> payload, armed |-> FALSE]]
    /\ arrivals' = Append(arrivals, t)
    /\ StepDrain(t, flags \cup {"QUEUED"})
    /\ UNCHANGED <<list, woken>>

\* The pending end of Wait::poll: the waker is armed, unless a grant is there.
arm(t) ==
    /\ node' = [node EXCEPT ![t].armed = TRUE]
    /\ UNCHANGED <<flags, arrivals, list, woken, drain>>

\* and its ready end: the node is done with.
consume(t) ==
    /\ node' = [node EXCEPT ![t] = NoNode] /\ woken' = woken \ {t}
    /\ UNCHANGED <<flags, arrivals, list, drain>>

\* Policy::withdrawn: a node that was not granted leaves, and a pass looks at
\* what it held up.
withdrawn(t) ==
    /\ node' = [node EXCEPT ![t] = NoNode] /\ woken' = woken \ {t}
    /\ arrivals' = SelectSeq(arrivals, LAMBDA u: u # t)
    /\ list' = SelectSeq(list, LAMBDA u: u # t)
    /\ StepDrain(t, flags)

\* WakeList::grant of the tasks of the function's domain, each with its
\* payload: each armed one wakes.
GrantingEach(payloads) ==
    /\ node' = [t \in Tasks |-> IF t \in DOMAIN payloads
                    THEN [phase |-> "granted", payload |-> payloads[t], armed |-> FALSE] ELSE node[t]]
    /\ woken' = woken \cup {t \in DOMAIN payloads: node[t].armed}

Granting(G, payload) == GrantingEach([t \in G |-> payload])

\* Policy::drain: the turn takes the requests and the arrivals so far,
drain_begin ==
    /\ drain.at = "begin" /\ drain' = [drain EXCEPT !.at = "pass"]
    /\ flags' = flags \ {"DIRTY", "WAKE_FRONT"}
    /\ list' = list \o arrivals /\ arrivals' = <<>>
    /\ UNCHANGED <<node, woken>>

\* (a pass that treats the arrivals apart has them in `fresh`)
drain_takes(fresh) ==
    /\ drain.at = "begin" /\ drain' = [drain EXCEPT !.at = "pass"]
    /\ flags' = flags \ {"DIRTY", "WAKE_FRONT"}
    /\ fresh' = arrivals /\ arrivals' = <<>>
    /\ UNCHANGED <<list, node, woken>>

\* and ends, with the bits of `clear` gone, unless it was asked again; a wake
\* asked for alone is not for a queue found empty.
drain_end(clear) ==
    /\ drain.at = "end"
    /\ IF flags \cap ({"DIRTY"} \cup (IF "QUEUED" \in clear THEN {} ELSE {"WAKE_FRONT"})) # {}
       THEN drain' = [drain EXCEPT !.at = "begin"] /\ UNCHANGED flags
       ELSE /\ drain' = NoDrain
            /\ flags' = flags \ (clear \cup {"DRAINING"}
                                 \cup (IF "QUEUED" \in clear THEN {"WAKE_FRONT"} ELSE {}))
    /\ UNCHANGED <<arrivals, list, node, woken>>

Queued == "QUEUED" \in flags

\* Whether a release must run a pass.
wants_drain_in(bits) == "QUEUED" \in bits /\ ("NUDGE_OUT" \notin bits \/ "HANDOFF" \in bits)
wants_drain == wants_drain_in(flags)

==============================================================================
