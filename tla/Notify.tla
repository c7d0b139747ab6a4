------------------------------ MODULE Notify ------------------------------
(***************************************************************************)
(* The notification of src/sync/notify.rs: notify_one and notify_last wake *)
(* one waiter or leave a permit, notify_waiters moves the generation on    *)
(* and wakes everyone created before it.  A count of owed wakes carries    *)
(* the generation it was made at, so that one made before a broadcast goes *)
(* to a waiter of before it.                                               *)
(***************************************************************************)
EXTENDS WaitQueue, Integers, Sequences, FiniteSets, SequencesExt

CONSTANTS FULL,      \* the largest count an owed word holds
          TAGS,      \* how many generations a tag tells apart
          MaxCalls,  \* bound: calls that notify, in all
          Kinds      \* those made: "first", "last", "all"

VARIABLES
    generation,
    owed,      \* owed_first and owed_last: tag, current and older counts
    at,        \* of a task: where its Notified is
    of,        \* of a task: the generation its Notified was created at
    call,      \* of a task: the notifying call it is in
    turn,      \* what the pass read
    fresh,     \* the arrivals it took
    calls,
    asked, done  \* whether a notify_one or notify_last was called, and completed a future

nvars == <<wvars, generation, owed, at, of, call, turn, fresh, calls, asked, done>>
lvars == <<owed, turn, fresh>>

NoTaken == [tag |-> 0, cur |-> 0, old |-> 0]
NoTurn == [generation |-> 0, first |-> NoTaken, last |-> NoTaken, left |-> FALSE]
NoCall == [at |-> "none", kind |-> "first", generation |-> 0]
BY_FIRST == -1
BY_LAST == -2

Init ==
    /\ InitQueue /\ generation = 0 /\ owed = [k \in {"first", "last"} |-> NoTaken]
    /\ at = [t \in Tasks |-> "none"] /\ of = [t \in Tasks |-> 0]
    /\ call = [t \in Tasks |-> NoCall] /\ turn = NoTurn /\ fresh = <<>> /\ calls = 0 /\ asked = 0 /\ done = 0

\* Taken::decode and encode keep a tag of the generation; newer compares two.
newer(g, t) == LET d == (g - t) % TAGS IN d # 0 /\ d < TAGS \div 2
saturating_add(a, b) == Min({a + b, FULL})

\* Owed::owe
owe(word, generation_) ==
    LET g == generation_ % TAGS IN
    CASE word.tag = g -> [word EXCEPT !.cur = saturating_add(@, 1)]
      [] word.tag # g /\ newer(g, word.tag) ->
            [tag |-> g, cur |-> 1, old |-> saturating_add(word.old, word.cur)]
      [] OTHER -> [word EXCEPT !.old = saturating_add(@, 1)]

\* Owed::take leaves the tag.
take(word) == [word EXCEPT !.cur = 0, !.old = 0]

\* Owed::give_back
give_back(word, t) ==
    IF word.tag = t.tag
    THEN [word EXCEPT !.cur = saturating_add(@, t.cur), !.old = saturating_add(@, t.old)]
    ELSE [word EXCEPT !.old = saturating_add(saturating_add(@, t.cur), t.old)]

Go(t, where) == at' = [at EXCEPT ![t] = where]
Calls(t, where) == call' = [call EXCEPT ![t].at = where]
Idle(t) == Free(t) /\ call[t] = NoCall

-----------------------------------------------------------------------------
\* notify_one, notify_last and notify_waiters
Begin(t, kind, where) == call' = [call EXCEPT ![t] = [NoCall EXCEPT !.at = where, !.kind = kind]]

notify(t, kind) ==
    /\ Idle(t) /\ at[t] \notin {"permit", "again", "queue"}
    /\ calls < MaxCalls /\ calls' = calls + 1
    /\ Begin(t, kind, IF kind = "all" THEN "all" ELSE "permit")
    /\ asked' = IF kind = "all" THEN asked ELSE 1
    /\ UNCHANGED <<wvars, generation, lvars, at, of, done>>

\* notify_with: with nobody queued a permit is left,
notify_permit(t) ==
    /\ call[t].at = "permit"
    /\ IF Queued THEN Calls(t, "read") /\ UNCHANGED flags
                      ELSE call' = [call EXCEPT ![t] = NoCall] /\ flags' = flags \cup {"PERMIT"}
    /\ UNCHANGED <<arrivals, list, node, woken, drain, generation, lvars, at, of, calls, asked, done>>

\* else a wake is owed, of the generation read right before,
notify_reads(t) ==
    /\ call[t].at = "read"
    /\ call' = [call EXCEPT ![t].at = "owe", ![t].generation = generation]
    /\ UNCHANGED <<wvars, generation, lvars, at, of, calls, asked, done>>

notify_owes(t) ==
    /\ call[t].at = "owe" /\ Calls(t, "drain")
    /\ owed' = [owed EXCEPT ![call[t].kind] = owe(@, call[t].generation)]
    /\ UNCHANGED <<wvars, generation, turn, fresh, at, of, calls, asked, done>>

\* and a pass asked for.
notify_drains(t) ==
    /\ call[t].at = "drain" /\ call' = [call EXCEPT ![t] = NoCall]
    /\ StepDrain(t, flags)
    /\ UNCHANGED <<arrivals, list, node, woken, generation, lvars, at, of, calls, asked, done>>

notify_waiters(t) ==
    /\ call[t].at = "all" /\ Calls(t, "all_drain") /\ generation' = generation + 1
    /\ UNCHANGED <<wvars, lvars, at, of, calls, asked, done>>

waiters_drains(t) ==
    /\ call[t].at = "all_drain" /\ call' = [call EXCEPT ![t] = NoCall]
    /\ IF Queued THEN StepDrain(t, flags) ELSE UNCHANGED <<flags, drain>>
    /\ UNCHANGED <<arrivals, list, node, woken, generation, lvars, at, of, calls, asked, done>>

-----------------------------------------------------------------------------
\* notified: the future is created, with the generation of that moment.
notified(t) ==
    /\ Idle(t) /\ at[t] = "none" /\ Go(t, "new") /\ of' = [of EXCEPT ![t] = generation]
    /\ UNCHANGED <<wvars, generation, lvars, call, calls, asked, done>>

\* Core::drive: a broadcast since the creation ends it,
drive(t) ==
    /\ Idle(t) /\ at[t] = "new" /\ Go(t, IF generation # of[t] THEN "done" ELSE "permit")
    /\ UNCHANGED <<wvars, generation, lvars, of, call, calls, asked, done>>

\* or a permit that nobody queued is ahead of,
take_permit(t) ==
    /\ at[t] = "permit"
    /\ IF "PERMIT" \in flags /\ ~Queued
       THEN flags' = flags \ {"PERMIT"} /\ Go(t, "again") ELSE UNCHANGED flags /\ Go(t, "queue")
    /\ UNCHANGED <<arrivals, list, node, woken, drain, generation, lvars, of, call, calls, asked, done>>

\* which goes on to another if a broadcast came meanwhile,
drive_again(t) ==
    /\ at[t] = "again" /\ Go(t, "done")
    /\ IF generation # of[t] THEN Begin(t, "first", "permit") /\ UNCHANGED done
                             ELSE UNCHANGED call /\ done' = 1
    /\ UNCHANGED <<wvars, generation, lvars, of, calls, asked>>

\* or else it queues with its generation.
drive_queues(t) ==
    /\ at[t] = "queue" /\ enqueue(t, of[t]) /\ Go(t, "wait")
    /\ UNCHANGED <<generation, lvars, of, call, calls, asked, done>>

\* The poll of a queued future; enable looks without arming a waker.
poll(t) ==
    /\ at[t] = "wait" /\ Idle(t)
    /\ IF Granted(t)
       THEN consume(t) /\ Go(t, "done") /\ done' = (IF node[t].payload < 0 THEN 1 ELSE done)
       ELSE arm(t) /\ UNCHANGED <<at, done>>
    /\ UNCHANGED <<generation, lvars, of, call, calls, asked>>

\* Core::cancel: a grant its future did not see goes on to another.
cancel(t) ==
    /\ at[t] \in {"new", "wait", "done"} /\ Idle(t) /\ Go(t, "none")
    /\ CASE Granted(t) -> /\ consume(t) /\ UNCHANGED fresh
                          /\ IF node[t].payload < 0
                             THEN Begin(t, IF node[t].payload = BY_FIRST THEN "first" ELSE "last", "permit")
                             ELSE UNCHANGED call
         [] Waiting(t) -> withdrawn(t) /\ fresh' = SelectSeq(fresh, LAMBDA u: u # t) /\ UNCHANGED call
         [] OTHER -> UNCHANGED <<wvars, fresh, call>>
    /\ UNCHANGED <<generation, owed, turn, of, calls, asked, done>>

-----------------------------------------------------------------------------
\* pass: the generation is read after the arrivals were taken and before the
\* owed words.
pass_reads ==
    /\ drain.at = "pass" /\ drain' = [drain EXCEPT !.at = "first"]
    /\ turn' = [turn EXCEPT !.generation = generation]
    /\ UNCHANGED <<flags, arrivals, list, node, woken, generation, owed, fresh, at, of, call, calls, asked, done>>

pass_takes(kind, next) ==
    /\ drain.at = kind /\ drain' = [drain EXCEPT !.at = next]
    /\ turn' = [turn EXCEPT ![kind] = owed[kind]] /\ owed' = [owed EXCEPT ![kind] = take(@)]
    /\ UNCHANGED <<flags, arrivals, list, node, woken, generation, fresh, at, of, call, calls, asked, done>>

\* A count taken, split by the pass's generation: those of it, those older;
\* one of a newer generation is left for the pass to come.
split(t) ==
    LET tag == turn.generation % TAGS IN
    CASE t.tag = tag -> [cur |-> t.cur, old |-> t.old]
      [] t.tag # tag /\ newer(t.tag, tag) -> [cur |-> 0, old |-> 0]
      [] OTHER -> [cur |-> 0, old |-> saturating_add(t.old, t.cur)]

given_back(kind) ==
    LET t == turn[kind] IN
    IF newer(t.tag, turn.generation % TAGS) THEN give_back(owed[kind], t) ELSE owed[kind]

Unserved(count, many) == IF count = FULL THEN FULL ELSE Max({0, count - many})
Expired(t) == node[t].payload # turn.generation

\* The waiters of an older generation are let go, the first of them by the
\* wakes owed before the broadcast; then the current counts are served from
\* either end of the list.
pass ==
    /\ drain.at = "serve" /\ drain' = [drain EXCEPT !.at = "permit"]
    /\ LET first == split(turn.first)
           last == split(turn.last)
           stay == {i \in DOMAIN list: ~Expired(list[i])}
           cut == IF stay = {} THEN Len(list) ELSE Min(stay) - 1
           over == SubSeq(list, 1, cut) \o SelectSeq(fresh, Expired)
           kept == SubSeq(list, cut + 1, Len(list)) \o SelectSeq(fresh, LAMBDA t: ~Expired(t))
           f == first.old
           l == last.old
           expire(i) == CASE f = FULL \/ i <= f -> BY_FIRST
                          [] ~(f = FULL \/ i <= f) /\ (l = FULL \/ i <= f + l) -> BY_LAST
                          [] OTHER -> turn.generation
           stored == kept # <<>> /\ "PERMIT" \in flags
           served(count) == IF count = FULL THEN Len(kept) + 1 ELSE count
           want == served(first.cur) + (IF stored THEN 1 ELSE 0)
           from == Min({want, Len(kept)})
           back == Min({served(last.cur), Len(kept) - from})
           payload(t) ==
                IF \E i \in DOMAIN over: over[i] = t
                THEN expire(CHOOSE i \in DOMAIN over: over[i] = t)
                ELSE IF \E i \in 1..from: kept[i] = t THEN BY_FIRST ELSE BY_LAST
           granted == Range(over) \cup {kept[i]: i \in 1..from}
                                  \cup {kept[i]: i \in Len(kept) - back + 1 .. Len(kept)}
           firstLeft == Unserved(f, Len(over))
       IN  /\ GrantingEach([t \in granted |-> payload(t)])
           /\ list' = SubSeq(kept, from + 1, Len(kept) - back)
           /\ flags' = IF stored THEN flags \ {"PERMIT"} ELSE flags
           /\ owed' = [k \in DOMAIN owed |-> given_back(k)]
           /\ turn' = [NoTurn EXCEPT !.left =
                \/ want > from \/ served(last.cur) > back \/ firstLeft > 0
                \/ Unserved(l, Max({0, Len(over) - (IF f = FULL THEN Len(over) ELSE f)})) > 0]
    /\ fresh' = <<>>
    /\ UNCHANGED <<arrivals, generation, at, of, call, calls, asked, done>>

\* A wake nobody was left for is stored.
pass_stores ==
    /\ drain.at = "permit" /\ drain' = [drain EXCEPT !.at = "end"]
    /\ flags' = (IF turn.left THEN flags \cup {"PERMIT"} ELSE flags) /\ turn' = NoTurn
    /\ UNCHANGED <<arrivals, list, node, woken, generation, owed, fresh, at, of, call, calls, asked, done>>

DrainStep ==
    \/ drain_takes(fresh) /\ UNCHANGED <<generation, owed, turn, at, of, call, calls, asked, done>>
    \/ pass_reads \/ pass_takes("first", "last") \/ pass_takes("last", "serve") \/ pass \/ pass_stores
    \/ /\ drain_end(IF list = <<>> THEN {"QUEUED"} ELSE {})
       /\ UNCHANGED <<generation, lvars, at, of, call, calls, asked, done>>

Next ==
    \/ \E t \in Tasks:
        \/ \E kind \in Kinds: notify(t, kind)
        \/ notify_permit(t) \/ notify_reads(t) \/ notify_owes(t) \/ notify_drains(t)
        \/ notify_waiters(t) \/ waiters_drains(t)
        \/ notified(t) \/ drive(t) \/ take_permit(t) \/ drive_again(t) \/ drive_queues(t)
        \/ poll(t) \/ cancel(t)
    \/ DrainStep

Spec == Init /\ [][Next]_nvars

Quiet == drain = NoDrain /\ \A t \in Tasks: call[t] = NoCall /\ at[t] \notin {"permit", "again", "queue"}

(***************************************************************************)
(* notify_waiters reaches every future created before it, polled or not,   *)
(* and no wake is owed beside a waiter: when no call, poll or pass is      *)
(* under way, whoever waits is of the current generation, nothing is owed, *)
(* and nothing is stored either unless a broadcast overlapped the call.    *)
(***************************************************************************)
BroadcastReaches ==
    Quiet => \A t \in Tasks: Waiting(t) =>
        /\ of[t] = generation /\ (generation = 0 => "PERMIT" \notin flags)
        /\ \A k \in DOMAIN owed: owed[k].cur = 0 /\ owed[k].old = 0

(***************************************************************************)
(* A notify_one or notify_last is not lost: once one was called and        *)
(* everything is quiet, a future completed by a notification, or the       *)
(* permit is stored, or a grant awaits its future, through every           *)
(* interleaving with broadcasts and with futures dropped after their grant.*)
(***************************************************************************)
NotificationKept ==
    Quiet /\ asked = 1 =>
        done = 1 \/ "PERMIT" \in flags \/ \E t \in Tasks: Granted(t) /\ node[t].payload < 0

------------------------------------------------------------------------------
(***************************************************************************)
(* The cancellation tokens of src/sync/cancellation.rs and cancellation/:  *)
(* a tree of nodes, each with its flag, a strong handle to its parent and  *)
(* a registry of weak handles to its children.  A cancel marks a node and  *)
(* walks down its whole subtree while others cancel, add and drop nodes.   *)
(*                                                                         *)
(* A flag is module Event's: setting it wakes its waiters.  The registry   *)
(* is a concurrent map: a walk of it yields what is in it throughout, and  *)
(* of what comes or goes meanwhile any part.                               *)
(***************************************************************************)

CONSTANTS
    Nodes,
    Root,
    Threads,
    MaxCancels  \* bound: cancel calls, in all

VARIABLES
    parent,    \* of a node, its parent
    alive,     \* the nodes that exist
    handle,    \* those some token names
    is_set,    \* those whose flag is up
    children,  \* of a node, its registry
    token_at, token_node,  \* of a thread: the step it is in, and the node that is about
    stack, found, base,
    owes,      \* of a thread: what its cancel has to reach
    cancels

token_vars == <<parent, alive, handle, is_set, children, token_at, token_node, stack, found, base, owes, cancels>>
walk == <<stack, found, base, owes>>

TokenInit ==
    /\ parent = [n \in Nodes |-> None] /\ alive = {Root} /\ handle = {Root} /\ is_set = {}
    /\ children = [n \in Nodes |-> {}] /\ cancels = 0
    /\ token_at = [t \in Threads |-> "idle"] /\ token_node = [t \in Threads |-> None]
    /\ stack = [t \in Threads |-> <<>>] /\ found = [t \in Threads |-> {}]
    /\ base = [t \in Threads |-> {}] /\ owes = [t \in Threads |-> {}]

TokenGo(t, where) == token_at' = [token_at EXCEPT ![t] = where]

\* The nodes whose child_token has returned, and those a thread keeps by a handle.
Making == {token_node[t]: t \in {u \in Threads: token_at[u] \in {"insert", "look"}}}
Under(n) == LET up[d \in Nodes] == d = n \/ (parent[d] # None /\ up[parent[d]])
            IN {d \in alive \ Making: up[d]}
Kept(n) == \/ n \in handle \/ \E d \in alive: parent[d] = n
           \/ \E t \in Threads: token_node[t] = n \/ n \in found[t] \/ n \in Range(stack[t])

-----------------------------------------------------------------------------
\* child_token: the child is made, published in its parent's registry, ...
child_token(t, n, new) ==
    /\ token_at[t] = "idle" /\ n \in handle /\ new \notin alive /\ parent[new] = None /\ new # Root
    /\ parent' = [parent EXCEPT ![new] = n] /\ alive' = alive \union {new}
    /\ token_node' = [token_node EXCEPT ![t] = new] /\ TokenGo(t, "insert")
    /\ UNCHANGED <<handle, is_set, children, walk, cancels>>

insert(t) ==
    /\ token_at[t] = "insert" /\ TokenGo(t, "look")
    /\ children' = [children EXCEPT ![parent[token_node[t]]] = @ \union {token_node[t]}]
    /\ UNCHANGED <<parent, alive, handle, is_set, token_node, walk, cancels>>

\* ... and cancelled at once if the parent was, looked at after the fence.
child_looks(t) ==
    /\ token_at[t] = "look" /\ handle' = handle \union {token_node[t]}
    /\ IF parent[token_node[t]] \in is_set THEN TokenGo(t, "set") /\ UNCHANGED token_node
       ELSE TokenGo(t, "idle") /\ token_node' = [token_node EXCEPT ![t] = None]
    /\ UNCHANGED <<parent, alive, is_set, children, walk, cancels>>

\* cancel, of a token, and of a DropGuard that was not disarmed
token_cancel(t, n) ==
    /\ token_at[t] = "idle" /\ n \in handle /\ cancels < MaxCancels /\ cancels' = cancels + 1
    /\ token_node' = [token_node EXCEPT ![t] = n] /\ TokenGo(t, "set") /\ owes' = [owes EXCEPT ![t] = Under(n)]
    /\ UNCHANGED <<parent, alive, handle, is_set, children, stack, found, base>>

cancel_sets(t) ==
    /\ token_at[t] = "set" /\ is_set' = is_set \union {token_node[t]} /\ TokenGo(t, "visit")
    /\ UNCHANGED <<parent, alive, handle, children, token_node, walk, cancels>>

\* mark_children: the registry is walked,
visit(t) ==
    /\ token_at[t] = "visit" /\ base' = [base EXCEPT ![t] = children[token_node[t]]] /\ TokenGo(t, "collect")
    /\ UNCHANGED <<parent, alive, handle, is_set, children, token_node, stack, found, owes, cancels>>

collect(t) ==
    /\ token_at[t] = "collect"
    /\ LET throughout == base[t] \cap children[token_node[t]] IN
       \E some \in SUBSET ((base[t] \union children[token_node[t]]) \ throughout):
         found' = [found EXCEPT ![t] = (throughout \union some) \cap alive]
    /\ base' = [base EXCEPT ![t] = {}] /\ TokenGo(t, "mark")
    /\ UNCHANGED <<parent, alive, handle, is_set, children, token_node, stack, owes, cancels>>

\* and each child in it marked, and pushed whether marked before or not.
mark_children(t) ==
    /\ token_at[t] = "mark" /\ found[t] # {}
    /\ LET child == CHOOSE c \in found[t]: TRUE IN
       /\ is_set' = is_set \union {child} /\ stack' = [stack EXCEPT ![t] = Append(@, child)]
       /\ found' = [found EXCEPT ![t] = @ \ {child}]
    /\ UNCHANGED <<parent, alive, handle, children, token_at, token_node, base, owes, cancels>>

cancel_pops(t) ==
    /\ token_at[t] = "mark" /\ found[t] = {}
    /\ IF stack[t] = <<>>
       THEN TokenGo(t, "returned") /\ UNCHANGED <<token_node, stack>>
       ELSE /\ TokenGo(t, "visit") /\ token_node' = [token_node EXCEPT ![t] = Last(stack[t])]
            /\ stack' = [stack EXCEPT ![t] = Front(@)]
    /\ UNCHANGED <<parent, alive, handle, is_set, children, found, base, owes, cancels>>

returns(t) ==
    /\ token_at[t] = "returned" /\ TokenGo(t, "idle") /\ token_node' = [token_node EXCEPT ![t] = None]
    /\ owes' = [owes EXCEPT ![t] = {}]
    /\ UNCHANGED <<parent, alive, handle, is_set, children, stack, found, base, cancels>>

-----------------------------------------------------------------------------
\* The last token of a node goes; the node stays, as a relay, while a child or a
\* walk holds it.
token_drops(n) ==
    /\ n \in handle /\ handle' = handle \ {n} /\ (\A t \in Threads: token_node[t] # n)
    /\ UNCHANGED <<parent, alive, is_set, children, token_at, token_node, walk, cancels>>

\* Node::drop: it leaves its parent's registry, then lets the parent go.
detach(n) ==
    /\ n \in alive /\ ~Kept(n) /\ alive' = alive \ {n}
    /\ children' = [m \in Nodes |-> IF m = parent[n] THEN children[m] \ {n} ELSE children[m]]
    /\ UNCHANGED <<parent, handle, is_set, token_at, token_node, walk, cancels>>

TokenNext ==
    \/ \E t \in Threads:
        \/ \E n, new \in Nodes: child_token(t, n, new)
        \/ \E n \in Nodes: token_cancel(t, n)
        \/ insert(t) \/ child_looks(t) \/ cancel_sets(t) \/ visit(t) \/ collect(t)
        \/ mark_children(t) \/ cancel_pops(t) \/ returns(t)
    \/ \E n \in Nodes: token_drops(n) \/ detach(n)

TokenSpec == TokenInit /\ [][TokenNext]_token_vars

(***************************************************************************)
(* When a cancel call returns, its token and every descendant that existed *)
(* when the call began are cancelled, whichever call set them first and    *)
(* whatever was dropped on the way (a relay still passes it on).           *)
(***************************************************************************)
CancelReaches ==
    \A t \in Threads: token_at[t] = "returned" => owes[t] \cap alive \subseteq is_set

(***************************************************************************)
(* A child made while its parent is cancelled does not escape: once both   *)
(* calls are over, the child of a cancelled node is cancelled; and a       *)
(* registry names only nodes that exist.                                   *)
(***************************************************************************)
ChildFollows ==
    /\ (\A t \in Threads: token_at[t] = "idle") =>
        \A n \in alive: parent[n] \in is_set => n \in is_set
    /\ \A n \in Nodes: children[n] \subseteq alive
==============================================================================
