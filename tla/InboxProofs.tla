---------------------------- MODULE InboxProofs -----------------------------
(***************************************************************************)
(* A shard's inbox is a first-in first-out queue (modules Inbox and Fifo), *)
(* for any items.                                                          *)
(*                                                                         *)
(* The items swapped in, in order, are the history q.  The nodes c from    *)
(* the taker's end to the head are q with the stub in it at most once: k   *)
(* is the stub's position, 0 when it is out.                               *)
(***************************************************************************)
EXTENDS Inbox, SequenceTheorems, FiniteSetTheorems, TLAPS

Spell(k) ==
    [j \in 1..IF k = 0 THEN Len(q) ELSE Len(q) + 1 |->
        IF k = 0 \/ j < k THEN q[j] ELSE IF j = k THEN Stub ELSE q[j - 1]]

\* A node whose link is still to be written by the push that swapped it in.
Swapped(n) == IF n = Stub THEN popping = "link" ELSE where[n] = "swapped"

\* Each node of the queue is linked from the one before it, or its push has still
\* to write that link and knows where.
Links(c) ==
    \A j \in 1..Len(c) - 1 :
        IF Swapped(c[j + 1])
        THEN next[c[j]] = Null /\ prev[c[j + 1]] = c[j]
        ELSE next[c[j]] = c[j + 1]

\* The taker pushes the stub while it is out, and links it once it is in.
StubFits(k) == (popping \in {"clear", "swap"} => k = 0) /\ (popping = "link" => k # 0)

Chain(c, k) ==
    /\ Len(c) >= 1 /\ c[1] = tail /\ c[Len(c)] = head
    /\ next[head] = Null /\ ~Swapped(tail)
    /\ Links(c) /\ StubFits(k)

Chained == \E k \in 0..Len(q) + 1 : \E c \in {Spell(k)} : Chain(c, k)

\* The taker is at the node of its end.
TakerAt ==
    /\ popping # "idle" => cur = tail
    /\ popping = "empty" => tail = Stub
    /\ popping \notin {"idle", "empty"} => tail # Stub
    /\ popping = "swap" => next[Stub] = Null

\* An item is in the queue once, while it is swapped in and not handed out.
InQueue ==
    /\ \A j, l \in 1..Len(q) : q[j] = q[l] => j = l
    /\ \A i \in Items : where[i] # "out" <=> \E j \in 1..Len(q) : q[j] = i

Linked == InboxTypeOK /\ TakerAt /\ InQueue /\ Chained

-----------------------------------------------------------------------------
(* The nodes of the queue.                                                 *)

\* They are a sequence: every position holds a node, the stub's the stub.
LEMMA SpellNodes ==
  ASSUME InboxTypeOK, NEW k \in 0..Len(q) + 1, NEW c, c = Spell(k)
  PROVE  /\ c \in Seq(Nodes) /\ Len(c) \in Nat
         /\ Len(c) = IF k = 0 THEN Len(q) ELSE Len(q) + 1
         /\ \A j \in 1..Len(c) :
               /\ c[j] = IF k = 0 \/ j < k THEN q[j] ELSE IF j = k THEN Stub ELSE q[j - 1]
               /\ c[j] \in Nodes
               /\ c[j] = Stub <=> j = k
<1> DEFINE n == IF k = 0 THEN Len(q) ELSE Len(q) + 1
<1>1. Len(q) \in Nat /\ \A m \in 1..Len(q) : q[m] \in Items
  BY DEF InboxTypeOK
<1>2. Stub \notin Items
  BY NodesDiffer
<1>3. n \in Nat
  BY <1>1
<1>4. ASSUME NEW j \in 1..n
      PROVE  /\ c[j] = IF k = 0 \/ j < k THEN q[j] ELSE IF j = k THEN Stub ELSE q[j - 1]
             /\ c[j] \in Nodes
             /\ c[j] = Stub <=> j = k
  BY <1>1, <1>2 DEF Spell, Nodes
<1>5. c \in [1..n -> Nodes]
  BY <1>4 DEF Spell
<1>6. c \in Seq(Nodes) /\ Len(c) = n
  <2> HIDE DEF n
  <2> QED BY <1>3, <1>5
<1> QED BY <1>3, <1>4, <1>6

\* No node is in the queue twice.
LEMMA NodesApart ==
  ASSUME InboxTypeOK, InQueue, NEW k \in 0..Len(q) + 1, NEW c, c = Spell(k),
         NEW j \in 1..Len(c), NEW l \in 1..Len(c), c[j] = c[l]
  PROVE  j = l
<1>1. Len(q) \in Nat /\ \A m \in 1..Len(q) : q[m] \in Items
  BY DEF InboxTypeOK
<1>2. (c[j] = Stub <=> j = k) /\ (c[l] = Stub <=> l = k)
  BY SpellNodes
<1>3. CASE c[j] = Stub
  BY <1>2, <1>3
<1>4. CASE c[j] # Stub
  <2> DEFINE J == IF k = 0 \/ j < k THEN j ELSE j - 1
             L == IF k = 0 \/ l < k THEN l ELSE l - 1
  <2>1. j # k /\ l # k
    BY <1>2, <1>4
  <2>2. Len(c) = IF k = 0 THEN Len(q) ELSE Len(q) + 1
    BY SpellNodes
  <2>3. J \in 1..Len(q) /\ L \in 1..Len(q)
    BY <1>1, <2>1, <2>2
  <2>4. c[j] = q[J] /\ c[l] = q[L]
    BY <2>1, SpellNodes
  <2>5. J = L
    <3>1. \A a, b \in 1..Len(q) : q[a] = q[b] => a = b
      BY DEF InQueue
    <3>2. q[J] = q[L]
      BY <2>4
    <3> HIDE DEF J, L
    <3> QED BY <2>3, <3>1, <3>2
  <2> QED BY <1>1, <2>1, <2>2, <2>5
<1> QED BY <1>3, <1>4

\* The items of the queue are those that are not out.
LEMMA InIsNotOut ==
  ASSUME InboxTypeOK, InQueue, NEW k \in 0..Len(q) + 1, NEW c, c = Spell(k), NEW i \in Items
  PROVE  where[i] # "out" <=> \E j \in 1..Len(c) : c[j] = i
<1>1. Len(q) \in Nat /\ \A m \in 1..Len(q) : q[m] \in Items
  BY DEF InboxTypeOK
<1>2. Stub # i
  BY NodesDiffer
<1>3. Len(c) = IF k = 0 THEN Len(q) ELSE Len(q) + 1
  BY SpellNodes
<1>4. ASSUME NEW m \in 1..Len(q), q[m] = i PROVE \E j \in 1..Len(c) : c[j] = i
  <2> DEFINE j == IF k = 0 \/ m < k THEN m ELSE m + 1
  <2>1. j \in 1..Len(c)
    BY <1>1, <1>3
  <2>2. c[j] = i
    BY <1>1, <1>4, <2>1, SpellNodes
  <2> QED BY <2>1, <2>2
<1>5. ASSUME NEW j \in 1..Len(c), c[j] = i PROVE \E m \in 1..Len(q) : q[m] = i
  <2> DEFINE m == IF k = 0 \/ j < k THEN j ELSE j - 1
  <2>1. j # k /\ c[j] = IF k = 0 \/ j < k THEN q[j] ELSE IF j = k THEN Stub ELSE q[j - 1]
    BY <1>2, <1>5, SpellNodes
  <2>2. m \in 1..Len(q) /\ q[m] = i
    BY <1>1, <1>3, <1>5, <2>1
  <2> QED BY <2>2
<1> QED BY <1>4, <1>5 DEF InQueue

-----------------------------------------------------------------------------
(* What the two ends say, and how a step changes the chain.                *)

\* The taker's end and the head.
LEMMA EndsSay ==
  ASSUME InboxTypeOK, InQueue, NEW k \in 0..Len(q) + 1, NEW c, c = Spell(k), Chain(c, k)
  PROVE  /\ tail = Stub <=> k = 1
         /\ tail # Stub => q # <<>> /\ tail = Head(q) /\ where[tail] # "out"
         /\ head = tail <=> Len(c) = 1
         /\ head = Stub <=> k = Len(c)
         /\ next[tail] # Null => Len(c) >= 2 /\ next[tail] = c[2] /\ ~Swapped(c[2])
<1>1. /\ Len(q) \in Nat /\ Len(c) \in Nat /\ Len(c) >= 1 /\ c[1] = tail /\ c[Len(c)] = head
      /\ 1 \in 1..Len(c) /\ Len(c) \in 1..Len(c)
  BY SpellNodes DEF InboxTypeOK, Chain
<1>2. (tail = Stub <=> k = 1) /\ (head = Stub <=> k = Len(c))
  BY <1>1, SpellNodes
<1>3. ASSUME tail # Stub PROVE q # <<>> /\ tail = Head(q) /\ where[tail] # "out"
  <2>1. tail = q[1] /\ Len(q) # 0
    BY <1>1, <1>2, <1>3, SpellNodes
  <2>2. q # <<>> /\ tail = Head(q)
    BY <2>1 DEF InboxTypeOK
  <2>3. tail \in Items
    BY <1>3 DEF InboxTypeOK, Nodes
  <2>4. where[tail] # "out"
    BY <1>1, <2>3, InIsNotOut
  <2> QED BY <2>2, <2>4
<1>4. head = tail <=> Len(c) = 1
  BY <1>1, NodesApart
<1>5. ASSUME next[tail] # Null
      PROVE  Len(c) >= 2 /\ next[tail] = c[2] /\ ~Swapped(c[2])
  <2>1. Len(c) >= 2
    BY <1>1, <1>4, <1>5 DEF Chain
  <2>2. 1 \in 1..Len(c) - 1 /\ 1 + 1 = 2
    BY <1>1, <2>1
  <2> QED BY <1>1, <1>5, <2>1, <2>2 DEF Chain, Links
<1> QED BY <1>2, <1>3, <1>4, <1>5

\* A step of the taker that writes no link.
LEMMA KeepChain ==
  ASSUME NEW k, NEW c, Chain(c, k), UNCHANGED <<next, head, tail, where, prev>>,
         popping # "link", popping' # "link", StubFits(k)'
  PROVE  Chain(c, k)'
<1>1. \A n : Swapped(n)' <=> Swapped(n)
  BY DEF Swapped
<1> QED BY <1>1 DEF Chain, Links

\* The taker's end moves on to the second node: c becomes d.
Drops(c, d) == Len(d) = Len(c) - 1 /\ \A j \in 1..Len(c) - 1 : d[j] = c[j + 1]

MovesOn ==
    /\ next[tail] # Null /\ tail' = next[tail]
    /\ UNCHANGED <<next, head, prev>>
    /\ \A n \in Nodes \ {tail} : Swapped(n)' <=> Swapped(n)

\* What is left is in order.
LEMMA ShiftChain ==
  ASSUME InboxTypeOK, InQueue, NEW k \in 0..Len(q) + 1, NEW c, c = Spell(k), Chain(c, k),
         NEW m, NEW d, Drops(c, d), MovesOn, StubFits(m)'
  PROVE  Chain(d, m)'
<1> USE DEF Drops, MovesOn
<1>1. /\ Len(c) \in Nat /\ Len(c) >= 2 /\ c[1] = tail
      /\ next[tail] = c[2] /\ ~Swapped(c[2])
  BY EndsSay, SpellNodes DEF Chain
<1>2. \A j \in 1..Len(c) : c[j] \in Nodes /\ (j # 1 => c[j] # tail)
  BY <1>1, SpellNodes, NodesApart
<1>3. d[1] = tail' /\ d[Len(d)] = head' /\ Len(d) >= 1
  <2>1. d[1] = c[1 + 1] /\ d[Len(c) - 1] = c[Len(c) - 1 + 1] /\ Len(c) - 1 + 1 = Len(c)
    BY <1>1
  <2> QED BY <1>1, <2>1 DEF Chain
<1>4. ~Swapped(tail)'
  <2>1. c[2] \in Nodes \ {tail}
    BY <1>1, <1>2
  <2>2. ~Swapped(c[2])'
    BY <1>1, <2>1
  <2>3. tail' = c[2]
    BY <1>1
  <2> QED BY <2>2, <2>3 DEF Swapped
<1>5. Links(d)'
  <2> SUFFICES ASSUME NEW j \in 1..Len(d) - 1
               PROVE  IF Swapped(d[j + 1])'
                      THEN next'[d[j]] = Null /\ prev'[d[j + 1]] = d[j]
                      ELSE next'[d[j]] = d[j + 1]
    BY DEF Links
  <2> DEFINE x == c[j + 1]
             y == c[j + 1 + 1]
  <2>1. /\ j + 1 \in 1..Len(c) - 1 /\ j + 1 + 1 \in 1..Len(c) /\ j + 1 + 1 # 1
        /\ j \in 1..Len(c) - 1
    BY <1>1
  <2>2. d[j] = x /\ d[j + 1] = y
    BY <2>1
  <2>3. y \in Nodes \ {tail}
    BY <1>2, <2>1
  <2>4. Swapped(y)' <=> Swapped(y)
    BY <2>3
  <2>5. IF Swapped(y) THEN next[x] = Null /\ prev[y] = x ELSE next[x] = y
    BY <2>1 DEF Chain, Links
  <2> QED BY <2>2, <2>4, <2>5
<1>6. next'[head'] = Null
  BY DEF Chain
<1> QED BY <1>3, <1>4, <1>5, <1>6 DEF Chain

\* A node n becomes the head, its link still to be written: c becomes d.
Appends(c, d, n) ==
    /\ Len(d) = Len(c) + 1 /\ d[Len(c) + 1] = n
    /\ \A j \in 1..Len(c) : c[j] # n /\ d[j] = c[j]

SwapsIn(n) ==
    /\ head' = n /\ tail' = tail /\ prev' = [prev EXCEPT ![n] = head]
    /\ next'[n] = Null /\ \A x \in Nodes \ {n} : next'[x] = next[x]
    /\ Swapped(n)' /\ \A x \in Nodes \ {n} : Swapped(x)' <=> Swapped(x)

\* The longer queue is in order.
LEMMA AppendChain ==
  ASSUME InboxTypeOK, InQueue, NEW k \in 0..Len(q) + 1, NEW c, c = Spell(k), Chain(c, k),
         NEW n \in Nodes, NEW m, NEW d, Appends(c, d, n), SwapsIn(n), StubFits(m)'
  PROVE  Chain(d, m)'
<1> USE DEF Appends, SwapsIn
<1>1. /\ Len(c) \in Nat /\ Len(c) >= 1 /\ c[1] = tail /\ c[Len(c)] = head
      /\ \A j \in 1..Len(c) : c[j] \in Nodes \ {n}
  BY SpellNodes DEF Chain
<1>2. d[1] = tail' /\ d[Len(d)] = head' /\ Len(d) >= 1
  BY <1>1
<1>3. ~Swapped(tail)'
  <2>1. c[1] \in Nodes \ {n}
    BY <1>1
  <2>2. Swapped(c[1])' <=> Swapped(c[1])
    BY <2>1
  <2> QED BY <1>1, <2>2 DEF Chain, Swapped
<1>4. Links(d)'
  <2> SUFFICES ASSUME NEW j \in 1..Len(d) - 1
               PROVE  IF Swapped(d[j + 1])'
                      THEN next'[d[j]] = Null /\ prev'[d[j + 1]] = d[j]
                      ELSE next'[d[j]] = d[j + 1]
    BY DEF Links
  <2>1. CASE j = Len(c)
    <3>1. d[j] = head /\ d[j + 1] = n /\ head \in Nodes \ {n}
      BY <1>1, <2>1
    <3>2. next'[head] = Null /\ prev'[n] = head
      BY <3>1 DEF Chain, InboxTypeOK
    <3> QED BY <3>1, <3>2
  <2>2. CASE j # Len(c)
    <3>1. j \in 1..Len(c) - 1 /\ j \in 1..Len(c) /\ j + 1 \in 1..Len(c)
      BY <1>1, <2>2
    <3>2. d[j] = c[j] /\ d[j + 1] = c[j + 1] /\ {c[j], c[j + 1]} \subseteq Nodes \ {n}
      BY <1>1, <3>1
    <3>3. next'[c[j]] = next[c[j]] /\ prev'[c[j + 1]] = prev[c[j + 1]]
      BY <3>2 DEF InboxTypeOK
    <3>4. Swapped(c[j + 1])' <=> Swapped(c[j + 1])
      BY <3>2
    <3>5. IF Swapped(c[j + 1]) THEN next[c[j]] = Null /\ prev[c[j + 1]] = c[j] ELSE next[c[j]] = c[j + 1]
      BY <3>1 DEF Chain, Links
    <3> QED BY <3>2, <3>3, <3>4, <3>5
  <2> QED BY <2>1, <2>2
<1> QED BY <1>2, <1>3, <1>4 DEF Chain

\* The push of node n writes its link.
WritesLink(n) ==
    /\ Swapped(n) /\ ~Swapped(n)' /\ \A x \in Nodes \ {n} : Swapped(x)' <=> Swapped(x)
    /\ next' = [next EXCEPT ![prev[n]] = n] /\ prev' = [prev EXCEPT ![n] = Null]
    /\ UNCHANGED <<head, tail>>

\* The queue stays in order.
LEMMA LinkChain ==
  ASSUME InboxTypeOK, InQueue, NEW k \in 0..Len(q) + 1, NEW c, c = Spell(k), Chain(c, k),
         NEW p \in 1..Len(c), WritesLink(c[p]), StubFits(k)'
  PROVE  Chain(c, k)'
<1> USE DEF WritesLink
<1>1. /\ Len(c) \in Nat /\ Len(c) >= 1 /\ c[1] = tail /\ c[Len(c)] = head
      /\ \A j \in 1..Len(c) : c[j] \in Nodes
  BY SpellNodes DEF Chain
<1>2. \A j, l \in 1..Len(c) : c[j] = c[l] => j = l
  BY NodesApart
<1>3. p # 1 /\ p - 1 \in 1..Len(c) - 1 /\ p - 1 \in 1..Len(c) /\ p - 1 + 1 = p
  BY <1>1 DEF Chain
<1>4. next[c[p - 1]] = Null /\ prev[c[p]] = c[p - 1]
  <2>1. IF Swapped(c[p - 1 + 1])
        THEN next[c[p - 1]] = Null /\ prev[c[p - 1 + 1]] = c[p - 1]
        ELSE next[c[p - 1]] = c[p - 1 + 1]
    BY <1>3 DEF Chain, Links
  <2> QED BY <1>3, <2>1
<1>5. /\ next'[c[p - 1]] = c[p]
      /\ \A j \in 1..Len(c) : j # p - 1 => next'[c[j]] = next[c[j]]
      /\ \A j \in 1..Len(c) : j # p => prev'[c[j]] = prev[c[j]]
  BY <1>1, <1>2, <1>3, <1>4 DEF InboxTypeOK
<1>6. \A j \in 1..Len(c) : j # p => (Swapped(c[j])' <=> Swapped(c[j]))
  BY <1>1, <1>2
<1>7. ~Swapped(tail)'
  <2>1. Swapped(c[1])' <=> Swapped(c[1])
    BY <1>1, <1>3, <1>6
  <2> QED BY <1>1, <2>1 DEF Chain, Swapped
<1>8. next'[head'] = Null
  <2>1. next'[c[Len(c)]] = next[c[Len(c)]]
    BY <1>1, <1>3, <1>5
  <2> QED BY <1>1, <2>1 DEF Chain
<1>9. Links(c)'
  <2> SUFFICES ASSUME NEW j \in 1..Len(c) - 1
               PROVE  IF Swapped(c[j + 1])'
                      THEN next'[c[j]] = Null /\ prev'[c[j + 1]] = c[j]
                      ELSE next'[c[j]] = c[j + 1]
    BY DEF Links
  <2>1. j \in 1..Len(c) /\ j + 1 \in 1..Len(c)
    BY <1>1
  <2>2. CASE j = p - 1
    BY <1>3, <1>5, <2>2
  <2>3. CASE j # p - 1
    <3>1. j + 1 # p
      BY <1>1, <2>3
    <3>2. IF Swapped(c[j + 1]) THEN next[c[j]] = Null /\ prev[c[j + 1]] = c[j] ELSE next[c[j]] = c[j + 1]
      BY DEF Chain, Links
    <3> QED BY <1>5, <1>6, <2>1, <2>3, <3>1, <3>2
  <2> QED BY <2>2, <2>3
<1> QED BY <1>1, <1>7, <1>8, <1>9 DEF Chain

-----------------------------------------------------------------------------
(* The steps of the inbox.                                                 *)

\* An empty inbox: the stub alone.
LEMMA InitLinked == InboxInit => Linked
<1> SUFFICES ASSUME InboxInit PROVE Linked
  OBVIOUS
<1>1. q = <<>> /\ Len(q) = 0
  BY DEF InboxInit
<1>2. InboxTypeOK /\ TakerAt
  BY NodesDiffer DEF InboxInit, InboxTypeOK, TakerAt, Nodes
<1>3. InQueue
  BY <1>1 DEF InboxInit, InQueue
<1>4. PICK c : c = Spell(1)
  OBVIOUS
<1>5. Len(c) = 1 /\ c[1] = Stub
  BY <1>1, <1>2, <1>4, SpellNodes
<1>6. Chain(c, 1)
  BY <1>5 DEF InboxInit, Chain, Links, Swapped, StubFits, Nodes
<1> QED BY <1>1, <1>2, <1>3, <1>4, <1>6 DEF Linked, Chained

\* An item pushed is the last of the queue, where it was not.
LEMMA PushSwap ==
  ASSUME Linked, NEW i \in Items, push_swap(i)
  PROVE  Linked' /\ QueueStep
<1>1. InboxTypeOK /\ TakerAt /\ InQueue /\ Len(q) \in Nat /\ i # Stub /\ Stub \notin Items
  BY NodesDiffer DEF Linked, InboxTypeOK
<1>2. PICK k \in 0..Len(q) + 1 : \E x \in {Spell(k)} : Chain(x, k)
  BY DEF Linked, Chained
<1>3. PICK c : c = Spell(k) /\ Chain(c, k)
  BY <1>2
<1>4. \A j \in 1..Len(q) : q[j] # i
  BY <1>1 DEF push_swap, InQueue
<1>5. /\ q' = Append(q, i) /\ q' \in Seq(Items) /\ Len(q') = Len(q) + 1 /\ q'[Len(q) + 1] = i
      /\ \A j \in 1..Len(q) : q'[j] = q[j]
  BY DEF push_swap, Linked, InboxTypeOK
<1>6. InboxTypeOK'
  BY <1>1, <1>5 DEF push_swap, InboxTypeOK, Nodes
<1>7. TakerAt'
  BY <1>1 DEF push_swap, TakerAt, InboxTypeOK, Nodes
<1>8. InQueue'
  <2>1. \A j, l \in 1..Len(q') : q'[j] = q'[l] => j = l
    BY <1>1, <1>4, <1>5 DEF InQueue
  <2>2. ASSUME NEW x \in Items PROVE where'[x] # "out" <=> \E j \in 1..Len(q') : q'[j] = x
    <3>1. CASE x = i
      BY <1>1, <1>5, <3>1 DEF push_swap, InboxTypeOK
    <3>2. CASE x # i
      <4>1. where'[x] = where[x]
        BY <3>2 DEF push_swap
      <4>2. (\E j \in 1..Len(q') : q'[j] = x) <=> (\E j \in 1..Len(q) : q[j] = x)
        BY <1>1, <1>5, <3>2
      <4> QED BY <1>1, <4>1, <4>2 DEF InQueue
    <3> QED BY <3>1, <3>2
  <2> QED BY <2>1, <2>2 DEF InQueue
<1>9. PICK d : d = Spell(k)'
  OBVIOUS
<1>10. \A j \in 1..Len(c) : c[j] # i
  BY <1>1, <1>3, InIsNotOut DEF push_swap
<1>11. /\ Len(c) \in Nat /\ Len(c) = IF k = 0 THEN Len(q) ELSE Len(q) + 1
       /\ \A j \in 1..Len(c) :
            c[j] = IF k = 0 \/ j < k THEN q[j] ELSE IF j = k THEN Stub ELSE q[j - 1]
  BY <1>1, <1>3, SpellNodes
<1>12. d = [j \in 1..Len(c) + 1 |->
              IF k = 0 \/ j < k THEN q'[j] ELSE IF j = k THEN Stub ELSE q'[j - 1]]
  BY <1>1, <1>5, <1>9, <1>11 DEF Spell
<1>13. Len(d) = Len(c) + 1
  <2>1. Len(c) + 1 \in Nat
    BY <1>11
  <2> QED BY <1>12, <2>1
<1>14. d[Len(c) + 1] = i /\ \A j \in 1..Len(c) : d[j] = c[j]
  BY <1>1, <1>5, <1>11, <1>12
<1>15. SwapsIn(i) /\ i \in Nodes
  <2>1. Swapped(i)' /\ \A x \in Nodes \ {i} : Swapped(x)' <=> Swapped(x)
    BY <1>1 DEF push_swap, Swapped, InboxTypeOK, Nodes
  <2>2. /\ head' = i /\ tail' = tail /\ prev' = [prev EXCEPT ![i] = head] /\ next'[i] = Null
        /\ \A x \in Nodes \ {i} : next'[x] = next[x]
    BY <1>1 DEF push_swap, InboxTypeOK, Nodes
  <2> QED BY <2>1, <2>2 DEF SwapsIn, Nodes
<1>16. Chain(d, k)'
  <2>1. Appends(c, d, i)
    BY <1>10, <1>13, <1>14 DEF Appends
  <2>2. StubFits(k)'
    BY <1>3 DEF push_swap, Chain, StubFits
  <2> QED BY <1>1, <1>3, <1>15, <2>1, <2>2, AppendChain
<1>17. Chained'
  BY <1>1, <1>5, <1>9, <1>16 DEF Chained
<1>18. QueueStep
  BY <1>4, <1>5 DEF push_swap, QueueStep, Queue!Next, Queue!Push
<1> QED BY <1>6, <1>7, <1>8, <1>17, <1>18 DEF Linked

\* A push writes its link behind the node it followed.
LEMMA PushLink ==
  ASSUME Linked, NEW i \in Items, push_link(i)
  PROVE  Linked' /\ QueueStep
<1>1. InboxTypeOK /\ TakerAt /\ InQueue /\ i # Stub /\ Stub \notin Items
  BY NodesDiffer DEF Linked
<1>2. PICK k \in 0..Len(q) + 1 : \E x \in {Spell(k)} : Chain(x, k)
  BY DEF Linked, Chained
<1>3. PICK c : c = Spell(k) /\ Chain(c, k)
  BY <1>2
<1>4. PICK p \in 1..Len(c) : c[p] = i
  BY <1>1, <1>3, InIsNotOut DEF push_link
<1>5. WritesLink(c[p])
  <2>1. /\ Swapped(i) /\ ~Swapped(i)'
        /\ \A x \in Nodes \ {i} : Swapped(x)' <=> Swapped(x)
    BY <1>1 DEF push_link, Swapped, InboxTypeOK, Nodes
  <2> QED BY <1>4, <2>1 DEF push_link, WritesLink
<1>6. Chain(c, k)'
  <2>1. StubFits(k)'
    BY <1>3 DEF push_link, Chain, StubFits
  <2> QED BY <1>1, <1>3, <1>5, <2>1, LinkChain
<1>7. Chained'
  <2>1. c = Spell(k)' /\ q' = q
    BY <1>3 DEF push_link, Spell
  <2> QED BY <1>6, <2>1 DEF Chained
<1>8. InboxTypeOK'
  BY <1>1 DEF push_link, InboxTypeOK, Nodes
<1>9. InQueue'
  BY <1>1 DEF push_link, InQueue, InboxTypeOK
<1>10. TakerAt'
  <2>1. popping = "swap" => next'[Stub] = Null
    <3> SUFFICES ASSUME popping = "swap" PROVE next'[Stub] = Null
      OBVIOUS
    <3>1. k = 0
      BY <1>3 DEF Chain, StubFits
    <3>2. p # 1 /\ p - 1 \in 1..Len(c) - 1 /\ p - 1 + 1 = p /\ p - 1 \in 1..Len(c)
      BY <1>1, <1>3, <1>4, <1>5, SpellNodes DEF Chain, WritesLink
    <3>3. prev[i] = c[p - 1]
      <4>1. IF Swapped(c[p - 1 + 1])
            THEN next[c[p - 1]] = Null /\ prev[c[p - 1 + 1]] = c[p - 1]
            ELSE next[c[p - 1]] = c[p - 1 + 1]
        BY <1>3, <3>2 DEF Chain, Links
      <4> QED BY <1>4, <1>5, <3>2, <4>1 DEF WritesLink
    <3>4. c[p - 1] # Stub
      BY <1>1, <1>3, <3>1, <3>2, SpellNodes
    <3> QED BY <1>1, <3>3, <3>4 DEF push_link, TakerAt, InboxTypeOK, Nodes
  <2> QED BY <1>1, <2>1 DEF push_link, TakerAt
<1>11. QueueStep
  BY DEF push_link, QueueStep, Queue!vars
<1> QED BY <1>7, <1>8, <1>9, <1>10, <1>11 DEF Linked

\* The taker's end moves on past an item, which is the first of the queue.
LEMMA HandsOut ==
  ASSUME Linked, tail # Stub, next[tail] # Null, popping # "link",
         HandOut(tail, next[tail]), UNCHANGED <<next, head, prev>>
  PROVE  Linked' /\ QueueStep
<1>1. /\ InboxTypeOK /\ TakerAt /\ InQueue /\ Len(q) \in Nat /\ Stub \notin Items
      /\ tail \in Items /\ popping' = "idle"
  BY NodesDiffer DEF Linked, HandOut, Ends, InboxTypeOK, Nodes
<1>2. PICK k \in 0..Len(q) + 1 : \E x \in {Spell(k)} : Chain(x, k)
  BY DEF Linked, Chained
<1>3. PICK c : c = Spell(k) /\ Chain(c, k)
  BY <1>2
<1>4. k # 1 /\ q # <<>> /\ tail = Head(q) /\ Len(c) >= 2
  BY <1>1, <1>3, EndsSay
<1>5. /\ q' = Tail(q) /\ q' \in Seq(Items) /\ Len(q') = Len(q) - 1 /\ Len(q) >= 1 /\ q[1] = tail
      /\ \A j \in 1..Len(q) - 1 : q'[j] = q[j + 1]
  BY <1>1, <1>4 DEF HandOut, InboxTypeOK
<1>6. InboxTypeOK'
  <2>1. next[tail] \in Nodes
    BY <1>1 DEF InboxTypeOK
  <2> QED BY <1>1, <1>5, <2>1 DEF HandOut, Ends, InboxTypeOK, Nodes
<1>7. TakerAt'
  BY <1>1 DEF TakerAt
<1>8. InQueue'
  <2>1. \A j, l \in 1..Len(q') : q'[j] = q'[l] => j = l
    BY <1>1, <1>5 DEF InQueue
  <2>2. ASSUME NEW x \in Items PROVE where'[x] # "out" <=> \E j \in 1..Len(q') : q'[j] = x
    <3>1. CASE x = tail
      <4>1. \A j \in 1..Len(q') : q'[j] # x
        BY <1>1, <1>5, <3>1 DEF InQueue
      <4> QED BY <1>1, <3>1, <4>1 DEF HandOut, InboxTypeOK
    <3>2. CASE x # tail
      <4>1. where'[x] = where[x]
        BY <3>2 DEF HandOut
      <4>2. ASSUME NEW j \in 1..Len(q), q[j] = x PROVE \E l \in 1..Len(q') : q'[l] = x
        <5>1. j - 1 \in 1..Len(q') /\ q'[j - 1] = q[j - 1 + 1] /\ j - 1 + 1 = j
          BY <1>1, <1>5, <3>2, <4>2
        <5> QED BY <4>2, <5>1
      <4>3. ASSUME NEW j \in 1..Len(q'), q'[j] = x PROVE \E l \in 1..Len(q) : q[l] = x
        <5>1. j + 1 \in 1..Len(q) /\ q'[j] = q[j + 1]
          BY <1>1, <1>5
        <5> QED BY <4>3, <5>1
      <4> QED BY <1>1, <4>1, <4>2, <4>3 DEF InQueue
    <3> QED BY <3>1, <3>2
  <2> QED BY <2>1, <2>2 DEF InQueue
<1>9. PICK m : m = IF k = 0 THEN 0 ELSE k - 1
  OBVIOUS
<1>10. PICK d : d = Spell(m)'
  OBVIOUS
<1>11. /\ Len(c) \in Nat /\ Len(c) = IF k = 0 THEN Len(q) ELSE Len(q) + 1
       /\ \A j \in 1..Len(c) :
            c[j] = IF k = 0 \/ j < k THEN q[j] ELSE IF j = k THEN Stub ELSE q[j - 1]
  BY <1>1, <1>3, SpellNodes
<1>12. d = [j \in 1..Len(c) - 1 |->
              IF m = 0 \/ j < m THEN q'[j] ELSE IF j = m THEN Stub ELSE q'[j - 1]]
  BY <1>1, <1>4, <1>5, <1>9, <1>10, <1>11 DEF Spell
<1>13. Len(d) = Len(c) - 1
  <2>1. Len(c) - 1 \in Nat
    BY <1>4, <1>11
  <2> QED BY <1>12, <2>1
<1>14. \A j \in 1..Len(c) - 1 : d[j] = c[j + 1]
  BY <1>1, <1>4, <1>5, <1>9, <1>11, <1>12
<1>15. Chain(d, m)'
  <2>1. Drops(c, d)
    BY <1>13, <1>14 DEF Drops
  <2>2. \A n \in Nodes \ {tail} : Swapped(n)' <=> Swapped(n)
    BY <1>1 DEF HandOut, Swapped, InboxTypeOK, Nodes
  <2>3. MovesOn /\ StubFits(m)'
    BY <1>1, <2>2 DEF MovesOn, StubFits, HandOut
  <2> QED BY <1>1, <1>3, <2>1, <2>3, ShiftChain
<1>16. Chained'
  <2>1. m \in 0..Len(q') + 1
    BY <1>1, <1>4, <1>5, <1>9
  <2> QED BY <1>10, <1>15, <2>1 DEF Chained
<1>17. QueueStep
  BY <1>4, <1>5 DEF HandOut, Ends, QueueStep, Queue!Next, Queue!Pop
<1> QED BY <1>6, <1>7, <1>8, <1>16, <1>17 DEF Linked

\* The taker's end moves on past the stub, which is out then.
LEMMA PassesStub ==
  ASSUME Linked, popping = "idle", tail = Stub, next[tail] # Null,
         tail' = next[tail], popping' = "second", cur' = tail',
         UNCHANGED <<next, head, prev, where, q, answer>>
  PROVE  Linked'
<1>1. InboxTypeOK /\ TakerAt /\ InQueue /\ Len(q) \in Nat /\ Stub \notin Items
  BY NodesDiffer DEF Linked, InboxTypeOK
<1>2. PICK k \in 0..Len(q) + 1 : \E x \in {Spell(k)} : Chain(x, k)
  BY DEF Linked, Chained
<1>3. PICK c : c = Spell(k) /\ Chain(c, k)
  BY <1>2
<1>4. k = 1 /\ Len(c) >= 2 /\ next[tail] = c[2]
  BY <1>1, <1>3, EndsSay
<1>5. PICK d : d = Spell(0)'
  OBVIOUS
<1>6. /\ Len(c) \in Nat /\ Len(c) = Len(q) + 1
      /\ \A j \in 1..Len(c) : c[j] = IF j = 1 THEN Stub ELSE q[j - 1]
      /\ c[2] # Stub /\ c[2] \in Nodes
  BY <1>1, <1>3, <1>4, SpellNodes
<1>7. d = [j \in 1..Len(q) |-> q[j]]
  BY <1>5 DEF Spell
<1>8. Len(d) = Len(q)
  BY <1>1, <1>7
<1>9. Drops(c, d)
  BY <1>1, <1>6, <1>7, <1>8 DEF Drops
<1>10. MovesOn /\ StubFits(0)'
  <2>1. \A n \in Nodes \ {tail} : Swapped(n)' <=> Swapped(n)
    BY DEF Swapped
  <2> QED BY <2>1 DEF MovesOn, StubFits
<1>11. Chain(d, 0)'
  BY <1>1, <1>3, <1>9, <1>10, ShiftChain
<1>12. Chained'
  BY <1>1, <1>5, <1>11 DEF Chained
<1>13. InboxTypeOK' /\ TakerAt' /\ InQueue'
  BY <1>1, <1>4, <1>6 DEF InboxTypeOK, TakerAt, InQueue, Nodes
<1> QED BY <1>12, <1>13 DEF Linked

\* A step of the taker that writes nothing keeps the queue.
LEMMA TakerLooks ==
  ASSUME Linked, UNCHANGED <<next, head, tail, where, prev, q>>,
         popping # "link", popping' \notin {"link", "swap"}, InboxTypeOK', TakerAt',
         popping' = "clear" => head = tail /\ tail # Stub
  PROVE  Linked'
<1>1. InboxTypeOK /\ TakerAt /\ InQueue /\ Len(q) \in Nat
  BY DEF Linked, InboxTypeOK
<1>2. PICK k \in 0..Len(q) + 1 : \E x \in {Spell(k)} : Chain(x, k)
  BY DEF Linked, Chained
<1>3. PICK c : c = Spell(k) /\ Chain(c, k)
  BY <1>2
<1>4. StubFits(k)'
  <2>1. ASSUME popping' = "clear" PROVE k = 0
    <3>1. head = tail /\ tail # Stub
      BY <2>1
    <3>2. Len(c) = 1 /\ k # 1
      BY <1>1, <1>3, <3>1, EndsSay
    <3>3. q # <<>> /\ Len(q) # 0
      BY <1>1, <1>3, <3>1, EndsSay DEF InboxTypeOK
    <3> QED BY <1>1, <1>3, <3>2, <3>3, SpellNodes
  <2> QED BY <2>1 DEF StubFits
<1>5. Chain(c, k)'
  BY <1>3, <1>4, KeepChain
<1>6. c = Spell(k)'
  BY <1>3 DEF Spell
<1> QED BY <1>1, <1>5, <1>6 DEF Linked, Chained, InQueue

\* The first load of a pop: past the stub, of an item with a successor, or of neither.
LEMMA PopFirst ==
  ASSUME Linked, pop_first
  PROVE  Linked' /\ QueueStep
<1>1. InboxTypeOK /\ TakerAt /\ popping = "idle" /\ UNCHANGED <<next, head, prev>>
  BY DEF Linked, pop_first
<1>2. CASE tail = Stub /\ next[tail] # Null /\ tail' = next[tail] /\ popping' = "second"
           /\ cur' = next[tail] /\ UNCHANGED <<where, q, answer>>
  <2>1. Linked'
    BY <1>1, <1>2, PassesStub
  <2> QED BY <1>2, <2>1 DEF QueueStep, Queue!vars
<1>3. CASE tail # Stub /\ next[tail] # Null /\ HandOut(tail, next[tail])
  BY <1>1, <1>3, HandsOut
<1>4. CASE /\ (tail = Stub /\ popping' = "empty") \/ (tail # Stub /\ popping' = "last")
           /\ cur' = tail /\ UNCHANGED <<tail, where, q, answer>>
  <2>1. InboxTypeOK' /\ TakerAt'
    BY <1>1, <1>4 DEF InboxTypeOK, TakerAt
  <2>2. Linked'
    BY <1>1, <1>4, <2>1, TakerLooks
  <2> QED BY <1>4, <2>2 DEF QueueStep, Queue!vars
<1> QED BY <1>2, <1>3, <1>4 DEF pop_first

\* The later looks of a pop, and its answers.
LEMMA PopLooks ==
  ASSUME Linked, pop_empty \/ pop_second \/ pop_last \/ pop_final
  PROVE  Linked' /\ QueueStep
<1>1. InboxTypeOK /\ TakerAt /\ InQueue /\ UNCHANGED <<next, head, prev>>
  BY DEF Linked, pop_empty, pop_second, pop_last, pop_final, mem
<1>2. PICK k \in 0..Len(q) + 1 : \E x \in {Spell(k)} : Chain(x, k)
  BY DEF Linked, Chained
<1>3. PICK c : c = Spell(k) /\ Chain(c, k)
  BY <1>2
<1>4. tail # Stub => q # <<>>
  BY <1>1, <1>3, EndsSay
<1>5. tail = Stub => (head = Stub <=> q = <<>>)
  <2>1. tail = Stub => k = 1 /\ (head = Stub <=> Len(c) = 1) /\ Len(c) = Len(q) + 1
    BY <1>1, <1>3, EndsSay, SpellNodes
  <2>2. Len(q) = 0 <=> q = <<>>
    BY <1>1 DEF InboxTypeOK
  <2>3. Len(q) \in Nat
    BY <1>1 DEF InboxTypeOK
  <2> QED BY <2>1, <2>2, <2>3
<1>6. CASE popping \in {"second", "final"} /\ next[cur] # Null /\ HandOut(cur, next[cur])
  <2>1. cur = tail /\ tail # Stub
    BY <1>1, <1>6 DEF TakerAt
  <2> QED BY <1>1, <1>6, <2>1, HandsOut
<1>7. CASE /\ popping = "empty" /\ Ends(IF head = Stub THEN Empty ELSE Busy)
           /\ UNCHANGED <<tail, where, q>>
  <2>1. tail = Stub
    BY <1>1, <1>7 DEF TakerAt
  <2>2. InboxTypeOK' /\ TakerAt'
    BY <1>1, <1>7 DEF InboxTypeOK, TakerAt, Ends
  <2>3. Linked'
    BY <1>1, <1>7, <2>2, TakerLooks DEF Ends
  <2> QED BY <1>5, <1>7, <2>1, <2>3 DEF Ends, QueueStep, Queue!Next, Queue!Pop
<1>8. CASE popping \in {"last", "final"} /\ Ends(Busy) /\ UNCHANGED <<tail, where, q>>
  <2>1. tail # Stub
    BY <1>1, <1>8 DEF TakerAt
  <2>2. InboxTypeOK' /\ TakerAt'
    BY <1>1, <1>8 DEF InboxTypeOK, TakerAt, Ends
  <2>3. Linked'
    BY <1>1, <1>8, <2>2, TakerLooks DEF Ends
  <2> QED BY <1>4, <1>8, <2>1, <2>3 DEF Ends, QueueStep, Queue!Next, Queue!Pop
<1>9. CASE /\ UNCHANGED <<tail, where, cur, q, answer>>
           /\ \/ popping = "second" /\ popping' = "last"
              \/ popping = "last" /\ head = cur /\ popping' = "clear"
  <2>1. InboxTypeOK' /\ TakerAt' /\ cur = tail /\ tail # Stub
    BY <1>1, <1>9 DEF InboxTypeOK, TakerAt
  <2>2. Linked'
    BY <1>1, <1>9, <2>1, TakerLooks
  <2> QED BY <1>9, <2>2 DEF QueueStep, Queue!vars
<1> QED BY <1>6, <1>7, <1>8, <1>9 DEF pop_empty, pop_second, pop_last, pop_final, mem

\* The stub is pushed again behind the last item, in three steps.
LEMMA PopPushesStub ==
  ASSUME Linked, pop_clear \/ pop_swap \/ pop_link
  PROVE  Linked' /\ QueueStep
<1>1. /\ InboxTypeOK /\ TakerAt /\ InQueue /\ Len(q) \in Nat /\ Stub \notin Items /\ Stub \in Nodes
      /\ UNCHANGED <<tail, where, cur, q, answer>>
  BY NodesDiffer DEF Linked, InboxTypeOK, Nodes, pop_clear, pop_swap, pop_link
<1>2. PICK k \in 0..Len(q) + 1 : \E x \in {Spell(k)} : Chain(x, k)
  BY DEF Linked, Chained
<1>3. PICK c : c = Spell(k) /\ Chain(c, k)
  BY <1>2
<1>4. /\ Len(c) \in Nat /\ Len(c) >= 1 /\ Len(c) = IF k = 0 THEN Len(q) ELSE Len(q) + 1
      /\ \A j \in 1..Len(c) :
            /\ c[j] = IF k = 0 \/ j < k THEN q[j] ELSE IF j = k THEN Stub ELSE q[j - 1]
            /\ c[j] \in Nodes /\ (c[j] = Stub <=> j = k)
  BY <1>1, <1>3, SpellNodes DEF Chain
<1>5. \A m : Spell(m)' = Spell(m)
  BY <1>1 DEF Spell
<1>6. InQueue' /\ QueueStep
  BY <1>1 DEF InQueue, QueueStep, Queue!vars
<1>7. CASE pop_clear
  <2>1. InboxTypeOK' /\ TakerAt'
    BY <1>1, <1>7, NodesDiffer DEF pop_clear, InboxTypeOK, TakerAt, Nodes
  <2>2. k = 0 /\ UNCHANGED <<head, prev>>
    BY <1>3, <1>7 DEF Chain, StubFits, pop_clear
  <2>3. \A j \in 1..Len(c) : next'[c[j]] = next[c[j]]
    BY <1>1, <1>4, <1>7, <2>2 DEF pop_clear, InboxTypeOK
  <2>4. \A n : Swapped(n)' <=> Swapped(n)
    BY <1>1, <1>7 DEF pop_clear, Swapped
  <2>5. Links(c)'
    <3> SUFFICES ASSUME NEW j \in 1..Len(c) - 1
                 PROVE  IF Swapped(c[j + 1])'
                        THEN next'[c[j]] = Null /\ prev'[c[j + 1]] = c[j]
                        ELSE next'[c[j]] = c[j + 1]
      BY DEF Links
    <3>1. j \in 1..Len(c)
      BY <1>4
    <3>2. IF Swapped(c[j + 1]) THEN next[c[j]] = Null /\ prev[c[j + 1]] = c[j] ELSE next[c[j]] = c[j + 1]
      BY <1>3 DEF Chain, Links
    <3> QED BY <2>2, <2>3, <2>4, <3>1, <3>2
  <2>6. next'[head'] = Null
    <3>1. next'[c[Len(c)]] = next[c[Len(c)]]
      BY <1>4, <2>3
    <3> QED BY <1>3, <2>2, <3>1 DEF Chain
  <2>7. ~Swapped(tail)'
    <3>1. Swapped(tail)' <=> Swapped(tail)
      BY <1>1, <1>7 DEF pop_clear, Swapped
    <3> QED BY <1>3, <3>1 DEF Chain
  <2>8. StubFits(k)'
    BY <1>7, <2>2 DEF StubFits, pop_clear
  <2>9. Chain(c, k)'
    BY <1>1, <1>3, <2>2, <2>5, <2>6, <2>7, <2>8 DEF Chain
  <2> QED BY <1>1, <1>3, <1>5, <1>6, <2>1, <2>9 DEF Linked, Chained
<1>8. CASE pop_swap
  <2>1. InboxTypeOK' /\ TakerAt'
    BY <1>1, <1>8 DEF pop_swap, InboxTypeOK, TakerAt, Nodes
  <2>2. k = 0
    BY <1>3, <1>8 DEF Chain, StubFits, pop_swap
  <2>3. PICK m : m = Len(q) + 1
    OBVIOUS
  <2>4. PICK d : d = Spell(m)
    OBVIOUS
  <2>5. /\ Len(d) = Len(q) + 1
        /\ \A j \in 1..Len(d) :
              d[j] = IF m = 0 \/ j < m THEN q[j] ELSE IF j = m THEN Stub ELSE q[j - 1]
    BY <1>1, <2>3, <2>4, SpellNodes
  <2>6. Appends(c, d, Stub)
    BY <1>1, <1>4, <2>2, <2>3, <2>5 DEF Appends
  <2>7. SwapsIn(Stub)
    <3>1. Swapped(Stub)' /\ \A x \in Nodes \ {Stub} : Swapped(x)' <=> Swapped(x)
      BY <1>1, <1>8 DEF pop_swap, Swapped
    <3> QED BY <1>1, <1>8, <3>1 DEF pop_swap, SwapsIn, TakerAt
  <2>8. StubFits(m)'
    BY <1>1, <1>8, <2>3 DEF StubFits, pop_swap
  <2>9. Chain(d, m)'
    BY <1>1, <1>3, <2>6, <2>7, <2>8, AppendChain
  <2>10. m \in 0..Len(q') + 1 /\ d = Spell(m)'
    BY <1>1, <1>5, <2>3, <2>4
  <2> QED BY <1>6, <2>1, <2>9, <2>10 DEF Linked, Chained
<1>9. CASE pop_link
  <2>1. k \in 1..Len(c) /\ c[k] = Stub
    BY <1>1, <1>3, <1>4, <1>9 DEF Chain, StubFits, pop_link
  <2>2. WritesLink(c[k])
    <3>1. /\ Swapped(Stub) /\ ~Swapped(Stub)'
          /\ \A x \in Nodes \ {Stub} : Swapped(x)' <=> Swapped(x)
      BY <1>1, <1>9 DEF pop_link, Swapped
    <3> QED BY <1>9, <2>1, <3>1 DEF pop_link, WritesLink
  <2>3. StubFits(k)'
    BY <1>9 DEF StubFits, pop_link
  <2>4. Chain(c, k)'
    BY <1>1, <1>3, <2>1, <2>2, <2>3, LinkChain
  <2>5. InboxTypeOK' /\ TakerAt'
    BY <1>1, <1>9 DEF pop_link, InboxTypeOK, TakerAt, Nodes
  <2> QED BY <1>1, <1>3, <1>5, <1>6, <2>4, <2>5 DEF Linked, Chained
<1> QED BY <1>7, <1>8, <1>9

\* Every step of the inbox keeps its queue in order, and is one of a first-in
\* first-out queue's or changes none of it.
LEMMA InboxStep ==
  ASSUME Linked, [InboxNext]_inboxvars
  PROVE  Linked' /\ QueueStep
<1>1. CASE UNCHANGED inboxvars
  <2>1. InboxTypeOK' /\ TakerAt' /\ InQueue' /\ QueueStep
    BY <1>1 DEF inboxvars, Linked, InboxTypeOK, TakerAt, InQueue, QueueStep, Queue!vars
  <2>2. \A k : Spell(k)' = Spell(k)
    BY <1>1 DEF inboxvars, Spell
  <2>3. \A c, k : Chain(c, k) => Chain(c, k)'
    BY <1>1 DEF inboxvars, Chain, Links, Swapped, StubFits
  <2>4. Chained'
    BY <1>1, <2>2, <2>3 DEF inboxvars, Linked, Chained
  <2> QED BY <2>1, <2>4 DEF Linked
<1> QED BY <1>1, PushSwap, PushLink, PopFirst, PopLooks, PopPushesStub DEF InboxNext, PopGoesOn

\* An inbox in order is drained exactly when nothing is in it.
LEMMA LinkedDrained == Linked => DrainedIsEmpty
<1> SUFFICES ASSUME Linked PROVE is_drained <=> q = <<>>
  BY DEF DrainedIsEmpty
<1>1. InboxTypeOK /\ InQueue /\ Len(q) \in Nat /\ (Len(q) = 0 <=> q = <<>>)
  BY DEF Linked, InboxTypeOK
<1>2. PICK k \in 0..Len(q) + 1 : \E x \in {Spell(k)} : Chain(x, k)
  BY DEF Linked, Chained
<1>3. PICK c : c = Spell(k) /\ Chain(c, k)
  BY <1>2
<1>4. /\ Len(c) \in Nat /\ Len(c) >= 1 /\ Len(c) = IF k = 0 THEN Len(q) ELSE Len(q) + 1
      /\ (tail = Stub <=> k = 1) /\ (head = Stub <=> k = Len(c))
  BY <1>1, <1>3, SpellNodes, EndsSay DEF Chain
<1> QED BY <1>1, <1>4 DEF is_drained

-----------------------------------------------------------------------------
(* The inbox.                                                              *)

\* The nodes of an inbox are in order from the taker's end to the head, each linked
\* or with its link still to be written by its push (rt/inbox.rs).
THEOREM InboxInvariant == InboxSpec => []Linked
<1>1. Linked /\ [InboxNext]_inboxvars => Linked'
  BY InboxStep
<1> QED BY <1>1, InitLinked, PTL DEF InboxSpec

\* A taker between two pops tells from both ends of the inbox whether anything is
\* left, however far a push got (Inbox::is_drained).
THEOREM DrainedSeesAll == InboxSpec => []DrainedIsEmpty
BY InboxInvariant, LinkedDrained, PTL

\* The inbox is a first-in first-out queue (Inbox::push, Inbox::pop): every step is
\* a push, a pop with the queue's answer, or changes nothing of it.
THEOREM InboxIsFifo == InboxSpec => IsFifo
<1>1. InboxInit => Queue!Init
  BY DEF InboxInit, Queue!Init
<1>2. Linked /\ [InboxNext]_inboxvars => [Queue!Next]_(Queue!vars)
  BY InboxStep DEF QueueStep
<1> QED BY <1>1, <1>2, InboxInvariant, PTL DEF InboxSpec, IsFifo, Queue!Spec

=============================================================================
