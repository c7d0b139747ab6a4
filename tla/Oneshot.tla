------------------------------- MODULE Oneshot ------------------------------
(***************************************************************************)
(* The one-shot channel (sync/oneshot.rs): one sender, one receiver, a     *)
(* state word of three bits that are only ever set, and a cell that holds  *)
(* the value.                                                              *)
(*                                                                         *)
(* The two waker cells are atomic here: a registration stores the waker,   *)
(* a wake takes it.  Module AtomicWaker shows what their callers need of   *)
(* them.  A task polls when it is woken, and may poll for other reasons.   *)
(***************************************************************************)
EXTENDS Naturals, TLAPS

VARIABLES
    bits,       \* the bits of the word that are set
    cell,       \* what the cell holds: nothing yet, the value, or nothing again
    fate,       \* history: who read the value
    close,      \* what the receiver wrote down of its close
    rx, tx,     \* where each half is
    rxWaker, txWaker,   \* a waker is registered
    rxWoken, txWoken,   \* the half's task was woken since its last poll began
    sent        \* what `send` answered

oneshotvars == <<bits, cell, fate, close, rx, tx, rxWaker, txWaker, rxWoken, txWoken, sent>>
wakers == <<rxWaker, txWaker, rxWoken, txWoken>>

OneshotInit ==
    /\ bits = {} /\ cell = "none" /\ fate = "unread" /\ close = "Open"
    /\ rx = "idle" /\ tx = "idle" /\ sent = "none"
    /\ rxWaker = FALSE /\ txWaker = FALSE /\ rxWoken = FALSE /\ txWoken = FALSE

Has(bit) == bit \in bits

\* The value is moved out of the cell, which nobody may do twice.
read_value(by) ==
    /\ cell' = "gone"
    /\ fate' = IF cell = "value" /\ fate = "unread" THEN by ELSE "misread"

wake_rx == rxWaker' = FALSE /\ rxWoken' = (rxWoken \/ rxWaker)
wake_tx == txWaker' = FALSE /\ txWoken' = (txWoken \/ txWaker)

-----------------------------------------------------------------------------
(* The sender.                                                             *)

\* send: the value is written, ...
send(v) ==
    /\ tx \in {"idle", "asleep"} /\ cell' = v /\ tx' = "publish"
    /\ UNCHANGED <<bits, fate, close, rx, wakers, sent>>

\* ... published, and read back if the receiver closed first.
send_publish ==
    /\ tx = "publish" /\ bits' = bits \cup {"VALUE_SENT", "TX_DROPPED"}
    /\ \/ ~Has("RX_CLOSED") /\ tx' = "wake" /\ sent' = "Ok" /\ UNCHANGED <<cell, fate>>
       \/ Has("RX_CLOSED") /\ tx' = "gone" /\ sent' = "Err" /\ read_value("returned")
    /\ UNCHANGED <<close, rx, wakers>>

\* The sender is dropped without sending.
tx_drop ==
    /\ tx \in {"idle", "asleep"} /\ bits' = bits \cup {"TX_DROPPED"}
    /\ tx' = IF Has("RX_CLOSED") THEN "gone" ELSE "wake"
    /\ UNCHANGED <<cell, fate, close, rx, wakers, sent>>

tx_wakes ==
    /\ tx = "wake" /\ wake_rx /\ tx' = "gone"
    /\ UNCHANGED <<bits, cell, fate, close, rx, txWaker, txWoken, sent>>

\* poll_closed: looks, registers, looks again.
poll_closed ==
    /\ tx \in {"idle", "asleep"} /\ txWoken' = FALSE
    /\ tx' = IF Has("RX_CLOSED") THEN "idle" ELSE "register"
    /\ UNCHANGED <<bits, cell, fate, close, rx, rxWaker, txWaker, rxWoken, sent>>

closed_register ==
    /\ tx = "register" /\ txWaker' = TRUE /\ tx' = "relook"
    /\ UNCHANGED <<bits, cell, fate, close, rx, rxWaker, rxWoken, txWoken, sent>>

closed_relook ==
    /\ tx = "relook" /\ tx' = IF Has("RX_CLOSED") THEN "idle" ELSE "asleep"
    /\ UNCHANGED <<bits, cell, fate, close, rx, wakers, sent>>

-----------------------------------------------------------------------------
(* The receiver.                                                           *)

\* resolve: the receive completes against the word as it was loaded, with the
\* value or without, and retires the handle, ...
Completes == close = "Empty" \/ Has("VALUE_SENT") \/ Has("TX_DROPPED")

\* Mutant: a receiver that closed empty reads a value sent later.
ResolveByWord ==
    \/ Has("VALUE_SENT") /\ read_value("received")
    \/ ~Has("VALUE_SENT") /\ UNCHANGED <<cell, fate>>

resolve ==
    \/ close # "Empty" /\ Has("VALUE_SENT") /\ read_value("received")
    \/ ~(close # "Empty" /\ Has("VALUE_SENT")) /\ UNCHANGED <<cell, fate>>

RxOpen == rx \in {"idle", "asleep"}

try_recv ==
    /\ RxOpen
    /\ \/ Completes /\ resolve /\ rx' = "gone"
       \/ ~Completes /\ UNCHANGED <<cell, fate, rx>>
    /\ UNCHANGED <<bits, close, tx, wakers, sent>>

\* ... or the poll's budget is spent, and the task is woken to poll again.
\* A poll looks, registers, and looks again.
poll ==
    /\ RxOpen
    /\ \/ Completes /\ resolve /\ rx' = "gone" /\ rxWoken' = FALSE
       \/ Completes /\ rx' = "asleep" /\ rxWoken' = TRUE /\ UNCHANGED <<cell, fate>>
       \/ ~Completes /\ rx' = "register" /\ rxWoken' = FALSE /\ UNCHANGED <<cell, fate>>
    /\ UNCHANGED <<bits, close, tx, rxWaker, txWaker, txWoken, sent>>

poll_register ==
    /\ rx = "register" /\ rxWaker' = TRUE /\ rx' = "relook"
    /\ UNCHANGED <<bits, cell, fate, close, tx, txWaker, rxWoken, txWoken, sent>>

\* Mutant: no second look.
RelookNever ==
    /\ rx = "relook" /\ rx' = "asleep"
    /\ UNCHANGED <<bits, cell, fate, close, tx, wakers, sent>>

poll_relook ==
    /\ rx = "relook"
    /\ \/ Completes /\ resolve /\ rx' = "gone" /\ UNCHANGED rxWoken
       \/ Completes /\ rx' = "asleep" /\ rxWoken' = TRUE /\ UNCHANGED <<cell, fate>>
       \/ ~Completes /\ rx' = "asleep" /\ UNCHANGED <<cell, fate, rxWoken>>
    /\ UNCHANGED <<bits, close, tx, rxWaker, txWaker, txWoken, sent>>

\* Receiver::close: later sends fail; the cell is the receiver's if the word
\* showed a value.  A receiver that is being awaited may close too.
rx_close ==
    /\ RxOpen /\ close = "Open"
    /\ bits' = bits \cup {"RX_CLOSED"}
    /\ close' = IF Has("VALUE_SENT") THEN "WithValue" ELSE "Empty"
    /\ rx' = IF Has("TX_DROPPED") THEN "idle" ELSE "wake"
    /\ UNCHANGED <<cell, fate, tx, wakers, sent>>

\* Mutant: only a receiver that closed by name wakes the sender.
CloseSilently ==
    /\ rx \in {"wake", "dropwake"}
    /\ rx' = IF rx = "wake" THEN "idle" ELSE "drop"
    /\ UNCHANGED <<bits, cell, fate, close, tx, wakers, sent>>

close_wakes ==
    /\ rx \in {"wake", "dropwake"} /\ wake_tx
    /\ rx' = IF rx = "wake" THEN "idle" ELSE "drop"
    /\ UNCHANGED <<bits, cell, fate, close, tx, rxWaker, rxWoken, sent>>

\* The receiver is dropped: it closes first unless it closed before.
rx_drop ==
    /\ RxOpen
    /\ \/ /\ close = "Open" /\ bits' = bits \cup {"RX_CLOSED"}
          /\ close' = IF Has("VALUE_SENT") THEN "WithValue" ELSE "Empty"
          /\ rx' = IF Has("TX_DROPPED") THEN "drop" ELSE "dropwake"
       \/ close # "Open" /\ rx' = "drop" /\ UNCHANGED <<bits, close>>
    /\ UNCHANGED <<cell, fate, tx, wakers, sent>>

\* Mutant: the value goes only if it was there when the receiver closed by name.
DropKeeps ==
    /\ rx = "drop" /\ rx' = "gone"
    /\ UNCHANGED <<cell, fate>>
    /\ UNCHANGED <<bits, close, tx, wakers, sent>>

\* A value it owns and never read is dropped.
rx_drops_value ==
    /\ rx = "drop" /\ rx' = "gone"
    /\ \/ close = "WithValue" /\ read_value("dropped")
       \/ close # "WithValue" /\ UNCHANGED <<cell, fate>>
    /\ UNCHANGED <<bits, close, tx, wakers, sent>>

-----------------------------------------------------------------------------
TxGoesOn == send_publish \/ tx_wakes \/ closed_register \/ closed_relook
RxGoesOn == poll_register \/ poll_relook \/ close_wakes \/ rx_drops_value
RxPolled == rx = "asleep" /\ rxWoken /\ poll
TxPolled == tx = "asleep" /\ txWoken /\ poll_closed

BothGone == rx = "gone" /\ tx = "gone" /\ UNCHANGED oneshotvars

OneshotNext == \/ send("value") \/ tx_drop \/ poll_closed \/ TxGoesOn
               \/ try_recv \/ poll \/ rx_close \/ rx_drop \/ RxGoesOn
               \/ BothGone

OneshotSpec == OneshotInit /\ [][OneshotNext]_oneshotvars

RxPolledThrough == RxPolled /\ rx' # "asleep"

\* A call that began ends, and a woken task is polled; a poll does not find its
\* budget spent for ever.
OneshotFair == /\ OneshotSpec
               /\ WF_oneshotvars(TxGoesOn) /\ WF_oneshotvars(RxGoesOn)
               /\ WF_oneshotvars(RxPolled) /\ WF_oneshotvars(TxPolled)
               /\ SF_oneshotvars(RxPolledThrough)

-----------------------------------------------------------------------------
(* Properties.                                                             *)

\* The variables have their types.
OneshotTypeOK ==
    /\ bits \subseteq {"VALUE_SENT", "RX_CLOSED", "TX_DROPPED"}
    /\ cell \in {"none", "value", "gone"}
    /\ fate \in {"unread", "returned", "received", "dropped"}
    /\ close \in {"Open", "WithValue", "Empty"}
    /\ rx \in {"idle", "asleep", "register", "relook", "wake", "dropwake", "drop", "gone"}
    /\ tx \in {"idle", "asleep", "publish", "wake", "register", "relook", "gone"}
    /\ {rxWaker, txWaker, rxWoken, txWoken} \subseteq BOOLEAN
    /\ sent \in {"none", "Ok", "Err"}

\* "A value is read by the sender (a failed send), by the receiver's take, or by
\* the receiver's drop, never by two of them": a value that went is read once,
\* and by the sender only if the send failed.
ReadOnce ==
    /\ fate # "misread"
    /\ fate = "returned" <=> sent = "Err"
    /\ fate \in {"received", "dropped"} => sent = "Ok"

\* "... and never leaked": with both halves gone nothing is in the cell.
NotLeaked == rx = "gone" /\ tx = "gone" => cell # "value"

\* A close wakes a sender that waits for it.
SenderTold ==
    tx = "asleep" /\ ~txWoken /\ Has("RX_CLOSED") => rx \in {"wake", "dropwake"}

\* The three together: a value is read once and not leaked, and a close is heard.
OneshotSafe == ReadOnce /\ NotLeaked /\ SenderTold

\* A value that was sent is received by a receiver that waits for it, unless the
\* receiver closes first.
SentTo == rx = "asleep" /\ Has("VALUE_SENT")
ReceivedOrClosed == fate = "received" \/ close # "Open"
SentReceived == SentTo ~> ReceivedOrClosed

-----------------------------------------------------------------------------
(* Proofs.  That the value is read once and not leaked, and that a close   *)
(* tells a sender that waits, rests on what the bits say of the two halves.*)

\* What the three bits of the word say of the two halves.
BitsSay ==
    /\ "VALUE_SENT" \in bits <=> sent # "none"
    /\ "TX_DROPPED" \in bits <=> tx \in {"wake", "gone"}
    /\ "RX_CLOSED" \in bits <=> close # "Open"
    /\ sent # "none" => tx \in {"wake", "gone"}

\* What each half knows of the other: a close that met a value owns it, one that
\* met none makes the send fail, and a receiver that is gone closed or was
\* answered.
HalvesKnow ==
    /\ close = "WithValue" => sent = "Ok"
    /\ close = "Empty" => sent # "Ok"
    /\ sent = "Err" => close = "Empty"
    /\ rx \in {"wake", "dropwake", "drop"} => close # "Open"
    /\ rx = "gone" /\ close = "Open" => tx \in {"wake", "gone"}

\* Where the value is.
ValueIs ==
    /\ sent = "none" => fate = "unread" /\ cell = IF tx = "publish" THEN "value" ELSE "none"
    /\ sent = "Ok" /\ rx # "gone" => cell = "value" /\ fate = "unread"
    /\ sent = "Ok" /\ rx = "gone" => cell = "gone" /\ fate \in {"received", "dropped"}
    /\ sent = "Err" => cell = "gone" /\ fate = "returned"

\* A sender that waits has its waker registered, until it is woken.
SenderRegistered == tx \in {"relook", "asleep"} /\ ~txWoken => txWaker

HalvesType ==
    /\ bits \subseteq {"VALUE_SENT", "RX_CLOSED", "TX_DROPPED"}
    /\ close \in {"Open", "WithValue", "Empty"} /\ sent \in {"none", "Ok", "Err"}
    /\ rx \in {"idle", "asleep", "register", "relook", "wake", "dropwake", "drop", "gone"}
    /\ tx \in {"idle", "asleep", "publish", "wake", "register", "relook", "gone"}

IInv == HalvesType /\ BitsSay /\ HalvesKnow /\ ValueIs /\ SenderRegistered /\ SenderTold

\* A new channel: neither half has taken a step.
LEMMA InitIInv == OneshotInit => IInv
BY DEF OneshotInit, IInv, HalvesType, BitsSay, HalvesKnow, ValueIs, SenderRegistered, SenderTold, Has

\* The sender's steps (its send, its drop and its wait for the close) keep the word,
\* the value and the registrations as the invariant has them.
LEMMA TxStep ==
  ASSUME IInv, send("value") \/ tx_drop \/ poll_closed \/ TxGoesOn
  PROVE  IInv'
<1> USE DEF IInv, HalvesType, BitsSay, HalvesKnow, ValueIs, SenderRegistered, SenderTold, Has, wakers
<1>1. CASE send("value")   BY <1>1 DEF send
<1>2. CASE tx_drop         BY <1>2 DEF tx_drop
<1>3. CASE poll_closed     BY <1>3 DEF poll_closed
<1>4. CASE send_publish    BY <1>4 DEF send_publish, read_value
<1>5. CASE tx_wakes        BY <1>5 DEF tx_wakes, wake_rx
<1>6. CASE closed_register BY <1>6 DEF closed_register
<1>7. CASE closed_relook   BY <1>7 DEF closed_relook
<1> QED BY <1>1, <1>2, <1>3, <1>4, <1>5, <1>6, <1>7 DEF TxGoesOn

\* The receiver's steps: its poll, try_recv, close and drop do.
LEMMA RxStep ==
  ASSUME IInv, try_recv \/ poll \/ rx_close \/ rx_drop \/ RxGoesOn
  PROVE  IInv'
<1> USE DEF IInv, HalvesType, BitsSay, HalvesKnow, ValueIs, SenderRegistered, SenderTold, Has, wakers, RxOpen
<1>1. CASE try_recv       BY <1>1 DEF try_recv, Completes, resolve, read_value
<1>2. CASE poll           BY <1>2 DEF poll, Completes, resolve, read_value
<1>3. CASE rx_close       BY <1>3 DEF rx_close
<1>4. CASE rx_drop        BY <1>4 DEF rx_drop
<1>5. CASE poll_register  BY <1>5 DEF poll_register
<1>6. CASE poll_relook    BY <1>6 DEF poll_relook, Completes, resolve, read_value
<1>7. CASE close_wakes    BY <1>7 DEF close_wakes, wake_tx
<1>8. CASE rx_drops_value BY <1>8 DEF rx_drops_value, read_value
<1> QED BY <1>1, <1>2, <1>3, <1>4, <1>5, <1>6, <1>7, <1>8 DEF RxGoesOn

\* The word of a oneshot says which half is where, whose waker is registered and where
\* the value is (sync/oneshot.rs), in every state.
THEOREM OneshotInvariant == OneshotSpec => []IInv
<1>1. IInv /\ [OneshotNext]_oneshotvars => IInv'
  <2> SUFFICES ASSUME IInv, [OneshotNext]_oneshotvars PROVE IInv'
    OBVIOUS
  <2>1. CASE BothGone \/ UNCHANGED oneshotvars
    BY <2>1 DEF BothGone, oneshotvars, IInv, HalvesType, BitsSay, HalvesKnow, ValueIs, SenderRegistered, SenderTold, Has
  <2> QED BY <2>1, TxStep, RxStep DEF OneshotNext
<1> QED BY <1>1, InitIInv, PTL DEF OneshotSpec

\* The value of a oneshot is read at most once, by one half; it is not leaked once
\* both halves are gone; and a sender that waits for the close is told of it
\* (sync/oneshot.rs: send, poll, close, resolve).
THEOREM OneshotIsSafe == OneshotSpec => []OneshotSafe
<1>1. IInv => OneshotSafe
  BY DEF IInv, HalvesType, ValueIs, BitsSay, OneshotSafe, ReadOnce, NotLeaked
<1> QED BY <1>1, OneshotInvariant, PTL
=============================================================================
