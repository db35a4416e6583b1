--------------------------- MODULE NotifierProofs ---------------------------
(* Machine-checked proofs about Notifier, for every value of its constants. *)
EXTENDS Notifier, FiniteSetTheorems, TLAPS

\* Counting one more of anything keeps the tallies well formed.
LEMMA CountType ==
  ASSUME NEW c \in Counters, NEW f \in {"sent", "failed", "dropped", "suppressed"}
  PROVE  [c EXCEPT ![f] = @ + 1] \in Counters
BY DEF Counters

\* What a settled delivery leaves behind.
LEMMA SettleType ==
  ASSUME DeliveryTypeOK, NEW f \in {"sent", "failed", "dropped"}, Settle(f)
  PROVE  /\ counters' \in Counters
         /\ wpc' \in {"select", "drain"}
         /\ attempt' \in 0..MaxRetries
<1>1. counters' \in Counters
  BY CountType DEF DeliveryTypeOK, Settle
<1>2. attempt' \in 0..MaxRetries
  BY ConfigAssumption DEF Settle
<1>3. wpc' \in {"select", "drain"}
  BY DEF Settle
<1>4. QED
  BY <1>1, <1>2, <1>3

\* What the start of a delivery leaves behind.
LEMMA DeliverType ==
  ASSUME DeliveryTypeOK, Deliver
  PROVE  /\ counters' \in Counters
         /\ wpc' \in {"select", "pacing", "sending", "drain"}
         /\ attempt' \in 0..MaxRetries
         /\ UNCHANGED <<lastSend, draining, expired>>
BY SettleType DEF DeliveryTypeOK, Deliver

\* The cooldown map stays a map from keys to times.
LEMMA PruneType ==
  ASSUME ThrottleTypeOK
  PROVE  pruneCooldowns \in [Keys -> Nat \cup {Zero}]
BY DEF ThrottleTypeOK, pruneCooldowns, mustClear

LEMMA TypeInit == Init => TypeOK
<1> SUFFICES ASSUME Init PROVE TypeOK
  OBVIOUS
<1>1. ThrottleTypeOK
  BY ConfigAssumption DEF Init, ThrottleTypeOK, Zero
<1>2. counters \in Counters
  BY DEF Init, Counters
<1>3. DeliveryTypeOK
  <2>1. /\ queue \in Seq(Message) /\ Len(queue) <= QueueSize
        /\ attempt \in 0..MaxRetries /\ lastSend \in Nat \cup {Zero}
    BY ConfigAssumption DEF Init
  <2>2. QED
    BY <1>2, <2>1 DEF Init, DeliveryTypeOK
<1>4. digests \in Digests
  BY DEF Init, Digests
<1>5. HistoryTypeOK
  BY <1>4 DEF Init, HistoryTypeOK
<1>6. QED
  BY <1>1, <1>3, <1>5 DEF TypeOK

LEMMA TypeSending == TypeOK /\ Sending => TypeOK'
<1> SUFFICES ASSUME ThrottleTypeOK, DeliveryTypeOK, HistoryTypeOK, Sending
             PROVE  ThrottleTypeOK' /\ DeliveryTypeOK' /\ HistoryTypeOK'
  BY DEF TypeOK
<1> USE ConfigAssumption
<1>1. windowStart \in Nat /\ windowCount \in 0..MaxAlertsPerHour
  BY DEF ThrottleTypeOK, windowStart, windowCount
<1>2. ASSUME NEW s \in Senders, NEW k \in Message, SendSuppressed(s, k)
      PROVE  ThrottleTypeOK' /\ DeliveryTypeOK' /\ HistoryTypeOK'
  <2>1. ThrottleTypeOK'
    BY <1>1, <1>2 DEF ThrottleTypeOK, SendSuppressed
  <2>2. counters' \in Counters
    BY <1>2, CountType DEF DeliveryTypeOK, SendSuppressed
  <2>3. DeliveryTypeOK'
    BY <1>2, <2>2 DEF DeliveryTypeOK, SendSuppressed, delivery
  <2>4. HistoryTypeOK'
    BY <1>2 DEF HistoryTypeOK, SendSuppressed
  <2>5. QED
    BY <2>1, <2>3, <2>4
<1>3. ASSUME NEW s \in Senders, NEW k \in Message, SendAdmitted(s, k)
      PROVE  ThrottleTypeOK' /\ DeliveryTypeOK' /\ HistoryTypeOK'
  <2>1. lastSent' \in [Keys -> Nat \cup {Zero}]
    BY <1>3, PruneType DEF SendAdmitted, ThrottleTypeOK
  <2>2. ThrottleTypeOK'
    BY <1>1, <1>3, <2>1 DEF SendAdmitted, ThrottleTypeOK
  <2>3. DeliveryTypeOK'
    BY <1>3 DEF SendAdmitted, DeliveryTypeOK, delivery
  <2>4. clears' \in Nat
    BY <1>3 DEF SendAdmitted, HistoryTypeOK
  <2>5. [key |-> k, at |-> now, gen |-> clears'] \in Admission
    BY <2>4 DEF ThrottleTypeOK, Admission
  <2>6. HistoryTypeOK'
    BY <1>3, <2>4, <2>5 DEF SendAdmitted, HistoryTypeOK
  <2>7. QED
    BY <2>2, <2>3, <2>6
<1>4. ASSUME NEW s \in Senders, Enqueue(s)
      PROVE  ThrottleTypeOK' /\ DeliveryTypeOK' /\ HistoryTypeOK'
  <2>1. held[s] \in Message
    BY <1>4 DEF Enqueue, ThrottleTypeOK
  <2>2. queue' \in Seq(Message) /\ Len(queue') <= QueueSize
    BY <1>4, <2>1 DEF Enqueue, DeliveryTypeOK
  <2>3. QED
    BY <1>4, <2>2
    DEF Enqueue, ThrottleTypeOK, DeliveryTypeOK, HistoryTypeOK, delivery, throttle
<1>5. ASSUME NEW s \in Senders, QueueFull(s)
      PROVE  ThrottleTypeOK' /\ DeliveryTypeOK' /\ HistoryTypeOK'
  <2>1. counters' \in Counters
    BY <1>5, CountType DEF DeliveryTypeOK, QueueFull
  <2>2. ThrottleTypeOK'
    BY <1>5 DEF QueueFull, ThrottleTypeOK, throttle
  <2>3. DeliveryTypeOK'
    BY <1>5, <2>1 DEF QueueFull, DeliveryTypeOK, delivery
  <2>4. HistoryTypeOK'
    BY <1>5 DEF QueueFull, HistoryTypeOK
  <2>5. QED
    BY <2>2, <2>3, <2>4
<1>6. QED
  BY <1>2, <1>3, <1>4, <1>5 DEF Sending

\* A step of the worker that leaves the senders and Close alone.
LEMMA TypeFrame ==
  ASSUME ThrottleTypeOK, HistoryTypeOK, UNCHANGED idleRest
  PROVE  /\ ThrottleTypeOK' /\ HistoryTypeOK'
         /\ UNCHANGED <<now, queue, closer>>
BY DEF ThrottleTypeOK, HistoryTypeOK, idleRest, throttle

LEMMA TypeAttempt ==
  ASSUME ThrottleTypeOK, DeliveryTypeOK, HistoryTypeOK,
         \/ PaceDone \/ PaceInterrupted \/ SendSucceeds \/ SendRejected
         \/ \E retryAfter \in BOOLEAN : SendFails(retryAfter)
         \/ Retry \/ RetryInterrupted
  PROVE  ThrottleTypeOK' /\ DeliveryTypeOK' /\ HistoryTypeOK'
<1>1. UNCHANGED idleRest
  BY DEF PaceDone, PaceInterrupted, SendSucceeds, SendRejected, SendFails,
         Retry, RetryInterrupted
<1>2. lastSend' \in Nat \cup {Zero} /\ UNCHANGED <<draining, expired>>
  BY DEF PaceDone, PaceInterrupted, SendSucceeds, SendRejected, SendFails,
         Retry, RetryInterrupted, ThrottleTypeOK, DeliveryTypeOK
<1>3. /\ counters' \in Counters
      /\ wpc' \in {"select", "pacing", "sending", "backoff", "drain", "stopped"}
      /\ attempt' \in 0..MaxRetries
  <2>1. CASE \E f \in {"sent", "failed", "dropped"} : Settle(f)
    BY <2>1, SettleType
  <2>2. CASE ~\E f \in {"sent", "failed", "dropped"} : Settle(f)
    <3>1. PaceDone \/ (\E retryAfter \in BOOLEAN : SendFails(retryAfter)) \/ Retry
      BY <2>2 DEF PaceInterrupted, SendSucceeds, SendRejected, RetryInterrupted
    <3>2. /\ counters' = counters
          /\ wpc' \in {"sending", "backoff"}
      BY <2>2, <3>1 DEF PaceDone, SendFails, Retry
    <3>3. attempt' \in 0..MaxRetries
      BY <2>2, <3>1, ConfigAssumption DEF PaceDone, SendFails, Retry, DeliveryTypeOK
    <3>4. QED
      BY <3>2, <3>3 DEF DeliveryTypeOK
  <2>3. QED
    BY <2>1, <2>2
<1>4. QED
  BY <1>1, <1>2, <1>3, TypeFrame DEF DeliveryTypeOK

LEMMA TypeWorker == TypeOK /\ Worker => TypeOK'
<1> SUFFICES ASSUME ThrottleTypeOK, DeliveryTypeOK, HistoryTypeOK, Worker
             PROVE  ThrottleTypeOK' /\ DeliveryTypeOK' /\ HistoryTypeOK'
  BY DEF TypeOK
<1>1. queue # <<>> => Tail(queue) \in Seq(Message) /\ Len(Tail(queue)) <= QueueSize
  BY ConfigAssumption DEF DeliveryTypeOK
<1>2. CASE TakeMessage
  <2>1. DeliveryTypeOK'
    BY <1>1, <1>2, DeliverType DEF TakeMessage, DeliveryTypeOK
  <2>2. QED
    BY <1>2, <2>1 DEF TakeMessage, ThrottleTypeOK, HistoryTypeOK, throttle
<1>3. CASE TakeDigest
  <2>1. DeliveryTypeOK'
    BY <1>3, DeliverType DEF TakeDigest, DeliveryTypeOK
  <2>2. digests' \in Digests /\ reported' \in Nat
    BY <1>3 DEF TakeDigest, ThrottleTypeOK, HistoryTypeOK, Digests
  <2>3. QED
    BY <1>3, <2>1, <2>2 DEF TakeDigest, ThrottleTypeOK, HistoryTypeOK, throttle
<1>4. CASE \/ PaceDone \/ PaceInterrupted \/ SendSucceeds \/ SendRejected
           \/ \E retryAfter \in BOOLEAN : SendFails(retryAfter)
           \/ Retry \/ RetryInterrupted
  BY <1>4, TypeAttempt
<1>5. CASE StartDrain
  BY <1>5, TypeFrame DEF StartDrain, DeliveryTypeOK
<1>6. CASE DrainMessage
  <2>1. /\ counters' \in Counters
        /\ wpc' \in {"select", "pacing", "sending", "drain"}
        /\ attempt' \in 0..MaxRetries
        /\ UNCHANGED <<lastSend, draining, expired>>
    BY <1>6, DeliverType, SettleType DEF DrainMessage
  <2>2. DeliveryTypeOK'
    BY <1>1, <1>6, <2>1 DEF DrainMessage, DeliveryTypeOK
  <2>3. QED
    BY <1>6, <2>2 DEF DrainMessage, ThrottleTypeOK, HistoryTypeOK, throttle
<1>7. CASE FinishDrain
  BY <1>7, TypeFrame DEF FinishDrain, DeliveryTypeOK
<1>8. QED
  BY <1>2, <1>3, <1>4, <1>5, <1>6, <1>7 DEF Worker

LEMMA TypeClosing == TypeOK /\ Closing => TypeOK'
<1> SUFFICES ASSUME ThrottleTypeOK, DeliveryTypeOK, HistoryTypeOK, Closing
             PROVE  ThrottleTypeOK' /\ DeliveryTypeOK' /\ HistoryTypeOK'
  BY DEF TypeOK
<1>1. CASE CloseTakesDigest
  <2>1. digests' \in Digests /\ reported' \in Nat
    BY <1>1 DEF CloseTakesDigest, ThrottleTypeOK, HistoryTypeOK, Digests
  <2>2. closer' \in {"holding", "pushed"}
    BY <1>1 DEF CloseTakesDigest
  <2>3. QED
    BY <1>1, <2>1, <2>2 DEF CloseTakesDigest, closeRest, delivery, throttle,
         ThrottleTypeOK, DeliveryTypeOK, HistoryTypeOK
<1>2. CASE ClosePushesDigest
  <2>1. digests' \in Digests
    BY <1>2 DEF ClosePushesDigest, HistoryTypeOK, Digests
  <2>2. queue' \in Seq(Message) /\ Len(queue') <= QueueSize
    <3>1. NoKey \in Message
      BY DEF Message
    <3>2. queue \in Seq(Message) /\ Len(queue) <= QueueSize
      BY DEF DeliveryTypeOK
    <3>3. \/ Len(queue) < QueueSize /\ queue' = Append(queue, NoKey)
          \/ queue' = queue
      BY <1>2 DEF ClosePushesDigest
    <3>4. QED
      BY <3>1, <3>2, <3>3, ConfigAssumption
  <2>3. QED
    BY <1>2, <2>1, <2>2 DEF ClosePushesDigest, closeRest, delivery, throttle,
         ThrottleTypeOK, DeliveryTypeOK, HistoryTypeOK
<1>3. CASE CloseStops \/ CloseReturns
  BY <1>3 DEF CloseStops, CloseReturns, closeRest, delivery, throttle,
       ThrottleTypeOK, DeliveryTypeOK, HistoryTypeOK
<1>4. QED
  BY <1>1, <1>2, <1>3 DEF Closing

LEMMA TypeStep == TypeOK /\ [Next]_vars => TypeOK'
<1> SUFFICES ASSUME TypeOK, [Next]_vars PROVE TypeOK'
  OBVIOUS
<1>1. CASE Tick
  BY <1>1 DEF Tick, TypeOK, ThrottleTypeOK, DeliveryTypeOK, HistoryTypeOK,
       delivery, throttle
<1>2. CASE DrainDeadline
  BY <1>2 DEF DrainDeadline, idleRest, TypeOK, ThrottleTypeOK, DeliveryTypeOK,
       HistoryTypeOK, throttle
<1>3. CASE UNCHANGED vars
  BY <1>3 DEF vars, TypeOK, ThrottleTypeOK, DeliveryTypeOK, HistoryTypeOK,
       delivery, throttle
<1>4. QED
  BY <1>1, <1>2, <1>3, TypeSending, TypeWorker, TypeClosing DEF Next

\* The notifier is type correct: the channel stays within its capacity, the
\* hour within its cap, a message within its attempts.
THEOREM TypeCorrect == Spec => []TypeOK
BY TypeInit, TypeStep, PTL DEF Spec

-----------------------------------------------------------------------------
(* No message goes missing.                                                *)

\* What the worker has taken: the message at hand and those it settled.
Handled == InHand + counters.sent + counters.failed + counters.dropped

LEMMA HoldersFinite == IsFiniteSet(Holders) /\ Cardinality(Holders) \in Nat
BY ConfigAssumption, FS_Subset, FS_CardinalityType DEF Holders

\* A grant adds one holder.
LEMMA HoldersGrow ==
  ASSUME ThrottleTypeOK, NEW s \in Senders, NEW k \in Message,
         held[s] = None, held' = [held EXCEPT ![s] = k]
  PROVE  Cardinality(Holders') = Cardinality(Holders) + 1
<1>1. Holders' = Holders \cup {s} /\ s \notin Holders
  BY ConfigAssumption DEF Holders, ThrottleTypeOK, Message
<1>2. QED
  BY <1>1, HoldersFinite, FS_AddElement

\* A push, whether it succeeds or not, removes one.
LEMMA HoldersShrink ==
  ASSUME ThrottleTypeOK, NEW s \in Senders,
         held[s] # None, held' = [held EXCEPT ![s] = None]
  PROVE  Cardinality(Holders') = Cardinality(Holders) - 1
<1>1. Holders' = Holders \ {s} /\ s \in Holders
  BY DEF Holders, ThrottleTypeOK
<1>2. QED
  BY <1>1, HoldersFinite, FS_RemoveElement

LEMMA HandledType == DeliveryTypeOK => Handled \in Nat
BY DEF DeliveryTypeOK, Handled, InHand, Counters

\* Settling a message at hand changes nothing, settling another counts one.
LEMMA HandledSettle ==
  ASSUME DeliveryTypeOK, NEW f \in {"sent", "failed", "dropped"}, Settle(f)
  PROVE  Handled' = IF busy THEN Handled ELSE Handled + 1
<1>1. /\ counters.sent \in Nat /\ counters.failed \in Nat /\ counters.dropped \in Nat
      /\ counters' = [counters EXCEPT ![f] = @ + 1]
      /\ ~busy'
  BY DEF DeliveryTypeOK, Counters, Settle, busy
<1>2. counters'.sent + counters'.failed + counters'.dropped
        = counters.sent + counters.failed + counters.dropped + 1
  BY <1>1 DEF DeliveryTypeOK, Counters
<1>3. QED
  BY <1>1, <1>2 DEF Handled, InHand

\* deliver takes its message in hand or drops it there and then.
LEMMA HandledDeliver ==
  ASSUME DeliveryTypeOK, ~busy, Deliver
  PROVE  Handled' = Handled + 1
<1>1. CASE Settle("dropped")
  BY <1>1, HandledSettle
<1>2. CASE busy' /\ counters' = counters
  BY <1>2 DEF Handled, InHand, DeliveryTypeOK, Counters
<1>3. QED
  BY <1>1, <1>2 DEF Deliver, busy

\* The attempts at one message neither lose nor duplicate it.
LEMMA HandledAttempt ==
  ASSUME DeliveryTypeOK,
         \/ PaceDone \/ PaceInterrupted \/ SendSucceeds \/ SendRejected
         \/ \E retryAfter \in BOOLEAN : SendFails(retryAfter)
         \/ Retry \/ RetryInterrupted
  PROVE  Handled' = Handled
<1>1. busy
  BY DEF busy, PaceDone, PaceInterrupted, SendSucceeds, SendRejected, SendFails,
         Retry, RetryInterrupted
<1>2. \/ \E f \in {"sent", "failed", "dropped"} : Settle(f)
      \/ busy' /\ counters' = counters
  BY DEF busy, PaceDone, PaceInterrupted, SendSucceeds, SendRejected, SendFails,
         Retry, RetryInterrupted
<1>3. QED
  BY <1>1, <1>2, HandledSettle DEF Handled, InHand

LEMMA AccountedInit == Init => Accounted
<1> SUFFICES ASSUME Init PROVE Accounted
  OBVIOUS
<1>1. Holders = {}
  BY DEF Init, Holders
<1>2. Cardinality(Holders) = 0
  BY <1>1, FS_EmptySet
<1>3. QED
  BY <1>2 DEF Init, Accounted, busy, InHand, Holding

\* Accounted, as what was put into the delivery path, what waits in it and what
\* the worker has taken from it.
Made    == Len(admits) + digests.made
Waiting == Cardinality(Holders) + Len(queue) + Holding + digests.lost
Balance == Made = Waiting + Handled

LEMMA BalanceType ==
  ASSUME TypeOK
  PROVE  /\ Cardinality(Holders) \in Nat /\ Holding \in Nat
         /\ Len(queue) \in Nat /\ Len(admits) \in Nat
         /\ digests.made \in Nat /\ digests.lost \in Nat
         /\ Made \in Nat /\ Waiting \in Nat /\ Handled \in Nat
<1>1. /\ Cardinality(Holders) \in Nat /\ Handled \in Nat /\ Holding \in Nat
      /\ Len(queue) \in Nat /\ Len(admits) \in Nat
      /\ digests.made \in Nat /\ digests.lost \in Nat
  BY HoldersFinite, HandledType
  DEF TypeOK, DeliveryTypeOK, HistoryTypeOK, Digests, Holding
<1>2. QED
  BY <1>1 DEF Made, Waiting

LEMMA BalanceIsAccounted ==
  ASSUME TypeOK
  PROVE  Balance <=> Accounted
<1>1. /\ counters.sent \in Nat /\ counters.failed \in Nat
      /\ counters.dropped \in Nat /\ InHand \in Nat
  BY DEF TypeOK, DeliveryTypeOK, Counters, InHand
<1>2. Waiting + Handled
        = Cardinality(Holders) + Len(queue) + InHand + Holding + digests.lost
            + counters.sent + counters.failed + counters.dropped
  <2>0. Waiting \in Nat
    BY BalanceType
  <2>1. Waiting + Handled = Waiting + InHand + counters.sent + counters.failed
                              + counters.dropped
    BY <1>1, <2>0 DEF Handled
  <2>2. Waiting + InHand
          = Cardinality(Holders) + Len(queue) + InHand + Holding + digests.lost
    BY <1>1, BalanceType DEF Waiting
  <2>3. QED
    BY <2>1, <2>2
<1>3. QED
  BY <1>2 DEF Balance, Accounted, Made

\* A move within the delivery path, and one into it.
LEMMA BalanceMove ==
  ASSUME TypeOK, Balance, NEW d \in {-1, 0, 1}, NEW e \in {-1, 0, 1},
         Made' = Made + d + e, Waiting' = Waiting + d, Handled' = Handled + e
  PROVE  Balance'
<1>1. Made \in Nat /\ Waiting \in Nat /\ Handled \in Nat /\ d \in Int /\ e \in Int
  BY BalanceType
<1>2. Made = Waiting + Handled
  BY DEF Balance
<1>3. Made + d + e = (Waiting + d) + (Handled + e)
  BY <1>1, <1>2
<1>4. QED
  BY <1>3 DEF Balance

\* Steps that leave the books alone.
LEMMA BalanceFrame ==
  ASSUME TypeOK, Balance, Handled' = Handled,
         UNCHANGED <<held, admits, digests, queue, Holding>>
  PROVE  Balance'
BY DEF Balance, Made, Waiting, Holders

LEMMA BalanceSending == TypeOK /\ Balance /\ Sending => Balance'
<1> SUFFICES ASSUME TypeOK, Balance, Sending PROVE Balance'
  OBVIOUS
<1>1. ASSUME NEW s \in Senders, NEW k \in Message, SendSuppressed(s, k)
      PROVE  Balance'
  <2>1. Handled' = Handled
    BY <1>1 DEF SendSuppressed, delivery, Handled, InHand, busy, TypeOK,
         DeliveryTypeOK, Counters
  <2>2. QED
    BY <1>1, <2>1, BalanceFrame DEF SendSuppressed, Holding
<1>2. ASSUME NEW s \in Senders, NEW k \in Message, SendAdmitted(s, k)
      PROVE  Balance'
  <2>1. Handled' = Handled + 0
    BY <1>2, BalanceType DEF SendAdmitted, delivery, Handled, InHand, busy
  <2>2. Waiting' = Waiting + 1
    <3>1. Cardinality(Holders') = Cardinality(Holders) + 1
      BY <1>2, HoldersGrow DEF SendAdmitted, TypeOK
    <3>2. UNCHANGED <<queue, digests, Holding>>
      BY <1>2 DEF SendAdmitted, Holding
    <3>3. QED
      BY <3>1, <3>2, BalanceType DEF Waiting
  <2>3. Made' = Made + 1 + 0
    <3>1. PICK a : admits' = Append(admits, a)
      BY <1>2 DEF SendAdmitted
    <3>2. UNCHANGED digests
      BY <1>2 DEF SendAdmitted
    <3>3. Len(admits') = Len(admits) + 1
      BY <3>1 DEF TypeOK, HistoryTypeOK
    <3>4. QED
      BY <3>2, <3>3, BalanceType DEF Made
  <2>4. QED
    BY <2>1, <2>2, <2>3, BalanceMove
<1>3. ASSUME NEW s \in Senders, Enqueue(s)
      PROVE  Balance'
  <2>1. Handled' = Handled + 0
    BY <1>3, BalanceType DEF Enqueue, delivery, Handled, InHand, busy
  <2>2. Waiting' = Waiting + 0
    <3>1. Cardinality(Holders') = Cardinality(Holders) - 1
      BY <1>3, HoldersShrink DEF Enqueue, TypeOK
    <3>2. Len(queue') = Len(queue) + 1
      BY <1>3 DEF Enqueue, TypeOK, DeliveryTypeOK
    <3>3. UNCHANGED <<digests, Holding>>
      BY <1>3 DEF Enqueue, Holding
    <3>4. QED
      BY <3>1, <3>2, <3>3, BalanceType DEF Waiting
  <2>3. Made' = Made + 0 + 0
    BY <1>3, BalanceType DEF Enqueue, Made
  <2>4. QED
    BY <2>1, <2>2, <2>3, BalanceMove
<1>4. ASSUME NEW s \in Senders, QueueFull(s)
      PROVE  Balance'
  <2>1. Handled' = Handled + 1
    <3>1. UNCHANGED wpc /\ counters' = [counters EXCEPT !.dropped = @ + 1]
      BY <1>4 DEF QueueFull, delivery
    <3>2. /\ counters.sent \in Nat /\ counters.failed \in Nat /\ counters.dropped \in Nat
          /\ counters'.sent = counters.sent /\ counters'.failed = counters.failed
          /\ counters'.dropped = counters.dropped + 1
      BY <3>1 DEF TypeOK, DeliveryTypeOK, Counters
    <3>3. InHand' = InHand /\ InHand \in Nat
      BY <3>1 DEF InHand, busy
    <3>4. QED
      BY <3>2, <3>3 DEF Handled
  <2>2. Waiting' = Waiting + (-1)
    <3>1. Cardinality(Holders') = Cardinality(Holders) - 1
      BY <1>4, HoldersShrink DEF QueueFull, TypeOK
    <3>2. UNCHANGED <<queue, digests, Holding>>
      BY <1>4 DEF QueueFull, Holding
    <3>3. QED
      BY <3>1, <3>2, BalanceType DEF Waiting
  <2>3. Made' = Made + (-1) + 1
    BY <1>4, BalanceType DEF QueueFull, Made
  <2>4. QED
    BY <2>1, <2>2, <2>3, BalanceMove
<1>5. QED
  BY <1>1, <1>2, <1>3, <1>4 DEF Sending

LEMMA BalanceWorker == TypeOK /\ Balance /\ Worker => Balance'
<1> SUFFICES ASSUME TypeOK, Balance, Worker PROVE Balance'
  OBVIOUS
<1>1. CASE TakeMessage \/ DrainMessage
  <2>1. ~busy /\ queue # <<>> /\ queue' = Tail(queue)
    BY <1>1 DEF TakeMessage, DrainMessage, busy
  <2>2. Handled' = Handled + 1
    BY <1>1, <2>1, HandledDeliver, HandledSettle
    DEF TakeMessage, DrainMessage, TypeOK
  <2>3. UNCHANGED <<admits, digests, Holders, Holding>>
    BY <1>1 DEF TakeMessage, DrainMessage, Holders, Holding
  <2>4. Len(queue') = Len(queue) - 1
    BY <2>1 DEF TypeOK, DeliveryTypeOK
  <2>5. Waiting' = Waiting + (-1)
    BY <2>3, <2>4, BalanceType DEF Waiting
  <2>6. Made' = Made + (-1) + 1
    BY <2>3, BalanceType DEF Made
  <2>7. QED
    BY <2>2, <2>5, <2>6, BalanceMove
<1>2. CASE TakeDigest
  <2>1. Handled' = Handled + 1
    BY <1>2, HandledDeliver DEF TakeDigest, busy, TypeOK
  <2>2. digests'.made = digests.made + 1 /\ digests'.lost = digests.lost
    BY <1>2 DEF TakeDigest, TypeOK, HistoryTypeOK, Digests
  <2>3. UNCHANGED <<admits, queue, Holders, Holding>>
    BY <1>2 DEF TakeDigest, Holders, Holding
  <2>4. Waiting' = Waiting + 0
    BY <2>2, <2>3, BalanceType DEF Waiting
  <2>5. Made' = Made + 0 + 1
    BY <2>2, <2>3, BalanceType DEF Made
  <2>6. QED
    BY <2>1, <2>4, <2>5, BalanceMove
<1>3. CASE \/ PaceDone \/ PaceInterrupted \/ SendSucceeds \/ SendRejected
           \/ \E retryAfter \in BOOLEAN : SendFails(retryAfter)
           \/ Retry \/ RetryInterrupted
  <2>1. Handled' = Handled
    BY <1>3, HandledAttempt DEF TypeOK
  <2>2. UNCHANGED idleRest
    BY <1>3 DEF PaceDone, PaceInterrupted, SendSucceeds, SendRejected, SendFails,
         Retry, RetryInterrupted
  <2>3. QED
    BY <2>1, <2>2, BalanceFrame DEF idleRest, Holding
<1>4. CASE StartDrain \/ FinishDrain
  <2>1. Handled' = Handled /\ UNCHANGED idleRest
    BY <1>4 DEF StartDrain, FinishDrain, Handled, InHand, busy
  <2>2. QED
    BY <2>1, BalanceFrame DEF idleRest, Holding
<1>5. QED
  BY <1>1, <1>2, <1>3, <1>4 DEF Worker

LEMMA BalanceClosing == TypeOK /\ Balance /\ Closing => Balance'
<1> SUFFICES ASSUME TypeOK, Balance, Closing PROVE Balance'
  OBVIOUS
<1>1. Handled' = Handled + 0 /\ UNCHANGED <<admits, Holders>>
  <2>1. UNCHANGED <<wpc, counters, admits, held>>
    BY DEF Closing, CloseTakesDigest, ClosePushesDigest, CloseStops, CloseReturns,
           closeRest, delivery
  <2>2. QED
    BY <2>1, BalanceType DEF Handled, InHand, busy, Holders
<1>2. CASE CloseTakesDigest
  <2>1. digests'.lost = digests.lost /\ UNCHANGED queue /\ Holding = 0
    BY <1>2 DEF CloseTakesDigest, TypeOK, HistoryTypeOK, Digests, Holding
  <2>2. \/ Holding' = 0 /\ digests'.made = digests.made
        \/ Holding' = 1 /\ digests'.made = digests.made + 1
    BY <1>2 DEF CloseTakesDigest, TypeOK, HistoryTypeOK, Digests, Holding
  <2>3. PICK d \in {0, 1} : Holding' = Holding + d /\ digests'.made = digests.made + d
    BY <2>1, <2>2, BalanceType
  <2>4. Waiting' = Waiting + d
    BY <1>1, <2>1, <2>3, BalanceType DEF Waiting
  <2>5. Made' = Made + d + 0
    BY <1>1, <2>3, BalanceType DEF Made
  <2>6. QED
    BY <1>1, <2>4, <2>5, BalanceMove
<1>3. CASE ClosePushesDigest
  <2>1. digests'.made = digests.made /\ Holding = 1 /\ Holding' = 0
    BY <1>3 DEF ClosePushesDigest, TypeOK, HistoryTypeOK, Digests, Holding
  <2>2. \/ Len(queue') = Len(queue) + 1 /\ digests'.lost = digests.lost
        \/ UNCHANGED queue /\ digests'.lost = digests.lost + 1
    BY <1>3 DEF ClosePushesDigest, TypeOK, HistoryTypeOK, DeliveryTypeOK, Digests
  <2>3. Waiting' = Waiting + 0
    <3>1. /\ Cardinality(Holders) \in Nat /\ Len(queue) \in Nat /\ digests.lost \in Nat
          /\ Cardinality(Holders') = Cardinality(Holders)
      BY <1>1, BalanceType
    <3>2. CASE Len(queue') = Len(queue) + 1 /\ digests'.lost = digests.lost
      BY <2>1, <3>1, <3>2 DEF Waiting
    <3>3. CASE UNCHANGED queue /\ digests'.lost = digests.lost + 1
      BY <2>1, <3>1, <3>3 DEF Waiting
    <3>4. QED
      BY <2>2, <3>2, <3>3
  <2>4. Made' = Made + 0 + 0
    BY <1>1, <2>1, BalanceType DEF Made
  <2>5. QED
    BY <1>1, <2>3, <2>4, BalanceMove
<1>4. CASE CloseStops \/ CloseReturns
  <2>1. UNCHANGED <<held, admits, digests, queue, Holding>>
    BY <1>4 DEF CloseStops, CloseReturns, closeRest, Holding
  <2>2. Handled' = Handled
    BY <1>1, BalanceType
  <2>3. QED
    BY <2>1, <2>2, BalanceFrame
<1>5. QED
  BY <1>2, <1>3, <1>4 DEF Closing

LEMMA BalanceStep == TypeOK /\ Balance /\ [Next]_vars => Balance'
<1> SUFFICES ASSUME TypeOK, Balance, [Next]_vars PROVE Balance'
  OBVIOUS
<1>1. CASE Tick \/ DrainDeadline \/ UNCHANGED vars
  <2>1. UNCHANGED <<wpc, counters, held, admits, digests, queue, closer>>
    BY <1>1 DEF Tick, DrainDeadline, vars, delivery, idleRest
  <2>2. Handled' = Handled /\ Holding' = Holding
    BY <2>1 DEF Handled, InHand, busy, Holding
  <2>3. QED
    BY <2>1, <2>2, BalanceFrame
<1>2. QED
  BY <1>1, BalanceSending, BalanceWorker, BalanceClosing DEF Next

\* No message goes missing: every admitted message and every digest is with its
\* sender, in the channel, with the worker or with Close, or was counted.
THEOREM NothingGoesMissing == Spec => []Accounted
<1>1. Init => Balance
  BY TypeInit, AccountedInit, BalanceIsAccounted
<1>2. TypeOK /\ Balance => Accounted
  BY BalanceIsAccounted
<1>3. QED
  BY <1>1, <1>2, TypeInit, TypeStep, BalanceStep, PTL DEF Spec

-----------------------------------------------------------------------------
(* The cooldown.                                                           *)

\* Only an admission touches the cooldown map and its history, and it grants
\* one message at a time.
LEMMA ThrottleFrame ==
  ASSUME [Next]_vars
  PROVE  \/ UNCHANGED <<now, lastSent, admits, clears>>
         \/ now' = now + 1 /\ UNCHANGED <<lastSent, admits, clears>>
         \/ \E s \in Senders, k \in Message : SendAdmitted(s, k)
<1>1. CASE Tick
  BY <1>1 DEF Tick, throttle
<1>2. CASE Sending
  BY <1>2 DEF Sending, SendSuppressed, Enqueue, QueueFull, throttle
<1>3. CASE Worker
  BY <1>3 DEF Worker, TakeMessage, TakeDigest, PaceDone, PaceInterrupted,
     SendSucceeds, SendRejected, SendFails, Retry, RetryInterrupted, StartDrain,
     DrainMessage, FinishDrain, idleRest, throttle
<1>4. CASE DrainDeadline \/ Closing \/ UNCHANGED vars
  BY <1>4 DEF DrainDeadline, Closing, CloseTakesDigest, ClosePushesDigest,
     CloseStops, CloseReturns, closeRest, idleRest, throttle, vars
<1>5. QED
  BY <1>1, <1>2, <1>3, <1>4 DEF Next

kept == {k \in Keys : pruneCooldowns[k] # Zero}

LEMMA TrackedFinite ==
  /\ IsFiniteSet(tracked) /\ Cardinality(tracked) \in Nat
  /\ IsFiniteSet(live) /\ Cardinality(live) \in Nat
  /\ IsFiniteSet(kept) /\ Cardinality(kept) \in Nat
BY ConfigAssumption, FS_Subset, FS_CardinalityType DEF tracked, live, kept

\* Pruning always leaves room for one key more.
LEMMA PruneLeavesRoom ==
  ASSUME ThrottleTypeOK
  PROVE  Cardinality(kept) < MaxCooldownKeys
<1> USE ConfigAssumption, TrackedFinite
<1>1. CASE Cardinality(tracked) < MaxCooldownKeys
  <2>1. kept = tracked
    BY <1>1 DEF kept, pruneCooldowns, mustClear, tracked
  <2>2. QED
    BY <1>1, <2>1
<1>2. CASE mustClear
  <2>1. kept = {}
    BY <1>2 DEF kept, pruneCooldowns, mustClear
  <2>2. QED
    BY <2>1, FS_EmptySet
<1>3. CASE ~mustClear /\ ~(Cardinality(tracked) < MaxCooldownKeys)
  <2>1. pruneCooldowns = [k \in Keys |-> IF k \in live THEN lastSent[k] ELSE Zero]
    BY <1>3 DEF pruneCooldowns
  <2>2. kept \subseteq live
    BY <2>1 DEF kept
  <2>3. Cardinality(kept) <= Cardinality(live)
    BY <2>2, FS_Subset
  <2>4. Cardinality(live) < MaxCooldownKeys
    BY <1>3 DEF mustClear
  <2>5. QED
    BY <2>3, <2>4
<1>4. QED
  BY <1>1, <1>2, <1>3

\* The cooldown map is bounded, whatever keys the callers invent.
THEOREM CooldownMapStaysBounded == Spec => []CooldownMapBounded
<1>1. Init => CooldownMapBounded
  <2> SUFFICES ASSUME Init PROVE CooldownMapBounded
    OBVIOUS
  <2>1. tracked = {}
    BY DEF Init, tracked
  <2>2. QED
    BY <2>1, FS_EmptySet, ConfigAssumption DEF CooldownMapBounded
<1>2. TypeOK /\ CooldownMapBounded /\ [Next]_vars => CooldownMapBounded'
  <2> SUFFICES ASSUME TypeOK, CooldownMapBounded, [Next]_vars
               PROVE  CooldownMapBounded'
    OBVIOUS
  <2>1. CASE UNCHANGED lastSent
    BY <2>1 DEF CooldownMapBounded, tracked
  <2>2. ASSUME NEW s \in Senders, NEW k \in Message, SendAdmitted(s, k),
               ~UNCHANGED lastSent
        PROVE  CooldownMapBounded'
    <3>1. k \in Keys /\ lastSent' = [pruneCooldowns EXCEPT ![k] = now]
      BY <2>2 DEF SendAdmitted, Message
    <3>2. tracked' = kept \cup {k}
      BY <3>1, PruneType DEF tracked, kept, TypeOK, ThrottleTypeOK, Zero
    <3>3. Cardinality(kept) < MaxCooldownKeys
      BY PruneLeavesRoom DEF TypeOK
    <3>4. IsFiniteSet(kept) /\ Cardinality(kept) \in Nat
      BY TrackedFinite
    <3>5. Cardinality(tracked') \in {Cardinality(kept), Cardinality(kept) + 1}
      BY <3>2, <3>4, FS_AddElement
    <3>6. QED
      BY <3>3, <3>4, <3>5, ConfigAssumption DEF CooldownMapBounded
  <2>3. QED
    BY <2>1, <2>2, ThrottleFrame
<1>3. QED
  BY <1>1, <1>2, TypeInit, TypeStep, PTL DEF Spec

\* What CooldownHolds rests on.  An admission of the current generation has
\* aged by a Cooldown, or the map still knows of it or of a later one.
Remembered(a, map, time, gen) ==
  /\ a.at <= time /\ a.gen <= gen
  /\ a.key # NoKey /\ a.gen = gen
       => time - a.at >= Cooldown \/ map[a.key] >= a.at

CooldownInv ==
  /\ CooldownHolds
  /\ \A i \in 1..Len(admits) : Remembered(admits[i], lastSent, now, clears)
  /\ \A k \in Keys : lastSent[k] <= now

LEMMA AdmissionType ==
  ASSUME HistoryTypeOK, NEW i \in 1..Len(admits)
  PROVE  /\ admits[i].key \in Message
         /\ admits[i].at \in Nat /\ admits[i].gen \in Nat
<1>1. admits[i] \in Admission
  BY DEF HistoryTypeOK
<1>2. QED
  BY <1>1 DEF Admission

LEMMA CooldownTick ==
  ASSUME TypeOK, CooldownInv, now' \in Nat, now <= now',
         UNCHANGED <<lastSent, admits, clears>>
  PROVE  CooldownInv'
<1>1. CooldownHolds'
  BY DEF CooldownInv, CooldownHolds
<1>2. ASSUME NEW i \in 1..Len(admits) PROVE Remembered(admits'[i], lastSent', now', clears')
  <2>1. /\ admits[i].key \in Message
        /\ admits[i].at \in Nat /\ admits[i].gen \in Nat
    BY AdmissionType DEF TypeOK
  <2>2. Remembered(admits[i], lastSent, now, clears)
    BY DEF CooldownInv
  <2>3. now \in Nat /\ Cooldown \in Nat /\ clears \in Nat
    BY ConfigAssumption DEF TypeOK, ThrottleTypeOK, HistoryTypeOK
  <2>4. QED
    BY <2>1, <2>2, <2>3 DEF Remembered
<1>3. \A k \in Keys : lastSent'[k] <= now'
  BY DEF CooldownInv, TypeOK, ThrottleTypeOK, Zero
<1>4. QED
  BY <1>1, <1>2, <1>3 DEF CooldownInv

LEMMA CooldownAdmitted ==
  ASSUME TypeOK, CooldownInv,
         NEW s \in Senders, NEW k \in Message, SendAdmitted(s, k)
  PROVE  CooldownInv'
<1> DEFINE a == [key |-> k, at |-> now, gen |-> clears']
           n == Len(admits)
<1>1. /\ now \in Nat /\ now' = now /\ Cooldown \in Nat /\ n \in Nat
      /\ clears \in Nat /\ clears' \in {clears, clears + 1}
      /\ lastSent \in [Keys -> Nat \cup {Zero}]
  BY ConfigAssumption DEF TypeOK, ThrottleTypeOK, HistoryTypeOK, SendAdmitted
<1>2. /\ Len(admits') = n + 1 /\ admits'[n + 1] = a
      /\ \A i \in 1..n : admits'[i] = admits[i]
  BY DEF SendAdmitted, TypeOK, HistoryTypeOK
<1>3. \A i \in 1..n : /\ admits[i].key \in Message
                      /\ admits[i].at \in Nat /\ admits[i].gen \in Nat
                      /\ Remembered(admits[i], lastSent, now, clears)
  BY AdmissionType DEF TypeOK, CooldownInv
<1>4. ASSUME NEW i \in 1..n, admits[i].key = k, k # NoKey, admits[i].gen = clears'
      PROVE  now - admits[i].at >= Cooldown
  <2>1. clears' = clears /\ k \in Keys
    BY <1>1, <1>3, <1>4 DEF Remembered, Message
  <2>2. CASE now - admits[i].at >= Cooldown
    BY <2>2
  <2>3. CASE lastSent[k] >= admits[i].at
    <3>1. lastSent[k] # Zero /\ lastSent[k] \in Nat
      BY <1>1, <1>3, <2>1, <2>3 DEF Zero
    <3>2. Cooldown = 0 \/ now - lastSent[k] >= Cooldown
      BY <1>1, <1>4, <3>1 DEF SendAdmitted, Cooling
    <3>3. admits[i].at <= now
      BY <1>3 DEF Remembered
    <3>4. QED
      BY <1>1, <1>3, <2>3, <3>1, <3>2, <3>3
  <2>4. QED
    BY <1>3, <1>4, <2>1, <2>2, <2>3 DEF Remembered
<1>5. CooldownHolds'
  <2> SUFFICES ASSUME NEW i \in 1..(n + 1), NEW j \in 1..(n + 1), i < j,
                      admits'[i].key = admits'[j].key, admits'[i].key # NoKey,
                      admits'[i].gen = admits'[j].gen
               PROVE  admits'[j].at - admits'[i].at >= Cooldown
    BY <1>2 DEF CooldownHolds
  <2>1. i \in 1..n
    BY <1>1
  <2>2. CASE j \in 1..n
    BY <1>2, <2>1, <2>2 DEF CooldownInv, CooldownHolds
  <2>3. CASE j = n + 1
    BY <1>2, <1>4, <2>1, <2>3
  <2>4. QED
    BY <1>1, <2>2, <2>3
<1>6. CASE k = NoKey
  <2>1. UNCHANGED <<lastSent, clears>>
    BY <1>6 DEF SendAdmitted
  <2>2. \A i \in 1..(n + 1) : Remembered(admits'[i], lastSent', now', clears')
    <3>1. Remembered(a, lastSent', now', clears')
      BY <1>1, <1>6, <2>1 DEF Remembered
    <3>2. \A i \in 1..n : Remembered(admits'[i], lastSent', now', clears')
      BY <1>1, <1>2, <1>3, <2>1 DEF Remembered
    <3>3. QED
      BY <1>1, <1>2, <3>1, <3>2
  <2>3. QED
    BY <1>1, <1>2, <1>5, <2>1, <2>2 DEF CooldownInv
<1>7. CASE k # NoKey
  <2>1. /\ k \in Keys /\ pruneCooldowns \in [Keys -> Nat \cup {Zero}]
        /\ lastSent' = [pruneCooldowns EXCEPT ![k] = now]
        /\ clears' = IF mustClear THEN clears + 1 ELSE clears
    BY <1>7, PruneType DEF SendAdmitted, Message, TypeOK
  <2>2. \A x \in Keys : pruneCooldowns[x] <= now
    BY <1>1, ConfigAssumption
    DEF pruneCooldowns, mustClear, CooldownInv, Zero
  <2>3. \A x \in Keys : lastSent'[x] <= now'
    BY <1>1, <2>1, <2>2
  <2>4. Remembered(a, lastSent', now', clears')
    BY <1>1, <2>1 DEF Remembered
  <2>5. ASSUME NEW i \in 1..n PROVE Remembered(admits[i], lastSent', now', clears')
    <3> DEFINE b == admits[i]
    <3>1. b.at <= now' /\ b.gen <= clears'
      BY <1>1, <1>3 DEF Remembered
    <3>2. ASSUME b.key # NoKey, b.gen = clears'
          PROVE  now - b.at >= Cooldown \/ lastSent'[b.key] >= b.at
      <4>1. ~mustClear /\ b.key \in Keys /\ clears' = clears
        BY <1>1, <1>3, <2>1, <3>2 DEF Remembered, Message
      <4>2. CASE b.key = k
        BY <1>1, <1>3, <2>1, <4>2 DEF Remembered
      <4>3. CASE b.key # k /\ now - b.at < Cooldown
        <5>1. lastSent[b.key] >= b.at /\ lastSent[b.key] \in Nat
          BY <1>1, <1>3, <3>2, <4>1, <4>3 DEF Remembered, Zero
        <5>2. b.key \in live
          BY <1>1, <1>3, <4>1, <4>3, <5>1 DEF live, tracked, Zero
        <5>3. pruneCooldowns[b.key] = lastSent[b.key]
          BY <4>1, <5>2 DEF pruneCooldowns
        <5>4. QED
          BY <2>1, <4>1, <4>3, <5>1, <5>3
      <4>4. QED
        BY <1>1, <1>3, <4>2, <4>3
    <3>3. QED
      BY <1>1, <3>1, <3>2 DEF Remembered
  <2>6. \A i \in 1..(n + 1) : Remembered(admits'[i], lastSent', now', clears')
    <3>1. \A i \in 1..n : Remembered(admits'[i], lastSent', now', clears')
      BY <1>2, <2>5
    <3>2. QED
      BY <1>1, <1>2, <2>4, <3>1
  <2>7. QED
    BY <1>2, <1>5, <2>3, <2>6 DEF CooldownInv
<1>8. QED
  BY <1>6, <1>7

\* Two admissions of one key are a Cooldown apart, whatever pruning forgot,
\* unless the whole map was cleared between them.
THEOREM CooldownIsKept == Spec => []CooldownHolds
<1>1. Init => CooldownInv
  BY DEF Init, CooldownInv, CooldownHolds, Zero
<1>2. TypeOK /\ CooldownInv /\ [Next]_vars => CooldownInv'
  BY ThrottleFrame, CooldownTick, CooldownAdmitted DEF TypeOK, ThrottleTypeOK
<1>3. CooldownInv => CooldownHolds
  BY DEF CooldownInv
<1>4. QED
  BY <1>1, <1>2, <1>3, TypeInit, TypeStep, PTL DEF Spec

\* The cooldown map of admit keeps its bound and forgets no cooldown but by a
\* clear.
THEOREM CooldownsAreKept == Spec => []CooldownsKept
<1>1. CooldownMapBounded /\ CooldownHolds => CooldownsKept
  BY DEF CooldownsKept
<1>2. QED
  BY <1>1, CooldownMapStaysBounded, CooldownIsKept, PTL

-----------------------------------------------------------------------------
(* The digests.                                                            *)

\* Settling a delivery is no suppression.
LEMMA SettleSuppressed ==
  ASSUME DeliveryTypeOK, NEW f \in {"sent", "failed", "dropped"}, Settle(f)
  PROVE  counters'.suppressed = counters.suppressed
BY DEF DeliveryTypeOK, Counters, Settle

LEMMA WorkerSuppressed ==
  ASSUME DeliveryTypeOK, Worker
  PROVE  counters'.suppressed = counters.suppressed
<1>1. CASE \E f \in {"sent", "failed", "dropped"} : Settle(f)
  BY <1>1, SettleSuppressed
<1>2. CASE ~\E f \in {"sent", "failed", "dropped"} : Settle(f)
  <2>1. UNCHANGED counters
    BY <1>2 DEF Worker, TakeMessage, TakeDigest, PaceDone, PaceInterrupted,
       SendSucceeds, SendRejected, SendFails, Retry, RetryInterrupted,
       StartDrain, DrainMessage, FinishDrain, Deliver
  <2>2. QED
    BY <2>1
<1>3. QED
  BY <1>1, <1>2

\* Each suppression and each overflow is told of by one digest, or still is in
\* the tally of the next one.
THEOREM DigestsTellEverything == Spec => []SuppressionsAccounted
<1>1. Init => SuppressionsAccounted
  BY DEF Init, SuppressionsAccounted
<1>2. TypeOK /\ SuppressionsAccounted /\ [Next]_vars => SuppressionsAccounted'
  <2> SUFFICES ASSUME TypeOK, SuppressionsAccounted, [Next]_vars
               PROVE  SuppressionsAccounted'
    OBVIOUS
  <2>1. /\ suppressed \in Nat /\ reported \in Nat /\ overflow \in Nat
        /\ counters.suppressed \in Nat
    BY DEF TypeOK, ThrottleTypeOK, DeliveryTypeOK, HistoryTypeOK, Counters
  <2>2. ASSUME NEW s \in Senders, NEW k \in Message, SendSuppressed(s, k)
        PROVE  SuppressionsAccounted'
    <3>1. /\ counters'.suppressed = counters.suppressed + 1
          /\ suppressed' = suppressed + 1 /\ UNCHANGED <<reported, overflow>>
      BY <2>2 DEF SendSuppressed, TypeOK, DeliveryTypeOK, Counters
    <3>2. QED
      BY <2>1, <3>1 DEF SuppressionsAccounted
  <2>3. ASSUME NEW s \in Senders, QueueFull(s)
        PROVE  SuppressionsAccounted'
    <3>1. /\ counters'.suppressed = counters.suppressed
          /\ suppressed' = suppressed + 1 /\ overflow' = overflow + 1
          /\ UNCHANGED reported
      BY <2>3 DEF QueueFull, TypeOK, DeliveryTypeOK, Counters
    <3>2. QED
      BY <2>1, <3>1 DEF SuppressionsAccounted
  <2>4. CASE TakeDigest
    <3>1. /\ suppressed' = 0 /\ reported' = reported + suppressed
          /\ UNCHANGED overflow
      BY <2>4 DEF TakeDigest
    <3>2. counters'.suppressed = counters.suppressed
      BY <2>4, WorkerSuppressed DEF Worker, TypeOK
    <3>3. QED
      BY <2>1, <3>1, <3>2 DEF SuppressionsAccounted
  <2>5. CASE Worker /\ ~TakeDigest
    <3>1. UNCHANGED <<suppressed, reported, overflow>>
      BY <2>5 DEF Worker, TakeMessage, PaceDone, PaceInterrupted, SendSucceeds,
         SendRejected, SendFails, Retry, RetryInterrupted, StartDrain,
         DrainMessage, FinishDrain, idleRest
    <3>2. QED
      BY <2>5, <3>1, WorkerSuppressed DEF SuppressionsAccounted, TypeOK
  <2>6. CASE CloseTakesDigest
    BY <2>1, <2>6 DEF CloseTakesDigest, closeRest, SuppressionsAccounted
  <2>7. CASE \/ Tick \/ DrainDeadline \/ ClosePushesDigest \/ CloseStops
             \/ CloseReturns \/ UNCHANGED vars
             \/ \E s \in Senders : \/ Enqueue(s)
                                   \/ \E k \in Message : SendAdmitted(s, k)
    BY <2>7 DEF Tick, DrainDeadline, ClosePushesDigest, CloseStops, CloseReturns,
       vars, Enqueue, SendAdmitted, closeRest, idleRest, SuppressionsAccounted
  <2>8. QED
    BY <2>2, <2>3, <2>4, <2>5, <2>6, <2>7 DEF Next, Sending, Closing
<1>3. QED
  BY <1>1, <1>2, TypeInit, TypeStep, PTL DEF Spec

-----------------------------------------------------------------------------
(* The sliding hour.                                                       *)

\* What the window that started at start with count admissions knows of all of
\* them: those before it are no later than its start, those before the last
\* MaxAlertsPerHour of these an Hour earlier, and its own within the Hour.
WindowKnows(start, count) ==
  /\ count <= Len(admits) /\ start <= now
  /\ \A i \in 1..Len(admits) :
       /\ i <= Len(admits) - count => admits[i].at <= start
       /\ i <= Len(admits) - count - MaxAlertsPerHour => admits[i].at + Hour <= start
       /\ i > Len(admits) - count => admits[i].at < start + Hour

SlidingInv == SlidingHourBounded /\ WindowKnows(hourStart, hourCount)

\* Starting the window afresh when it is over keeps what it knows.
LEMMA WindowRolls ==
  ASSUME TypeOK, WindowKnows(hourStart, hourCount)
  PROVE  /\ WindowKnows(windowStart, windowCount)
         /\ windowStart \in Nat /\ windowCount \in 0..MaxAlertsPerHour
         /\ now < windowStart + Hour
<1>1. /\ now \in Nat /\ hourStart \in Nat /\ hourCount \in 0..MaxAlertsPerHour
      /\ Hour \in Nat \ {0} /\ MaxAlertsPerHour \in Nat /\ Len(admits) \in Nat
  BY ConfigAssumption DEF TypeOK, ThrottleTypeOK, HistoryTypeOK
<1>2. \A i \in 1..Len(admits) : admits[i].at \in Nat
  BY AdmissionType DEF TypeOK
<1>3. CASE now - hourStart >= Hour
  <2>1. windowStart = now /\ windowCount = 0
    BY <1>3 DEF windowStart, windowCount
  <2>2. ASSUME NEW i \in 1..Len(admits)
        PROVE  /\ admits[i].at <= now
               /\ i <= Len(admits) - MaxAlertsPerHour => admits[i].at + Hour <= now
    <3>1. CASE i <= Len(admits) - hourCount
      BY <1>1, <1>2, <1>3, <3>1 DEF WindowKnows
    <3>2. CASE i > Len(admits) - hourCount
      BY <1>1, <1>2, <1>3, <3>2 DEF WindowKnows
    <3>3. QED
      BY <1>1, <3>1, <3>2
  <2>3. QED
    BY <1>1, <2>1, <2>2 DEF WindowKnows
<1>4. CASE ~(now - hourStart >= Hour)
  BY <1>1, <1>4 DEF windowStart, windowCount
<1>5. QED
  BY <1>3, <1>4

\* An admission meets, 2 * MaxAlertsPerHour admissions ago, one that the window
\* has left an Hour behind.
LEMMA SlidingAdmitted ==
  ASSUME TypeOK, SlidingInv,
         NEW s \in Senders, NEW k \in Message, SendAdmitted(s, k)
  PROVE  SlidingInv'
<1> DEFINE n == Len(admits)
           start == windowStart
           count == windowCount
<1>1. /\ WindowKnows(start, count) /\ start \in Nat /\ count \in Nat
      /\ count < MaxAlertsPerHour /\ now < start + Hour
  BY WindowRolls DEF SlidingInv, SendAdmitted
<1>2. /\ now \in Nat /\ n \in Nat /\ Hour \in Nat /\ MaxAlertsPerHour \in Nat
      /\ now' = now /\ hourStart' = start /\ hourCount' = count + 1
  BY ConfigAssumption DEF TypeOK, ThrottleTypeOK, HistoryTypeOK, SendAdmitted
<1>3. /\ Len(admits') = n + 1 /\ admits'[n + 1].at = now
      /\ \A i \in 1..n : admits'[i] = admits[i] /\ admits[i].at \in Nat
  BY AdmissionType DEF SendAdmitted, TypeOK, HistoryTypeOK
<1> HIDE DEF n, start, count
<1>4. /\ count <= n /\ start <= now
      /\ \A i \in 1..n :
           /\ i <= n - count => admits[i].at <= start
           /\ i <= n - count - MaxAlertsPerHour => admits[i].at + Hour <= start
           /\ i > n - count => admits[i].at < start + Hour
  BY <1>1 DEF WindowKnows, n
<1>5. ASSUME NEW i \in 1..(n + 1), i + 2 * MaxAlertsPerHour <= n + 1
      PROVE  admits'[i + 2 * MaxAlertsPerHour].at - admits'[i].at >= Hour
  <2>1. i \in 1..n /\ i + 2 * MaxAlertsPerHour \in 1..(n + 1)
    BY <1>1, <1>2, <1>5
  <2>2. CASE i + 2 * MaxAlertsPerHour = n + 1
    <3>1. i <= n - count - MaxAlertsPerHour
      BY <1>1, <1>2, <2>1, <2>2
    <3>2. admits[i].at + Hour <= start /\ admits'[i].at = admits[i].at
      BY <1>3, <1>4, <2>1, <3>1
    <3>3. admits'[i + 2 * MaxAlertsPerHour].at = now
      BY <1>3, <2>2
    <3>4. QED
      BY <1>1, <1>2, <1>3, <1>4, <2>1, <3>2, <3>3
  <2>3. CASE i + 2 * MaxAlertsPerHour <= n
    <3>1. admits[i + 2 * MaxAlertsPerHour].at - admits[i].at >= Hour
      BY <2>1, <2>3 DEF SlidingInv, SlidingHourBounded, n
    <3>2. i + 2 * MaxAlertsPerHour \in 1..n
      BY <1>2, <2>1, <2>3
    <3>3. QED
      BY <1>3, <2>1, <3>1, <3>2
  <2>4. QED
    BY <1>2, <2>1, <2>2, <2>3
<1>6. ASSUME NEW i \in 1..(n + 1)
      PROVE  /\ i <= n - count => admits'[i].at <= start
             /\ i <= n - count - MaxAlertsPerHour => admits'[i].at + Hour <= start
             /\ i > n - count => admits'[i].at < start + Hour
  <2>1. CASE i = n + 1
    BY <1>1, <1>2, <1>3, <2>1
  <2>2. CASE i \in 1..n
    BY <1>3, <1>4, <2>2
  <2>3. QED
    BY <1>2, <2>1, <2>2
<1>7. WindowKnows(hourStart, hourCount)'
  BY <1>1, <1>2, <1>3, <1>4, <1>6 DEF WindowKnows
<1>8. QED
  BY <1>3, <1>5, <1>7 DEF SlidingInv, SlidingHourBounded

\* Nothing but a Send touches the window.
LEMMA WindowFrame ==
  ASSUME [Next]_vars
  PROVE  \/ UNCHANGED <<hourStart, hourCount, admits>> /\ now' \in {now, now + 1}
         \/ \E s \in Senders, k \in Message :
              SendSuppressed(s, k) \/ SendAdmitted(s, k)
<1>1. CASE Tick
  BY <1>1 DEF Tick, throttle
<1>2. CASE Sending
  BY <1>2 DEF Sending, Enqueue, QueueFull, throttle
<1>3. CASE Worker
  BY <1>3 DEF Worker, TakeMessage, TakeDigest, PaceDone, PaceInterrupted,
     SendSucceeds, SendRejected, SendFails, Retry, RetryInterrupted, StartDrain,
     DrainMessage, FinishDrain, idleRest, throttle
<1>4. CASE DrainDeadline \/ Closing \/ UNCHANGED vars
  BY <1>4 DEF DrainDeadline, Closing, CloseTakesDigest, ClosePushesDigest,
     CloseStops, CloseReturns, closeRest, idleRest, throttle, vars
<1>5. QED
  BY <1>1, <1>2, <1>3, <1>4 DEF Next

\* The fixed windows of admit bound every hour, wherever it starts, by two caps.
THEOREM SlidingHourIsBounded == Spec => []SlidingHourBounded
<1>1. Init => SlidingInv
  BY DEF Init, SlidingInv, SlidingHourBounded, WindowKnows
<1>2. TypeOK /\ SlidingInv /\ [Next]_vars => SlidingInv'
  <2> SUFFICES ASSUME TypeOK, SlidingInv, [Next]_vars PROVE SlidingInv'
    OBVIOUS
  <2>1. CASE UNCHANGED <<hourStart, hourCount, admits>> /\ now' \in {now, now + 1}
    BY <2>1 DEF SlidingInv, SlidingHourBounded, WindowKnows, TypeOK, ThrottleTypeOK
  <2>2. ASSUME NEW s \in Senders, NEW k \in Message, SendSuppressed(s, k)
        PROVE  SlidingInv'
    <3>1. /\ hourStart' = windowStart /\ hourCount' = windowCount
          /\ UNCHANGED <<now, admits>>
      BY <2>2 DEF SendSuppressed
    <3>2. WindowKnows(windowStart, windowCount)
      BY WindowRolls DEF SlidingInv
    <3>3. WindowKnows(hourStart, hourCount)'
      BY <3>1, <3>2 DEF WindowKnows
    <3>4. QED
      BY <3>1, <3>3 DEF SlidingInv, SlidingHourBounded
  <2>3. QED
    BY <2>1, <2>2, SlidingAdmitted, WindowFrame
<1>3. SlidingInv => SlidingHourBounded
  BY DEF SlidingInv
<1>4. QED
  BY <1>1, <1>2, <1>3, TypeInit, TypeStep, PTL DEF Spec

\* While the worker drains the channel stop is closed, so no wait of a delivery
\* lasts; and the deadline is one of the drain.
Drains ==
  /\ draining => stopClosed /\ wpc \in {"drain", "sending", "stopped"}
  /\ expired => draining

\* In the drain a delivery is sent at once or settled at once.
LEMMA DrainDelivers ==
  ASSUME draining, stopClosed, Deliver
  PROVE  wpc' \in {"drain", "sending"}
  BY DEF Deliver, Settle

LEMMA DrainsStep == Drains /\ [Next]_vars => Drains'
<1> SUFFICES ASSUME Drains, [Next]_vars PROVE Drains'
  OBVIOUS
<1> USE DEF Drains
<1>1. CASE UNCHANGED <<wpc, draining, expired>> /\ (stopClosed => stopClosed')
  BY <1>1
<1>2. CASE Tick \/ Sending
  <2>1. UNCHANGED <<delivery, closer>>
    BY <1>2 DEF Tick, Sending, SendSuppressed, SendAdmitted, Enqueue, QueueFull
  <2> QED  BY <1>1, <2>1 DEF delivery, stopClosed
<1>3. CASE Closing
  <2>1. UNCHANGED delivery /\ (stopClosed => stopClosed')
    BY <1>3 DEF Closing, CloseTakesDigest, ClosePushesDigest, CloseStops,
       CloseReturns, closeRest, stopClosed
  <2> QED  BY <1>1, <2>1 DEF delivery
<1>4. CASE Worker
  <2>1. closer' = closer
    BY <1>4 DEF Worker, TakeMessage, TakeDigest, PaceDone, PaceInterrupted,
       SendSucceeds, SendRejected, SendFails, Retry, RetryInterrupted, StartDrain,
       DrainMessage, FinishDrain, idleRest
  <2>2. CASE TakeMessage \/ TakeDigest
    BY <2>2 DEF TakeMessage, TakeDigest, Deliver
  <2>3. CASE PaceDone \/ PaceInterrupted \/ Retry \/ RetryInterrupted
    BY <2>3 DEF PaceDone, PaceInterrupted, Retry, RetryInterrupted
  <2>4. CASE SendSucceeds \/ SendRejected
    BY <2>1, <2>4 DEF SendSucceeds, SendRejected, Settle, stopClosed
  <2>5. ASSUME NEW retryAfter \in BOOLEAN, SendFails(retryAfter) PROVE Drains'
    BY <2>1, <2>5 DEF SendFails, Settle, stopClosed
  <2>6. CASE StartDrain
    BY <2>1, <2>6 DEF StartDrain, stopClosed
  <2>7. CASE DrainMessage
    <3>1. CASE expired
      BY <2>1, <2>7, <3>1 DEF DrainMessage, Settle, stopClosed
    <3>2. CASE ~expired
      BY <2>1, <2>7, <3>2, DrainDelivers DEF DrainMessage, Deliver, stopClosed
    <3> QED  BY <3>1, <3>2
  <2>8. CASE FinishDrain
    BY <2>1, <2>8 DEF FinishDrain, stopClosed
  <2> QED  BY <1>4, <2>2, <2>3, <2>4, <2>5, <2>6, <2>7, <2>8 DEF Worker
<1>5. CASE DrainDeadline
  BY <1>5 DEF DrainDeadline, idleRest, stopClosed
<1>6. CASE UNCHANGED vars
  BY <1>6, <1>1 DEF vars, delivery, stopClosed
<1>7. QED
  BY <1>2, <1>3, <1>4, <1>5, <1>6 DEF Next

\* After DrainTimeout the worker starts no call of the transport, whatever is in
\* the channel and whenever the deadline passes (core/alerts/alerts.go, drain).
THEOREM DeadlineIsKept == Spec => NoAttemptAfterDeadline
<1>1. Init => Drains
  BY DEF Init, Drains
<1>2. Drains /\ [Next]_vars => [expired /\ wpc # "sending" => wpc' # "sending"]_vars
  <2> SUFFICES ASSUME Drains, Next, expired, wpc # "sending"
               PROVE  wpc' # "sending"
    BY DEF Drains
  <2>1. draining /\ wpc \in {"drain", "stopped"}
    BY DEF Drains
  <2>2. CASE Tick \/ Sending \/ Closing \/ DrainDeadline
    BY <2>1, <2>2 DEF Tick, Sending, SendSuppressed, SendAdmitted, Enqueue,
       QueueFull, Closing, CloseTakesDigest, ClosePushesDigest, CloseStops,
       CloseReturns, closeRest, delivery, DrainDeadline
  <2>3. CASE Worker
    <3>1. StartDrain \/ DrainMessage \/ FinishDrain
      BY <2>1, <2>3 DEF Worker, TakeMessage, TakeDigest, PaceDone, PaceInterrupted,
         SendSucceeds, SendRejected, SendFails, Retry, RetryInterrupted
    <3>2. CASE StartDrain \/ FinishDrain
      BY <2>1, <3>2 DEF StartDrain, FinishDrain
    <3>3. CASE DrainMessage
      BY <3>3 DEF DrainMessage, Settle
    <3> QED  BY <3>1, <3>2, <3>3
  <2> QED  BY <2>2, <2>3 DEF Next
<1>3. QED
  BY <1>1, <1>2, DrainsStep, PTL DEF Spec, NoAttemptAfterDeadline
=============================================================================
