------------------------------ MODULE Notifier ------------------------------
(***************************************************************************)
(* The alert notifier of core/alerts/alerts.go: Send admits a message      *)
(* under a mutex and then pushes it, without blocking, on a bounded        *)
(* channel; a single worker delivers it through a transport that may fail; *)
(* Close stops the worker, which drains what is left under one deadline.   *)
(*                                                                         *)
(* A Send has two steps, because the mutex is released between admission   *)
(* and push.  A message is abstracted to its cooldown key, the tally of    *)
(* suppressed alerts to its total, time to a clock that ticks.             *)
(***************************************************************************)
EXTENDS Integers, Sequences, FiniteSets

CONSTANTS
  Senders,           \* goroutines that call Send
  Keys,              \* cooldown keys in use
  NoKey,             \* the empty Key, which has no cooldown
  None,              \* no message at hand
  QueueSize,         \* Config.QueueSize
  MaxAlertsPerHour,  \* Config.MaxAlertsPerHour
  Hour,              \* time.Hour, in ticks
  Cooldown,          \* Config.Cooldown, in ticks; 0 disables it
  MinSendInterval,   \* Config.MinSendInterval, in ticks; 0 disables pacing
  MaxRetries,        \* Config.MaxRetries
  MaxCooldownKeys,   \* maxCooldownKeys
  MaxTime,           \* bound on the clock
  MaxSends           \* bound on the calls of Send

\* What normalize guarantees of a Config, and what the model needs of its own
\* markers.
ASSUME ConfigAssumption ==
  /\ IsFiniteSet(Senders) /\ IsFiniteSet(Keys)
  /\ NoKey \notin Keys /\ None \notin Keys /\ None # NoKey
  /\ QueueSize \in Nat \ {0} /\ MaxAlertsPerHour \in Nat \ {0}
  /\ Hour \in Nat \ {0} /\ MaxCooldownKeys \in Nat \ {0}
  /\ Cooldown \in Nat /\ MinSendInterval \in Nat /\ MaxRetries \in Nat
  /\ MaxTime \in Nat /\ MaxSends \in Nat

Message   == Keys \cup {NoKey}
Counters  == [sent : Nat, failed : Nat, dropped : Nat, suppressed : Nat]
Digests   == [made : Nat, lost : Nat]
Admission == [key : Message, at : Nat, gen : Nat]

Zero == -1           \* the zero time.Time: never

VARIABLES
  now,         \* the clock
  held,        \* held[s]: the message s was granted and has yet to push
  lastSent,    \* key -> when it was last admitted; Zero: not in the map
  hourStart, hourCount,
  suppressed,  \* alerts held back since the last digest
  counters,    \* the delivery tallies that Stats reports
  queue,       \* the channel
  wpc,         \* where the worker goroutine is
  attempt,     \* the loop variable of deliver
  lastSend,    \* *lastSend of deliver
  draining,    \* the worker is inside drain
  expired,     \* drain's context is done
  closer,      \* progress of Close
  admits,      \* history: the admissions, in order
  clears,      \* history: how often the cooldown map was emptied
  digests,     \* history: digests made, and how many of them Close lost
  overflow,    \* history: messages refused by a full queue
  reported     \* history: suppressions the digests told of

throttle   == <<lastSent, hourStart, hourCount>>
delivery   == <<wpc, attempt, lastSend, draining, expired>>
vars == <<now, held, throttle, suppressed, counters, queue, delivery,
          closer, admits, clears, digests, overflow, reported>>

Init ==
  /\ now = 0
  /\ held = [s \in Senders |-> None]
  /\ lastSent = [k \in Keys |-> Zero]
  /\ hourStart = 0 /\ hourCount = 0
  /\ suppressed = 0
  /\ counters = [sent |-> 0, failed |-> 0, dropped |-> 0, suppressed |-> 0]
  /\ queue = <<>>
  /\ wpc = "select" /\ attempt = 0 /\ lastSend = Zero
  /\ draining = FALSE /\ expired = FALSE
  /\ closer = "open"
  /\ admits = <<>> /\ clears = 0 /\ overflow = 0 /\ reported = 0
  /\ digests = [made |-> 0, lost |-> 0]

Tick ==
  /\ now < MaxTime
  /\ now' = now + 1
  /\ UNCHANGED <<held, throttle, suppressed, counters, queue, delivery,
                 closer, admits, clears, digests, overflow, reported>>
-----------------------------------------------------------------------------
(* Send and admit.                                                         *)

\* Mutant: the count is reset and the start of the window is not.
windowNeverMoves == hourStart

\* The fixed hour window as admit sees it: started afresh when it is over.
windowStart == IF now - hourStart >= Hour THEN now ELSE hourStart
windowCount == IF now - hourStart >= Hour THEN 0 ELSE hourCount

Cooling(k) == /\ k # NoKey /\ Cooldown > 0
              /\ lastSent[k] # Zero /\ now - lastSent[k] < Cooldown

tracked == {k \in Keys : lastSent[k] # Zero}
live    == {k \in tracked : now - lastSent[k] < Cooldown}

\* pruneCooldownsLocked gives up: even the live entries fill the map.
mustClear == Cardinality(tracked) >= MaxCooldownKeys
             /\ Cardinality(live) >= MaxCooldownKeys

\* Mutant: a map full of live entries is left to grow.
pruneExpiredOnly ==
  [k \in Keys |-> IF k \in live THEN lastSent[k] ELSE Zero]

pruneCooldowns ==
  CASE Cardinality(tracked) < MaxCooldownKeys -> lastSent
    [] mustClear -> [k \in Keys |-> Zero]
    [] OTHER -> [k \in Keys |-> IF k \in live THEN lastSent[k] ELSE Zero]

\* How often Send was called.
sends == Len(admits) + counters.suppressed

\* Send when admit holds the message back.
SendSuppressed(s, k) ==
  /\ held[s] = None /\ sends < MaxSends
  /\ Cooling(k) \/ windowCount >= MaxAlertsPerHour
  /\ hourStart' = windowStart /\ hourCount' = windowCount
  /\ suppressed' = suppressed + 1
  /\ counters' = [counters EXCEPT !.suppressed = @ + 1]
  /\ UNCHANGED <<now, held, lastSent, queue, delivery, closer, admits, clears,
                 digests, overflow, reported>>

\* Send when admit grants the message, up to the release of the mutex.
SendAdmitted(s, k) ==
  /\ held[s] = None /\ sends < MaxSends
  /\ ~Cooling(k) /\ windowCount < MaxAlertsPerHour
  /\ held' = [held EXCEPT ![s] = k]
  /\ hourStart' = windowStart /\ hourCount' = windowCount + 1
  /\ IF k = NoKey
     THEN UNCHANGED <<lastSent, clears>>
     ELSE /\ lastSent' = [pruneCooldowns EXCEPT ![k] = now]
          /\ clears' = IF mustClear THEN clears + 1 ELSE clears
  /\ admits' = Append(admits, [key |-> k, at |-> now, gen |-> clears'])
  /\ UNCHANGED <<now, suppressed, counters, queue, delivery, closer, digests,
                 overflow, reported>>

\* Mutant: a full channel is not counted.
QueueFullUncounted(s) ==
  /\ held[s] # None /\ Len(queue) >= QueueSize
  /\ held' = [held EXCEPT ![s] = None]
  /\ suppressed' = suppressed + 1
  /\ overflow' = overflow + 1
  /\ UNCHANGED <<now, throttle, counters, queue, delivery, closer, admits,
                 clears, digests, reported>>

\* The non-blocking push of Send into a channel with room ...
Enqueue(s) ==
  /\ held[s] # None /\ Len(queue) < QueueSize
  /\ queue' = Append(queue, held[s])
  /\ held' = [held EXCEPT ![s] = None]
  /\ UNCHANGED <<now, throttle, suppressed, counters, delivery, closer,
                 admits, clears, digests, overflow, reported>>

\* ... and into a full one: the message is dropped and counted.
QueueFull(s) ==
  /\ held[s] # None /\ Len(queue) >= QueueSize
  /\ held' = [held EXCEPT ![s] = None]
  /\ counters' = [counters EXCEPT !.dropped = @ + 1]
  /\ suppressed' = suppressed + 1
  /\ overflow' = overflow + 1
  /\ UNCHANGED <<now, throttle, queue, delivery, closer, admits,
                 clears, digests, reported>>
-----------------------------------------------------------------------------
(* The worker: deliver, pace, sleep and record.                            *)

\* Mutant: the worker looks at the channel it closes itself.
stoppedClosed == closer = "closed"

stopClosed == closer \in {"stopping", "closed"}

busy == wpc \in {"pacing", "sending", "backoff"}

\* deliver records the outcome and returns to the loop it was called from.
Settle(outcome) ==
  /\ counters' = [counters EXCEPT ![outcome] = @ + 1]
  /\ wpc' = IF draining THEN "drain" ELSE "select"
  /\ attempt' = 0

paceFree(last) == \/ MinSendInterval = 0 \/ last = Zero
                  \/ now - last >= MinSendInterval

\* The start of deliver.  A sleep entered with stop already closed returns
\* false at once, so the message is recorded as dropped without an attempt.
Deliver ==
  /\ IF paceFree(lastSend) THEN wpc' = "sending" /\ UNCHANGED <<counters, attempt>>
     ELSE IF stopClosed THEN Settle("dropped")
     ELSE wpc' = "pacing" /\ UNCHANGED <<counters, attempt>>
  /\ UNCHANGED <<lastSend, draining, expired>>

\* The worker's select takes a queued message.
TakeMessage ==
  /\ wpc = "select" /\ queue # <<>>
  /\ queue' = Tail(queue)
  /\ Deliver
  /\ UNCHANGED <<now, held, throttle, suppressed, closer, admits, clears,
                 digests, overflow, reported>>

\* Mutant: the digest leaves the tally as it is.
TakeDigestKeepsTally ==
  /\ wpc = "select"
  /\ suppressed > 0 /\ now - hourStart >= Hour
  /\ reported' = reported + suppressed
  /\ digests' = [digests EXCEPT !.made = @ + 1]
  /\ Deliver
  /\ UNCHANGED <<now, held, throttle, suppressed, queue, closer, admits,
                 clears, overflow>>

\* A digest tick that finds something held back and the hour over.
TakeDigest ==
  /\ wpc = "select"
  /\ suppressed > 0 /\ now - hourStart >= Hour
  /\ suppressed' = 0
  /\ reported' = reported + suppressed
  /\ digests' = [digests EXCEPT !.made = @ + 1]
  /\ Deliver
  /\ UNCHANGED <<now, held, throttle, queue, closer, admits, clears,
                 overflow>>

idleRest == <<now, held, throttle, suppressed, queue, closer, admits,
              clears, digests, overflow, reported>>

\* pace has waited long enough.
PaceDone ==
  /\ wpc = "pacing" /\ paceFree(lastSend)
  /\ wpc' = "sending"
  /\ UNCHANGED <<idleRest, counters, attempt, lastSend, draining, expired>>

\* Close interrupts the pacing sleep.
PaceInterrupted ==
  /\ wpc = "pacing" /\ stopClosed
  /\ Settle("dropped")
  /\ UNCHANGED <<idleRest, lastSend, draining, expired>>

\* The transport accepts the message ...
SendSucceeds ==
  /\ wpc = "sending"
  /\ lastSend' = now
  /\ Settle("sent")
  /\ UNCHANGED <<idleRest, draining, expired>>

\* ... refuses it for good (SendError.Permanent) ...
SendRejected ==
  /\ wpc = "sending"
  /\ lastSend' = now
  /\ Settle("failed")
  /\ UNCHANGED <<idleRest, draining, expired>>

\* ... or fails in a way worth retrying.  retryAfter: the transport named the
\* delay itself, and deliver then sleeps even after the last attempt.
SendFails(retryAfter) ==
  /\ wpc = "sending"
  /\ lastSend' = now
  /\ IF (retryAfter \/ attempt < MaxRetries) /\ ~stopClosed
     THEN wpc' = "backoff" /\ UNCHANGED <<counters, attempt>>
     ELSE Settle("failed")
  /\ UNCHANGED <<idleRest, draining, expired>>

\* The sleep between attempts ends: by its timer ...
Retry ==
  /\ wpc = "backoff"
  /\ IF attempt < MaxRetries
     THEN wpc' = "sending" /\ attempt' = attempt + 1 /\ UNCHANGED counters
     ELSE Settle("failed")
  /\ UNCHANGED <<idleRest, lastSend, draining, expired>>

\* ... or by Close.
RetryInterrupted ==
  /\ wpc = "backoff" /\ stopClosed
  /\ Settle("failed")
  /\ UNCHANGED <<idleRest, lastSend, draining, expired>>
-----------------------------------------------------------------------------
(* Shutdown.                                                               *)

\* The worker sees stop closed and enters drain, with a lastSend of its own.
StartDrain ==
  /\ wpc = "select" /\ stopClosed
  /\ wpc' = "drain" /\ draining' = TRUE /\ lastSend' = Zero
  /\ UNCHANGED <<idleRest, counters, attempt, expired>>

\* Mutant: drain does not look at its deadline.
DrainWithoutDeadline ==
  /\ wpc = "drain" /\ queue # <<>>
  /\ queue' = Tail(queue)
  /\ Deliver
  /\ UNCHANGED <<now, held, throttle, suppressed, closer, admits, clears,
                 digests, overflow, reported>>

\* drain takes a message: it is dropped once the deadline is over.
DrainMessage ==
  /\ wpc = "drain" /\ queue # <<>>
  /\ queue' = Tail(queue)
  /\ IF expired
     THEN Settle("dropped") /\ UNCHANGED <<lastSend, draining, expired>>
     ELSE Deliver
  /\ UNCHANGED <<now, held, throttle, suppressed, closer, admits, clears,
                 digests, overflow, reported>>

\* drain finds the channel empty; the worker closes stopped.
FinishDrain ==
  /\ wpc = "drain" /\ queue = <<>>
  /\ wpc' = "stopped"
  /\ UNCHANGED <<idleRest, counters, attempt, lastSend, draining, expired>>

\* DrainTimeout passes.
DrainDeadline ==
  /\ draining /\ ~expired /\ wpc # "stopped"
  /\ expired' = TRUE
  /\ UNCHANGED <<idleRest, counters, wpc, attempt, lastSend, draining>>

closeRest == <<now, held, throttle, counters, delivery, admits, clears,
               overflow>>

\* Close takes the last digest, whatever the hour ...
CloseTakesDigest ==
  /\ closer = "open"
  /\ IF suppressed = 0
     THEN closer' = "pushed" /\ UNCHANGED <<digests, reported>>
     ELSE /\ closer' = "holding"
          /\ digests' = [digests EXCEPT !.made = @ + 1]
          /\ reported' = reported + suppressed
  /\ suppressed' = 0
  /\ UNCHANGED <<closeRest, queue>>

\* ... pushes it without blocking: a full channel loses it silently ...
ClosePushesDigest ==
  /\ closer = "holding" /\ closer' = "pushed"
  /\ IF Len(queue) < QueueSize
     THEN queue' = Append(queue, NoKey) /\ UNCHANGED digests
     ELSE digests' = [digests EXCEPT !.lost = @ + 1] /\ UNCHANGED queue
  /\ UNCHANGED <<closeRest, suppressed, reported>>

\* ... closes stop, and waits for the worker.
CloseStops ==
  /\ closer = "pushed" /\ closer' = "stopping"
  /\ UNCHANGED <<closeRest, queue, suppressed, digests, reported>>

CloseReturns ==
  /\ closer = "stopping" /\ wpc = "stopped" /\ closer' = "closed"
  /\ UNCHANGED <<closeRest, queue, suppressed, digests, reported>>
-----------------------------------------------------------------------------
Sending == \E s \in Senders :
             \/ \E k \in Message : SendSuppressed(s, k) \/ SendAdmitted(s, k)
             \/ Enqueue(s) \/ QueueFull(s)

Worker == \/ TakeMessage \/ TakeDigest \/ PaceDone \/ PaceInterrupted
          \/ SendSucceeds \/ SendRejected
          \/ \E retryAfter \in BOOLEAN : SendFails(retryAfter)
          \/ Retry \/ RetryInterrupted
          \/ StartDrain \/ DrainMessage \/ FinishDrain

Closing == CloseTakesDigest \/ ClosePushesDigest \/ CloseStops \/ CloseReturns

Next == Tick \/ Sending \/ Worker \/ DrainDeadline \/ Closing

\* The worker goroutine is scheduled and a transport call returns (it runs
\* under SendTimeout); once begun, Close runs on.
Fairness == /\ WF_vars(Worker)
            /\ WF_vars(ClosePushesDigest \/ CloseStops \/ CloseReturns)

Spec == Init /\ [][Next]_vars /\ Fairness
-----------------------------------------------------------------------------
(* Properties.                                                             *)

ThrottleTypeOK ==
  /\ now \in Nat
  /\ held \in [Senders -> Message \cup {None}]
  /\ lastSent \in [Keys -> Nat \cup {Zero}]
  /\ hourStart \in Nat /\ hourCount \in 0..MaxAlertsPerHour
  /\ suppressed \in Nat

DeliveryTypeOK ==
  /\ counters \in Counters
  /\ queue \in Seq(Message) /\ Len(queue) <= QueueSize
  /\ wpc \in {"select", "pacing", "sending", "backoff", "drain", "stopped"}
  /\ attempt \in 0..MaxRetries /\ lastSend \in Nat \cup {Zero}
  /\ draining \in BOOLEAN /\ expired \in BOOLEAN
  /\ closer \in {"open", "holding", "pushed", "stopping", "closed"}

HistoryTypeOK ==
  /\ admits \in Seq(Admission)
  /\ clears \in Nat /\ overflow \in Nat /\ reported \in Nat
  /\ digests \in Digests

\* Every variable has its type; the channel never exceeds its capacity, the
\* hour never its cap, and no message is tried more than 1 + MaxRetries times.
TypeOK == ThrottleTypeOK /\ DeliveryTypeOK /\ HistoryTypeOK

Holders == {s \in Senders : held[s] # None}
InHand  == IF busy THEN 1 ELSE 0
Holding == IF closer = "holding" THEN 1 ELSE 0

\* No message goes missing between the goroutines: one that was admitted, and
\* every digest, is with its sender, in the channel, with the worker or with
\* Close, or it was counted sent, failed or dropped (a digest that Close finds
\* no room for is the only one nobody counts).
Accounted ==
  Len(admits) + digests.made =
    Cardinality(Holders) + Len(queue) + InHand + Holding + digests.lost
      + counters.sent + counters.failed + counters.dropped

\* What was held back is told exactly once: each suppression and each overflow
\* is still in the tally or was reported by one digest.
SuppressionsAccounted ==
  suppressed + reported = counters.suppressed + overflow

\* The cooldown map stays bounded whatever keys the callers invent.
CooldownMapBounded == Cardinality(tracked) <= MaxCooldownKeys

\* Two admissions of one key are a Cooldown apart, whatever pruning removed,
\* unless the whole map was cleared between them.
CooldownHolds ==
  \A i, j \in 1..Len(admits) :
    (/\ i < j /\ admits[i].key = admits[j].key /\ admits[i].key # NoKey
     /\ admits[i].gen = admits[j].gen)
       => admits[j].at - admits[i].at >= Cooldown

\* The cooldown of a key is kept, and the memory it costs is bounded: admit prunes
\* what has expired and clears what is left over.
CooldownsKept == CooldownMapBounded /\ CooldownHolds

\* The cap counts fixed windows, so no hour, wherever it starts, sees more than
\* two caps of admissions.
SlidingHourBounded ==
  \A i \in 1..Len(admits) :
    i + 2 * MaxAlertsPerHour <= Len(admits)
      => admits[i + 2 * MaxAlertsPerHour].at - admits[i].at >= Hour

\* Once DrainTimeout is over no transport call is started any more: a wedged
\* transport cannot hold the process open.
NoAttemptAfterDeadline ==
  [][expired /\ wpc # "sending" => wpc' # "sending"]_vars

\* Close returns, whatever the transport does.
CloseTerminates == (closer # "open") ~> (closer = "closed")

\* Pacing is dropped in drain: a message it takes before the deadline goes to
\* the transport, so that a shutdown notice is tried at least once.
DrainTriesEveryMessage ==
  [][wpc = "drain" /\ ~expired /\ Len(queue') < Len(queue)
       => wpc' = "sending"]_vars
=============================================================================
