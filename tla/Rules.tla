------------------------------- MODULE Rules -------------------------------
(***************************************************************************)
(* The rule evaluator of core/alerts/rules.go with what it reads and where *)
(* its messages go: the request totals, the system statistics, which the   *)
(* dashboard collects too and which are kept for StatsRefreshInterval, and *)
(* the cooldown of Send.                                                   *)
(*                                                                         *)
(* One rule of each sort: a share of errors, a surge over a baseline, a    *)
(* resource that must stay high, and a check of the application, which may *)
(* panic.  A tick is one step, for nothing it reads after its sample       *)
(* belongs to anybody else.  Rates are requests per Interval.              *)
(***************************************************************************)
EXTENDS Integers, FiniteSets

CONSTANTS
  SustainTicks, ErrorRatePercent, ErrorRateMinRequests, SurgeFactor, SurgeFloor,
  Interval, Cooldown, StatsRefreshInterval,   \* durations
  Traffic,    \* what arrives between two ticks: [requests, errors]
  None,
  MaxTime     \* bound: the clock

ASSUME RulesAssumption ==
  /\ SustainTicks \in Nat \ {0} /\ SurgeFactor \in Nat \ {0}
  /\ ErrorRatePercent \in Nat /\ ErrorRateMinRequests \in Nat \ {0}
  /\ SurgeFloor \in Nat /\ Interval \in Nat \ {0} /\ Cooldown \in Nat
  /\ StatsRefreshInterval \in Nat \ {0}
  /\ Traffic \subseteq {t \in [requests : Nat, errors : Nat] : t.errors <= t.requests}
  /\ MaxTime \in Nat

VARIABLES
  now, due,      \* the clock, and when the evaluator's ticker fires
  cpu,           \* what the processor really does: "low" or "high"
  totals,        \* the counters since the start
  cache,         \* None, or the statistics of CollectSystemStats and their time
  eval,          \* the sample of the evaluator
  rule,          \* the state of each rule
  lastSent,      \* the cooldown map of Send
  seen,          \* ghost: when cpu was last low, last high, and the statistics
                 \* last incomplete
  heard          \* ghost, per rule: what was last let through of it, when its
                 \* last alert and last recovery were, when its last edge was

rulesVars == <<now, due, cpu, totals, cache, eval, rule, lastSent, seen, heard>>

Rule == {"error_rate", "traffic_surge", "cpu_high", "custom"}
Sustain(r) == IF r = "cpu_high" THEN SustainTicks ELSE 1
Recovery(r) == r # "custom"
maxRulePanics == 3

\* The cooldown buckets: the rule's own, and those of its two other messages.
Key == Rule \X {"alert", "recovered", "disabled"}

Never == -Cooldown - StatsRefreshInterval

RulesInit ==
  /\ now = 0 /\ due = Interval
  /\ cpu = "low"
  /\ totals = [requests |-> 0, errors |-> 0]
  /\ cache = None
  /\ eval = [prev |-> None, valid |-> FALSE, requests |-> 0, errors |-> 0,
             baseline |-> None, usage |-> "low"]
  /\ rule = [r \in Rule |-> [firing |-> FALSE, holds |-> 0, panics |-> 0,
                             disabled |-> FALSE]]
  /\ lastSent = [key \in Key |-> Never]
  /\ seen = [low |-> 0, high |-> Never, blind |-> Never]
  /\ heard = [r \in Rule |-> [last |-> "recovered", alert |-> Never,
                             recovered |-> Never, edge |-> 0]]

\* Time passes: the load changes, and requests are counted.
Pass(load, arrived) ==
  /\ now < MaxTime /\ now < due
  /\ now' = now + 1
  /\ cpu' = load
  /\ seen' = [seen EXCEPT ![load] = now']
  /\ totals' = [requests |-> totals.requests + arrived.requests,
                errors |-> totals.errors + arrived.errors]
  /\ UNCHANGED <<due, cache, eval, rule, lastSent, heard>>
-----------------------------------------------------------------------------
(* CollectSystemStats.  A reading that fails leaves its figures at zero;   *)
(* the others are kept with it, and its error is told to one caller only.  *)
(* When the time for a collection is over nothing is kept.                 *)

\* Mutant: what was collected once is taken for fresh.
isFreshForEver == cache # None

isFresh == cache # None /\ now - cache.at < StatsRefreshInterval

averageCPUUsage(outcome) == IF outcome = "whole" THEN cpu ELSE "low"

CollectSystemStats(outcome) ==
  IF isFresh THEN UNCHANGED <<cache, seen>>
  ELSE /\ cache' = IF outcome = "cancelled" THEN cache
                   ELSE [usage |-> averageCPUUsage(outcome), at |-> now]
       /\ seen' = IF outcome = "whole" THEN seen ELSE [seen EXCEPT !.blind = now]

\* What metricsSnapshot has of it.
usage(outcome) == IF isFresh THEN cache.usage ELSE averageCPUUsage(outcome)

\* prepareTemplateData of the dashboard.
Dashboard(outcome) ==
  /\ CollectSystemStats(outcome)
  /\ UNCHANGED <<now, due, cpu, totals, eval, rule, lastSent, heard>>
-----------------------------------------------------------------------------
(* sample.  baselineAlpha is 1/5; a baseline is a fraction, and exact.     *)

\* The baseline with one more sample in it.
smoothed(baseline, requests) ==
  IF baseline = None THEN [num |-> requests, den |-> 1]
  ELSE [num |-> requests * baseline.den + 4 * baseline.num, den |-> 5 * baseline.den]

exceeds(requests, factor, baseline) ==
  requests * baseline.den >= factor * baseline.num

\* The counters never go backwards here, and each tick has its Interval.
sample(outcome) ==
  LET requests == totals.requests - eval.prev.requests
      errors   == totals.errors - eval.prev.errors
  IN  IF eval.prev = None
      THEN [eval EXCEPT !.prev = totals, !.valid = FALSE, !.usage = usage(outcome)]
      ELSE [prev |-> totals, valid |-> TRUE, requests |-> requests,
            errors |-> errors, usage |-> usage(outcome),
            baseline |-> smoothed(eval.baseline, requests)]

\* Mutant: any traffic above the baseline is a surge.
surgeUnscaled(e) ==
  e.valid /\ e.requests >= SurgeFloor /\ exceeds(e.requests, 1, e.baseline)

surge(e) ==
  /\ e.valid /\ e.requests >= SurgeFloor
  /\ e.baseline.num > 0 /\ exceeds(e.requests, SurgeFactor, e.baseline)

errorRate(e) ==
  /\ e.valid /\ e.requests >= ErrorRateMinRequests
  /\ e.errors * 100 > ErrorRatePercent * e.requests

\* What the check of r says; check is what the one of the application does.
holds(r, e, check) == CASE r = "error_rate"    -> errorRate(e)
                        [] r = "traffic_surge" -> surge(e)
                        [] r = "cpu_high"      -> e.usage = "high"
                        [] r = "custom"        -> check = "holds"
-----------------------------------------------------------------------------
(* evaluate: one rule's state machine, and the message of its edge.        *)

handleRulePanic(s) ==
  [s EXCEPT !.panics = @ + 1, !.disabled = s.panics + 1 >= maxRulePanics]

advance(r, s, held) ==
  LET count == IF held THEN s.holds + 1 ELSE 0
  IN  [s EXCEPT !.holds = count,
                !.firing = IF count >= Sustain(r) THEN TRUE ELSE held /\ @]

step(r, e, check) ==
  LET s == rule[r]
  IN  CASE s.disabled                        -> s
        [] r = "custom" /\ check = "panics"  -> handleRulePanic(s)
        [] OTHER                             -> advance(r, s, holds(r, e, check))

\* Mutant: a recovery carries the key of the rule itself.
bucketOfRule(r, kind) == <<r, "alert">>

bucket(r, kind) == <<r, kind>>

\* The messages of the step from rule to rule'.
messages ==
  {m \in Key : LET was == rule[m[1]] is == rule'[m[1]] IN
     CASE m[2] = "alert"     -> is.firing /\ ~was.firing
       [] m[2] = "recovered" -> ~is.firing /\ was.firing /\ Recovery(m[1])
       [] m[2] = "disabled"  -> is.disabled /\ ~was.disabled}

\* admit of Send.  The cap of the hour, which Notifier has, is not reached.
admitted(m) == now - lastSent[bucket(m[1], m[2])] >= Cooldown

\* What is heard of r when it has a message of this kind.
hears(r, kind) ==
  IF admitted(<<r, kind>>)
  THEN [heard[r] EXCEPT !.last = kind, ![kind] = now, !.edge = now]
  ELSE [heard[r] EXCEPT !.edge = now]

Evaluate(check, outcome) ==
  /\ now = due
  /\ due' = due + Interval
  /\ CollectSystemStats(outcome)
  /\ eval' = sample(outcome)
  /\ rule' = [r \in Rule |-> step(r, eval', check)]
  /\ LET sent == {bucket(m[1], m[2]) : m \in {n \in messages : admitted(n)}}
     IN  lastSent' = [key \in Key |-> IF key \in sent THEN now ELSE lastSent[key]]
  /\ heard' = [r \in Rule |->
       IF <<r, "alert">> \in messages THEN hears(r, "alert")
       ELSE IF <<r, "recovered">> \in messages THEN hears(r, "recovered")
       ELSE heard[r]]
  /\ UNCHANGED <<now, cpu, totals>>

Outcome == {"whole", "partial", "cancelled"}

RulesNext ==
  \/ \E load \in {"low", "high"}, arrived \in Traffic : Pass(load, arrived)
  \/ \E outcome \in Outcome : Dashboard(outcome)
  \/ \E check \in {"holds", "clear", "panics"}, outcome \in Outcome :
       Evaluate(check, outcome)

RulesSpec == RulesInit /\ [][RulesNext]_rulesVars
-----------------------------------------------------------------------------
(* Properties.                                                             *)

\* The last word is true: a rule of which an alert was the last message let through
\* fires, one of which it was a recovery (or nothing) does not -- unless the edge
\* since came less than Cooldown after another of its kind.  An alert takes no
\* recovery away, nor the other way round, and no rule takes either from another.
LastWordIsTrue ==
  \A r \in Rule :
    LET kind == IF rule[r].firing THEN "alert" ELSE "recovered"
    IN  rule[r].firing \/ Recovery(r) =>
          \/ heard[r].last = kind
          \/ heard[r].edge - heard[r][kind] < Cooldown

\* Whoever collected the statistics, a resource rule begins to fire only when
\* the resource was high, and clears only when it was low, less than
\* StatsRefreshInterval ago -- or when the statistics were incomplete, for what
\* could not be read is taken for zero.
EdgesAreReal ==
  [][LET was == rule["cpu_high"].firing is == rule'["cpu_high"].firing IN
     /\ ~was /\ is => now - seen.high < StatsRefreshInterval
     /\ was /\ ~is => \/ now - seen.low < StatsRefreshInterval
                      \/ now - seen'.blind < StatsRefreshInterval]_rulesVars

\* A surge is one: when its rule begins to fire the rate is SurgeFactor times
\* the baseline that was before, though the code compares it with the baseline
\* that has the rate in it.
SurgeDeserved ==
  [][(eval.baseline # None /\ ~rule["traffic_surge"].firing
        /\ rule'["traffic_surge"].firing)
       => exceeds(eval'.requests, SurgeFactor, eval.baseline)]_rulesVars

\* ... and what is promised (types.go:194): it fires when the rate exceeds
\* SurgeFactor times the rolling baseline.
SurgeFires ==
  [][(eval # eval' /\ eval.baseline # None /\ eval.baseline.num > 0
        /\ eval'.requests >= SurgeFloor
        /\ eval'.requests * eval.baseline.den > SurgeFactor * eval.baseline.num)
       => rule'["traffic_surge"].firing]_rulesVars
=============================================================================
