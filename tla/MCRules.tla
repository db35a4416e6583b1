------------------------------ MODULE MCRules ------------------------------
(* Traffic: a little, and a burst with errors.                             *)
EXTENDS Rules

MCTraffic == {[requests |-> 1, errors |-> 0], [requests |-> 5, errors |-> 2]}

\* Of the counters only what was added since the last sample is ever used.
MCView ==
  <<now, due, cpu, cache, [eval EXCEPT !.prev = None], rule, lastSent, seen, heard,
    IF eval.prev = None THEN None
    ELSE <<totals.requests - eval.prev.requests, totals.errors - eval.prev.errors>> >>
=============================================================================
