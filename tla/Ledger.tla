------------------------------- MODULE Ledger -------------------------------
(***************************************************************************)
(* What a buffer that writes its events in batches promises: every event   *)
(* it was given is waiting, is on record, or is counted as lost, and it is *)
(* each of these once.  An event that is on record stays so, and a loss is *)
(* never taken back.                                                       *)
(***************************************************************************)
EXTENDS Integers

CONSTANT Keys   \* what events are aggregated by

VARIABLES received, waiting, recorded, lost   \* each a tally per key

books == <<received, waiting, recorded, lost>>

Init == /\ received = [k \in Keys |-> 0]
        /\ waiting  = [k \in Keys |-> 0]
        /\ recorded = [k \in Keys |-> 0]
        /\ lost     = [k \in Keys |-> 0]

Accept(k) == /\ received' = [received EXCEPT ![k] = @ + 1]
             /\ waiting' = [waiting EXCEPT ![k] = @ + 1]
             /\ UNCHANGED <<recorded, lost>>

Refuse(k) == /\ received' = [received EXCEPT ![k] = @ + 1]
             /\ lost' = [lost EXCEPT ![k] = @ + 1]
             /\ UNCHANGED <<waiting, recorded>>

\* Some of what waits leaves the buffer ...
Leave == /\ waiting' \in [Keys -> Nat]
         /\ \A k \in Keys : waiting'[k] <= waiting[k]

\* ... for the record, ...
Record == /\ Leave
          /\ recorded' = [k \in Keys |-> recorded[k] + (waiting[k] - waiting'[k])]
          /\ UNCHANGED <<received, lost>>

\* ... or because there is no room for it.
Shed == /\ Leave
        /\ lost' = [k \in Keys |-> lost[k] + (waiting[k] - waiting'[k])]
        /\ UNCHANGED <<received, recorded>>

Next == (\E k \in Keys : Accept(k) \/ Refuse(k)) \/ Record \/ Shed

Spec == Init /\ [][Next]_books
-----------------------------------------------------------------------------
TypeOK == /\ received \in [Keys -> Nat] /\ waiting \in [Keys -> Nat]
          /\ recorded \in [Keys -> Nat] /\ lost \in [Keys -> Nat]

\* Nothing is lost without being counted, and nothing is recorded twice.
Balanced ==
  \A k \in Keys : received[k] = waiting[k] + recorded[k] + lost[k]
=============================================================================
