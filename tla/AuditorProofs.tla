--------------------------- MODULE AuditorProofs ---------------------------
(***************************************************************************)
(* Theorems about Auditor.  Phase says who is in Flush; with it, that the  *)
(* books of Ledger are kept is a fact about each step.  NewSourceAlerted   *)
(* needs to know of the batch in hand that detection has seen it.          *)
(***************************************************************************)
EXTENDS Auditor, Sums

USE DEF Tally

LEMMA PlusType == ASSUME NEW f \in Tally, NEW g \in Tally
                  PROVE  Plus(f, g) \in Tally
  BY DEF Plus

LEMMA PartType == ASSUME NEW f \in Tally, NEW S PROVE Part(f, S) \in Tally
  BY DEF Part

LEMMA NoneType == None \in Tally
  BY DEF None

LEMMA DetectTypes ==
  ASSUME Types, NEW U \in SUBSET Keys
  PROVE  onAuthFailure(U) \cup onAuthSuccess(U) \cup onPrivilegeProbe \subseteq Alerts
<1>1. \A k \in Keys : IpOf[k] \in IPs \cup {NoIP}
  BY ConfigAssumption
<1>2. onAuthFailure(U) \subseteq Alerts
  BY <1>1 DEF onAuthFailure, Alerts, entries
<1>3. onAuthSuccess(U) \subseteq Alerts
  BY <1>1 DEF onAuthSuccess, Alerts, entries
<1>4. onPrivilegeProbe \subseteq Alerts
  BY <1>1 DEF onPrivilegeProbe, Alerts, entries
<1> QED  BY <1>2, <1>3, <1>4

LEMMA InitTypes == Init => Types /\ Phase
  BY NoneType DEF Init, Types, Phase

LEMMA StepTypes == Types /\ Phase /\ [Next]_vars => Types' /\ Phase'
<1> SUFFICES ASSUME Types, Phase, [Next]_vars PROVE Types' /\ Phase'
  OBVIOUS
<1>1. ASSUME NEW k \in Keys, TrackBuffered(k) PROVE Types' /\ Phase'
  BY <1>1 DEF Types, Phase, TrackBuffered, detection
<1>2. ASSUME NEW k \in Keys, TrackDropped(k) PROVE Types' /\ Phase'
  BY <1>2 DEF Types, Phase, TrackDropped, detection
<1>3. ASSUME NEW U \in SUBSET Keys, Detect(U) PROVE Types' /\ Phase'
  <2>1. raised' \subseteq Alerts /\ blind' \subseteq Keys
    BY <1>3, DetectTypes DEF Detect, Types
  <2> QED  BY <1>3, <2>1 DEF Types, Phase, Detect, counts
<1>4. CASE ReportDropped
  BY <1>4 DEF Types, Phase, ReportDropped, counts
<1>5. CASE WriteCommits
  BY <1>5, PlusType DEF Types, Phase, WriteCommits, counts, detection
<1>6. CASE WriteFails
  BY <1>6 DEF Types, Phase, WriteFails, counts, detection
<1>7. CASE CountWritten
  BY <1>7, PlusType, NoneType DEF Types, Phase, CountWritten, Return, detection
<1>8. ASSUME NEW S \in SUBSET Keys, Restore(S) PROVE Types' /\ Phase'
  <2>1. pending' \in Tally /\ dropped' \in Tally
    BY <1>8, PlusType, PartType DEF Restore, Types
  <2> QED  BY <1>8, <2>1, NoneType DEF Types, Phase, Restore, Return, detection
<1>9. ASSUME NEW requested \in BOOLEAN, WorkerFlushes(requested)
      PROVE  Types' /\ Phase'
  <2>1. flushNow' \in BOOLEAN
    BY <1>9 DEF WorkerFlushes, Types
  <2>2. flush' = "none" => pending = None
    BY <1>9 DEF WorkerFlushes, Swap, Types, entries, None
  <2> QED  BY <1>9, <2>1, <2>2, NoneType
           DEF Types, Phase, WorkerFlushes, Swap, counts, detection
<1>10. CASE WorkerStops
  BY <1>10 DEF Types, Phase, WorkerStops, counts, detection
<1>11. CASE CloseStops
  BY <1>11 DEF Types, Phase, CloseStops, counts, detection
<1>12. CASE CloseFlushes
  <2>1. flush' = "none" => pending = None
    BY <1>12 DEF CloseFlushes, Swap, Types, entries, None
  <2> QED  BY <1>12, <2>1, NoneType
           DEF Types, Phase, CloseFlushes, Swap, counts, detection
<1>13. ASSUME NEW E \in SUBSET Keys, Purge(E) PROVE Types' /\ Phase'
  BY <1>13, PlusType, PartType DEF Types, Phase, Purge, detection
<1>14. CASE UNCHANGED vars
  BY <1>14 DEF Types, Phase, vars, counts, detection
<1> QED
  BY <1>1, <1>2, <1>3, <1>4, <1>5, <1>6, <1>7, <1>8, <1>9, <1>10, <1>11, <1>12,
     <1>13, <1>14 DEF Next, Track, Flush

LEMMA Typing == Spec => [](Types /\ Phase)
  BY InitTypes, StepTypes, PTL DEF Spec

\* Type correctness of Auditor, and that one goroutine at a time is in Flush.
THEOREM TypeCorrect == Spec => []TypeOK
  BY Typing, PTL DEF TypeOK
-----------------------------------------------------------------------------
(* The auditor implements Ledger.                                          *)

waiting == Plus(pending, inHand)

LEMMA RestoreSplits ==
  ASSUME Types, Phase, NEW S \in SUBSET Keys, Restore(S)
  PROVE  /\ waiting' = pending'
         /\ \A k \in Keys : /\ waiting[k] = pending'[k] + (dropped'[k] - dropped[k])
                            /\ dropped[k] <= dropped'[k]
<1> DEFINE new == entries(batch) \ entries(pending)
<1>1. inHand = batch /\ inHand' = None
  BY DEF Restore, inHand, Return
<1>2. pending' \in Tally /\ waiting' = pending'
  <2>1. pending' \in Tally
    BY PlusType, PartType DEF Restore, Types
  <2> QED  BY <1>1, <2>1 DEF waiting, Plus, None
<1>3. \A k \in Keys :
        pending'[k] = pending[k] + (IF k \in S \cup entries(pending) THEN batch[k] ELSE 0)
  BY DEF Restore, Plus, Part
<1>4. \A k \in Keys : dropped'[k] = dropped[k] + (IF k \in new \ S THEN batch[k] ELSE 0)
  BY DEF Restore, Plus, Part
<1>5. S \subseteq new
  BY DEF Restore
<1>6. \A k \in Keys : k \notin new => k \in entries(pending) \/ batch[k] = 0
  BY DEF entries, Types
<1>7. \A k \in Keys : waiting[k] = pending[k] + batch[k]
  BY <1>1 DEF waiting, Plus
<1>8. \A k \in Keys : pending[k] \in Nat /\ batch[k] \in Nat /\ dropped[k] \in Nat
  BY DEF Types
<1>9. ASSUME NEW k \in Keys
      PROVE  /\ waiting[k] = pending'[k] + (dropped'[k] - dropped[k])
             /\ dropped[k] <= dropped'[k]
  <2>1. CASE k \in new \ S
    <3>1. k \notin S \cup entries(pending)
      BY <2>1
    <3> QED  BY <1>3, <1>4, <1>7, <1>8, <2>1, <3>1
  <2>2. CASE k \notin new \ S
    <3>1. k \in S \cup entries(pending) \/ batch[k] = 0
      BY <1>6, <2>2
    <3>2. dropped'[k] = dropped[k]
      BY <1>4, <1>8, <2>2
    <3> QED  BY <1>3, <1>7, <1>8, <3>1, <3>2
  <2> QED  BY <2>1, <2>2
<1> QED  BY <1>2, <1>9

LEMMA StepKeepsBooks ==
  ASSUME Types, Phase, Types', [Next]_vars
  PROVE  [Books!Next]_(Books!books)
<1> USE DEF Books!books
<1>0. /\ inHand \in Tally /\ waiting \in Tally /\ stored \in Tally
      /\ inHand' \in Tally /\ waiting' \in Tally /\ stored' \in Tally
  BY PlusType, NoneType DEF inHand, waiting, stored, Types
<1> DEFINE idle == UNCHANGED <<tracked, waiting, stored, dropped>>
<1>1. ASSUME NEW k \in Keys, TrackBuffered(k) PROVE Books!Accept(k)
  <2>1. inHand' = inHand /\ stored' = stored
    BY <1>1 DEF TrackBuffered, inHand, stored
  <2>2. waiting' = [waiting EXCEPT ![k] = @ + 1]
    <3>1. \A j \in Keys :
            pending'[j] + inHand'[j] = (pending[j] + inHand[j]) + (IF j = k THEN 1 ELSE 0)
      BY <1>0, <1>1, <2>1 DEF TrackBuffered, Types
    <3>2. waiting' = [j \in Keys |-> pending'[j] + inHand'[j]]
      BY DEF waiting, Plus
    <3>3. waiting = [j \in Keys |-> pending[j] + inHand[j]]
      BY DEF waiting, Plus
    <3> QED  BY <1>0, <3>1, <3>2, <3>3
  <2> QED  BY <1>1, <2>1, <2>2 DEF Books!Accept, TrackBuffered, waiting
<1>2. ASSUME NEW k \in Keys, TrackDropped(k) PROVE Books!Refuse(k)
  BY <1>2 DEF Books!Refuse, TrackDropped, inHand, stored
<1>3. ASSUME NEW U \in SUBSET Keys, Detect(U) PROVE idle
  BY <1>3 DEF Detect, waiting, inHand, stored, counts
<1>5. ASSUME WriteCommits PROVE Books!Record
  <2>1. inHand = batch /\ inHand' = None /\ pending' = pending
    BY <1>5 DEF WriteCommits, inHand
  <2>2. \A k \in Keys : waiting[k] = pending[k] + batch[k] /\ waiting'[k] = pending[k]
    BY <2>1 DEF waiting, Plus, None, Types
  <2>3. \A k \in Keys : stored'[k] = stored[k] + batch[k]
    BY <1>5 DEF WriteCommits, stored, Plus, Types, counts
  <2>4. stored' = [k \in Keys |-> stored[k] + (waiting[k] - waiting'[k])]
    BY <1>0, <2>2, <2>3 DEF Types
  <2>5. Books!Leave
    BY <1>0, <2>2 DEF Books!Leave, waiting, Types
  <2> QED  BY <1>5, <2>4, <2>5 DEF Books!Record, WriteCommits, waiting, counts
<1>6. ASSUME ReportDropped \/ WriteFails PROVE idle
  BY <1>6 DEF ReportDropped, WriteFails, waiting, inHand, stored, counts
<1>7. ASSUME CountWritten PROVE idle
  BY <1>7 DEF CountWritten, Return, waiting, inHand, stored
<1>8. ASSUME NEW S \in SUBSET Keys, Restore(S) PROVE Books!Shed
  <2>1. /\ waiting' = pending'
        /\ \A k \in Keys : /\ waiting[k] = pending'[k] + (dropped'[k] - dropped[k])
                           /\ dropped[k] <= dropped'[k]
    BY <1>8, RestoreSplits
  <2>2. \A k \in Keys : dropped[k] \in Nat /\ dropped'[k] \in Nat /\ pending'[k] \in Nat
    BY DEF Types
  <2>3. dropped' = [k \in Keys |-> dropped[k] + (waiting[k] - waiting'[k])]
    BY <1>0, <2>1, <2>2 DEF Types
  <2>4. Books!Leave
    BY <1>0, <2>1, <2>2 DEF Books!Leave, waiting
  <2>5. tracked' = tracked /\ stored' = stored
    BY <1>8 DEF Restore, stored
  <2> QED  BY <2>3, <2>4, <2>5 DEF Books!Shed, waiting
<1>9. ASSUME flush = "none", Swap, UNCHANGED <<tracked, dropped, table, purged>>
      PROVE  idle
  <2>1. inHand = None /\ batch' = pending /\ pending' = None
    BY <1>9 DEF Swap, inHand
  <2>2. inHand' = pending
    BY <1>9, <2>1 DEF Swap, inHand, entries, None, Types
  <2>3. waiting = pending /\ waiting' = pending
    BY <2>1, <2>2 DEF waiting, Plus, None, Types
  <2> QED  BY <1>9, <2>3 DEF stored
<1>10. ASSUME NEW requested \in BOOLEAN, WorkerFlushes(requested) PROVE idle
  BY <1>9, <1>10 DEF WorkerFlushes, Phase, counts
<1>11. ASSUME CloseFlushes PROVE idle
  BY <1>9, <1>11 DEF CloseFlushes, Phase, counts
<1>12. ASSUME WorkerStops \/ CloseStops PROVE idle
  BY <1>12 DEF WorkerStops, CloseStops, waiting, inHand, stored, counts
<1>13. ASSUME NEW E \in SUBSET Keys, Purge(E) PROVE idle
  <2>1. stored' = stored
    BY <1>13 DEF Purge, stored, Plus, Part, Types
  <2> QED  BY <1>13, <2>1 DEF Purge, waiting, inHand
<1>14. ASSUME UNCHANGED vars PROVE idle
  BY <1>14 DEF vars, waiting, inHand, stored, counts
<1>15. ASSUME idle PROVE [Books!Next]_(Books!books)
  BY <1>15 DEF waiting
<1>16. ASSUME NEW k \in Keys, Track(k) PROVE [Books!Next]_(Books!books)
  BY <1>1, <1>2, <1>16 DEF Books!Next, Track
<1>17. ASSUME Flush PROVE [Books!Next]_(Books!books)
  BY <1>3, <1>5, <1>6, <1>7, <1>8, <1>15, <1>17 DEF Books!Next, Flush
<1> QED
  BY <1>10, <1>11, <1>12, <1>13, <1>14, <1>15, <1>16, <1>17 DEF Next

LEMMA InitKeepsBooks == Init => Books!Init
  BY DEF Init, Books!Init, inHand, stored, Plus, None

\* Whatever is interleaved with a flush and however often writes fail, the
\* auditor implements Ledger.
THEOREM AuditorKeepsBooks == Spec => BooksKept
  BY InitKeepsBooks, StepKeepsBooks, Typing, PTL DEF Spec, BooksKept, Books!Spec

\* The books that Ledger describes always balance: every step moves a tally from
\* one column to another, or receives into one.
LEMMA BooksBalance == Books!Spec => [](Books!TypeOK /\ Books!Balanced)
<1>1. Books!Init => Books!TypeOK /\ Books!Balanced
  BY DEF Books!Init, Books!TypeOK, Books!Balanced
<1>2. Books!TypeOK /\ Books!Balanced /\ [Books!Next]_(Books!books)
        => (Books!TypeOK /\ Books!Balanced)'
  <2> SUFFICES ASSUME Books!TypeOK, Books!Balanced, [Books!Next]_(Books!books)
               PROVE  Books!TypeOK' /\ Books!Balanced'
    OBVIOUS
  <2>1. CASE \E k \in Keys : Books!Accept(k)
    BY <2>1 DEF Books!TypeOK, Books!Balanced, Books!Accept
  <2>2. CASE \E k \in Keys : Books!Refuse(k)
    BY <2>2 DEF Books!TypeOK, Books!Balanced, Books!Refuse
  <2>3. CASE Books!Record
    BY <2>3 DEF Books!TypeOK, Books!Balanced, Books!Record, Books!Leave
  <2>4. CASE Books!Shed
    BY <2>4 DEF Books!TypeOK, Books!Balanced, Books!Shed, Books!Leave
  <2>5. CASE UNCHANGED Books!books
    BY <2>5 DEF Books!TypeOK, Books!Balanced, Books!books
  <2> QED  BY <2>1, <2>2, <2>3, <2>4, <2>5 DEF Books!Next
<1> QED  BY <1>1, <1>2, PTL DEF Books!Spec

\* Hence every event that was tracked is waiting, stored or counted as dropped.
THEOREM EventsConserved == Spec => []Books!Balanced
  BY AuditorKeepsBooks, BooksBalance, PTL DEF BooksKept
-----------------------------------------------------------------------------
(* The written counter.                                                    *)

\* The Written that Stats reports never exceeds the rows stored, and differs
\* from them only between the commit and the count.
THEOREM WrittenAgrees == Spec => []WrittenIsStored
<1>1. Init => WrittenIsStored
  BY DEF Init, WrittenIsStored, stored, Plus, None
<1>2. Types /\ Phase /\ WrittenIsStored /\ [Next]_vars => WrittenIsStored'
  <2> SUFFICES ASSUME Types, Phase, WrittenIsStored, [Next]_vars
               PROVE  WrittenIsStored'
    OBVIOUS
  <2>1. ASSUME flush # "count", flush' # "count", UNCHANGED <<table, purged, written>>
        PROVE  WrittenIsStored'
    BY <2>1 DEF WrittenIsStored, stored
  <2>2. ASSUME NEW k \in Keys, Track(k) PROVE WrittenIsStored'
    BY <2>2 DEF Track, TrackBuffered, TrackDropped, WrittenIsStored, stored
  <2>3. ASSUME \/ \E U \in SUBSET Keys : Detect(U)
               \/ ReportDropped \/ WriteFails
               \/ \E S \in SUBSET Keys : Restore(S)
        PROVE  WrittenIsStored'
    BY <2>1, <2>3
    DEF Detect, ReportDropped, WriteFails, Restore, Return, counts
  <2>4. CASE WriteCommits
    <3>1. stored = written /\ flush' = "count"
      BY <2>4 DEF WriteCommits, WrittenIsStored
    <3>2. \A k \in Keys : stored'[k] = stored[k] + batch[k]
      BY <2>4 DEF WriteCommits, stored, Plus, Types, counts
    <3>3. stored' = [k \in Keys |-> stored[k] + batch[k]]
      BY <3>2 DEF stored, Plus
    <3> QED  BY <2>4, <3>1, <3>3 DEF WrittenIsStored, WriteCommits, Plus, counts
  <2>5. CASE CountWritten
    BY <2>5 DEF CountWritten, Return, WrittenIsStored, stored
  <2>6. CASE \/ \E requested \in BOOLEAN : WorkerFlushes(requested)
             \/ CloseFlushes
    BY <2>1, <2>6 DEF WorkerFlushes, CloseFlushes, Swap, Phase, counts
  <2>7. CASE WorkerStops \/ CloseStops \/ UNCHANGED vars
    BY <2>7 DEF WorkerStops, CloseStops, vars, counts, WrittenIsStored, stored
  <2>8. ASSUME NEW E \in SUBSET Keys, Purge(E) PROVE WrittenIsStored'
    <3>1. stored' = stored
      BY <2>8 DEF Purge, stored, Plus, Part, Types
    <3> QED  BY <2>8, <3>1 DEF Purge, WrittenIsStored
  <2> QED
    BY <2>2, <2>3, <2>4, <2>5, <2>6, <2>7, <2>8 DEF Next, Flush
<1> QED  BY <1>1, <1>2, Typing, PTL DEF Spec
-----------------------------------------------------------------------------
(* The buffer.                                                             *)

LEMMA RestoreKeepsBound ==
  ASSUME Types, BufferBounded, NEW S \in SUBSET Keys, Restore(S)
  PROVE  BufferBounded'
<1> DEFINE new == entries(batch) \ entries(pending)
           free == MaxPendingEvents - Cardinality(entries(pending))
<1>1. IsFiniteSet(entries(pending)) /\ IsFiniteSet(S) /\ IsFiniteSet(new)
  BY ConfigAssumption, FS_Subset DEF entries
<1>2. S \subseteq new /\ S \cap entries(pending) = {}
  BY DEF Restore
<1>3. Cardinality(S) <= free
  <2>1. Cardinality(S) = IF Cardinality(new) <= free THEN Cardinality(new) ELSE free
    BY DEF Restore
  <2>2. Cardinality(new) \in Nat /\ Cardinality(entries(pending)) \in Nat
        /\ MaxPendingEvents \in Nat
    BY <1>1, FS_CardinalityType, ConfigAssumption
  <2> HIDE DEF new
  <2> QED  BY <2>1, <2>2
<1>4. entries(pending') = entries(pending) \cup S
  <2>1. \A k \in Keys : pending'[k] =
          pending[k] + (IF k \in S \cup entries(pending) THEN batch[k] ELSE 0)
    BY DEF Restore, Plus, Part
  <2> QED  BY <1>2, <2>1 DEF entries, Types
<1>5. Cardinality(entries(pending) \cup S) = Cardinality(entries(pending)) + Cardinality(S)
  <2>1. Cardinality(entries(pending) \cap S) = 0
    BY <1>2, FS_EmptySet
  <2>2. Cardinality(S) \in Nat /\ Cardinality(entries(pending)) \in Nat
    BY <1>1, FS_CardinalityType
  <2>3. Cardinality(entries(pending) \cup S)
          = Cardinality(entries(pending)) + Cardinality(S)
              - Cardinality(entries(pending) \cap S)
    BY <1>1, FS_Union
  <2> QED  BY <2>1, <2>2, <2>3
<1>6. Cardinality(S) \in Nat /\ Cardinality(entries(pending)) \in Nat
  BY <1>1, FS_CardinalityType
<1> QED  BY <1>3, <1>4, <1>5, <1>6, ConfigAssumption DEF BufferBounded

\* The ceiling holds, however much a folded back batch competes with events that
\* were tracked while it was out.
THEOREM CeilingHolds == Spec => []BufferBounded
<1>0. Cardinality(entries(None)) = 0
  <2>1. entries(None) = {}
    BY DEF entries, None
  <2> QED  BY <2>1, FS_EmptySet
<1>1. Init => BufferBounded
  BY <1>0, ConfigAssumption DEF Init, BufferBounded
<1>2. Types /\ Phase /\ BufferBounded /\ [Next]_vars => BufferBounded'
  <2> SUFFICES ASSUME Types, Phase, BufferBounded, [Next]_vars
               PROVE  BufferBounded'
    OBVIOUS
  <2>1. ASSUME pending' \in {pending, None} PROVE BufferBounded'
    BY <1>0, <2>1, ConfigAssumption DEF BufferBounded
  <2>2. ASSUME NEW k \in Keys, TrackBuffered(k) PROVE BufferBounded'
    <3>1. entries(pending') = entries(pending) \cup {k}
      BY <2>2 DEF TrackBuffered, entries, Types
    <3>2. IsFiniteSet(entries(pending))
      BY ConfigAssumption, FS_Subset DEF entries
    <3>3. CASE pending[k] > 0
      <4>1. entries(pending) \cup {k} = entries(pending)
        BY <3>3 DEF entries
      <4> QED  BY <3>1, <4>1 DEF BufferBounded
    <3>4. CASE room /\ ~(pending[k] > 0)
      <4>1. k \notin entries(pending)
        BY <3>4 DEF entries
      <4>2. Cardinality(entries(pending) \cup {k}) = Cardinality(entries(pending)) + 1
        BY <3>2, <4>1, FS_AddElement
      <4>3. Cardinality(entries(pending)) \in Nat
        BY <3>2, FS_CardinalityType
      <4> QED  BY <3>1, <3>4, <4>2, <4>3, ConfigAssumption DEF room, BufferBounded
    <3> QED  BY <2>2, <3>3, <3>4 DEF TrackBuffered
  <2>3. ASSUME NEW k \in Keys, TrackDropped(k) PROVE BufferBounded'
    BY <2>1, <2>3 DEF TrackDropped
  <2>4. CASE Flush
    BY <2>1, <2>4, RestoreKeepsBound
    DEF Flush, Detect, ReportDropped, WriteCommits, WriteFails, CountWritten
  <2>5. CASE \/ \E requested \in BOOLEAN : WorkerFlushes(requested)
             \/ WorkerStops \/ CloseStops \/ CloseFlushes
             \/ \E E \in SUBSET Keys : Purge(E)
             \/ UNCHANGED vars
    BY <2>1, <2>5
    DEF WorkerFlushes, WorkerStops, CloseStops, CloseFlushes, Swap, Purge, vars
  <2> QED  BY <2>2, <2>3, <2>4, <2>5 DEF Next, Track
<1> QED  BY <1>1, <1>2, Typing, PTL DEF Spec

\* The counters of Stats and the ceiling of the buffer, together.
THEOREM CountersAreTrue == Spec => []CountersTrue
<1>1. BufferBounded /\ WrittenIsStored => CountersTrue
  BY DEF CountersTrue
<1>2. QED
  BY <1>1, CeilingHolds, WrittenAgrees, PTL
-----------------------------------------------------------------------------
(* Sign-ins from new addresses.                                            *)

\* The address of k was reported as new, or its lookup failed.
Told(k) == \/ [what |-> "new_source", ip |-> IpOf[k]] \in raised
           \/ \E s \in blind \cap Successes : IpOf[s] = IpOf[k]

Relevant == {k \in Successes : AlertOnNewIP /\ IpOf[k] # NoIP}

\* Detection has seen the batch that is about to be, or has just been, written.
BatchTold ==
  flush \in {"report", "write", "count"}
    => \A k \in Relevant \cap entries(batch) : Told(k)

LEMMA ToldIsStable ==
  ASSUME raised \subseteq raised', blind \subseteq blind', NEW k, Told(k)
  PROVE  Told(k)'
  BY DEF Told

LEMMA DetectTells ==
  ASSUME Types, NewSourceAlerted, NEW U \in SUBSET Keys, Detect(U),
         NEW k \in Relevant \cap entries(batch)
  PROVE  Told(k)'
<1> USE DEF Detect, Relevant
<1>0. blind \subseteq blind' /\ raised \subseteq raised'
  OBVIOUS
<1>1. CASE k \in U
  BY <1>1 DEF Told
<1>2. CASE k \notin U /\ ~hasPriorSuccess(IpOf[k])
  <2>1. [what |-> "new_source", ip |-> IpOf[k]] \in onAuthSuccess(U)
    BY <1>2 DEF onAuthSuccess
  <2> QED  BY <2>1 DEF Told
<1>3. CASE hasPriorSuccess(IpOf[k])
  <2>1. PICK s \in Successes : IpOf[s] = IpOf[k] /\ table[s] > 0
    BY <1>3 DEF hasPriorSuccess
  <2>2. stored[s] > 0
    BY <2>1, ConfigAssumption DEF stored, Plus, Types
  <2>3. Told(s)
    BY <2>1, <2>2 DEF NewSourceAlerted, Told
  <2>4. Told(s)'
    BY <1>0, <2>3, ToldIsStable
  <2> QED  BY <2>1, <2>4 DEF Told
<1> QED  BY <1>1, <1>2, <1>3

\* An address that has ever had a sign-in stored was reported as new.
THEOREM NewSourcesAreReported == Spec => []NewSourceAlerted
<1> DEFINE Inv == NewSourceAlerted /\ BatchTold
<1>1. Init => Inv
  BY ConfigAssumption DEF Init, NewSourceAlerted, BatchTold, stored, Plus, None
<1>2. Types /\ Phase /\ Inv /\ [Next]_vars => Inv'
  <2> SUFFICES ASSUME Types, Phase, Inv, [Next]_vars PROVE Inv'
    OBVIOUS
  <2>0. NewSourceAlerted' <=>
          \A k \in Relevant : stored'[k] > 0 => Told(k)'
    BY DEF NewSourceAlerted, Relevant, Told
  <2>1. \A k \in Relevant : stored[k] > 0 => Told(k)
    BY DEF NewSourceAlerted, Relevant, Told
  <2>2. ASSUME raised' = raised, blind' = blind,
               \A k \in Relevant : stored'[k] > 0 => Told(k),
               \/ flush' \notin {"report", "write", "count"}
               \/ flush \in {"report", "write", "count"} /\ batch' = batch
        PROVE  Inv'
    <3>1. \A k : Told(k) => Told(k)'
      BY <2>2, ToldIsStable
    <3> QED  BY <2>0, <2>2, <3>1 DEF BatchTold
  <2>3. ASSUME stored' = stored, raised' = raised, blind' = blind,
               \/ flush' \notin {"report", "write", "count"}
               \/ flush \in {"report", "write", "count"} /\ batch' = batch
        PROVE  Inv'
    BY <2>1, <2>2, <2>3
  <2>4. CASE \E k \in Keys : Track(k)
    BY <2>3, <2>4 DEF Track, TrackBuffered, TrackDropped, detection, stored
  <2>5. ASSUME NEW U \in SUBSET Keys, Detect(U) PROVE Inv'
    <3>1. \A k : Told(k) => Told(k)'
      BY <2>5, ToldIsStable DEF Detect
    <3>2. stored' = stored /\ batch' = batch
      BY <2>5 DEF Detect, stored, counts
    <3>3. \A k \in Relevant \cap entries(batch) : Told(k)'
      BY <2>5, DetectTells
    <3> QED  BY <2>0, <2>1, <3>1, <3>2, <3>3 DEF BatchTold
  <2>6. CASE ReportDropped \/ WriteFails \/ \E S \in SUBSET Keys : Restore(S)
    BY <2>3, <2>6
    DEF ReportDropped, WriteFails, Restore, Return, detection, stored, counts
  <2>7. CASE WriteCommits
    <3>1. \A k \in Keys : stored'[k] = stored[k] + batch[k]
      BY <2>7 DEF WriteCommits, stored, Plus, Types, counts
    <3>2. Relevant \subseteq Keys
      BY ConfigAssumption DEF Relevant
    <3>3. \A k \in Relevant : stored'[k] > 0 => stored[k] > 0 \/ k \in entries(batch)
      BY <3>1, <3>2 DEF entries, stored, Plus, Types
    <3>4. \A k \in Relevant : stored'[k] > 0 => Told(k)
      BY <2>1, <2>7, <3>3 DEF BatchTold, WriteCommits
    <3> QED  BY <2>2, <2>7, <3>4 DEF WriteCommits, detection
  <2>8. CASE CountWritten
    BY <2>3, <2>8 DEF CountWritten, Return, detection, stored
  <2>9. CASE \/ \E requested \in BOOLEAN : WorkerFlushes(requested)
             \/ CloseFlushes
    BY <2>3, <2>9 DEF WorkerFlushes, CloseFlushes, Swap, detection, stored, counts
  <2>10. CASE WorkerStops \/ CloseStops \/ UNCHANGED vars
    BY <2>3, <2>10 DEF WorkerStops, CloseStops, vars, detection, stored, counts
  <2>11. ASSUME NEW E \in SUBSET Keys, Purge(E) PROVE Inv'
    <3>1. stored' = stored
      BY <2>11 DEF Purge, stored, Plus, Part, Types
    <3> QED  BY <2>3, <2>11, <3>1 DEF Purge, detection
  <2> QED
    BY <2>4, <2>5, <2>6, <2>7, <2>8, <2>9, <2>10, <2>11 DEF Next, Flush
<1> QED  BY <1>1, <1>2, Typing, PTL DEF Spec
-----------------------------------------------------------------------------
(* Repeated failures.                                                      *)

\* A brute force was reported for the address of k, or a query of k failed.
ToldForce(k) == \/ [what |-> "bruteforce", ip |-> IpOf[k]] \in raised
                \/ k \in blind

Watched == {k \in Failures : AlertOnFailure /\ IpOf[k] # NoIP}

\* Detection has counted the batch that is about to be written together with
\* the rows that are there: the retention job can only lower that count.
BatchWeighed ==
  flush \in {"report", "write"} =>
    \A k \in Watched : (batch[k] > 0 /\ table[k] + batch[k] >= BruteForceThreshold)
                         => ToldForce(k)

\* The rows of one key are among those detection counts for its address.
LEMMA RowsAmongRecent ==
  ASSUME Types, NEW k \in Watched
  PROVE  recentFailures(IpOf[k]) \in Nat /\ table[k] <= recentFailures(IpOf[k])
<1> DEFINE F == {f \in Failures : IpOf[f] = IpOf[k]}
<1>1. F \subseteq Keys /\ IsFiniteSet(F) /\ k \in F
  BY ConfigAssumption, FS_Subset DEF Watched
<1>2. \A f \in F : table[f] \in Nat
  BY <1>1 DEF Types
<1>3. SumFunctionOnSet(table, F) = table[k] + SumFunctionOnSet(table, F \ {k})
  BY <1>1, <1>2, SumRemove
<1>4. SumFunctionOnSet(table, F) \in Nat /\ SumFunctionOnSet(table, F \ {k}) \in Nat
  BY <1>1, <1>2, SumType, FS_Subset
<1>5. recentFailures(IpOf[k]) = SumFunctionOnSet(table, F)
  BY DEF recentFailures, Watched
<1> HIDE DEF F
<1> QED  BY <1>1, <1>2, <1>3, <1>4, <1>5

LEMMA DetectWeighs ==
  ASSUME Types, NEW U \in SUBSET Keys, Detect(U), NEW k \in Watched,
         batch[k] > 0, table[k] + batch[k] >= BruteForceThreshold
  PROVE  ToldForce(k)'
<1>1. CASE k \in U
  BY <1>1 DEF Detect, ToldForce
<1>2. CASE k \notin U
  <2>1. recentFailures(IpOf[k]) + batch[k] >= BruteForceThreshold
    <3>1. batch[k] \in Nat /\ table[k] \in Nat
      BY ConfigAssumption DEF Types, Watched
    <3> QED  BY <3>1, RowsAmongRecent, ConfigAssumption
  <2>2. [what |-> "bruteforce", ip |-> IpOf[k]] \in onAuthFailure(U)
    <3>1. k \in {f \in Failures \cap entries(batch) : AlertOnFailure}
      BY ConfigAssumption DEF Watched, entries
    <3> QED  BY <1>2, <2>1, <3>1 DEF onAuthFailure
  <2> QED  BY <2>2 DEF Detect, ToldForce
<1> QED  BY <1>1, <1>2

\* Failures of one account that reach the threshold on record were reported as a
\* brute force, over however many batches they came, however often a batch was
\* folded back and whatever was purged, unless their query failed.
THEOREM RepeatedFailuresAreReported == Spec => []RepeatedFailureAlerted
<1> DEFINE Inv == RepeatedFailureAlerted /\ BatchWeighed
<1>1. Init => Inv
  BY ConfigAssumption DEF Init, RepeatedFailureAlerted, BatchWeighed, None
<1>2. Types /\ Phase /\ Inv /\ [Next]_vars => Inv'
  <2> SUFFICES ASSUME Types, Phase, Inv, [Next]_vars PROVE Inv'
    OBVIOUS
  <2>0. Watched \subseteq Keys
    BY ConfigAssumption DEF Watched
  <2>1. /\ RepeatedFailureAlerted <=>
             \A k \in Watched : table[k] >= BruteForceThreshold => ToldForce(k)
        /\ RepeatedFailureAlerted' <=>
             \A k \in Watched : table'[k] >= BruteForceThreshold => ToldForce(k)'
    BY DEF RepeatedFailureAlerted, Watched, ToldForce
  <2>2. ASSUME table' = table, raised' = raised, blind' = blind,
               \/ flush' \notin {"report", "write"}
               \/ flush \in {"report", "write"} /\ batch' = batch
        PROVE  Inv'
    BY <2>1, <2>2 DEF BatchWeighed, ToldForce
  <2>3. CASE \E k \in Keys : Track(k)
    BY <2>2, <2>3 DEF Track, TrackBuffered, TrackDropped, detection
  <2>4. ASSUME NEW U \in SUBSET Keys, Detect(U) PROVE Inv'
    <3>1. \A k : ToldForce(k) => ToldForce(k)'
      BY <2>4 DEF Detect, ToldForce
    <3>2. table' = table /\ batch' = batch
      BY <2>4 DEF Detect, counts
    <3> QED  BY <2>1, <2>4, <3>1, <3>2, DetectWeighs DEF BatchWeighed
  <2>5. CASE ReportDropped \/ WriteFails \/ \E S \in SUBSET Keys : Restore(S)
    BY <2>2, <2>5 DEF ReportDropped, WriteFails, Restore, Return, detection, counts
  <2>6. CASE WriteCommits
    <3>1. \A k \in Watched : /\ table'[k] = table[k] + batch[k]
                             /\ table[k] \in Nat /\ batch[k] \in Nat
      BY <2>0, <2>6 DEF WriteCommits, Plus, Types
    <3>2. \A k \in Watched : table'[k] >= BruteForceThreshold => ToldForce(k)
      BY <2>1, <2>6, <3>1, ConfigAssumption DEF BatchWeighed, WriteCommits
    <3> QED  BY <2>1, <2>6, <3>2 DEF WriteCommits, BatchWeighed, ToldForce, detection
  <2>7. CASE CountWritten
    BY <2>2, <2>7 DEF CountWritten, Return, detection
  <2>8. CASE \/ \E requested \in BOOLEAN : WorkerFlushes(requested)
             \/ CloseFlushes
    BY <2>2, <2>8 DEF WorkerFlushes, CloseFlushes, Swap, detection, counts
  <2>9. CASE WorkerStops \/ CloseStops \/ UNCHANGED vars
    BY <2>2, <2>9 DEF WorkerStops, CloseStops, vars, detection, counts
  <2>10. ASSUME NEW E \in SUBSET Keys, Purge(E) PROVE Inv'
    <3>1. \A k \in Watched : table'[k] \in Nat /\ table[k] \in Nat /\ batch[k] \in Nat
                             /\ table'[k] <= table[k]
      BY <2>0, <2>10 DEF Purge, Part, Types
    <3>2. \A k : ToldForce(k)' <=> ToldForce(k)
      BY <2>10 DEF Purge, ToldForce, detection
    <3>3. RepeatedFailureAlerted'
      BY <2>1, <3>1, <3>2, ConfigAssumption
    <3>4. flush' = flush /\ batch' = batch
      BY <2>10 DEF Purge
    <3>5. BatchWeighed'
      BY <3>1, <3>2, <3>4, ConfigAssumption DEF BatchWeighed
    <3> QED  BY <3>3, <3>5
  <2> QED
    BY <2>3, <2>4, <2>5, <2>6, <2>7, <2>8, <2>9, <2>10 DEF Next, Flush
<1> QED  BY <1>1, <1>2, Typing, PTL DEF Spec

FailuresFrom(ip) == {k \in Failures : IpOf[k] = ip}

\* What detection weighs, the rows and the batch in hand, was all tracked: the
\* books of Ledger say so.
LEMMA WeighedWasTracked ==
  ASSUME Types, Books!Balanced, flush = "detect", NEW ip \in IPs,
         NEW k \in FailuresFrom(ip)
  PROVE  /\ SumFunctionOnSet(tracked, FailuresFrom(ip)) \in Nat
         /\ recentFailures(ip) \in Nat /\ batch[k] \in Nat
         /\ recentFailures(ip) + batch[k]
              <= SumFunctionOnSet(tracked, FailuresFrom(ip))
<1> DEFINE F == FailuresFrom(ip)
           both == Plus(table, batch)
<1>1. F \subseteq Keys /\ IsFiniteSet(F)
  BY ConfigAssumption, FS_Subset DEF FailuresFrom
<1>2. \A f \in F : /\ table[f] \in Nat /\ batch[f] \in Nat /\ tracked[f] \in Nat
                   /\ both[f] = table[f] + batch[f] /\ both[f] \in Nat
  BY <1>1 DEF Types, Plus
<1>3. \A f \in F : both[f] <= tracked[f]
  <2>1. \A f \in Keys : /\ tracked[f] = Plus(pending, inHand)[f] + stored[f] + dropped[f]
                        /\ inHand[f] = batch[f]
    BY DEF Books!Balanced, inHand
  <2>2. \A f \in Keys : /\ pending[f] \in Nat /\ batch[f] \in Nat /\ table[f] \in Nat
                        /\ purged[f] \in Nat /\ dropped[f] \in Nat
    BY DEF Types
  <2>3. \A f \in Keys : tracked[f] = (pending[f] + batch[f]) + (table[f] + purged[f])
                                       + dropped[f]
    BY <2>1 DEF Plus, stored
  <2>4. \A f \in F : /\ both[f] = table[f] + batch[f]
                     /\ tracked[f] = (pending[f] + batch[f]) + (table[f] + purged[f])
                                       + dropped[f]
    BY <1>1, <2>3 DEF Plus
  <2> QED  BY <1>1, <2>2, <2>4
<1>4. SumFunctionOnSet(both, F) <= SumFunctionOnSet(tracked, F)
  BY <1>1, <1>2, <1>3, SumMonotone
<1>5. SumFunctionOnSet(both, F) = SumFunctionOnSet(table, F) + SumFunctionOnSet(batch, F)
  <2> HIDE DEF F, both
  <2> QED  BY <1>1, <1>2, SumPlus
<1>6. SumFunctionOnSet(batch, F) = batch[k] + SumFunctionOnSet(batch, F \ {k})
  BY <1>1, <1>2, SumRemove
<1>7. /\ SumFunctionOnSet(batch, F \ {k}) \in Nat
      /\ SumFunctionOnSet(table, F) \in Nat /\ SumFunctionOnSet(tracked, F) \in Nat
  BY <1>1, <1>2, SumType, FS_Subset
<1>8. recentFailures(ip) = SumFunctionOnSet(table, F)
  BY ConfigAssumption DEF recentFailures, FailuresFrom
<1> HIDE DEF F, both
<1>9. batch[k] \in Nat
  BY <1>2 DEF F
<1>10. recentFailures(ip) + batch[k] <= SumFunctionOnSet(tracked, F)
  BY <1>4, <1>5, <1>6, <1>7, <1>8, <1>9
<1> QED  BY <1>7, <1>8, <1>9, <1>10 DEF F

\* A brute force is only reported for an address from which so many failures
\* were tracked: no failure counts twice, however its batch went.
THEOREM BruteForcesAreDeserved == Spec => []BruteForceDeserved
<1> DEFINE BruteAlert(ip) == [what |-> "bruteforce", ip |-> ip]
           Enough(ip) == SumFunctionOnSet(tracked, FailuresFrom(ip)) >= BruteForceThreshold
<1>0. BruteForceDeserved <=> \A ip \in IPs : BruteAlert(ip) \in raised => Enough(ip)
  BY DEF BruteForceDeserved, FailuresFrom
<1>1. Init => BruteForceDeserved
  BY DEF Init, BruteForceDeserved
<1>2. /\ Types /\ Phase /\ Types' /\ Books!Balanced
      /\ BruteForceDeserved /\ [Next]_vars
      => BruteForceDeserved'
  <2> SUFFICES ASSUME Types, Phase, Types', Books!Balanced, BruteForceDeserved, [Next]_vars
               PROVE  BruteForceDeserved'
    OBVIOUS
  <2>0. BruteForceDeserved' <=> \A ip \in IPs : BruteAlert(ip) \in raised' => Enough(ip)'
    BY DEF BruteForceDeserved, FailuresFrom
  <2>1. ASSUME raised' = raised, \A k \in Keys : tracked[k] <= tracked'[k]
        PROVE  BruteForceDeserved'
    <3> SUFFICES ASSUME NEW ip \in IPs, Enough(ip) PROVE Enough(ip)'
      BY <1>0, <2>0, <2>1
    <3> DEFINE F == FailuresFrom(ip)
    <3>1. F \subseteq Keys /\ IsFiniteSet(F)
      BY ConfigAssumption, FS_Subset DEF FailuresFrom
    <3>2. \A f \in F : tracked[f] \in Nat /\ tracked'[f] \in Nat /\ tracked[f] <= tracked'[f]
      BY <2>1, <3>1 DEF Types
    <3>3. SumFunctionOnSet(tracked, F) <= SumFunctionOnSet(tracked', F)
      BY <3>1, <3>2, SumMonotone
    <3>4. SumFunctionOnSet(tracked, F) \in Nat /\ SumFunctionOnSet(tracked', F) \in Nat
      BY <3>1, <3>2, SumType
    <3>5. Enough(ip)' <=> SumFunctionOnSet(tracked', F) >= BruteForceThreshold
      BY DEF FailuresFrom
    <3> HIDE DEF F
    <3>6. SumFunctionOnSet(tracked, F) >= BruteForceThreshold
      BY DEF F
    <3> QED  BY <3>3, <3>4, <3>5, <3>6, ConfigAssumption
  <2>2. ASSUME raised' = raised, tracked' = tracked PROVE BruteForceDeserved'
    BY <2>1, <2>2 DEF Types
  <2>3. ASSUME NEW k \in Keys, Track(k) PROVE BruteForceDeserved'
    <3>1. raised' = raised /\ tracked' = [tracked EXCEPT ![k] = @ + 1]
      BY <2>3 DEF Track, TrackBuffered, TrackDropped, detection
    <3>2. \A j \in Keys : tracked[j] <= tracked'[j]
      BY <3>1 DEF Types
    <3> QED  BY <2>1, <3>1, <3>2
  <2>4. ASSUME NEW U \in SUBSET Keys, Detect(U) PROVE BruteForceDeserved'
    <3> SUFFICES ASSUME NEW ip \in IPs, BruteAlert(ip) \in raised', BruteAlert(ip) \notin raised
                 PROVE  Enough(ip)
      BY <1>0, <2>0, <2>4 DEF Detect, counts
    <3>1. BruteAlert(ip) \in onAuthFailure(U)
      <4>1. BruteAlert(ip) \notin onAuthSuccess(U) /\ BruteAlert(ip) \notin onPrivilegeProbe
        BY DEF onAuthSuccess, onPrivilegeProbe
      <4> QED  BY <2>4, <4>1 DEF Detect
    <3>2. PICK k \in Failures \cap entries(batch) :
             /\ IpOf[k] = ip
             /\ (IF k \in U THEN 0 ELSE recentFailures(IpOf[k])) + batch[k]
                   >= BruteForceThreshold
      <4>1. PICK k \in {f \in Failures \cap entries(batch) : AlertOnFailure} :
              BruteAlert(ip)
                = [what |-> IF (IF k \in U THEN 0 ELSE recentFailures(IpOf[k])) + batch[k]
                                 >= BruteForceThreshold THEN "bruteforce" ELSE "failure",
                   ip |-> IpOf[k]]
        BY <3>1 DEF onAuthFailure
      <4>2. "bruteforce" # "failure"
        OBVIOUS
      <4>3. /\ IpOf[k] = ip
            /\ (IF k \in U THEN 0 ELSE recentFailures(IpOf[k])) + batch[k]
                   >= BruteForceThreshold
        BY <4>1, <4>2
      <4> QED  BY <4>1, <4>3
    <3>3. k \in FailuresFrom(ip) /\ flush = "detect"
      BY <2>4, <3>2 DEF FailuresFrom, Detect
    <3>4. /\ SumFunctionOnSet(tracked, FailuresFrom(ip)) \in Nat
          /\ recentFailures(ip) \in Nat /\ batch[k] \in Nat
          /\ recentFailures(ip) + batch[k]
               <= SumFunctionOnSet(tracked, FailuresFrom(ip))
      BY <3>3, WeighedWasTracked
    <3>5. recentFailures(ip) + batch[k] >= BruteForceThreshold
      BY <3>2, <3>4, ConfigAssumption
    <3> QED  BY <3>4, <3>5, ConfigAssumption
  <2>5. CASE \/ ReportDropped \/ WriteCommits \/ WriteFails \/ CountWritten
             \/ \E S \in SUBSET Keys : Restore(S)
    BY <2>2, <2>5
    DEF ReportDropped, WriteCommits, WriteFails, CountWritten, Restore, Return,
        counts, detection
  <2>6. CASE \/ \E requested \in BOOLEAN : WorkerFlushes(requested)
             \/ WorkerStops \/ CloseStops \/ CloseFlushes
             \/ \E E \in SUBSET Keys : Purge(E)
             \/ UNCHANGED vars
    BY <2>2, <2>6
    DEF WorkerFlushes, WorkerStops, CloseStops, CloseFlushes, Purge, vars,
        counts, detection
  <2> QED  BY <2>3, <2>4, <2>5, <2>6 DEF Next, Flush
<1> QED  BY <1>1, <1>2, Typing, EventsConserved, PTL DEF Spec
=============================================================================
