----------------------------- MODULE AuditProofs -----------------------------
(***************************************************************************)
(* Theorems about AuditOutbox, for any sets of events, relays and operators *)
(* and any batch size, retry budget and backoff cap; and about             *)
(* AlertPipeline, which takes over the batches the relays of AuditOutbox   *)
(* commit, for any rules, routes, credentials and skew of the wall clock.  *)
(***************************************************************************)
EXTENDS AuditOutbox, AlertPipeline, WellFoundedInduction, SequenceTheorems,
        FiniteSetTheorems, TLAPS

(***************************************************************************)
(*                               AuditOutbox                               *)
(***************************************************************************)
-----------------------------------------------------------------------------
(* Lemmas on the helpers. *)

\* A backoff is a number of seconds between one and the cap (store.py:25-29).
LEMMA BackoffInRange == ASSUME NEW n PROVE Backoff(n) \in 1..BackoffCap
  BY NumbersAssumption DEF Backoff

\* ORDER BY id LIMIT n returns rows of the set it is applied to.
LEMMA FirstByIdSubset == ASSUME NEW S, NEW n PROVE FirstById(S, n) \subseteq S
  BY DEF FirstById

\* What a relay loads is committed, not delivered and not dead.
LEMMA UndeliveredSubset == Undelivered \subseteq rows \ (delivered \cup dead)
  BY DEF Undelivered

\* What retry-failed loads is committed and dead.
LEMMA DeadLettersSubset == DeadLetters \subseteq rows \cap dead
  BY DEF DeadLetters

-----------------------------------------------------------------------------
(* Type correctness. *)

\* The initial states are well typed.
LEMMA TypeInit == Init => TypeOK
  BY NumbersAssumption DEF Init, TypeOK, Null, Workers, NothingSeen

\* A producer's step keeps the types.
LEMMA TypeProduce == ASSUME TypeOK, NEW e \in Events, Produce(e) PROVE TypeOK'
<1> USE DEF TypeOK, columnVars, workVars, lifeVars, outVars
<1>1. CASE DomainWrite(e) BY <1>1 DEF DomainWrite
<1>2. CASE EmitRow(e) BY <1>2 DEF EmitRow
<1>3. CASE EmitRaises(e) BY <1>3 DEF EmitRaises
<1>4. CASE FlushFails(e) BY <1>4 DEF FlushFails
<1>5. CASE CommitTx(e) BY <1>5 DEF CommitTx
<1>6. CASE RollbackTx(e) BY <1>6 DEF RollbackTx
<1> QED BY <1>1, <1>2, <1>3, <1>4, <1>5, <1>6 DEF Produce

\* An answer of the endpoint keeps the types.
LEMMA TypeAuth == ASSUME TypeOK, NEW w \in Workers, AuthAnswers(w) PROVE TypeOK'
  BY DEF TypeOK, AuthAnswers, txVars, columnVars, lifeVars

\* A relay's step keeps the types.
LEMMA TypeRelay == ASSUME TypeOK, NEW r \in Relays, Relay(r) PROVE TypeOK'
<1> USE DEF TypeOK, txVars, columnVars, workVars, lifeVars, outVars,
            Release, Forget, NothingSeen
<1>0. r \in Workers BY DEF Workers
<1>1. CASE Poll(r)
  BY <1>0, <1>1, FirstByIdSubset, UndeliveredSubset DEF Poll
<1>2. CASE MarkDelivered(r) BY <1>0, <1>2 DEF MarkDelivered
<1>3. CASE RecordFailure(r)
  <2>1. wait' \in [Events -> Null..BackoffCap]
    BY <1>3, BackoffInRange DEF RecordFailure, Null
  <2>2. retry' \in [Events -> Nat]
    BY <1>3 DEF RecordFailure
  <2> QED BY <1>0, <1>3, <2>1, <2>2 DEF RecordFailure
<1>4. CASE MarkDeadLetter(r)
  <2>1. retry' \in [Events -> Nat]
    BY <1>4 DEF MarkDeadLetter
  <2> QED BY <1>0, <1>4, <2>1 DEF MarkDeadLetter
<1>5. CASE EvaluateAlerts(r) BY <1>0, <1>5, FirstByIdSubset DEF EvaluateAlerts
<1>6. CASE Start(r) BY <1>6 DEF Start
<1>7. CASE Stop(r) BY <1>0, <1>7 DEF Stop
<1>8. CASE Crash(r) BY <1>0, <1>8 DEF Crash
<1>9. CASE IterationFails(r) BY <1>0, <1>9 DEF IterationFails
<1> QED BY <1>1, <1>2, <1>3, <1>4, <1>5, <1>6, <1>7, <1>8, <1>9 DEF Relay

\* A step of retry-failed keeps the types.
LEMMA TypeOperate == ASSUME TypeOK, NEW o \in Operators, Operate(o) PROVE TypeOK'
<1> USE DEF TypeOK, txVars, columnVars, workVars, lifeVars, outVars, Release
<1>0. o \in Workers BY DEF Workers
<1>1. CASE SelectDead(o)
  BY <1>0, <1>1, FirstByIdSubset, DeadLettersSubset DEF SelectDead
<1>2. CASE Requeue(o)
  <2>1. retry' \in [Events -> Nat]
    BY <1>2 DEF Requeue
  <2>2. wait' \in [Events -> Null..BackoffCap]
    BY <1>2, NumbersAssumption DEF Requeue, Null
  <2> QED BY <1>0, <1>2, <2>1, <2>2 DEF Requeue
<1>3. CASE RetryDelivered(o) BY <1>0, <1>3 DEF RetryDelivered
<1>4. CASE RetryDies(o) BY <1>0, <1>4 DEF RetryDies
<1> QED BY <1>1, <1>2, <1>3, <1>4 DEF Operate

\* A second that passes keeps the types: backoffs run down to zero.
LEMMA TypeTick == ASSUME TypeOK, Tick PROVE TypeOK'
  BY NumbersAssumption DEF TypeOK, Tick, Null, txVars, workVars, lifeVars, outVars

\* A stuttering step keeps the types.
LEMMA TypeStutter == ASSUME TypeOK, UNCHANGED vars PROVE TypeOK'
  BY DEF TypeOK, vars, txVars, columnVars, workVars, lifeVars, outVars

\* Every step keeps the types.
LEMMA TypeStep == TypeOK /\ [Next]_vars => TypeOK'
  BY TypeProduce, TypeAuth, TypeRelay, TypeOperate, TypeTick, TypeStutter DEF Next

\* Every reachable state of the outbox is well typed; in particular no backoff
\* exceeds the cap of store.py.
THEOREM TypeCorrect == Spec => []TypeOK
  BY TypeInit, TypeStep, PTL DEF Spec

-----------------------------------------------------------------------------
(***************************************************************************)
(* The inductive invariant.  The five safety properties are not inductive  *)
(* by themselves: what a step writes comes from a session that was filled  *)
(* several steps before, so SessionsConsistent has to say that what the    *)
(* session holds is still true; and a transaction that lost its audit row  *)
(* can only be alive if safe=True.                                         *)
(***************************************************************************)
UnauditedOnlyIfSafe == \A e \in Events : tx[e] = "unaudited" => Safe

Inv == /\ CommittedBeforeShipped
       /\ NoUnauditedWrite
       /\ UnauditedOnlyIfSafe
       /\ ShippedBeforeDelivered
       /\ DeliveredBeforeAlerted
       /\ BudgetRespected
       /\ SessionsConsistent

\* The initial states satisfy the invariant.
LEMMA InvInit == Init => Inv
  BY NumbersAssumption
  DEF Init, Inv, CommittedBeforeShipped, NoUnauditedWrite, UnauditedOnlyIfSafe,
      ShippedBeforeDelivered, DeliveredBeforeAlerted, BudgetRespected,
      SessionsConsistent, NothingSeen, Workers

\* A producer's step preserves it.
LEMMA InvProduce == ASSUME TypeOK, Inv, NEW e \in Events, Produce(e) PROVE Inv'
<1> USE DEF TypeOK, columnVars, workVars, lifeVars, outVars, Inv,
            CommittedBeforeShipped, NoUnauditedWrite, UnauditedOnlyIfSafe,
            ShippedBeforeDelivered, DeliveredBeforeAlerted, BudgetRespected,
            SessionsConsistent
<1>1. CASE DomainWrite(e) BY <1>1 DEF DomainWrite
<1>2. CASE EmitRow(e) BY <1>2 DEF EmitRow
<1>3. CASE EmitRaises(e) BY <1>3 DEF EmitRaises
<1>4. CASE FlushFails(e) BY <1>4 DEF FlushFails
<1>5. CASE CommitTx(e) BY <1>5 DEF CommitTx
<1>6. CASE RollbackTx(e) BY <1>6 DEF RollbackTx
<1> QED BY <1>1, <1>2, <1>3, <1>4, <1>5, <1>6 DEF Produce

\* An answer of the endpoint preserves it.
LEMMA InvAuth == ASSUME TypeOK, Inv, NEW w \in Workers, AuthAnswers(w) PROVE Inv'
<1> USE DEF AuthAnswers, txVars, columnVars, lifeVars, Inv
<1>1. CommittedBeforeShipped'
  BY DEF CommittedBeforeShipped, SessionsConsistent
<1>2. accepted \subseteq accepted' OBVIOUS
<1>3. ShippedBeforeDelivered' BY <1>2 DEF ShippedBeforeDelivered
<1>4. SessionsConsistent'
  <2>1. ASSUME NEW v \in Workers PROVE
          /\ phase[v] # "sending" /\ phase[v] # "alerting" => reply'[v] = "none"
          /\ reply'[v] = "accepted" => batch[v] \subseteq accepted'
    BY <1>2 DEF SessionsConsistent, TypeOK
  <2> QED BY <2>1 DEF SessionsConsistent
<1> QED
  BY <1>1, <1>3, <1>4 DEF NoUnauditedWrite, UnauditedOnlyIfSafe,
     DeliveredBeforeAlerted, BudgetRespected

\* A relay's step preserves it.
LEMMA InvRelay == ASSUME TypeOK, Inv, NEW r \in Relays, Relay(r) PROVE Inv'
<1> USE DEF TypeOK, txVars, columnVars, workVars, lifeVars, outVars, Inv,
            CommittedBeforeShipped, NoUnauditedWrite, UnauditedOnlyIfSafe,
            ShippedBeforeDelivered, DeliveredBeforeAlerted, BudgetRespected,
            SessionsConsistent, Release, Forget, NothingSeen
<1>0. r \in Workers BY DEF Workers
<1>1. CASE Poll(r)
  BY <1>0, <1>1, FirstByIdSubset, UndeliveredSubset DEF Poll
<1>2. CASE MarkDelivered(r) BY <1>0, <1>2 DEF MarkDelivered
<1>3. CASE RecordFailure(r)
  <2>1. BudgetRespected' BY <1>0, <1>3, NumbersAssumption DEF RecordFailure
  <2>2. SessionsConsistent' BY <1>0, <1>3 DEF RecordFailure
  <2> QED BY <1>3, <2>1, <2>2 DEF RecordFailure
<1>4. CASE MarkDeadLetter(r)
  <2>1. BudgetRespected' BY <1>0, <1>4 DEF MarkDeadLetter
  <2>2. SessionsConsistent' BY <1>0, <1>4 DEF MarkDeadLetter
  <2> QED BY <1>4, <2>1, <2>2 DEF MarkDeadLetter
<1>5. CASE EvaluateAlerts(r) BY <1>0, <1>5, FirstByIdSubset DEF EvaluateAlerts
<1>6. CASE Start(r) BY <1>6 DEF Start
<1>7. CASE Stop(r) BY <1>0, <1>7 DEF Stop
<1>8. CASE Crash(r) BY <1>0, <1>8 DEF Crash
<1>9. CASE IterationFails(r) BY <1>0, <1>9 DEF IterationFails
<1> QED BY <1>1, <1>2, <1>3, <1>4, <1>5, <1>6, <1>7, <1>8, <1>9 DEF Relay

\* A step of retry-failed preserves it.
LEMMA InvOperate == ASSUME TypeOK, Inv, NEW o \in Operators, Operate(o) PROVE Inv'
<1> USE DEF TypeOK, txVars, columnVars, workVars, lifeVars, outVars, Inv,
            CommittedBeforeShipped, NoUnauditedWrite, UnauditedOnlyIfSafe,
            ShippedBeforeDelivered, DeliveredBeforeAlerted, BudgetRespected,
            SessionsConsistent, Release
<1>0. o \in Workers /\ o \notin Relays BY WorkersAssumption DEF Workers
<1>1. CASE SelectDead(o)
  BY <1>0, <1>1, FirstByIdSubset, DeadLettersSubset DEF SelectDead
<1>2. CASE Requeue(o) BY <1>0, <1>2, NumbersAssumption DEF Requeue
<1>3. CASE RetryDelivered(o) BY <1>0, <1>3 DEF RetryDelivered
<1>4. CASE RetryDies(o) BY <1>0, <1>4 DEF RetryDies
<1> QED BY <1>1, <1>2, <1>3, <1>4 DEF Operate

\* Time and stuttering preserve it.
LEMMA InvQuiet == ASSUME Inv, Tick \/ UNCHANGED vars PROVE Inv'
  BY DEF Tick, vars, txVars, columnVars, workVars, lifeVars, outVars, Inv,
     CommittedBeforeShipped, NoUnauditedWrite, UnauditedOnlyIfSafe,
     ShippedBeforeDelivered, DeliveredBeforeAlerted, BudgetRespected,
     SessionsConsistent

\* Every step preserves it.
LEMMA InvStep == TypeOK /\ Inv /\ [Next]_vars => Inv'
  BY InvProduce, InvAuth, InvRelay, InvOperate, InvQuiet DEF Next

\* The inductive invariant holds of every reachable state.
THEOREM Invariance == Spec => []Inv
  BY TypeCorrect, InvInit, InvStep, PTL DEF Spec

\* BSVibe-Auth never holds an event of an uncommitted transaction.
THEOREM OnlyCommittedShipped == Spec => []CommittedBeforeShipped
  BY Invariance, PTL DEF Inv

\* With safe=False every committed domain write has its audit row.
THEOREM AuditIsAtomic == Spec => []NoUnauditedWrite
  BY Invariance, PTL DEF Inv

\* No row is marked delivered that BSVibe-Auth has not ingested.
THEOREM DeliveredWasShipped == Spec => []ShippedBeforeDelivered
  BY Invariance, PTL DEF Inv

\* Alert rules see delivered events only.
THEOREM AlertsAreDelivered == Spec => []DeliveredBeforeAlerted
  BY Invariance, PTL DEF Inv

\* No row that relays may pick up has used up its retry budget.
THEOREM BudgetHolds == Spec => []BudgetRespected
  BY Invariance, PTL DEF Inv

\* What the sessions hold is true when they act on it.
THEOREM SessionsHold == Spec => []SessionsConsistent
  BY Invariance, PTL DEF Inv

-----------------------------------------------------------------------------
(***************************************************************************)
(* The outbox implements AuditDelivery.  A commit is a Record (or changes  *)
(* nothing, when the audit row was lost), an answer of the endpoint is an  *)
(* Ingest of part of the batch, the two mark_delivered calls are           *)
(* Acknowledges, and every other step leaves the three sets alone.         *)
(***************************************************************************)
LEMMA DeliveryInit == Init => Delivery!Init
  BY DEF Init, Delivery!Init

\* Every step is a step of AuditDelivery, or none.
LEMMA DeliveryStep == TypeOK /\ Inv /\ [Next]_vars => [Delivery!Next]_Delivery!vars
<1> SUFFICES ASSUME TypeOK, Inv, [Next]_vars
             PROVE  [Delivery!Next]_Delivery!vars
  OBVIOUS
<1> USE DEF columnVars, outVars, txVars
<1>1. ASSUME NEW e \in Events, Produce(e) PROVE [Delivery!Next]_Delivery!vars
  <2>1. CASE CommitTx(e) /\ tx[e] = "flushed" /\ e \notin rows
    <3>1. Delivery!Record(e) BY <2>1 DEF CommitTx, Delivery!Record
    <3> QED BY <3>1 DEF Delivery!Next
  <2>2. CASE CommitTx(e) /\ ~(tx[e] = "flushed" /\ e \notin rows)
    BY <2>2 DEF CommitTx, Delivery!vars
  <2>3. CASE ~CommitTx(e)
    BY <1>1, <2>3 DEF Produce, DomainWrite, EmitRow, EmitRaises, FlushFails,
                      RollbackTx, Delivery!vars
  <2> QED BY <2>1, <2>2, <2>3
<1>2. ASSUME NEW w \in Workers, AuthAnswers(w) PROVE [Delivery!Next]_Delivery!vars
  <2>1. PICK S \in SUBSET batch[w] : accepted' = accepted \cup S
    <3>1. CASE accepted' = accepted \cup batch[w] BY <3>1
    <3>2. CASE accepted' = accepted
      <4>1. {} \in SUBSET batch[w] /\ accepted = accepted \cup {} OBVIOUS
      <4> QED BY <3>2, <4>1
    <3> QED BY <1>2, <3>1, <3>2 DEF AuthAnswers
  <2>2. S \in SUBSET Events /\ Delivery!Ingest(S)
    BY <1>2, <2>1 DEF AuthAnswers, Inv, SessionsConsistent, TypeOK, Delivery!Ingest
  <2> QED BY <2>2 DEF Delivery!Next
<1>3. ASSUME NEW w \in Workers, reply[w] = "accepted",
             delivered' = delivered \cup batch[w], UNCHANGED <<rows, accepted>>
      PROVE  [Delivery!Next]_Delivery!vars
  <2>1. batch[w] \in SUBSET Events /\ Delivery!Acknowledge(batch[w])
    BY <1>3 DEF Inv, SessionsConsistent, TypeOK, Delivery!Acknowledge
  <2> QED BY <2>1 DEF Delivery!Next
<1>4. ASSUME NEW r \in Relays, Relay(r) PROVE [Delivery!Next]_Delivery!vars
  <2>1. CASE MarkDelivered(r) BY <1>3, <2>1 DEF MarkDelivered, Workers
  <2>2. CASE ~MarkDelivered(r)
    BY <1>4, <2>2 DEF Relay, Poll, RecordFailure, MarkDeadLetter, EvaluateAlerts,
                      Start, Stop, Crash, IterationFails, Delivery!vars
  <2> QED BY <2>1, <2>2
<1>5. ASSUME NEW o \in Operators, Operate(o) PROVE [Delivery!Next]_Delivery!vars
  <2>1. CASE RetryDelivered(o) BY <1>3, <2>1 DEF RetryDelivered, Workers
  <2>2. CASE ~RetryDelivered(o)
    BY <1>5, <2>2 DEF Operate, SelectDead, Requeue, RetryDies, Delivery!vars
  <2> QED BY <2>1, <2>2
<1>6. ASSUME Tick \/ UNCHANGED vars PROVE [Delivery!Next]_Delivery!vars
  BY <1>6 DEF Tick, vars, Delivery!vars
<1> QED BY <1>1, <1>2, <1>4, <1>5, <1>6 DEF Next

\* Whatever relays, operators, crashes and stale sessions do, what is emitted,
\* ingested and acknowledged behaves like at-least-once delivery.
THEOREM Refinement == Spec => ImplementsDelivery
  BY TypeCorrect, Invariance, DeliveryInit, DeliveryStep, PTL
  DEF Spec, ImplementsDelivery, Delivery!Spec

-----------------------------------------------------------------------------
(***************************************************************************)
(* One relay and no operator: what the relay's session loaded is what the  *)
(* table still holds, because nobody else writes to the rows of its batch. *)
(***************************************************************************)
SoleWriter == (\A r, s \in Relays : r = s) /\ Operators = {}

SoleInv ==
    /\ SettledOneWay
    /\ \A r \in Relays :
          /\ batch[r] \cap dead = {}
          /\ phase[r] = "sending" =>
                /\ batch[r] \cap delivered = {}
                /\ \A e \in batch[r] : seen[r][e] = retry[e] /\ wait[e] <= 0

\* The initial states satisfy the invariant of a sole relay.
LEMMA SoleInit == Init => SoleInv
  BY DEF Init, SoleInv, SettledOneWay, Workers

\* The sole relay's steps preserve it.
LEMMA SoleRelay == ASSUME SoleWriter, TypeOK, SoleInv, NEW r \in Relays, Relay(r)
                   PROVE  SoleInv'
<1> USE DEF TypeOK, txVars, columnVars, workVars, lifeVars, outVars, SoleInv,
            SettledOneWay, Release, Forget, NothingSeen
<1>0. r \in Workers /\ \A s \in Relays : s = r BY DEF Workers, SoleWriter
<1>1. CASE Poll(r)
  <2>1. FirstById(Undelivered, BatchSize) \subseteq
          {e \in rows \ (delivered \cup dead) : wait[e] = Null \/ wait[e] <= 0}
    BY FirstByIdSubset DEF Undelivered
  <2>2. \A e \in Events : wait[e] = Null => wait[e] <= 0 BY DEF Null
  <2> QED BY <1>0, <1>1, <2>1, <2>2 DEF Poll
<1>2. CASE MarkDelivered(r) BY <1>0, <1>2 DEF MarkDelivered
<1>3. CASE RecordFailure(r) BY <1>0, <1>3 DEF RecordFailure
<1>4. CASE MarkDeadLetter(r) BY <1>0, <1>4 DEF MarkDeadLetter
<1>5. CASE EvaluateAlerts(r) BY <1>0, <1>5 DEF EvaluateAlerts
<1>6. CASE Start(r) BY <1>6 DEF Start
<1>7. CASE Stop(r) BY <1>0, <1>7 DEF Stop
<1>8. CASE Crash(r) BY <1>0, <1>8 DEF Crash
<1>9. CASE IterationFails(r) BY <1>0, <1>9 DEF IterationFails
<1> QED BY <1>1, <1>2, <1>3, <1>4, <1>5, <1>6, <1>7, <1>8, <1>9 DEF Relay

\* Every step preserves it.
LEMMA SoleStep == SoleWriter /\ TypeOK /\ SoleInv /\ [Next]_vars => SoleInv'
<1> SUFFICES ASSUME SoleWriter, TypeOK, SoleInv, [Next]_vars PROVE SoleInv'
  OBVIOUS
<1> USE DEF txVars, columnVars, workVars, lifeVars, outVars, SoleInv, SettledOneWay
<1>1. ASSUME NEW e \in Events, Produce(e) PROVE SoleInv'
  BY <1>1 DEF Produce, DomainWrite, EmitRow, EmitRaises, FlushFails, CommitTx, RollbackTx
<1>2. ASSUME NEW w \in Workers, AuthAnswers(w) PROVE SoleInv'
  BY <1>2 DEF AuthAnswers
<1>3. CASE Tick
  <2>1. \A r \in Relays : batch[r] \subseteq Events BY DEF TypeOK, Workers
  <2>2. \A e \in Events : wait[e] <= 0 => wait'[e] <= 0
    BY <1>3 DEF Tick, TypeOK, Null
  <2> QED BY <1>3, <2>1, <2>2 DEF Tick
<1>4. CASE UNCHANGED vars BY <1>4 DEF vars
<1>5. \A o \in Operators : ~Operate(o) BY DEF SoleWriter
<1> QED BY <1>1, <1>2, <1>3, <1>4, <1>5, SoleRelay DEF Next

\* With one relay and no operator, what the relay holds is what the table holds.
THEOREM SoleInvariance == SoleWriter => (Spec => []SoleInv)
<1> SUFFICES ASSUME SoleWriter PROVE Spec => []SoleInv
  OBVIOUS
<1>1. TypeOK /\ SoleInv /\ [Next]_vars => SoleInv'
  BY SoleStep
<1> QED BY TypeCorrect, SoleInit, <1>1, PTL DEF Spec

\* With one relay and no operator no row ends both delivered and dead.
THEOREM SettlesOneWay == SoleWriter => (Spec => []SettledOneWay)
<1> SUFFICES ASSUME SoleWriter PROVE Spec => []SettledOneWay
  OBVIOUS
<1>1. Spec => []SoleInv BY SoleInvariance
<1> QED BY <1>1, PTL DEF SoleInv

\* With one relay and no operator every failed attempt counts.
THEOREM FailuresCount == SoleWriter => (Spec => EveryFailureCounts)
<1> SUFFICES ASSUME SoleWriter PROVE Spec => EveryFailureCounts
  OBVIOUS
<1>1. Spec => []SoleInv BY SoleInvariance
<1>2. TypeOK /\ SoleInv /\ [Next]_vars =>
        [\A r \in Relays :
           RecordFailure(r) => \A e \in batch[r] : retry'[e] = retry[e] + 1]_vars
  BY DEF TypeOK, SoleInv, RecordFailure, Workers
<1> QED BY <1>1, <1>2, TypeCorrect, PTL DEF Spec, EveryFailureCounts

\* With one relay and no operator no row is on the wire while its backoff runs.
THEOREM BackoffsAreWaitedOut == SoleWriter => (Spec => []BackoffRespected)
<1> SUFFICES ASSUME SoleWriter PROVE Spec => []BackoffRespected
  OBVIOUS
<1>1. Spec => []SoleInv BY SoleInvariance
<1>2. SoleInv => BackoffRespected BY DEF SoleInv, BackoffRespected
<1> QED BY <1>1, <1>2, PTL

(***************************************************************************)
(*                              AlertPipeline                              *)
(***************************************************************************)
\* A set of naturals that is not empty has its minimum.
LEMMA MinOfNaturals ==
    ASSUME NEW S \in SUBSET Nat, S # {}
    PROVE  Min(S) \in S /\ \A k \in S : Min(S) <= k
<1>1. PICK m \in S : \A k \in S : ~ (<<k, m>> \in OpToRel(<, Nat))
  BY WFMin, NatLessThanWellFounded
<1>2. \A k \in S : m <= k
  <2> TAKE k \in S
  <2>1. k \in Nat /\ m \in Nat
    OBVIOUS
  <2>2. ~ (k < m)
    BY <1>1, <2>1 DEF OpToRel
  <2> QED BY <2>1, <2>2
<1> QED BY <1>1, <1>2 DEF Min

(***************************************************************************)
(* Windows                                                                 *)
(***************************************************************************)
\* v is what a push at now leaves of the window w: everything from the m-th stamp
\* on, which is the first that is inside.
Keeps(v, w, now, d, m) ==
    /\ m \in 1..Len(w) + 1 /\ Len(v) = Len(w) + 2 - m
    /\ \A i \in 1..Len(w) + 2 - m : v[i] = Append(w, now)[m + i - 1]
    /\ d > 0 => Append(w, now)[m] >= now - d
    /\ d > 0 => \A i \in 1..m - 1 : w[i] < now - d
    /\ d = 0 => m = 1

LEMMA SlidKeeps ==
    ASSUME NEW rule \in Rule, NEW w \in Seq(Int), NEW now \in Int
    PROVE  /\ Slid(rule, w, now) \in Seq(Int)
           /\ \E m \in 1..Len(w) + 1 : Keeps(Slid(rule, w, now), w, now, rule.window, m)
<1> DEFINE pushed == Append(w, now)
           inside == {i \in DOMAIN pushed : pushed[i] >= now - rule.window}
<1>1. /\ pushed \in Seq(Int) /\ Len(pushed) = Len(w) + 1
      /\ pushed[Len(w) + 1] = now
      /\ \A i \in 1..Len(w) : pushed[i] = w[i]
  OBVIOUS
<1>2. rule.window \in Nat
  BY DEF Rule
<1>3. CASE rule.window = 0
  <2>1. Slid(rule, w, now) = pushed
    BY <1>3 DEF Slid
  <2>2. Keeps(pushed, w, now, rule.window, 1)
    BY <1>1, <1>3 DEF Keeps
  <2> QED BY <1>1, <2>1, <2>2
<1>4. CASE rule.window > 0
  <2>1. Slid(rule, w, now) = SubSeq(pushed, Min(inside), Len(pushed))
    BY <1>4 DEF Slid
  <2>2. inside \in SUBSET Nat /\ inside # {}
    BY <1>1, <1>2
  <2>3. Min(inside) \in inside /\ \A k \in inside : Min(inside) <= k
    BY <2>2, MinOfNaturals
  <2> DEFINE m == Min(inside)  v == SubSeq(pushed, m, Len(pushed))
  <2> HIDE DEF m
  <2>4. m \in inside /\ (\A i \in inside : m <= i) /\ Slid(rule, w, now) = v
    BY <2>1, <2>3 DEF m
  <2> HIDE DEF pushed
  <2>5. m \in 1..Len(w) + 1 /\ pushed[m] >= now - rule.window
    BY <1>1, <2>4
  <2>6. \A i \in 1..m - 1 : w[i] < now - rule.window
    <3> TAKE i \in 1..m - 1
    <3>1. i \in 1..Len(w) /\ i \in DOMAIN pushed /\ ~(m <= i)
      BY <1>1, <2>5
    <3>2. ~(pushed[i] >= now - rule.window)
      BY <2>4, <3>1
    <3>3. pushed[i] = w[i] /\ w[i] \in Int
      BY <1>1, <3>1
    <3> QED BY <1>2, <3>2, <3>3
  <2> HIDE DEF inside
  <2>7. v \in Seq(Int) /\ Len(v) = Len(w) + 2 - m
    BY <1>1, <2>5, SubSeqProperties
  <2>8. \A i \in 1..Len(w) + 2 - m : v[i] = pushed[m + i - 1]
    BY <1>1, <2>5
  <2>9. rule.window # 0
    BY <1>4
  <2> HIDE DEF v
  <2>10. Keeps(v, w, now, rule.window, m)
    BY <2>5, <2>6, <2>7, <2>8, <2>9 DEF Keeps, pushed
  <2> QED BY <2>4, <2>5, <2>7, <2>10
<1> QED BY <1>2, <1>3, <1>4

\* The matches come in order, none from the future.
Ordered(b, t) ==
    /\ \A j \in DOMAIN b : b[j] <= t
    /\ \A j, k \in DOMAIN b : j <= k => b[j] <= b[k]

\* A window holds the stamps of the last matches, each off by the skew at most,
\* and what it has dropped is older than the window, give or take the skew twice.
Tracked(w, b, d, t) ==
    /\ Len(w) <= Len(b)
    /\ \A i \in DOMAIN w : /\ w[i] <= b[Len(b) - Len(w) + i] + MaxSkew
                           /\ b[Len(b) - Len(w) + i] <= w[i] + MaxSkew
    /\ d > 0 => \A j \in 1..Len(b) - Len(w) : b[j] < t - d + 2 * MaxSkew
    /\ d = 0 => Len(w) = Len(b)

LEMMA OrderedPush ==
    ASSUME NEW b \in Seq(Nat), NEW t \in Nat, Ordered(b, t)
    PROVE  Ordered(Append(b, t), t)
<1>1. /\ DOMAIN Append(b, t) = 1..Len(b) + 1 /\ Append(b, t)[Len(b) + 1] = t
      /\ \A i \in 1..Len(b) : Append(b, t)[i] = b[i] /\ b[i] \in Nat
  OBVIOUS
<1> QED BY <1>1 DEF Ordered

LEMMA TrackedPush ==
    ASSUME NEW rule \in Rule, NEW w \in Seq(Int), NEW b \in Seq(Nat), NEW t \in Nat,
           NEW k \in (-MaxSkew)..MaxSkew, Tracked(w, b, rule.window, t)
    PROVE  /\ Tracked(Slid(rule, w, t + k), Append(b, t), rule.window, t)
           /\ Len(Slid(rule, w, t + k)) > 0
           /\ rule.window > 0 => Slid(rule, w, t + k)[1] >= (t + k) - rule.window
<1> DEFINE v == Slid(rule, w, t + k)  c == Append(b, t)  pushed == Append(w, t + k)
           d == rule.window
<1>1. t + k \in Int /\ d \in Nat /\ k \in Int /\ k <= MaxSkew /\ -MaxSkew <= k /\ MaxSkew \in Nat
  BY BoundsAssumption DEF Rule
<1>2. v \in Seq(Int) /\ \E m \in 1..Len(w) + 1 : Keeps(v, w, t + k, d, m)
  BY <1>1, SlidKeeps
<1>3. PICK m \in 1..Len(w) + 1 : Keeps(v, w, t + k, d, m)
  BY <1>2
<1>4. /\ pushed[Len(w) + 1] = t + k /\ \A i \in 1..Len(w) : pushed[i] = w[i] /\ w[i] \in Int
      /\ Len(c) = Len(b) + 1 /\ c[Len(b) + 1] = t
      /\ \A j \in 1..Len(b) : c[j] = b[j] /\ b[j] \in Nat
  OBVIOUS
<1> HIDE DEF v, c, pushed, d
<1>5. PICK lw \in Nat, lb \in Nat : lw = Len(w) /\ lb = Len(b)
  OBVIOUS
<1>6. lw <= lb /\ m \in 1..lw + 1
  BY <1>5, <1>3 DEF Tracked
<1>7. \A i \in 1..lw : w[i] <= b[lb - lw + i] + MaxSkew /\ b[lb - lw + i] <= w[i] + MaxSkew
  <2>1. DOMAIN w = 1..lw
    BY <1>5
  <2>2. \A i \in DOMAIN w : /\ w[i] <= b[Len(b) - Len(w) + i] + MaxSkew
                            /\ b[Len(b) - Len(w) + i] <= w[i] + MaxSkew
    BY DEF Tracked
  <2> QED BY <1>5, <2>1, <2>2, Zenon
<1>8. d > 0 => \A j \in 1..lb - lw : b[j] < t - d + 2 * MaxSkew
  BY <1>5 DEF Tracked, d
<1>9. d = 0 => lw = lb
  BY <1>5 DEF Tracked, d
<1>10. /\ Len(v) = lw + 2 - m /\ \A i \in 1..lw + 2 - m : v[i] = pushed[m + i - 1]
  BY <1>3, <1>5 DEF Keeps, pushed
<1>11. /\ d > 0 => pushed[m] >= (t + k) - d
       /\ d > 0 => \A i \in 1..m - 1 : w[i] < (t + k) - d
       /\ d = 0 => m = 1
  <2>1. d > 0 => pushed[m] >= (t + k) - d
    BY <1>3 DEF Keeps, pushed
  <2>2. d > 0 => \A i \in 1..m - 1 : w[i] < (t + k) - d
    BY <1>3 DEF Keeps
  <2>3. d = 0 => m = 1
    BY <1>3 DEF Keeps
  <2> QED BY <2>1, <2>2, <2>3
<1>12. /\ Len(v) <= Len(c) /\ Len(v) > 0 /\ Len(c) - Len(v) = lb - lw + m - 1
       /\ Len(v) \in Nat /\ Len(c) \in Nat
  BY <1>4, <1>5, <1>6, <1>10
<1>13. ASSUME NEW i \in 1..lw + 2 - m
       PROVE  v[i] <= c[lb - lw + m - 1 + i] + MaxSkew /\ c[lb - lw + m - 1 + i] <= v[i] + MaxSkew
  <2>1. PICK q \in 1..lw + 1 : q = m + i - 1
    BY <1>5, <1>6
  <2>2. v[i] = pushed[q]
    BY <1>10, <2>1
  <2>3. lb - lw + m - 1 + i = lb - lw + q
    BY <1>5, <1>6, <2>1
  <2>4. CASE q = lw + 1
    <3>1. lb - lw + q = lb + 1
      BY <1>5, <2>4
    <3>2. v[i] = t + k /\ c[lb - lw + m - 1 + i] = t
      BY <1>4, <1>5, <2>2, <2>3, <2>4, <3>1
    <3> QED BY <1>1, <3>2
  <2>5. CASE q \in 1..lw
    <3>1. w[q] <= b[lb - lw + q] + MaxSkew /\ b[lb - lw + q] <= w[q] + MaxSkew
      BY <1>7, <2>5
    <3>2. lb - lw + q \in 1..lb
      BY <1>5, <1>6, <2>5
    <3>3. v[i] = w[q] /\ c[lb - lw + m - 1 + i] = b[lb - lw + q]
      BY <1>4, <1>5, <2>2, <2>3, <2>5, <3>2
    <3> QED BY <3>1, <3>3
  <2>6. q = lw + 1 \/ q \in 1..lw
    OBVIOUS
  <2> QED BY <2>4, <2>5, <2>6
<1>14. ASSUME d > 0, NEW j \in 1..lb - lw + m - 1
       PROVE  c[j] < t - d + 2 * MaxSkew
  <2>1. j \in 1..lb
    BY <1>5, <1>6
  <2>2. c[j] = b[j] /\ b[j] \in Nat
    BY <1>4, <1>5, <2>1
  <2>3. CASE j <= lb - lw
    BY <1>5, <1>6, <1>8, <1>14, <2>1, <2>2, <2>3
  <2>4. CASE j > lb - lw
    <3> DEFINE i == j - (lb - lw)
    <3>1. i \in 1..m - 1
      BY <1>6, <2>4
    <3> HIDE DEF i
    <3>2. i \in 1..lw /\ lb - lw + i = j
      BY <1>6, <3>1 DEF i
    <3>3. b[j] <= w[i] + MaxSkew
      BY <1>7, <3>2
    <3>4. w[i] < (t + k) - d /\ w[i] \in Int
      BY <1>4, <1>5, <1>11, <1>14, <3>1, <3>2
    <3> QED BY <1>1, <2>2, <3>3, <3>4
  <2> QED BY <1>5, <1>6, <2>1, <2>3, <2>4
<1>15. d = 0 => Len(v) = Len(c)
  BY <1>4, <1>5, <1>9, <1>10, <1>11
<1>16. d > 0 => v[1] >= (t + k) - d
  <2>1. v[1] = pushed[m]
    BY <1>5, <1>6, <1>10
  <2> QED BY <1>11, <2>1
<1>17. Tracked(v, c, d, t)
  <2>1. DOMAIN v = 1..lw + 2 - m
    BY <1>2, <1>10
  <2>2. \A i \in DOMAIN v : /\ v[i] <= c[Len(c) - Len(v) + i] + MaxSkew
                            /\ c[Len(c) - Len(v) + i] <= v[i] + MaxSkew
    BY <1>12, <1>13, <2>1
  <2>3. d > 0 => \A j \in 1..Len(c) - Len(v) : c[j] < t - d + 2 * MaxSkew
    BY <1>12, <1>14
  <2> QED BY <1>12, <1>15, <2>2, <2>3 DEF Tracked
<1> QED BY <1>12, <1>16, <1>17 DEF v, c, d

(***************************************************************************)
(* Types                                                                   *)
(***************************************************************************)
QueueTypes ==
    /\ handed \in [Tasks -> Nat] /\ stopped \subseteq Tasks
    /\ due \in [Tasks -> Seq(AuditEvents)] /\ next \in [EngineRelays -> DOMAIN Rules]
    /\ inFlight \subseteq CentralRelays /\ posted \in [CentralRelays -> Nat]
WindowTypes ==
    /\ time \in 0..MaxTime /\ skew \in (-MaxSkew)..MaxSkew
    /\ windows \in [Slots -> Seq(Int)] /\ born \in [Slots -> Seq(Nat)] /\ fired \in [Slots -> Nat]
TallyTypes ==
    /\ pending \in [EngineRelays -> SUBSET Names]
    /\ routed \in [Names -> Nat] /\ sent \in [Names -> Nat]
    /\ logged \in [Names -> Nat] /\ cut \in [Names -> Nat]

AccountTypes == awaited \in [Slots -> Nat] /\ lost \in [Slots -> Nat]

LEMMA TypesSplit == AlertsTypeOK <=> QueueTypes /\ WindowTypes /\ TallyTypes /\ AccountTypes
BY DEF AlertsTypeOK, QueueTypes, WindowTypes, TallyTypes, AccountTypes

LEMMA RoutesAreNames == ASSUME NEW severity PROVE ChannelsFor(severity) \subseteq Names
BY DEF ChannelsFor, Names

\* What a rule still has to run on, of the batch evs of which it is rule n's turn.
RestOf(evs, n, s) == {k \in Awaits(s, evs) : k = Len(evs) => n <= s[1]}

LEMMA RestIsFinite ==
    ASSUME NEW evs \in Seq(AuditEvents), NEW n, NEW s
    PROVE  /\ IsFiniteSet(Awaits(s, evs)) /\ Cardinality(Awaits(s, evs)) \in Nat
           /\ IsFiniteSet(RestOf(evs, n, s)) /\ Cardinality(RestOf(evs, n, s)) \in Nat
<1>1. Len(evs) \in Int /\ 1 \in Int
  OBVIOUS
<1>2. IsFiniteSet(1..Len(evs))
  BY <1>1, FS_Interval
<1>3. Awaits(s, evs) \subseteq 1..Len(evs) /\ RestOf(evs, n, s) \subseteq 1..Len(evs)
  BY DEF Awaits, RestOf
<1> QED BY <1>2, <1>3, FS_Subset, FS_CardinalityType

LEMMA UnrunIsRest == \A t, s : Unrun(t, s) = RestOf(due[t], next[t], s)
BY DEF Unrun, RestOf

LEMMA AlertsInitTypes == AlertsInit => AlertsTypeOK
<1> SUFFICES ASSUME AlertsInit PROVE AlertsTypeOK
  OBVIOUS
<1>1. 1 \in DOMAIN Rules
  BY RulesAssumption
<1>2. QueueTypes
  <2>1. <<>> \in Seq(AuditEvents)
    OBVIOUS
  <2> QED BY <1>1, <2>1 DEF AlertsInit, QueueTypes
<1>3. WindowTypes
  <2>1. <<>> \in Seq(Int) /\ <<>> \in Seq(Nat)
    OBVIOUS
  <2>2. time \in 0..MaxTime /\ skew \in (-MaxSkew)..MaxSkew
    BY BoundsAssumption DEF AlertsInit
  <2>3. windows \in [Slots -> Seq(Int)] /\ born \in [Slots -> Seq(Nat)] /\ fired \in [Slots -> Nat]
    BY <2>1 DEF AlertsInit
  <2> QED BY <2>2, <2>3 DEF WindowTypes
<1>4. TallyTypes
  <2>1. \A t \in EngineRelays : {} \subseteq Names
    OBVIOUS
  <2> QED BY <2>1 DEF AlertsInit, TallyTypes
<1>5. AccountTypes
  BY DEF AlertsInit, AccountTypes
<1> QED BY <1>2, <1>3, <1>4, <1>5, TypesSplit

LEMMA TallyTyped ==
    ASSUME NEW counts \in [Names -> Nat], NEW channels
    PROVE  /\ Tallied(counts, channels) \in [Names -> Nat]
           /\ \A c \in Names : Tallied(counts, channels)[c]
                                 = IF c \in channels THEN counts[c] + 1 ELSE counts[c]
BY DEF Tallied

\* The queue of a relay after Advance.
LEMMA AdvanceTypes ==
    ASSUME QueueTypes, NEW t \in EngineRelays, due[t] # <<>>, Advance(t)
    PROVE  /\ due' \in [Tasks -> Seq(AuditEvents)] /\ next' \in [EngineRelays -> DOMAIN Rules]
           /\ \A u \in Tasks \ {t} : due'[u] = due[u]
<1>1. next[t] \in 1..Len(Rules) /\ 1 \in 1..Len(Rules) /\ Len(Rules) \in Nat /\ DOMAIN Rules = 1..Len(Rules)
  BY RulesAssumption DEF QueueTypes
<1>2. Tail(due[t]) \in Seq(AuditEvents)
  BY DEF QueueTypes, Tasks
<1>3. CASE next[t] < Len(Rules)
  <2>1. next' = [next EXCEPT ![t] = next[t] + 1] /\ due' = due
    BY <1>3 DEF Advance
  <2> QED BY <1>1, <1>3, <2>1 DEF QueueTypes
<1>4. CASE ~(next[t] < Len(Rules))
  <2>1. next' = [next EXCEPT ![t] = 1] /\ due' = [due EXCEPT ![t] = Tail(due[t])]
    BY <1>4 DEF Advance
  <2> QED BY <1>1, <1>2, <2>1 DEF QueueTypes
<1> QED BY <1>3, <1>4

\* A run of a rule, by the slot it counts in.
Runs(t, s) ==
    LET rule == Rules[s[1]]
        stamps == Slid(rule, windows[s], time + skew)
    IN /\ born' = [born EXCEPT ![s] = Append(born[s], time)]
       /\ windows' = IF Windowed(rule) THEN [windows EXCEPT ![s] = stamps] ELSE windows
       /\ IF Windowed(rule) => Len(stamps) >= rule.count
          THEN fired' = [fired EXCEPT ![s] = fired[s] + 1] /\ Publish(t, rule.severity)
          ELSE UNCHANGED <<fired, pending, tally>>

LEMMA RunRuleShape ==
    ASSUME QueueTypes, NEW t \in EngineRelays, RunRule(t)
    PROVE  /\ \E s \in Slots : Runs(t, s) /\ s = CaseOf(next[t], Head(due[t]))
           /\ due[t] # <<>> /\ pending[t] = {} /\ Advance(t)
           /\ UNCHANGED <<clocks, handed, stopped, central, account>>
<1> DEFINE rule == Rules[next[t]]  e == Head(due[t])  s == <<next[t], KeyOf(rule, e)>>
<1>1. e \in AuditEvents /\ next[t] \in DOMAIN Rules
  BY DEF QueueTypes, RunRule, Idle, Tasks
<1>2. s \in Slots
  BY <1>1 DEF Slots, Keys, KeyOf
<1>3. s = CaseOf(next[t], e) /\ s[1] = next[t]
  BY DEF KeyOf, CaseOf
<1>4. Runs(t, s)
  BY <1>3 DEF RunRule, Runs
<1> QED BY <1>2, <1>3, <1>4 DEF RunRule, Idle

LEMMA PublishTypes ==
    ASSUME TallyTypes, NEW t \in EngineRelays, NEW severity, Publish(t, severity)
    PROVE  TallyTypes'
<1> DEFINE names == ChannelsFor(severity)
<1>1. /\ pending' = [pending EXCEPT ![t] = names] /\ names \subseteq Names
      /\ routed' = Tallied(routed, names)
      /\ UNCHANGED <<sent, logged, cut>>
  BY RoutesAreNames DEF Publish
<1> HIDE DEF names
<1>2. routed' \in [Names -> Nat]
  BY <1>1, TallyTyped DEF TallyTypes
<1> QED BY <1>1, <1>2 DEF TallyTypes

LEMMA RunRuleTypes ==
    ASSUME AlertsTypeOK, NEW t \in EngineRelays, RunRule(t)
    PROVE  AlertsTypeOK'
<1>1. QueueTypes /\ WindowTypes /\ TallyTypes /\ AccountTypes
  BY TypesSplit
<1>2. PICK s \in Slots : Runs(t, s)
  BY <1>1, RunRuleShape
<1>3. /\ Advance(t) /\ due[t] # <<>>
      /\ UNCHANGED <<time, skew, handed, stopped, inFlight, posted, awaited, lost>>
  BY <1>1, RunRuleShape DEF clocks, central, account
<1>4. QueueTypes'
  BY <1>1, <1>3, AdvanceTypes DEF QueueTypes
<1>5. Rules[s[1]] \in Rule /\ time + skew \in Int /\ time \in Nat
  BY <1>1, RulesAssumption, BoundsAssumption DEF Slots, WindowTypes
<1> DEFINE rule == Rules[s[1]]  stamps == Slid(rule, windows[s], time + skew)
<1>6. stamps \in Seq(Int)
  BY <1>1, <1>5, SlidKeeps DEF WindowTypes
<1>7. windows' = IF Windowed(rule) THEN [windows EXCEPT ![s] = stamps] ELSE windows
  BY <1>2 DEF Runs
<1>8. born' = [born EXCEPT ![s] = Append(born[s], time)]
  BY <1>2 DEF Runs
<1>9. \/ fired' = [fired EXCEPT ![s] = fired[s] + 1] /\ Publish(t, rule.severity)
      \/ UNCHANGED <<fired, pending, tally>>
  BY <1>2 DEF Runs
<1> HIDE DEF rule, stamps
<1>10. windows' \in [Slots -> Seq(Int)]
  BY <1>1, <1>6, <1>7 DEF WindowTypes
<1>11. born' \in [Slots -> Seq(Nat)]
  BY <1>1, <1>5, <1>8 DEF WindowTypes
<1>12. fired' \in [Slots -> Nat]
  <2>1. fired \in [Slots -> Nat] /\ fired[s] + 1 \in Nat
    BY <1>1 DEF WindowTypes
  <2>2. CASE fired' = [fired EXCEPT ![s] = fired[s] + 1]
    BY <2>1, <2>2
  <2>3. CASE fired' = fired
    BY <2>1, <2>3
  <2> QED BY <1>9, <2>2, <2>3
<1>13. WindowTypes'
  BY <1>1, <1>3, <1>10, <1>11, <1>12 DEF WindowTypes
<1>14. TallyTypes'
  BY <1>1, <1>9, PublishTypes DEF TallyTypes, tally
<1>15. AccountTypes'
  BY <1>1, <1>3 DEF AccountTypes
<1> QED BY <1>4, <1>13, <1>14, <1>15, TypesSplit, PTL

\* A POST that is out is about an event that is still due.
Busy == \A t \in inFlight : due[t] # <<>>

LEMMA AlertsNextTypes == AlertsTypeOK /\ Busy /\ [AlertsNext]_alertVars => AlertsTypeOK'
<1> SUFFICES ASSUME AlertsTypeOK, Busy, [AlertsNext]_alertVars PROVE AlertsTypeOK'
  OBVIOUS
<1>0. QueueTypes /\ WindowTypes /\ TallyTypes /\ AccountTypes
  BY TypesSplit
<1>1. CASE Elapse \/ AdjustClock
  <2>1. UNCHANGED <<handed, stopped, due, next, windows, born, fired, pending, inFlight, posted,
                    routed, sent, logged, cut,
                    awaited, lost>>
    BY <1>1 DEF Elapse, AdjustClock, matched, central, account, tally
  <2>2. time' \in 0..MaxTime /\ skew' \in (-MaxSkew)..MaxSkew
    BY <1>0, <1>1, BoundsAssumption DEF Elapse, AdjustClock, WindowTypes
  <2> QED BY <1>0, <2>1, <2>2
       DEF AlertsTypeOK, QueueTypes, WindowTypes, TallyTypes, AccountTypes
<1>2. ASSUME NEW t \in Tasks, Hand(t)
      PROVE  AlertsTypeOK'
  <2>1. PICK n \in 1..MaxBatch :
          /\ due' \in {[due EXCEPT ![t] = evs] : evs \in [1..n -> AuditEvents]}
          /\ handed' = [handed EXCEPT ![t] = handed[t] + n]
    BY <1>2 DEF Hand
  <2>2. PICK evs \in [1..n -> AuditEvents] : due' = [due EXCEPT ![t] = evs]
    BY <2>1
  <2>3. n \in Nat
    BY BoundsAssumption
  <2>4. evs \in Seq(AuditEvents)
    BY <2>3
  <2>5. due' \in [Tasks -> Seq(AuditEvents)] /\ handed' \in [Tasks -> Nat]
    BY <1>0, <2>1, <2>2, <2>3, <2>4 DEF QueueTypes
  <2>6. UNCHANGED <<time, skew, stopped, next, windows, born, fired, pending, inFlight, posted,
                    routed, sent, logged, cut, lost>>
    BY <1>2 DEF Hand, clocks, matched, central, tally
  <2>7. awaited' \in [Slots -> Nat]
    <3>1. \/ awaited' = awaited
          \/ awaited' = [s \in Slots |-> awaited[s] + Cardinality(Awaits(s, due'[t]))]
      BY <1>2 DEF Hand
    <3>2. due'[t] \in Seq(AuditEvents)
      BY <2>5
    <3>3. \A s \in Slots : Cardinality(Awaits(s, due'[t])) \in Nat
      BY <3>2, RestIsFinite
    <3> QED BY <1>0, <3>1, <3>3 DEF AccountTypes
  <2> QED BY <1>0, <2>5, <2>6, <2>7
       DEF AlertsTypeOK, QueueTypes, WindowTypes, TallyTypes, AccountTypes
<1>3. ASSUME NEW t \in EngineRelays, SkipRule(t)
      PROVE  AlertsTypeOK'
  <2>1. Advance(t) /\ due[t] # <<>>
    BY <1>3 DEF SkipRule, Idle
  <2>2. due' \in [Tasks -> Seq(AuditEvents)] /\ next' \in [EngineRelays -> DOMAIN Rules]
    BY <1>0, <2>1, AdvanceTypes
  <2>3. UNCHANGED <<time, skew, handed, stopped, windows, born, fired, pending, inFlight, posted,
                    routed, sent, logged, cut,
                    awaited, lost>>
    BY <1>3 DEF SkipRule, clocks, matched, central, account, tally
  <2> QED BY <1>0, <2>2, <2>3
       DEF AlertsTypeOK, QueueTypes, WindowTypes, TallyTypes, AccountTypes
<1>4. ASSUME NEW t \in EngineRelays, StopRelay(t)
      PROVE  AlertsTypeOK'
  <2>1. <<>> \in Seq(AuditEvents) /\ 1 \in DOMAIN Rules /\ t \in Tasks
    BY RulesAssumption DEF Tasks
  <2>2. cut' \in [Names -> Nat]
    BY <1>0, <1>4, TallyTyped DEF StopRelay, TallyTypes
  <2>3. /\ due' \in [Tasks -> Seq(AuditEvents)] /\ next' \in [EngineRelays -> DOMAIN Rules]
        /\ stopped' \subseteq Tasks /\ pending' \in [EngineRelays -> SUBSET Names]
    BY <1>0, <1>4, <2>1 DEF StopRelay, QueueTypes, TallyTypes
  <2>4. UNCHANGED <<time, skew, handed, windows, born, fired, inFlight, posted, routed, sent, logged,
                    awaited>>
    BY <1>4 DEF StopRelay, clocks, matched, central
  <2>5. lost' \in [Slots -> Nat]
    <3>1. lost' = [s \in Slots |-> lost[s] + Cardinality(Unrun(t, s))]
      BY <1>4 DEF StopRelay
    <3>2. \A s \in Slots : Cardinality(Unrun(t, s)) \in Nat
      BY <1>0, <2>1, RestIsFinite, UnrunIsRest DEF QueueTypes
    <3> QED BY <1>0, <3>1, <3>2 DEF AccountTypes
  <2> QED BY <1>0, <2>2, <2>3, <2>4, <2>5
       DEF AlertsTypeOK, QueueTypes, WindowTypes, TallyTypes, AccountTypes
<1>5. ASSUME NEW t \in EngineRelays, NEW c \in Names, Missing(t, c) \/ Send(t, c) \/ SendFails(t, c)
      PROVE  AlertsTypeOK'
  <2>1. sent' \in [Names -> Nat] /\ logged' \in [Names -> Nat]
    BY <1>0, <1>5, TallyTyped DEF Missing, Send, SendFails, TallyTypes
  <2>2. pending' \in [EngineRelays -> SUBSET Names]
    BY <1>0, <1>5 DEF Missing, Send, SendFails, TallyTypes
  <2>3. UNCHANGED <<time, skew, handed, stopped, due, next, windows, born, fired, inFlight, posted,
                    routed, cut, awaited, lost>>
    BY <1>5 DEF Missing, Send, SendFails, clocks, matched, central, account
  <2> QED BY <1>0, <2>1, <2>2, <2>3
       DEF AlertsTypeOK, QueueTypes, WindowTypes, TallyTypes, AccountTypes
<1>6. ASSUME NEW t \in CentralRelays, Dispatch(t)
      PROVE  AlertsTypeOK'
  <2>1. posted' \in [CentralRelays -> Nat] /\ inFlight' \subseteq CentralRelays
    BY <1>0, <1>6 DEF Dispatch, QueueTypes
  <2>2. UNCHANGED <<time, skew, handed, stopped, due, next, windows, born, fired, pending,
                    routed, sent, logged, cut,
                    awaited, lost>>
    BY <1>6 DEF Dispatch, clocks, matched, account, tally
  <2> QED BY <1>0, <2>1, <2>2
       DEF AlertsTypeOK, QueueTypes, WindowTypes, TallyTypes, AccountTypes
<1>7. ASSUME NEW t \in CentralRelays, Dispatched(t) \/ StopCentral(t)
      PROVE  AlertsTypeOK'
  <2>0. due[t] # <<>>
    BY <1>7 DEF Busy, Dispatched, StopCentral
  <2>1. t \in Tasks /\ <<>> \in Seq(AuditEvents) /\ Tail(due[t]) \in Seq(AuditEvents)
    BY <1>0, <2>0 DEF Tasks, QueueTypes
  <2>2. /\ due' \in [Tasks -> Seq(AuditEvents)] /\ stopped' \subseteq Tasks
        /\ inFlight' \subseteq CentralRelays
    BY <1>0, <1>7, <2>1 DEF Dispatched, StopCentral, QueueTypes
  <2>3. UNCHANGED <<time, skew, handed, next, windows, born, fired, pending, posted,
                    routed, sent, logged, cut,
                    awaited, lost>>
    BY <1>7 DEF Dispatched, StopCentral, clocks, matched, account, tally
  <2> QED BY <1>0, <2>2, <2>3
       DEF AlertsTypeOK, QueueTypes, WindowTypes, TallyTypes, AccountTypes
<1>8. CASE UNCHANGED alertVars
  <2>1. UNCHANGED <<time, skew, handed, stopped, due, next, windows, born, fired, pending,
                    inFlight, posted, routed, sent, logged, cut,
                    awaited, lost>>
    BY <1>8 DEF alertVars, clocks, matched, central, account, tally
  <2> QED BY <1>0, <2>1
       DEF AlertsTypeOK, QueueTypes, WindowTypes, TallyTypes, AccountTypes
<1> QED BY <1>1, <1>2, <1>3, <1>4, <1>5, <1>6, <1>7, <1>8, RunRuleTypes DEF AlertsNext

(***************************************************************************)
(* The invariant                                                           *)
(***************************************************************************)
\* Every slot's matches come in order, and the window of a rule that has one is
\* an account of them.
WindowsRight ==
    \A s \in Slots :
        /\ Ordered(born[s], time)
        /\ Windowed(Rules[s[1]]) => Tracked(windows[s], born[s], Rules[s[1]].window, time)

\* It is the first rule's turn when a relay waits for a batch.
FreshStart == \A t \in EngineRelays : due[t] = <<>> => next[t] = 1

AlertsInv == /\ AlertsTypeOK /\ Busy /\ NothingSwallowed /\ PostedOnce /\ WindowsRight
             /\ FreshStart /\ NoMatchMissed

LEMMA BusyStep ==
    ASSUME AlertsTypeOK, Busy, [AlertsNext]_alertVars
    PROVE  Busy'
<1>0. QueueTypes
  BY TypesSplit
<1>1. CASE UNCHANGED <<due, inFlight>>
  BY <1>1 DEF Busy
<1>2. ASSUME NEW t \in Tasks, Hand(t)
      PROVE  Busy'
  <2>1. PICK n \in 1..MaxBatch :
          due' \in {[due EXCEPT ![t] = evs] : evs \in [1..n -> AuditEvents]}
    BY <1>2 DEF Hand
  <2>2. PICK evs : due' = [due EXCEPT ![t] = evs]
    BY <2>1
  <2>3. due[t] = <<>> /\ inFlight' = inFlight
    BY <1>2 DEF Hand, central
  <2>4. \A u \in Tasks \ {t} : due'[u] = due[u]
    BY <1>0, <2>2 DEF QueueTypes
  <2>5. t \notin inFlight /\ inFlight \subseteq Tasks
    BY <1>0, <2>3 DEF Busy, QueueTypes, Tasks
  <2> QED BY <2>3, <2>4, <2>5 DEF Busy
<1>3. ASSUME NEW t \in EngineRelays, due[t] # <<>>, Advance(t), UNCHANGED central
      PROVE  Busy'
  <2>1. \A u \in Tasks \ {t} : due'[u] = due[u]
    BY <1>0, <1>3, AdvanceTypes
  <2>2. inFlight' = inFlight /\ t \notin inFlight /\ inFlight \subseteq Tasks
    BY <1>0, <1>3, RelaysAssumption DEF QueueTypes, central, Tasks
  <2> QED BY <2>1, <2>2 DEF Busy
<1>4. ASSUME NEW t \in EngineRelays, StopRelay(t)
      PROVE  Busy'
  <2>1. inFlight' = inFlight /\ due' = [due EXCEPT ![t] = <<>>]
    BY <1>4 DEF StopRelay, central
  <2>2. t \notin inFlight /\ inFlight \subseteq Tasks
    BY <1>0, RelaysAssumption DEF QueueTypes, Tasks
  <2> QED BY <1>0, <2>1, <2>2 DEF Busy, QueueTypes
<1>5. ASSUME NEW t \in CentralRelays, Dispatch(t)
      PROVE  Busy'
  BY <1>5 DEF Dispatch, Busy
<1>6. ASSUME NEW t \in CentralRelays, Dispatched(t) \/ StopCentral(t)
      PROVE  Busy'
  <2>1. inFlight' = inFlight \ {t}
    BY <1>6 DEF Dispatched, StopCentral
  <2>2. PICK rest : due' = [due EXCEPT ![t] = rest]
    BY <1>6 DEF Dispatched, StopCentral
  <2>3. inFlight \subseteq Tasks
    BY <1>0 DEF QueueTypes, Tasks
  <2> QED BY <1>0, <2>1, <2>2, <2>3 DEF Busy, QueueTypes
<1>7. CASE Elapse \/ AdjustClock \/ UNCHANGED alertVars
  BY <1>1, <1>7 DEF Elapse, AdjustClock, alertVars, central
<1>8. ASSUME NEW t \in EngineRelays, SkipRule(t)
      PROVE  Busy'
  BY <1>3, <1>8 DEF SkipRule, Idle
<1>9. ASSUME NEW t \in EngineRelays, RunRule(t)
      PROVE  Busy'
  BY <1>0, <1>3, <1>9, RunRuleShape
<1>10. ASSUME NEW t \in EngineRelays, NEW c \in Names, Missing(t, c) \/ Send(t, c) \/ SendFails(t, c)
       PROVE  Busy'
  BY <1>1, <1>10 DEF Missing, Send, SendFails, central
<1> QED BY <1>2, <1>4, <1>5, <1>6, <1>7, <1>8, <1>9, <1>10 DEF AlertsNext

\* The alerts for channel c that are under way.
UnderWay(p, c) == {t \in EngineRelays : c \in p[t]}

UnderWayChanges(t, c, channels) ==
    /\ Cardinality(UnderWay(pending, c)) \in Nat
    /\ Cardinality(UnderWay(pending', c))
         = Cardinality(UnderWay(pending, c)) + (IF c \in channels THEN 1 ELSE 0)
                                             - (IF c \in pending[t] THEN 1 ELSE 0)

LEMMA UnderWayCount ==
    ASSUME TallyTypes, NEW c, NEW t \in EngineRelays, NEW channels,
           pending' = [pending EXCEPT ![t] = channels]
    PROVE  UnderWayChanges(t, c, channels)
<1> DEFINE before == UnderWay(pending, c)  after == UnderWay(pending', c)
<1>1. IsFiniteSet(before) /\ (t \in before <=> c \in pending[t])
  BY RelaysAssumption, FS_Subset DEF UnderWay
<1>2. after = IF c \in channels THEN before \cup {t} ELSE before \ {t}
  BY DEF UnderWay, TallyTypes
<1>3. /\ Cardinality(before) \in Nat
      /\ Cardinality(before \cup {t}) = IF t \in before THEN Cardinality(before) ELSE Cardinality(before) + 1
      /\ Cardinality(before \ {t}) = IF t \in before THEN Cardinality(before) - 1 ELSE Cardinality(before)
  BY <1>1, FS_AddElement, FS_RemoveElement, FS_CardinalityType
<1> HIDE DEF before, after
<1>4. Cardinality(after) = Cardinality(before) + (IF c \in channels THEN 1 ELSE 0)
                                               - (IF c \in pending[t] THEN 1 ELSE 0)
  BY <1>1, <1>2, <1>3
<1> QED BY <1>3, <1>4 DEF before, after, UnderWayChanges

LEMMA SwallowStep ==
    ASSUME AlertsTypeOK, NothingSwallowed, [AlertsNext]_alertVars
    PROVE  NothingSwallowed'
<1>0. QueueTypes /\ TallyTypes
  BY TypesSplit
<1>1. NothingSwallowed <=> \A c \in Names :
          routed[c] = sent[c] + logged[c] + cut[c] + Cardinality(UnderWay(pending, c))
  BY DEF NothingSwallowed, UnderWay
<1>2. NothingSwallowed' <=> \A c \in Names :
          routed'[c] = sent'[c] + logged'[c] + cut'[c] + Cardinality(UnderWay(pending', c))
  BY DEF NothingSwallowed, UnderWay
<1>3. CASE UNCHANGED <<pending, tally>>
  BY <1>1, <1>2, <1>3 DEF tally
<1>4. ASSUME NEW t \in EngineRelays, NEW severity, pending[t] = {}, Publish(t, severity)
      PROVE  NothingSwallowed'
  <2> DEFINE names == ChannelsFor(severity)
  <2>1. /\ pending' = [pending EXCEPT ![t] = names] /\ routed' = Tallied(routed, names)
        /\ sent' = sent /\ logged' = logged /\ cut' = cut
    BY <1>4 DEF Publish
  <2> HIDE DEF names
  <2>2. ASSUME NEW c \in Names
        PROVE  routed'[c] = sent'[c] + logged'[c] + cut'[c] + Cardinality(UnderWay(pending', c))
    <3>1. /\ Cardinality(UnderWay(pending, c)) \in Nat
          /\ Cardinality(UnderWay(pending', c)) = Cardinality(UnderWay(pending, c))
                + (IF c \in names THEN 1 ELSE 0) - (IF c \in pending[t] THEN 1 ELSE 0)
      <4>1. \A channels : pending' = [pending EXCEPT ![t] = channels] => UnderWayChanges(t, c, channels)
        BY <1>0, UnderWayCount
      <4> QED BY <2>1, <4>1 DEF UnderWayChanges
    <3>2. /\ routed'[c] = (IF c \in names THEN routed[c] + 1 ELSE routed[c])
          /\ sent'[c] = sent[c] /\ logged'[c] = logged[c] /\ cut'[c] = cut[c]
      BY <1>0, <2>1, TallyTyped DEF TallyTypes
    <3>3. routed[c] \in Nat /\ sent[c] \in Nat /\ logged[c] \in Nat /\ cut[c] \in Nat
      BY <1>0 DEF TallyTypes
    <3>4. routed[c] = sent[c] + logged[c] + cut[c] + Cardinality(UnderWay(pending, c))
      BY <1>1
    <3> QED BY <1>4, <3>1, <3>2, <3>3, <3>4
  <2> QED BY <1>2, <2>2
<1>5. ASSUME NEW t \in EngineRelays, NEW d \in Names, Missing(t, d) \/ Send(t, d) \/ SendFails(t, d)
      PROVE  NothingSwallowed'
  <2>1. /\ d \in pending[t] /\ pending' = [pending EXCEPT ![t] = pending[t] \ {d}]
        /\ routed' = routed /\ cut' = cut
        /\ \/ sent' = Tallied(sent, {d}) /\ logged' = logged
           \/ sent' = sent /\ logged' = Tallied(logged, {d})
    BY <1>5 DEF Missing, Send, SendFails
  <2>2. ASSUME NEW c \in Names
        PROVE  routed'[c] = sent'[c] + logged'[c] + cut'[c] + Cardinality(UnderWay(pending', c))
    <3>1. /\ Cardinality(UnderWay(pending, c)) \in Nat
          /\ Cardinality(UnderWay(pending', c)) = Cardinality(UnderWay(pending, c))
                + (IF c \in pending[t] \ {d} THEN 1 ELSE 0) - (IF c \in pending[t] THEN 1 ELSE 0)
      <4>1. \A channels : pending' = [pending EXCEPT ![t] = channels] => UnderWayChanges(t, c, channels)
        BY <1>0, UnderWayCount
      <4> QED BY <2>1, <4>1 DEF UnderWayChanges
    <3>2. routed[c] \in Nat /\ sent[c] \in Nat /\ logged[c] \in Nat /\ cut[c] \in Nat
      BY <1>0 DEF TallyTypes
    <3>3. sent'[c] + logged'[c] = sent[c] + logged[c] + (IF c = d THEN 1 ELSE 0)
      BY <1>0, <2>1, <3>2, TallyTyped DEF TallyTypes
    <3>4. sent'[c] \in Nat /\ logged'[c] \in Nat
      BY <1>0, <2>1, TallyTyped DEF TallyTypes
    <3>5. routed'[c] = routed[c] /\ cut'[c] = cut[c]
      BY <2>1
    <3>6. routed[c] = sent[c] + logged[c] + cut[c] + Cardinality(UnderWay(pending, c))
      BY <1>1
    <3> QED BY <2>1, <3>1, <3>2, <3>3, <3>4, <3>5, <3>6
  <2> QED BY <1>2, <2>2
<1>6. ASSUME NEW t \in EngineRelays, StopRelay(t)
      PROVE  NothingSwallowed'
  <2>1. /\ pending' = [pending EXCEPT ![t] = {}]
        /\ cut' = Tallied(cut, pending[t])
        /\ routed' = routed /\ sent' = sent /\ logged' = logged
    BY <1>6 DEF StopRelay
  <2>2. ASSUME NEW c \in Names
        PROVE  routed'[c] = sent'[c] + logged'[c] + cut'[c] + Cardinality(UnderWay(pending', c))
    <3>1. /\ Cardinality(UnderWay(pending, c)) \in Nat
          /\ Cardinality(UnderWay(pending', c)) = Cardinality(UnderWay(pending, c))
                - (IF c \in pending[t] THEN 1 ELSE 0)
      <4>1. UnderWayChanges(t, c, {})
        BY <1>0, <2>1, UnderWayCount
      <4> QED BY <4>1 DEF UnderWayChanges
    <3>2. routed[c] \in Nat /\ sent[c] \in Nat /\ logged[c] \in Nat /\ cut[c] \in Nat
      BY <1>0 DEF TallyTypes
    <3>3. cut'[c] = (IF c \in pending[t] THEN cut[c] + 1 ELSE cut[c])
      BY <1>0, <2>1, TallyTyped DEF TallyTypes
    <3>4. routed'[c] = routed[c] /\ sent'[c] = sent[c] /\ logged'[c] = logged[c]
      BY <2>1
    <3>5. routed[c] = sent[c] + logged[c] + cut[c] + Cardinality(UnderWay(pending, c))
      BY <1>1
    <3> QED BY <3>1, <3>2, <3>3, <3>4, <3>5
  <2> QED BY <1>2, <2>2
<1>7. ASSUME NEW t \in EngineRelays, RunRule(t)
      PROVE  NothingSwallowed'
  <2>1. PICK s \in Slots : Runs(t, s)
    BY <1>0, <1>7, RunRuleShape
  <2>2. pending[t] = {}
    BY <1>7 DEF RunRule, Idle
  <2>3. (\E severity : Publish(t, severity)) \/ UNCHANGED <<pending, tally>>
    BY <2>1 DEF Runs
  <2> QED BY <1>3, <1>4, <2>2, <2>3
<1>8. ASSUME NEW t \in Tasks, Hand(t)
      PROVE  NothingSwallowed'
  BY <1>3, <1>8 DEF Hand
<1>9. ASSUME NEW t \in EngineRelays, SkipRule(t)
      PROVE  NothingSwallowed'
  BY <1>3, <1>9 DEF SkipRule
<1>10. ASSUME NEW t \in CentralRelays, Dispatch(t) \/ Dispatched(t) \/ StopCentral(t)
       PROVE  NothingSwallowed'
  BY <1>3, <1>10 DEF Dispatch, Dispatched, StopCentral
<1>11. CASE Elapse \/ AdjustClock \/ UNCHANGED alertVars
  BY <1>3, <1>11 DEF Elapse, AdjustClock, alertVars
<1> QED BY <1>5, <1>6, <1>7, <1>8, <1>9, <1>10, <1>11 DEF AlertsNext

\* The posts of relay u are right.
PostsRight(u) ==
    LET posts == posted[u] + Len(due[u])
        events == handed[u] + IF u \in inFlight THEN 1 ELSE 0
    IN  posts <= events /\ (u \notin stopped => posts = events)

LEMMA PostStep ==
    ASSUME AlertsTypeOK, Busy, PostedOnce, [AlertsNext]_alertVars
    PROVE  PostedOnce'
<1>0. /\ QueueTypes /\ CentralRelays \subseteq Tasks
      /\ \A t \in EngineRelays : t \in Tasks /\ t \notin CentralRelays
      /\ \A u \in CentralRelays : PostsRight(u)
  BY TypesSplit, RelaysAssumption DEF Tasks, PostedOnce, PostsRight
<1>1. ASSUME NEW u \in CentralRelays,
             due'[u] = due[u], handed'[u] = handed[u], posted'[u] = posted[u],
             u \in inFlight' <=> u \in inFlight, u \in stopped' <=> u \in stopped
      PROVE  PostsRight(u)'
  BY <1>0, <1>1 DEF PostsRight
<1>2. ASSUME \A u \in CentralRelays : PostsRight(u)'
      PROVE  PostedOnce'
  BY <1>2 DEF PostedOnce, PostsRight
<1>3. CASE UNCHANGED <<due, handed, posted, inFlight, stopped>>
  BY <1>1, <1>2, <1>3
<1>4. ASSUME NEW t \in Tasks, Hand(t)
      PROVE  PostedOnce'
  <2>1. due[t] = <<>> /\ posted' = posted /\ inFlight' = inFlight /\ stopped' = stopped
    BY <1>4 DEF Hand, central
  <2>2. PICK n \in 1..MaxBatch :
          /\ due' \in {[due EXCEPT ![t] = evs] : evs \in [1..n -> AuditEvents]}
          /\ handed' = [handed EXCEPT ![t] = handed[t] + n]
    BY <1>4 DEF Hand
  <2>3. PICK evs \in [1..n -> AuditEvents] : due' = [due EXCEPT ![t] = evs]
    BY <2>2
  <2>4. n \in Nat /\ Len(evs) = n
    BY BoundsAssumption
  <2>5. ASSUME NEW u \in CentralRelays
        PROVE  PostsRight(u)'
    <3>1. u \in Tasks
      BY <1>0
    <3>2. CASE u # t
      <4>1. due'[u] = due[u] /\ handed'[u] = handed[u] /\ posted'[u] = posted[u]
        BY <1>0, <2>1, <2>2, <2>3, <3>1, <3>2 DEF QueueTypes
      <4> QED BY <1>1, <2>1, <4>1
    <3>3. CASE u = t
      <4>1. due'[u] = evs /\ handed'[u] = handed[u] + n /\ posted'[u] = posted[u]
        BY <1>0, <2>1, <2>2, <2>3, <3>1, <3>3 DEF QueueTypes
      <4>2. posted[u] \in Nat /\ handed[u] \in Nat
        BY <1>0, <3>1 DEF QueueTypes
      <4>3. Len(due[u]) = 0
        BY <2>1, <3>3
      <4> QED BY <1>0, <2>1, <2>4, <4>1, <4>2, <4>3 DEF PostsRight
    <3> QED BY <3>2, <3>3
  <2> QED BY <1>2, <2>5
<1>5. ASSUME NEW t \in EngineRelays, due[t] # <<>>, Advance(t), UNCHANGED <<handed, stopped, central>>
      PROVE  PostedOnce'
  <2>1. \A u \in CentralRelays : due'[u] = due[u]
    BY <1>0, <1>5, AdvanceTypes
  <2>2. handed' = handed /\ posted' = posted /\ inFlight' = inFlight /\ stopped' = stopped
    BY <1>5 DEF central
  <2> QED BY <1>1, <1>2, <2>1, <2>2
<1>6. ASSUME NEW t \in EngineRelays, SkipRule(t)
      PROVE  PostedOnce'
  BY <1>5, <1>6 DEF SkipRule, Idle
<1>7. ASSUME NEW t \in EngineRelays, RunRule(t)
      PROVE  PostedOnce'
  <2>1. due[t] # <<>> /\ Advance(t) /\ UNCHANGED <<handed, stopped, central>>
    BY <1>0, <1>7, RunRuleShape
  <2> QED BY <1>5, <2>1
<1>8. ASSUME NEW t \in EngineRelays, StopRelay(t)
      PROVE  PostedOnce'
  <2>1. /\ due' = [due EXCEPT ![t] = <<>>] /\ handed' = handed /\ posted' = posted
        /\ inFlight' = inFlight /\ stopped' = stopped \cup {t}
    BY <1>8 DEF StopRelay, central
  <2>2. \A u \in CentralRelays : due'[u] = due[u] /\ u # t
    BY <1>0, <2>1 DEF QueueTypes
  <2> QED BY <1>1, <1>2, <2>1, <2>2
<1>9. ASSUME NEW t \in EngineRelays, NEW c \in Names, Missing(t, c) \/ Send(t, c) \/ SendFails(t, c)
      PROVE  PostedOnce'
  BY <1>3, <1>9 DEF Missing, Send, SendFails, central
<1>10. ASSUME NEW t \in CentralRelays, Dispatch(t)
       PROVE  PostedOnce'
  <2>1. /\ t \notin inFlight /\ inFlight' = inFlight \cup {t} /\ stopped' = stopped
        /\ posted' = [posted EXCEPT ![t] = posted[t] + 1] /\ due' = due /\ handed' = handed
    BY <1>10 DEF Dispatch
  <2>2. ASSUME NEW u \in CentralRelays
        PROVE  PostsRight(u)'
    <3>1. CASE u # t
      <4>1. posted'[u] = posted[u] /\ (u \in inFlight' <=> u \in inFlight)
        BY <1>0, <2>1, <3>1 DEF QueueTypes
      <4> QED BY <1>1, <2>1, <4>1
    <3>2. CASE u = t
      <4>1. posted'[u] = posted[u] + 1 /\ u \in inFlight' /\ u \notin inFlight
        BY <1>0, <2>1, <3>2 DEF QueueTypes
      <4>2. posted[u] \in Nat /\ handed[u] \in Nat /\ Len(due[u]) \in Nat
        BY <1>0 DEF QueueTypes
      <4> QED BY <1>0, <2>1, <4>1, <4>2 DEF PostsRight
    <3> QED BY <3>1, <3>2
  <2> QED BY <1>2, <2>2
<1>11. ASSUME NEW t \in CentralRelays, NEW rest \in Seq(AuditEvents), t \in inFlight,
              inFlight' = inFlight \ {t}, due' = [due EXCEPT ![t] = rest],
              \/ Len(rest) + 1 = Len(due[t]) /\ stopped' = stopped
              \/ Len(rest) + 1 <= Len(due[t]) /\ stopped' = stopped \cup {t},
              UNCHANGED <<handed, posted>>
       PROVE  PostedOnce'
  <2>1. ASSUME NEW u \in CentralRelays
        PROVE  PostsRight(u)'
    <3>1. CASE u # t
      <4>1. /\ due'[u] = due[u] /\ (u \in inFlight' <=> u \in inFlight)
            /\ (u \in stopped' <=> u \in stopped)
        BY <1>0, <1>11, <3>1 DEF QueueTypes
      <4> QED BY <1>1, <1>11, <4>1
    <3>2. CASE u = t
      <4>1. due'[u] = rest /\ u \in inFlight /\ u \notin inFlight'
        BY <1>0, <1>11, <3>2 DEF QueueTypes
      <4>2. posted[u] \in Nat /\ handed[u] \in Nat /\ Len(due[u]) \in Nat /\ Len(rest) \in Nat
        BY <1>0 DEF QueueTypes
      <4>3. /\ posted[u] + Len(due[u]) <= handed[u] + 1
            /\ u \notin stopped => posted[u] + Len(due[u]) = handed[u] + 1
        BY <1>0, <4>1 DEF PostsRight
      <4>4. \/ Len(rest) + 1 = Len(due[u]) /\ (u \in stopped' <=> u \in stopped)
            \/ Len(rest) + 1 <= Len(due[u]) /\ u \in stopped'
        BY <1>11, <3>2
      <4>5. posted'[u] = posted[u] /\ handed'[u] = handed[u]
        BY <1>11
      <4>6. /\ posted'[u] + Len(rest) <= handed'[u]
            /\ u \notin stopped' => posted'[u] + Len(rest) = handed'[u]
        BY <4>2, <4>3, <4>4, <4>5
      <4>7. handed'[u] + 0 = handed'[u]
        BY <4>2, <4>5
      <4> QED BY <4>1, <4>6, <4>7 DEF PostsRight
    <3> QED BY <3>1, <3>2
  <2> QED BY <1>2, <2>1
<1>12. ASSUME NEW t \in CentralRelays, Dispatched(t) \/ StopCentral(t)
       PROVE  PostedOnce'
  <2>1. /\ t \in inFlight /\ inFlight' = inFlight \ {t} /\ UNCHANGED <<handed, posted>>
        /\ \/ due' = [due EXCEPT ![t] = Tail(due[t])] /\ stopped' = stopped
           \/ due' = [due EXCEPT ![t] = <<>>] /\ stopped' = stopped \cup {t}
    BY <1>12 DEF Dispatched, StopCentral
  <2>2. due[t] \in Seq(AuditEvents) /\ due[t] # <<>>
    BY <1>0, <2>1 DEF Busy, QueueTypes
  <2>3. /\ Tail(due[t]) \in Seq(AuditEvents) /\ Len(Tail(due[t])) + 1 = Len(due[t])
        /\ <<>> \in Seq(AuditEvents) /\ Len(<<>>) + 1 <= Len(due[t])
    BY <2>2
  <2>4. PICK rest \in Seq(AuditEvents) :
          /\ due' = [due EXCEPT ![t] = rest]
          /\ \/ Len(rest) + 1 = Len(due[t]) /\ stopped' = stopped
             \/ Len(rest) + 1 <= Len(due[t]) /\ stopped' = stopped \cup {t}
    BY <2>1, <2>3
  <2> QED BY <1>11, <2>1, <2>4
<1>13. CASE Elapse \/ AdjustClock \/ UNCHANGED alertVars
  BY <1>3, <1>13 DEF Elapse, AdjustClock, alertVars, central
<1> QED BY <1>4, <1>6, <1>7, <1>8, <1>9, <1>10, <1>12, <1>13 DEF AlertsNext

(***************************************************************************)
(* Matches                                                                 *)
(***************************************************************************)
\* What all relays still have to run rule and tenant s on, if d and n are their
\* batches and turns.
LeftIn(d, n, s) == UNION {{t} \X RestOf(d[t], n[t], s) : t \in EngineRelays}

\* The account of s, with left to run.
Accounted(s, awaits, ran, losses, left) == awaits[s] = Len(ran[s]) + losses[s] + Cardinality(left)

LEMMA NoMatchMissedByCase ==
    NoMatchMissed <=> \A s \in Slots : Accounted(s, awaited, born, lost, LeftIn(due, next, s))
BY DEF NoMatchMissed, Accounted, LeftIn, Unrun, RestOf

LEMMA FreshStep ==
    ASSUME AlertsTypeOK, FreshStart, [AlertsNext]_alertVars
    PROVE  FreshStart'
<1>0. QueueTypes /\ \A t \in EngineRelays : t \in Tasks /\ t \notin CentralRelays
  BY TypesSplit, RelaysAssumption DEF Tasks
<1>1. CASE UNCHANGED <<due, next>>
  BY <1>1 DEF FreshStart
<1>2. ASSUME NEW t \in Tasks, Hand(t)
      PROVE  FreshStart'
  <2>1. PICK n \in 1..MaxBatch :
          due' \in {[due EXCEPT ![t] = evs] : evs \in [1..n -> AuditEvents]}
    BY <1>2 DEF Hand
  <2>2. PICK evs \in [1..n -> AuditEvents] : due' = [due EXCEPT ![t] = evs]
    BY <2>1
  <2>3. n \in Nat \ {0}
    BY BoundsAssumption
  <2>4. evs # <<>>
    BY <2>3
  <2>5. next' = next
    BY <1>2 DEF Hand
  <2> QED BY <1>0, <2>2, <2>4, <2>5 DEF FreshStart, QueueTypes
<1>3. ASSUME NEW t \in EngineRelays, due[t] # <<>>, Advance(t)
      PROVE  FreshStart'
  <2>1. CASE next[t] < Len(Rules)
    <3>1. next' = [next EXCEPT ![t] = next[t] + 1] /\ due' = due
      BY <1>3, <2>1 DEF Advance
    <3> QED BY <1>0, <1>3, <3>1 DEF FreshStart, QueueTypes
  <2>2. CASE ~(next[t] < Len(Rules))
    <3>1. next' = [next EXCEPT ![t] = 1] /\ due' = [due EXCEPT ![t] = Tail(due[t])]
      BY <1>3, <2>2 DEF Advance
    <3> QED BY <1>0, <3>1 DEF FreshStart, QueueTypes
  <2> QED BY <2>1, <2>2
<1>4. ASSUME NEW t \in EngineRelays, SkipRule(t) \/ RunRule(t)
      PROVE  FreshStart'
  BY <1>3, <1>4 DEF SkipRule, RunRule, Idle
<1>5. ASSUME NEW t \in EngineRelays, StopRelay(t)
      PROVE  FreshStart'
  <2>1. next' = [next EXCEPT ![t] = 1] /\ due' = [due EXCEPT ![t] = <<>>]
    BY <1>5 DEF StopRelay
  <2> QED BY <1>0, <2>1 DEF FreshStart, QueueTypes
<1>6. ASSUME NEW t \in EngineRelays, NEW c \in Names, Missing(t, c) \/ Send(t, c) \/ SendFails(t, c)
      PROVE  FreshStart'
  BY <1>1, <1>6 DEF Missing, Send, SendFails
<1>7. ASSUME NEW t \in CentralRelays, Dispatch(t) \/ Dispatched(t) \/ StopCentral(t)
      PROVE  FreshStart'
  <2>1. next' = next /\ \E rest : due' = [due EXCEPT ![t] = rest] \/ due' = due
    BY <1>7 DEF Dispatch, Dispatched, StopCentral
  <2>2. \A u \in EngineRelays : due'[u] = due[u]
    BY <1>0, <2>1 DEF QueueTypes
  <2> QED BY <2>1, <2>2 DEF FreshStart
<1>8. CASE Elapse \/ AdjustClock \/ UNCHANGED alertVars
  BY <1>1, <1>8 DEF Elapse, AdjustClock, alertVars
<1> QED BY <1>2, <1>4, <1>5, <1>6, <1>7, <1>8 DEF AlertsNext

\* What the other relays have left.
Others(d, n, t, s) == UNION {{u} \X RestOf(d[u], n[u], s) : u \in EngineRelays \ {t}}

LEMMA LeftSplits ==
    ASSUME NEW d \in [Tasks -> Seq(AuditEvents)], NEW n, NEW t \in EngineRelays, NEW s
    PROVE  /\ Cardinality(Others(d, n, t, s)) \in Nat /\ Cardinality(RestOf(d[t], n[t], s)) \in Nat
           /\ Cardinality(LeftIn(d, n, s))
                = Cardinality(Others(d, n, t, s)) + Cardinality(RestOf(d[t], n[t], s))
<1> DEFINE part(u) == {u} \X RestOf(d[u], n[u], s)
           parts == {part(u) : u \in EngineRelays \ {t}}
           others == UNION parts
<1>1. \A u \in EngineRelays : IsFiniteSet(RestOf(d[u], n[u], s)) /\ Cardinality(RestOf(d[u], n[u], s)) \in Nat
  BY RestIsFinite DEF Tasks
<1>2. \A u \in EngineRelays : IsFiniteSet(part(u))
                              /\ Cardinality(part(u)) = Cardinality(RestOf(d[u], n[u], s))
  <2> TAKE u \in EngineRelays
  <2>1. IsFiniteSet({u}) /\ Cardinality({u}) = 1
    BY FS_Singleton
  <2>2. IsFiniteSet(part(u)) /\ Cardinality(part(u)) = 1 * Cardinality(RestOf(d[u], n[u], s))
    BY <1>1, <2>1, FS_Product
  <2> QED BY <1>1, <2>2
<1>3. IsFiniteSet(EngineRelays \ {t})
  BY RelaysAssumption, FS_Subset
<1>4. IsFiniteSet(parts)
  <2> DEFINE f == [u \in EngineRelays \ {t} |-> part(u)]
  <2> HIDE DEF part
  <2>1. f \in Surjection(EngineRelays \ {t}, parts)
    BY DEF Surjection
  <2> QED BY <1>3, <2>1, FS_Surjection
<1>5. IsFiniteSet(others)
  BY <1>2, <1>4, FS_UNION
<1>6. LeftIn(d, n, s) = others \cup part(t) /\ others \cap part(t) = {}
  BY DEF LeftIn
<1> HIDE DEF others, part, parts
<1>7. Cardinality(others \cup part(t)) = Cardinality(others) + Cardinality(part(t))
  <2>1. Cardinality(others \cap part(t)) = 0
    BY <1>6, FS_EmptySet
  <2>2. Cardinality(others \cup part(t)) =
          Cardinality(others) + Cardinality(part(t)) - Cardinality(others \cap part(t))
    BY <1>2, <1>5, FS_Union
  <2>3. Cardinality(others) \in Nat /\ Cardinality(part(t)) \in Nat
    BY <1>2, <1>5, FS_CardinalityType
  <2> QED BY <2>1, <2>2, <2>3
<1>8. Cardinality(others) \in Nat
  BY <1>5, FS_CardinalityType
<1>9. others = Others(d, n, t, s)
  BY DEF others, parts, part, Others
<1> QED BY <1>1, <1>2, <1>6, <1>7, <1>8, <1>9

\* What is left of s changes by what relay t's part does.
ChangesAt(t, d, n, d2, n2, s) ==
    /\ Cardinality(LeftIn(d, n, s)) \in Nat
    /\ Cardinality(LeftIn(d2, n2, s)) = Cardinality(LeftIn(d, n, s))
         + Cardinality(RestOf(d2[t], n2[t], s)) - Cardinality(RestOf(d[t], n[t], s))

\* When one relay's batch and turn change, what is left changes by its part alone.
LEMMA LeftChanges ==
    ASSUME NEW d \in [Tasks -> Seq(AuditEvents)], NEW n, NEW d2 \in [Tasks -> Seq(AuditEvents)], NEW n2,
           NEW t \in EngineRelays, NEW s,
           \A u \in EngineRelays \ {t} : d2[u] = d[u] /\ n2[u] = n[u]
    PROVE  ChangesAt(t, d, n, d2, n2, s)
<1>1. Others(d2, n2, t, s) = Others(d, n, t, s)
  BY DEF Others
<1>2. /\ Cardinality(Others(d, n, t, s)) \in Nat /\ Cardinality(RestOf(d[t], n[t], s)) \in Nat
      /\ Cardinality(LeftIn(d, n, s))
           = Cardinality(Others(d, n, t, s)) + Cardinality(RestOf(d[t], n[t], s))
  BY LeftSplits
<1>3. /\ Cardinality(RestOf(d2[t], n2[t], s)) \in Nat
      /\ Cardinality(LeftIn(d2, n2, s))
           = Cardinality(Others(d2, n2, t, s)) + Cardinality(RestOf(d2[t], n2[t], s))
  <2> SUFFICES \A x \in [Tasks -> Seq(AuditEvents)] : \A y :
                 /\ Cardinality(RestOf(x[t], y[t], s)) \in Nat
                 /\ Cardinality(LeftIn(x, y, s))
                      = Cardinality(Others(x, y, t, s)) + Cardinality(RestOf(x[t], y[t], s))
    BY Zenon
  <2> QED BY LeftSplits
<1> QED BY <1>1, <1>2, <1>3 DEF ChangesAt

\* Advance takes the first event's place from what its rule has left, and nothing else.
LEMMA AdvanceRuns ==
    ASSUME QueueTypes, NEW t \in EngineRelays, due[t] # <<>>, Advance(t), NEW s \in Slots
    PROVE  LET ran == Matches(Rules[next[t]], Head(due[t])) /\ CaseOf(next[t], Head(due[t])) = s
               rest == RestOf(due[t], next[t], s)
           IN  /\ RestOf(due'[t], next'[t], s) = rest \ (IF ran THEN {Len(due[t])} ELSE {})
               /\ ran => Len(due[t]) \in rest
<1>1. PICK b \in Seq(AuditEvents), i \in 1..Len(Rules), m \in Nat : b = due[t] /\ i = next[t] /\ m = Len(b)
  BY RulesAssumption DEF QueueTypes, Tasks
<1>2. b # <<>> /\ m > 0 /\ Len(b) = m /\ Head(b) = b[1] /\ Len(Rules) \in Nat /\ s[1] \in 1..Len(Rules)
  BY <1>1, RulesAssumption DEF Slots
<1> DEFINE ran == Matches(Rules[i], Head(b)) /\ CaseOf(i, Head(b)) = s
<1>3. CaseOf(i, Head(b)) = s => i = s[1]
  BY DEF CaseOf
<1>4. m \in Awaits(s, b) <=> Matches(Rules[s[1]], Head(b)) /\ CaseOf(s[1], Head(b)) = s
  <2>1. m \in 1..Len(b) /\ Len(b) + 1 - m = 1
    BY <1>1, <1>2
  <2> QED BY <1>2, <2>1 DEF Awaits
<1>5. ran => m \in RestOf(b, i, s)
  BY <1>1, <1>2, <1>3, <1>4 DEF RestOf
<1>6. CASE i < Len(Rules)
  <2>1. due'[t] = b /\ next'[t] = i + 1
    BY <1>1, <1>6 DEF Advance, QueueTypes
  <2>2. RestOf(b, i + 1, s) = RestOf(b, i, s) \ (IF ran THEN {m} ELSE {})
    <3>1. ASSUME NEW k \in Awaits(s, b)
          PROVE  (k = m => i + 1 <= s[1]) <=> (k = m => i <= s[1]) /\ ~(ran /\ k = m)
      <4>1. s[1] = i /\ k = m => ran
        BY <1>4, <3>1
      <4> HIDE DEF ran
      <4> QED BY <1>2, <1>3, <4>1 DEF ran
    <3> QED BY <1>2, <3>1 DEF RestOf
  <2> QED BY <1>1, <1>5, <2>1, <2>2
<1>7. CASE ~(i < Len(Rules))
  <2>1. due'[t] = Tail(b) /\ next'[t] = 1
    BY <1>1, <1>7 DEF Advance, QueueTypes, Tasks
  <2>2. /\ Len(Tail(b)) = m - 1
        /\ \A k \in 1..m - 1 : Tail(b)[(m - 1) + 1 - k] = b[m + 1 - k]
    BY <1>2
  <2>3. Awaits(s, Tail(b)) = Awaits(s, b) \ {m}
    <3>1. \A k : k \in 1..m - 1 <=> k \in 1..m /\ k # m
      BY <1>1, <1>2
    <3> QED BY <1>2, <2>2, <3>1 DEF Awaits
  <2>4. RestOf(Tail(b), 1, s) = Awaits(s, Tail(b))
    BY <1>2 DEF RestOf
  <2>5. i = Len(Rules)
    BY <1>1, <1>2, <1>7
  <2>6. RestOf(b, i, s) \ (IF ran THEN {m} ELSE {}) = Awaits(s, b) \ {m}
    <3>1. m \in RestOf(b, i, s) => ran
      <4>1. ASSUME m \in RestOf(b, i, s) PROVE ran
        <5>1. m \in Awaits(s, b) /\ i <= s[1]
          BY <1>2, <4>1 DEF RestOf
        <5>2. i = s[1]
          BY <1>2, <2>5, <5>1
        <5> QED BY <1>4, <5>1, <5>2
      <4> QED BY <4>1
    <3>2. \A k \in Awaits(s, b) : k # m => k \in RestOf(b, i, s)
      BY <1>2 DEF RestOf
    <3>3. RestOf(b, i, s) \subseteq Awaits(s, b)
      BY DEF RestOf
    <3> HIDE DEF ran
    <3> QED BY <3>1, <3>2, <3>3
  <2> QED BY <1>1, <1>5, <2>1, <2>3, <2>4, <2>6
<1> QED BY <1>6, <1>7

\* The account of s is kept by a step of relay t that takes as much from what is left
\* as it adds to the runs and losses, less what it hands over.
LEMMA AccountKept ==
    ASSUME AlertsTypeOK, NEW t \in EngineRelays, NEW s \in Slots, AlertsTypeOK',
           \A u \in EngineRelays \ {t} : due'[u] = due[u] /\ next'[u] = next[u],
           Accounted(s, awaited, born, lost, LeftIn(due, next, s)),
           Cardinality(RestOf(due'[t], next'[t], s)) - awaited'[s] + Len(born'[s]) + lost'[s]
             = Cardinality(RestOf(due[t], next[t], s)) - awaited[s] + Len(born[s]) + lost[s]
    PROVE  Accounted(s, awaited, born, lost, LeftIn(due, next, s))'
<1>1. /\ QueueTypes /\ WindowTypes /\ AccountTypes /\ t \in Tasks
      /\ due' \in [Tasks -> Seq(AuditEvents)] /\ born' \in [Slots -> Seq(Nat)]
      /\ awaited' \in [Slots -> Nat] /\ lost' \in [Slots -> Nat]
  BY TypesSplit DEF AlertsTypeOK, Tasks
<1>2. due \in [Tasks -> Seq(AuditEvents)]
  BY <1>1 DEF QueueTypes
<1>3. PICK l \in Nat, l2 \in Nat, a \in Nat, a2 \in Nat :
        /\ l = Cardinality(LeftIn(due, next, s)) /\ l2 = Cardinality(LeftIn(due', next', s))
        /\ a = Cardinality(RestOf(due[t], next[t], s)) /\ a2 = Cardinality(RestOf(due'[t], next'[t], s))
        /\ l2 = l + a2 - a
  <2>1. /\ Cardinality(LeftIn(due, next, s)) \in Nat
        /\ Cardinality(LeftIn(due', next', s)) = Cardinality(LeftIn(due, next, s))
             + Cardinality(RestOf(due'[t], next'[t], s)) - Cardinality(RestOf(due[t], next[t], s))
    <3>1. ChangesAt(t, due, next, due', next', s)
      <4>1. \A x, x2 \in [Tasks -> Seq(AuditEvents)] : \A y, y2 :
              (\A u \in EngineRelays \ {t} : x2[u] = x[u] /\ y2[u] = y[u])
                => ChangesAt(t, x, y, x2, y2, s)
        BY LeftChanges
      <4> QED BY <1>1, <1>2, <4>1
    <3> QED BY <3>1 DEF ChangesAt
  <2>2. Cardinality(LeftIn(due', next', s)) \in Nat /\ Cardinality(RestOf(due'[t], next'[t], s)) \in Nat
    <3>1. ChangesAt(t, due', next', due', next', s)
      BY <1>1, LeftChanges
    <3>2. Cardinality(LeftIn(due', next', s)) \in Nat
      BY <3>1 DEF ChangesAt
    <3>3. Cardinality(RestOf(due'[t], next'[t], s)) \in Nat
      BY <1>1, RestIsFinite
    <3> QED BY <3>2, <3>3
  <2>3. Cardinality(RestOf(due[t], next[t], s)) \in Nat
    BY <1>1, <1>2, RestIsFinite
  <2> QED BY <2>1, <2>2, <2>3
<1>4. /\ awaited[s] \in Nat /\ lost[s] \in Nat /\ Len(born[s]) \in Nat
      /\ awaited'[s] \in Nat /\ lost'[s] \in Nat /\ Len(born'[s]) \in Nat
  <2>1. born[s] \in Seq(Nat) /\ born'[s] \in Seq(Nat)
    BY <1>1 DEF WindowTypes
  <2> QED BY <1>1, <2>1 DEF AccountTypes
<1>5. awaited[s] = Len(born[s]) + lost[s] + l
  BY <1>3 DEF Accounted
<1>6. a2 - awaited'[s] + Len(born'[s]) + lost'[s] = a - awaited[s] + Len(born[s]) + lost[s]
  BY <1>3
<1>7. awaited'[s] = Len(born'[s]) + lost'[s] + l2
  <2>1. PICK w \in Nat, b \in Nat, z \in Nat, w2 \in Nat, b2 \in Nat, z2 \in Nat :
          /\ w = awaited[s] /\ b = Len(born[s]) /\ z = lost[s]
          /\ w2 = awaited'[s] /\ b2 = Len(born'[s]) /\ z2 = lost'[s]
    BY <1>4
  <2>2. w = b + z + l /\ a2 - w2 + b2 + z2 = a - w + b + z /\ l2 = l + a2 - a
    BY <1>3, <1>5, <1>6, <2>1
  <2>3. w2 = b2 + z2 + l2
    BY <2>2
  <2> QED BY <2>1, <2>3
<1>8. LeftIn(due, next, s)' = LeftIn(due', next', s)
  BY DEF LeftIn
<1> QED BY <1>3, <1>7, <1>8 DEF Accounted

\* 1 if it is the turn of s on the event that a relay's batch begins with, or else 0.
Turn(t, s) ==
    IF Matches(Rules[next[t]], Head(due[t])) /\ CaseOf(next[t], Head(due[t])) = s THEN 1 ELSE 0

\* What Advance takes from a slot's rest, and a run of the rule adds to its matches.
LEMMA AdvanceAccounts ==
    ASSUME AlertsTypeOK, NEW t \in EngineRelays, due[t] # <<>>, Advance(t), NEW s \in Slots
    PROVE  /\ Cardinality(RestOf(due[t], next[t], s)) \in Nat
           /\ Cardinality(RestOf(due'[t], next'[t], s)) =
                Cardinality(RestOf(due[t], next[t], s)) - Turn(t, s)
           /\ Turn(t, s) \in Nat
<1>1. QueueTypes /\ t \in Tasks
  BY TypesSplit DEF Tasks
<1> DEFINE ran == Matches(Rules[next[t]], Head(due[t])) /\ CaseOf(next[t], Head(due[t])) = s
           rest == RestOf(due[t], next[t], s)
<1>2. IsFiniteSet(rest) /\ Cardinality(rest) \in Nat
  BY <1>1, RestIsFinite DEF QueueTypes
<1>3. /\ RestOf(due'[t], next'[t], s) = rest \ (IF ran THEN {Len(due[t])} ELSE {})
      /\ ran => Len(due[t]) \in rest
  BY <1>1, AdvanceRuns
<1>4. CASE ran
  <2>1. RestOf(due'[t], next'[t], s) = rest \ {Len(due[t])} /\ Len(due[t]) \in rest
    BY <1>3, <1>4
  <2>2. Cardinality(rest \ {Len(due[t])}) = Cardinality(rest) - 1
    BY <1>2, <2>1, FS_RemoveElement
  <2>3. Turn(t, s) = 1
    BY <1>4 DEF Turn
  <2> QED BY <1>2, <2>1, <2>2, <2>3
<1>5. CASE ~ran
  <2>1. RestOf(due'[t], next'[t], s) = rest
    BY <1>3, <1>5
  <2>2. Turn(t, s) = 0
    BY <1>5 DEF Turn
  <2> HIDE DEF rest
  <2>3. Cardinality(rest) - 0 = Cardinality(rest)
    BY <1>2
  <2> QED BY <1>2, <2>1, <2>2, <2>3 DEF rest
<1> QED BY <1>4, <1>5

LEMMA MatchStep ==
    ASSUME AlertsTypeOK, AlertsTypeOK', FreshStart, NoMatchMissed, [AlertsNext]_alertVars
    PROVE  NoMatchMissed'
<1>0. /\ QueueTypes /\ WindowTypes /\ AccountTypes /\ due' \in [Tasks -> Seq(AuditEvents)]
      /\ \A t \in EngineRelays : t \in Tasks /\ t \notin CentralRelays
      /\ \A s \in Slots : Accounted(s, awaited, born, lost, LeftIn(due, next, s))
  BY TypesSplit, RelaysAssumption, NoMatchMissedByCase DEF Tasks, AlertsTypeOK
<1>1. ASSUME \A s \in Slots : Accounted(s, awaited, born, lost, LeftIn(due, next, s))'
      PROVE  NoMatchMissed'
  <2>1. NoMatchMissed' <=> (\A s \in Slots : Accounted(s, awaited, born, lost, LeftIn(due, next, s)))'
    BY NoMatchMissedByCase, PTL
  <2> QED BY <1>1, <2>1
<1>2. CASE /\ UNCHANGED <<next, born, awaited, lost>>
           /\ \A u \in EngineRelays : due'[u] = due[u]
  <2>1. ASSUME NEW s \in Slots
        PROVE  Accounted(s, awaited, born, lost, LeftIn(due, next, s))'
    <3>1. LeftIn(due, next, s)' = LeftIn(due, next, s)
      BY <1>2 DEF LeftIn
    <3> QED BY <1>0, <1>2, <3>1 DEF Accounted
  <2> QED BY <1>1, <2>1
<1>3. ASSUME NEW t \in CentralRelays, Hand(t)
      PROVE  NoMatchMissed'
  <2>1. next' = next /\ born' = born /\ lost' = lost /\ awaited' = awaited
    BY <1>0, <1>3 DEF Hand, matched
  <2>2. \E evs : due' = [due EXCEPT ![t] = evs]
    BY <1>3 DEF Hand
  <2>3. \A u \in EngineRelays : due'[u] = due[u]
    BY <1>0, <2>2 DEF QueueTypes
  <2> QED BY <1>2, <2>1, <2>3
<1>4. ASSUME NEW t \in EngineRelays, Hand(t), NEW s \in Slots
      PROVE  Accounted(s, awaited, born, lost, LeftIn(due, next, s))'
  <2>1. /\ next' = next /\ born' = born /\ lost' = lost /\ due[t] = <<>> /\ next[t] = 1
        /\ awaited' = [u \in Slots |-> awaited[u] + Cardinality(Awaits(u, due'[t]))]
    BY <1>4 DEF Hand, matched, FreshStart
  <2>2. \E evs : due' = [due EXCEPT ![t] = evs]
    BY <1>4 DEF Hand
  <2>3. \A u \in EngineRelays \ {t} : due'[u] = due[u] /\ next'[u] = next[u]
    BY <1>0, <2>1, <2>2 DEF QueueTypes
  <2>4. RestOf(due'[t], next'[t], s) = Awaits(s, due'[t]) /\ s[1] \in 1..Len(Rules)
    BY <2>1, RulesAssumption DEF RestOf, Slots
  <2>5. Cardinality(RestOf(due[t], next[t], s)) = 0
    <3>1. RestOf(due[t], next[t], s) = {}
      BY <2>1 DEF RestOf, Awaits
    <3> QED BY <3>1, FS_EmptySet
  <2>6. awaited'[s] = awaited[s] + Cardinality(RestOf(due'[t], next'[t], s))
    BY <2>1, <2>4
  <2>7. /\ Cardinality(RestOf(due'[t], next'[t], s)) \in Nat /\ awaited[s] \in Nat
        /\ Len(born[s]) \in Nat /\ lost[s] \in Nat /\ born'[s] = born[s] /\ lost'[s] = lost[s]
    BY <1>0, <2>1, RestIsFinite DEF AccountTypes, WindowTypes
  <2>8. Cardinality(RestOf(due'[t], next'[t], s)) - awaited'[s] + Len(born'[s]) + lost'[s]
          = Cardinality(RestOf(due[t], next[t], s)) - awaited[s] + Len(born[s]) + lost[s]
    BY <2>5, <2>6, <2>7
  <2> QED BY <1>0, <2>3, <2>8, AccountKept
<1>5. ASSUME NEW t \in EngineRelays, due[t] # <<>>, Advance(t), NEW s \in Slots,
             UNCHANGED <<awaited, lost>>,
             Len(born'[s]) = Len(born[s]) + Turn(t, s)
      PROVE  Accounted(s, awaited, born, lost, LeftIn(due, next, s))'
  <2>1. \A u \in EngineRelays \ {t} : due'[u] = due[u] /\ next'[u] = next[u]
    <3>1. \A u \in EngineRelays \ {t} : due'[u] = due[u]
      BY <1>0, <1>5, AdvanceTypes
    <3>2. \E n : next' = [next EXCEPT ![t] = n]
      BY <1>5 DEF Advance
    <3> QED BY <1>0, <3>1, <3>2 DEF QueueTypes
  <2>2. /\ Cardinality(RestOf(due[t], next[t], s)) \in Nat
        /\ Cardinality(RestOf(due'[t], next'[t], s)) =
             Cardinality(RestOf(due[t], next[t], s)) - Turn(t, s)
        /\ Turn(t, s) \in Nat
    BY <1>5, AdvanceAccounts
  <2>3. awaited[s] \in Nat /\ Len(born[s]) \in Nat /\ lost[s] \in Nat
        /\ awaited'[s] = awaited[s] /\ lost'[s] = lost[s]
    BY <1>0, <1>5 DEF AccountTypes, WindowTypes
  <2>4. Cardinality(RestOf(due'[t], next'[t], s)) - awaited'[s] + Len(born'[s]) + lost'[s]
          = Cardinality(RestOf(due[t], next[t], s)) - awaited[s] + Len(born[s]) + lost[s]
    BY <1>5, <2>2, <2>3
  <2> QED BY <1>0, <2>1, <2>4, AccountKept
<1>6. ASSUME NEW t \in EngineRelays, SkipRule(t), NEW s \in Slots
      PROVE  Accounted(s, awaited, born, lost, LeftIn(due, next, s))'
  <2>1. /\ due[t] # <<>> /\ Advance(t) /\ UNCHANGED <<awaited, lost>> /\ born' = born
        /\ ~Matches(Rules[next[t]], Head(due[t]))
    BY <1>6 DEF SkipRule, Idle, matched, account
  <2>2. Len(born[s]) \in Nat /\ Turn(t, s) = 0
    BY <1>0, <2>1 DEF WindowTypes, Turn
  <2>3. Len(born'[s]) = Len(born[s]) + Turn(t, s)
    BY <2>1, <2>2
  <2> QED BY <1>5, <2>1, <2>3
<1>7. ASSUME NEW t \in EngineRelays, RunRule(t), NEW s \in Slots
      PROVE  Accounted(s, awaited, born, lost, LeftIn(due, next, s))'
  <2>1. PICK u \in Slots : Runs(t, u) /\ u = CaseOf(next[t], Head(due[t]))
    BY <1>0, <1>7, RunRuleShape
  <2>2. /\ due[t] # <<>> /\ Advance(t) /\ UNCHANGED <<awaited, lost>>
        /\ Matches(Rules[next[t]], Head(due[t]))
    BY <1>7 DEF RunRule, Idle, account
  <2>3. born' = [born EXCEPT ![u] = Append(born[u], time)]
    BY <2>1 DEF Runs
  <2>4. Len(born'[s]) = Len(born[s]) + Turn(t, s)
    <3>1. born[s] \in Seq(Nat) /\ born[u] \in Seq(Nat) /\ time \in Nat
      BY <1>0, BoundsAssumption DEF WindowTypes
    <3>2. born'[s] = IF u = s THEN Append(born[s], time) ELSE born[s]
      BY <1>0, <2>3 DEF WindowTypes
    <3>3. Turn(t, s) = IF u = s THEN 1 ELSE 0
      BY <2>1, <2>2 DEF Turn
    <3>4. CASE u = s
      <4>1. Len(born'[s]) = Len(born[s]) + 1
        BY <3>1, <3>2, <3>4
      <4> QED BY <3>3, <3>4, <4>1
    <3>5. CASE u # s
      <4>1. born'[s] = born[s] /\ Turn(t, s) = 0 /\ Len(born[s]) \in Nat
        BY <3>1, <3>2, <3>3, <3>5
      <4> QED BY <4>1
    <3> QED BY <3>4, <3>5
  <2> QED BY <1>5, <2>2, <2>4
<1>8. ASSUME NEW t \in EngineRelays, StopRelay(t), NEW s \in Slots
      PROVE  Accounted(s, awaited, born, lost, LeftIn(due, next, s))'
  <2>1. /\ due' = [due EXCEPT ![t] = <<>>] /\ next' = [next EXCEPT ![t] = 1]
        /\ born' = born /\ awaited' = awaited
        /\ lost' = [u \in Slots |-> lost[u] + Cardinality(Unrun(t, u))]
    BY <1>8 DEF StopRelay, matched
  <2>2. \A u \in EngineRelays \ {t} : due'[u] = due[u] /\ next'[u] = next[u]
    BY <1>0, <2>1 DEF QueueTypes
  <2>3. lost'[s] = lost[s] + Cardinality(RestOf(due[t], next[t], s))
    BY <2>1, UnrunIsRest
  <2>4. Cardinality(RestOf(due'[t], next'[t], s)) = 0
    <3>1. due'[t] = <<>>
      BY <1>0, <2>1 DEF QueueTypes
    <3>2. RestOf(due'[t], next'[t], s) = {}
      BY <3>1 DEF RestOf, Awaits
    <3> QED BY <3>2, FS_EmptySet
  <2>5. /\ Cardinality(RestOf(due[t], next[t], s)) \in Nat /\ awaited[s] \in Nat
        /\ Len(born[s]) \in Nat /\ lost[s] \in Nat /\ born'[s] = born[s] /\ awaited'[s] = awaited[s]
    BY <1>0, <2>1, RestIsFinite DEF AccountTypes, WindowTypes, QueueTypes
  <2>6. Cardinality(RestOf(due'[t], next'[t], s)) - awaited'[s] + Len(born'[s]) + lost'[s]
          = Cardinality(RestOf(due[t], next[t], s)) - awaited[s] + Len(born[s]) + lost[s]
    BY <2>3, <2>4, <2>5
  <2> QED BY <1>0, <2>2, <2>6, AccountKept
<1>9. ASSUME NEW t \in EngineRelays, NEW c \in Names, Missing(t, c) \/ Send(t, c) \/ SendFails(t, c)
      PROVE  NoMatchMissed'
  BY <1>2, <1>9 DEF Missing, Send, SendFails, matched, account
<1>10. ASSUME NEW t \in CentralRelays, Dispatch(t) \/ Dispatched(t) \/ StopCentral(t)
       PROVE  NoMatchMissed'
  <2>1. /\ UNCHANGED <<next, born, awaited, lost>>
        /\ \E rest : due' = [due EXCEPT ![t] = rest] \/ due' = due
    BY <1>10 DEF Dispatch, Dispatched, StopCentral, matched, account
  <2>2. \A u \in EngineRelays : due'[u] = due[u]
    BY <1>0, <2>1 DEF QueueTypes
  <2> QED BY <1>2, <2>1, <2>2
<1>11. CASE Elapse \/ AdjustClock \/ UNCHANGED alertVars
  BY <1>2, <1>11 DEF Elapse, AdjustClock, alertVars, matched, account
<1>12. ASSUME NEW t \in Tasks, Hand(t)
       PROVE  NoMatchMissed'
  BY <1>1, <1>3, <1>4, <1>12 DEF Tasks
<1>13. ASSUME NEW t \in EngineRelays, SkipRule(t) \/ RunRule(t) \/ StopRelay(t)
       PROVE  NoMatchMissed'
  BY <1>1, <1>6, <1>7, <1>8, <1>13
<1> QED BY <1>9, <1>10, <1>11, <1>12, <1>13 DEF AlertsNext

(***************************************************************************)
(* Windows, step by step                                                   *)
(***************************************************************************)
LEMMA WindowStep ==
    ASSUME AlertsTypeOK, WindowsRight, [AlertsNext]_alertVars
    PROVE  WindowsRight'
<1>0. QueueTypes /\ WindowTypes
  BY TypesSplit
<1>1. CASE UNCHANGED <<time, windows, born>>
  BY <1>1 DEF WindowsRight
<1>2. CASE Elapse
  <2>1. time' = time + 1 /\ windows' = windows /\ born' = born /\ time \in Nat
    BY <1>0, <1>2 DEF Elapse, matched, WindowTypes
  <2>2. ASSUME NEW s \in Slots
        PROVE  /\ Ordered(born[s], time + 1)
               /\ Windowed(Rules[s[1]]) => Tracked(windows[s], born[s], Rules[s[1]].window, time + 1)
    <3>1. /\ Ordered(born[s], time)
          /\ Windowed(Rules[s[1]]) => Tracked(windows[s], born[s], Rules[s[1]].window, time)
      BY DEF WindowsRight
    <3>2. born[s] \in Seq(Nat) /\ windows[s] \in Seq(Int) /\ Rules[s[1]].window \in Nat /\ MaxSkew \in Nat
      <4>1. Rules[s[1]] \in Rule
        BY RulesAssumption DEF Slots
      <4>2. Rules[s[1]].window \in Nat
        BY <4>1 DEF Rule
      <4> QED BY <1>0, <4>2, BoundsAssumption DEF WindowTypes
    <3>3. /\ \A j \in DOMAIN born[s] : born[s][j] \in Nat
          /\ Len(born[s]) \in Nat /\ Len(windows[s]) \in Nat /\ DOMAIN born[s] = 1..Len(born[s])
      BY <3>2
    <3>4. Ordered(born[s], time + 1)
      BY <2>1, <3>1, <3>3 DEF Ordered
    <3>5. ASSUME Windowed(Rules[s[1]])
          PROVE  Tracked(windows[s], born[s], Rules[s[1]].window, time + 1)
      <4> DEFINE b == born[s]  w == windows[s]  d == Rules[s[1]].window
      <4>1. Tracked(w, b, d, time)
        BY <3>1, <3>5
      <4>2. d \in Nat /\ (\A j \in DOMAIN b : b[j] \in Nat) /\ Len(b) \in Nat /\ Len(w) \in Nat
            /\ DOMAIN b = 1..Len(b)
        BY <3>2, <3>3
      <4> HIDE DEF b, w, d
      <4>3. ASSUME d > 0, NEW j \in 1..Len(b) - Len(w)
            PROVE  b[j] < (time + 1) - d + 2 * MaxSkew
        <5>1. j \in DOMAIN b
          BY <4>2
        <5>2. b[j] < time - d + 2 * MaxSkew
          BY <4>1, <4>3 DEF Tracked
        <5> QED BY <2>1, <3>2, <4>2, <5>1, <5>2
      <4>4. Tracked(w, b, d, time + 1)
        BY <4>1, <4>3 DEF Tracked
      <4> QED BY <4>4 DEF b, w, d
    <3> QED BY <3>4, <3>5
  <2> QED BY <2>1, <2>2 DEF WindowsRight
<1>3. ASSUME NEW t \in EngineRelays, RunRule(t)
      PROVE  WindowsRight'
  <2>1. PICK s \in Slots : Runs(t, s)
    BY <1>0, <1>3, RunRuleShape
  <2>2. time' = time
    BY <1>3 DEF RunRule, clocks
  <2>3. Rules[s[1]] \in Rule /\ time \in Nat /\ skew \in (-MaxSkew)..MaxSkew
        /\ windows[s] \in Seq(Int) /\ born[s] \in Seq(Nat)
    BY <1>0, RulesAssumption, BoundsAssumption DEF WindowTypes, Slots
  <2>4. born' = [born EXCEPT ![s] = Append(born[s], time)]
    BY <2>1 DEF Runs
  <2>5. Ordered(Append(born[s], time), time)
    BY <2>3, OrderedPush DEF WindowsRight
  <2>6. ASSUME NEW u \in Slots, u # s
        PROVE  born'[u] = born[u] /\ windows'[u] = windows[u]
    BY <1>0, <2>1, <2>4, <2>6 DEF Runs, WindowTypes
  <2>7. ASSUME Windowed(Rules[s[1]])
        PROVE  Tracked(windows'[s], Append(born[s], time), Rules[s[1]].window, time)
    <3>1. windows'[s] = Slid(Rules[s[1]], windows[s], time + skew)
      BY <1>0, <2>1, <2>7 DEF Runs, WindowTypes
    <3>2. Tracked(windows[s], born[s], Rules[s[1]].window, time)
      BY <2>7 DEF WindowsRight
    <3> QED BY <2>3, <3>1, <3>2, TrackedPush
  <2>8. born'[s] = Append(born[s], time)
    BY <1>0, <2>4 DEF WindowTypes
  <2> QED BY <2>2, <2>5, <2>6, <2>7, <2>8 DEF WindowsRight
<1>4. ASSUME NEW t \in Tasks, Hand(t)
      PROVE  WindowsRight'
  BY <1>1, <1>4 DEF Hand, clocks, matched
<1>5. ASSUME NEW t \in EngineRelays, SkipRule(t) \/ StopRelay(t)
      PROVE  WindowsRight'
  BY <1>1, <1>5 DEF SkipRule, StopRelay, clocks, matched
<1>6. ASSUME NEW t \in EngineRelays, NEW c \in Names, Missing(t, c) \/ Send(t, c) \/ SendFails(t, c)
      PROVE  WindowsRight'
  BY <1>1, <1>6 DEF Missing, Send, SendFails, clocks, matched
<1>7. ASSUME NEW t \in CentralRelays, Dispatch(t) \/ Dispatched(t) \/ StopCentral(t)
      PROVE  WindowsRight'
  BY <1>1, <1>7 DEF Dispatch, Dispatched, StopCentral, clocks, matched
<1>8. CASE AdjustClock \/ UNCHANGED alertVars
  BY <1>1, <1>8 DEF AdjustClock, alertVars, clocks, matched
<1> QED BY <1>2, <1>3, <1>4, <1>5, <1>6, <1>7, <1>8 DEF AlertsNext

(***************************************************************************)
(* When a rule fires                                                       *)
(***************************************************************************)
\* A window that has taken its match and holds the count of its rule has them
\* from a burst.
LEMMA FullWindow ==
    ASSUME NEW v \in Seq(Int), NEW b \in Seq(Nat), NEW t \in Nat, NEW n \in Nat \ {0},
           NEW d \in Nat, NEW k \in (-MaxSkew)..MaxSkew,
           Ordered(b, t), Tracked(v, b, d, t), Len(v) >= n, v[1] >= (t + k) - d
    PROVE  Len(b) >= n /\ b[Len(b) - n + 1] >= t - (d + 2 * MaxSkew)
<1>1. PICK lv \in Nat, lb \in Nat, M \in Nat : lv = Len(v) /\ lb = Len(b) /\ M = MaxSkew
  BY BoundsAssumption
<1>2. n <= lv /\ lv <= lb /\ DOMAIN b = 1..lb
  BY <1>1 DEF Tracked
<1>3. 1 \in DOMAIN v
  BY <1>1, <1>2
<1>4. v[1] <= b[lb - lv + 1] + M
  BY <1>1, <1>3 DEF Tracked
<1>5. lb - lv + 1 \in 1..lb /\ lb - n + 1 \in 1..lb /\ lb - lv + 1 <= lb - n + 1
  BY <1>2
<1>6. b[lb - lv + 1] <= b[lb - n + 1]
  BY <1>2, <1>5 DEF Ordered
<1>7. b[lb - lv + 1] \in Nat /\ b[lb - n + 1] \in Nat /\ v[1] \in Int
  <2>1. \A i \in 1..lb : b[i] \in Nat
    BY <1>1
  <2>2. v[1] \in Int
    BY <1>3
  <2> QED BY <1>5, <2>1, <2>2
<1>8. k \in Int /\ -M <= k
  BY <1>1
<1>9. b[lb - n + 1] >= t - (d + 2 * M)
  <2> DEFINE x == b[lb - lv + 1]  y == b[lb - n + 1]  z == v[1]
  <2>1. x <= y /\ z <= x + M /\ z >= (t + k) - d /\ x \in Nat /\ y \in Nat /\ z \in Int
    BY <1>4, <1>6, <1>7
  <2> HIDE DEF x, y, z
  <2>2. y >= t - (d + 2 * M)
    BY <1>8, <2>1
  <2> QED BY <2>2 DEF y
<1> QED BY <1>1, <1>2, <1>9

\* A burst fills the window.
LEMMA BurstFills ==
    ASSUME NEW v \in Seq(Int), NEW b \in Seq(Nat), NEW t \in Nat, NEW n \in Nat \ {0},
           NEW d \in Nat, Tracked(v, b, d, t), Len(b) >= n,
           d = 0 \/ b[Len(b) - n + 1] >= t - (d - 2 * MaxSkew)
    PROVE  Len(v) >= n
<1>1. PICK lv \in Nat, lb \in Nat, M \in Nat : lv = Len(v) /\ lb = Len(b) /\ M = MaxSkew
  BY BoundsAssumption
<1>2. CASE d = 0
  BY <1>2 DEF Tracked
<1>3. CASE d > 0 /\ b[lb - n + 1] >= t - (d - 2 * M)
  <2> SUFFICES ASSUME lv < n PROVE FALSE
    BY <1>1
  <2>1. lb - n + 1 \in 1..lb - lv /\ lb - n + 1 \in 1..lb
    BY <1>1
  <2>2. b[lb - n + 1] < t - d + 2 * M
    BY <1>1, <1>3, <2>1 DEF Tracked
  <2>3. b[lb - n + 1] \in Nat
    BY <1>1, <2>1
  <2> DEFINE y == b[lb - n + 1]
  <2>4. y < t - d + 2 * M /\ y >= t - (d - 2 * M) /\ y \in Nat
    BY <1>3, <2>2, <2>3
  <2> HIDE DEF y
  <2> QED BY <2>4
<1> QED BY <1>1, <1>2, <1>3

Fires(s) ==
    LET rule == Rules[s[1]] IN
    /\ fired'[s] > fired[s] /\ rule.window > 0
         => Burst(born'[s], rule.count, rule.window + 2 * MaxSkew)
    /\ /\ born'[s] # born[s]
       /\ \/ rule.window = 0 /\ Len(born'[s]) >= rule.count
          \/ Burst(born'[s], rule.count, rule.window - 2 * MaxSkew)
       => fired'[s] = fired[s] + 1

LEMMA RunRuleFires ==
    ASSUME AlertsTypeOK, WindowsRight, NEW t \in EngineRelays, NEW s \in Slots, Runs(t, s),
           NEW u \in Slots
    PROVE  Fires(u)
<1>0. QueueTypes /\ WindowTypes
  BY TypesSplit
<1>1. fired[u] \in Nat
  BY <1>0 DEF WindowTypes
<1> DEFINE rule == Rules[s[1]]  v == Slid(rule, windows[s], time + skew)
           b == Append(born[s], time)
<1>2. /\ rule \in Rule /\ time \in Nat /\ skew \in (-MaxSkew)..MaxSkew
      /\ windows[s] \in Seq(Int) /\ born[s] \in Seq(Nat) /\ b \in Seq(Nat) /\ time + skew \in Int
  <2>1. rule \in Rule
    BY RulesAssumption DEF Slots
  <2> QED BY <1>0, <2>1, BoundsAssumption DEF WindowTypes
<1>3. rule.count \in Nat \ {0} /\ rule.window \in Nat
  BY <1>2 DEF Rule
<1>4. born' = [born EXCEPT ![s] = b]
  BY DEF Runs
<1>5. /\ (Windowed(rule) => Len(v) >= rule.count) => fired' = [fired EXCEPT ![s] = fired[s] + 1]
      /\ ~(Windowed(rule) => Len(v) >= rule.count) => fired' = fired
  BY DEF Runs
<1>6. CASE u # s
  <2>1. fired'[u] = fired[u]
    <3>1. fired' = [fired EXCEPT ![s] = fired[s] + 1] \/ fired' = fired
      BY <1>5
    <3> QED BY <1>0, <1>6, <3>1 DEF WindowTypes
  <2>2. born'[u] = born[u]
    BY <1>0, <1>4, <1>6 DEF WindowTypes
  <2>3. ~(fired'[u] > fired[u])
    BY <1>1, <2>1
  <2> QED BY <2>2, <2>3 DEF Fires
<1>7. CASE u = s
  <2>1. born'[s] = b
    BY <1>0, <1>4 DEF WindowTypes
  <2>2. (Windowed(rule) => Len(v) >= rule.count) => fired'[s] = fired[s] + 1
    BY <1>0, <1>5 DEF WindowTypes
  <2>3. ~(Windowed(rule) => Len(v) >= rule.count) => fired'[s] = fired[s]
    BY <1>5
  <2>4. Ordered(b, time)
    BY <1>2, OrderedPush DEF WindowsRight
  <2>5. Windowed(rule) => /\ Tracked(v, b, rule.window, time) /\ v \in Seq(Int)
                          /\ rule.window > 0 => v[1] >= (time + skew) - rule.window
    <3>1. Windowed(rule) => Tracked(windows[s], born[s], rule.window, time)
      BY DEF WindowsRight
    <3>2. v \in Seq(Int)
      BY <1>2, SlidKeeps
    <3> QED BY <1>2, <3>1, <3>2, TrackedPush
  <2> HIDE DEF rule, v, b
  <2>6. ASSUME fired'[s] > fired[s], rule.window > 0
        PROVE  Burst(b, rule.count, rule.window + 2 * MaxSkew)
    <3>1. Windowed(rule)
      BY <2>6 DEF Windowed
    <3>2. Len(v) >= rule.count
      BY <1>1, <1>7, <2>3, <2>6, <3>1
    <3>3. Tracked(v, b, rule.window, time) /\ v \in Seq(Int) /\ v[1] >= (time + skew) - rule.window
      BY <2>5, <2>6, <3>1
    <3> QED BY <1>2, <1>3, <2>4, <3>2, <3>3, FullWindow DEF Burst
  <2>7. ASSUME \/ rule.window = 0 /\ Len(b) >= rule.count
               \/ Burst(b, rule.count, rule.window - 2 * MaxSkew)
        PROVE  fired'[s] = fired[s] + 1
    <3>1. CASE ~Windowed(rule)
      BY <2>2, <3>1
    <3>2. CASE Windowed(rule)
      <4>1. Tracked(v, b, rule.window, time) /\ v \in Seq(Int)
        BY <2>5, <3>2
      <4>2. /\ Len(b) >= rule.count
            /\ rule.window = 0 \/ b[Len(b) - rule.count + 1] >= time - (rule.window - 2 * MaxSkew)
        BY <2>7 DEF Burst
      <4>3. Len(v) >= rule.count
        BY <1>2, <1>3, <4>1, <4>2, BurstFills
      <4> QED BY <2>2, <4>3
    <3> QED BY <3>1, <3>2
  <2> QED BY <1>7, <2>1, <2>6, <2>7 DEF Fires, rule
<1> QED BY <1>6, <1>7

(***************************************************************************)
(* Theorems                                                                *)
(***************************************************************************)
\* The invariant holds at the start, and every step of the pipeline keeps it.
THEOREM AlertsInvariance == AlertsSpec => []AlertsInv
<1>1. AlertsInit => AlertsInv
  <2> SUFFICES ASSUME AlertsInit PROVE AlertsInv
    OBVIOUS
  <2>1. AlertsTypeOK
    BY AlertsInitTypes
  <2>2. Busy
    BY DEF AlertsInit, Busy
  <2>3. NothingSwallowed
    <3>1. ASSUME NEW c \in Names
          PROVE  {t \in EngineRelays : c \in pending[t]} = {}
      BY DEF AlertsInit
    <3>2. Cardinality({}) = 0
      BY FS_EmptySet
    <3>3. \A c \in Names : routed[c] = 0 /\ sent[c] = 0 /\ logged[c] = 0 /\ cut[c] = 0
      BY DEF AlertsInit
    <3> QED BY <3>1, <3>2, <3>3 DEF NothingSwallowed
  <2>4. PostedOnce
    <3>1. ASSUME NEW t \in CentralRelays
          PROVE  posted[t] = 0 /\ Len(due[t]) = 0 /\ handed[t] = 0 /\ t \notin inFlight
      BY DEF AlertsInit, Tasks
    <3> QED BY <3>1 DEF PostedOnce
  <2>5. WindowsRight
    <3>1. ASSUME NEW s \in Slots
          PROVE  windows[s] = <<>> /\ born[s] = <<>>
      BY DEF AlertsInit
    <3>2. \A d : Tracked(<<>>, <<>>, d, time)
      BY DEF Tracked
    <3>3. Ordered(<<>>, time)
      BY DEF Ordered
    <3> QED BY <3>1, <3>2, <3>3 DEF WindowsRight
  <2>6. FreshStart
    BY DEF AlertsInit, FreshStart
  <2>7. NoMatchMissed
    <3>1. ASSUME NEW s \in Slots
          PROVE  Accounted(s, awaited, born, lost, LeftIn(due, next, s))
      <4>1. \A t \in EngineRelays : due[t] = <<>>
        BY DEF AlertsInit, Tasks
      <4>2. \A t \in EngineRelays : RestOf(due[t], next[t], s) = {}
        BY <4>1 DEF RestOf, Awaits
      <4>3. LeftIn(due, next, s) = {}
        BY <4>2 DEF LeftIn
      <4>4. awaited[s] = 0 /\ lost[s] = 0 /\ Len(born[s]) = 0
        BY DEF AlertsInit
      <4> QED BY <4>3, <4>4, FS_EmptySet DEF Accounted
    <3> QED BY <3>1, NoMatchMissedByCase
  <2> QED BY <2>1, <2>2, <2>3, <2>4, <2>5, <2>6, <2>7 DEF AlertsInv
<1>2. AlertsInv /\ [AlertsNext]_alertVars => AlertsInv'
  <2> SUFFICES ASSUME AlertsInv, [AlertsNext]_alertVars PROVE AlertsInv'
    OBVIOUS
  <2>1. /\ AlertsTypeOK /\ Busy /\ NothingSwallowed /\ PostedOnce /\ WindowsRight
        /\ FreshStart /\ NoMatchMissed
    BY DEF AlertsInv
  <2>2. AlertsTypeOK'
    BY <2>1, AlertsNextTypes
  <2>3. Busy'
    BY <2>1, BusyStep
  <2>4. NothingSwallowed'
    BY <2>1, SwallowStep
  <2>5. PostedOnce'
    BY <2>1, PostStep
  <2>6. WindowsRight'
    BY <2>1, WindowStep
  <2>7. FreshStart'
    BY <2>1, FreshStep
  <2>8. NoMatchMissed'
    BY <2>1, <2>2, MatchStep
  <2> QED BY <2>2, <2>3, <2>4, <2>5, <2>6, <2>7, <2>8 DEF AlertsInv
<1> QED BY <1>1, <1>2, PTL DEF AlertsSpec

\* The variables of the alert pipeline have their types.
THEOREM AlertsTyped == AlertsSpec => []AlertsTypeOK
<1>1. AlertsInv => AlertsTypeOK
  BY DEF AlertsInv
<1> QED BY <1>1, AlertsInvariance, PTL

\* Every channel of an alert's route accounts for it, for any set of relays,
\* rules and routes: no channel's failure, missing registration or cancelled
\* relay loses what another was to send.
THEOREM NoneIsSwallowed == AlertsSpec => []NothingSwallowed
<1>1. AlertsInv => NothingSwallowed
  BY DEF AlertsInv
<1> QED BY <1>1, AlertsInvariance, PTL

\* Every event that is handed to a central engine is posted to the auth server exactly
\* once, whatever is answered, and once at most if the relay is stopped.
THEOREM EventsPostedOnce == AlertsSpec => []PostedOnce
<1>1. AlertsInv => PostedOnce
  BY DEF AlertsInv
<1> QED BY <1>1, AlertsInvariance, PTL

\* Every rule runs once on every event it is for, except for those that a stop cuts
\* off, which are counted: neither a failing channel nor another rule or relay costs
\* it one.
THEOREM NoMatchIsMissed == AlertsSpec => []NoMatchMissed
<1>1. AlertsInv => NoMatchMissed
  BY DEF AlertsInv
<1> QED BY <1>1, AlertsInvariance, PTL

\* A rule fires on a burst and on nothing else, for any count, window and skew,
\* whatever other relays and tenants do in between and however often the wall
\* clock is set.
THEOREM RulesFireOnBursts == AlertsSpec => FiresOnBursts
<1>1. AlertsInv /\ [AlertsNext]_alertVars =>
        [\A s \in Slots : LET rule == Rules[s[1]] IN
           /\ fired'[s] > fired[s] /\ rule.window > 0
              => Burst(born'[s], rule.count, rule.window + 2 * MaxSkew)
           /\ /\ born'[s] # born[s]
              /\ \/ rule.window = 0 /\ Len(born'[s]) >= rule.count
                 \/ Burst(born'[s], rule.count, rule.window - 2 * MaxSkew)
              => fired'[s] = fired[s] + 1]_alertVars
  <2> SUFFICES ASSUME AlertsInv, AlertsNext PROVE \A s \in Slots : Fires(s)
    BY DEF Fires
  <2>0. AlertsTypeOK /\ WindowsRight /\ QueueTypes /\ WindowTypes
    BY TypesSplit DEF AlertsInv
  <2>1. CASE UNCHANGED <<born, fired>>
    <3>1. ASSUME NEW s \in Slots
          PROVE  Fires(s)
      <4>1. fired[s] \in Nat /\ fired'[s] = fired[s] /\ born'[s] = born[s]
        BY <2>0, <2>1 DEF WindowTypes
      <4>2. ~(fired'[s] > fired[s])
        BY <4>1
      <4> QED BY <4>1, <4>2 DEF Fires
    <3> QED BY <3>1
  <2>2. ASSUME NEW t \in EngineRelays, RunRule(t)
        PROVE  \A s \in Slots : Fires(s)
    <3>1. PICK s \in Slots : Runs(t, s)
      BY <2>0, <2>2, RunRuleShape
    <3> QED BY <2>0, <3>1, RunRuleFires
  <2>3. CASE Elapse \/ AdjustClock
    BY <2>1, <2>3 DEF Elapse, AdjustClock, matched
  <2>4. ASSUME NEW t \in Tasks, Hand(t)
        PROVE  UNCHANGED <<born, fired>>
    BY <2>4 DEF Hand, matched
  <2>5. ASSUME NEW t \in EngineRelays, SkipRule(t) \/ StopRelay(t)
        PROVE  UNCHANGED <<born, fired>>
    BY <2>5 DEF SkipRule, StopRelay, matched
  <2>6. ASSUME NEW t \in EngineRelays, NEW c \in Names, Missing(t, c) \/ Send(t, c) \/ SendFails(t, c)
        PROVE  UNCHANGED <<born, fired>>
    BY <2>6 DEF Missing, Send, SendFails, matched
  <2>7. ASSUME NEW t \in CentralRelays, Dispatch(t) \/ Dispatched(t) \/ StopCentral(t)
        PROVE  UNCHANGED <<born, fired>>
    BY <2>7 DEF Dispatch, Dispatched, StopCentral, matched
  <2> QED BY <2>1, <2>2, <2>3, <2>4, <2>5, <2>6, <2>7 DEF AlertsNext
<1> QED BY <1>1, AlertsInvariance, PTL DEF AlertsSpec, FiresOnBursts
==============================================================================
