---------------------------- MODULE AuditOutbox ----------------------------
(***************************************************************************)
(* The audit outbox of bsvibe-audit: producers that write an audit row in  *)
(* their own database transaction (emitter.py, decorators.py), relays that *)
(* ship the rows to BSVibe-Auth in batches (outbox/relay.py, client.py),   *)
(* and operators who run `bsvibe-audit retry-failed` (cli.py), all of them *)
(* on one audit_outbox table (outbox/schema.py, outbox/store.py).          *)
(*                                                                         *)
(* An event is identified with the primary key of its row: ids are given   *)
(* out at flush time, transactions commit in any order.  Database          *)
(* transactions are READ COMMITTED and a commit is one step; what a        *)
(* session has loaded stays in its identity map and may be stale when it   *)
(* is written back.  Time appears only as the seconds a row still has to   *)
(* wait for its next attempt.                                              *)
(***************************************************************************)
EXTENDS Integers, FiniteSets

CONSTANTS
    Events,      \* primary keys of the audit rows that may be written
    Relays,      \* OutboxRelay objects polling this table
    Operators,   \* invocations of `bsvibe-audit retry-failed`
    BatchSize,   \* rows per relay batch, and per retry-failed batch
    MaxRetries,  \* AuditSettings.max_retries
    BackoffCap,  \* the longest backoff (60 in the code)
    Safe,        \* the safe= argument of @audit_emit
    MaxFaults    \* bound: stops, crashes and failed iterations of relays

Workers == Relays \cup Operators

ASSUME EventsAssumption  == Events \subseteq Nat /\ IsFiniteSet(Events)
ASSUME WorkersAssumption == Relays \cap Operators = {}
ASSUME NumbersAssumption == /\ BatchSize \in Nat \ {0}
                            /\ MaxRetries \in Nat \ {0}
                            /\ BackoffCap \in Nat \ {0}
                            /\ MaxFaults \in Nat
ASSUME SafeAssumption    == Safe \in BOOLEAN

VARIABLES
    \* The producers' transactions and what they have committed.
    tx,         \* state of the transaction that writes event e
    domain,     \* events whose domain write is committed
    rows,       \* committed rows of audit_outbox
    \* The columns of the committed rows.
    delivered,  \* rows with delivered_at set
    dead,       \* rows with dead_letter = TRUE
    retry,      \* retry_count
    wait,       \* seconds until next_attempt_at; Null when it is NULL
    \* The sessions of the relays and of the retry-failed commands.
    phase,      \* where the worker is
    batch,      \* the rows it holds
    reply,      \* the answer of the audit endpoint to its request
    seen,       \* retry_count of each row as the relay's session loaded it
    timed,      \* rows the operator's session loaded with next_attempt_at set
    running,    \* OutboxRelay.is_running()
    client,     \* the httpx client owned by the relay's AuditClient
    \* Outside the process.
    accepted,   \* events ingested by BSVibe-Auth
    alerted,    \* events passed through the alert rule engine
    faults

txVars     == <<tx, domain, rows>>
columnVars == <<delivered, dead, retry, wait>>
workVars   == <<phase, batch, reply, seen, timed>>
lifeVars   == <<running, client>>
outVars    == <<accepted, alerted>>
vars       == <<txVars, columnVars, workVars, lifeVars, outVars, faults>>

Null == -1

(***************************************************************************)
(* Helpers.                                                                *)
(***************************************************************************)

\* _backoff_delta: min(BackoffCap, 2^(n-1)), for the n-th failure, n > 0.
Backoff(n) == IF 2^(n-1) \in 1..BackoffCap THEN 2^(n-1) ELSE BackoffCap

\* ORDER BY id LIMIT n
FirstById(S, n) == {e \in S : Cardinality({d \in S : d < e}) < n}

\* Mutants of Undelivered: without the dead_letter clause; NULL only.
DeadIncluded == {e \in rows \ delivered : wait[e] = Null \/ wait[e] <= 0}
NullOnly == {e \in rows \ (delivered \cup dead) : wait[e] = Null}

\* The WHERE clauses of select_undelivered.
Undelivered ==
    {e \in rows \ (delivered \cup dead) : wait[e] = Null \/ wait[e] <= 0}

\* The WHERE clause of select_dead_letter: delivered_at is not looked at.
DeadLetters == {e \in rows : e \in dead}

\* The worker's session is closed and what it held is forgotten.
Release(w, next) ==
    /\ phase' = [phase EXCEPT ![w] = next]
    /\ batch' = [batch EXCEPT ![w] = {}]
    /\ reply' = [reply EXCEPT ![w] = "none"]

NothingSeen == [e \in Events |-> 0]

Forget(r) == seen' = [seen EXCEPT ![r] = NothingSeen]

Init ==
    /\ tx = [e \in Events |-> "none"]
    /\ domain = {} /\ rows = {}
    /\ delivered = {} /\ dead = {}
    /\ retry = [e \in Events |-> 0]
    /\ wait = [e \in Events |-> Null]
    /\ phase = [w \in Workers |-> "idle"]
    /\ batch = [w \in Workers |-> {}]
    /\ reply = [w \in Workers |-> "none"]
    /\ seen = [r \in Relays |-> NothingSeen]
    /\ timed = [o \in Operators |-> {}]
    /\ running = [r \in Relays |-> FALSE]
    /\ client = [r \in Relays |-> "unbuilt"]
    /\ accepted = {} /\ alerted = {}
    /\ faults = 0

(***************************************************************************)
(* Producers: a handler wrapped in @audit_emit, in its caller's            *)
(* transaction.                                                            *)
(***************************************************************************)

\* The wrapped function ran and left its domain write in the session.
DomainWrite(e) ==
    /\ tx[e] = "none"
    /\ tx' = [tx EXCEPT ![e] = "open"]
    /\ UNCHANGED <<domain, rows, columnVars, workVars, lifeVars, outVars, faults>>

\* AuditEmitter.emit: the row is added and flushed, never committed.
EmitRow(e) ==
    /\ tx[e] = "open"
    /\ tx' = [tx EXCEPT ![e] = "flushed"]
    /\ UNCHANGED <<domain, rows, columnVars, workVars, lifeVars, outVars, faults>>

\* Mutant of EmitRaises: the exception is swallowed whatever safe says.
AlwaysSwallowed(e) ==
    /\ tx[e] = "open"
    /\ tx' = [tx EXCEPT ![e] = "unaudited"]
    /\ UNCHANGED <<domain, rows, columnVars, workVars, lifeVars, outVars, faults>>

\* The emit path raises before it reaches the session (wrong actor type, an
\* extractor or a serialisation that fails).  safe=True logs it and carries on.
EmitRaises(e) ==
    /\ tx[e] = "open"
    /\ tx' = [tx EXCEPT ![e] = IF Safe THEN "unaudited" ELSE "failed"]
    /\ UNCHANGED <<domain, rows, columnVars, workVars, lifeVars, outVars, faults>>

\* The INSERT itself fails.  With safe=True the exception is swallowed too, but
\* the session then refuses to commit until it is rolled back.
FlushFails(e) ==
    /\ tx[e] = "open"
    /\ tx' = [tx EXCEPT ![e] = "failed"]
    /\ UNCHANGED <<domain, rows, columnVars, workVars, lifeVars, outVars, faults>>

CommitTx(e) ==
    /\ tx[e] \in {"flushed", "unaudited"}
    /\ tx' = [tx EXCEPT ![e] = "committed"]
    /\ domain' = domain \cup {e}
    /\ rows' = IF tx[e] = "flushed" THEN rows \cup {e} ELSE rows
    /\ UNCHANGED <<columnVars, workVars, lifeVars, outVars, faults>>

\* The handler raised, an exception propagated, or the caller gave up.
RollbackTx(e) ==
    /\ tx[e] \in {"open", "flushed", "unaudited", "failed"}
    /\ tx' = [tx EXCEPT ![e] = "rolledback"]
    /\ UNCHANGED <<domain, rows, columnVars, workVars, lifeVars, outVars, faults>>

Produce(e) == \/ DomainWrite(e) \/ EmitRow(e) \/ EmitRaises(e)
              \/ FlushFails(e) \/ CommitTx(e) \/ RollbackTx(e)

(***************************************************************************)
(* The audit endpoint.                                                     *)
(***************************************************************************)

\* BSVibe-Auth ingests the batch and answers 2xx; or something fails and the
\* AuditClient raises AuditDeliveryError, retryable (5xx, timeout, network) or
\* not (4xx), whatever part of the batch was ingested before that.
AuthAnswers(w) ==
    /\ phase[w] = "sending" /\ reply[w] = "none"
    /\ \/ /\ accepted' = accepted \cup batch[w]
          /\ reply' = [reply EXCEPT ![w] = "accepted"]
       \/ /\ \E S \in SUBSET batch[w] : accepted' = accepted \cup S
          /\ reply' = [reply EXCEPT ![w] = "retryable"]
       \/ /\ UNCHANGED accepted
          /\ reply' = [reply EXCEPT ![w] = "permanent"]
    /\ UNCHANGED <<txVars, columnVars, phase, batch, seen, timed, lifeVars, alerted, faults>>

(***************************************************************************)
(* Relays.                                                                 *)
(***************************************************************************)

\* Mutant of Poll: the relay keeps the counts of an earlier load.
PollKeepsSession(r) ==
    /\ running[r] /\ client[r] # "closed"
    /\ phase[r] = "idle"
    /\ Undelivered # {}
    /\ batch' = [batch EXCEPT ![r] = FirstById(Undelivered, BatchSize)]
    /\ phase' = [phase EXCEPT ![r] = "sending"]
    /\ client' = [client EXCEPT ![r] = "open"]
    /\ UNCHANGED <<txVars, columnVars, reply, seen, timed, running, outVars, faults>>

\* run_once: load a batch and put it on the wire.  Nothing is locked.  On a
\* client that stop() has closed the send raises, _run_loop logs it, and no
\* variable changes: no step of this model.
Poll(r) ==
    /\ running[r] /\ client[r] # "closed"
    /\ phase[r] = "idle"
    /\ Undelivered # {}
    /\ batch' = [batch EXCEPT ![r] = FirstById(Undelivered, BatchSize)]
    /\ seen' = [seen EXCEPT ![r] =
                  [e \in Events |-> IF e \in FirstById(Undelivered, BatchSize)
                                    THEN retry[e] ELSE 0]]
    /\ phase' = [phase EXCEPT ![r] = "sending"]
    /\ client' = [client EXCEPT ![r] = "open"]
    /\ UNCHANGED <<txVars, columnVars, reply, timed, running, outVars, faults>>

\* Mutant of MarkDelivered: a retryable answer is taken for success.
MarkedUnlessPermanent(r) ==
    /\ phase[r] = "sending" /\ reply[r] \in {"accepted", "retryable"}
    /\ delivered' = delivered \cup batch[r]
    /\ phase' = [phase EXCEPT ![r] = "alerting"]
    /\ UNCHANGED <<txVars, dead, retry, wait, batch, reply, seen, timed, lifeVars, outVars, faults>>

\* Mutant of MarkDelivered: the alert rules run before the commit, which may fail.
AlertedFirst(r) ==
    /\ phase[r] = "sending" /\ reply[r] = "accepted"
    /\ alerted' = alerted \cup batch[r]
    /\ phase' = [phase EXCEPT ![r] = "alerting"]
    /\ UNCHANGED <<txVars, columnVars, batch, reply, seen, timed, lifeVars, accepted, faults>>

\* mark_delivered and commit: an UPDATE by id, whatever became of the rows.
MarkDelivered(r) ==
    /\ phase[r] = "sending" /\ reply[r] = "accepted"
    /\ delivered' = delivered \cup batch[r]
    /\ phase' = [phase EXCEPT ![r] = "alerting"]
    /\ UNCHANGED <<txVars, dead, retry, wait, batch, reply, seen, timed, lifeVars, outVars, faults>>

\* Mutant of RecordFailure: > for >=.
OneRetryTooMany(r) ==
    /\ phase[r] = "sending" /\ reply[r] = "retryable"
    /\ retry' = [e \in Events |-> IF e \in batch[r] THEN seen[r][e] + 1 ELSE retry[e]]
    /\ wait' = [e \in Events |-> IF e \in batch[r] THEN Backoff(seen[r][e] + 1) ELSE wait[e]]
    /\ dead' = dead \cup {e \in batch[r] : seen[r][e] + 1 > MaxRetries}
    /\ Release(r, "idle") /\ Forget(r)
    /\ UNCHANGED <<txVars, delivered, timed, lifeVars, outVars, faults>>

\* record_failure on each row of the batch, then commit.  session.get finds the
\* row in the identity map, so the increment is applied to the loaded count;
\* dead_letter is written only when it is set.
RecordFailure(r) ==
    /\ phase[r] = "sending" /\ reply[r] = "retryable"
    /\ retry' = [e \in Events |-> IF e \in batch[r] THEN seen[r][e] + 1 ELSE retry[e]]
    /\ wait' = [e \in Events |-> IF e \in batch[r] THEN Backoff(seen[r][e] + 1) ELSE wait[e]]
    /\ dead' = dead \cup {e \in batch[r] : seen[r][e] + 1 >= MaxRetries}
    /\ Release(r, "idle") /\ Forget(r)
    /\ UNCHANGED <<txVars, delivered, timed, lifeVars, outVars, faults>>

\* mark_dead_letter on each row of the batch, then commit.
MarkDeadLetter(r) ==
    /\ phase[r] = "sending" /\ reply[r] = "permanent"
    /\ retry' = [e \in Events |-> IF e \in batch[r] THEN seen[r][e] + 1 ELSE retry[e]]
    /\ dead' = dead \cup batch[r]
    /\ Release(r, "idle") /\ Forget(r)
    /\ UNCHANGED <<txVars, delivered, wait, timed, lifeVars, outVars, faults>>

\* The rule engine sees the batch in id order; an exception ends it part way
\* and is logged.
EvaluateAlerts(r) ==
    /\ phase[r] = "alerting"
    /\ \E n \in 0..Cardinality(batch[r]) : alerted' = alerted \cup FirstById(batch[r], n)
    /\ Release(r, "idle") /\ Forget(r)
    /\ UNCHANGED <<txVars, columnVars, timed, lifeVars, accepted, faults>>

Start(r) ==
    /\ ~running[r]
    /\ running' = [running EXCEPT ![r] = TRUE]
    /\ UNCHANGED <<txVars, columnVars, workVars, client, outVars, faults>>

\* stop(): cancel the loop wherever it waits, then close the client if built.
Stop(r) ==
    /\ faults < MaxFaults
    /\ running[r]
    /\ running' = [running EXCEPT ![r] = FALSE]
    /\ client' = [client EXCEPT ![r] = IF @ = "unbuilt" THEN @ ELSE "closed"]
    /\ Release(r, "idle") /\ Forget(r)
    /\ faults' = faults + 1
    /\ UNCHANGED <<txVars, columnVars, timed, outVars>>

\* The process dies; the next one builds its relay afresh.
Crash(r) ==
    /\ faults < MaxFaults
    /\ running' = [running EXCEPT ![r] = FALSE]
    /\ client' = [client EXCEPT ![r] = "unbuilt"]
    /\ Release(r, "idle") /\ Forget(r)
    /\ faults' = faults + 1
    /\ UNCHANGED <<txVars, columnVars, timed, outVars>>

\* The database fails under the open session: run_once raises, the transaction
\* is rolled back, _run_loop logs it and survives.
IterationFails(r) ==
    /\ faults < MaxFaults
    /\ phase[r] = "sending" /\ reply[r] # "none"
    /\ Release(r, "idle") /\ Forget(r)
    /\ faults' = faults + 1
    /\ UNCHANGED <<txVars, columnVars, timed, lifeVars, outVars>>

Relay(r) == \/ Poll(r) \/ MarkDelivered(r) \/ RecordFailure(r) \/ MarkDeadLetter(r)
            \/ EvaluateAlerts(r) \/ Start(r)
            \/ Stop(r) \/ Crash(r) \/ IterationFails(r)

(***************************************************************************)
(* Operators: _retry_dead_letter, once per invocation.                     *)
(***************************************************************************)

SelectDead(o) ==
    /\ phase[o] = "idle"
    /\ DeadLetters # {}
    /\ batch' = [batch EXCEPT ![o] = FirstById(DeadLetters, BatchSize)]
    /\ timed' = [timed EXCEPT ![o] = {e \in FirstById(DeadLetters, BatchSize) : wait[e] # Null}]
    /\ phase' = [phase EXCEPT ![o] = "selected"]
    /\ UNCHANGED <<txVars, columnVars, reply, seen, lifeVars, outVars, faults>>

\* Reset the rows and commit.  The UPDATE holds the columns that differ from
\* what was loaded: always dead_letter and retry_count (a dead row has a
\* failure behind it), next_attempt_at only if it was loaded non-NULL.
Requeue(o) ==
    /\ phase[o] = "selected"
    /\ dead' = dead \ batch[o]
    /\ retry' = [e \in Events |-> IF e \in batch[o] THEN 0 ELSE retry[e]]
    /\ wait' = [e \in Events |-> IF e \in timed[o] THEN Null ELSE wait[e]]
    /\ phase' = [phase EXCEPT ![o] = "sending"]
    /\ UNCHANGED <<txVars, delivered, batch, reply, seen, timed, lifeVars, outVars, faults>>

\* client.send returned: mark_delivered and commit.
RetryDelivered(o) ==
    /\ phase[o] = "sending" /\ reply[o] = "accepted"
    /\ delivered' = delivered \cup batch[o]
    /\ Release(o, "done") /\ timed' = [timed EXCEPT ![o] = {}]
    /\ UNCHANGED <<txVars, dead, retry, wait, seen, lifeVars, outVars, faults>>

\* The command dies: killed anywhere, or by the AuditDeliveryError it does not
\* catch.  What it committed stays.
RetryDies(o) ==
    /\ phase[o] \in {"selected", "sending"}
    /\ Release(o, "done") /\ timed' = [timed EXCEPT ![o] = {}]
    /\ UNCHANGED <<txVars, columnVars, seen, lifeVars, outVars, faults>>

Operate(o) == SelectDead(o) \/ Requeue(o) \/ RetryDelivered(o) \/ RetryDies(o)

(***************************************************************************)
(* One second passes.                                                      *)
(***************************************************************************)
Tick ==
    /\ \E e \in Events : wait[e] > 0
    /\ wait' = [e \in Events |-> IF wait[e] > 0 THEN wait[e] - 1 ELSE wait[e]]
    /\ UNCHANGED <<txVars, delivered, dead, retry, workVars, lifeVars, outVars, faults>>

Next ==
    \/ \E e \in Events : Produce(e)
    \/ \E w \in Workers : AuthAnswers(w)
    \/ \E r \in Relays : Relay(r)
    \/ \E o \in Operators : Operate(o)
    \/ Tick

Spec == Init /\ [][Next]_vars

\* The relay's loop polls for ever and every await in it ends: requests have a
\* timeout, a commit returns or raises.  Starting a relay, and anything an
\* operator or a producer does, is not owed to anybody.
Fairness ==
    /\ \A r \in Relays : /\ WF_vars(Poll(r))
                         /\ WF_vars(MarkDelivered(r) \/ RecordFailure(r) \/ MarkDeadLetter(r))
                         /\ WF_vars(EvaluateAlerts(r))
                         /\ WF_vars(AuthAnswers(r))
    /\ WF_vars(Tick)

FairSpec == Spec /\ Fairness

-----------------------------------------------------------------------------
(***************************************************************************)
(* Properties.                                                             *)
(***************************************************************************)

\* Every variable keeps to its kind of value, backoffs to the cap of store.py.
TypeOK ==
    /\ tx \in [Events -> {"none", "open", "flushed", "unaudited", "failed",
                          "committed", "rolledback"}]
    /\ domain \subseteq Events /\ rows \subseteq Events
    /\ delivered \subseteq Events /\ dead \subseteq Events
    /\ retry \in [Events -> Nat]
    /\ wait \in [Events -> Null..BackoffCap]
    /\ phase \in [Workers -> {"idle", "selected", "sending", "alerting", "done"}]
    /\ batch \in [Workers -> SUBSET Events]
    /\ reply \in [Workers -> {"none", "accepted", "retryable", "permanent"}]
    /\ seen \in [Relays -> [Events -> Nat]]
    /\ timed \in [Operators -> SUBSET Events]
    /\ running \in [Relays -> BOOLEAN]
    /\ client \in [Relays -> {"unbuilt", "open", "closed"}]
    /\ accepted \subseteq Events /\ alerted \subseteq Events
    /\ faults \in Nat

\* The outbox pattern, seen from BSVibe-Auth: it never holds an event whose
\* domain write was rolled back or is still open, because emit() leaves the
\* commit to the caller and relays read committed rows.
CommittedBeforeShipped == accepted \subseteq rows /\ rows \subseteq domain

\* The outbox pattern, seen from the service: with safe=False no domain write is
\* committed without its audit row, however the emit path fails.
NoUnauditedWrite == Safe \/ domain \subseteq rows

\* delivered_at is never set on a row BSVibe-Auth has not ingested: not by the
\* other relay, not by an operator, not after a crash between answer and commit.
ShippedBeforeDelivered == delivered \subseteq accepted

\* Alert rules only ever see events whose delivery is committed: run_once
\* evaluates them after the commit.
DeliveredBeforeAlerted == alerted \subseteq delivered

\* A row that relays may still pick up has failed fewer than max_retries times
\* by its own count, whatever stale counts two relays and an operator wrote
\* over each other; and a dead row has a failure behind it.
BudgetRespected ==
    \A e \in Events : /\ e \notin dead => retry[e] < MaxRetries
                      /\ e \in dead => retry[e] > 0

\* What a worker remembers is still true when it acts on it: it holds committed
\* rows, an answer it has was given to the batch it holds, the alert rules run on
\* delivered rows, and a relay's stale counts are below the budget.  This is the
\* part of the inductive invariant that is about the sessions.
SessionsConsistent ==
    /\ \A w \in Workers :
          /\ batch[w] \subseteq rows
          /\ phase[w] # "sending" /\ phase[w] # "alerting" => reply[w] = "none"
          /\ reply[w] = "accepted" => batch[w] \subseteq accepted
          /\ phase[w] = "alerting" => batch[w] \subseteq delivered
    /\ \A r \in Relays : \A e \in batch[r] : seen[r][e] < MaxRetries

\* With one relay and no operator a row ends one way: delivered or dead, not both.
SettledOneWay == delivered \cap dead = {}

\* With one relay a row is never on the wire while its backoff runs.
BackoffRespected ==
    \A r \in Relays : phase[r] = "sending" => \A e \in batch[r] : wait[e] <= 0

\* schema.py:12: "retry_count - increments on every relay failure".
EveryFailureCounts ==
    [][\A r \in Relays :
          RecordFailure(r) => \A e \in batch[r] : retry'[e] = retry[e] + 1]_vars

\* decorators.py, safe=True: audit must degrade to "log + carry on rather than
\* 500", so no failure of the emit path dooms the caller's transaction.
SafeCarriesOn == Safe => \A e \in Events : tx[e] # "failed"

\* A committed row does not stay in the outbox for ever: if from some time on
\* one relay runs on a usable client, the row is delivered or dead-lettered.
EventuallySettled ==
    (\E r \in Relays : <>[](running[r] /\ client[r] # "closed"))
        => \A e \in Events : (e \in rows) ~> (e \in delivered \cup dead)

\* The outbox implements at-least-once delivery of committed events.
Delivery == INSTANCE AuditDelivery WITH emitted <- rows
ImplementsDelivery == Delivery!Spec
=============================================================================
