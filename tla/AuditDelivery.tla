--------------------------- MODULE AuditDelivery ---------------------------
(***************************************************************************)
(* What the audit pipeline promises its users, whatever the relays, the    *)
(* operators and the crashes do: an event reaches BSVibe-Auth only after   *)
(* the transaction that emitted it has committed, at least once and        *)
(* perhaps several times, and is marked delivered only after BSVibe-Auth   *)
(* has it.                                                                 *)
(***************************************************************************)
CONSTANT Events

VARIABLES
    emitted,    \* events whose transaction is committed
    accepted,   \* events BSVibe-Auth has ingested
    delivered   \* events the outbox shows as delivered

vars == <<emitted, accepted, delivered>>

Init == emitted = {} /\ accepted = {} /\ delivered = {}

\* The transaction of an event commits.
Record(e) ==
    /\ e \notin emitted
    /\ emitted' = emitted \cup {e}
    /\ UNCHANGED <<accepted, delivered>>

\* BSVibe-Auth ingests events, some of them perhaps for the second time.
Ingest(S) ==
    /\ S \subseteq emitted
    /\ accepted' = accepted \cup S
    /\ UNCHANGED <<emitted, delivered>>

\* The outbox learns that events were ingested.
Acknowledge(S) ==
    /\ S \subseteq accepted
    /\ delivered' = delivered \cup S
    /\ UNCHANGED <<emitted, accepted>>

Next == \/ \E e \in Events : Record(e)
        \/ \E S \in SUBSET Events : Ingest(S) \/ Acknowledge(S)

Spec == Init /\ [][Next]_vars
=============================================================================
