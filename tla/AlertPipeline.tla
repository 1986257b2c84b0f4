---------------------------- MODULE AlertPipeline ----------------------------
(***************************************************************************)
(* From a delivered audit event to an alert: bsvibe_audit.alerts and       *)
(* bsvibe_alerts.  A relay that has committed a batch hands it to its      *)
(* engine (AuditOutbox!EvaluateAlerts).  The hardcoded engine runs every   *)
(* rule on every event; a rule with a threshold keeps the times of its     *)
(* matches in a sliding window per key.  An alert goes to the channels its *)
(* severity is routed to, in parallel.  The central engine posts each      *)
(* event to BSVibe-Auth instead, which holds the rules.                    *)
(*                                                                         *)
(* The windows are stamped with the wall clock, which can step; the        *)
(* relays of one process share the rules, and with them the windows.       *)
(***************************************************************************)
EXTENDS Integers, Sequences, SequencesExt, FiniteSets, FiniteSetsExt

CONSTANTS
    Rules,      \* the engine's rules, a sequence of members of Rule
    AuditEvents,\* audit events as the rules see them: [type, tenant]
    EngineRelays, \* relays of one process with the hardcoded engine
    CentralRelays, \* relays with the central engine
    Table,      \* AlertRouter's table: the channels of each severity in it
    Credentials,\* the settings that are present: "telegram", "slack"
    NoTenant,   \* the key of a rule without threshold_key
    MaxSkew,    \* bound: how far the wall clock is from true time
    MaxBatch,   \* bound: events in a batch
    MaxEvents,  \* bound: events handed to engines
    MaxTime     \* bound: seconds that pass

Severities == {"info", "warning", "critical"}

\* An event type or a prefix of one is a sequence of its dotted parts.  A count
\* below 1 acts as 1, a window below 0 as 0.
Rule == [pattern : Seq(STRING), wildcard : BOOLEAN, severity : Severities,
         count : Nat \ {0}, window : Nat, keyed : BOOLEAN]

\* The presets, in the order in which the engine runs them.
DefaultRules ==
    LET rule(pattern, severity, count, window) ==
            [pattern |-> pattern, wildcard |-> FALSE, severity |-> severity,
             count |-> count, window |-> window, keyed |-> window > 0]
    IN << rule(<<"auth", "session", "failed">>, "critical", 5, 60),
          rule(<<"supervisor", "budget", "exceeded">>, "warning", 1, 0),
          rule(<<"gateway", "rate_limit", "violated">>, "warning", 10, 300),
          rule(<<"supervisor", "anomaly", "detected">>, "critical", 1, 0),
          rule(<<"nexus", "run", "blocked">>, "warning", 3, 600) >>

DefaultTable == [info |-> {"structlog"}, warning |-> {"structlog", "slack"},
                 critical |-> {"structlog", "slack", "telegram"}]

ASSUME RulesAssumption == Rules \in Seq(Rule) /\ Rules # <<>>
ASSUME BoundsAssumption == /\ MaxSkew \in Nat /\ MaxBatch \in Nat \ {0} /\ MaxEvents \in Nat
                           /\ MaxTime \in Nat
\* A relay has one engine.
ASSUME RelaysAssumption ==
    IsFiniteSet(EngineRelays) /\ EngineRelays \cap CentralRelays = {}
ASSUME TableAssumption == DOMAIN Table \subseteq Severities

VARIABLES
    time,     \* true time
    skew,     \* what the wall clock is ahead
    handed,   \* how many events a relay's engine was handed so far
    stopped,  \* relays stopped in the middle of evaluate: their client is closed
    due,      \* the events of a relay's evaluate call that are not done
    next,     \* the rule that runs next on the first of them
    windows,  \* a rule's stamps per key
    pending,  \* channels to which a relay's alert is being sent
    inFlight, \* central relays whose POST is out
    posted,   \* POSTs a central relay has sent
    born,     \* history: the true times of the matches per rule and tenant it is for
    fired,    \* history: how often a rule fired for them
    awaited,  \* history: the matches there were for them in what was handed over
    lost,     \* history: those of them that were left when a relay was stopped
    routed, sent, logged, cut  \* history: what became of the alerts per channel

clocks == <<time, skew>>
tally == <<routed, sent, logged, cut>>
matched == <<windows, born, fired>>
account == <<awaited, lost>>
central == <<inFlight, posted>>
alertVars == <<clocks, handed, stopped, due, next, matched, pending, central, account, tally>>

Tasks == EngineRelays \cup CentralRelays
Names == {"structlog", "slack", "telegram"} \cup UNION {Table[s] : s \in DOMAIN Table}
Keys == {NoTenant} \cup {e.tenant : e \in AuditEvents}
Slots == (DOMAIN Rules) \X Keys

(***************************************************************************)
(* The rules                                                               *)
(***************************************************************************)
\* "auth.*" is a prefix of whole parts; everything else must be equal.
Matches(rule, e) ==
    \/ rule.pattern = e.type
    \/ rule.wildcard /\ IsPrefix(rule.pattern, e.type)

Windowed(rule) == rule.count > 1 \/ rule.window > 0

\* Mutant of KeyOf: all tenants share a window.
KeyOfAll(rule, e) == NoTenant

KeyOf(rule, e) == IF rule.keyed THEN e.tenant ELSE NoTenant

\* Mutants of Slid: nothing is evicted; the window is cut in half.
SlidNever(rule, stamps, now) == Append(stamps, now)
SlidHalf(rule, stamps, now) ==
    SelectSeq(Append(stamps, now), LAMBDA s : s >= now - (rule.window \div 2))

\* The stamps after one at now is pushed and the oldest are popped, as long as
\* the first of them lies outside the window.
Slid(rule, stamps, now) ==
    LET pushed == Append(stamps, now)
        inside == {i \in DOMAIN pushed : pushed[i] >= now - rule.window}
    IN IF rule.window > 0 THEN SubSeq(pushed, Min(inside), Len(pushed)) ELSE pushed

\* A rule counts the matches of a tenant, or of all of them.
CaseOf(i, e) == <<i, IF Rules[i].keyed THEN e.tenant ELSE NoTenant>>

\* The places in a batch, counted from its end, of what rule and tenant s await.
Awaits(s, batch) ==
    {k \in 1..Len(batch) : LET e == batch[Len(batch) + 1 - k]
                           IN  Matches(Rules[s[1]], e) /\ CaseOf(s[1], e) = s}

\* Those that the rule has not run on yet.
Unrun(t, s) == {k \in Awaits(s, due[t]) : k = Len(due[t]) => next[t] <= s[1]}

(***************************************************************************)
(* Routes                                                                  *)
(***************************************************************************)
\* from_settings: structlog always, the others with their credentials.
Registered == {"structlog"} \cup Credentials

\* AlertRouter.channels_for.
ChannelsFor(severity) ==
    IF severity \in DOMAIN Table THEN Table[severity] ELSE {"structlog"}

AlertsInit ==
    /\ time = 0 /\ skew = 0 /\ stopped = {}
    /\ handed = [t \in Tasks |-> 0]
    /\ due = [t \in Tasks |-> <<>>]
    /\ next = [t \in EngineRelays |-> 1]
    /\ windows = [s \in Slots |-> <<>>]
    /\ pending = [t \in EngineRelays |-> {}]
    /\ inFlight = {} /\ posted = [t \in CentralRelays |-> 0]
    /\ born = [s \in Slots |-> <<>>] /\ fired = [s \in Slots |-> 0]
    /\ awaited = fired /\ lost = fired
    /\ routed = [c \in Names |-> 0] /\ sent = routed /\ logged = routed /\ cut = routed
(***************************************************************************)
(* AlertRuleEngine.evaluate and AlertClient.publish                        *)
(***************************************************************************)
Tallied(counts, channels) == [c \in Names |-> counts[c] + IF c \in channels THEN 1 ELSE 0]

\* The relay commits a batch and calls evaluate; the engine is built once, so
\* its relay has one call under way at most.
Hand(t) ==
    /\ due[t] = <<>> /\ t \notin stopped
    /\ t \in EngineRelays => pending[t] = {}
    /\ \E n \in 1..MaxBatch :
        /\ MapThenSumSet(LAMBDA u : handed[u], Tasks) + n <= MaxEvents
        /\ due' \in {[due EXCEPT ![t] = evs] : evs \in [1..n -> AuditEvents]}
        /\ handed' = [handed EXCEPT ![t] = @ + n]
        /\ awaited' = IF t \in EngineRelays
                      THEN [s \in Slots |-> awaited[s] + Cardinality(Awaits(s, due'[t]))]
                      ELSE awaited
    /\ UNCHANGED <<clocks, stopped, next, matched, pending, central, lost, tally>>

\* Mutants of Advance: one rule too many; the first rule ends the event.
AdvanceBeyond(t) ==
    IF next[t] <= Len(Rules)
    THEN next' = [next EXCEPT ![t] = @ + 1] /\ UNCHANGED due
    ELSE next' = [next EXCEPT ![t] = 1] /\ due' = [due EXCEPT ![t] = Tail(@)]
AdvanceEvent(t) == due' = [due EXCEPT ![t] = Tail(@)] /\ UNCHANGED next

\* The rule is done with the event: on to the next rule, or the next event.
Advance(t) ==
    IF next[t] < Len(Rules)
    THEN next' = [next EXCEPT ![t] = @ + 1] /\ UNCHANGED due
    ELSE next' = [next EXCEPT ![t] = 1] /\ due' = [due EXCEPT ![t] = Tail(@)]

\* publish: each channel of the route gets a task.
Publish(t, severity) ==
    LET names == ChannelsFor(severity) IN
    /\ pending' = [pending EXCEPT ![t] = names]
    /\ routed' = Tallied(routed, names)
    /\ UNCHANGED <<sent, logged, cut>>

Idle(t) == due[t] # <<>> /\ pending[t] = {}

SkipRule(t) ==
    /\ Idle(t)
    /\ ~Matches(Rules[next[t]], Head(due[t]))
    /\ Advance(t)
    /\ UNCHANGED <<clocks, handed, stopped, matched, pending, central, account, tally>>

\* should_fire and, when it says so, the alert.  No rule awaits anything
\* before it fires, so the steps of two relays up to there commute.
RunRule(t) ==
    LET rule == Rules[next[t]]
        slot == <<next[t], KeyOf(rule, Head(due[t]))>>
        case == CaseOf(next[t], Head(due[t]))
        stamps == Slid(rule, windows[slot], time + skew)
    IN /\ Idle(t)
       /\ Matches(rule, Head(due[t]))
       /\ Advance(t)
       /\ windows' = IF Windowed(rule) THEN [windows EXCEPT ![slot] = stamps] ELSE windows
       /\ born' = [born EXCEPT ![case] = Append(@, time)]
       /\ IF Windowed(rule) => Len(stamps) >= rule.count
          THEN /\ fired' = [fired EXCEPT ![case] = @ + 1]
               /\ Publish(t, rule.severity)
          ELSE UNCHANGED <<fired, pending, tally>>
       /\ UNCHANGED <<clocks, handed, stopped, central, account>>

\* A task whose channel is not registered logs that it is missing.
Missing(t, c) ==
    /\ c \in pending[t] \ Registered
    /\ pending' = [pending EXCEPT ![t] = @ \ {c}]
    /\ logged' = Tallied(logged, {c})
    /\ UNCHANGED <<clocks, handed, stopped, due, next, matched, central, account, routed, sent, cut>>

Send(t, c) ==
    /\ c \in pending[t] \cap Registered
    /\ pending' = [pending EXCEPT ![t] = @ \ {c}]
    /\ sent' = Tallied(sent, {c})
    /\ UNCHANGED <<clocks, handed, stopped, due, next, matched, central, account, routed, logged, cut>>

\* Mutants of SendFails: the failure ends the gather, and with it publish; it
\* leaves evaluate.
SendFailsAll(t, c) ==
    /\ c \in (pending[t] \cap Registered) \ {"structlog"}
    /\ pending' = [pending EXCEPT ![t] = {}]
    /\ logged' = Tallied(logged, {c})
    /\ UNCHANGED <<clocks, handed, stopped, due, next, matched, central, account, routed, sent, cut>>

SendFailsAborts(t, c) ==
    /\ c \in (pending[t] \cap Registered) \ {"structlog"}
    /\ pending' = [pending EXCEPT ![t] = {}]
    /\ logged' = Tallied(logged, pending[t])
    /\ due' = [due EXCEPT ![t] = <<>>] /\ next' = [next EXCEPT ![t] = 1]
    /\ UNCHANGED <<clocks, handed, stopped, matched, central, account, routed, sent, cut>>

\* A channel raises: logged, its peers go on.  The log itself does not fail.
SendFails(t, c) ==
    /\ c \in (pending[t] \cap Registered) \ {"structlog"}
    /\ pending' = [pending EXCEPT ![t] = @ \ {c}]
    /\ logged' = Tallied(logged, {c})
    /\ UNCHANGED <<clocks, handed, stopped, due, next, matched, central, account, routed, sent, cut>>

\* stop() cancels the relay's task at an await of evaluate: what was being
\* sent is cut off, and nobody evaluates the rest of the batch.
StopRelay(t) ==
    /\ pending[t] # {}
    /\ stopped' = stopped \cup {t}
    /\ pending' = [pending EXCEPT ![t] = {}]
    /\ cut' = Tallied(cut, pending[t])
    /\ lost' = [s \in Slots |-> lost[s] + Cardinality(Unrun(t, s))]
    /\ due' = [due EXCEPT ![t] = <<>>]
    /\ next' = [next EXCEPT ![t] = 1]
    /\ UNCHANGED <<clocks, handed, matched, central, awaited, routed, sent, logged>>

(***************************************************************************)
(* CentralAlertRuleEngine.evaluate, CentralDispatchClient.dispatch         *)
(***************************************************************************)
\* One POST per event, with retries=0.
Dispatch(t) ==
    /\ due[t] # <<>> /\ t \notin inFlight
    /\ inFlight' = inFlight \cup {t}
    /\ posted' = [posted EXCEPT ![t] = @ + 1]
    /\ UNCHANGED <<clocks, handed, stopped, due, next, matched, pending, account, tally>>

\* Mutants of Dispatched: a retryable error posts the event again; an answer that
\* no result can be made of leaves evaluate.
DispatchedRetry(t) ==
    /\ t \in inFlight
    /\ inFlight' = inFlight \ {t}
    /\ \/ due' = [due EXCEPT ![t] = Tail(@)]
       \/ UNCHANGED due
    /\ UNCHANGED <<clocks, handed, stopped, next, matched, pending, posted, account, tally>>

DispatchedAborts(t) ==
    /\ t \in inFlight
    /\ inFlight' = inFlight \ {t}
    /\ due' \in {[due EXCEPT ![t] = Tail(@)], [due EXCEPT ![t] = <<>>]}
    /\ UNCHANGED <<clocks, handed, stopped, next, matched, pending, posted, account, tally>>

\* The result counts its matched rules; any error is logged.  Either way the
\* next event is due, whether the server has taken this one or not.
Dispatched(t) ==
    /\ t \in inFlight
    /\ inFlight' = inFlight \ {t}
    /\ due' = [due EXCEPT ![t] = Tail(@)]
    /\ UNCHANGED <<clocks, handed, stopped, next, matched, pending, posted, account, tally>>

StopCentral(t) ==
    /\ t \in inFlight
    /\ stopped' = stopped \cup {t}
    /\ inFlight' = inFlight \ {t}
    /\ due' = [due EXCEPT ![t] = <<>>]
    /\ UNCHANGED <<clocks, handed, next, matched, pending, posted, account, tally>>

Elapse ==
    /\ time < MaxTime
    /\ time' = time + 1
    /\ UNCHANGED <<skew, handed, stopped, due, next, matched, pending, central, account, tally>>

\* NTP sets the wall clock, possibly back.
AdjustClock ==
    /\ skew' \in (-MaxSkew)..MaxSkew /\ skew' # skew
    /\ UNCHANGED <<time, handed, stopped, due, next, matched, pending, central, account, tally>>

AlertsNext ==
    \/ Elapse \/ AdjustClock
    \/ \E t \in Tasks : Hand(t)
    \/ \E t \in EngineRelays : SkipRule(t) \/ RunRule(t) \/ StopRelay(t)
    \/ \E t \in EngineRelays, c \in Names : Missing(t, c) \/ Send(t, c) \/ SendFails(t, c)
    \/ \E t \in CentralRelays : Dispatch(t) \/ Dispatched(t) \/ StopCentral(t)

AlertsSpec == AlertsInit /\ [][AlertsNext]_alertVars

(***************************************************************************)
(* Properties                                                              *)
(***************************************************************************)
\* The variables have their types.
AlertsTypeOK ==
    /\ time \in 0..MaxTime /\ skew \in (-MaxSkew)..MaxSkew
    /\ handed \in [Tasks -> Nat] /\ stopped \subseteq Tasks
    /\ due \in [Tasks -> Seq(AuditEvents)]
    /\ next \in [EngineRelays -> DOMAIN Rules]
    /\ windows \in [Slots -> Seq(Int)]
    /\ pending \in [EngineRelays -> SUBSET Names]
    /\ inFlight \subseteq CentralRelays /\ posted \in [CentralRelays -> Nat]
    /\ born \in [Slots -> Seq(Nat)] /\ fired \in [Slots -> Nat]
    /\ {awaited, lost} \subseteq [Slots -> Nat]
    /\ {routed, sent, logged, cut} \subseteq [Names -> Nat]

\* The last n of a slot's matches lie in the last d seconds.
Burst(times, n, d) == Len(times) >= n /\ times[Len(times) - n + 1] >= time - d

\* A rule fires only on its count of matches with one key within its window,
\* give or take what the wall clock can be off at both ends: the window is
\* popped at its old end only, so a stamp from a fast clock shields later ones.
\* And it does fire on every burst that is as much shorter than the window,
\* whatever other relays, keys and clock steps come between.  A rule without a
\* window counts from the start.
FiresOnBursts ==
    [][\A s \in Slots : LET rule == Rules[s[1]] IN
         /\ fired'[s] > fired[s] /\ rule.window > 0
            => Burst(born'[s], rule.count, rule.window + 2 * MaxSkew)
         /\ /\ born'[s] # born[s]
            /\ \/ rule.window = 0 /\ Len(born'[s]) >= rule.count
               \/ Burst(born'[s], rule.count, rule.window - 2 * MaxSkew)
            => fired'[s] = fired[s] + 1]_alertVars

\* Of every alert each channel on its route accounts for itself: it was sent,
\* logged as failed or missing, is still under way or was cut off by a stop.  No
\* channel loses an alert because of another.
NothingSwallowed ==
    \A c \in Names :
        routed[c] = sent[c] + logged[c] + cut[c] + Cardinality({t \in EngineRelays : c \in pending[t]})

\* Every rule runs once on every event it is for, of all the events that are handed
\* to the engines of the process: no failing channel, no other rule that fires and
\* no other relay that counts in the same windows costs it one.  Only a stop does,
\* and no more than what was still to run of the stopped relay's batch.
NoMatchMissed ==
    \A s \in Slots :
        awaited[s] = Len(born[s]) + lost[s]
                       + Cardinality(UNION {{t} \X Unrun(t, s) : t \in EngineRelays})

\* The auth server, which counts events itself, is posted each of them exactly once,
\* whatever it answers: what was posted and what is still to be is what was handed
\* over, or, after a stop, no more than that.
PostedOnce ==
    \A t \in CentralRelays :
        LET posts == posted[t] + Len(due[t])
            events == handed[t] + IF t \in inFlight THEN 1 ELSE 0
        IN  posts <= events /\ (t \notin stopped => posts = events)
=============================================================================
