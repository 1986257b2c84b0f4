------------------------------ MODULE LlmClient ------------------------------
(***************************************************************************)
(* bsvibe-llm: LlmClient.complete with its chain of models (FallbackChain),*)
(* the attempts at one model (RetryPolicy), the probe that tells whether   *)
(* an Ollama model thinks, with its cache, and the strategy that follows   *)
(* from it.  Tasks of one process call concurrently; they share the        *)
(* probe's cache and a CircuitBreaker.  The breaker is the package's, but  *)
(* the products wire it: they ask is_open before a call and record how the *)
(* call ended.  Vendors, the gateway and Ollama are the environment.       *)
(***************************************************************************)
EXTENDS Integers, Sequences

CONSTANTS
    Tasks,
    Models,
    Family,      \* Family[m]: "anthropic", "openai", "ollama" or "other"
    Hinted,      \* the models whose name has one of _REASONING_FAMILY_HINTS
    Thinking,    \* the models whose /api/show tells that they think
    Bases,       \* API base URLs
    Local,       \* the bases that look self-hosted: localhost, :8080, /v1
    DefaultBase, \* _DEFAULT_OLLAMA_BASE, used when no base is given
    Gateway,     \* settings: bsgateway_url if route_default is "bsgateway", else None
    Primary,     \* settings.model, None when empty
    Fallbacks,   \* settings.fallback_models
    Calls,       \* what tasks call complete() with
    Errors,      \* what a request can fail with
    Transient,   \* the errors that is_transient knows by class or by name
    None,        \* nothing: no model, no base, no answer, no time
    MaxAttempts, \* retry_max_attempts
    Threshold,   \* CircuitBreaker.failure_threshold
    Recovery,    \* CircuitBreaker.recovery_seconds
    MaxCalls,    \* bound: calls that are made
    MaxTime      \* bound: the clock

ASSUME FamilyAssumption == Family \in [Models -> {"anthropic", "openai", "ollama", "other"}]
ASSUME BaseAssumption ==
    /\ DefaultBase \in Bases /\ Gateway \in Bases \cup {None} /\ Local \subseteq Bases
    /\ Hinted \subseteq Models /\ Thinking \subseteq Models
ASSUME ChainAssumption == Primary \in Models \cup {None} /\ Fallbacks \in Seq(Models)
ASSUME CallsAssumption ==
    Calls \subseteq [model : Models \cup {None}, direct : BOOLEAN, tools : BOOLEAN, suppress_reasoning : BOOLEAN]
ASSUME ErrorAssumption == Transient \subseteq Errors
ASSUME NumberAssumption ==
    /\ MaxAttempts \in Nat \ {0}
    /\ Threshold \in Nat \ {0} /\ Recovery \in Nat /\ MaxCalls \in Nat /\ MaxTime \in Nat
ASSUME NoneAssumption == None \notin Models \cup Bases \cup BOOLEAN /\ None \notin 0..MaxTime

VARIABLES
    now,       \* the breaker's clock
    failures,  \* CircuitBreaker._failures
    opened_at, \* CircuitBreaker._opened_at
    cache,     \* _PROBE_CACHE, None where there is no entry
    calls,     \* how many calls were made
    pc,        \* where a task is; "idle" between calls
    call,      \* what it called complete() with
    at,        \* the position in its chain of models
    attempt,   \* RetryPolicy.call's loop variable
    failed,    \* FallbackChain.call's failures: the models given up
    requests,  \* history: the requests of the call, with the probes out at each
    unshown,   \* history: the keys of which a probe failed
    outcomes   \* history: what was recorded at the breaker, and when

callVars == <<call, at, attempt, failed, requests>>
breaker == <<failures, opened_at, outcomes>>
probes == <<cache, unshown>>
vars == <<now, calls, pc, callVars, breaker, probes>>

Keys == Models \X Bases
Goto(t, place) == pc' = [pc EXCEPT ![t] = place]

(***************************************************************************)
(* The call: the chain, the base                                           *)
(***************************************************************************)
\* The override or the default, then the fallbacks; complete() drops an empty name.
Chain(c) ==
    LET first == IF c.model # None THEN c.model ELSE Primary
    IN IF first = None THEN Fallbacks ELSE <<first>> \o Fallbacks

ApiBase(c) == IF c.direct THEN None ELSE Gateway

ModelOf(t) == Chain(call[t])[at[t]]

\* Mutant of ProbeKey: the cache is by model only.
ProbeKeyModel(t) == <<ModelOf(t), DefaultBase>>

\* The key of the probe's cache.
ProbeKey(t) ==
    <<ModelOf(t), IF ApiBase(call[t]) = None THEN DefaultBase ELSE ApiBase(call[t])>>

(***************************************************************************)
(* The strategy                                                            *)
(***************************************************************************)
Strategies == {"none", "anthropic", "openai", "ollama_bypass", "extra_body"}

decide_strategy(m, base, tools, thinks) ==
    CASE Family[m] \in {"anthropic", "openai"} -> Family[m]
      [] Family[m] = "ollama" -> IF thinks /\ ~tools THEN "ollama_bypass" ELSE "none"
      [] OTHER -> IF base # None /\ base \in Local THEN "extra_body" ELSE "none"

Decided(t, thinks) ==
    IF call[t].suppress_reasoning
    THEN decide_strategy(ModelOf(t), ApiBase(call[t]), call[t].tools, thinks)
    ELSE "none"

(***************************************************************************)
(* RetryPolicy and FallbackChain                                           *)
(***************************************************************************)
is_transient(e) == e \in Transient

HasAttempts(t) == attempt[t] + 1 < MaxAttempts

(***************************************************************************)
(* CircuitBreaker                                                          *)
(***************************************************************************)
is_open == opened_at # None /\ now - opened_at < Recovery

\* Mutant of record_failure: only the failure that opens the breaker is timed.
record_failure_once ==
    /\ failures' = failures + 1
    /\ opened_at' = IF failures' = Threshold THEN now ELSE opened_at

record_failure ==
    /\ failures' = failures + 1
    /\ opened_at' = IF failures' >= Threshold THEN now ELSE opened_at

record_success == failures' = 0 /\ opened_at' = None

(***************************************************************************)
(* The actions                                                             *)
(***************************************************************************)
Init ==
    /\ now = 0 /\ calls = 0
    /\ failures = 0 /\ opened_at = None /\ outcomes = <<>>
    /\ cache = [k \in Keys |-> None] /\ unshown = {}
    /\ pc = [t \in Tasks |-> "idle"]
    /\ call = [t \in Tasks |-> None]
    /\ at = [t \in Tasks |-> 1] /\ attempt = [t \in Tasks |-> 0]
    /\ failed = [t \in Tasks |-> <<>>] /\ requests = failed

\* The places without an await: no other task runs before the one that is there is
\* through.
Running == {"attempt", "ok", "raised", "exhausted"}
LoopFree(t) == \A u \in Tasks \ {t} : pc[u] \notin Running

\* A product asks the breaker and calls complete(), which raises ValueError, and
\* changes nothing, when its chain is empty.
Complete(t, c) ==
    /\ pc[t] = "idle" /\ calls < MaxCalls /\ LoopFree(t)
    /\ ~is_open
    /\ Chain(c) # <<>>
    /\ calls' = calls + 1
    /\ Goto(t, "attempt")
    /\ call' = [call EXCEPT ![t] = c]
    /\ UNCHANGED <<now, at, attempt, failed, requests, breaker, probes>>

\* Nothing of a call outlives it.
Rest(t) ==
    /\ Goto(t, "idle")
    /\ call' = [call EXCEPT ![t] = None]
    /\ at' = [at EXCEPT ![t] = 1]
    /\ attempt' = [attempt EXCEPT ![t] = 0]
    /\ failed' = [failed EXCEPT ![t] = <<>>]
    /\ requests' = [requests EXCEPT ![t] = <<>>]

\* The tasks other than t that are probing key k.
Rivals(t, k) == {u \in Tasks \ {t} : pc[u] = "probe" /\ ProbeKey(u) = k}

\* The request of an attempt goes out: to litellm, or past it to Ollama's /api/chat.
Send(t, thinks) ==
    /\ Goto(t, "sent")
    /\ requests' = [requests EXCEPT ![t] = Append(@,
           [model |-> ModelOf(t), strategy |-> Decided(t, thinks), rivals |-> Rivals(t, ProbeKey(t)) # {}])]
    /\ UNCHANGED <<now, calls, call, at, attempt, failed, breaker>>

Probes(t) == call[t].suppress_reasoning /\ Family[ModelOf(t)] = "ollama"

\* An attempt begins: no await before the probe's, if there is to be one.
BeginProbe(t) ==
    /\ pc[t] = "attempt" /\ Probes(t) /\ cache[ProbeKey(t)] = None
    /\ Goto(t, "probe")
    /\ UNCHANGED <<now, calls, callVars, breaker, probes>>

BeginSend(t) ==
    /\ pc[t] = "attempt"
    /\ Probes(t) => cache[ProbeKey(t)] # None
    /\ Send(t, Probes(t) /\ cache[ProbeKey(t)])
    /\ UNCHANGED probes

Shown(t) == ModelOf(t) \in Thinking \cup Hinted

\* /api/show answers: its capabilities or its template tell, or else the name does.
\* The answer is stored and used, whatever another probe has stored meanwhile.
ProbeAnswers(t) ==
    /\ pc[t] = "probe"
    /\ cache' = [cache EXCEPT ![ProbeKey(t)] = Shown(t)]
    /\ Send(t, Shown(t))
    /\ UNCHANGED unshown

\* Mutant of ProbeFails: the probe is made again until it answers.
ProbeFailsAgain(t) ==
    /\ pc[t] = "probe"
    /\ unshown' = unshown \cup {ProbeKey(t)}
    /\ Goto(t, "attempt")
    /\ UNCHANGED <<now, calls, callVars, breaker, cache>>

\* No answer in 5 seconds, a refused connection, an error status: the name tells,
\* and goes into the cache for good.
ProbeFails(t) ==
    /\ pc[t] = "probe"
    /\ unshown' = unshown \cup {ProbeKey(t)}
    /\ cache' = [cache EXCEPT ![ProbeKey(t)] = ModelOf(t) \in Hinted]
    /\ Send(t, ModelOf(t) \in Hinted)

\* complete() is left: with a result, with what an attempt raised, or with
\* FallbackExhaustedError.
Leave(t, how) ==
    /\ Goto(t, how)
    /\ UNCHANGED <<now, calls, callVars, breaker, probes>>

\* The body of /api/show is not the JSON object expected: raised, not retried.
ProbeGarbled(t) == pc[t] = "probe" /\ Leave(t, "raised")

Answered(t) == pc[t] = "sent" /\ Leave(t, "ok")

Refused(t) ==
    /\ pc[t] = "sent"
    /\ \E e \in Errors : ~is_transient(e)
    /\ Leave(t, "raised")

\* RetryPolicy has an attempt left: it sleeps before it, 2^attempt times the base delay or
\* the cap, and up to a quarter more; how long is left out.
Again(t) ==
    /\ Goto(t, "sleep")
    /\ attempt' = [attempt EXCEPT ![t] = @ + 1]
    /\ UNCHANGED <<now, calls, call, at, failed, requests, breaker, probes>>

\* Mutant of NextModel: the attempts of the model before count for the next.
NextModelTired(t) ==
    /\ failed' = [failed EXCEPT ![t] = Append(@, ModelOf(t))]
    /\ IF at[t] < Len(Chain(call[t]))
       THEN Goto(t, "attempt") /\ at' = [at EXCEPT ![t] = @ + 1]
       ELSE Goto(t, "exhausted") /\ UNCHANGED at
    /\ UNCHANGED <<now, calls, call, attempt, requests, breaker, probes>>

\* RetryError: FallbackChain notes the model and tries the next, or gives up.
NextModel(t) ==
    /\ failed' = [failed EXCEPT ![t] = Append(@, ModelOf(t))]
    /\ IF at[t] < Len(Chain(call[t]))
       THEN /\ Goto(t, "attempt")
            /\ at' = [at EXCEPT ![t] = @ + 1]
            /\ attempt' = [attempt EXCEPT ![t] = 0]
       ELSE Goto(t, "exhausted") /\ UNCHANGED <<at, attempt>>
    /\ UNCHANGED <<now, calls, call, requests, breaker, probes>>

Failed(t) ==
    /\ pc[t] = "sent"
    /\ \E e \in Errors : is_transient(e)
    /\ IF HasAttempts(t) THEN Again(t) ELSE NextModel(t)

Wake(t) ==
    /\ pc[t] = "sleep"
    /\ Goto(t, "attempt")
    /\ UNCHANGED <<now, calls, callVars, breaker, probes>>

\* A task is cancelled at an await: CancelledError passes through both loops.
Cancel(t) ==
    /\ pc[t] \in {"probe", "sent", "sleep"} /\ LoopFree(t)
    /\ Rest(t)
    /\ UNCHANGED <<now, calls, breaker, probes>>

\* The product tells the breaker how the call ended.
Record(t) ==
    /\ pc[t] \in {"ok", "raised", "exhausted"}
    /\ Rest(t)
    /\ IF pc[t] = "ok" THEN record_success ELSE record_failure
    /\ outcomes' = Append(outcomes, [ok |-> pc[t] = "ok", time |-> now])
    /\ UNCHANGED <<now, calls, probes>>

Tick ==
    /\ now < MaxTime /\ \A t \in Tasks : pc[t] \notin Running
    /\ now' = now + 1
    /\ UNCHANGED <<calls, pc, callVars, breaker, probes>>

\* One way on for a task that is in complete() or has just left it.
Step(t) ==
    /\ LoopFree(t)
    /\ \/ BeginProbe(t) \/ BeginSend(t)
       \/ ProbeAnswers(t) \/ ProbeFails(t) \/ ProbeGarbled(t)
       \/ Answered(t) \/ Refused(t) \/ Failed(t)
       \/ Wake(t) \/ Record(t)

Next ==
    \/ \E t \in Tasks : \/ \E c \in Calls : Complete(t, c)
                        \/ Step(t)
                        \/ Cancel(t)
    \/ Tick

\* The event loop runs every task; the probe, the bypass and litellm have timeouts,
\* so every request ends; sleeps end.
Fairness == \A t \in Tasks : WF_vars(Step(t))

Spec == Init /\ [][Next]_vars /\ Fairness

(***************************************************************************)
(* Properties                                                              *)
(***************************************************************************)
Requests ==
    [model : Models, strategy : Strategies, rivals : BOOLEAN]

\* The state is well formed.
TypeOK ==
    /\ now \in 0..MaxTime /\ calls \in 0..MaxCalls
    /\ failures \in Nat /\ opened_at \in 0..MaxTime \cup {None}
    /\ cache \in [Keys -> BOOLEAN \cup {None}] /\ unshown \subseteq Keys
    /\ pc \in [Tasks -> {"idle", "attempt", "probe", "sent", "sleep", "ok", "raised", "exhausted"}]
    /\ call \in [Tasks -> Calls \cup {None}]
    /\ at \in [Tasks -> 1..(Len(Fallbacks) + 1)]
    /\ attempt \in [Tasks -> 0..(MaxAttempts - 1)]
    /\ \A t \in Tasks :
           /\ \A i \in DOMAIN failed[t] : failed[t][i] \in Models
           /\ \A i \in DOMAIN requests[t] : requests[t][i] \in Requests

\* A call asks the models of its chain in their order, each as often as the retry
\* policy allows before the next is asked, and gives up when the last has failed as
\* often; what it then reports names every model.
InOrder ==
    \A t \in Tasks : call[t] # None =>
        LET chain == Chain(call[t])
            spent == MaxAttempts * Len(failed[t]) IN
        /\ \A i \in DOMAIN requests[t] :
               requests[t][i].model = chain[(i - 1) \div MaxAttempts + 1]
        /\ Len(requests[t]) >= spent
        /\ failed[t] = SubSeq(chain, 1, Len(failed[t]))
        /\ pc[t] = "exhausted" => failed[t] = chain /\ Len(requests[t]) = spent

\* A call that is to suppress reasoning reaches a thinking Ollama model by the way that
\* suppresses it, unless it has tools, which that way would lose, or a probe of this
\* very model at this very base has failed.
OnlyDeadProbesMislead ==
    \A t \in Tasks : \A i \in DOMAIN requests[t] :
        LET c == call[t]  m == requests[t][i].model
            base == IF ApiBase(c) = None THEN DefaultBase ELSE ApiBase(c) IN
        (c.suppress_reasoning /\ Family[m] = "ollama" /\ m \in Thinking) =>
            IF c.tools THEN requests[t][i].strategy = "none"
            ELSE requests[t][i].strategy = "ollama_bypass" \/ <<m, base>> \in unshown

\* Two attempts of a call at one model go the same way, though the answer is read anew
\* for each: a failed probe is remembered too, and only a probe of another task that was
\* out at the earlier attempt can have changed the answer since.
SettledWay ==
    \A t \in Tasks : \A j \in DOMAIN requests[t] : \A i \in 1..(j - 1) :
        (requests[t][i].model = requests[t][j].model /\ requests[t][i].strategy # requests[t][j].strategy)
            => requests[t][i].rivals

\* Whatever order the calls in flight end in, no call is let in less than the recovery
\* time after a failure that was the last of a streak as long as the threshold: also not
\* after the one failure that follows a recovery.
OpenKeepsOut ==
    [][LET n == Len(outcomes) IN
       (calls' # calls /\ n >= Threshold /\ \A i \in (n - Threshold + 1)..n : ~outcomes[i].ok)
           => now - outcomes[n].time >= Recovery]_vars

\* Every call ends, whatever fails on its way.
CallsEnd == \A t \in Tasks : pc[t] # "idle" ~> pc[t] = "idle"
=============================================================================
