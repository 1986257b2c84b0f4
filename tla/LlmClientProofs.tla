---------------------------- MODULE LlmClientProofs ----------------------------
(***************************************************************************)
(* Theorems about LlmClient for any models, calls, tasks, attempts and     *)
(* thresholds.  Three arguments that do not meet: a call counts its        *)
(* requests by the models it gave up and by its attempts at the present    *)
(* one; a request that went out while nobody else probed its key keeps     *)
(* what the cache says, because nobody probes a key that is in the cache;  *)
(* and the breaker's failure count is the length of the streak of failures *)
(* that ends what was recorded.                                            *)
(***************************************************************************)
EXTENDS LlmClient, SequenceTheorems, TLAPS

Places == {"idle", "attempt", "probe", "sent", "sleep", "ok", "raised", "exhausted"}

Outcomes == [ok : BOOLEAN, time : 0..MaxTime]

-----------------------------------------------------------------------------
(* The invariant. *)

\* The shared state has its type, and so has each task's.
SharedTyped ==
    /\ now \in 0..MaxTime /\ calls \in 0..MaxCalls
    /\ failures \in Nat /\ opened_at \in 0..MaxTime \cup {None} /\ outcomes \in Seq(Outcomes)
    /\ cache \in [Keys -> BOOLEAN \cup {None}] /\ unshown \subseteq Keys

TasksTyped ==
    /\ pc \in [Tasks -> Places] /\ call \in [Tasks -> Calls \cup {None}]
    /\ at \in [Tasks -> Nat] /\ attempt \in [Tasks -> Nat]
    /\ failed \in [Tasks -> Seq(Models)] /\ requests \in [Tasks -> Seq(Requests)]

\* How many requests the models given up, and the attempts before this one, have cost.
Spent(t) == MaxAttempts * (at[t] - 1) + attempt[t]

\* A call is at a model of its chain, and its requests are counted.
Counted(t) ==
    /\ pc[t] = "idle" => requests[t] = <<>> /\ failed[t] = <<>> /\ at[t] = 1 /\ attempt[t] = 0
    /\ pc[t] # "idle" => call[t] \in Calls /\ at[t] \in 1..Len(Chain(call[t]))
    /\ attempt[t] < MaxAttempts
    /\ pc[t] = "probe" => Probes(t)
    /\ pc[t] \in {"attempt", "probe", "sleep"} => Len(requests[t]) = Spent(t)
    /\ pc[t] = "sent" => Len(requests[t]) = Spent(t) + 1
    /\ pc[t] \in {"ok", "raised"} => Len(requests[t]) \in {Spent(t), Spent(t) + 1}
    /\ pc[t] = "exhausted" => /\ at[t] = Len(Chain(call[t])) /\ Len(failed[t]) = at[t]
                              /\ Len(requests[t]) = MaxAttempts * at[t]
    /\ pc[t] # "exhausted" => Len(failed[t]) = at[t] - 1

\* What a call has asked, and what it has given up, follows its chain.
Ordered(t) ==
    /\ \A i \in DOMAIN requests[t] :
           requests[t][i].model = Chain(call[t])[(i - 1) \div MaxAttempts + 1]
    /\ \A i \in DOMAIN failed[t] : failed[t][i] = Chain(call[t])[i]

\* The key of the probe of model m in call c, whether there is to be one, and the way
\* to the model that is taken for thinking or not.
Key(c, m) == <<m, IF ApiBase(c) = None THEN DefaultBase ELSE ApiBase(c)>>
Probing(c, m) == c.suppress_reasoning /\ Family[m] = "ollama"
Way(c, m, thinks) ==
    IF c.suppress_reasoning THEN decide_strategy(m, ApiBase(c), c.tools, thinks) ELSE "none"

\* What the cache says of it.
Cached(c, m) == Probing(c, m) /\ cache[Key(c, m)] = TRUE

\* Nobody will change what the cache says of it.
Fixed(c, m) ==
    Probing(c, m) => /\ cache[Key(c, m)] \in BOOLEAN
                     /\ \A u \in Tasks : pc[u] = "probe" => ProbeKey(u) # Key(c, m)

\* Request q of call c goes past a thinking model only if the probe is dead.
Misled(c, q) ==
    (c.suppress_reasoning /\ Family[q.model] = "ollama" /\ q.model \in Thinking) =>
        IF c.tools THEN q.strategy = "none"
        ELSE q.strategy = "ollama_bypass" \/ Key(c, q.model) \in unshown

\* It went out without rivals: it went as the cache says now.
Settled(c, q) ==
    ~q.rivals => q.strategy = Way(c, q.model, Cached(c, q.model)) /\ Fixed(c, q.model)

Ways(t) ==
    /\ \A i \in DOMAIN requests[t] : Misled(call[t], requests[t][i]) /\ Settled(call[t], requests[t][i])
    /\ \A j \in DOMAIN requests[t] : \A i \in 1..(j - 1) :
        (requests[t][i].model = requests[t][j].model /\ requests[t][i].strategy # requests[t][j].strategy)
            => requests[t][i].rivals

\* The cache is wrong about a thinking model only if a probe of it failed.
CacheHonest == \A k \in Keys : cache[k] = FALSE /\ k[1] \in Thinking => k \in unshown

\* The breaker counts the streak of failures that has no end yet.
Streak ==
    /\ failures \in 0..Len(outcomes)
    /\ \A i \in (Len(outcomes) - failures + 1)..Len(outcomes) : ~outcomes[i].ok
    /\ failures < Len(outcomes) => outcomes[Len(outcomes) - failures].ok
    /\ failures >= Threshold => opened_at = outcomes[Len(outcomes)].time

IInv ==
    /\ SharedTyped /\ TasksTyped /\ CacheHonest /\ Streak
    /\ \A t \in Tasks : Counted(t) /\ Ordered(t) /\ Ways(t)

-----------------------------------------------------------------------------
(* Chains, keys and counting. *)

\* A chain consists of models, one more than the fallbacks at most.
LEMMA ChainTyped ==
  ASSUME NEW c \in Calls
  PROVE  Chain(c) \in Seq(Models) /\ Len(Chain(c)) <= Len(Fallbacks) + 1
<1> DEFINE first == IF c.model # None THEN c.model ELSE Primary
<1>1. first \in Models \cup {None} /\ Fallbacks \in Seq(Models)
  BY ChainAssumption, CallsAssumption
<1>2. CASE first = None
  BY <1>1, <1>2, LenProperties DEF Chain
<1>3. CASE first # None
  <2>1. first \in Models BY <1>1, <1>3
  <2>2. <<first>> \in Seq(Models) /\ Len(<<first>>) = 1 BY <2>1
  <2>3. Chain(c) = <<first>> \o Fallbacks BY <1>3 DEF Chain
  <2>4. Len(Fallbacks) \in Nat BY <1>1, LenProperties
  <2> QED BY <1>1, <2>2, <2>3, <2>4, ConcatProperties
<1> QED BY <1>2, <1>3

\* The remainder does not count.
LEMMA Division ==
  ASSUME NEW q \in Nat, NEW r \in Nat, r < MaxAttempts
  PROVE  (MaxAttempts * q + r) \div MaxAttempts = q
BY NumberAssumption, SMTT(60)

\* The attempts at one model more.
LEMMA Product ==
  ASSUME NEW q \in Nat
  PROVE  MaxAttempts * q \in Nat /\ MaxAttempts * (q + 1) = MaxAttempts * q + MaxAttempts
BY NumberAssumption, SMTT(60)

\* A call's model, and its probe's key.
LEMMA AtAModel ==
  ASSUME NEW t \in Tasks, Counted(t), pc[t] # "idle"
  PROVE  /\ call[t] \in Calls /\ ModelOf(t) \in Models /\ ModelOf(t) = Chain(call[t])[at[t]]
         /\ ProbeKey(t) = Key(call[t], ModelOf(t)) /\ ProbeKey(t) \in Keys
         /\ Probes(t) <=> Probing(call[t], ModelOf(t))
         /\ \A v : Decided(t, v) = Way(call[t], ModelOf(t), v)
<1>1. call[t] \in Calls /\ at[t] \in 1..Len(Chain(call[t]))
  BY DEF Counted
<1>2. ModelOf(t) \in Models /\ ModelOf(t) = Chain(call[t])[at[t]]
  BY <1>1, ChainTyped, ElementOfSeq DEF ModelOf
<1>3. ProbeKey(t) = Key(call[t], ModelOf(t)) /\ ProbeKey(t) \in Keys
  BY <1>2, BaseAssumption DEF ProbeKey, Key, Keys, ApiBase
<1> QED BY <1>1, <1>2, <1>3 DEF Probes, Probing, Decided, Way

\* A way is one of the strategies, and a thinking model of Ollama goes past litellm.
LEMMA WayTyped ==
  ASSUME NEW c \in Calls, NEW m \in Models, NEW v
  PROVE  /\ Way(c, m, v) \in Strategies
         /\ Probing(c, m) => Way(c, m, v) = IF v /\ ~c.tools THEN "ollama_bypass" ELSE "none"
         /\ ~Probing(c, m) => \A w : Way(c, m, w) = Way(c, m, v)
BY FamilyAssumption, SMTT(30) DEF Way, decide_strategy, Strategies, Probing

-----------------------------------------------------------------------------
(* What a step leaves alone. *)

\* Task t is the only one that a step changes.
Alone(t) ==
    \A u \in Tasks \ {t} :
        UNCHANGED <<pc[u], call[u], at[u], attempt[u], failed[u], requests[u]>>

\* A task that a step leaves alone is counted as before.
LEMMA Same ==
  ASSUME NEW t \in Tasks, Counted(t), Ordered(t),
         UNCHANGED <<pc[t], call[t], at[t], attempt[t], failed[t], requests[t]>>
  PROVE  (Counted(t) /\ Ordered(t))'
BY DEF Counted, Ordered, Spent, Probes, ModelOf

\* The parts of the invariant make it up, when they are shown for the task that steps.
LEMMA Together ==
  ASSUME IInv, NEW t \in Tasks, Alone(t), (SharedTyped /\ TasksTyped /\ CacheHonest /\ Streak)',
         (Counted(t) /\ Ordered(t))', \A u \in Tasks : Ways(u)'
  PROVE  IInv'
<1>1. ASSUME NEW u \in Tasks PROVE (Counted(u) /\ Ordered(u))'
  BY Same DEF IInv, Alone
<1> QED BY <1>1 DEF IInv

\* While nothing is stored, every request's way stays as it is: a probe that begins is
\* one of a key that is not in the cache.
LEMMA WaysKept ==
  ASSUME IInv, NEW t \in Tasks, Alone(t), UNCHANGED probes,
         pc'[t] = "probe" => cache[ProbeKey(t)'] = None,
         (requests'[t] = requests[t] /\ call'[t] = call[t]) \/ requests'[t] = <<>>,
         NEW u \in Tasks
  PROVE  Ways(u)'
<1>1. cache' = cache /\ unshown' = unshown
  BY DEF probes
<1>2. \/ requests'[u] = <<>>
      \/ requests'[u] = requests[u] /\ call'[u] = call[u]
  BY DEF Alone
<1>3. ASSUME NEW c, NEW m, Fixed(c, m) PROVE Fixed(c, m)'
  <2> SUFFICES ASSUME Probing(c, m), NEW w \in Tasks, pc'[w] = "probe"
               PROVE  ProbeKey(w)' # Key(c, m) /\ cache[Key(c, m)] \in BOOLEAN
    BY <1>1, <1>3 DEF Fixed
  <2>1. cache[Key(c, m)] \in BOOLEAN /\ cache[Key(c, m)] # None
    BY <1>3, NoneAssumption DEF Fixed
  <2>2. CASE w = t
    BY <2>1, <2>2
  <2>3. CASE w # t
    <3>1. pc[w] = "probe" /\ ProbeKey(w)' = ProbeKey(w)
      BY <2>3 DEF Alone, ProbeKey, ModelOf
    <3> QED BY <1>3, <2>1, <3>1 DEF Fixed
  <2> QED BY <2>2, <2>3
<1>4. CASE requests'[u] = <<>>
  <2>1. DOMAIN requests'[u] = {} BY <1>4
  <2> QED BY <2>1 DEF Ways
<1>5. CASE requests'[u] = requests[u] /\ call'[u] = call[u]
  <2>1. ASSUME NEW i \in DOMAIN requests[u]
        PROVE  (Misled(call[u], requests[u][i]) /\ Settled(call[u], requests[u][i]))'
    <3>1. Misled(call[u], requests[u][i]) /\ Settled(call[u], requests[u][i])
      BY DEF IInv, Ways
    <3>2. Misled(call[u], requests[u][i])'
      BY <1>1, <1>5, <3>1 DEF Misled
    <3>3. Settled(call[u], requests[u][i])'
      BY <1>1, <1>3, <1>5, <3>1 DEF Settled, Cached
    <3> QED BY <3>2, <3>3
  <2> QED BY <1>5, <2>1 DEF IInv, Ways
<1> QED BY <1>2, <1>4, <1>5

-----------------------------------------------------------------------------
(* A request goes out. *)

\* Task t sends a request by the way that the cache tells from now on.
LEMMA SendFine ==
  ASSUME IInv, NEW t \in Tasks, NEW v \in BOOLEAN, Send(t, v), pc[t] \in {"attempt", "probe"},
         cache' \in [Keys -> BOOLEAN \cup {None}], unshown \subseteq unshown', unshown' \subseteq Keys,
         CacheHonest',
         \A k \in Keys : k # ProbeKey(t) => cache'[k] = cache[k],
         pc[t] = "attempt" => cache' = cache,
         Probes(t) => cache'[ProbeKey(t)] \in BOOLEAN,
         v <=> Probes(t) /\ cache'[ProbeKey(t)] = TRUE
  PROVE  IInv'
<1>0. PICK c, m, q, n : /\ c = call[t] /\ m = ModelOf(t) /\ n = Len(requests[t])
                        /\ q = [model |-> m, strategy |-> Decided(t, v), rivals |-> Rivals(t, ProbeKey(t)) # {}]
  OBVIOUS
<1>1. /\ pc' = [pc EXCEPT ![t] = "sent"] /\ requests' = [requests EXCEPT ![t] = Append(@, q)]
      /\ UNCHANGED <<now, calls, call, at, attempt, failed, breaker>>
  BY <1>0 DEF Send, Goto
<1>2. TasksTyped /\ SharedTyped /\ Counted(t) /\ Ordered(t)
  BY DEF IInv
<1>3. /\ c \in Calls /\ m \in Models /\ m = Chain(c)[at[t]]
      /\ ProbeKey(t) = Key(c, m) /\ ProbeKey(t) \in Keys /\ (Probes(t) <=> Probing(c, m))
      /\ Decided(t, v) = Way(c, m, v)
  BY <1>0, <1>2, AtAModel
<1>4. /\ q \in Requests /\ q.model = m /\ q.strategy = Way(c, m, v)
      /\ q.rivals <=> \E u \in Tasks \ {t} : pc[u] = "probe" /\ ProbeKey(u) = Key(c, m)
  <2>1. q.model = m /\ q.strategy = Way(c, m, v) BY <1>0, <1>3
  <2>2. q \in Requests BY <1>0, <1>3, WayTyped DEF Requests
  <2>3. q.rivals <=> \E u \in Tasks \ {t} : pc[u] = "probe" /\ ProbeKey(u) = Key(c, m)
    BY <1>0, <1>3 DEF Rivals
  <2> QED BY <2>1, <2>2, <2>3
<1>5. /\ n \in Nat /\ requests'[t] = Append(requests[t], q) /\ Len(requests'[t]) = n + 1
      /\ requests'[t] \in Seq(Requests) /\ DOMAIN requests'[t] = 1..(n + 1) /\ DOMAIN requests[t] = 1..n
      /\ requests'[t][n + 1] = q /\ \A i \in 1..n : requests'[t][i] = requests[t][i]
  <2>1. requests[t] \in Seq(Requests) BY <1>2 DEF TasksTyped
  <2>2. requests'[t] = Append(requests[t], q) BY <1>1, <1>2 DEF TasksTyped
  <2> QED BY <1>0, <1>4, <2>1, <2>2, AppendProperties, LenProperties
<1>6. TasksTyped'
  <2>1. requests' \in [Tasks -> Seq(Requests)] BY <1>1, <1>2, <1>5 DEF TasksTyped
  <2>2. pc' \in [Tasks -> Places] BY <1>1, <1>2 DEF TasksTyped, Places
  <2> QED BY <1>1, <1>2, <2>1, <2>2 DEF TasksTyped
<1>7. (SharedTyped /\ Streak)'
  BY <1>1, <1>2 DEF SharedTyped, Streak, IInv, breaker
<1>8. Alone(t) /\ pc'[t] = "sent" /\ \A u \in Tasks : u # t => requests'[u] = requests[u]
  BY <1>1, <1>2 DEF Alone, TasksTyped
<1>9. Counted(t)'
  BY <1>0, <1>1, <1>2, <1>5, <1>8 DEF Counted, Spent
<1>10. Ordered(t)'
  <2>1. n \div MaxAttempts + 1 = at[t]
    <3>1. at[t] \in 1..Len(Chain(call[t])) /\ attempt[t] < MaxAttempts /\ n = Spent(t)
      BY <1>0, <1>2 DEF Counted
    <3>2. at[t] - 1 \in Nat /\ attempt[t] \in Nat
      BY <1>2, <3>1 DEF TasksTyped
    <3> QED BY <3>1, <3>2, Division DEF Spent
  <2>2. ASSUME NEW i \in 1..(n + 1)
        PROVE  requests'[t][i].model = Chain(c)[(i - 1) \div MaxAttempts + 1]
    <3>1. CASE i = n + 1
      <4>1. (i - 1) \div MaxAttempts + 1 = at[t] BY <1>5, <2>1, <3>1
      <4>2. requests'[t][i] = q BY <1>5, <3>1
      <4> QED BY <1>3, <1>4, <4>1, <4>2
    <3>2. CASE i # n + 1
      <4>1. i \in 1..n /\ i \in DOMAIN requests[t] BY <1>5, <3>2
      <4>2. requests[t][i].model = Chain(c)[(i - 1) \div MaxAttempts + 1]
        BY <1>0, <1>2, <4>1 DEF Ordered
      <4> QED BY <1>5, <4>1, <4>2
    <3> QED BY <3>1, <3>2
  <2> QED BY <1>0, <1>1, <1>2, <1>5, <2>2 DEF Ordered
<1>11. ASSUME NEW d, NEW p \in Requests, Misled(d, p), Settled(d, p)
       PROVE  (Misled(d, p) /\ Settled(d, p))'
  <2>1. Misled(d, p)' BY <1>11 DEF Misled
  <2>2. SUFFICES ASSUME ~p.rivals
                 PROVE  (p.strategy = Way(d, p.model, Cached(d, p.model)))' /\ Fixed(d, p.model)'
    BY <2>1 DEF Settled
  <2>3. Key(d, p.model) \in Keys /\ Fixed(d, p.model) /\ p.strategy = Way(d, p.model, Cached(d, p.model))
    BY <1>11, <2>2, BaseAssumption DEF Requests, Key, Keys, ApiBase, Settled
  <2>4. Probing(d, p.model) => cache'[Key(d, p.model)] = cache[Key(d, p.model)]
    BY <2>3 DEF Fixed
  <2>5. ASSUME NEW u \in Tasks, pc'[u] = "probe" PROVE pc[u] = "probe" /\ ProbeKey(u)' = ProbeKey(u)
    <3>1. u # t BY <1>8, <2>5
    <3> QED BY <1>8, <2>5, <3>1 DEF Alone, ProbeKey, ModelOf
  <2>6. Fixed(d, p.model)' BY <2>3, <2>4, <2>5 DEF Fixed
  <2>7. Cached(d, p.model)' <=> Cached(d, p.model) BY <2>4 DEF Cached
  <2>8. (p.strategy = Way(d, p.model, Cached(d, p.model)))'
    BY <2>3, <2>7 DEF Way, decide_strategy
  <2> QED BY <2>6, <2>8
<1>12. (Misled(c, q) /\ Settled(c, q))'
  <2>1. Cached(c, m)' <=> v BY <1>3 DEF Cached
  <2>2. Misled(c, q)'
    <3>1. SUFFICES ASSUME Probing(c, m), m \in Thinking
                   PROVE  IF c.tools THEN q.strategy = "none"
                          ELSE q.strategy = "ollama_bypass" \/ Key(c, m) \in unshown'
      BY <1>4 DEF Misled, Probing
    <3>2. q.strategy = IF v /\ ~c.tools THEN "ollama_bypass" ELSE "none"
      BY <1>3, <1>4, <3>1, WayTyped
    <3>3. CASE v BY <3>2, <3>3
    <3>4. CASE ~v
      <4>1. cache'[Key(c, m)] = FALSE BY <1>3, <3>1, <3>4
      <4>2. Key(c, m)[1] = m BY DEF Key
      <4>3. Key(c, m) \in unshown' BY <1>3, <3>1, <4>1, <4>2 DEF CacheHonest
      <4> QED BY <3>2, <3>4, <4>3
    <3> QED BY <3>3, <3>4
  <2>3. ASSUME ~q.rivals PROVE Fixed(c, m)'
    <3>1. ASSUME NEW u \in Tasks, pc'[u] = "probe" PROVE ProbeKey(u)' # Key(c, m)
      <4>1. u # t BY <1>8, <3>1
      <4> QED BY <1>4, <1>8, <2>3, <3>1, <4>1 DEF Alone, ProbeKey, ModelOf
    <3> QED BY <1>3, <3>1 DEF Fixed
  <2>4. (q.strategy = Way(c, q.model, Cached(c, q.model)))'
    BY <1>4, <2>1 DEF Way, decide_strategy
  <2> QED BY <1>4, <2>2, <2>3, <2>4 DEF Settled
<1>13. ASSUME NEW u \in Tasks \ {t} PROVE Ways(u)'
  <2>1. requests'[u] = requests[u] /\ call'[u] = call[u] BY <1>8 DEF Alone
  <2>2. requests[u] \in Seq(Requests) BY <1>2 DEF TasksTyped
  <2>3. ASSUME NEW i \in DOMAIN requests[u]
        PROVE  (Misled(call[u], requests[u][i]) /\ Settled(call[u], requests[u][i]))'
    <3>1. requests[u][i] \in Requests BY <2>2, LenProperties, ElementOfSeq
    <3>2. PICK d, p : d = call[u] /\ p = requests[u][i] OBVIOUS
    <3>3. (Misled(d, p) /\ Settled(d, p))' BY <1>11, <3>1, <3>2 DEF IInv, Ways
    <3>4. d = call'[u] /\ p = requests'[u][i] BY <2>1, <3>2
    <3> QED BY <3>3, <3>4 DEF Misled, Settled, Fixed, Cached
  <2> QED BY <2>1, <2>3 DEF IInv, Ways
<1>14. Ways(t)'
  <2>1. ASSUME NEW i \in 1..n, NEW p, p = requests[t][i]
        PROVE  /\ (Misled(c, p) /\ Settled(c, p))' /\ p \in Requests
               /\ (p.model = m /\ p.strategy # q.strategy) => p.rivals
    <3>1. p \in Requests BY <1>2, <1>5, <2>1, LenProperties, ElementOfSeq DEF TasksTyped
    <3>2. (Misled(c, p) /\ Settled(c, p))' BY <1>0, <1>5, <1>11, <2>1, <3>1 DEF IInv, Ways
    <3>3. (p.model = m /\ ~p.rivals) => p.strategy = Way(c, m, Cached(c, m)')
      BY <3>2 DEF Settled
    <3>4. Cached(c, m)' <=> v BY <1>3 DEF Cached
    <3>5. Way(c, m, Cached(c, m)') = Way(c, m, v) BY <3>4 DEF Way, decide_strategy
    <3>6. (p.model = m /\ p.strategy # q.strategy) => p.rivals BY <1>4, <3>3, <3>5
    <3> QED BY <3>1, <3>2, <3>6
  <2>2. ASSUME NEW i \in 1..(n + 1)
        PROVE  (Misled(call[t], requests[t][i]) /\ Settled(call[t], requests[t][i]))'
    <3>1. call'[t] = c BY <1>0, <1>1
    <3>2. PICK p : p = requests'[t][i] OBVIOUS
    <3>3. CASE i = n + 1
      BY <1>5, <1>12, <3>1, <3>2, <3>3 DEF Misled, Settled, Fixed, Cached
    <3>4. CASE i # n + 1
      <4>1. i \in 1..n /\ p = requests[t][i] BY <1>5, <3>2, <3>4
      <4>2. (Misled(c, p) /\ Settled(c, p))' BY <2>1, <4>1
      <4> QED BY <3>1, <3>2, <4>2 DEF Misled, Settled, Fixed, Cached
    <3> QED BY <3>3, <3>4
  <2>3. ASSUME NEW j \in 1..(n + 1), NEW i \in 1..(j - 1),
               requests'[t][i].model = requests'[t][j].model,
               requests'[t][i].strategy # requests'[t][j].strategy
        PROVE  requests'[t][i].rivals
    <3>1. i \in 1..n /\ requests'[t][i] = requests[t][i] BY <1>5
    <3>2. CASE j = n + 1 BY <1>4, <1>5, <2>1, <2>3, <3>1, <3>2
    <3>3. CASE j # n + 1
      <4>1. j \in 1..n BY <1>5, <3>3
      <4> QED BY <1>5, <2>3, <3>1, <4>1 DEF IInv, Ways
    <3> QED BY <3>2, <3>3
  <2> QED BY <1>5, <2>2, <2>3 DEF Ways
<1>15. \A u \in Tasks : Ways(u)'
  BY <1>13, <1>14
<1> QED BY <1>6, <1>7, <1>8, <1>9, <1>10, <1>15, Together

-----------------------------------------------------------------------------
(* The actions. *)

\* A step of task t that stores nothing and tells the breaker nothing.
LEMMA Quiet ==
  ASSUME IInv, NEW t \in Tasks, NEW p \in Places, pc' = [pc EXCEPT ![t] = p], Alone(t),
         UNCHANGED <<now, breaker, probes>>, calls' \in 0..MaxCalls, TasksTyped',
         (Counted(t) /\ Ordered(t))',
         p = "probe" => cache[ProbeKey(t)'] = None,
         (requests'[t] = requests[t] /\ call'[t] = call[t]) \/ requests'[t] = <<>>
  PROVE  IInv'
<1>1. pc'[t] = p BY DEF IInv, TasksTyped
<1>2. \A u \in Tasks : Ways(u)' BY <1>1, WaysKept
<1>3. (SharedTyped /\ CacheHonest /\ Streak)'
  BY DEF IInv, SharedTyped, CacheHonest, Streak, breaker, probes
<1> QED BY <1>2, <1>3, Together

\* A call is let in.
LEMMA CompleteFine == ASSUME IInv, NEW t \in Tasks, NEW c \in Calls, Complete(t, c) PROVE IInv'
<1>1. /\ pc[t] = "idle" /\ calls < MaxCalls /\ Chain(c) # <<>> /\ calls' = calls + 1
      /\ pc' = [pc EXCEPT ![t] = "attempt"] /\ call' = [call EXCEPT ![t] = c]
      /\ UNCHANGED <<now, at, attempt, failed, requests, breaker, probes>>
  BY DEF Complete, Goto
<1>2. SharedTyped /\ TasksTyped /\ Counted(t) BY DEF IInv
<1>3. requests[t] = <<>> /\ failed[t] = <<>> /\ at[t] = 1 /\ attempt[t] = 0
  BY <1>1, <1>2 DEF Counted
<1>4. pc'[t] = "attempt" /\ call'[t] = c /\ Alone(t) /\ TasksTyped' /\ calls' \in 0..MaxCalls
  BY <1>1, <1>2, NumberAssumption DEF Alone, TasksTyped, SharedTyped, Places
<1>5. 1 \in 1..Len(Chain(c))
  BY <1>1, ChainTyped, EmptySeq
<1>6. Len(requests[t]) = 0 /\ Len(failed[t]) = 0 /\ DOMAIN requests[t] = {} /\ DOMAIN failed[t] = {}
  BY <1>3
<1>7. Counted(t)'
  BY <1>1, <1>3, <1>4, <1>5, <1>6, NumberAssumption DEF Counted, Spent
<1>8. Ordered(t)'
  BY <1>1, <1>6 DEF Ordered
<1> QED BY <1>1, <1>3, <1>4, <1>7, <1>8, Quiet DEF Places

\* The call of task t is over, and so is what was held for it.
LEMMA Rested ==
  ASSUME IInv, NEW t \in Tasks, Rest(t)
  PROVE  /\ pc' = [pc EXCEPT ![t] = "idle"] /\ Alone(t) /\ TasksTyped'
         /\ requests'[t] = <<>> /\ (Counted(t) /\ Ordered(t))'
<1>1. /\ pc' = [pc EXCEPT ![t] = "idle"] /\ call' = [call EXCEPT ![t] = None]
      /\ at' = [at EXCEPT ![t] = 1] /\ attempt' = [attempt EXCEPT ![t] = 0]
      /\ failed' = [failed EXCEPT ![t] = <<>>] /\ requests' = [requests EXCEPT ![t] = <<>>]
  BY DEF Rest, Goto
<1>2. TasksTyped BY DEF IInv
<1>3. /\ pc'[t] = "idle" /\ call'[t] = None /\ at'[t] = 1 /\ attempt'[t] = 0
      /\ failed'[t] = <<>> /\ requests'[t] = <<>>
  BY <1>1, <1>2 DEF TasksTyped
<1>4. TasksTyped'
  <2>1. <<>> \in Seq(Models) /\ <<>> \in Seq(Requests) BY EmptySeq
  <2> QED BY <1>1, <1>2, <2>1 DEF TasksTyped, Places
<1>5. Alone(t) BY <1>1, <1>2 DEF Alone, TasksTyped
<1>6. Len(requests'[t]) = 0 /\ Len(failed'[t]) = 0 /\ DOMAIN requests'[t] = {} /\ DOMAIN failed'[t] = {}
  BY <1>3
<1>7. Counted(t)' BY <1>3, <1>6, NumberAssumption DEF Counted
<1>8. Ordered(t)' BY <1>6 DEF Ordered
<1> QED BY <1>1, <1>3, <1>4, <1>5, <1>7, <1>8

\* A task is cancelled.
LEMMA CancelFine == ASSUME IInv, NEW t \in Tasks, Cancel(t) PROVE IInv'
<1>1. Rest(t) /\ UNCHANGED <<now, calls, breaker, probes>>
  BY DEF Cancel
<1>2. calls' \in 0..MaxCalls BY <1>1 DEF IInv, SharedTyped
<1> QED BY <1>1, <1>2, Rested, Quiet DEF Places

\* A step that moves a task on within its call, counting as it did.
LEMMA MoveFine ==
  ASSUME IInv, NEW t \in Tasks, NEW p \in Places, pc' = [pc EXCEPT ![t] = p],
         UNCHANGED <<now, calls, callVars, breaker, probes>>, pc[t] # "idle",
         \/ p = "probe" /\ pc[t] = "attempt" /\ Probes(t) /\ cache[ProbeKey(t)] = None
         \/ p \in {"ok", "raised"} /\ pc[t] = "sent"
         \/ p = "raised" /\ pc[t] = "probe"
         \/ p = "attempt" /\ pc[t] = "sleep"
  PROVE  IInv'
<1>1. TasksTyped /\ SharedTyped /\ Counted(t) /\ Ordered(t) BY DEF IInv
<1>2. pc'[t] = p /\ Alone(t) /\ TasksTyped' BY <1>1 DEF TasksTyped, Alone, callVars
<1>3. Ordered(t)' BY <1>1 DEF Ordered, callVars
<1>4. UNCHANGED <<call[t], at[t], attempt[t], failed[t], requests[t], Spent(t)>>
  BY DEF callVars, Spent
<1>5. Counted(t)'
  <2>1. Probes(t)' <=> Probes(t) BY <1>4 DEF Probes, ModelOf
  <2> QED BY <1>1, <1>2, <1>4, <2>1 DEF Counted
<1>6. p = "probe" => cache[ProbeKey(t)'] = None
  BY <1>4 DEF ProbeKey, ModelOf
<1>7. requests'[t] = requests[t] /\ call'[t] = call[t] /\ calls' \in 0..MaxCalls
  BY <1>1, <1>4 DEF SharedTyped
<1> QED BY <1>2, <1>3, <1>5, <1>6, <1>7, Quiet

\* The steps that move a task on.
LEMMA MovesFine ==
  ASSUME IInv, NEW t \in Tasks,
         BeginProbe(t) \/ ProbeGarbled(t) \/ Answered(t) \/ Refused(t) \/ Wake(t)
  PROVE  IInv'
BY MoveFine DEF BeginProbe, ProbeGarbled, Answered, Refused, Wake, Leave, Goto, Places

\* An attempt at a model that needs no probe, or of which the cache knows.
LEMMA BeginSendFine == ASSUME IInv, NEW t \in Tasks, BeginSend(t) PROVE IInv'
<1>1. /\ pc[t] = "attempt" /\ (Probes(t) => cache[ProbeKey(t)] # None)
      /\ Send(t, Probes(t) /\ cache[ProbeKey(t)]) /\ cache' = cache /\ unshown' = unshown
  BY DEF BeginSend, probes
<1>2. SharedTyped /\ CacheHonest BY DEF IInv
<1>3. ProbeKey(t) \in Keys BY <1>1, AtAModel DEF IInv
<1>4. Probes(t) => cache[ProbeKey(t)] \in BOOLEAN
  BY <1>1, <1>2, <1>3 DEF SharedTyped
<1>5. PICK v \in BOOLEAN : (v <=> Probes(t) /\ cache[ProbeKey(t)] = TRUE) /\ Send(t, v)
  <2>1. CASE Probes(t) /\ cache[ProbeKey(t)] = TRUE
    <3>1. (Probes(t) /\ cache[ProbeKey(t)]) = TRUE BY <2>1
    <3>2. Send(t, TRUE) BY <1>1, <3>1
    <3> QED BY <2>1, <3>2
  <2>2. CASE ~(Probes(t) /\ cache[ProbeKey(t)] = TRUE)
    <3>1. (Probes(t) /\ cache[ProbeKey(t)]) = FALSE BY <1>4, <2>2
    <3>2. Send(t, FALSE) BY <1>1, <3>1
    <3> QED BY <2>2, <3>2
  <2> QED BY <2>1, <2>2
<1>6. cache' \in [Keys -> BOOLEAN \cup {None}] /\ unshown' \subseteq Keys /\ CacheHonest'
  BY <1>1, <1>2 DEF SharedTyped, CacheHonest
<1> QED BY <1>1, <1>4, <1>5, <1>6, SendFine

\* A probe ends: answered, or failed and remembered as such.
LEMMA ProbedFine ==
  ASSUME IInv, NEW t \in Tasks, NEW v \in BOOLEAN, pc[t] = "probe", Send(t, v),
         cache' = [cache EXCEPT ![ProbeKey(t)] = v],
         unshown' \in {unshown, unshown \cup {ProbeKey(t)}},
         ~v => ModelOf(t) \notin Thinking \/ ProbeKey(t) \in unshown'
  PROVE  IInv'
<1>1. SharedTyped /\ CacheHonest BY DEF IInv
<1>2. ProbeKey(t) \in Keys /\ ProbeKey(t)[1] = ModelOf(t) /\ Probes(t)
  BY AtAModel DEF IInv, Counted, ProbeKey
<1>3. cache' \in [Keys -> BOOLEAN \cup {None}] /\ cache'[ProbeKey(t)] = v
      /\ \A k \in Keys : k # ProbeKey(t) => cache'[k] = cache[k]
  BY <1>1, <1>2 DEF SharedTyped
<1>4. unshown \subseteq unshown' /\ unshown' \subseteq Keys
  BY <1>1, <1>2 DEF SharedTyped
<1>5. CacheHonest'
  BY <1>1, <1>2, <1>3, <1>4 DEF CacheHonest
<1> QED BY <1>2, <1>3, <1>4, <1>5, SendFine

\* The probe answers, or it does not.
LEMMA ProbesFine == ASSUME IInv, NEW t \in Tasks, ProbeAnswers(t) \/ ProbeFails(t) PROVE IInv'
<1>1. CASE ProbeAnswers(t)
  <2>1. Shown(t) \in BOOLEAN /\ (~Shown(t) => ModelOf(t) \notin Thinking) BY DEF Shown
  <2>2. PICK v \in BOOLEAN : v = Shown(t) BY <2>1
  <2>3. /\ pc[t] = "probe" /\ Send(t, v) /\ cache' = [cache EXCEPT ![ProbeKey(t)] = v]
        /\ unshown' = unshown
    BY <1>1, <2>2 DEF ProbeAnswers
  <2>4. ~v => ModelOf(t) \notin Thinking BY <2>1, <2>2
  <2> QED BY <2>3, <2>4, ProbedFine
<1>2. CASE ProbeFails(t)
  <2>0. (ModelOf(t) \in Hinted) \in BOOLEAN OBVIOUS
  <2>1. PICK v \in BOOLEAN : v = (ModelOf(t) \in Hinted) BY <2>0, Zenon
  <2>2. /\ pc[t] = "probe" /\ Send(t, v) /\ cache' = [cache EXCEPT ![ProbeKey(t)] = v]
        /\ unshown' = unshown \cup {ProbeKey(t)}
    BY <1>2, <2>1 DEF ProbeFails
  <2> QED BY <2>2, ProbedFine
<1> QED BY <1>1, <1>2

\* An attempt fails with a transient error, and the policy has another.
LEMMA AgainFine ==
  ASSUME IInv, NEW t \in Tasks, pc[t] = "sent", HasAttempts(t), Again(t)
  PROVE  IInv'
<1>1. /\ pc' = [pc EXCEPT ![t] = "sleep"] /\ attempt' = [attempt EXCEPT ![t] = @ + 1]
      /\ UNCHANGED <<now, calls, call, at, failed, requests, breaker, probes>>
  BY DEF Again, Goto
<1>2. TasksTyped /\ SharedTyped /\ Counted(t) /\ Ordered(t) BY DEF IInv
<1>3. attempt[t] + 1 < MaxAttempts BY DEF HasAttempts
<1>4. pc'[t] = "sleep" /\ attempt'[t] = attempt[t] + 1 /\ Alone(t) /\ TasksTyped'
  BY <1>1, <1>2 DEF TasksTyped, Alone, Places
<1>5. at[t] \in Nat /\ attempt[t] \in Nat /\ at[t] \in 1..Len(Chain(call[t])) /\ Len(requests[t]) = Spent(t) + 1
      /\ Len(failed[t]) = at[t] - 1
  BY <1>2 DEF TasksTyped, Counted
<1>6. Spent(t)' = Spent(t) + 1
  <2>1. at[t] - 1 \in Nat BY <1>5
  <2>2. PICK x : x = MaxAttempts * (at[t] - 1) OBVIOUS
  <2>3. x \in Nat BY <2>1, <2>2, Product
  <2>4. Spent(t) = x + attempt[t] /\ Spent(t)' = x + (attempt[t] + 1)
    BY <1>1, <1>4, <2>2 DEF Spent
  <2> QED BY <1>5, <2>3, <2>4
<1>7. Counted(t)' BY <1>1, <1>2, <1>3, <1>4, <1>5, <1>6 DEF Counted
<1>8. Ordered(t)' BY <1>1, <1>2 DEF Ordered
<1>9. calls' \in 0..MaxCalls BY <1>1, <1>2 DEF SharedTyped
<1> QED BY <1>1, <1>4, <1>7, <1>8, <1>9, Quiet DEF Places

\* It has no other: the model is given up.
LEMMA NextModelFine ==
  ASSUME IInv, NEW t \in Tasks, pc[t] = "sent", ~HasAttempts(t), NextModel(t)
  PROVE  IInv'
<1>1. TasksTyped /\ SharedTyped /\ Counted(t) /\ Ordered(t) BY DEF IInv
<1>2. PICK c, n : c = call[t] /\ n = Len(Chain(c)) OBVIOUS
<1>3. /\ at[t] \in Nat /\ attempt[t] \in Nat /\ at[t] \in 1..n /\ attempt[t] + 1 = MaxAttempts
      /\ Len(requests[t]) = Spent(t) + 1 /\ Len(failed[t]) = at[t] - 1
      /\ c \in Calls /\ n \in Nat
  <2>1. at[t] \in 1..n /\ Len(requests[t]) = Spent(t) + 1 /\ Len(failed[t]) = at[t] - 1
        /\ c \in Calls /\ attempt[t] < MaxAttempts
    BY <1>1, <1>2 DEF Counted
  <2>2. at[t] \in Nat /\ attempt[t] \in Nat BY <1>1 DEF TasksTyped
  <2>3. attempt[t] + 1 = MaxAttempts BY <2>1, <2>2, NumberAssumption DEF HasAttempts
  <2>4. n \in Nat BY <1>2, <2>1, ChainTyped, LenProperties
  <2> QED BY <2>1, <2>2, <2>3, <2>4
<1>4. Len(requests[t]) = MaxAttempts * at[t]
  <2>1. PICK q : q = at[t] - 1 OBVIOUS
  <2>2. q \in Nat /\ at[t] = q + 1 BY <1>3, <2>1
  <2>3. PICK x : x = MaxAttempts * q OBVIOUS
  <2>4. x \in Nat /\ MaxAttempts * at[t] = x + MaxAttempts BY <2>2, <2>3, Product
  <2>5. Len(requests[t]) = x + attempt[t] + 1 BY <1>3, <2>1, <2>3 DEF Spent
  <2> QED BY <1>3, <2>4, <2>5, NumberAssumption
<1>5. ModelOf(t) = Chain(c)[at[t]] /\ ModelOf(t) \in Models
  BY <1>1, <1>2, AtAModel
<1>6. /\ failed' = [failed EXCEPT ![t] = Append(@, ModelOf(t))]
      /\ UNCHANGED <<now, calls, call, requests, breaker, probes>>
  BY DEF NextModel
<1>7. /\ failed'[t] \in Seq(Models) /\ Len(failed'[t]) = at[t]
      /\ DOMAIN failed'[t] = 1..at[t] /\ \A i \in 1..at[t] : failed'[t][i] = Chain(c)[i]
  <2>1. failed[t] \in Seq(Models) /\ failed'[t] = Append(failed[t], ModelOf(t))
    BY <1>1, <1>6 DEF TasksTyped
  <2>2. /\ failed'[t] \in Seq(Models) /\ Len(failed'[t]) = at[t]
        /\ failed'[t][at[t]] = ModelOf(t) /\ \A i \in 1..(at[t] - 1) : failed'[t][i] = failed[t][i]
    BY <1>3, <1>5, <2>1, AppendProperties
  <2>3. DOMAIN failed[t] = 1..(at[t] - 1) BY <1>3, <2>1, LenProperties
  <2>4. \A i \in 1..(at[t] - 1) : failed[t][i] = Chain(c)[i]
    BY <1>1, <1>2, <2>3 DEF Ordered
  <2>5. DOMAIN failed'[t] = 1..at[t] BY <2>2, LenProperties
  <2> QED BY <1>3, <1>5, <2>2, <2>4, <2>5
<1>8. failed' \in [Tasks -> Seq(Models)] /\ \A u \in Tasks \ {t} : failed'[u] = failed[u]
  BY <1>1, <1>6, <1>7 DEF TasksTyped
<1>9. Ordered(t)'
  BY <1>1, <1>2, <1>6, <1>7 DEF Ordered
<1>10. requests'[t] = requests[t] /\ call'[t] = call[t] /\ calls' \in 0..MaxCalls
  BY <1>1, <1>6 DEF SharedTyped
<1>11. CASE at[t] < n
  <2>1. /\ pc' = [pc EXCEPT ![t] = "attempt"] /\ at' = [at EXCEPT ![t] = @ + 1]
        /\ attempt' = [attempt EXCEPT ![t] = 0]
    BY <1>2, <1>11 DEF NextModel, Goto
  <2>2. pc'[t] = "attempt" /\ at'[t] = at[t] + 1 /\ attempt'[t] = 0 /\ Alone(t) /\ TasksTyped'
    BY <1>1, <1>6, <1>8, <2>1 DEF TasksTyped, Alone, Places
  <2>3. Spent(t)' = MaxAttempts * at[t]
    <3>1. at'[t] - 1 = at[t] BY <1>3, <2>2
    <3>2. MaxAttempts * at[t] \in Nat BY <1>3, Product
    <3>3. Spent(t)' = MaxAttempts * at[t] + 0 BY <2>2, <3>1 DEF Spent
    <3> QED BY <3>2, <3>3
  <2>4. at'[t] \in 1..Len(Chain(call'[t])) /\ call'[t] \in Calls
    BY <1>2, <1>3, <1>10, <1>11, <2>2
  <2>5. Counted(t)'
    <3>1. Len(failed'[t]) = at'[t] - 1 BY <1>3, <1>7, <2>2
    <3>2. Len(requests'[t]) = Spent(t)' BY <1>4, <1>10, <2>3
    <3>3. attempt'[t] < MaxAttempts BY <2>2, NumberAssumption
    <3> QED BY <2>2, <2>4, <3>1, <3>2, <3>3 DEF Counted
  <2> QED BY <1>6, <1>9, <1>10, <2>1, <2>2, <2>5, Quiet DEF Places
<1>12. CASE ~(at[t] < n)
  <2>1. pc' = [pc EXCEPT ![t] = "exhausted"] /\ at' = at /\ attempt' = attempt
    BY <1>2, <1>12 DEF NextModel, Goto
  <2>2. pc'[t] = "exhausted" /\ Alone(t) /\ TasksTyped'
    BY <1>1, <1>6, <1>8, <2>1 DEF TasksTyped, Alone, Places
  <2>3. at[t] = n BY <1>3, <1>12
  <2>4. Counted(t)'
    BY <1>1, <1>2, <1>3, <1>4, <1>7, <1>10, <2>1, <2>2, <2>3 DEF Counted
  <2> QED BY <1>6, <1>9, <1>10, <2>1, <2>2, <2>4, Quiet DEF Places
<1> QED BY <1>11, <1>12

\* A transient failure.
LEMMA FailedFine == ASSUME IInv, NEW t \in Tasks, Failed(t) PROVE IInv'
BY AgainFine, NextModelFine DEF Failed

\* The breaker is told; its count follows the streak.
LEMMA RecordFine == ASSUME IInv, NEW t \in Tasks, Record(t) PROVE IInv'
<1>1. PICK o : o = [ok |-> pc[t] = "ok", time |-> now] OBVIOUS
<1>2. /\ Rest(t) /\ outcomes' = Append(outcomes, o) /\ UNCHANGED <<now, calls, probes>>
      /\ IF o.ok THEN record_success ELSE record_failure
  BY <1>1 DEF Record
<1>3. PICK n : n = Len(outcomes) OBVIOUS
<1>4. SharedTyped /\ Streak /\ o \in Outcomes
  BY <1>1 DEF IInv, SharedTyped, Outcomes
<1>5. /\ outcomes' \in Seq(Outcomes) /\ n \in Nat /\ Len(outcomes') = n + 1 /\ outcomes'[n + 1] = o
      /\ \A i \in 1..n : outcomes'[i] = outcomes[i]
  BY <1>2, <1>3, <1>4, AppendProperties, LenProperties DEF SharedTyped
<1>6. /\ failures' \in Nat /\ opened_at' \in 0..MaxTime \cup {None} /\ Streak'
  <2>1. CASE o.ok
    <3>1. failures' = 0 /\ opened_at' = None BY <1>2, <2>1 DEF record_success
    <3>2. Streak' BY <1>5, <2>1, <3>1, NumberAssumption DEF Streak
    <3> QED BY <3>1, <3>2
  <2>2. CASE ~o.ok
    <3>1. failures' = failures + 1 /\ opened_at' = IF failures' >= Threshold THEN now ELSE opened_at
      BY <1>2, <2>2 DEF record_failure
    <3>2. failures \in 0..n /\ failures \in Nat /\ o.time = now BY <1>1, <1>3, <1>4 DEF Streak
    <3>3. opened_at' \in 0..MaxTime \cup {None} BY <1>4, <3>1 DEF SharedTyped
    <3>4. \A i \in ((n + 1) - failures' + 1)..(n + 1) : ~outcomes'[i].ok
      <4>0. failures' = failures + 1 BY <3>1
      <4>1. ASSUME NEW i \in ((n + 1) - failures' + 1)..(n + 1) PROVE ~outcomes'[i].ok
        <5>1. CASE i = n + 1 BY <1>5, <2>2, <5>1
        <5>2. CASE i # n + 1
          <6>1. i \in (n - failures + 1)..n /\ i \in 1..n
            <7>1. n \in Nat /\ failures \in Nat /\ failures <= n BY <1>5, <3>2
            <7>2. (n + 1) - failures' + 1 = n - failures + 1 BY <4>0, <7>1
            <7> QED BY <4>1, <5>2, <7>1, <7>2
          <6> QED BY <1>3, <1>4, <1>5, <6>1 DEF Streak
        <5> QED BY <5>1, <5>2
      <4> QED BY <4>1
    <3>5. failures' < n + 1 => outcomes'[(n + 1) - failures'].ok
      <4>1. SUFFICES ASSUME failures' < n + 1 PROVE outcomes'[(n + 1) - failures'].ok
        OBVIOUS
      <4>2. failures < n /\ (n + 1) - failures' = n - failures /\ n - failures \in 1..n
        BY <1>5, <3>1, <3>2, <4>1
      <4>3. outcomes[n - failures].ok BY <1>3, <1>4, <4>2 DEF Streak
      <4> QED BY <1>5, <4>2, <4>3
    <3>6. failures' >= Threshold => opened_at' = outcomes'[n + 1].time
      BY <1>5, <3>1, <3>2
    <3>7. failures' \in 0..(n + 1) BY <1>5, <3>1, <3>2
    <3>8. failures' \in Nat BY <1>5, <3>7
    <3>9. Len(outcomes') = n + 1 BY <1>5
    <3>10. Streak' BY <3>4, <3>5, <3>6, <3>7, <3>9 DEF Streak
    <3> QED BY <3>3, <3>8, <3>10
  <2> QED BY <2>1, <2>2
<1>7. /\ pc' = [pc EXCEPT ![t] = "idle"] /\ Alone(t) /\ TasksTyped'
      /\ requests'[t] = <<>> /\ (Counted(t) /\ Ordered(t))'
  BY <1>2, Rested
<1>8. pc'[t] = "idle" BY <1>7 DEF IInv, TasksTyped
<1>9. \A u \in Tasks : Ways(u)' BY <1>2, <1>7, <1>8, WaysKept
<1>10. SharedTyped' /\ CacheHonest'
  BY <1>2, <1>4, <1>5, <1>6 DEF SharedTyped, CacheHonest, probes, IInv
<1> QED BY <1>6, <1>7, <1>9, <1>10, Together

\* Time passes, or nothing happens.
LEMMA OthersFine == ASSUME IInv, Tick \/ UNCHANGED vars PROVE IInv'
<1>1. /\ UNCHANGED <<calls, pc, callVars, breaker, probes>> /\ now' \in 0..MaxTime
  BY NumberAssumption DEF Tick, vars, IInv, SharedTyped
<1>2. (SharedTyped /\ TasksTyped /\ CacheHonest /\ Streak)'
  BY <1>1 DEF IInv, SharedTyped, TasksTyped, CacheHonest, Streak, callVars, breaker, probes
<1>3. ASSUME NEW t \in Tasks PROVE (Counted(t) /\ Ordered(t))'
  BY <1>1, Same DEF IInv, callVars
<1>4. ASSUME NEW t \in Tasks PROVE Ways(t)'
  <2>1. \A u \in Tasks : ProbeKey(u)' = ProbeKey(u) BY <1>1 DEF ProbeKey, ModelOf, callVars
  <2> QED BY <1>1, <2>1 DEF IInv, Ways, Misled, Settled, Fixed, Cached, callVars, probes
<1> QED BY <1>2, <1>3, <1>4 DEF IInv

\* Every step preserves the invariant.
LEMMA NextIInv == IInv /\ [Next]_vars => IInv'
<1> SUFFICES ASSUME IInv, [Next]_vars PROVE IInv'
  OBVIOUS
<1>1. ASSUME NEW t \in Tasks, Step(t) PROVE IInv'
  BY <1>1, MovesFine, BeginSendFine, ProbesFine, FailedFine, RecordFine DEF Step
<1>2. ASSUME NEW t \in Tasks, \/ \E c \in Calls : Complete(t, c)
                              \/ Cancel(t)
      PROVE  IInv'
  BY <1>2, CompleteFine, CancelFine
<1> QED BY <1>1, <1>2, OthersFine DEF Next

\* The initial states satisfy it.
LEMMA InitIInv == Init => IInv
<1> SUFFICES ASSUME Init PROVE IInv
  OBVIOUS
<1> USE DEF Init
<1>1. <<>> \in Seq(Models) /\ <<>> \in Seq(Requests) /\ <<>> \in Seq(Outcomes)
      /\ Len(<<>>) = 0 /\ DOMAIN <<>> = {}
  BY EmptySeq
<1>2. SharedTyped /\ TasksTyped
  BY <1>1, NumberAssumption DEF SharedTyped, TasksTyped, Places
<1>3. CacheHonest BY NoneAssumption DEF CacheHonest
<1>4. Streak BY <1>1, NumberAssumption DEF Streak
<1>5. ASSUME NEW t \in Tasks PROVE Counted(t) /\ Ordered(t) /\ Ways(t)
  <2>1. pc[t] = "idle" /\ requests[t] = <<>> /\ failed[t] = <<>> /\ at[t] = 1 /\ attempt[t] = 0
    OBVIOUS
  <2>2. Counted(t) BY <2>1, <1>1, NumberAssumption DEF Counted
  <2>3. Ordered(t) /\ Ways(t) BY <2>1, <1>1 DEF Ordered, Ways
  <2> QED BY <2>2, <2>3
<1> QED BY <1>2, <1>3, <1>4, <1>5 DEF IInv

-----------------------------------------------------------------------------
(* The theorems. *)

\* The invariant holds in every reachable state.
THEOREM Invariance == Spec => []IInv
BY InitIInv, NextIInv, PTL DEF Spec

\* Every reachable state is well formed.
THEOREM TypeCorrect == Spec => []TypeOK
<1>1. IInv => TypeOK
  <2> SUFFICES ASSUME IInv PROVE TypeOK
    OBVIOUS
  <2>1. SharedTyped /\ TasksTyped BY DEF IInv
  <2>2. ASSUME NEW t \in Tasks
        PROVE  /\ at[t] \in 1..(Len(Fallbacks) + 1) /\ attempt[t] \in 0..(MaxAttempts - 1)
               /\ \A i \in DOMAIN failed[t] : failed[t][i] \in Models
               /\ \A i \in DOMAIN requests[t] : requests[t][i] \in Requests
    <3>1. Counted(t) BY DEF IInv
    <3>2. Len(Fallbacks) \in Nat BY ChainAssumption, LenProperties
    <3>3. at[t] \in 1..(Len(Fallbacks) + 1)
      <4>1. CASE pc[t] = "idle" BY <3>1, <3>2, <4>1 DEF Counted
      <4>2. CASE pc[t] # "idle"
        <5>1. call[t] \in Calls /\ at[t] \in 1..Len(Chain(call[t])) BY <3>1, <4>2 DEF Counted
        <5>2. Len(Chain(call[t])) <= Len(Fallbacks) + 1 /\ Len(Chain(call[t])) \in Nat
          BY <5>1, ChainTyped, LenProperties
        <5> QED BY <3>2, <5>1, <5>2
      <4> QED BY <4>1, <4>2
    <3>4. attempt[t] \in 0..(MaxAttempts - 1)
      BY <2>1, <3>1, NumberAssumption DEF TasksTyped, Counted
    <3>5. failed[t] \in Seq(Models) /\ requests[t] \in Seq(Requests) BY <2>1 DEF TasksTyped
    <3>6. \A i \in DOMAIN failed[t] : failed[t][i] \in Models BY <3>5, LenProperties, ElementOfSeq
    <3>7. \A i \in DOMAIN requests[t] : requests[t][i] \in Requests BY <3>5, LenProperties, ElementOfSeq
    <3> QED BY <3>3, <3>4, <3>6, <3>7
  <2>3. at \in [Tasks -> 1..(Len(Fallbacks) + 1)] /\ attempt \in [Tasks -> 0..(MaxAttempts - 1)]
    BY <2>1, <2>2 DEF TasksTyped
  <2> QED BY <2>1, <2>2, <2>3 DEF TypeOK, SharedTyped, TasksTyped, Places
<1> QED BY <1>1, Invariance, PTL

\* Models are asked in their order, each as often as the policy allows.
THEOREM ChainsAreFollowed == Spec => []InOrder
<1>1. IInv => InOrder
  <2> SUFFICES ASSUME IInv, NEW t \in Tasks, call[t] # None
               PROVE  LET chain == Chain(call[t])
                          spent == MaxAttempts * Len(failed[t]) IN
                      /\ \A i \in DOMAIN requests[t] :
                             requests[t][i].model = chain[(i - 1) \div MaxAttempts + 1]
                      /\ Len(requests[t]) >= spent
                      /\ failed[t] = SubSeq(chain, 1, Len(failed[t]))
                      /\ pc[t] = "exhausted" => failed[t] = chain /\ Len(requests[t]) = spent
    BY DEF InOrder
  <2>1. Counted(t) /\ Ordered(t) /\ failed[t] \in Seq(Models) /\ attempt[t] \in Nat /\ at[t] \in Nat
    BY DEF IInv, TasksTyped
  <2>2. PICK n : n = Len(failed[t]) OBVIOUS
  <2>3. PICK x : x = MaxAttempts * n OBVIOUS
  <2>4. n \in Nat /\ x \in Nat /\ DOMAIN failed[t] = 1..n
    BY <2>1, <2>2, <2>3, LenProperties, Product
  <2>5. CASE pc[t] = "idle"
    <3>1. failed[t] = <<>> /\ requests[t] = <<>> /\ n = 0 BY <2>1, <2>2, <2>5 DEF Counted
    <3>2. x = 0 BY <2>3, <3>1, NumberAssumption
    <3>3. SubSeq(Chain(call[t]), 1, 0) = <<>> BY SubSeqEmpty
    <3>4. Len(requests[t]) = 0 /\ DOMAIN requests[t] = {} BY <3>1
    <3> QED BY <2>2, <2>3, <2>5, <3>1, <3>2, <3>3, <3>4
  <2>6. CASE pc[t] # "idle"
    <3>1. call[t] \in Calls /\ at[t] \in 1..Len(Chain(call[t])) BY <2>1, <2>6 DEF Counted
    <3>2. Chain(call[t]) \in Seq(Models) BY <3>1, ChainTyped
    <3>3. n <= Len(Chain(call[t])) /\ Len(Chain(call[t])) \in Nat
      BY <2>1, <2>2, <2>6, <3>1, <3>2, LenProperties DEF Counted
    <3>4. failed[t] = SubSeq(Chain(call[t]), 1, n)
      <4>1. ASSUME NEW i \in 1..n PROVE Chain(call[t])[i] \in Models
        <5>1. i \in 1..Len(Chain(call[t])) BY <2>4, <3>3
        <5> QED BY <3>2, <5>1, ElementOfSeq
      <4>2. /\ SubSeq(Chain(call[t]), 1, n) \in Seq(Models) /\ Len(SubSeq(Chain(call[t]), 1, n)) = n
            /\ \A i \in 1..n : SubSeq(Chain(call[t]), 1, n)[i] = Chain(call[t])[i]
        BY <2>4, <4>1, SubSeqProperties
      <4>3. \A i \in 1..n : failed[t][i] = Chain(call[t])[i] BY <2>1, <2>4 DEF Ordered
      <4> QED BY <2>1, <2>2, <4>2, <4>3, SeqEqual
    <3>5. Len(requests[t]) >= x
      <4>1. CASE pc[t] = "exhausted" BY <2>1, <2>2, <2>3, <2>4, <4>1 DEF Counted
      <4>2. CASE pc[t] # "exhausted"
        <5>1. n = at[t] - 1 BY <2>1, <2>2, <4>2 DEF Counted
        <5>2. Spent(t) = x + attempt[t] BY <2>3, <5>1 DEF Spent
        <5>3. Len(requests[t]) \in {Spent(t), Spent(t) + 1}
          <6>1. pc[t] \in Places BY DEF IInv, TasksTyped
          <6> QED BY <2>1, <2>6, <4>2, <6>1 DEF Counted, Places
        <5> QED BY <2>1, <2>4, <5>2, <5>3
      <4> QED BY <4>1, <4>2
    <3>6. pc[t] = "exhausted" => failed[t] = Chain(call[t]) /\ Len(requests[t]) = x
      <4>1. SUFFICES ASSUME pc[t] = "exhausted" PROVE failed[t] = Chain(call[t]) /\ Len(requests[t]) = x
        OBVIOUS
      <4>2. n = Len(Chain(call[t])) /\ Len(requests[t]) = MaxAttempts * n
        BY <2>1, <2>2, <4>1 DEF Counted
      <4> QED BY <2>3, <3>2, <3>4, <4>2, SubSeqFull
    <3> QED BY <2>1, <2>2, <2>3, <3>4, <3>5, <3>6 DEF Ordered
  <2> QED BY <2>5, <2>6
<1> QED BY <1>1, Invariance, PTL

\* A thinking model is asked to think only where a probe failed or tools are in play.
THEOREM OnlyDeadProbesDo == Spec => []OnlyDeadProbesMislead
<1>1. IInv => OnlyDeadProbesMislead
  BY DEF IInv, Ways, Misled, Key, OnlyDeadProbesMislead
<1> QED BY <1>1, Invariance, PTL

\* A call does not change its way to a model unless another task's probe was out.
THEOREM WaysAreSettled == Spec => []SettledWay
<1>1. IInv => SettledWay BY DEF IInv, Ways, SettledWay
<1> QED BY <1>1, Invariance, PTL

\* The breaker keeps calls out for the recovery time after every streak of failures.
THEOREM BreakerKeepsOut == Spec => OpenKeepsOut
<1>1. IInv /\ [Next]_vars =>
        [LET n == Len(outcomes) IN
         (calls' # calls /\ n >= Threshold /\ \A i \in (n - Threshold + 1)..n : ~outcomes[i].ok)
             => now - outcomes[n].time >= Recovery]_vars
  <2> SUFFICES ASSUME IInv, Next, calls' # calls, Len(outcomes) >= Threshold,
                      \A i \in (Len(outcomes) - Threshold + 1)..Len(outcomes) : ~outcomes[i].ok
               PROVE  now - outcomes[Len(outcomes)].time >= Recovery
    BY DEF vars
  <2>1. ~is_open
    BY DEF Next, Step, Complete, BeginProbe, BeginSend, ProbeAnswers, ProbeFails, ProbeGarbled,
           Answered, Refused, Failed, Again, NextModel, Wake, Record, Cancel, Tick, Send, Leave
  <2>2. PICK n : n = Len(outcomes) OBVIOUS
  <2>3. n \in Nat /\ failures \in 0..n /\ outcomes \in Seq(Outcomes) /\ now \in 0..MaxTime
    BY <2>2, LenProperties DEF IInv, Streak, SharedTyped
  <2>4. failures >= Threshold
    <3>1. SUFFICES ASSUME failures < Threshold PROVE FALSE
      BY <2>3, NumberAssumption
    <3>2. failures < n /\ n - failures \in (n - Threshold + 1)..n
      BY <2>2, <2>3, <3>1, NumberAssumption
    <3>3. outcomes[n - failures].ok BY <2>2, <3>2 DEF IInv, Streak
    <3> QED BY <2>2, <3>2, <3>3
  <2>5. opened_at = outcomes[n].time BY <2>2, <2>4 DEF IInv, Streak
  <2>6. outcomes[n].time \in 0..MaxTime
    <3>1. n \in 1..n BY <2>2, <2>3, NumberAssumption
    <3>2. outcomes[n] \in Outcomes BY <2>2, <2>3, <3>1, ElementOfSeq
    <3> QED BY <3>2 DEF Outcomes
  <2>7. opened_at # None BY <2>5, <2>6, NoneAssumption
  <2> QED BY <2>1, <2>2, <2>3, <2>5, <2>6, <2>7, NumberAssumption DEF is_open
<1> QED BY <1>1, Invariance, PTL DEF Spec, OpenKeepsOut
=============================================================================
