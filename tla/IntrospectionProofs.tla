------------------------- MODULE IntrospectionProofs -------------------------
(***************************************************************************)
(* The safety of token introspection, for any number of tokens and tasks,  *)
(* any TTL and any error of the wall clock.  The argument: what the auth   *)
(* server said of a token was true after the question was sent, so what is *)
(* cached is at most a latency old, and nothing is cached longer than TTL. *)
(***************************************************************************)
EXTENDS Introspection, TLAPS

\* Questions are on time, and answers were true when they were given.
InFlight(c) ==
    /\ pc[c] # "introspecting" => answer[c] = "none"
    /\ pc[c] = "introspecting" => sentAt[c] <= now /\ now <= sentAt[c] + MaxLatency
    /\ answer[c] = "active" =>
          /\ token[c] \in revoked => sentAt[c] <= revokedAt[token[c]]
          /\ exp[token[c]] # 0 => sentAt[c] < exp[token[c]]
    /\ answer[c] = "inactive" => ~Alive(token[c])

\* A live entry that has been overtaken does not live long.
Honest(t) ==
    Live(t) =>
      /\ entry[t].active /\ t \in revoked =>
            entry[t].expires <= revokedAt[t] + MaxLatency + TTL
      /\ entry[t].active /\ exp[t] # 0 => entry[t].expires <= exp[t] + MaxSkew
      /\ ~entry[t].active /\ Alive(t) =>
            failedAt[t] # Never /\ entry[t].expires <= failedAt[t] + TTL

IInv ==
    /\ TypeOK
    /\ \A t \in Tokens : Honest(t) /\ (t \in revoked => revokedAt[t] <= now)
    /\ \A c \in Tasks : InFlight(c)

\* An idle task's token is a token.
LEMMA NoTokenIsToken == NoToken \in Tokens
<1>1. PICK t : t \in Tokens
  BY TokensAssumption, Zenon
<1> QED BY <1>1, Zenon DEF NoToken

\* What is set has a life of TTL at most.
LEMMA LifetimeRange ==
    ASSUME TypeOK, NEW t \in Tokens, NEW active \in BOOLEAN
    PROVE  /\ Lifetime(t, active) \in 0..TTL
           /\ active /\ exp[t] # 0 /\ Lifetime(t, active) > 0
                => now + Lifetime(t, active) <= exp[t] + MaxSkew
<1>1. now \in Int /\ skew \in Int /\ -MaxSkew <= skew
  BY TimesAssumption DEF TypeOK
<1>2. exp[t] \in Expiries
  BY DEF TypeOK
<1>3. exp[t] \in Nat
  BY <1>2, ExpiriesAssumption
<1> QED BY <1>1, <1>3, TimesAssumption DEF Lifetime, Larger

\* The initial states satisfy the invariant.
LEMMA InitIInv == Init => IInv
<1> SUFFICES ASSUME Init PROVE IInv
  OBVIOUS
<1>1. TypeOK
  BY TimesAssumption, NoTokenIsToken DEF Init, TypeOK, Entries, NoEntry
<1>2. \A t \in Tokens : entry[t] = NoEntry /\ now = 0 /\ revoked = {}
  BY DEF Init
<1>3. \A c \in Tasks : InFlight(c)
  BY DEF Init, InFlight
<1> QED BY <1>1, <1>2, <1>3 DEF IInv, Honest, Live, NoEntry

\* What filling the cache does, for an answer and for a failure.
LEMMA SetStep ==
    ASSUME IInv, NEW c \in Tasks, NEW active \in BOOLEAN,
           pc[c] = "introspecting", Set(token[c], active), Finish(c, active),
           answer' = [answer EXCEPT ![c] = "none"],
           sentAt' = [sentAt EXCEPT ![c] = 0],
           UNCHANGED <<now, skew, exp, revoked, revokedAt, token>>,
           \/ UNCHANGED failedAt /\ answer[c] # "none" /\ active = (answer[c] = "active")
           \/ failedAt' = [failedAt EXCEPT ![token[c]] = now] /\ ~active
    PROVE  IInv'
<1> DEFINE t0 == token[c]
           life == Lifetime(t0, active)
           new == [active |-> active, expires |-> now + life]
<1>1. /\ t0 \in Tokens /\ now \in Nat /\ exp[t0] \in Nat /\ revokedAt[t0] \in Nat
      /\ sentAt[c] \in Nat
  BY ExpiriesAssumption DEF IInv, TypeOK
<1>2. life \in 0..TTL /\ (active /\ exp[t0] # 0 /\ life > 0 => now + life <= exp[t0] + MaxSkew)
  BY <1>1, LifetimeRange DEF IInv
<1>3. entry' = [entry EXCEPT ![t0] = new]
  BY DEF Set
<1> HIDE DEF life
<1>4. now + life \in Nat /\ now + life <= now + TTL
  BY <1>1, <1>2, TimesAssumption
<1>5. TypeOK'
  <2>1. entry' \in [Tokens -> Entries]
    BY <1>1, <1>3, <1>4 DEF IInv, TypeOK, Entries
  <2>2. \A t \in Tokens : entry'[t].expires <= now' + TTL
    BY <1>1, <1>3, <1>4 DEF IInv, TypeOK
  <2>3. failedAt' \in [Tokens -> Nat \cup {Never}]
    BY <1>1 DEF IInv, TypeOK
  <2>4. pc' \in [Tasks -> {"idle", "introspecting", "done"}] /\ verdict' \in [Tasks -> BOOLEAN]
    BY DEF IInv, TypeOK, Finish
  <2> QED BY <2>1, <2>2, <2>3, <2>4 DEF IInv, TypeOK
<1>6. ASSUME NEW d \in Tasks PROVE InFlight(d)'
  <2>1. CASE d = c
    BY <2>1 DEF IInv, TypeOK, Finish, InFlight
  <2>2. CASE d # c
    BY <2>2 DEF IInv, TypeOK, Finish, InFlight, Alive, Unexpired
  <2> QED BY <2>1, <2>2
<1>7. InFlight(c)
  BY DEF IInv
<1>8. ASSUME NEW t \in Tokens PROVE Honest(t)'
  <2>1. CASE t = t0
    <3>1. entry'[t] = new
      BY <1>1, <1>3, <2>1 DEF IInv, TypeOK
    <3>2. CASE answer[c] = "active" /\ active
      <4>1. /\ sentAt[c] <= now /\ now <= sentAt[c] + MaxLatency
            /\ t0 \in revoked => sentAt[c] <= revokedAt[t0]
        BY <1>7, <3>2 DEF InFlight
      <4>2. t0 \in revoked => now + life <= revokedAt[t0] + MaxLatency + TTL
        BY <1>1, <1>2, <4>1, TimesAssumption
      <4>3. now + life > now /\ exp[t0] # 0 => now + life <= exp[t0] + MaxSkew
        BY <1>1, <1>2, <3>2, TimesAssumption
      <4> QED BY <4>2, <4>3, <2>1, <3>1, <3>2 DEF Honest, Live
    <3>3. CASE answer[c] = "inactive" /\ ~active /\ UNCHANGED failedAt
      <4>1. ~Alive(t0)
        BY <1>7, <3>3 DEF InFlight
      <4>2. ~Alive(t)'
        BY <4>1, <2>1 DEF Alive, Unexpired
      <4> QED BY <4>2, <3>1, <3>3 DEF Honest
    <3>4. CASE ~active /\ failedAt' = [failedAt EXCEPT ![t0] = now]
      <4>1. failedAt'[t] = now
        BY <2>1, <3>4, <1>1 DEF IInv, TypeOK
      <4> QED BY <4>1, <1>1, <1>4, <3>1, <3>4 DEF Honest, Live, Never
    <3>5. answer[c] \in {"none", "active", "inactive"}
      BY DEF IInv, TypeOK
    <3> QED BY <3>2, <3>3, <3>4, <3>5
  <2>2. CASE t # t0
    <3>1. entry'[t] = entry[t] /\ failedAt'[t] = failedAt[t]
      BY <1>1, <1>3, <2>2 DEF IInv, TypeOK
    <3> QED BY <3>1 DEF IInv, Honest, Live, Alive, Unexpired
  <2> QED BY <2>1, <2>2
<1> QED BY <1>5, <1>6, <1>8 DEF IInv

\* Steps that leave the cache and the tokens alone.
LEMMA TaskSteps ==
    ASSUME IInv, NEW c \in Tasks,
           (\E t \in Tokens : Hit(c, t) \/ Miss(c, t)) \/ Decide(c) \/ Return(c)
    PROVE  IInv'
<1>1. \A t \in Tokens : Honest(t) = Honest(t)'
  BY DEF Hit, Miss, Decide, Return, Honest, Live, Alive, Unexpired
<1>2. TypeOK'
  <2>1. ASSUME NEW t \in Tokens, Hit(c, t) PROVE TypeOK'
    BY <2>1 DEF IInv, TypeOK, Hit, Finish, Entries
  <2>2. ASSUME NEW t \in Tokens, Miss(c, t) PROVE TypeOK'
    BY <2>2 DEF IInv, TypeOK, Miss
  <2>3. CASE Decide(c)
    BY <2>3 DEF IInv, TypeOK, Decide
  <2>4. CASE Return(c)
    BY <2>4, NoTokenIsToken DEF IInv, TypeOK, Return
  <2> QED BY <2>1, <2>2, <2>3, <2>4
<1>3. ASSUME NEW d \in Tasks, d # c PROVE InFlight(d)'
  BY <1>3 DEF IInv, TypeOK, Hit, Miss, Decide, Return, Finish, InFlight, Alive, Unexpired
<1>4. InFlight(c)'
  <2>1. ASSUME NEW t \in Tokens, Hit(c, t) PROVE InFlight(c)'
    BY <2>1 DEF IInv, TypeOK, Hit, Finish, InFlight
  <2>2. ASSUME NEW t \in Tokens, Miss(c, t) PROVE InFlight(c)'
    BY <2>2, TimesAssumption DEF IInv, TypeOK, Miss, InFlight
  <2>3. CASE Decide(c)
    <3>1. /\ token[c] \in Tokens /\ exp[token[c]] \in Nat /\ now \in Nat /\ sentAt[c] \in Nat
      BY ExpiriesAssumption DEF IInv, TypeOK
    <3> QED BY <2>3, <3>1 DEF IInv, TypeOK, Decide, InFlight, Alive, Unexpired
  <2>4. CASE Return(c)
    BY <2>4 DEF IInv, TypeOK, Return, InFlight
  <2> QED BY <2>1, <2>2, <2>3, <2>4
<1>5. UNCHANGED <<now, revoked, revokedAt>>
  BY DEF Hit, Miss, Decide, Return
<1> QED BY <1>1, <1>2, <1>3, <1>4, <1>5 DEF IInv

\* Dropping entries, revoking a token, setting the clock and letting it run.
LEMMA WorldSteps ==
    ASSUME IInv, (\E ts \in SUBSET Tokens : Drop(ts)) \/ (\E t \in Tokens : Revoke(t))
                 \/ AdjustClock \/ Tick
    PROVE  IInv'
<1> USE TimesAssumption, ExpiriesAssumption
<1>1. ASSUME NEW ts \in SUBSET Tokens, Drop(ts) PROVE IInv'
  <2>1. TypeOK'
    BY <1>1 DEF IInv, TypeOK, Drop, Entries, NoEntry
  <2>2. \A t \in Tokens : Honest(t)'
    BY <1>1 DEF IInv, TypeOK, Drop, Honest, Live, Alive, Unexpired, NoEntry
  <2> QED BY <1>1, <2>1, <2>2 DEF IInv, Drop, InFlight, Alive, Unexpired
<1>2. ASSUME NEW u \in Tokens, Revoke(u) PROVE IInv'
  <2>1. TypeOK'
    BY <1>2 DEF IInv, TypeOK, Revoke
  <2>2. ASSUME NEW t \in Tokens PROVE Honest(t)' /\ (t \in revoked => revokedAt[t] <= now)'
    <3>1. entry[t].expires \in Nat /\ entry[t].expires <= now + TTL /\ now \in Nat /\ exp[t] \in Nat
      BY DEF IInv, TypeOK, Entries
    <3>2. Honest(t) /\ (t \in revoked => revokedAt[t] <= now)
      BY DEF IInv
    <3>3. CASE t = u
      BY <1>2, <3>1, <3>2, <3>3 DEF IInv, TypeOK, Revoke, Honest, Live, Alive, Unexpired
    <3>4. CASE t # u
      BY <1>2, <3>1, <3>2, <3>4 DEF IInv, TypeOK, Revoke, Honest, Live, Alive, Unexpired
    <3> QED BY <3>3, <3>4
  <2>3. ASSUME NEW c \in Tasks PROVE InFlight(c)'
    <3>1. token[c] \in Tokens /\ sentAt[c] \in Nat /\ now \in Nat /\ InFlight(c)
      BY DEF IInv, TypeOK
    <3> QED BY <1>2, <3>1 DEF IInv, TypeOK, Revoke, InFlight, Alive, Unexpired
  <2> QED BY <2>1, <2>2, <2>3 DEF IInv
<1>3. CASE AdjustClock
  BY <1>3 DEF IInv, TypeOK, AdjustClock, Honest, InFlight, Live, Alive, Unexpired
<1>4. CASE Tick
  <2>1. TypeOK'
    BY <1>4 DEF IInv, TypeOK, Tick, Entries
  <2>2. ASSUME NEW t \in Tokens PROVE Honest(t)' /\ (t \in revoked => revokedAt[t] <= now)'
    <3>1. /\ entry[t].expires \in Nat /\ now \in Nat /\ exp[t] \in Nat /\ revokedAt[t] \in Nat
          /\ Honest(t) /\ (t \in revoked => revokedAt[t] <= now)
      BY DEF IInv, TypeOK, Entries
    <3> QED BY <1>4, <3>1 DEF Tick, Honest, Live, Alive, Unexpired
  <2>3. ASSUME NEW c \in Tasks PROVE InFlight(c)'
    <3>1. /\ token[c] \in Tokens /\ sentAt[c] \in Nat /\ now \in Nat /\ InFlight(c)
          /\ exp[token[c]] \in Nat
      BY DEF IInv, TypeOK
    <3> QED BY <1>4, <3>1 DEF Tick, InFlight, Alive, Unexpired
  <2> QED BY <2>1, <2>2, <2>3 DEF IInv
<1> QED BY <1>1, <1>2, <1>3, <1>4

\* Every step preserves the invariant.
LEMMA NextIInv == IInv /\ [Next]_vars => IInv'
<1> SUFFICES ASSUME IInv, [Next]_vars PROVE IInv'
  OBVIOUS
<1>1. CASE UNCHANGED vars
  BY <1>1 DEF vars, IInv, TypeOK, Honest, InFlight, Live, Alive, Unexpired
<1>2. ASSUME NEW c \in Tasks, Answered(c) PROVE IInv'
  BY <1>2, SetStep DEF Answered
<1>3. ASSUME NEW c \in Tasks, Fails(c) PROVE IInv'
  BY <1>3, SetStep DEF Fails
<1>4. ASSUME NEW t \in Tokens, Invalidate(t) PROVE IInv'
  BY <1>4, WorldSteps DEF Invalidate
<1>5. CASE Clear
  BY <1>5, WorldSteps DEF Clear
<1> QED BY <1>1, <1>2, <1>3, <1>4, <1>5, TaskSteps, WorldSteps DEF Next

\* The invariant holds in every reachable state.
THEOREM Invariance == Spec => []IInv
BY InitIInv, NextIInv, PTL DEF Spec

\* Every reachable state is well typed.
THEOREM TypeCorrect == Spec => []TypeOK
<1>1. IInv => TypeOK
  BY DEF IInv
<1> QED BY <1>1, Invariance, PTL

\* How a task comes by its verdict.
LEMMA Verdicts ==
    ASSUME IInv, [Next]_vars, NEW c \in Tasks, pc[c] # "done", pc'[c] = "done"
    PROVE  \/ \E t \in Tokens : Hit(c, t)
           \/ Answered(c)
           \/ Fails(c)
<1> USE DEF IInv, TypeOK
<1>1. CASE UNCHANGED vars
  BY <1>1 DEF vars
<1>2. ASSUME NEW d \in Tasks, d # c,
             (\E t \in Tokens : Hit(d, t)) \/ Answered(d) \/ Fails(d)
      PROVE  FALSE
  BY <1>2 DEF Hit, Answered, Fails, Finish
<1>3. ASSUME NEW d \in Tasks, (\E t \in Tokens : Miss(d, t)) \/ Decide(d) \/ Return(d)
      PROVE  FALSE
  BY <1>3 DEF Miss, Decide, Return
<1>4. ASSUME NEW t \in Tokens, Invalidate(t) \/ Revoke(t)
      PROVE  FALSE
  BY <1>4 DEF Invalidate, Drop, Revoke
<1>5. ASSUME Clear \/ AdjustClock \/ Tick
      PROVE  FALSE
  BY <1>5 DEF Clear, Drop, AdjustClock, Tick
<1> QED BY <1>1, <1>2, <1>3, <1>4, <1>5 DEF Next

\* The numbers around a task's verdict, and what is known of its token.
LEMMA AtVerdict ==
    ASSUME IInv, NEW c \in Tasks,
           (\E t \in Tokens : Hit(c, t)) \/ Answered(c) \/ Fails(c)
    PROVE  LET t == token'[c]
           IN  /\ t \in Tokens /\ now \in Nat /\ exp[t] \in Nat /\ revokedAt[t] \in Nat
               /\ verdict'[c] /\ t \in revoked => now <= revokedAt[t] + MaxLatency + TTL
               /\ verdict'[c] /\ exp[t] # 0 => now < exp[t] + Larger(MaxSkew, MaxLatency)
               /\ ~verdict'[c] /\ Alive(t) =>
                     failedAt'[t] # Never /\ now <= failedAt'[t] + TTL
<1> USE TimesAssumption, ExpiriesAssumption
<1>1. ASSUME NEW t \in Tokens, Hit(c, t)
      PROVE  /\ token'[c] = t /\ Live(t) /\ verdict'[c] = entry[t].active
             /\ failedAt' = failedAt /\ entry[t].expires \in Nat /\ Honest(t)
  BY <1>1 DEF IInv, TypeOK, Hit, Finish, Entries
<1>2. ASSUME NEW t \in Tokens
      PROVE  now \in Nat /\ exp[t] \in Nat /\ revokedAt[t] \in Nat /\ failedAt[t] \in Nat \cup {Never}
  BY DEF IInv, TypeOK
<1>3. CASE \E t \in Tokens : Hit(c, t)
  BY <1>1, <1>2, <1>3 DEF Honest, Live, Larger, Never
<1>4. CASE Answered(c)
  <2>1. /\ token'[c] = token[c] /\ token[c] \in Tokens /\ sentAt[c] \in Nat
        /\ verdict'[c] = (answer[c] = "active") /\ answer[c] # "none" /\ InFlight(c)
        /\ pc[c] = "introspecting" /\ answer[c] \in {"none", "active", "inactive"}
    BY <1>4 DEF IInv, TypeOK, Answered, Finish
  <2>2. /\ sentAt[c] <= now /\ now <= sentAt[c] + MaxLatency
        /\ verdict'[c] /\ token[c] \in revoked => sentAt[c] <= revokedAt[token[c]]
        /\ verdict'[c] /\ exp[token[c]] # 0 => sentAt[c] < exp[token[c]]
        /\ ~verdict'[c] => ~Alive(token[c])
    BY <2>1 DEF InFlight
  <2>3. MaxLatency <= Larger(MaxSkew, MaxLatency) /\ Larger(MaxSkew, MaxLatency) \in Nat
    BY DEF Larger
  <2> HIDE DEF Never
  <2> QED BY <1>2, <2>1, <2>2, <2>3
<1>5. CASE Fails(c)
  <2>1. /\ token'[c] = token[c] /\ token[c] \in Tokens /\ verdict'[c] = FALSE
        /\ failedAt'[token[c]] = now
    BY <1>5 DEF IInv, TypeOK, Fails, Finish
  <2> QED BY <1>2, <2>1 DEF Never
<1> QED BY <1>3, <1>4, <1>5

\* A revoked token is soon rejected.
THEOREM RevokedIsRejected == Spec => RevocationTakesEffect
<1>1. IInv /\ [Next]_vars =>
        [\A c \in Tasks : Accepts(c) /\ token'[c] \in revoked
            => now <= revokedAt[token'[c]] + MaxLatency + TTL]_vars
  BY Verdicts, AtVerdict DEF Accepts
<1> QED BY <1>1, Invariance, PTL DEF Spec, RevocationTakesEffect

\* An expired token is rejected, up to the error of the clock.
THEOREM ExpiredIsRejected == Spec => ExpiryTakesEffect
<1>1. IInv /\ [Next]_vars =>
        [\A c \in Tasks : Accepts(c) /\ exp[token'[c]] # 0
            => now < exp[token'[c]] + Larger(MaxSkew, MaxLatency)]_vars
  BY Verdicts, AtVerdict DEF Accepts
<1> QED BY <1>1, Invariance, PTL DEF Spec, ExpiryTakesEffect

\* A token that is alive is rejected only after a recent failure.
THEOREM RejectionsHaveReasons == Spec => RejectedForReason
<1>1. IInv /\ [Next]_vars =>
        [\A c \in Tasks : Rejects(c) /\ Alive(token'[c])
            => failedAt'[token'[c]] # Never /\ now <= failedAt'[token'[c]] + TTL]_vars
  BY Verdicts, AtVerdict DEF Rejects
<1> QED BY <1>1, Invariance, PTL DEF Spec, RejectedForReason
=============================================================================
