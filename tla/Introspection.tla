---------------------------- MODULE Introspection ----------------------------
(***************************************************************************)
(* verify_via_introspection of bsvibe-authz (auth.py) with its             *)
(* IntrospectionClient (introspection.py) and IntrospectionCache           *)
(* (cache.py): the tasks of one process check PAT tokens with the auth     *)
(* server's /oauth/introspect and share what it answers for a while.  The  *)
(* cache counts on the monotonic clock and caps an active answer's life at *)
(* the token's exp, which it reads off the wall clock.                     *)
(***************************************************************************)
EXTENDS Integers

CONSTANTS
    Tokens,
    Expiries,    \* exp claims, 0 for none
    Tasks,       \* the requests a process serves at once
    TTL,         \* ttl_s of the cache
    MaxLatency,  \* bound on an introspection, from its timeouts
    MaxSkew,     \* how far the wall clock is off, at most
    MaxTime      \* bound: seconds that pass

ASSUME TokensAssumption   == Tokens # {}
ASSUME ExpiriesAssumption == Expiries \subseteq Nat
ASSUME TimesAssumption    == /\ TTL \in Nat /\ MaxLatency \in Nat
                             /\ MaxSkew \in Nat /\ MaxTime \in Nat

VARIABLES
    now,        \* true time, and time.monotonic()
    skew,       \* what time.time() is ahead of that
    exp,        \* the exp a token carries
    revoked,    \* the tokens the auth server has revoked
    revokedAt,  \* when
    entry,      \* the cache's entries; NoEntry where it has none
    pc,         \* where each task is
    token,      \* the token of its request
    sentAt,     \* when it went to the auth server
    answer,     \* the auth server's answer, on its way
    verdict,    \* whether verify_via_introspection accepted the token
    failedAt    \* history: when an introspection of the token last failed

vars == <<now, skew, exp, revoked, revokedAt, entry, pc, token, sentAt, answer,
          verdict, failedAt>>

NoEntry == [active |-> FALSE, expires |-> 0]
Entries == [active : BOOLEAN, expires : Nat]
NoToken == CHOOSE t \in Tokens : TRUE  \* of an idle task: any
Never == -1

Larger(a, b) == IF a < b THEN b ELSE a

\* The token's exp has not come; the auth server's own clock is true.
Unexpired(t) == exp[t] = 0 \/ now < exp[t]

\* A token the auth server says active.
Alive(t) == t \notin revoked /\ Unexpired(t)

Live(t) == entry[t].expires > now

Init ==
    /\ now = 0
    /\ skew \in -MaxSkew..MaxSkew
    /\ exp \in [Tokens -> Expiries]
    /\ revoked = {}
    /\ revokedAt = [t \in Tokens |-> 0]
    /\ entry = [t \in Tokens |-> NoEntry]
    /\ pc = [c \in Tasks |-> "idle"]
    /\ token = [c \in Tasks |-> NoToken]
    /\ sentAt = [c \in Tasks |-> 0]
    /\ answer = [c \in Tasks |-> "none"]
    /\ verdict = [c \in Tasks |-> FALSE]
    /\ failedAt = [t \in Tokens |-> Never]

(***************************************************************************)
(* IntrospectionCache.set                                                  *)
(***************************************************************************)

\* Mutant of Lifetime: an active answer lives for the cache's TTL.
LifetimeUncapped(t, active) == TTL

\* How long an answer is kept: no longer than the token has left, if it is
\* active and says when it expires.
Lifetime(t, active) ==
    LET left == exp[t] - (now + skew)
    IN  IF active /\ exp[t] # 0 /\ left < TTL THEN Larger(0, left) ELSE TTL

Set(t, active) ==
    entry' = [entry EXCEPT ![t] =
                [active |-> active, expires |-> now + Lifetime(t, active)]]

(***************************************************************************)
(* verify_via_introspection                                                *)
(***************************************************************************)

Finish(c, accepted) ==
    /\ pc' = [pc EXCEPT ![c] = "done"]
    /\ verdict' = [verdict EXCEPT ![c] = accepted]

\* Mutant of Hit: an entry decides whether it lives or not.
HitExpired(c, t) ==
    /\ pc[c] = "idle" /\ entry[t] # NoEntry
    /\ token' = [token EXCEPT ![c] = t]
    /\ Finish(c, entry[t].active)
    /\ UNCHANGED <<now, skew, exp, revoked, revokedAt, entry, sentAt, answer, failedAt>>

\* cache.get has an answer.
Hit(c, t) ==
    /\ pc[c] = "idle" /\ Live(t)
    /\ token' = [token EXCEPT ![c] = t]
    /\ Finish(c, entry[t].active)
    /\ UNCHANGED <<now, skew, exp, revoked, revokedAt, entry, sentAt, answer, failedAt>>

\* It has none: the auth server is asked, by every task that finds so.
Miss(c, t) ==
    /\ pc[c] = "idle" /\ ~Live(t)
    /\ pc' = [pc EXCEPT ![c] = "introspecting"]
    /\ token' = [token EXCEPT ![c] = t]
    /\ sentAt' = [sentAt EXCEPT ![c] = now]
    /\ UNCHANGED <<now, skew, exp, revoked, revokedAt, entry, answer, verdict, failedAt>>

\* The auth server decides.
Decide(c) ==
    /\ pc[c] = "introspecting" /\ answer[c] = "none"
    /\ answer' = [answer EXCEPT ![c] = IF Alive(token[c]) THEN "active" ELSE "inactive"]
    /\ UNCHANGED <<now, skew, exp, revoked, revokedAt, entry, pc, token, sentAt,
                   verdict, failedAt>>

\* The answer arrives, is cached and decides.
Answered(c) ==
    /\ pc[c] = "introspecting" /\ answer[c] # "none"
    /\ Set(token[c], answer[c] = "active")
    /\ Finish(c, answer[c] = "active")
    /\ answer' = [answer EXCEPT ![c] = "none"]
    /\ sentAt' = [sentAt EXCEPT ![c] = 0]
    /\ UNCHANGED <<now, skew, exp, revoked, revokedAt, token, failedAt>>

\* Mutant of Fails: a failure does not end the answer that was there.
FailsOpen(c) ==
    /\ pc[c] = "introspecting"
    /\ Set(token[c], entry[token[c]].active)
    /\ Finish(c, entry[token[c]].active)
    /\ failedAt' = [failedAt EXCEPT ![token[c]] = now]
    /\ answer' = [answer EXCEPT ![c] = "none"]
    /\ sentAt' = [sentAt EXCEPT ![c] = 0]
    /\ UNCHANGED <<now, skew, exp, revoked, revokedAt, token>>

\* A refusal, a network error or an answer that does not parse counts as the
\* answer "inactive", and is cached like one.
Fails(c) ==
    /\ pc[c] = "introspecting"
    /\ Set(token[c], FALSE)
    /\ Finish(c, FALSE)
    /\ failedAt' = [failedAt EXCEPT ![token[c]] = now]
    /\ answer' = [answer EXCEPT ![c] = "none"]
    /\ sentAt' = [sentAt EXCEPT ![c] = 0]
    /\ UNCHANGED <<now, skew, exp, revoked, revokedAt, token>>

\* The request is over, or was cancelled at the auth server.
Return(c) ==
    /\ pc[c] # "idle"
    /\ pc' = [pc EXCEPT ![c] = "idle"]
    /\ token' = [token EXCEPT ![c] = NoToken]
    /\ sentAt' = [sentAt EXCEPT ![c] = 0]
    /\ answer' = [answer EXCEPT ![c] = "none"]
    /\ verdict' = [verdict EXCEPT ![c] = FALSE]
    /\ UNCHANGED <<now, skew, exp, revoked, revokedAt, entry, failedAt>>

(***************************************************************************)
(* invalidate and clear                                                    *)
(***************************************************************************)

Drop(ts) ==
    /\ entry' = [t \in Tokens |-> IF t \in ts THEN NoEntry ELSE entry[t]]
    /\ UNCHANGED <<now, skew, exp, revoked, revokedAt, pc, token, sentAt, answer,
                   verdict, failedAt>>

Invalidate(t) == Drop({t})

Clear == Drop(Tokens)

(***************************************************************************)
(* The auth server, and time.                                              *)
(***************************************************************************)

\* Revocation is for good.
Revoke(t) ==
    /\ t \notin revoked
    /\ revoked' = revoked \cup {t}
    /\ revokedAt' = [revokedAt EXCEPT ![t] = now]
    /\ UNCHANGED <<now, skew, exp, entry, pc, token, sentAt, answer, verdict, failedAt>>

\* The wall clock is set.
AdjustClock ==
    /\ skew' \in -MaxSkew..MaxSkew
    /\ UNCHANGED <<now, exp, revoked, revokedAt, entry, pc, token, sentAt, answer,
                   verdict, failedAt>>

\* A second passes; an introspection does not outlive its timeouts.
Tick ==
    /\ now < MaxTime
    /\ \A c \in Tasks : pc[c] = "introspecting" => now < sentAt[c] + MaxLatency
    /\ now' = now + 1
    /\ UNCHANGED <<skew, exp, revoked, revokedAt, entry, pc, token, sentAt, answer,
                   verdict, failedAt>>

Next ==
    \/ \E c \in Tasks : \/ \E t \in Tokens : Hit(c, t) \/ Miss(c, t)
                        \/ Decide(c) \/ Answered(c) \/ Fails(c) \/ Return(c)
    \/ \E t \in Tokens : Invalidate(t) \/ Revoke(t)
    \/ Clear
    \/ AdjustClock
    \/ Tick

Spec == Init /\ [][Next]_vars

-----------------------------------------------------------------------------
\* Every variable keeps to its kind of value, and no entry lives longer than
\* the TTL.
TypeOK ==
    /\ now \in Nat
    /\ skew \in -MaxSkew..MaxSkew
    /\ exp \in [Tokens -> Expiries]
    /\ revoked \subseteq Tokens
    /\ revokedAt \in [Tokens -> Nat]
    /\ entry \in [Tokens -> Entries]
    /\ \A t \in Tokens : entry[t].expires <= now + TTL
    /\ pc \in [Tasks -> {"idle", "introspecting", "done"}]
    /\ token \in [Tasks -> Tokens]
    /\ sentAt \in [Tasks -> Nat]
    /\ answer \in [Tasks -> {"none", "active", "inactive"}]
    /\ verdict \in [Tasks -> BOOLEAN]
    /\ failedAt \in [Tokens -> Nat \cup {Never}]

Accepts(c) == pc[c] # "done" /\ pc'[c] = "done" /\ verdict'[c]
Rejects(c) == pc[c] # "done" /\ pc'[c] = "done" /\ ~verdict'[c]

\* A revoked token is accepted for TTL and the latency of an introspection at
\* most, also if a late answer overwrites a newer one.
RevocationTakesEffect ==
    [][\A c \in Tasks : Accepts(c) /\ token'[c] \in revoked
          => now <= revokedAt[token'[c]] + MaxLatency + TTL]_vars

\* "a cached active=True response can never outlive the token itself", up to the
\* clock's error; an answer can be overtaken by exp on its way.
ExpiryTakesEffect ==
    [][\A c \in Tasks : Accepts(c) /\ exp[token'[c]] # 0
          => now < exp[token'[c]] + Larger(MaxSkew, MaxLatency)]_vars

\* A token the auth server would accept is rejected only in the TTL after an
\* introspection of it failed.
RejectedForReason ==
    [][\A c \in Tasks : Rejects(c) /\ Alive(token'[c])
          => failedAt'[token'[c]] # Never /\ now <= failedAt'[token'[c]] + TTL]_vars
=============================================================================
