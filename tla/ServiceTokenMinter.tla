------------------------- MODULE ServiceTokenMinter -------------------------
(***************************************************************************)
(* service_token_minter.py of bsvibe-authz: one ServiceTokenMinter object  *)
(* shared by the tasks of a service.  get_token returns the cached service *)
(* JWT while it is fresh and otherwise mints one under an asyncio.Lock;    *)
(* invalidate drops the cache when a downstream service answers 401.       *)
(*                                                                         *)
(* A task runs alone between two awaits, so one step reaches from an await *)
(* to the next.  A token is known by the signing key it was made with and  *)
(* by the second it really expires.                                        *)
(***************************************************************************)
EXTENDS Integers, Sequences, SequencesExt

CONSTANTS
    Callers,       \* the tasks that call get_token
    Lifetimes,     \* the expires_in values the auth server grants
    Margin,        \* safety_margin_s
    MaxLatency,    \* bound on a token request, from its timeouts
    MaxTime,       \* bound: seconds that pass
    MaxRotations   \* bound: rotations of the signing key

ASSUME LifetimesAssumption == Lifetimes \subseteq Nat
ASSUME LimitsAssumption    == /\ Margin \in Nat /\ MaxLatency \in Nat
                              /\ MaxTime \in Nat /\ MaxRotations \in Nat
\* The defaults, 60s against four httpx timeouts of 10s; and no token is so
\* short-lived that it expires on its way to the client.
ASSUME LatencyAssumption   == /\ MaxLatency <= Margin
                              /\ \A l \in Lifetimes : MaxLatency < l

VARIABLES
    now,        \* the clock, in seconds
    key,        \* generation of the auth server's signing key
    cached,     \* _cached_token
    cachedExp,  \* _cached_exp
    pc,         \* where each caller is
    queue,      \* the callers at the lock; its head holds it or was woken
    sentAt,     \* when the caller's token request went out
    answer,     \* the token in the auth server's answer, still on its way
    held,       \* the token get_token returned to the caller
    floor       \* history: the key in force when the caller last called invalidate,
                \* if no token request was in flight then

vars == <<now, key, cached, cachedExp, pc, queue, sentAt, answer, held, floor>>

NoToken == [key |-> 0, exp |-> 0, life |-> 0]
Tokens == [key : Nat, exp : Nat, life : Nat]

\* Mutant of Fresh: the safety margin is left out.
FreshWithoutMargin == cached # NoToken /\ now < cachedExp

\* _is_cache_fresh
Fresh == cached # NoToken /\ now < cachedExp - Margin

\* A token request is in flight.
Minting == \E c \in Callers : pc[c] = "minting"

\* get_token returns t to caller c.
Return(c, t) ==
    /\ held' = [held EXCEPT ![c] = t]
    /\ pc' = [pc EXCEPT ![c] = "using"]

\* c holds the lock and posts its token request.
Request(c) ==
    /\ pc' = [pc EXCEPT ![c] = "minting"]
    /\ sentAt' = [sentAt EXCEPT ![c] = now]

Init ==
    /\ now = 0 /\ key = 1
    /\ cached = NoToken /\ cachedExp = 0
    /\ pc = [c \in Callers |-> "idle"]
    /\ queue = <<>>
    /\ sentAt = [c \in Callers |-> 0]
    /\ answer = [c \in Callers |-> NoToken]
    /\ held = [c \in Callers |-> NoToken]
    /\ floor = [c \in Callers |-> 0]

(***************************************************************************)
(* get_token                                                               *)
(***************************************************************************)

Hit(c) ==
    /\ pc[c] = "idle" /\ Fresh
    /\ Return(c, cached)
    /\ UNCHANGED <<now, key, cached, cachedExp, queue, sentAt, answer, floor>>

\* No fresh token: take the lock if nobody is at it (that does not suspend the
\* task, so the second check sees what the first saw), else wait in line.
Miss(c) ==
    /\ pc[c] = "idle" /\ ~Fresh
    /\ queue' = Append(queue, c)
    /\ IF queue = <<>>
         THEN Request(c)
         ELSE pc' = [pc EXCEPT ![c] = "waiting"] /\ UNCHANGED sentAt
    /\ UNCHANGED <<now, key, cached, cachedExp, answer, held, floor>>

\* Mutant of Enter: the cache is not checked again under the lock.
EnterUnchecked(c) ==
    /\ pc[c] = "waiting" /\ queue # <<>> /\ Head(queue) = c
    /\ Request(c) /\ UNCHANGED <<queue, held>>
    /\ UNCHANGED <<now, key, cached, cachedExp, answer, floor>>

\* The lock comes to c, which checks the cache again.
Enter(c) ==
    /\ pc[c] = "waiting" /\ queue # <<>> /\ Head(queue) = c
    /\ IF Fresh
         THEN Return(c, cached) /\ queue' = Tail(queue) /\ UNCHANGED sentAt
         ELSE Request(c) /\ UNCHANGED <<queue, held>>
    /\ UNCHANGED <<now, key, cached, cachedExp, answer, floor>>

\* The auth server grants a token, signed with its current key.
AuthIssues(c) ==
    /\ pc[c] = "minting" /\ answer[c] = NoToken
    /\ \E l \in Lifetimes :
         answer' = [answer EXCEPT ![c] = [key |-> key, exp |-> now + l, life |-> l]]
    /\ UNCHANGED <<now, key, cached, cachedExp, pc, queue, sentAt, held, floor>>

\* The answer arrives: _mint caches the token, with an expiry counted from now,
\* and get_token returns it and releases the lock.
Minted(c) ==
    /\ pc[c] = "minting" /\ answer[c] # NoToken
    /\ cached' = answer[c]
    /\ cachedExp' = now + answer[c].life
    /\ Return(c, answer[c])
    /\ queue' = Tail(queue)
    /\ answer' = [answer EXCEPT ![c] = NoToken]
    /\ UNCHANGED <<now, key, sentAt, floor>>

\* Mutant of MintFails: the lock is released on success only.
LockLeaks(c) ==
    /\ pc[c] = "minting"
    /\ pc' = [pc EXCEPT ![c] = "idle"]
    /\ answer' = [answer EXCEPT ![c] = NoToken]
    /\ UNCHANGED <<now, key, cached, cachedExp, queue, sentAt, held, floor>>

\* _mint raises (refused, timed out, malformed answer) or the task is cancelled
\* in it; leaving the with block releases the lock.
MintFails(c) ==
    /\ pc[c] = "minting"
    /\ pc' = [pc EXCEPT ![c] = "idle"]
    /\ queue' = Tail(queue)
    /\ answer' = [answer EXCEPT ![c] = NoToken]
    /\ UNCHANGED <<now, key, cached, cachedExp, sentAt, held, floor>>

\* A task is cancelled while it waits for the lock.
Cancelled(i) ==
    /\ pc[queue[i]] = "waiting"
    /\ pc' = [pc EXCEPT ![queue[i]] = "idle"]
    /\ queue' = RemoveAt(queue, i)
    /\ UNCHANGED <<now, key, cached, cachedExp, sentAt, answer, held, floor>>

(***************************************************************************)
(* What callers do with the token.                                         *)
(***************************************************************************)

Done(c) ==
    /\ pc[c] = "using"
    /\ pc' = [pc EXCEPT ![c] = "idle"]
    /\ held' = [held EXCEPT ![c] = NoToken]
    /\ floor' = [floor EXCEPT ![c] = 0]
    /\ UNCHANGED <<now, key, cached, cachedExp, queue, sentAt, answer>>

\* Mutant of Invalidate: a token that has not expired is kept.
InvalidateExpired(c) ==
    /\ pc[c] = "using" /\ (held[c].exp <= now \/ held[c].key < key)
    /\ IF held[c].exp <= now THEN cached' = NoToken /\ cachedExp' = 0
                              ELSE UNCHANGED <<cached, cachedExp>>
    /\ pc' = [pc EXCEPT ![c] = "idle"]
    /\ held' = [held EXCEPT ![c] = NoToken]
    /\ floor' = [floor EXCEPT ![c] = IF Minting THEN 0 ELSE key]
    /\ UNCHANGED <<now, key, queue, sentAt, answer>>

\* The downstream service answers 401, because the token has expired or was
\* signed with a key that is gone, and the caller calls invalidate.
Invalidate(c) ==
    /\ pc[c] = "using" /\ (held[c].exp <= now \/ held[c].key < key)
    /\ cached' = NoToken /\ cachedExp' = 0
    /\ pc' = [pc EXCEPT ![c] = "idle"]
    /\ held' = [held EXCEPT ![c] = NoToken]
    /\ floor' = [floor EXCEPT ![c] = IF Minting THEN 0 ELSE key]
    /\ UNCHANGED <<now, key, queue, sentAt, answer>>

RotateKey ==
    /\ key <= MaxRotations
    /\ key' = key + 1
    /\ UNCHANGED <<now, cached, cachedExp, pc, queue, sentAt, answer, held, floor>>

\* A second passes; a request does not outlive its timeouts.
Tick ==
    /\ now < MaxTime
    /\ \A c \in Callers : pc[c] = "minting" => now < sentAt[c] + MaxLatency
    /\ now' = now + 1
    /\ UNCHANGED <<key, cached, cachedExp, pc, queue, sentAt, answer, held, floor>>

Next ==
    \/ \E c \in Callers : \/ Hit(c) \/ Miss(c) \/ Enter(c)
                          \/ AuthIssues(c) \/ Minted(c) \/ MintFails(c)
                          \/ Done(c) \/ Invalidate(c)
    \/ \E i \in DOMAIN queue : Cancelled(i)
    \/ RotateKey
    \/ Tick

Spec == Init /\ [][Next]_vars

\* The event loop resumes a woken task, and a request ends by its timeouts.
Fairness == \A c \in Callers : WF_vars(Enter(c)) /\ WF_vars(Minted(c) \/ MintFails(c))

FairSpec == Spec /\ Fairness

-----------------------------------------------------------------------------
\* Every variable keeps to its kind of value.
TypeOK ==
    /\ now \in Nat /\ key \in Nat
    /\ cached \in Tokens /\ cachedExp \in Nat
    /\ pc \in [Callers -> {"idle", "waiting", "minting", "using"}]
    /\ queue \in Seq(Callers)
    /\ sentAt \in [Callers -> Nat]
    /\ answer \in [Callers -> Tokens] /\ held \in [Callers -> Tokens]
    /\ floor \in [Callers -> Nat]

\* The line at the lock: its members are at the lock, once each, only the head
\* can be minting, and whoever mints is the head.
LockDiscipline ==
    /\ \A i \in DOMAIN queue :
          pc[queue[i]] = "waiting" \/ (i = 1 /\ pc[queue[i]] = "minting")
    /\ \A i, j \in DOMAIN queue : queue[i] = queue[j] => i = j
    /\ \A c \in Callers : pc[c] = "minting" => queue # <<>> /\ queue[1] = c

\* No request is on its way for a token the cache already has: the second check
\* is under the lock, and nobody else fills the cache meanwhile.
NoWastedMint == \A c \in Callers : pc[c] = "minting" => ~Fresh

\* The minter's own idea of the expiry is late by at most the latency of the
\* request, which is what the safety margin is for.
ExpiryTracked ==
    cached # NoToken => cached.exp <= cachedExp /\ cachedExp <= cached.exp + MaxLatency

\* get_token returns "a non-expired service JWT", on all three of its paths.
ReturnsLiveToken ==
    [][\A c \in Callers :
          pc[c] # "using" /\ pc'[c] = "using" => now < held'[c].exp]_vars

\* Nobody is left at the lock: not behind a failed mint, not behind a cancelled
\* waiter.
EveryCallEnds ==
    \A c \in Callers : (pc[c] = "waiting" \/ pc[c] = "minting") ~> (pc[c] \in {"idle", "using"})

\* invalidate: "Drop the cached token so the next get_token mints fresh."  It does,
\* unless a token request is in flight: the answer to that, signed perhaps with the
\* key from before the rotation, is cached and returned.
NextTokenIsFresh ==
    [][\A c \in Callers :
          pc[c] # "using" /\ pc'[c] = "using" => floor[c] <= held'[c].key]_vars
=============================================================================
