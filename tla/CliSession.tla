----------------------------- MODULE CliSession -----------------------------
(***************************************************************************)
(* One profile's login, as the BSVibe CLIs share it: the two keyring slots *)
(* of the profile (keyring.py), CliHttpClient objects in several CLI       *)
(* processes that refresh on a 401 and write the rotated tokens back       *)
(* (http.py, over HttpClientBase of bsvibe-core), and `login`, which fills *)
(* the slots from an authorization code (loopback_flow.py, login_cmd.py).  *)
(*                                                                         *)
(* A token is the number of the grant it came with.  Access tokens are not *)
(* checked: a product may answer 401 to any of them.  Refresh tokens are,  *)
(* by BSVibe-Auth: one that was rotated is refused from then on.           *)
(***************************************************************************)
EXTENDS Integers

CONSTANTS
    Clients,     \* CliHttpClient objects, each in a process of its own
    NoClient,
    Requests,    \* calls of `request` that run concurrently
    MaxRetries,  \* HttpClientBase's retries
    MaxGrants    \* bound: grants the auth server gives

ASSUME ClientAssumption == NoClient \notin Clients
ASSUME LimitsAssumption == MaxRetries \in Nat /\ MaxGrants \in Nat

None == 0
Grants == 1..MaxGrants

VARIABLES
    \* BSVibe-Auth.
    issued,      \* number of grants so far
    usable,      \* refresh tokens it accepts
    partner,     \* the refresh token that goes with grant g: its own, or, when
                 \* it came without one, that it was obtained with
    spender,     \* the client, if any, whose refresh rotated the token away
    \* The profile's keyring slots.
    keyAccess,   \* (bsvibe, profile)
    keyRefresh,  \* (bsvibe, profile.refresh)
    \* The clients.
    up,          \* clients that exist
    refresh,     \* _refresh_token
    pc,          \* where each request is
    by,          \* its client
    posted,      \* the refresh token in its refresh request
    answer,      \* the grant in the answer to that, on its way or being saved
    tries,       \* attempts of the refresh request that have failed
    \* `login`.
    login,       \* where the command is
    code,        \* its authorization code: none, fresh or used
    granted,     \* the grant it got
    loginTries,  \* attempts of the code exchange that have failed
    \* History.
    orphaned     \* refresh tokens that were rotated and whose successor got lost

authVars   == <<issued, usable, partner, spender>>
keyVars    == <<keyAccess, keyRefresh>>
clientVars == <<up, refresh, pc, by, posted, answer, tries>>
loginVars  == <<login, code, granted, loginTries>>
vars       == <<authVars, keyVars, clientVars, loginVars, orphaned>>

\* Grant g came with a refresh token of its own.
Rotated(g) == g # None /\ partner[g] = g

\* Request q has been given a refresh token that is not in the keyring yet.
Unsaved(q) == pc[q] \in {"refreshing", "saving"} /\ Rotated(answer[q])

\* Mutant of Free: the callback is awaited, and lets its client's other requests run.
FreeToRefresh(c) == c \in up

\* The persist callback runs inside the event loop: its client does nothing else.
Free(c) == c \in up /\ \A q \in Requests : by[q] = c => pc[q] # "saving"

\* The tokens that stay rotated away for nothing if the requests in Q stop here.
Orphans(Q) == {posted[q] : q \in {x \in Q : Unsaved(x)}}

\* The requests in Q have no refresh under way.
NoRefresh(Q) ==
    /\ posted' = [q \in Requests |-> IF q \in Q THEN None ELSE posted[q]]
    /\ answer' = [q \in Requests |-> IF q \in Q THEN None ELSE answer[q]]
    /\ tries' = [q \in Requests |-> IF q \in Q THEN 0 ELSE tries[q]]

\* They are over.
Over(Q) ==
    /\ pc' = [q \in Requests |-> IF q \in Q THEN "idle" ELSE pc[q]]
    /\ by' = [q \in Requests |-> IF q \in Q THEN NoClient ELSE by[q]]
    /\ NoRefresh(Q)

\* Request q is sent again, with the access token of the refresh.
Replay(q) ==
    /\ pc' = [pc EXCEPT ![q] = "replayed"]
    /\ NoRefresh({q})
    /\ UNCHANGED by

Init ==
    /\ issued = 0 /\ usable = {}
    /\ partner = [g \in Grants |-> None]
    /\ spender = [g \in Grants |-> NoClient]
    /\ keyAccess = None /\ keyRefresh = None
    /\ up = {}
    /\ refresh = [c \in Clients |-> None]
    /\ pc = [q \in Requests |-> "idle"] /\ by = [q \in Requests |-> NoClient]
    /\ posted = [q \in Requests |-> None]
    /\ answer = [q \in Requests |-> None]
    /\ tries = [q \in Requests |-> 0]
    /\ login = "none" /\ code = "none" /\ granted = None /\ loginTries = 0
    /\ orphaned = {}

(***************************************************************************)
(* CliHttpClient.request                                                   *)
(***************************************************************************)

\* A CLI process resolves the profile's tokens and builds its client.
Start(c) ==
    /\ c \notin up
    /\ up' = up \cup {c}
    /\ refresh' = [refresh EXCEPT ![c] = keyRefresh]
    /\ UNCHANGED <<authVars, keyVars, pc, by, posted, answer, tries, loginVars, orphaned>>

Call(q, c) ==
    /\ pc[q] = "idle" /\ Free(c)
    /\ pc' = [pc EXCEPT ![q] = "sent"]
    /\ by' = [by EXCEPT ![q] = c]
    /\ UNCHANGED <<authVars, keyVars, up, refresh, posted, answer, tries, loginVars, orphaned>>

\* The product answers: anything but 401 ends the call, and so does a 401 when
\* there is no refresh token; any other 401 asks for a refresh.
Answered(q) ==
    /\ pc[q] = "sent" /\ Free(by[q])
    /\ \/ Over({q})
       \/ /\ refresh[by[q]] # None
          /\ pc' = [pc EXCEPT ![q] = "refused"]
          /\ UNCHANGED <<by, posted, answer, tries>>
    /\ UNCHANGED <<authVars, keyVars, up, refresh, loginVars, orphaned>>

\* _refresh: the refresh token is read once the 401's body is drained, and stays
\* the same through the retries of the request.
PostRefresh(q) ==
    /\ pc[q] = "refused" /\ Free(by[q])
    /\ pc' = [pc EXCEPT ![q] = "refreshing"]
    /\ posted' = [posted EXCEPT ![q] = refresh[by[q]]]
    /\ UNCHANGED <<authVars, keyVars, up, refresh, by, answer, tries, loginVars, orphaned>>

\* POST /oauth/token, grant_type=refresh_token: the auth server accepts a usable
\* token and rotates it or not.
AuthRefreshes(q) ==
    /\ pc[q] = "refreshing" /\ answer[q] = None /\ posted[q] \in usable
    /\ issued < MaxGrants
    /\ issued' = issued + 1
    /\ answer' = [answer EXCEPT ![q] = issued']
    /\ \/ /\ usable' = (usable \ {posted[q]}) \cup {issued'}
          /\ partner' = [partner EXCEPT ![issued'] = issued']
          /\ spender' = [spender EXCEPT ![posted[q]] = by[q]]
       \/ /\ partner' = [partner EXCEPT ![issued'] = posted[q]]
          /\ UNCHANGED <<usable, spender>>
    /\ UNCHANGED <<keyVars, up, refresh, pc, by, posted, tries, loginVars, orphaned>>

\* Mutant of Applied: the persist callback writes the access token only.
AppliedNotSaved(q) ==
    /\ pc[q] = "refreshing" /\ answer[q] # None /\ Free(by[q])
    /\ keyAccess' \in {keyAccess, answer[q]}
    /\ refresh' = [refresh EXCEPT ![by[q]] = partner[answer[q]]]
    /\ Replay(q)
    /\ UNCHANGED <<authVars, keyRefresh, up, loginVars, orphaned>>

\* _apply_grant and the first half of the persist callback: set_token, which the
\* keyring may refuse without anybody noticing.  Without a new refresh token the
\* callback is done, and the request is replayed.
Applied(q) ==
    /\ pc[q] = "refreshing" /\ answer[q] # None /\ Free(by[q])
    /\ keyAccess' \in {keyAccess, answer[q]}
    /\ IF Rotated(answer[q])
         THEN /\ refresh' = [refresh EXCEPT ![by[q]] = answer[q]]
              /\ pc' = [pc EXCEPT ![q] = "saving"]
              /\ UNCHANGED <<by, posted, answer, tries>>
         ELSE Replay(q) /\ UNCHANGED refresh
    /\ UNCHANGED <<authVars, keyRefresh, up, loginVars, orphaned>>

\* The second half: set_refresh_token, which the keyring may refuse as well; then
\* the request is replayed.
Saved(q) ==
    /\ pc[q] = "saving"
    /\ \/ keyRefresh' = answer[q] /\ UNCHANGED orphaned
       \/ orphaned' = orphaned \cup Orphans({q}) /\ UNCHANGED keyRefresh
    /\ Replay(q)
    /\ UNCHANGED <<authVars, keyAccess, up, refresh, loginVars>>

\* The auth server refuses a token it has rotated: CliHttpAuthError.
RefreshRefused(q) ==
    /\ pc[q] = "refreshing" /\ answer[q] = None /\ Free(by[q])
    /\ posted[q] \notin usable
    /\ Over({q})
    /\ UNCHANGED <<authVars, keyVars, up, refresh, loginVars, orphaned>>

\* An attempt of the refresh request times out, breaks off or ends in a 5xx,
\* after the auth server acted on it or before: it is sent again, unchanged, or
\* after the last attempt the call raises.
AttemptFails(q) ==
    /\ pc[q] = "refreshing" /\ Free(by[q])
    /\ orphaned' = orphaned \cup Orphans({q})
    /\ IF tries[q] < MaxRetries
         THEN /\ tries' = [tries EXCEPT ![q] = @ + 1]
              /\ answer' = [answer EXCEPT ![q] = None]
              /\ UNCHANGED <<pc, by, posted>>
         ELSE Over({q})
    /\ UNCHANGED <<authVars, keyVars, up, refresh, loginVars>>

\* The replay is answered, 401 or not: no second refresh.
Replayed(q) ==
    /\ pc[q] = "replayed" /\ Free(by[q])
    /\ Over({q})
    /\ UNCHANGED <<authVars, keyVars, up, refresh, loginVars, orphaned>>

\* The process of c ends, or is killed with requests under way.
Exit(c) ==
    /\ c \in up
    /\ LET mine == {q \in Requests : by[q] = c}
       IN  Over(mine) /\ orphaned' = orphaned \cup Orphans(mine)
    /\ up' = up \ {c}
    /\ refresh' = [refresh EXCEPT ![c] = None]
    /\ UNCHANGED <<authVars, keyVars, loginVars>>

(***************************************************************************)
(* login                                                                   *)
(***************************************************************************)

LoginLeaves(next) ==
    /\ login' = next
    /\ code' = "none" /\ granted' = None /\ loginTries' = 0

\* run_login_flow binds the listener and opens the browser.
LoginBegins ==
    /\ login = "none"
    /\ LoginLeaves("waiting")
    /\ UNCHANGED <<authVars, keyVars, clientVars, orphaned>>

\* The first request for /callback decides: a code with the right state goes on
\* to the exchange; an error, a wrong state, no code, no callback in time, end
\* the command.
Callback ==
    /\ login = "waiting"
    /\ \/ /\ login' = "exchanging" /\ code' = "fresh"
          /\ UNCHANGED <<granted, loginTries>>
       \/ LoginLeaves("none")
    /\ UNCHANGED <<authVars, keyVars, clientVars, orphaned>>

\* POST /oauth/token, grant_type=authorization_code: a code is good once.  The
\* grant need not hold a refresh token.
AuthLogsIn ==
    /\ login = "exchanging" /\ code = "fresh" /\ issued < MaxGrants
    /\ issued' = issued + 1
    /\ granted' = issued'
    /\ code' = "used"
    /\ \/ usable' = usable \cup {issued'} /\ partner' = [partner EXCEPT ![issued'] = issued']
       \/ UNCHANGED <<usable, partner>>
    /\ UNCHANGED <<spender, keyVars, clientVars, login, loginTries, orphaned>>

\* The exchange is refused because an attempt whose answer was lost used the code.
ExchangeRefused ==
    /\ login = "exchanging" /\ code = "used" /\ granted = None
    /\ LoginLeaves("none")
    /\ UNCHANGED <<authVars, keyVars, clientVars, orphaned>>

\* LoopbackFlowClient retries once.
ExchangeFails ==
    /\ login = "exchanging"
    /\ IF loginTries = 0
         THEN loginTries' = 1 /\ granted' = None /\ UNCHANGED <<login, code>>
         ELSE LoginLeaves("none")
    /\ UNCHANGED <<authVars, keyVars, clientVars, orphaned>>

\* do_login: set_token.  Whether or not the keyring takes it, set_refresh_token
\* is next, if there is a refresh token.
LoginSavesAccess ==
    /\ login = "exchanging" /\ granted # None
    /\ keyAccess' \in {keyAccess, granted}
    /\ IF Rotated(granted)
         THEN login' = "saving" /\ UNCHANGED <<code, granted, loginTries>>
         ELSE LoginLeaves("none")
    /\ UNCHANGED <<authVars, keyRefresh, clientVars, orphaned>>

\* do_login: set_refresh_token, and the command ends.
LoginSavesRefresh ==
    /\ login = "saving"
    /\ keyRefresh' \in {keyRefresh, granted}
    /\ LoginLeaves("none")
    /\ UNCHANGED <<authVars, keyAccess, clientVars, orphaned>>

\* The command is interrupted.
LoginDies ==
    /\ login # "none"
    /\ LoginLeaves("none")
    /\ UNCHANGED <<authVars, keyVars, clientVars, orphaned>>

Login == \/ LoginBegins \/ Callback \/ AuthLogsIn \/ ExchangeRefused \/ ExchangeFails
         \/ LoginSavesAccess \/ LoginSavesRefresh \/ LoginDies

Refresh(q) == PostRefresh(q) \/ Applied(q) \/ Saved(q) \/ RefreshRefused(q) \/ AttemptFails(q)

Next ==
    \/ \E c \in Clients : Start(c) \/ Exit(c)
    \/ \E q \in Requests, c \in Clients : Call(q, c)
    \/ \E q \in Requests : Answered(q) \/ AuthRefreshes(q) \/ Refresh(q) \/ Replayed(q)
    \/ Login

Spec == Init /\ [][Next]_vars

-----------------------------------------------------------------------------
Token == Grants \cup {None}

\* Every variable keeps to its kind of value, and no request is sent more often
\* than its retries allow.
TypeOK ==
    /\ issued \in 0..MaxGrants /\ usable \subseteq 1..issued
    /\ partner \in [Grants -> Token] /\ spender \in [Grants -> Clients \cup {NoClient}]
    /\ keyAccess \in Token /\ keyRefresh \in Token
    /\ up \subseteq Clients /\ refresh \in [Clients -> Token]
    /\ pc \in [Requests -> {"idle", "sent", "refused", "refreshing", "saving", "replayed"}]
    /\ by \in [Requests -> Clients \cup {NoClient}]
    /\ posted \in [Requests -> Token] /\ answer \in [Requests -> Token]
    /\ tries \in [Requests -> 0..MaxRetries]
    /\ login \in {"none", "waiting", "exchanging", "saving"}
    /\ code \in {"none", "fresh", "used"}
    /\ granted \in Token /\ loginTries \in 0..1
    /\ orphaned \subseteq Grants

\* The login survives: the keyring's refresh token is one the auth server accepts,
\* or its successor is about to be saved, unless a successor was lost on the way
\* (an answer that never came, a process that died, a keyring that refused).  No
\* interleaving of clients, processes and logins alone logs the user out.
LoginSurvives ==
    \/ keyRefresh \in usable \cup {None} \cup orphaned
    \/ \E q \in Requests : Unsaved(q) /\ posted[q] = keyRefresh

\* A client does not hold on to a token that it has itself seen rotated: what it
\* will post next is good, was rotated by some other client, or is being rotated
\* by one of its own requests whose answer is still on its way.
MemoryIsCurrent ==
    \A c \in up :
        \/ refresh[c] \in usable \cup {None} \cup orphaned
        \/ c # spender[refresh[c]]
        \/ \E q \in Requests : by[q] = c /\ Unsaved(q) /\ posted[q] = refresh[c]

\* The keyring's refresh token is a login stored once, as StoredLogin has it: each
\* step of clients, logins and keyrings is one of the five things that may become
\* of a token.  A rotated token is its request's alone until the keyring has it.
Stored == INSTANCE StoredLogin WITH
            Tokens <- Grants, NoToken <- None,
            given <- {g \in Grants : Rotated(g)}, good <- usable, stored <- keyRefresh,
            underWay <- {[old |-> posted[q], new |-> answer[q]] : q \in {r \in Requests : Unsaved(r)}},
            lost <- orphaned
ImplementsStoredLogin == Stored!Spec
=============================================================================
