----------------------------- MODULE AuthDispatch -----------------------------
(***************************************************************************)
(* bsvibe-authz: what happens to a request before its handler runs.  The   *)
(* dependencies of deps.py find the principal behind a bearer token (demo, *)
(* user session, personal access token, service token), the tenant it acts *)
(* for (the token's own or the X-Active-Tenant header's), and ask OpenFGA  *)
(* whether it may.  Requests of one process run concurrently: they await   *)
(* the auth server and OpenFGA, share the two caches, and write role       *)
(* tuples, while administrators change the tuples and revoke tokens.       *)
(*                                                                         *)
(* The caches' clocks are PermissionCheck's and Introspection's subject:   *)
(* here an entry may lapse at any time.  An answer of a server is decided  *)
(* and received in one step.                                               *)
(***************************************************************************)
EXTENDS Integers

CONSTANTS
    Requests,    \* the requests a process serves at once
    Subs,        \* the ids of people and services
    Services,    \* those that begin with "service:"
    Tenants, Roles, Resources,
    TenantOf,    \* the tenant of a resource
    Confers,     \* OpenFGA's model: the relations a role has on its tenant and there
    Audiences,
    Tokens,      \* the tokens in use
    Claims,      \* what a token is and claims, see TokenFields
    InitialTuples, \* OpenFGA's tuples to begin with: some of these sets
    Configs,     \* the settings a process may run with, see Settings
    Asks,        \* the requests made: a token or None, a header or None, a route
    None,        \* no token, header, tenant, role or answer
    MaxRequests, \* bound: requests made
    MaxChanges   \* bound: changes by administrators

\* signed: with which secret; valid: its times, issuer and, of a session, audience are
\* right; kind: what its token_type claim or its jti make it; scopes: the audiences its
\* scopes begin with; tenant: the active_tenant_id claim or else app_metadata.tenant_id.
TokenFields ==
    [signed : {"user", "service", "demo"}, valid : BOOLEAN, is_demo : BOOLEAN,
     kind : {"session", "pat", "service"}, sub : Subs \cup {None}, aud : Audiences \cup {None},
     scopes : SUBSET Audiences, tenant : Tenants \cup {None}, role : Roles \cup {None}]

\* Which of the settings are not empty.
Settings ==
    [openfga_api_url : BOOLEAN, introspection_url : BOOLEAN, demo_jwt_secret : BOOLEAN,
     service_token_signing_secret : BOOLEAN, user_jwt_jwks_url : BOOLEAN]

\* A route's principal dependency, with the audience it takes service tokens for, and
\* its guard: require_permission on the tenant or on a resource, check_tenant_permission
\* of an MCP tool, require_admin, or none.
Routes ==
    [dep : {"get_current_user"}, aud : {None}, guard : {"permission", "resource", "mcp", "admin", "none"}]
    \cup [dep : {"combined_principal"}, aud : Audiences, guard : {"permission", "resource", "admin", "none"}]
    \cup [dep : {"ServiceKeyAuth"}, aud : Audiences, guard : {"none"}]

\* Whom a request can be made by.
Principals ==
    [id : Subs \cup {None}, tenant : Tenants \cup {None}, role : Roles \cup {None},
     is_service : BOOLEAN, is_demo : BOOLEAN]

ASSUME SubsAssumption == Services \subseteq Subs /\ None \notin Subs \cup Tenants \cup Roles \cup Audiences
ASSUME ModelAssumption ==
    /\ TenantOf \in [Resources -> Tenants] /\ Resources \cap Tenants = {}
    /\ Confers \in [Roles -> SUBSET {"member", "permission", "action", "admin"}]
ASSUME TokensAssumption == Claims \in [Tokens -> TokenFields] /\ None \notin Tokens
\* What BSVibe-Auth issues: sessions and demo tokens in secrets of their own, service
\* tokens, for an audience, and personal access tokens in the services', with a subject.
ASSUME IssuedAssumption ==
    \A t \in Tokens : /\ Claims[t].kind = "session" <=> Claims[t].signed # "service"
                      /\ Claims[t].kind # "session" => Claims[t].sub # None
                      /\ Claims[t].kind = "service" => Claims[t].aud # None
ASSUME ConfigsAssumption ==
    Configs \subseteq Settings /\ InitialTuples \subseteq SUBSET (Subs \X Roles \X Tenants)
ASSUME AsksAssumption ==
    Asks \subseteq [token : Tokens \cup {None}, header : Tenants \cup {None}, route : Routes,
                    resource : Resources]
ASSUME NoneAssumption == None \notin Asks \cup Principals \cup {200, 401, 403, 500, 503}
ASSUME BoundsAssumption == MaxRequests \in Nat /\ MaxChanges \in Nat

VARIABLES
    config,  \* the process's settings
    tuples,  \* OpenFGA's tuples: who has which role in which tenant
    revoked, \* the tokens the auth server has revoked
    changes, \* how many changes administrators have made
    made,    \* how many requests were made
    cache,   \* PermissionCache
    known,   \* IntrospectionCache: whether a token is active
    pc,      \* where a request is: "free" before and after, "done" when answered
    ask,     \* what it asks
    user,    \* its principal
    answer,  \* its HTTP status
    past,    \* history: the tuples that OpenFGA has had
    during,  \* history: those it has had since the request began
    shaky    \* history: the tokens of which an introspection has failed

shared == <<config, tuples, revoked, changes, made, cache, known, past, shaky>>
own == <<pc, ask, user, answer, during>>
vars == <<shared, own>>

\* A cache with an entry put, or taken away.
With(f, k, v) == [j \in DOMAIN f \cup {k} |-> IF j = k THEN v ELSE f[j]]
Without(f, k) == [j \in DOMAIN f \ {k} |-> f[j]]

(***************************************************************************)
(* OpenFGA                                                                 *)
(***************************************************************************)
Objects == Tenants \cup Resources
Relations == {"member", "permission", "action", "admin"}
Keys == Subs \X Relations \X Objects

Place(object) == IF object \in Tenants THEN object ELSE TenantOf[object]

Allows(ts, k) == \E role \in Roles : <<k[1], role, Place(k[3])>> \in ts /\ k[2] \in Confers[role]

\* The tuples become ts; history follows.
Store(ts) ==
    /\ tuples' = ts
    /\ past' = past \cup {ts}
    /\ during' = [r \in Requests |-> IF ask[r] = None THEN {} ELSE during[r] \cup {ts}]

(***************************************************************************)
(* Tokens and principals                                                   *)
(***************************************************************************)
Principal(id, tenant, role, is_service, is_demo) ==
    [id |-> id, tenant |-> tenant, role |-> role, is_service |-> is_service, is_demo |-> is_demo]

\* A service token's tenant is its own; it has no role.
ServicePrincipal(t) == Principal(Claims[t].sub, Claims[t].tenant, None, TRUE, FALSE)
DemoPrincipal(t) == Principal(None, Claims[t].tenant, None, FALSE, TRUE)

\* parse_user_token: a session whose sub names a service is a service's.
UserPrincipal(t) == Principal(Claims[t].sub, Claims[t].tenant, Claims[t].role, Claims[t].sub \in Services, FALSE)

\* verify_via_introspection: whoever the auth server names is a person.
PatPrincipal(t) == Principal(Claims[t].sub, Claims[t].tenant, Claims[t].role, FALSE, FALSE)

\* Mutant of verify_service_jwt: the audience is left to the scopes.
verify_service_jwt_anyaud(t, aud) ==
    config.service_token_signing_secret /\ Claims[t].signed = "service" /\ Claims[t].valid /\ Claims[t].kind = "service"

verify_service_jwt(t, aud) ==
    /\ config.service_token_signing_secret
    /\ Claims[t].signed = "service" /\ Claims[t].valid /\ Claims[t].kind = "service"
    /\ Claims[t].aud = aud /\ Claims[t].scopes \subseteq {aud}

IsDemo(t) ==
    /\ config.demo_jwt_secret
    /\ Claims[t].is_demo /\ Claims[t].signed = "demo" /\ Claims[t].valid /\ Claims[t].tenant # None

verify_user_jwt(t) == Claims[t].signed = "user" /\ Claims[t].valid

\* What the auth server answers.
Active(t) == Claims[t].kind = "pat" /\ Claims[t].signed = "service" /\ Claims[t].valid /\ t \notin revoked

Init ==
    /\ config \in Configs
    /\ tuples \in InitialTuples
    /\ revoked = {} /\ changes = 0 /\ made = 0
    /\ cache = <<>> /\ known = <<>>
    /\ pc = [r \in Requests |-> "free"]
    /\ ask = [r \in Requests |-> None] /\ user = ask /\ answer = ask
    /\ past = {tuples} /\ during = [r \in Requests |-> {}]
    /\ shaky = {}

(***************************************************************************)
(* The guard: require_permission, check_tenant_permission, require_admin   *)
(***************************************************************************)
Goto(r, place) == pc' = [pc EXCEPT ![r] = place]

Answer(r, status) == Goto(r, "done") /\ answer' = [answer EXCEPT ![r] = status]

\* The key that is checked for principal u.
Wanted(a, u) ==
    CASE a.route.guard = "resource" -> <<u.id, "action", a.resource>>
      [] a.route.guard = "admin"    -> <<u.id, "admin", u.tenant>>
      [] OTHER                      -> <<u.id, "permission", u.tenant>>

\* Let through without a check.
Exempt(a, u) ==
    \/ a.route.guard = "none"
    \/ u.is_demo \/ ~config.openfga_api_url
    \/ a.route.guard = "admin" /\ u.is_service

\* Only a permission on a resource can do without a tenant.
NoTenant(a, u) == a.route.guard # "resource" /\ u.tenant = None

\* PermissionCache.get, and what follows.
LookUp(r, k) ==
    IF k \in DOMAIN cache THEN Answer(r, IF cache[k] THEN 200 ELSE 403)
    ELSE Goto(r, "check") /\ UNCHANGED answer

\* The guard begins with principal u; the role in the token is provisioned first.
Enter(r, a, u) ==
    /\ user' = [user EXCEPT ![r] = u]
    /\ IF Exempt(a, u) THEN Answer(r, 200)
       ELSE IF NoTenant(a, u) THEN Answer(r, 403)
       ELSE IF ~u.is_service /\ u.role # None /\ u.tenant # None
            THEN Goto(r, "provision") /\ UNCHANGED answer
       ELSE LookUp(r, Wanted(a, u))

(***************************************************************************)
(* The tenant: _resolve_active_tenant                                      *)
(***************************************************************************)
\* Mutant of FindTenant: the header is taken as it comes.
FindTenantUnchecked(r, a, u) ==
    IF u.is_demo \/ u.is_service \/ a.header = None THEN Enter(r, a, u)
    ELSE Enter(r, a, [u EXCEPT !.tenant = a.header])

FindTenant(r, a, u) ==
    IF u.is_demo \/ u.is_service \/ a.header = None THEN Enter(r, a, u)
    ELSE IF config.openfga_api_url
         THEN Goto(r, "membership") /\ user' = [user EXCEPT ![r] = u] /\ UNCHANGED answer
    ELSE Enter(r, a, [u EXCEPT !.tenant = a.header])

(***************************************************************************)
(* The principal: combined_principal, get_current_user, ServiceKeyAuth     *)
(***************************************************************************)
\* A request arrives; nothing but itself changes before its first await.
Arrive(r, a) ==
    /\ pc[r] = "free" /\ made < MaxRequests
    /\ made' = made + 1
    /\ ask' = [ask EXCEPT ![r] = a]
    /\ during' = [during EXCEPT ![r] = {tuples}]
    /\ UNCHANGED <<config, tuples, revoked, changes, cache, past>>

\* Taken for a service's by the route.
IsServices(a) == a.route.aud # None /\ verify_service_jwt(a.token, a.route.aud)

\* get_current_user has come past the service and the demo tokens.
ForSession(a) ==
    /\ a.token # None /\ a.route.dep # "ServiceKeyAuth"
    /\ ~IsServices(a) /\ ~IsDemo(a.token)

ArriveNameless(r, a) ==
    /\ a.token = None
    /\ Arrive(r, a) /\ Answer(r, 401)
    /\ UNCHANGED <<user, known, shaky>>

\* ServiceKeyAuth hands the payload to its handler; there is no guard behind it.
ArriveService(r, a) ==
    /\ a.token # None /\ IsServices(a)
    /\ Arrive(r, a) /\ Enter(r, a, ServicePrincipal(a.token))
    /\ UNCHANGED <<known, shaky>>

\* Mutant of ArriveNoService: combined_principal does not fall through to the users.
ArriveNoServiceFinal(r, a) ==
    /\ a.token # None /\ a.route.aud # None /\ ~IsServices(a)
    /\ Arrive(r, a) /\ Answer(r, 401)
    /\ UNCHANGED <<user, known, shaky>>

ArriveNoService(r, a) ==
    /\ a.token # None /\ a.route.dep = "ServiceKeyAuth" /\ ~IsServices(a)
    /\ Arrive(r, a) /\ Answer(r, 401)
    /\ UNCHANGED <<user, known, shaky>>

ArriveDemo(r, a) ==
    /\ a.token # None /\ a.route.dep # "ServiceKeyAuth" /\ ~IsServices(a) /\ IsDemo(a.token)
    /\ Arrive(r, a) /\ Enter(r, a, DemoPrincipal(a.token))
    /\ UNCHANGED <<known, shaky>>

\* A session is verified.  parse_user_token, outside the try, raises for an empty sub.
ArriveSession(r, a) ==
    /\ ForSession(a) /\ verify_user_jwt(a.token)
    /\ Arrive(r, a)
    /\ IF Claims[a.token].sub = None THEN Answer(r, 500) /\ UNCHANGED user
       ELSE FindTenant(r, a, UserPrincipal(a.token))
    /\ UNCHANGED <<known, shaky>>

\* Not a session, or one whose key the JWKS endpoint did not give.
Unverified(a) ==
    IF verify_user_jwt(a.token)
    THEN config.user_jwt_jwks_url /\ shaky' = shaky \cup {a.token}
    ELSE UNCHANGED shaky

\* Without introspection that is the end; with it, IntrospectionCache is asked, and
\* then the auth server.
ArriveOther(r, a) ==
    /\ ForSession(a) /\ Unverified(a)
    /\ Arrive(r, a)
    /\ IF ~config.introspection_url THEN Answer(r, 401) /\ UNCHANGED user
       ELSE IF a.token \notin DOMAIN known THEN Goto(r, "introspect") /\ UNCHANGED <<user, answer>>
       ELSE IF known[a.token] THEN FindTenant(r, a, PatPrincipal(a.token))
       ELSE Answer(r, 401) /\ UNCHANGED user
    /\ UNCHANGED known

\* The awaits that follow an arrival keep the request and its tuples' history.
Later == UNCHANGED <<config, revoked, changes, made, ask>>

\* The auth server's answer.
Introspected(r) ==
    /\ pc[r] = "introspect"
    /\ LET t == ask[r].token IN
       /\ known' = With(known, t, Active(t))
       /\ IF Active(t) THEN FindTenant(r, ask[r], PatPrincipal(t))
          ELSE Answer(r, 401) /\ UNCHANGED user
    /\ UNCHANGED <<tuples, cache, past, during, shaky>> /\ Later

\* It cannot be had: IntrospectionClient says inactive, and that is cached.
IntrospectionFails(r) ==
    /\ pc[r] = "introspect"
    /\ known' = With(known, ask[r].token, FALSE)
    /\ shaky' = shaky \cup {ask[r].token}
    /\ Answer(r, 401)
    /\ UNCHANGED <<tuples, cache, past, during, user>> /\ Later

\* OpenFGA's answer on the membership in the header's tenant.
MembershipAnswered(r) ==
    /\ pc[r] = "membership"
    /\ LET a == ask[r] IN
       IF Allows(tuples, <<user[r].id, "member", a.header>>)
       THEN Enter(r, a, [user[r] EXCEPT !.tenant = a.header])
       ELSE Answer(r, 403) /\ UNCHANGED user
    /\ UNCHANGED <<tuples, cache, known, past, during, shaky>> /\ Later

\* Mutant of MembershipFails: who cannot be checked is let pass.
MembershipFailsOpen(r) ==
    /\ pc[r] = "membership"
    /\ Enter(r, ask[r], [user[r] EXCEPT !.tenant = ask[r].header])
    /\ UNCHANGED <<tuples, cache, known, past, during, shaky>> /\ Later

MembershipFails(r) ==
    /\ pc[r] = "membership"
    /\ Answer(r, 503)
    /\ UNCHANGED <<user, tuples, cache, known, past, during, shaky>> /\ Later

(***************************************************************************)
(* check_permission                                                        *)
(***************************************************************************)
\* The tuple that the role in the token becomes, on the tenant the principal acts for.
Provisioned(r) == <<user[r].id, user[r].role, user[r].tenant>>

\* OpenFGA stores the tuple, and says so or not.
Provision(r) ==
    /\ pc[r] = "provision"
    /\ Store(tuples \cup {Provisioned(r)})
    /\ LookUp(r, Wanted(ask[r], user[r]))
    /\ UNCHANGED <<user, cache, known, shaky>> /\ Later

\* It does not; the error is swallowed.
ProvisionFails(r) ==
    /\ pc[r] = "provision"
    /\ LookUp(r, Wanted(ask[r], user[r]))
    /\ UNCHANGED <<user, tuples, cache, known, past, during, shaky>> /\ Later

Checked(r) ==
    /\ pc[r] = "check"
    /\ LET k == Wanted(ask[r], user[r]) IN
       /\ cache' = With(cache, k, Allows(tuples, k))
       /\ Answer(r, IF Allows(tuples, k) THEN 200 ELSE 403)
    /\ UNCHANGED <<user, tuples, known, past, during, shaky>> /\ Later

\* Mutant of CheckFails: the failure is taken and remembered as a denial.
CheckFailsDenied(r) ==
    /\ pc[r] = "check"
    /\ cache' = With(cache, Wanted(ask[r], user[r]), FALSE)
    /\ Answer(r, 403)
    /\ UNCHANGED <<user, tuples, known, past, during, shaky>> /\ Later

\* Mutant of CheckFails: the whole check is made again.
CheckFailsAgain(r) ==
    /\ pc[r] = "check"
    /\ Goto(r, "provision")
    /\ UNCHANGED <<answer, user, tuples, cache, known, past, during, shaky>> /\ Later

\* Nothing catches the OpenFGAError.
CheckFails(r) ==
    /\ pc[r] = "check"
    /\ Answer(r, 500)
    /\ UNCHANGED <<user, tuples, cache, known, past, during, shaky>> /\ Later

Return(r) ==
    /\ pc[r] = "done"
    /\ Goto(r, "free")
    /\ ask' = [ask EXCEPT ![r] = None] /\ user' = [user EXCEPT ![r] = None]
    /\ answer' = [answer EXCEPT ![r] = None] /\ during' = [during EXCEPT ![r] = {}]
    /\ UNCHANGED shared

(***************************************************************************)
(* Administrators, and entries that lapse                                  *)
(***************************************************************************)
Administer(tuple) ==
    /\ changes < MaxChanges
    /\ changes' = changes + 1
    /\ Store(IF tuple \in tuples THEN tuples \ {tuple} ELSE tuples \cup {tuple})
    /\ UNCHANGED <<config, revoked, made, cache, known, shaky, pc, ask, user, answer>>

Revoke(t) ==
    /\ changes < MaxChanges /\ Claims[t].kind = "pat" /\ t \notin revoked
    /\ changes' = changes + 1
    /\ revoked' = revoked \cup {t}
    /\ UNCHANGED <<config, tuples, made, cache, known, past, shaky, own>>

Lapse ==
    /\ \/ \E k \in DOMAIN cache : cache' = Without(cache, k) /\ UNCHANGED known
       \/ \E t \in DOMAIN known : known' = Without(known, t) /\ UNCHANGED cache
    /\ UNCHANGED <<config, tuples, revoked, changes, made, past, shaky, own>>

\* There is no await between an answer and the return: nothing else runs before it.
LoopFree(rs) == \A r \in rs : pc[r] # "done"

\* A request's way from an await to the next, or to its answer.
Step(r) ==
    /\ LoopFree(Requests \ {r})
    /\ \/ Introspected(r) \/ IntrospectionFails(r)
       \/ MembershipAnswered(r) \/ MembershipFails(r)
       \/ Provision(r) \/ ProvisionFails(r)
       \/ Checked(r) \/ CheckFails(r)
       \/ Return(r)

ARequestArrives ==
    \E r \in Requests, a \in Asks :
        \/ ArriveNameless(r, a) \/ ArriveService(r, a) \/ ArriveNoService(r, a)
        \/ ArriveDemo(r, a) \/ ArriveSession(r, a) \/ ArriveOther(r, a)

Next ==
    \/ \E r \in Requests : Step(r)
    \/ /\ LoopFree(Requests)
       /\ \/ ARequestArrives
          \/ \E tuple \in Subs \X Roles \X Tenants : Administer(tuple)
          \/ \E t \in Tokens : Revoke(t)
          \/ Lapse

\* The clients of OpenFGA and of the auth server have timeouts.
Fairness == \A r \in Requests : WF_vars(Step(r))

Spec == Init /\ [][Next]_vars /\ Fairness

(***************************************************************************)
(* Properties                                                              *)
(***************************************************************************)
\* The state is well formed, and every answer has its status.
TypeOK ==
    /\ config \in Configs /\ tuples \in SUBSET (Subs \X Roles \X Tenants)
    /\ revoked \subseteq Tokens /\ shaky \subseteq Tokens
    /\ changes \in 0..MaxChanges /\ made \in 0..MaxRequests
    /\ DOMAIN cache \subseteq Keys /\ \A k \in DOMAIN cache : cache[k] \in BOOLEAN
    /\ DOMAIN known \subseteq Tokens /\ \A t \in DOMAIN known : known[t] \in BOOLEAN
    /\ pc \in [Requests -> {"free", "introspect", "membership", "provision", "check", "done"}]
    /\ ask \in [Requests -> Asks \cup {None}] /\ user \in [Requests -> Principals \cup {None}]
    /\ answer \in [Requests -> {200, 401, 403, 500, 503} \cup {None}]
    /\ \A r \in Requests : pc[r] = "done" <=> answer[r] # None
    /\ tuples \in past /\ during \in [Requests -> SUBSET past]

\* Request r was let through for a person who named tenant T in the header.
LetThrough(r) == answer[r] = 200
Named(r) ==
    /\ config.openfga_api_url /\ user[r] # None /\ ask[r].header # None
    /\ ~user[r].is_service /\ ~user[r].is_demo

\* A person acts for the tenant of the header and for no other, and OpenFGA had the
\* person as a member of it at some time during the very request: whatever is cached,
\* fails or changes meanwhile, also on routes that check nothing else.
HeaderVetted ==
    \A r \in Requests : LetThrough(r) /\ Named(r) =>
        /\ user[r].tenant = ask[r].header
        /\ \E ts \in during[r] : Allows(ts, <<user[r].id, "member", ask[r].header>>)

\* A guarded request is let through, or refused with 403, only if OpenFGA's tuples once
\* said so of what it asked: of its key, or of its membership while it ran.  A service
\* that cannot be reached speaks neither way, and is not remembered as if it had.
DecisionsBacked ==
    \A r \in Requests :
        LET a == ask[r]  u == user[r] IN
        /\ (answer[r] = 200 /\ ~Exempt(a, u)) => \E ts \in past : Allows(ts, Wanted(a, u))
        /\ answer[r] = 403 =>
             \/ NoTenant(a, u)
             \/ \E ts \in past : ~Allows(ts, Wanted(a, u))
             \/ Named(r) /\ \E ts \in during[r] : ~Allows(ts, <<u.id, "member", a.header>>)

\* Who is let through as a service has a service token for the route's audience, all of
\* whose scopes are for it, or a session in a service's name; it acts for the tenant of
\* that token, whatever the header says.
ServicesStayInTheirOwn ==
    \A r \in Requests : LetThrough(r) /\ user[r].is_service =>
        LET t == ask[r].token  aud == ask[r].route.aud IN
        /\ user[r].tenant = Claims[t].tenant
        /\ \/ Claims[t].signed = "service" /\ Claims[t].kind = "service" /\ Claims[t].aud = aud /\ Claims[t].scopes \subseteq {aud}
           \/ Claims[t].signed = "user" /\ Claims[t].sub \in Services

\* The reasons there are to refuse what a asks as unauthenticated.
Reason(a) ==
    LET t == a.token  route == a.route IN
    \/ t = None
    \/ ~Claims[t].valid \/ t \in revoked \/ t \in shaky
    \/ route.dep = "ServiceKeyAuth" /\ Claims[t].kind # "service"
    \/ Claims[t].kind = "service" /\ (~config.service_token_signing_secret \/ Claims[t].aud # route.aud \/ ~(Claims[t].scopes \subseteq {Claims[t].aud}))
    \/ Claims[t].kind = "pat" /\ ~config.introspection_url
    \/ Claims[t].signed = "demo" /\ (~config.demo_jwt_secret \/ ~Claims[t].is_demo \/ Claims[t].tenant = None)

\* A 401 has its reason in the token, in the route or in the settings, or in a failure:
\* the dispatch over four kinds of token loses none.
RejectedForReason == \A r \in Requests : answer[r] = 401 => Reason(ask[r])

\* Requests write the role of a token to OpenFGA only in the tenant of that token, or in
\* one where its owner was a member at some time during the request.
ProvisionsWhereKnown ==
    [][changes' = changes => \A tuple \in tuples' \ tuples :
         \E r \in Requests :
             /\ pc[r] = "provision" /\ <<Claims[ask[r].token].sub, Claims[ask[r].token].role>> = <<tuple[1], tuple[2]>>
             /\ \/ Claims[ask[r].token].tenant = tuple[3]
                \/ \E ts \in during[r] : Allows(ts, <<tuple[1], "member", tuple[3]>>)]_vars

\* Every request is answered, whatever fails.
EveryoneAnswered == \A r \in Requests : pc[r] # "free" ~> pc[r] = "free"
=============================================================================
