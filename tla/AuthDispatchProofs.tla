-------------------------- MODULE AuthDispatchProofs --------------------------
(***************************************************************************)
(* Theorems about AuthDispatch for any requests, tokens, principals,       *)
(* tenants and tuples.  The argument follows one request: what is known of *)
(* its principal when it enters the guard stays true at every await,       *)
(* because history only grows and no other request touches it; and what    *)
(* the caches say was once said by OpenFGA and by the auth server.         *)
(***************************************************************************)
EXTENDS AuthDispatch, TLAPS

Statuses == {200, 401, 403, 500, 503}
Places == {"free", "introspect", "membership", "provision", "check", "done"}

-----------------------------------------------------------------------------
(* The invariant. *)

\* A service's principal has this behind it.
Backs(a) ==
    LET t == a.token  aud == a.route.aud IN
    \/ Claims[t].signed = "service" /\ Claims[t].kind = "service" /\ Claims[t].aud = aud /\ Claims[t].scopes \subseteq {aud}
    \/ Claims[t].signed = "user" /\ Claims[t].sub \in Services

\* OpenFGA, whose tuples were those of D, had u as a member of the header's tenant.
Member(a, u, D) ==
    u.tenant = a.header /\ \E ts \in D : Allows(ts, <<u.id, "member", a.header>>)

Person(u) == ~u.is_service /\ ~u.is_demo

\* Where principal u of a request a comes from.
Origin(a, u, D) ==
    /\ a.token # None
    /\ u.is_demo => ~u.is_service
    /\ ~u.is_demo => u.id = Claims[a.token].sub /\ u.id # None
    /\ Person(u) => u.role = Claims[a.token].role
    /\ u.is_service => u.tenant = Claims[a.token].tenant /\ Backs(a)
    /\ config.openfga_api_url /\ Person(u) =>
          u.tenant = Claims[a.token].tenant \/ Member(a, u, D)

\* A header is vetted.
Vetted(a, u, D) ==
    config.openfga_api_url /\ a.header # None /\ Person(u) => Member(a, u, D)

\* What holds while request r waits.
Waits(r) ==
    /\ pc[r] = "free" => ask[r] = None /\ user[r] = None
    /\ pc[r] # "free" => ask[r] \in Asks /\ tuples \in during[r]
    /\ user[r] # None => Origin(ask[r], user[r], during[r])
    /\ pc[r] = "introspect" =>
          /\ user[r] = None /\ ForSession(ask[r])
          /\ verify_user_jwt(ask[r].token) => ask[r].token \in shaky
    /\ pc[r] = "membership" =>
          user[r] # None /\ config.openfga_api_url /\ ask[r].header # None /\ Person(user[r])
    /\ pc[r] \in {"provision", "check"} =>
          /\ user[r] # None /\ ~Exempt(ask[r], user[r]) /\ ~NoTenant(ask[r], user[r])
          /\ Vetted(ask[r], user[r], during[r])
    /\ pc[r] = "provision" =>
          ~user[r].is_service /\ user[r].role # None /\ user[r].tenant # None

\* A 403 is OpenFGA's.
Denied(r) ==
    \/ NoTenant(ask[r], user[r])
    \/ \E ts \in past : ~Allows(ts, Wanted(ask[r], user[r]))
    \/ /\ Named(r)
       /\ \E ts \in during[r] : ~Allows(ts, <<user[r].id, "member", ask[r].header>>)

\* What holds when it is answered.
Answers(r) ==
    /\ answer[r] = 200 =>
          /\ user[r] # None /\ Vetted(ask[r], user[r], during[r])
          /\ ~Exempt(ask[r], user[r]) => \E ts \in past : Allows(ts, Wanted(ask[r], user[r]))
    /\ answer[r] = 403 => Denied(r)
    /\ answer[r] = 401 => Reason(ask[r])

\* What the caches say was said.
CachesBacked ==
    /\ \A k \in DOMAIN cache : /\ cache[k] => \E ts \in past : Allows(ts, k)
                               /\ ~cache[k] => \E ts \in past : ~Allows(ts, k)
    /\ \A t \in DOMAIN known :
          /\ known[t] => Claims[t].kind = "pat"
          /\ ~known[t] => \/ Claims[t].kind # "pat" \/ Claims[t].signed # "service"
                          \/ ~Claims[t].valid \/ t \in revoked \/ t \in shaky

IInv ==
    /\ TypeOK /\ CachesBacked
    /\ \A r \in Requests : Waits(r) /\ Answers(r)

-----------------------------------------------------------------------------
\* The initial states satisfy the invariant.
LEMMA InitIInv == Init => IInv
<1> SUFFICES ASSUME Init PROVE IInv
  OBVIOUS
<1> USE DEF Init
<1>1. None \notin Statuses
  BY NoneAssumption DEF Statuses
<1>2. tuples \in SUBSET (Subs \X Roles \X Tenants)
  BY ConfigsAssumption
<1>3. DOMAIN cache = {} /\ DOMAIN known = {}
  OBVIOUS
<1>4. TypeOK
  BY <1>1, <1>2, <1>3, BoundsAssumption DEF TypeOK, Statuses
<1>5. CachesBacked
  BY <1>3 DEF CachesBacked
<1>6. ASSUME NEW r \in Requests PROVE Waits(r) /\ Answers(r)
  <2>1. pc[r] = "free" /\ ask[r] = None /\ user[r] = None /\ answer[r] = None
    OBVIOUS
  <2> QED BY <2>1, <1>1 DEF Waits, Answers, Statuses
<1> QED BY <1>4, <1>5, <1>6 DEF IInv

\* What is known of a request outlasts the steps of others: history only grows.
LEMMA Frame ==
  ASSUME NEW q \in Requests, Waits(q), Answers(q),
         UNCHANGED <<config, pc[q], ask[q], user[q], answer[q]>>,
         past \subseteq past', during[q] \subseteq during'[q],
         pc[q] # "free" => tuples' \in during'[q],
         revoked \subseteq revoked', shaky \subseteq shaky'
  PROVE  (Waits(q) /\ Answers(q))'
<1>1. Waits(q)'
  BY SMTT(30) DEF Waits, Origin, Member, Vetted, Exempt, ForSession, IsServices,
        verify_service_jwt, IsDemo
<1>2. Answers(q)'
  <2>1. answer[q] = 401 => Reason(ask[q])'
    BY DEF Answers, Reason
  <2>2. answer[q] = 403 => Denied(q)'
    BY DEF Answers, Denied, Named
  <2>3. (answer[q] = 200 =>
          /\ user[q] # None /\ Vetted(ask[q], user[q], during[q])
          /\ ~Exempt(ask[q], user[q]) => \E ts \in past : Allows(ts, Wanted(ask[q], user[q])))'
    BY DEF Answers, Vetted, Member, Exempt
  <2> QED BY <2>1, <2>2, <2>3 DEF Answers
<1> QED BY <1>1, <1>2

-----------------------------------------------------------------------------
(* What a step does. *)

\* Request r goes to p, answered s, with principal u.
Does(r, p, s, u) ==
    /\ pc' = [pc EXCEPT ![r] = p] /\ answer' = [answer EXCEPT ![r] = s]
    /\ user' = [user EXCEPT ![r] = u]
    /\ p \in Places /\ s \in Statuses \cup {None} /\ u \in Principals \cup {None}
    /\ p = "done" <=> s # None

\* What OpenFGA, the auth server and the caches hold has its type.
SharedTyped ==
    /\ config \in Configs /\ tuples \in SUBSET (Subs \X Roles \X Tenants)
    /\ revoked \subseteq Tokens /\ shaky \subseteq Tokens
    /\ changes \in 0..MaxChanges /\ made \in 0..MaxRequests
    /\ DOMAIN cache \subseteq Keys /\ \A k \in DOMAIN cache : cache[k] \in BOOLEAN
    /\ DOMAIN known \subseteq Tokens /\ \A t \in DOMAIN known : known[t] \in BOOLEAN
    /\ tuples \in past

\* A request's step keeps the invariant if it does for that request and for what the
\* requests share, and lets history grow.
LEMMA Together ==
  ASSUME IInv, NEW r \in Requests, NEW p, NEW s, NEW u, NEW a \in Asks \cup {None},
         Does(r, p, s, u), ask' = [ask EXCEPT ![r] = a],
         SharedTyped', CachesBacked', (Waits(r) /\ Answers(r))',
         UNCHANGED config, past \subseteq past', revoked \subseteq revoked', shaky \subseteq shaky',
         during' \in [Requests -> SUBSET past'],
         \A q \in Requests \ {r} : /\ during[q] \subseteq during'[q]
                                   /\ pc[q] # "free" => tuples' \in during'[q]
  PROVE  IInv'
<1>1. TypeOK'
  <2>1. /\ pc \in [Requests -> Places] /\ ask \in [Requests -> Asks \cup {None}]
        /\ user \in [Requests -> Principals \cup {None}]
        /\ answer \in [Requests -> Statuses \cup {None}]
        /\ \A q \in Requests : pc[q] = "done" <=> answer[q] # None
    BY DEF IInv, TypeOK, Places, Statuses
  <2>2. /\ pc' \in [Requests -> Places] /\ ask' \in [Requests -> Asks \cup {None}]
        /\ user' \in [Requests -> Principals \cup {None}]
        /\ answer' \in [Requests -> Statuses \cup {None}]
    BY <2>1 DEF Does
  <2>3. \A q \in Requests : pc'[q] = "done" <=> answer'[q] # None
    BY <2>1 DEF Does
  <2> QED BY <2>2, <2>3 DEF TypeOK, SharedTyped, Places, Statuses
<1>2. ASSUME NEW q \in Requests PROVE (Waits(q) /\ Answers(q))'
  <2>1. CASE q = r BY <2>1
  <2>2. CASE q # r
    <3>1. UNCHANGED <<pc[q], ask[q], user[q], answer[q]>>
      BY <2>2 DEF Does, IInv, TypeOK
    <3>2. Waits(q) /\ Answers(q)
      BY DEF IInv
    <3> QED BY <2>2, <3>1, <3>2, Frame
  <2> QED BY <2>1, <2>2
<1> QED BY <1>1, <1>2 DEF IInv

\* Looking a key up answers, on what is cached, or goes on to OpenFGA.
LEMMA LookUpDoes ==
  ASSUME TypeOK, NEW r \in Requests, pc[r] # "done", NEW k, LookUp(r, k)
  PROVE  \E p \in {"done", "check"}, s \in {200, 403, None} :
            /\ pc' = [pc EXCEPT ![r] = p] /\ answer' = [answer EXCEPT ![r] = s]
            /\ p = "done" <=> s # None
            /\ s = 200 => k \in DOMAIN cache /\ cache[k]
            /\ s = 403 => k \in DOMAIN cache /\ ~cache[k]
<1>0. None \notin Statuses /\ answer[r] = None /\ answer \in [Requests -> Statuses \cup {None}]
  BY NoneAssumption DEF TypeOK, Statuses
<1>1. CASE k \in DOMAIN cache /\ cache[k]
  <2>1. pc' = [pc EXCEPT ![r] = "done"] /\ answer' = [answer EXCEPT ![r] = 200]
    BY <1>1 DEF LookUp, Answer, Goto
  <2> QED BY <1>0, <1>1, <2>1 DEF Statuses
<1>2. CASE k \in DOMAIN cache /\ ~cache[k]
  <2>1. pc' = [pc EXCEPT ![r] = "done"] /\ answer' = [answer EXCEPT ![r] = 403]
    BY <1>2 DEF LookUp, Answer, Goto
  <2> QED BY <1>0, <1>2, <2>1 DEF Statuses
<1>3. CASE k \notin DOMAIN cache
  <2>1. pc' = [pc EXCEPT ![r] = "check"] /\ answer' = answer
    BY <1>3 DEF LookUp, Goto
  <2>2. answer' = [answer EXCEPT ![r] = None]
    BY <1>0, <2>1
  <2> QED BY <1>0, <2>1, <2>2 DEF Statuses
<1> QED BY <1>1, <1>2, <1>3

\* What entering the guard does to request r, which asks a as u.
Entered(r, a, u, p, s) ==
    /\ Does(r, p, s, u)
    /\ p \in {"done", "provision", "check"} /\ s \in {200, 403, None}
    /\ p # "done" => ~Exempt(a, u) /\ ~NoTenant(a, u)
    /\ p = "provision" => ~u.is_service /\ u.role # None /\ u.tenant # None
    /\ s = 200 => Exempt(a, u) \/ (Wanted(a, u) \in DOMAIN cache /\ cache[Wanted(a, u)])
    /\ s = 403 => NoTenant(a, u) \/ (Wanted(a, u) \in DOMAIN cache /\ ~cache[Wanted(a, u)])

\* Enter does that.
LEMMA EnterDoes ==
  ASSUME TypeOK, NEW r \in Requests, pc[r] # "done", NEW a, NEW u \in Principals,
         Enter(r, a, u)
  PROVE  \E p, s : Entered(r, a, u, p, s)
<1>0. None \notin Statuses /\ answer[r] = None /\ answer \in [Requests -> Statuses \cup {None}]
  BY NoneAssumption DEF TypeOK, Statuses
<1>1. user' = [user EXCEPT ![r] = u]
  BY DEF Enter
<1>2. CASE Exempt(a, u)
  <2>1. pc' = [pc EXCEPT ![r] = "done"] /\ answer' = [answer EXCEPT ![r] = 200]
    BY <1>2 DEF Enter, Answer, Goto
  <2>2. Entered(r, a, u, "done", 200)
    BY <1>0, <1>1, <1>2, <2>1 DEF Entered, Does, Places, Statuses
  <2> QED BY <2>2
<1>3. CASE ~Exempt(a, u) /\ NoTenant(a, u)
  <2>1. pc' = [pc EXCEPT ![r] = "done"] /\ answer' = [answer EXCEPT ![r] = 403]
    BY <1>3 DEF Enter, Answer, Goto
  <2>2. Entered(r, a, u, "done", 403)
    BY <1>0, <1>1, <1>3, <2>1 DEF Entered, Does, Places, Statuses
  <2> QED BY <2>2
<1>4. CASE /\ ~Exempt(a, u) /\ ~NoTenant(a, u)
           /\ ~u.is_service /\ u.role # None /\ u.tenant # None
  <2>1. pc' = [pc EXCEPT ![r] = "provision"] /\ answer' = answer
    BY <1>4 DEF Enter, Goto
  <2>2. answer' = [answer EXCEPT ![r] = None]
    BY <1>0, <2>1
  <2>3. Entered(r, a, u, "provision", None)
    BY <1>0, <1>1, <1>4, <2>1, <2>2 DEF Entered, Does, Places, Statuses
  <2> QED BY <2>3
<1>5. CASE /\ ~Exempt(a, u) /\ ~NoTenant(a, u)
           /\ ~(~u.is_service /\ u.role # None /\ u.tenant # None)
  <2>1. LookUp(r, Wanted(a, u))
    BY <1>5 DEF Enter
  <2>2. PICK p \in {"done", "check"}, s \in {200, 403, None} :
            /\ pc' = [pc EXCEPT ![r] = p] /\ answer' = [answer EXCEPT ![r] = s]
            /\ p = "done" <=> s # None
            /\ s = 200 => Wanted(a, u) \in DOMAIN cache /\ cache[Wanted(a, u)]
            /\ s = 403 => Wanted(a, u) \in DOMAIN cache /\ ~cache[Wanted(a, u)]
    BY <2>1, LookUpDoes
  <2>3. Does(r, p, s, u)
    BY <1>1, <2>2 DEF Does, Places, Statuses
  <2>4. Entered(r, a, u, p, s)
    BY <1>5, <2>2, <2>3 DEF Entered
  <2> QED BY <2>4
<1> QED BY <1>2, <1>3, <1>4, <1>5

\* A request that enters the guard with a principal of known origin, vetted, is fine.
LEMMA EnteredFine ==
  ASSUME TypeOK, CachesBacked, NEW r \in Requests, NEW a \in Asks, NEW u \in Principals,
         NEW p, NEW s, Entered(r, a, u, p, s), UNCHANGED config, ask'[r] = a,
         past \subseteq past', tuples' \in during'[r],
         Origin(a, u, during'[r]), Vetted(a, u, during'[r])
  PROVE  (Waits(r) /\ Answers(r))'
<1>1. pc'[r] = p /\ answer'[r] = s /\ user'[r] = u
  BY DEF Entered, Does, TypeOK
<1>2. None \notin Statuses /\ u # None
  BY NoneAssumption DEF Statuses
<1>3. /\ (Origin(ask[r], user[r], during[r]))' /\ (Vetted(ask[r], user[r], during[r]))'
      /\ (Exempt(ask[r], user[r]))' <=> Exempt(a, u)
  BY <1>1 DEF Origin, Vetted, Member, Exempt
<1>4. Waits(r)'
  <2>1. p \in {"done", "provision", "check"}
    BY DEF Entered
  <2> QED BY <1>1, <1>2, <1>3, <2>1 DEF Waits, Entered
<1>5. answer'[r] = 200 => (~Exempt(a, u) => \E ts \in past' : Allows(ts, Wanted(a, u)))
  BY <1>1 DEF Entered, CachesBacked
<1>6. answer'[r] = 403 => Denied(r)'
  <2>1. s = 403 => NoTenant(a, u) \/ \E ts \in past' : ~Allows(ts, Wanted(a, u))
    BY DEF Entered, CachesBacked
  <2> QED BY <1>1, <2>1 DEF Denied
<1>7. answer'[r] # 401
  BY <1>1, NoneAssumption DEF Entered
<1> QED BY <1>1, <1>2, <1>3, <1>4, <1>5, <1>6, <1>7 DEF Answers

\* So is one that enters the guard.
LEMMA EnterFine ==
  ASSUME TypeOK, CachesBacked, NEW r \in Requests, pc[r] # "done",
         NEW a \in Asks, NEW u \in Principals, Enter(r, a, u),
         UNCHANGED config, ask'[r] = a, past \subseteq past', tuples' \in during'[r],
         Origin(a, u, during'[r]), Vetted(a, u, during'[r])
  PROVE  (Waits(r) /\ Answers(r))' /\ \E p, s, v : Does(r, p, s, v)
<1>1. PICK p, s : Entered(r, a, u, p, s)
  BY EnterDoes
<1>2. (Waits(r) /\ Answers(r))'
  BY <1>1, EnteredFine
<1> QED BY <1>1, <1>2 DEF Entered

\* And one whose tenant is to be found, of a principal with the tenant of its token.
LEMMA FindTenantFine ==
  ASSUME TypeOK, CachesBacked, NEW r \in Requests, pc[r] # "done",
         NEW a \in Asks, NEW u \in Principals, FindTenant(r, a, u),
         UNCHANGED config, ask'[r] = a, past \subseteq past', tuples' \in during'[r],
         Origin(a, u, during'[r])
  PROVE  (Waits(r) /\ Answers(r))' /\ \E p, s, v : Does(r, p, s, v)
<1>1. CASE u.is_demo \/ u.is_service \/ a.header = None
  <2>1. Enter(r, a, u) BY <1>1 DEF FindTenant
  <2>2. Vetted(a, u, during'[r]) BY <1>1 DEF Vetted, Person
  <2> QED BY <2>1, <2>2, EnterFine
<1>2. CASE ~(u.is_demo \/ u.is_service \/ a.header = None) /\ config.openfga_api_url
  <2>1. /\ pc' = [pc EXCEPT ![r] = "membership"] /\ user' = [user EXCEPT ![r] = u]
        /\ answer' = answer
    BY <1>2 DEF FindTenant, Goto
  <2>2. None \notin Statuses /\ answer[r] = None /\ answer \in [Requests -> Statuses \cup {None}]
    BY NoneAssumption DEF TypeOK, Statuses
  <2>3. Does(r, "membership", None, u)
    <3>1. answer' = [answer EXCEPT ![r] = None] BY <2>1, <2>2
    <3> QED BY <2>1, <3>1 DEF Does, Places
  <2>4. pc'[r] = "membership" /\ answer'[r] = None /\ user'[r] = u
    BY <2>1, <2>2 DEF TypeOK
  <2>5. u # None BY NoneAssumption
  <2>6. (Origin(ask[r], user[r], during[r]))'
    BY <2>4 DEF Origin, Member
  <2>7. Waits(r)'
    BY <1>2, <2>4, <2>5, <2>6 DEF Waits, Person
  <2>8. Answers(r)'
    BY <2>2, <2>4 DEF Answers, Statuses
  <2> QED BY <2>3, <2>7, <2>8
<1>3. CASE ~(u.is_demo \/ u.is_service \/ a.header = None) /\ ~config.openfga_api_url
  <2> DEFINE v == [u EXCEPT !.tenant = a.header]
  <2>1. Enter(r, a, v) BY <1>3 DEF FindTenant
  <2>2. a.header \in Tenants \cup {None} BY AsksAssumption
  <2>3. /\ v \in Principals /\ v.id = u.id /\ v.role = u.role
        /\ v.is_service = u.is_service /\ v.is_demo = u.is_demo
    BY <2>2 DEF Principals
  <2>4. Origin(a, v, during'[r]) BY <1>3, <2>3 DEF Origin, Person
  <2>5. Vetted(a, v, during'[r]) BY <1>3 DEF Vetted
  <2> HIDE DEF v
  <2> QED BY <2>1, <2>3, <2>4, <2>5, EnterFine
<1> QED BY <1>1, <1>2, <1>3

-----------------------------------------------------------------------------
(* Requests that arrive. *)

\* What a request that arrives must do for itself.
LEMMA Arrival ==
  ASSUME IInv, NEW r \in Requests, NEW a \in Asks, Arrive(r, a),
         UNCHANGED known, shaky \subseteq shaky', shaky' \subseteq Tokens,
         (Waits(r) /\ Answers(r))', \E p, s, v : Does(r, p, s, v)
  PROVE  IInv'
<1>1. PICK p, s, v : Does(r, p, s, v) OBVIOUS
<1>2. /\ UNCHANGED <<config, tuples, revoked, changes, cache, past>>
      /\ ask' = [ask EXCEPT ![r] = a] /\ during' = [during EXCEPT ![r] = {tuples}]
      /\ made' = made + 1 /\ made < MaxRequests
  BY DEF Arrive
<1>3. SharedTyped'
  <2>1. made' \in 0..MaxRequests BY <1>2, BoundsAssumption DEF IInv, TypeOK
  <2> QED BY <1>2, <2>1 DEF IInv, TypeOK, SharedTyped
<1>4. CachesBacked' BY <1>2 DEF IInv, CachesBacked
<1>5. during \in [Requests -> SUBSET past] /\ tuples \in past
  BY DEF IInv, TypeOK
<1>6. during' \in [Requests -> SUBSET past'] /\ \A q \in Requests \ {r} : during'[q] = during[q]
  BY <1>2, <1>5
<1>7. \A q \in Requests \ {r} : pc[q] # "free" => tuples' \in during'[q]
  BY <1>2, <1>6 DEF IInv, Waits
<1> QED BY <1>1, <1>2, <1>3, <1>4, <1>5, <1>6, <1>7, Together

\* An answer that ends the way of request r before it has a principal.
LEMMA Refused ==
  ASSUME TypeOK, NEW r \in Requests, NEW s \in {401, 500}, Answer(r, s), UNCHANGED user,
         user[r] = None, ask'[r] \in Asks, tuples' \in during'[r],
         s = 401 => Reason(ask[r])'
  PROVE  (Waits(r) /\ Answers(r))' /\ \E p, t, v : Does(r, p, t, v)
<1>1. None \notin Statuses BY NoneAssumption DEF Statuses
<1>2. pc' = [pc EXCEPT ![r] = "done"] /\ answer' = [answer EXCEPT ![r] = s]
  BY DEF Answer, Goto
<1>3. user' = [user EXCEPT ![r] = None]
  BY DEF TypeOK
<1>4. Does(r, "done", s, None)
  <2>1. s \in Statuses BY DEF Statuses
  <2>2. s # None BY <1>1, <2>1
  <2>3. "done" \in Places BY DEF Places
  <2> QED BY <1>2, <1>3, <2>1, <2>2, <2>3 DEF Does
<1>5. pc'[r] = "done" /\ answer'[r] = s /\ user'[r] = None
  BY <1>2 DEF TypeOK
<1>6. Waits(r)' BY <1>5 DEF Waits
<1>7. Answers(r)' BY <1>5 DEF Answers
<1> QED BY <1>4, <1>6, <1>7

\* A token that is nobody's session has its reason to be refused, or is a personal
\* access token in force.
LEMMA NotASession ==
  ASSUME NEW a \in Asks, ForSession(a), ~verify_user_jwt(a.token)
  PROVE  \/ Reason(a)
         \/ /\ Claims[a.token].kind = "pat" /\ Claims[a.token].signed = "service"
            /\ Claims[a.token].valid /\ config.introspection_url
            /\ a.token \notin revoked /\ a.token \notin shaky
<1> DEFINE c == Claims[a.token]
<1>1. /\ a.token \in Tokens /\ a.route \in Routes /\ c \in TokenFields
  BY AsksAssumption, TokensAssumption DEF ForSession
<1>2. /\ c.kind = "session" <=> c.signed # "service"
      /\ c.kind = "service" => c.aud # None
  BY <1>1, IssuedAssumption
<1>3. c.kind \in {"session", "pat", "service"} /\ c.signed \in {"user", "service", "demo"}
  BY <1>1 DEF TokenFields
<1>4. CASE ~c.valid BY <1>4 DEF Reason
<1>5. CASE c.valid /\ c.signed = "demo"
  BY <1>5 DEF ForSession, IsDemo, Reason
<1>6. CASE c.valid /\ c.kind = "service"
  BY <1>2, <1>6 DEF ForSession, IsServices, verify_service_jwt, Reason
<1>7. CASE c.valid /\ c.kind = "pat"
  BY <1>2, <1>7 DEF Reason
<1>8. c.signed # "user" \/ ~c.valid BY DEF verify_user_jwt
<1> QED BY <1>2, <1>3, <1>4, <1>5, <1>6, <1>7, <1>8

\* A request without a token is refused.
LEMMA NamelessArrives ==
  ASSUME IInv, NEW r \in Requests, NEW a \in Asks, ArriveNameless(r, a) PROVE IInv'
<1>1. TypeOK /\ user[r] = None /\ ask'[r] = a /\ tuples' \in during'[r] /\ shaky \subseteq Tokens
  BY DEF ArriveNameless, Arrive, IInv, TypeOK, Waits
<1>2. Reason(a)' BY DEF ArriveNameless, Reason
<1> QED BY <1>1, <1>2, Refused, Arrival DEF ArriveNameless

\* A service token is accepted.
LEMMA ServiceArrives ==
  ASSUME IInv, NEW r \in Requests, NEW a \in Asks, ArriveService(r, a) PROVE IInv'
<1> DEFINE u == ServicePrincipal(a.token)
<1>1. /\ TypeOK /\ CachesBacked /\ pc[r] # "done" /\ ask'[r] = a /\ tuples' \in during'[r]
      /\ shaky \subseteq Tokens /\ UNCHANGED <<config, past>>
  BY DEF ArriveService, Arrive, IInv, TypeOK
<1>2. a.token \in Tokens /\ Claims[a.token] \in TokenFields
  BY AsksAssumption, TokensAssumption DEF ArriveService
<1>3. u \in Principals BY <1>2 DEF ServicePrincipal, Principal, Principals, TokenFields
<1>4. verify_service_jwt(a.token, a.route.aud) BY DEF ArriveService, IsServices
<1>5. Claims[a.token].sub # None
  BY <1>2, <1>4, IssuedAssumption DEF verify_service_jwt
<1>6. Origin(a, u, during'[r]) /\ Vetted(a, u, during'[r])
  BY <1>4, <1>5 DEF Origin, Vetted, Person, Backs, ServicePrincipal, Principal,
     verify_service_jwt, ArriveService
<1>7. Enter(r, a, u) BY DEF ArriveService
<1> HIDE DEF u
<1> QED BY <1>1, <1>3, <1>6, <1>7, EnterFine, Arrival DEF ArriveService

\* ServiceKeyAuth refuses what is no service token for its audience.
LEMMA NoServiceArrives ==
  ASSUME IInv, NEW r \in Requests, NEW a \in Asks, ArriveNoService(r, a) PROVE IInv'
<1>1. TypeOK /\ user[r] = None /\ ask'[r] = a /\ tuples' \in during'[r] /\ shaky \subseteq Tokens
  BY DEF ArriveNoService, Arrive, IInv, TypeOK, Waits
<1>2. /\ a.token \in Tokens /\ Claims[a.token] \in TokenFields /\ a.route.aud # None
      /\ a.route.dep = "ServiceKeyAuth"
  BY AsksAssumption, TokensAssumption, SubsAssumption DEF ArriveNoService, Routes
<1>3. ~verify_service_jwt(a.token, a.route.aud) BY <1>2 DEF ArriveNoService, IsServices
<1>4. Claims[a.token].kind = "service" => Claims[a.token].signed = "service"
  BY <1>2, IssuedAssumption
<1>5. Reason(a) BY <1>2, <1>3, <1>4 DEF verify_service_jwt, Reason
<1>6. Reason(a)' BY <1>5 DEF Reason, ArriveNoService, Arrive
<1> QED BY <1>1, <1>6, Refused, Arrival DEF ArriveNoService

\* A demo token is accepted.
LEMMA DemoArrives ==
  ASSUME IInv, NEW r \in Requests, NEW a \in Asks, ArriveDemo(r, a) PROVE IInv'
<1> DEFINE u == DemoPrincipal(a.token)
<1>1. /\ TypeOK /\ CachesBacked /\ pc[r] # "done" /\ ask'[r] = a /\ tuples' \in during'[r]
      /\ shaky \subseteq Tokens /\ UNCHANGED <<config, past>>
  BY DEF ArriveDemo, Arrive, IInv, TypeOK
<1>2. Claims[a.token] \in TokenFields
  BY AsksAssumption, TokensAssumption DEF ArriveDemo
<1>3. u \in Principals BY <1>2 DEF DemoPrincipal, Principal, Principals, TokenFields
<1>4. Origin(a, u, during'[r]) /\ Vetted(a, u, during'[r])
  BY DEF Origin, Vetted, Person, DemoPrincipal, Principal, ArriveDemo
<1>5. Enter(r, a, u) BY DEF ArriveDemo
<1> HIDE DEF u
<1> QED BY <1>1, <1>3, <1>4, <1>5, EnterFine, Arrival DEF ArriveDemo

\* A session is accepted, unless it names nobody.
LEMMA SessionArrives ==
  ASSUME IInv, NEW r \in Requests, NEW a \in Asks, ArriveSession(r, a) PROVE IInv'
<1> DEFINE u == UserPrincipal(a.token)
<1>1. /\ TypeOK /\ CachesBacked /\ pc[r] # "done" /\ ask'[r] = a /\ tuples' \in during'[r]
      /\ shaky \subseteq Tokens /\ UNCHANGED <<config, past>> /\ user[r] = None
  BY DEF ArriveSession, Arrive, IInv, TypeOK, Waits
<1>2. a.token \in Tokens /\ Claims[a.token] \in TokenFields
  BY AsksAssumption, TokensAssumption DEF ArriveSession, ForSession
<1>3. CASE Claims[a.token].sub = None
  <2>1. Answer(r, 500) /\ UNCHANGED user BY <1>3 DEF ArriveSession
  <2> QED BY <1>1, <2>1, Refused, Arrival DEF ArriveSession
<1>4. CASE Claims[a.token].sub # None
  <2>1. FindTenant(r, a, u) BY <1>4 DEF ArriveSession
  <2>2. u \in Principals BY <1>2 DEF UserPrincipal, Principal, Principals, TokenFields
  <2>3. Origin(a, u, during'[r])
    BY <1>2, <1>4 DEF Origin, Person, Backs, UserPrincipal, Principal, ArriveSession,
       ForSession, verify_user_jwt
  <2> HIDE DEF u
  <2> QED BY <1>1, <2>1, <2>2, <2>3, FindTenantFine, Arrival DEF ArriveSession
<1> QED BY <1>3, <1>4

\* A personal access token in force makes a person of known origin.
LEMMA PatOrigin ==
  ASSUME NEW a \in Asks, a.token # None, Claims[a.token].kind = "pat", NEW D
  PROVE  PatPrincipal(a.token) \in Principals /\ Origin(a, PatPrincipal(a.token), D)
<1>1. a.token \in Tokens /\ Claims[a.token] \in TokenFields
  BY AsksAssumption, TokensAssumption
<1>2. Claims[a.token].sub # None BY <1>1, IssuedAssumption
<1> QED BY <1>1, <1>2 DEF PatPrincipal, Principal, Principals, TokenFields, Origin, Person

\* Any other token is looked up, or refused.
LEMMA OtherArrives ==
  ASSUME IInv, NEW r \in Requests, NEW a \in Asks, ArriveOther(r, a) PROVE IInv'
<1>1. /\ TypeOK /\ CachesBacked /\ pc[r] # "done" /\ ask'[r] = a /\ tuples' \in during'[r]
      /\ UNCHANGED <<config, past, known, revoked>> /\ user[r] = None
      /\ ForSession(a)
  BY DEF ArriveOther, Arrive, IInv, TypeOK, Waits
<1>2. a.token \in Tokens
  BY AsksAssumption DEF ArriveOther, ForSession
<1>3. /\ shaky \subseteq shaky' /\ shaky' \subseteq Tokens
      /\ verify_user_jwt(a.token) => a.token \in shaky'
  BY <1>2 DEF ArriveOther, Unverified, IInv, TypeOK
<1>4. Reason(a) => Reason(a)' BY <1>1, <1>3 DEF Reason
<1>5. verify_user_jwt(a.token) => Reason(a)' BY <1>3 DEF Reason
<1>6. CASE ~config.introspection_url
  <2>1. Answer(r, 401) /\ UNCHANGED user BY <1>6 DEF ArriveOther
  <2>2. Reason(a)' BY <1>1, <1>4, <1>5, <1>6, NotASession
  <2> QED BY <1>1, <1>3, <2>1, <2>2, Refused, Arrival DEF ArriveOther
<1>7. CASE config.introspection_url /\ a.token \notin DOMAIN known
  <2>1. pc' = [pc EXCEPT ![r] = "introspect"] /\ UNCHANGED <<user, answer>>
    BY <1>7 DEF ArriveOther, Goto
  <2>2. None \notin Statuses /\ answer[r] = None /\ answer \in [Requests -> Statuses \cup {None}]
    BY <1>1, NoneAssumption DEF TypeOK, Statuses
  <2>3. Does(r, "introspect", None, None)
    <3>1. answer' = [answer EXCEPT ![r] = None] /\ user' = [user EXCEPT ![r] = None]
      BY <1>1, <2>1, <2>2 DEF TypeOK
    <3> QED BY <2>1, <3>1 DEF Does, Places
  <2>4. pc'[r] = "introspect" /\ answer'[r] = None /\ user'[r] = None
    BY <1>1, <2>1, <2>2 DEF TypeOK
  <2>5. ForSession(a)' BY <1>1 DEF ForSession, IsServices, verify_service_jwt, IsDemo
  <2>6. Waits(r)' BY <1>1, <1>3, <2>4, <2>5 DEF Waits
  <2>7. Answers(r)' BY <2>2, <2>4 DEF Answers, Statuses
  <2> QED BY <1>3, <2>3, <2>6, <2>7, Arrival DEF ArriveOther
<1>8. CASE config.introspection_url /\ a.token \in DOMAIN known /\ known[a.token]
  <2>1. FindTenant(r, a, PatPrincipal(a.token)) BY <1>8 DEF ArriveOther
  <2>2. a.token # None /\ Claims[a.token].kind = "pat"
    BY <1>1, <1>8 DEF CachesBacked, ForSession
  <2> QED BY <1>1, <1>3, <2>1, <2>2, PatOrigin, FindTenantFine, Arrival DEF ArriveOther
<1>9. CASE config.introspection_url /\ a.token \in DOMAIN known /\ ~known[a.token]
  <2>1. Answer(r, 401) /\ UNCHANGED user BY <1>9 DEF ArriveOther
  <2>2. Reason(a)' BY <1>1, <1>4, <1>5, <1>9, NotASession DEF CachesBacked
  <2> QED BY <1>1, <1>3, <2>1, <2>2, Refused, Arrival DEF ArriveOther
<1> QED BY <1>6, <1>7, <1>8, <1>9

-----------------------------------------------------------------------------
(* Requests that go on after an await. *)

\* What such a request must do for itself and for the caches.
LEMMA GoingOn ==
  ASSUME IInv, NEW r \in Requests, Later, UNCHANGED <<tuples, past, during>>,
         shaky \subseteq shaky', shaky' \subseteq Tokens,
         DOMAIN cache' \subseteq Keys, \A k \in DOMAIN cache' : cache'[k] \in BOOLEAN,
         DOMAIN known' \subseteq Tokens, \A t \in DOMAIN known' : known'[t] \in BOOLEAN,
         CachesBacked', (Waits(r) /\ Answers(r))', \E p, s, v : Does(r, p, s, v)
  PROVE  IInv'
<1>1. PICK p, s, v : Does(r, p, s, v) OBVIOUS
<1>2. ask' = [ask EXCEPT ![r] = ask[r]] /\ ask[r] \in Asks \cup {None}
  BY DEF Later, IInv, TypeOK
<1>3. SharedTyped' BY DEF Later, IInv, TypeOK, SharedTyped
<1>4. during' \in [Requests -> SUBSET past'] BY DEF IInv, TypeOK
<1>5. \A q \in Requests : pc[q] # "free" => tuples' \in during'[q]
  BY DEF IInv, Waits
<1>6. UNCHANGED <<config, revoked>> BY DEF Later
<1> QED BY <1>1, <1>2, <1>3, <1>4, <1>5, <1>6, Together

\* What is known of a request that waits.
LEMMA Waiting ==
  ASSUME IInv, NEW r \in Requests, pc[r] \notin {"free", "done"}, Later
  PROVE  /\ TypeOK /\ CachesBacked /\ pc[r] # "done" /\ ask[r] \in Asks
         /\ ask'[r] = ask[r] /\ ask'[r] \in Asks /\ tuples \in during[r]
         /\ shaky \subseteq Tokens /\ UNCHANGED config
         /\ DOMAIN cache \subseteq Keys /\ \A k \in DOMAIN cache : cache[k] \in BOOLEAN
         /\ DOMAIN known \subseteq Tokens /\ \A t \in DOMAIN known : known[t] \in BOOLEAN
         /\ answer[r] = None /\ tuples \in past /\ Waits(r)
  BY DEF Later, IInv, TypeOK, Waits

\* The auth server's answer makes a person, or refuses.
LEMMA IntrospectedFine ==
  ASSUME IInv, NEW r \in Requests, Introspected(r) PROVE IInv'
<1> DEFINE a == ask[r]
           t == a.token
<1>1. pc[r] = "introspect" /\ Later /\ UNCHANGED <<tuples, past, during, cache, shaky>>
  BY DEF Introspected
<1>2. /\ TypeOK /\ CachesBacked /\ pc[r] # "done" /\ a \in Asks
      /\ ask'[r] = a /\ ask'[r] \in Asks /\ tuples \in during[r]
      /\ shaky \subseteq Tokens /\ UNCHANGED <<config, revoked>>
      /\ DOMAIN cache \subseteq Keys /\ \A k \in DOMAIN cache : cache[k] \in BOOLEAN
      /\ DOMAIN known \subseteq Tokens /\ \A x \in DOMAIN known : known[x] \in BOOLEAN
      /\ user[r] = None /\ ForSession(a) /\ (verify_user_jwt(t) => t \in shaky)
  BY <1>1, Waiting DEF Waits, Later
<1>3. t # None /\ t \in Tokens
  BY <1>2, AsksAssumption DEF ForSession
<1>4. known' = With(known, t, Active(t)) BY DEF Introspected
<1>5. Active(t) \in BOOLEAN BY DEF Active
<1>6. DOMAIN known' = DOMAIN known \cup {t} /\ known'[t] = Active(t)
      /\ \A x \in DOMAIN known \ {t} : known'[x] = known[x]
  BY <1>4, Zenon DEF With
<1>7. DOMAIN known' \subseteq Tokens /\ \A x \in DOMAIN known' : known'[x] \in BOOLEAN
  BY <1>2, <1>3, <1>5, <1>6
<1>8. CachesBacked'
  <2>1. \A x \in DOMAIN known' :
          /\ known'[x] => Claims[x].kind = "pat"
          /\ ~known'[x] => \/ Claims[x].kind # "pat" \/ Claims[x].signed # "service"
                          \/ ~Claims[x].valid \/ x \in revoked \/ x \in shaky
    <3> SUFFICES ASSUME NEW x \in DOMAIN known'
                 PROVE  /\ known'[x] => Claims[x].kind = "pat"
                        /\ ~known'[x] => \/ Claims[x].kind # "pat" \/ Claims[x].signed # "service"
                                        \/ ~Claims[x].valid \/ x \in revoked \/ x \in shaky
      OBVIOUS
    <3>1. CASE x = t BY <3>1, <1>6 DEF Active
    <3>2. CASE x # t BY <3>2, <1>2, <1>6 DEF CachesBacked
    <3> QED BY <3>1, <3>2
  <2> QED BY <1>1, <1>2, <2>1 DEF CachesBacked
<1>9. CASE Active(t)
  <2>1. FindTenant(r, a, PatPrincipal(t)) BY <1>9 DEF Introspected
  <2>2. /\ PatPrincipal(t) \in Principals /\ Origin(a, PatPrincipal(t), during'[r])
    BY <1>2, <1>3, <1>9, PatOrigin DEF Active
  <2>3. (Waits(r) /\ Answers(r))' /\ \E p, s, v : Does(r, p, s, v)
    BY <1>1, <1>2, <2>1, <2>2, FindTenantFine
  <2> QED BY <1>1, <1>2, <1>7, <1>8, <2>3, GoingOn
<1>10. CASE ~Active(t)
  <2>1. Answer(r, 401) /\ UNCHANGED user BY <1>10 DEF Introspected
  <2>2. Reason(a)' <=> Reason(a) BY <1>1, <1>2 DEF Reason
  <2>3. Reason(a)
    <3>1. CASE verify_user_jwt(t) BY <1>2, <3>1 DEF Reason
    <3>2. CASE ~verify_user_jwt(t) BY <1>2, <1>10, <3>2, NotASession DEF Active
    <3> QED BY <3>1, <3>2
  <2>4. (Waits(r) /\ Answers(r))' /\ \E p, s, v : Does(r, p, s, v)
    BY <1>1, <1>2, <2>1, <2>2, <2>3, Refused
  <2> QED BY <1>1, <1>2, <1>7, <1>8, <2>4, GoingOn
<1> QED BY <1>9, <1>10

\* A failed introspection refuses, and is remembered.
LEMMA IntrospectionFailsFine ==
  ASSUME IInv, NEW r \in Requests, IntrospectionFails(r) PROVE IInv'
<1> DEFINE a == ask[r]
           t == a.token
<1>1. /\ pc[r] = "introspect" /\ Later /\ UNCHANGED <<tuples, past, during, cache, user>>
      /\ Answer(r, 401) /\ shaky' = shaky \cup {t} /\ known' = With(known, t, FALSE)
  BY DEF IntrospectionFails
<1>2. /\ TypeOK /\ CachesBacked /\ pc[r] # "done" /\ a \in Asks
      /\ ask'[r] = a /\ ask'[r] \in Asks /\ tuples \in during[r]
      /\ shaky \subseteq Tokens /\ UNCHANGED <<config, revoked>>
      /\ DOMAIN cache \subseteq Keys /\ \A k \in DOMAIN cache : cache[k] \in BOOLEAN
      /\ DOMAIN known \subseteq Tokens /\ \A x \in DOMAIN known : known[x] \in BOOLEAN
      /\ user[r] = None /\ ForSession(a)
  BY <1>1, Waiting DEF Waits, Later
<1>3. t \in Tokens BY <1>2, AsksAssumption DEF ForSession
<1>4. DOMAIN known' = DOMAIN known \cup {t} /\ known'[t] = FALSE
      /\ \A x \in DOMAIN known \ {t} : known'[x] = known[x]
  BY <1>1, Zenon DEF With
<1>5. DOMAIN known' \subseteq Tokens /\ \A x \in DOMAIN known' : known'[x] \in BOOLEAN
  BY <1>2, <1>3, <1>4
<1>6. CachesBacked'
  <2>1. \A x \in DOMAIN known' :
          /\ known'[x] => Claims[x].kind = "pat"
          /\ ~known'[x] => \/ Claims[x].kind # "pat" \/ Claims[x].signed # "service"
                          \/ ~Claims[x].valid \/ x \in revoked \/ x \in shaky'
    <3> SUFFICES ASSUME NEW x \in DOMAIN known'
                 PROVE  /\ known'[x] => Claims[x].kind = "pat"
                        /\ ~known'[x] => \/ Claims[x].kind # "pat" \/ Claims[x].signed # "service"
                                        \/ ~Claims[x].valid \/ x \in revoked \/ x \in shaky'
      OBVIOUS
    <3>1. CASE x = t BY <3>1, <1>1, <1>4
    <3>2. CASE x # t BY <3>2, <1>1, <1>2, <1>4 DEF CachesBacked
    <3> QED BY <3>1, <3>2
  <2> QED BY <1>1, <1>2, <2>1 DEF CachesBacked
<1>7. Reason(a)' BY <1>1, <1>2 DEF Reason
<1>8. (Waits(r) /\ Answers(r))' /\ \E p, s, v : Does(r, p, s, v)
  BY <1>1, <1>2, <1>7, Refused
<1>9. shaky \subseteq shaky' /\ shaky' \subseteq Tokens BY <1>1, <1>2, <1>3
<1> QED BY <1>1, <1>2, <1>5, <1>6, <1>8, <1>9, GoingOn

\* Request r, with its principal, is answered s.
LEMMA Settled ==
  ASSUME TypeOK, NEW r \in Requests, NEW s \in {200, 403, 500, 503}, Answer(r, s), UNCHANGED user,
         ask'[r] \in Asks, tuples' \in during'[r],
         user[r] # None => Origin(ask[r], user[r], during[r])',
         (s = 200 =>
            /\ user[r] # None /\ Vetted(ask[r], user[r], during[r])
            /\ ~Exempt(ask[r], user[r]) => \E ts \in past : Allows(ts, Wanted(ask[r], user[r])))',
         s = 403 => Denied(r)'
  PROVE  (Waits(r) /\ Answers(r))' /\ \E p, t, v : Does(r, p, t, v)
<1>1. None \notin Statuses BY NoneAssumption DEF Statuses
<1>2. pc' = [pc EXCEPT ![r] = "done"] /\ answer' = [answer EXCEPT ![r] = s]
  BY DEF Answer, Goto
<1>3. user' = [user EXCEPT ![r] = user[r]] /\ user[r] \in Principals \cup {None}
  BY DEF TypeOK
<1>4. Does(r, "done", s, user[r])
  <2>1. s \in Statuses BY DEF Statuses
  <2>2. s # None BY <1>1, <2>1
  <2>3. "done" \in Places BY DEF Places
  <2> QED BY <1>2, <1>3, <2>1, <2>2, <2>3 DEF Does
<1>5. pc'[r] = "done" /\ answer'[r] = s BY <1>2 DEF TypeOK
<1>6. Waits(r)' BY <1>5 DEF Waits
<1>7. Answers(r)' BY <1>5 DEF Answers
<1> QED BY <1>4, <1>6, <1>7

\* OpenFGA's answer on the membership vets the header, or refuses.
LEMMA MembershipFine ==
  ASSUME IInv, NEW r \in Requests, MembershipAnswered(r) \/ MembershipFails(r) PROVE IInv'
<1>1. pc[r] = "membership" /\ Later /\ UNCHANGED <<tuples, past, during, cache, known, shaky>>
  BY DEF MembershipAnswered, MembershipFails
<1>2. /\ TypeOK /\ CachesBacked /\ pc[r] # "done" /\ ask[r] \in Asks
      /\ ask'[r] = ask[r] /\ ask'[r] \in Asks /\ tuples \in during[r]
      /\ shaky \subseteq Tokens /\ UNCHANGED <<config, revoked>> /\ Waits(r)
      /\ DOMAIN cache \subseteq Keys /\ \A k \in DOMAIN cache : cache[k] \in BOOLEAN
      /\ DOMAIN known \subseteq Tokens /\ \A x \in DOMAIN known : known[x] \in BOOLEAN
  BY <1>1, Waiting DEF Later
<1>3. /\ user[r] # None /\ config.openfga_api_url /\ ask[r].header # None /\ Person(user[r])
      /\ Origin(ask[r], user[r], during[r])
  BY <1>1, <1>2 DEF Waits
<1>4. CachesBacked' BY <1>1, <1>2 DEF CachesBacked
<1>5. UNCHANGED user => (Origin(ask[r], user[r], during[r]))'
  BY <1>1, <1>2, <1>3 DEF Origin, Member
<1> DEFINE allowed == Allows(tuples, <<user[r].id, "member", ask[r].header>>)
<1>6. CASE MembershipAnswered(r) /\ allowed
  <2> DEFINE v == [user[r] EXCEPT !.tenant = ask[r].header]
  <2>1. Enter(r, ask[r], v) BY <1>6 DEF MembershipAnswered
  <2>2. user[r] \in Principals /\ ask[r].header \in Tenants \cup {None}
    BY <1>2, <1>3, AsksAssumption DEF TypeOK
  <2>3. /\ v \in Principals /\ v.id = user[r].id /\ v.role = user[r].role
        /\ v.tenant = ask[r].header
        /\ v.is_service = user[r].is_service /\ v.is_demo = user[r].is_demo
    BY <2>2 DEF Principals
  <2>4. Member(ask[r], v, during'[r]) BY <1>1, <1>2, <1>6, <2>3 DEF Member
  <2>5. Origin(ask[r], v, during'[r]) BY <1>3, <2>3, <2>4 DEF Origin, Person
  <2>6. Vetted(ask[r], v, during'[r]) BY <2>4 DEF Vetted
  <2> HIDE DEF v
  <2>7. (Waits(r) /\ Answers(r))' /\ \E p, s, w : Does(r, p, s, w)
    BY <1>1, <1>2, <2>1, <2>3, <2>5, <2>6, EnterFine
  <2> QED BY <1>1, <1>2, <1>4, <2>7, GoingOn
<1>7. CASE MembershipAnswered(r) /\ ~allowed
  <2>1. Answer(r, 403) /\ UNCHANGED user BY <1>7 DEF MembershipAnswered
  <2>2. Denied(r)' BY <1>1, <1>2, <1>3, <1>7, <2>1 DEF Denied, Named, Person
  <2>3. (Waits(r) /\ Answers(r))' /\ \E p, s, w : Does(r, p, s, w)
    BY <1>1, <1>2, <1>5, <2>1, <2>2, Settled
  <2> QED BY <1>1, <1>2, <1>4, <2>3, GoingOn
<1>8. CASE MembershipFails(r)
  <2>1. Answer(r, 503) /\ UNCHANGED user BY <1>8 DEF MembershipFails
  <2>2. (Waits(r) /\ Answers(r))' /\ \E p, s, w : Does(r, p, s, w)
    BY <1>1, <1>2, <1>5, <2>1, Settled
  <2> QED BY <1>1, <1>2, <1>4, <2>2, GoingOn
<1> QED BY <1>6, <1>7, <1>8

\* What is known of a request that is about to be checked.
LEMMA AtTheGuard ==
  ASSUME IInv, NEW r \in Requests, pc[r] \in {"provision", "check"}, Later
  PROVE  /\ TypeOK /\ CachesBacked /\ pc[r] # "done" /\ ask[r] \in Asks
         /\ ask'[r] = ask[r] /\ ask'[r] \in Asks /\ tuples \in during[r] /\ tuples \in past
         /\ shaky \subseteq Tokens /\ UNCHANGED <<config, revoked>> /\ Waits(r)
         /\ DOMAIN cache \subseteq Keys /\ \A k \in DOMAIN cache : cache[k] \in BOOLEAN
         /\ DOMAIN known \subseteq Tokens /\ \A x \in DOMAIN known : known[x] \in BOOLEAN
         /\ user[r] # None /\ user[r] \in Principals
         /\ Origin(ask[r], user[r], during[r]) /\ Vetted(ask[r], user[r], during[r])
         /\ ~Exempt(ask[r], user[r]) /\ ~NoTenant(ask[r], user[r])
<1>1. pc[r] \notin {"free", "done"} OBVIOUS
<1>2. /\ TypeOK /\ CachesBacked /\ pc[r] # "done" /\ ask[r] \in Asks
      /\ ask'[r] = ask[r] /\ ask'[r] \in Asks /\ tuples \in during[r] /\ tuples \in past
      /\ shaky \subseteq Tokens /\ UNCHANGED <<config, revoked>> /\ Waits(r)
      /\ DOMAIN cache \subseteq Keys /\ \A k \in DOMAIN cache : cache[k] \in BOOLEAN
      /\ DOMAIN known \subseteq Tokens /\ \A x \in DOMAIN known : known[x] \in BOOLEAN
  BY <1>1, Waiting DEF Later
<1>3. /\ user[r] # None /\ Origin(ask[r], user[r], during[r]) /\ Vetted(ask[r], user[r], during[r])
      /\ ~Exempt(ask[r], user[r]) /\ ~NoTenant(ask[r], user[r])
  BY <1>2 DEF Waits
<1>4. user[r] \in Principals BY <1>2, <1>3 DEF TypeOK
<1> QED BY <1>2, <1>3, <1>4

\* Looking its key up is fine for a request at the guard, also if a tuple was stored.
LEMMA LookUpFine ==
  ASSUME IInv, NEW r \in Requests, pc[r] = "provision", Later,
         LookUp(r, Wanted(ask[r], user[r])), UNCHANGED <<user, cache>>,
         past \subseteq past', during[r] \subseteq during'[r], tuples' \in during'[r]
  PROVE  (Waits(r) /\ Answers(r))' /\ \E p, s, v : Does(r, p, s, v)
<1>1. pc[r] \in {"provision", "check"} OBVIOUS
<1>2. /\ TypeOK /\ CachesBacked /\ pc[r] # "done" /\ ask[r] \in Asks /\ ask'[r] = ask[r]
      /\ UNCHANGED config /\ user[r] # None /\ user[r] \in Principals
      /\ Origin(ask[r], user[r], during[r]) /\ Vetted(ask[r], user[r], during[r])
      /\ ~Exempt(ask[r], user[r]) /\ ~NoTenant(ask[r], user[r])
  BY <1>1, AtTheGuard
<1> DEFINE k == Wanted(ask[r], user[r])
<1>3. PICK p \in {"done", "check"}, s \in {200, 403, None} :
         /\ pc' = [pc EXCEPT ![r] = p] /\ answer' = [answer EXCEPT ![r] = s]
         /\ p = "done" <=> s # None
         /\ s = 200 => k \in DOMAIN cache /\ cache[k]
         /\ s = 403 => k \in DOMAIN cache /\ ~cache[k]
  BY <1>2, LookUpDoes
<1> HIDE DEF k
<1>4. user' = [user EXCEPT ![r] = user[r]] BY <1>2 DEF TypeOK
<1>5. Does(r, p, s, user[r])
  <2>1. p \in Places BY <1>3 DEF Places
  <2>2. s \in Statuses \cup {None} BY <1>3 DEF Statuses
  <2> QED BY <1>2, <1>3, <1>4, <2>1, <2>2 DEF Does
<1>6. Entered(r, ask[r], user[r], p, s)
  BY <1>2, <1>3, <1>5 DEF Entered, k
<1>7. Origin(ask[r], user[r], during'[r]) /\ Vetted(ask[r], user[r], during'[r])
  BY <1>2 DEF Origin, Vetted, Member
<1>8. (Waits(r) /\ Answers(r))'
  BY <1>2, <1>6, <1>7, EnteredFine
<1> QED BY <1>5, <1>8

\* A role that is provisioned is a person's, on a tenant.
LEMMA ProvisionedTyped ==
  ASSUME IInv, NEW r \in Requests, pc[r] = "provision", Later
  PROVE  Provisioned(r) \in Subs \X Roles \X Tenants /\ Person(user[r])
<1>1. pc[r] \in {"provision", "check"} OBVIOUS
<1>2. /\ Waits(r) /\ user[r] \in Principals /\ Origin(ask[r], user[r], during[r])
      /\ ~Exempt(ask[r], user[r])
  BY <1>1, AtTheGuard
<1>3. ~user[r].is_service /\ user[r].role # None /\ user[r].tenant # None
  BY <1>2 DEF Waits
<1>4. ~user[r].is_demo BY <1>2 DEF Exempt
<1>5. user[r].id # None BY <1>2, <1>4 DEF Origin
<1> QED BY <1>2, <1>3, <1>4, <1>5 DEF Provisioned, Principals, Person

\* OpenFGA stores a role tuple.
LEMMA ProvisionFine ==
  ASSUME IInv, NEW r \in Requests, Provision(r) PROVE IInv'
<1>1. /\ pc[r] = "provision" /\ Later /\ Store(tuples \cup {Provisioned(r)})
      /\ LookUp(r, Wanted(ask[r], user[r])) /\ UNCHANGED <<user, cache, known, shaky>>
  BY DEF Provision
<1>2. /\ TypeOK /\ CachesBacked /\ ask[r] \in Asks /\ UNCHANGED <<config, revoked>>
  BY <1>1, AtTheGuard
<1>3. ask' = [ask EXCEPT ![r] = ask[r]] /\ ask[r] \in Asks \cup {None}
  BY <1>1, <1>2 DEF Later, TypeOK
<1>4. /\ tuples' = tuples \cup {Provisioned(r)} /\ past' = past \cup {tuples'}
      /\ during' = [q \in Requests |-> IF ask[q] = None THEN {} ELSE during[q] \cup {tuples'}]
  BY <1>1 DEF Store
<1>5. \A q \in Requests : pc[q] # "free" => ask[q] # None
  BY NoneAssumption DEF IInv, Waits
<1>6. \A q \in Requests : pc[q] # "free" => during[q] \subseteq during'[q] /\ tuples' \in during'[q]
  BY <1>4, <1>5
<1>7. (Waits(r) /\ Answers(r))' /\ \E p, s, v : Does(r, p, s, v)
  <2>1. past \subseteq past' BY <1>4
  <2>2. during[r] \subseteq during'[r] /\ tuples' \in during'[r] BY <1>1, <1>6
  <2> QED BY <1>1, <2>1, <2>2, LookUpFine
<1>8. PICK p, s, v : Does(r, p, s, v) BY <1>7
<1>9. tuples' \in SUBSET (Subs \X Roles \X Tenants)
  BY <1>1, <1>2, <1>4, ProvisionedTyped DEF TypeOK
<1>10. SharedTyped'
  BY <1>1, <1>2, <1>4, <1>9 DEF Later, TypeOK, SharedTyped
<1>11. CachesBacked' BY <1>1, <1>2, <1>4 DEF CachesBacked
<1>12. during' \in [Requests -> SUBSET past']
  BY <1>2, <1>4 DEF TypeOK
<1>13. ASSUME NEW q \in Requests \ {r}
       PROVE  (Waits(q) /\ Answers(q))'
  <2>1. UNCHANGED <<config, pc[q], ask[q], user[q], answer[q]>>
    BY <1>1, <1>2, <1>8 DEF Does, TypeOK, Later
  <2>2. Waits(q) /\ Answers(q) BY DEF IInv
  <2>3. CASE pc[q] # "free"
    BY <1>1, <1>2, <1>4, <1>6, <2>1, <2>2, <2>3, Frame
  <2>4. CASE pc[q] = "free"
    <3>1. answer[q] = None BY <1>2, <2>4 DEF TypeOK
    <3>2. None \notin Statuses BY NoneAssumption DEF Statuses
    <3>3. Waits(q)' BY <2>1, <2>2, <2>4 DEF Waits
    <3> QED BY <2>1, <3>1, <3>2, <3>3 DEF Answers, Statuses
  <2> QED BY <2>3, <2>4
<1>14. TypeOK'
  <2>1. /\ pc \in [Requests -> Places] /\ answer \in [Requests -> Statuses \cup {None}]
        /\ \A q \in Requests : pc[q] = "done" <=> answer[q] # None
    BY <1>2 DEF TypeOK, Places, Statuses
  <2>2. /\ pc' \in [Requests -> Places] /\ answer' \in [Requests -> Statuses \cup {None}]
        /\ \A q \in Requests : pc'[q] = "done" <=> answer'[q] # None
    BY <1>8, <2>1 DEF Does
  <2>3. UNCHANGED <<ask, user>> BY <1>1 DEF Later
  <2> QED BY <1>2, <1>10, <1>12, <2>2, <2>3 DEF TypeOK, SharedTyped, Places, Statuses
<1>15. \A q \in Requests : (Waits(q) /\ Answers(q))' BY <1>7, <1>13
<1> QED BY <1>11, <1>14, <1>15 DEF IInv

\* It does not.
LEMMA ProvisionFailsFine ==
  ASSUME IInv, NEW r \in Requests, ProvisionFails(r) PROVE IInv'
<1>1. /\ pc[r] = "provision" /\ Later /\ UNCHANGED <<user, tuples, past, during, cache, known, shaky>>
      /\ LookUp(r, Wanted(ask[r], user[r]))
  BY DEF ProvisionFails
<1>2. /\ CachesBacked /\ shaky \subseteq Tokens /\ UNCHANGED revoked /\ tuples \in during[r]
      /\ DOMAIN cache \subseteq Keys /\ \A k \in DOMAIN cache : cache[k] \in BOOLEAN
      /\ DOMAIN known \subseteq Tokens /\ \A x \in DOMAIN known : known[x] \in BOOLEAN
  BY <1>1, AtTheGuard
<1>3. CachesBacked' BY <1>1, <1>2 DEF CachesBacked
<1>4. (Waits(r) /\ Answers(r))' /\ \E p, s, v : Does(r, p, s, v)
  BY <1>1, <1>2, LookUpFine
<1> QED BY <1>1, <1>2, <1>3, <1>4, GoingOn

\* OpenFGA's answer on the key is given, and remembered.
LEMMA CheckedFine ==
  ASSUME IInv, NEW r \in Requests, Checked(r) PROVE IInv'
<1> DEFINE k == Wanted(ask[r], user[r])
           v == Allows(tuples, k)
<1>1. /\ pc[r] \in {"provision", "check"} /\ Later
      /\ UNCHANGED <<user, tuples, known, past, during, shaky>>
      /\ cache' = With(cache, k, v) /\ Answer(r, IF v THEN 200 ELSE 403)
  BY DEF Checked
<1>2. /\ TypeOK /\ CachesBacked /\ ask[r] \in Asks /\ ask'[r] = ask[r]
      /\ ask'[r] \in Asks /\ tuples \in during[r] /\ tuples \in past
      /\ shaky \subseteq Tokens /\ UNCHANGED <<config, revoked>>
      /\ DOMAIN cache \subseteq Keys /\ \A x \in DOMAIN cache : cache[x] \in BOOLEAN
      /\ DOMAIN known \subseteq Tokens /\ \A x \in DOMAIN known : known[x] \in BOOLEAN
      /\ user[r] # None /\ user[r] \in Principals
      /\ Origin(ask[r], user[r], during[r]) /\ Vetted(ask[r], user[r], during[r])
      /\ ~Exempt(ask[r], user[r]) /\ ~NoTenant(ask[r], user[r])
  BY <1>1, AtTheGuard
<1>3. k \in Keys
  <2>1. user[r].id \in Subs
    BY <1>2 DEF Exempt, Origin, Principals
  <2>2. ask[r].route \in Routes /\ ask[r].resource \in Resources BY <1>2, AsksAssumption
  <2>3. ask[r].route.guard # "resource" => user[r].tenant \in Tenants
    BY <1>2 DEF NoTenant, Principals
  <2> QED BY <2>1, <2>2, <2>3 DEF Wanted, Keys, Relations, Objects
<1>4. v \in BOOLEAN BY DEF Allows
<1> HIDE DEF k, v
<1>5. DOMAIN cache' = DOMAIN cache \cup {k} /\ cache'[k] = v
      /\ \A x \in DOMAIN cache \ {k} : cache'[x] = cache[x]
  BY <1>1, Zenon DEF With
<1>6. DOMAIN cache' \subseteq Keys /\ \A x \in DOMAIN cache' : cache'[x] \in BOOLEAN
  BY <1>2, <1>3, <1>4, <1>5
<1>7. /\ v => \E ts \in past : Allows(ts, k)
      /\ ~v => \E ts \in past : ~Allows(ts, k)
  BY <1>2 DEF v
<1>8. CachesBacked'
  <2>1. \A x \in DOMAIN cache' : /\ cache'[x] => \E ts \in past : Allows(ts, x)
                                 /\ ~cache'[x] => \E ts \in past : ~Allows(ts, x)
    <3> SUFFICES ASSUME NEW x \in DOMAIN cache'
                 PROVE  /\ cache'[x] => \E ts \in past : Allows(ts, x)
                        /\ ~cache'[x] => \E ts \in past : ~Allows(ts, x)
      OBVIOUS
    <3>1. CASE x = k BY <3>1, <1>5, <1>7
    <3>2. CASE x # k BY <3>2, <1>2, <1>5 DEF CachesBacked
    <3> QED BY <3>1, <3>2
  <2> QED BY <1>1, <1>2, <2>1 DEF CachesBacked
<1>9. (Origin(ask[r], user[r], during[r]))' /\ (Vetted(ask[r], user[r], during[r]))'
  BY <1>1, <1>2 DEF Origin, Vetted, Member
<1>10. (Waits(r) /\ Answers(r))' /\ \E p, s, w : Does(r, p, s, w)
  <2>1. CASE v
    <3>1. (\E ts \in past : Allows(ts, Wanted(ask[r], user[r])))'
      BY <1>1, <1>2, <1>7, <2>1 DEF k
    <3>2. Answer(r, 200) BY <1>1, <2>1
    <3> QED BY <1>1, <1>2, <1>9, <3>1, <3>2, Settled
  <2>2. CASE ~v
    <3>1. Denied(r)' BY <1>1, <1>2, <1>7, <2>2 DEF Denied, k
    <3>2. Answer(r, 403) BY <1>1, <2>2
    <3> QED BY <1>1, <1>2, <1>9, <3>1, <3>2, Settled
  <2> QED BY <2>1, <2>2
<1> QED BY <1>1, <1>2, <1>6, <1>8, <1>10, GoingOn

\* A failure of OpenFGA is an error, and nothing is remembered.
LEMMA CheckFailsFine ==
  ASSUME IInv, NEW r \in Requests, CheckFails(r) PROVE IInv'
<1>1. /\ pc[r] \in {"provision", "check"} /\ Later /\ Answer(r, 500)
      /\ UNCHANGED <<user, tuples, cache, known, past, during, shaky>>
  BY DEF CheckFails
<1>2. /\ TypeOK /\ CachesBacked /\ ask[r] \in Asks /\ ask'[r] = ask[r]
      /\ ask'[r] \in Asks /\ tuples \in during[r]
      /\ shaky \subseteq Tokens /\ UNCHANGED <<config, revoked>>
      /\ DOMAIN cache \subseteq Keys /\ \A x \in DOMAIN cache : cache[x] \in BOOLEAN
      /\ DOMAIN known \subseteq Tokens /\ \A x \in DOMAIN known : known[x] \in BOOLEAN
      /\ Origin(ask[r], user[r], during[r])
  BY <1>1, AtTheGuard
<1>3. CachesBacked' BY <1>1, <1>2 DEF CachesBacked
<1>4. (Origin(ask[r], user[r], during[r]))' BY <1>1, <1>2 DEF Origin, Member
<1>5. (Waits(r) /\ Answers(r))' /\ \E p, s, v : Does(r, p, s, v)
  BY <1>1, <1>2, <1>4, Settled
<1> QED BY <1>1, <1>2, <1>3, <1>5, GoingOn

\* An answered request leaves nothing behind.
LEMMA ReturnFine ==
  ASSUME IInv, NEW r \in Requests, Return(r) PROVE IInv'
<1>1. /\ pc' = [pc EXCEPT ![r] = "free"] /\ ask' = [ask EXCEPT ![r] = None]
      /\ user' = [user EXCEPT ![r] = None] /\ answer' = [answer EXCEPT ![r] = None]
      /\ during' = [during EXCEPT ![r] = {}] /\ UNCHANGED shared
  BY DEF Return, Goto
<1>2. TypeOK /\ CachesBacked BY DEF IInv
<1>3. Does(r, "free", None, None) BY <1>1 DEF Does, Places
<1>4. pc'[r] = "free" /\ ask'[r] = None /\ user'[r] = None /\ answer'[r] = None
  BY <1>1, <1>2 DEF TypeOK
<1>5. None \notin Statuses BY NoneAssumption DEF Statuses
<1>6. (Waits(r) /\ Answers(r))' BY <1>4, <1>5 DEF Waits, Answers, Statuses
<1>7. SharedTyped' /\ CachesBacked'
  BY <1>1, <1>2 DEF shared, TypeOK, SharedTyped, CachesBacked
<1>8. during' \in [Requests -> SUBSET past'] /\ \A q \in Requests \ {r} : during'[q] = during[q]
  BY <1>1, <1>2 DEF shared, TypeOK
<1>9. \A q \in Requests \ {r} : pc[q] # "free" => tuples' \in during'[q]
  BY <1>1, <1>8 DEF shared, IInv, Waits
<1>10. UNCHANGED <<config, past, revoked, shaky>> BY <1>1 DEF shared
<1> QED BY <1>1, <1>3, <1>6, <1>7, <1>8, <1>9, <1>10, Together

-----------------------------------------------------------------------------
(* Steps of others. *)

\* Changes of tuples, revocations and entries that lapse are fine.
LEMMA OthersFine ==
  ASSUME IInv,
         \/ \E tuple \in Subs \X Roles \X Tenants : Administer(tuple)
         \/ \E t \in Tokens : Revoke(t)
         \/ Lapse \/ UNCHANGED vars
  PROVE  IInv'
<1> USE DEF IInv
<1>1. ASSUME NEW tuple \in Subs \X Roles \X Tenants, Administer(tuple) PROVE IInv'
  <2>1. /\ UNCHANGED <<config, revoked, made, cache, known, shaky, pc, ask, user, answer>>
        /\ changes' = changes + 1 /\ changes < MaxChanges
        /\ tuples' \in {tuples \ {tuple}, tuples \cup {tuple}} /\ past' = past \cup {tuples'}
        /\ during' = [q \in Requests |-> IF ask[q] = None THEN {} ELSE during[q] \cup {tuples'}]
    BY <1>1 DEF Administer, Store
  <2>2. changes' \in 0..MaxChanges BY <2>1, BoundsAssumption DEF TypeOK
  <2>3. tuples' \in SUBSET (Subs \X Roles \X Tenants) BY <2>1 DEF TypeOK
  <2>4. during' \in [Requests -> SUBSET past'] BY <2>1 DEF TypeOK
  <2>5. TypeOK' BY <2>1, <2>2, <2>3, <2>4 DEF TypeOK
  <2>6. CachesBacked' BY <2>1 DEF CachesBacked
  <2>7. ASSUME NEW q \in Requests PROVE (Waits(q) /\ Answers(q))'
    <3>1. CASE pc[q] # "free"
      <4>1. ask[q] # None BY <3>1, NoneAssumption DEF Waits
      <4>2. during[q] \subseteq during'[q] /\ tuples' \in during'[q] BY <2>1, <4>1
      <4> QED BY <2>1, <4>2, Frame
    <3>2. CASE pc[q] = "free"
      <4>1. answer[q] = None BY <3>2 DEF TypeOK
      <4>2. None \notin Statuses BY NoneAssumption DEF Statuses
      <4>3. Waits(q)' BY <2>1, <3>2 DEF Waits
      <4> QED BY <2>1, <4>1, <4>2, <4>3 DEF Answers, Statuses
    <3> QED BY <3>1, <3>2
  <2> QED BY <2>5, <2>6, <2>7
<1>2. ASSUME NEW t \in Tokens, Revoke(t) PROVE IInv'
  <2>1. /\ UNCHANGED <<config, tuples, made, cache, known, past, shaky, own>>
        /\ changes' = changes + 1 /\ changes < MaxChanges /\ revoked' = revoked \cup {t}
    BY <1>2 DEF Revoke
  <2>2. changes' \in 0..MaxChanges BY <2>1, BoundsAssumption DEF TypeOK
  <2>3. TypeOK' BY <2>1, <2>2 DEF TypeOK, own
  <2>4. CachesBacked' BY <2>1 DEF CachesBacked
  <2>5. ASSUME NEW q \in Requests PROVE (Waits(q) /\ Answers(q))'
    BY <2>1, Frame DEF own, Waits
  <2> QED BY <2>3, <2>4, <2>5
<1>3. CASE Lapse
  <2>1. /\ UNCHANGED <<config, tuples, revoked, changes, made, past, shaky, own>>
        /\ DOMAIN cache' \subseteq DOMAIN cache /\ \A k \in DOMAIN cache' : cache'[k] = cache[k]
        /\ DOMAIN known' \subseteq DOMAIN known /\ \A t \in DOMAIN known' : known'[t] = known[t]
    BY <1>3 DEF Lapse, Without
  <2>2. TypeOK' BY <2>1 DEF TypeOK, own
  <2>3. CachesBacked' BY <2>1 DEF CachesBacked
  <2>4. ASSUME NEW q \in Requests PROVE (Waits(q) /\ Answers(q))'
    BY <2>1, Frame DEF own, Waits
  <2> QED BY <2>2, <2>3, <2>4
<1>4. CASE UNCHANGED vars
  <2>1. UNCHANGED <<shared, own>> BY <1>4 DEF vars
  <2>2. TypeOK' BY <2>1 DEF TypeOK, own, shared
  <2>3. CachesBacked' BY <2>1 DEF CachesBacked, shared
  <2>4. ASSUME NEW q \in Requests PROVE (Waits(q) /\ Answers(q))'
    BY <2>1, Frame DEF own, shared, Waits
  <2> QED BY <2>2, <2>3, <2>4
<1> QED BY <1>1, <1>2, <1>3, <1>4

\* Every step preserves the invariant.
LEMMA NextIInv == IInv /\ [Next]_vars => IInv'
<1> SUFFICES ASSUME IInv, [Next]_vars PROVE IInv'
  OBVIOUS
<1>1. ASSUME NEW r \in Requests, Step(r) PROVE IInv'
  BY <1>1, IntrospectedFine, IntrospectionFailsFine, MembershipFine, ProvisionFine,
     ProvisionFailsFine, CheckedFine, CheckFailsFine, ReturnFine DEF Step
<1>2. CASE ARequestArrives
  BY <1>2, NamelessArrives, ServiceArrives, NoServiceArrives, DemoArrives, SessionArrives,
     OtherArrives DEF ARequestArrives
<1> QED BY <1>1, <1>2, OthersFine DEF Next

-----------------------------------------------------------------------------
(* The theorems. *)

\* The invariant holds in every reachable state.
THEOREM Invariance == Spec => []IInv
BY InitIInv, NextIInv, PTL DEF Spec

\* Every reachable state is well formed.
THEOREM TypeCorrect == Spec => []TypeOK
<1>1. IInv => TypeOK BY DEF IInv
<1> QED BY <1>1, Invariance, PTL

\* Nobody is let through for the tenant of a header who was not a member of it during
\* the request.
THEOREM HeadersAreVetted == Spec => []HeaderVetted
<1>1. IInv => HeaderVetted
  BY DEF IInv, Answers, Vetted, Member, Person, HeaderVetted, LetThrough, Named
<1> QED BY <1>1, Invariance, PTL

\* A guarded request is let through or forbidden as OpenFGA's tuples once said.
THEOREM DecisionsAreBacked == Spec => []DecisionsBacked
<1>1. IInv => DecisionsBacked
  <2> SUFFICES ASSUME IInv, NEW r \in Requests
               PROVE  /\ (answer[r] = 200 /\ ~Exempt(ask[r], user[r])) =>
                            \E ts \in past : Allows(ts, Wanted(ask[r], user[r]))
                      /\ answer[r] = 403 => Denied(r)
    BY DEF DecisionsBacked, Denied
  <2> QED BY DEF IInv, Answers
<1> QED BY <1>1, Invariance, PTL

\* A service acts for its own tenant, with a token for the route's audience.
THEOREM ServicesAreTheirOwn == Spec => []ServicesStayInTheirOwn
<1>1. IInv => ServicesStayInTheirOwn
  <2> SUFFICES ASSUME IInv, NEW r \in Requests, answer[r] = 200, user[r].is_service
               PROVE  user[r].tenant = Claims[ask[r].token].tenant /\ Backs(ask[r])
    BY DEF ServicesStayInTheirOwn, LetThrough, Backs
  <2>1. Origin(ask[r], user[r], during[r]) BY DEF IInv, Answers, Waits
  <2> QED BY <2>1 DEF Origin
<1> QED BY <1>1, Invariance, PTL

\* A 401 has its reason.
THEOREM RejectionsHaveReasons == Spec => []RejectedForReason
<1>1. IInv => RejectedForReason BY DEF IInv, Answers, RejectedForReason
<1> QED BY <1>1, Invariance, PTL

\* Requests write a role only where its token has it, or where its owner was a member.
THEOREM ProvisionsAreKnown == Spec => ProvisionsWhereKnown
<1>1. IInv /\ [Next]_vars =>
        [changes' = changes => \A tuple \in tuples' \ tuples :
           \E r \in Requests :
             /\ pc[r] = "provision" /\ <<Claims[ask[r].token].sub, Claims[ask[r].token].role>> = <<tuple[1], tuple[2]>>
             /\ \/ Claims[ask[r].token].tenant = tuple[3]
                \/ \E ts \in during[r] : Allows(ts, <<tuple[1], "member", tuple[3]>>)]_vars
  <2> SUFFICES ASSUME IInv, Next, changes' = changes, NEW tuple \in tuples' \ tuples
               PROVE  \E r \in Requests :
                        /\ pc[r] = "provision" /\ <<Claims[ask[r].token].sub, Claims[ask[r].token].role>> = <<tuple[1], tuple[2]>>
                        /\ \/ Claims[ask[r].token].tenant = tuple[3]
                           \/ \E ts \in during[r] : Allows(ts, <<tuple[1], "member", tuple[3]>>)
    OBVIOUS
  <2>1. PICK r \in Requests : Provision(r)
    <3>1. CASE \E q \in Requests : Step(q)
      BY <3>1 DEF Step, Introspected, IntrospectionFails, MembershipAnswered, MembershipFails,
                  ProvisionFails, Checked, CheckFails, Return, shared
    <3>2. CASE ARequestArrives
      BY <3>2 DEF ARequestArrives, ArriveNameless, ArriveService, ArriveNoService, ArriveDemo,
                  ArriveSession, ArriveOther, Arrive
    <3>3. CASE \E t \in Subs \X Roles \X Tenants : Administer(t)
      BY <3>3, BoundsAssumption DEF Administer, IInv, TypeOK
    <3>4. CASE (\E t \in Tokens : Revoke(t)) \/ Lapse
      BY <3>4 DEF Revoke, Lapse
    <3> QED BY <3>1, <3>2, <3>3, <3>4 DEF Next
  <2>2. pc[r] = "provision" /\ tuple = Provisioned(r)
    BY <2>1 DEF Provision, Store
  <2>3. /\ Origin(ask[r], user[r], during[r]) /\ config.openfga_api_url /\ Person(user[r])
    BY <2>2 DEF IInv, Waits, Exempt, Person
  <2>4. /\ tuple[1] = Claims[ask[r].token].sub /\ tuple[2] = Claims[ask[r].token].role
        /\ tuple[3] = user[r].tenant /\ tuple[1] = user[r].id
    BY <2>2, <2>3 DEF Origin, Person, Provisioned
  <2>5. \/ Claims[ask[r].token].tenant = tuple[3]
        \/ \E ts \in during[r] : Allows(ts, <<tuple[1], "member", tuple[3]>>)
    BY <2>3, <2>4 DEF Origin, Member
  <2> QED BY <2>2, <2>4, <2>5
<1> QED BY <1>1, Invariance, PTL DEF Spec, ProvisionsWhereKnown
=============================================================================
