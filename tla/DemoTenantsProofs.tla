-------------------------- MODULE DemoTenantsProofs --------------------------
(***************************************************************************)
(* The safety of demo tenants, for any number of tenants, collectors and   *)
(* JWT lifetimes.  The argument: no stamp on a tenant, on its row or on    *)
(* its way there, is older than the tenant, so a tenant the collector      *)
(* selected is past its first TTL seconds, and stays so until the DELETE.  *)
(***************************************************************************)
EXTENDS DemoTenants, TLAPS

\* Before the commit there is nothing outside the transaction.
Unseen(t) == row[t] \in {"none", "inserting"} =>
                 t \notin minting /\ tokenExp[t] = 0 /\ touches[t] = {}

\* Stamps are not older than the tenant, and a JWT is not much younger.
Stamps(t) == /\ begun[t] <= now
             /\ row[t] \in {"inserting", "demo"} => begun[t] <= lastActive[t]
             /\ \A s \in touches[t] : begun[t] <= s
             /\ tokenExp[t] <= begun[t] + MaxSetup + TTL

\* create_session keeps to its time.
OnTime(t) == /\ row[t] = "inserting" => now <= begun[t] + MaxSetup
             /\ t \in minting => row[t] = "demo" /\ now <= begun[t] + MaxSetup

\* What a collector has selected is committed and past its term.
Selected(g) == \A t \in expired[g] : /\ row[t] \notin {"none", "inserting"}
                                     /\ begun[t] + TTL < now

IInv == /\ TypeOK
        /\ \A t \in Tenants : Unseen(t) /\ Stamps(t) /\ OnTime(t)
        /\ \A g \in Collectors : Selected(g)

\* The initial states satisfy the invariant.
LEMMA InitIInv == Init => IInv
BY TimesAssumption, TableAssumption, SMT
   DEF Init, IInv, TypeOK, Unseen, Stamps, OnTime, Selected

\* The steps of create_session preserve the invariant.
LEMMA SetupSteps ==
    ASSUME IInv, NEW u \in Tenants,
           Insert(u) \/ Rollback(u) \/ Commit(u) \/ Mint(u) \/ DieBeforeMint(u)
    PROVE  IInv'
<1> USE TimesAssumption DEF IInv, TypeOK, Unseen, Stamps, OnTime, Selected
<1>1. CASE Insert(u)
  BY <1>1, SMTT(30) DEF Insert
<1>2. CASE Rollback(u)
  BY <1>2, SMTT(30) DEF Rollback
<1>3. CASE Commit(u)
  BY <1>3, SMTT(30) DEF Commit
<1>4. CASE Mint(u)
  BY <1>4, SMTT(30) DEF Mint
<1>5. CASE DieBeforeMint(u)
  BY <1>5, SMTT(30) DEF DieBeforeMint
<1> QED BY <1>1, <1>2, <1>3, <1>4, <1>5

\* The steps of visitors and of the product preserve it.
LEMMA VisitorSteps ==
    ASSUME IInv, NEW u \in Tenants,
           Touch(u) \/ Promote(u) \/ \E s \in touches[u] : TouchLands(u, s)
    PROVE  IInv'
<1> USE TimesAssumption DEF IInv, TypeOK, Unseen, Stamps, OnTime, Selected
<1>1. CASE Touch(u)
  BY <1>1, SMTT(30) DEF Touch
<1>2. CASE Promote(u)
  BY <1>2, SMTT(30) DEF Promote
<1>3. ASSUME NEW s \in touches[u], TouchLands(u, s)
      PROVE  IInv'
  BY <1>3, SMTT(30) DEF TouchLands
<1> QED BY <1>1, <1>2, <1>3

\* The steps of the collector preserve it.
LEMMA CollectorSteps ==
    ASSUME IInv, NEW g \in Collectors,
           FindExpired(g) \/ Delete(g) \/ RunDies(g)
    PROVE  IInv'
<1> USE TimesAssumption DEF IInv, TypeOK, Unseen, Stamps, OnTime, Selected
<1>1. CASE FindExpired(g)
  BY <1>1, SMTT(30) DEF FindExpired, Idle
<1>2. CASE Delete(g)
  <2>2. TypeOK'
    BY <1>2, SMTT(30) DEF Delete
  <2>3. ASSUME NEW t \in Tenants
        PROVE  (Unseen(t) /\ Stamps(t) /\ OnTime(t))'
    BY <1>2, SetupAssumption, SMTT(30) DEF Delete
  <2>4. ASSUME NEW h \in Collectors
        PROVE  Selected(h)'
    BY <1>2, SMTT(30) DEF Delete
  <2> QED BY <2>2, <2>3, <2>4
<1>3. CASE RunDies(g)
  BY <1>3, SMTT(30) DEF RunDies
<1> QED BY <1>1, <1>2, <1>3

\* A second that passes preserves it.
LEMMA TickStep == ASSUME IInv, Tick PROVE IInv'
BY TimesAssumption, SMTT(30)
   DEF Tick, SettingUp, IInv, TypeOK, Unseen, Stamps, OnTime, Selected

\* Every step preserves it.
LEMMA NextIInv == IInv /\ [Next]_vars => IInv'
<1> SUFFICES ASSUME IInv, [Next]_vars PROVE IInv'
  OBVIOUS
<1>1. CASE UNCHANGED vars
  BY <1>1 DEF vars, IInv, TypeOK, Unseen, Stamps, OnTime, Selected
<1>2. CASE Next
  BY <1>2, SetupSteps, VisitorSteps, CollectorSteps, TickStep DEF Next
<1> QED BY <1>1, <1>2

\* The invariant holds in every reachable state.
THEOREM Invariance == Spec => []IInv
BY InitIInv, NextIInv, PTL DEF Spec

\* Every reachable state is well typed.
THEOREM TypeCorrect == Spec => []TypeOK
<1>1. IInv => TypeOK
  BY DEF IInv
<1> QED BY <1>1, Invariance, PTL

\* A row is deleted by a collector that selected it, and nothing else.
LEMMA DeletedBySome ==
    ASSUME IInv, [Next]_vars, NEW t \in Tenants, Deleted(t)
    PROVE  \E g \in Collectors : Delete(g) /\ t \in expired[g]
<1> USE DEF IInv, TypeOK, Deleted
<1>1. CASE UNCHANGED vars
  BY <1>1 DEF vars
<1>2. ASSUME NEW u \in Tenants,
             Insert(u) \/ Rollback(u) \/ Commit(u) \/ Mint(u) \/ DieBeforeMint(u)
             \/ Touch(u) \/ Promote(u) \/ \E s \in touches[u] : TouchLands(u, s)
      PROVE  FALSE
  BY <1>2 DEF Insert, Rollback, Commit, Mint, DieBeforeMint, Touch, Promote, TouchLands
<1>3. ASSUME NEW g \in Collectors, FindExpired(g) \/ RunDies(g)
      PROVE  FALSE
  BY <1>3 DEF FindExpired, RunDies
<1>4. ASSUME NEW g \in Collectors, Delete(g)
      PROVE  t \in expired[g]
  BY <1>4 DEF Delete
<1>5. ~Tick
  BY DEF Tick
<1> QED BY <1>1, <1>2, <1>3, <1>4, <1>5 DEF Next

\* demo_gc never deletes a prod tenant, also when a selected tenant becomes one
\* before the DELETE.
THEOREM ProdIsSafe == Spec => ProdNeverDeleted
<1>1. IInv /\ [Next]_vars =>
        [\A t \in Tenants : row[t] = "prod" => row'[t] = "prod"]_vars
  <2> SUFFICES ASSUME IInv, [Next]_vars, NEW t \in Tenants, row[t] = "prod"
               PROVE  row'[t] = "prod"
    OBVIOUS
  <2> USE DEF IInv, TypeOK
  <2>1. CASE UNCHANGED vars
    BY <2>1 DEF vars
  <2>2. ASSUME NEW u \in Tenants,
               Insert(u) \/ Rollback(u) \/ Commit(u) \/ Mint(u) \/ DieBeforeMint(u)
               \/ Touch(u) \/ Promote(u) \/ \E s \in touches[u] : TouchLands(u, s)
        PROVE  row'[t] = "prod"
    BY <2>2 DEF Insert, Rollback, Commit, Mint, DieBeforeMint, Touch, Promote, TouchLands
  <2>3. ASSUME NEW g \in Collectors, FindExpired(g) \/ Delete(g) \/ RunDies(g)
        PROVE  row'[t] = "prod"
    BY <2>3 DEF FindExpired, Delete, RunDies
  <2>4. CASE Tick
    BY <2>4 DEF Tick
  <2> QED BY <2>1, <2>2, <2>3, <2>4 DEF Next
<1> QED BY <1>1, Invariance, PTL DEF Spec, ProdNeverDeleted

\* demo_gc never deletes a tenant in its first TTL seconds.
THEOREM TermIsServed == Spec => FullTermServed
<1>1. IInv /\ [Next]_vars => [\A t \in Tenants : Deleted(t) => begun[t] + TTL < now]_vars
  <2> SUFFICES ASSUME IInv, [Next]_vars, NEW t \in Tenants, Deleted(t)
               PROVE  begun[t] + TTL < now
    OBVIOUS
  <2> QED BY DeletedBySome DEF IInv, Selected
<1> QED BY <1>1, Invariance, PTL DEF Spec, FullTermServed

\* When demo_gc deletes a tenant, its JWT is made and about to expire.
THEOREM OrphansAreBrief == Spec => TokenOrphanedBriefly
<1>1. IInv /\ [Next]_vars =>
        [\A t \in Tenants : Deleted(t) =>
           t \notin minting /\ tokenExp[t] < now + MaxSetup]_vars
  <2> SUFFICES ASSUME IInv, [Next]_vars, NEW t \in Tenants, Deleted(t)
               PROVE  t \notin minting /\ tokenExp[t] < now + MaxSetup
    OBVIOUS
  <2>1. begun[t] + TTL < now
    BY DeletedBySome DEF IInv, Selected
  <2>2. OnTime(t) /\ Stamps(t) /\ TypeOK
    BY DEF IInv
  <2> QED BY <2>1, <2>2, TimesAssumption, SetupAssumption DEF OnTime, Stamps, TypeOK
<1> QED BY <1>1, Invariance, PTL DEF Spec, TokenOrphanedBriefly
=============================================================================
