------------------------ MODULE PermissionCheckProofs ------------------------
(***************************************************************************)
(* The safety of check_permission and its cache, for any users, roles and  *)
(* model of OpenFGA's, any number of tasks and any TTL.  The argument: an  *)
(* answer on its way that OpenFGA would no longer give was overtaken by a  *)
(* change after the check was sent, hence at most a latency ago; what it   *)
(* fills the cache with lives for TTL from then.                           *)
(***************************************************************************)
EXTENDS PermissionCheck, TLAPS

\* What task c's answer says.
Says(c) == answer[c] = "allow"

\* Only a claimed role is written; checks in flight are on time; and a stale
\* answer was overtaken.
InFlight(c) ==
    /\ pc[c] = "provisioning" => claim[asked[c][1]] # NoRole
    /\ pc[c] # "checking" => answer[c] = "none"
    /\ pc[c] = "checking" => sentAt[c] <= now /\ now <= sentAt[c] + MaxLatency
    /\ answer[c] # "none" /\ Says(c) # Allows(tuples, asked[c])
          => sentAt[c] <= changed[asked[c]] /\ asked[c] \notin clean

IInv ==
    /\ TypeOK
    /\ \A k \in Keys : changed[k] <= now
    /\ \A c \in Tasks : InFlight(c)
    /\ CacheHonest
    /\ InvalidationHolds

\* OpenFGA's decisions are Booleans.
LEMMA AllowsIsBoolean == \A ts, k : Allows(ts, k) \in BOOLEAN
BY Zenon DEF Allows

\* An idle task's key is a key.
LEMMA NoKeyIsKey == NoKey \in Keys
<1>1. PICK u : u \in Users
  BY ModelAssumption, Zenon
<1>2. PICK p : p \in Permissions
  BY ModelAssumption, Zenon
<1>3. <<u, p>> \in Keys
  BY <1>1, <1>2 DEF Keys
<1> QED BY <1>3, Zenon DEF NoKey

\* The initial states satisfy the invariant.
LEMMA InitIInv == Init => IInv
<1> SUFFICES ASSUME Init PROVE IInv
  OBVIOUS
<1>1. TypeOK
  BY TimesAssumption, NoKeyIsKey DEF Init, TypeOK, Entries, NoEntry
<1>2. \A k \in Keys : changed[k] <= now /\ ~Live(k)
  BY DEF Init, Live, NoEntry
<1>3. \A c \in Tasks : InFlight(c)
  BY DEF Init, InFlight
<1>4. CacheHonest /\ InvalidationHolds
  BY <1>2 DEF Init, CacheHonest, InvalidationHolds
<1> QED BY <1>1, <1>2, <1>3, <1>4 DEF IInv

\* A change of the tuples preserves the invariant.
LEMMA StoreStep ==
    ASSUME IInv, NEW ts, ts \subseteq Users \X Roles, Store(ts),
           UNCHANGED <<now, claim, entry, asked, sentAt, answer, verdict>>,
           changes' \in Nat,
           pc' \in [Tasks -> {"idle", "provisioning", "provisioned", "checking", "done"}],
           \A c \in Tasks : /\ (pc[c] = "checking") <=> (pc'[c] = "checking")
                            /\ pc'[c] = "provisioning" => pc[c] = "provisioning"
    PROVE  IInv'
<1> DEFINE flipped == {k \in Keys : Allows(ts, k) # Allows(tuples, k)}
<1>1. /\ tuples' = ts
      /\ changed' = [k \in Keys |-> IF k \in flipped THEN now ELSE changed[k]]
      /\ clean' = clean \ flipped
  BY DEF Store
<1>2. /\ \A k \in flipped : changed'[k] = now /\ k \notin clean'
      /\ \A k \in Keys \ flipped : /\ changed'[k] = changed[k]
                                   /\ Allows(tuples', k) = Allows(tuples, k)
                                   /\ k \in clean' => k \in clean
  BY <1>1
<1> HIDE DEF flipped
<1>3. TypeOK'
  <2>1. changed' \in [Keys -> Nat]
    BY <1>1 DEF IInv, TypeOK
  <2> QED BY <1>1, <2>1 DEF IInv, TypeOK
<1>4. \A k \in Keys : changed'[k] <= now'
  BY <1>2 DEF IInv, TypeOK
<1>5. ASSUME NEW c \in Tasks PROVE InFlight(c)'
  <2>1. asked[c] \in Keys /\ InFlight(c) /\ asked'[c] = asked[c] /\ now \in Nat /\ sentAt[c] \in Nat
    BY DEF IInv, TypeOK
  <2>2. (answer[c] # "none" => sentAt[c] <= now)
    BY <2>1 DEF InFlight
  <2>3. CASE asked[c] \in flipped
    BY <1>2, <2>1, <2>2, <2>3 DEF InFlight, Says
  <2>4. CASE asked[c] \notin flipped
    BY <1>2, <2>1, <2>4 DEF InFlight, Says
  <2> QED BY <2>3, <2>4
<1>6. ASSUME NEW k \in Keys, Live(k)', (entry[k].value # Allows(tuples, k))'
      PROVE  (entry[k].expires <= changed[k] + MaxLatency + TTL)'
  <2>1. /\ entry[k].expires \in Nat /\ now \in Nat /\ changed[k] \in Nat
        /\ entry[k].expires <= now + TTL
    BY DEF IInv, TypeOK, Entries
  <2>2. CASE k \in flipped
    BY <1>2, <2>1, <2>2, TimesAssumption
  <2>3. CASE k \notin flipped
    BY <1>2, <1>6, <2>3 DEF IInv, CacheHonest, Live
  <2> QED BY <2>2, <2>3
<1>7. ASSUME NEW k \in clean', Live(k)'
      PROVE  (entry[k].value = Allows(tuples, k))'
  <2>1. k \in Keys /\ k \notin flipped /\ k \in clean
    BY <1>1, <1>2 DEF IInv, TypeOK
  <2> QED BY <1>2, <1>7, <2>1 DEF IInv, InvalidationHolds, Live
<1> QED BY <1>3, <1>4, <1>5, <1>6, <1>7 DEF IInv, CacheHonest, InvalidationHolds

\* Looking in the cache preserves the invariant.
LEMMA LookUpStep ==
    ASSUME IInv, NEW c \in Tasks, NEW k \in Keys, pc[c] # "checking",
           asked' = [asked EXCEPT ![c] = k], LookUp(c, k),
           UNCHANGED <<now, tuples, claim, changes, entry, answer, changed, clean>>
    PROVE  IInv'
<1>1. TypeOK'
  BY DEF IInv, TypeOK, LookUp, Entries
<1>2. ASSUME NEW d \in Tasks PROVE InFlight(d)'
  <2>1. CASE d = c
    BY <2>1, TimesAssumption DEF IInv, TypeOK, LookUp, InFlight
  <2>2. CASE d # c
    BY <2>2 DEF IInv, TypeOK, LookUp, InFlight, Says
  <2> QED BY <2>1, <2>2
<1> QED BY <1>1, <1>2 DEF IInv, CacheHonest, InvalidationHolds, Live
\* Going back to idle preserves the invariant, if the cache is left alone.
LEMMA ResetStep ==
    ASSUME IInv, NEW c \in Tasks, Reset(c),
           UNCHANGED <<now, tuples, claim, changes, entry, changed, clean>>
    PROVE  IInv'
<1>1. TypeOK'
  BY NoKeyIsKey DEF IInv, TypeOK, Reset
<1>2. ASSUME NEW d \in Tasks PROVE InFlight(d)'
  <2>1. CASE d = c
    BY <2>1 DEF IInv, TypeOK, Reset, InFlight
  <2>2. CASE d # c
    BY <2>2 DEF IInv, TypeOK, Reset, InFlight, Says
  <2> QED BY <2>1, <2>2
<1> QED BY <1>1, <1>2 DEF IInv, CacheHonest, InvalidationHolds, Live

\* OpenFGA's decision preserves the invariant.
LEMMA DecideStep == ASSUME IInv, NEW c \in Tasks, Decide(c) PROVE IInv'
<1>1. TypeOK'
  BY DEF IInv, TypeOK, Decide
<1>2. ASSUME NEW d \in Tasks PROVE InFlight(d)'
  <2>1. CASE d = c
    BY <2>1, AllowsIsBoolean DEF IInv, TypeOK, Decide, InFlight, Says
  <2>2. CASE d # c
    BY <2>2 DEF IInv, TypeOK, Decide, InFlight, Says
  <2> QED BY <2>1, <2>2
<1> QED BY <1>1, <1>2 DEF IInv, Decide, CacheHonest, InvalidationHolds, Live

\* Filling the cache with an answer preserves the invariant.
LEMMA AnsweredStep == ASSUME IInv, NEW c \in Tasks, Answered(c) PROVE IInv'
<1> DEFINE key == asked[c]
           new == [value |-> answer[c] = "allow", expires |-> now + TTL]
<1>1. key \in Keys /\ now \in Nat /\ now + TTL \in Nat /\ new \in Entries
  BY TimesAssumption DEF IInv, TypeOK, Entries
<1>2. entry' = [entry EXCEPT ![key] = new]
  BY DEF Answered
<1>3. TypeOK'
  <2>1. entry' \in [Keys -> Entries]
    BY <1>1, <1>2 DEF IInv, TypeOK
  <2>2. \A k \in Keys : entry'[k].expires <= now' + TTL
    BY <1>1, <1>2, TimesAssumption DEF IInv, TypeOK, Answered
  <2> QED BY <2>1, <2>2, TimesAssumption DEF IInv, TypeOK, Answered
<1>4. ASSUME NEW d \in Tasks PROVE InFlight(d)'
  <2>1. CASE d = c
    BY <2>1 DEF IInv, TypeOK, Answered, InFlight
  <2>2. CASE d # c
    BY <2>2 DEF IInv, TypeOK, Answered, InFlight, Says
  <2> QED BY <2>1, <2>2
<1>5. InFlight(c) /\ Says(c) = new.value
  BY DEF IInv, Says
<1>6. ASSUME NEW k \in Keys, Live(k)', (entry[k].value # Allows(tuples, k))'
      PROVE  (entry[k].expires <= changed[k] + MaxLatency + TTL)'
  <2>1. CASE k = key
    <3>1. entry'[k] = new /\ tuples' = tuples /\ changed' = changed
      BY <1>2, <2>1, <1>1 DEF IInv, TypeOK, Answered
    <3>2. sentAt[c] <= changed[key] /\ now <= sentAt[c] + MaxLatency
      BY <3>1, <1>5, <1>6, <2>1 DEF InFlight, Answered
    <3>3. sentAt[c] \in Nat /\ changed[key] \in Nat
      BY <1>1 DEF IInv, TypeOK
    <3> QED BY <3>1, <3>2, <3>3, <2>1, <1>1, TimesAssumption
  <2>2. CASE k # key
    BY <1>2, <1>6, <2>2 DEF IInv, TypeOK, CacheHonest, Live, Answered
  <2> QED BY <2>1, <2>2
<1>7. ASSUME NEW k \in clean', Live(k)'
      PROVE  (entry[k].value = Allows(tuples, k))'
  <2>1. k \in Keys /\ k \in clean /\ tuples' = tuples
    BY DEF IInv, TypeOK, Answered
  <2>2. CASE k = key
    <3>1. entry'[k] = new
      BY <1>2, <2>2, <1>1 DEF IInv, TypeOK
    <3> QED BY <3>1, <1>5, <2>1, <2>2 DEF InFlight, Answered
  <2>3. CASE k # key
    BY <1>2, <1>7, <2>1, <2>3 DEF IInv, TypeOK, InvalidationHolds, Live, Answered
  <2> QED BY <2>2, <2>3
<1>8. \A k \in Keys : changed'[k] <= now'
  BY DEF IInv, Answered
<1> QED BY <1>3, <1>4, <1>6, <1>7, <1>8 DEF IInv, CacheHonest, InvalidationHolds

\* Invalidation preserves the invariant.
LEMMA DropStep == ASSUME IInv, NEW ks \in SUBSET Keys, Drop(ks) PROVE IInv'
<1>1. TypeOK'
  <2>1. entry' \in [Keys -> Entries] /\ \A k \in Keys : entry'[k].expires <= now' + TTL
    BY TimesAssumption DEF IInv, TypeOK, Drop, Entries, NoEntry
  <2> QED BY <2>1 DEF IInv, TypeOK, Drop
<1>2. ASSUME NEW d \in Tasks PROVE InFlight(d)'
  BY DEF IInv, TypeOK, Drop, InFlight, Says
<1>3. \A k \in Keys : Live(k)' => k \notin ks /\ Live(k) /\ entry'[k] = entry[k]
  BY DEF IInv, TypeOK, Drop, Live, NoEntry
<1>4. CacheHonest'
  BY <1>3 DEF IInv, CacheHonest, Drop
<1>5. InvalidationHolds'
  BY <1>3 DEF IInv, TypeOK, InvalidationHolds, Drop
<1> QED BY <1>1, <1>2, <1>4, <1>5 DEF IInv, Drop

\* A second that passes preserves the invariant.
LEMMA TickStep == ASSUME IInv, Tick PROVE IInv'
<1>1. TypeOK'
  BY TimesAssumption DEF IInv, TypeOK, Tick, Entries
<1>2. ASSUME NEW d \in Tasks PROVE InFlight(d)'
  BY TimesAssumption DEF IInv, TypeOK, Tick, InFlight, Says
<1>3. \A k \in Keys : (Live(k)' => Live(k)) /\ changed'[k] <= now'
  BY DEF IInv, TypeOK, Entries, Live, Tick
<1> QED BY <1>1, <1>2, <1>3 DEF IInv, TypeOK, Tick, CacheHonest, InvalidationHolds

\* Every step preserves the invariant.
LEMMA NextIInv == IInv /\ [Next]_vars => IInv'
<1> SUFFICES ASSUME IInv, [Next]_vars PROVE IInv'
  OBVIOUS
<1>1. CASE UNCHANGED vars
  BY <1>1 DEF vars, IInv, TypeOK, InFlight, Says, CacheHonest, InvalidationHolds, Live
<1>2. ASSUME NEW c \in Tasks, NEW k \in Keys, Call(c, k) PROVE IInv'
  <2>1. CASE claim[k[1]] = NoRole
    BY <1>2, <2>1, LookUpStep DEF Call
  <2>2. CASE claim[k[1]] # NoRole
    <3>1. TypeOK'
      BY <1>2, <2>2 DEF IInv, TypeOK, Call
    <3>2. ASSUME NEW d \in Tasks PROVE InFlight(d)'
      BY <1>2, <2>2 DEF IInv, TypeOK, Call, InFlight, Says
    <3> QED BY <1>2, <2>2, <3>1, <3>2 DEF IInv, Call, CacheHonest, InvalidationHolds, Live
  <2> QED BY <2>1, <2>2
<1>3. ASSUME NEW c \in Tasks, Provision(c) PROVE IInv'
  <2> DEFINE u == asked[c][1]
  <2>1. pc[c] = "provisioning" /\ Store(tuples \cup {<<u, claim[u]>>})
    BY <1>3 DEF Provision
  <2>2. u \in Users /\ claim[u] \in Roles
    BY <2>1 DEF IInv, TypeOK, InFlight, Keys
  <2>3. tuples \cup {<<u, claim[u]>>} \subseteq Users \X Roles
    BY <2>2 DEF IInv, TypeOK
  <2> QED BY <1>3, <2>1, <2>3, StoreStep DEF Provision, IInv, TypeOK
<1>4. ASSUME NEW c \in Tasks, Provisioned(c) PROVE IInv'
  <2>1. asked[c] \in Keys /\ asked' = [asked EXCEPT ![c] = asked[c]]
    BY <1>4 DEF IInv, TypeOK, Provisioned
  <2> QED BY <1>4, <2>1, LookUpStep DEF Provisioned
<1>5. ASSUME NEW c \in Tasks, CheckFails(c) \/ Return(c) PROVE IInv'
  BY <1>5, ResetStep DEF CheckFails, Return
<1>6. ASSUME NEW u \in Users, NEW r \in Roles, Administer(u, r) PROVE IInv'
  <2> DEFINE ts == IF <<u, r>> \in tuples THEN tuples \ {<<u, r>>}
                                         ELSE tuples \cup {<<u, r>>}
  <2>1. ts \subseteq Users \X Roles /\ Store(ts)
    BY <1>6 DEF IInv, TypeOK, Administer
  <2>2. changes' \in Nat
    BY <1>6 DEF IInv, TypeOK, Administer
  <2> HIDE DEF ts
  <2> QED BY <1>6, <2>1, <2>2, StoreStep DEF Administer, IInv, TypeOK
<1>7. ASSUME NEW ks \in SUBSET Keys, Drop(ks) PROVE IInv'
  BY <1>7, DropStep
<1>8. \A k \in Keys : Invalidate(k) => IInv'
  BY <1>7 DEF Invalidate
<1>9. \A u \in Users : InvalidateUser(u) => IInv'
  BY <1>7 DEF InvalidateUser
<1>10. Clear => IInv'
  BY <1>7 DEF Clear
<1> QED BY <1>1, <1>2, <1>3, <1>4, <1>5, <1>6, <1>8, <1>9, <1>10,
           DecideStep, AnsweredStep, TickStep DEF Next

\* The invariant holds in every reachable state.
THEOREM Invariance == Spec => []IInv
BY InitIInv, NextIInv, PTL DEF Spec

\* Every reachable state is well typed.
THEOREM TypeCorrect == Spec => []TypeOK
<1>1. IInv => TypeOK
  BY DEF IInv
<1> QED BY <1>1, Invariance, PTL

\* Cached decisions that OpenFGA no longer makes run out in time.
THEOREM CacheIsHonest == Spec => []CacheHonest
<1>1. IInv => CacheHonest
  BY DEF IInv
<1> QED BY <1>1, Invariance, PTL

\* An invalidation with no check in flight is lasting.
THEOREM InvalidationIsLasting == Spec => []InvalidationHolds
<1>1. IInv => InvalidationHolds
  BY DEF IInv
<1> QED BY <1>1, Invariance, PTL

\* check_permission returns OpenFGA's verdict, or one that was OpenFGA's at
\* most TTL and a latency before.
THEOREM VerdictsAreRecent == Spec => StaleOnlyBriefly
<1> DEFINE Recent(c) == /\ pc[c] # "done" /\ pc'[c] = "done"
                        /\ verdict'[c] # Allows(tuples, asked'[c])
                        => now <= changed[asked'[c]] + MaxLatency + TTL
<1>1. ASSUME IInv, NEW c \in Tasks, NEW k \in Keys, LookUp(c, k), asked'[c] = k
      PROVE  Recent(c)
  <2>1. /\ entry[k].expires \in Nat /\ now \in Nat /\ changed[k] \in Nat
    BY <1>1 DEF IInv, TypeOK, Entries
  <2> QED BY <1>1, <2>1, TimesAssumption
          DEF IInv, TypeOK, LookUp, CacheHonest, Live
<1>2. ASSUME IInv, NEW c \in Tasks, NEW d \in Tasks, Answered(d)
      PROVE  Recent(c)
  <2>1. CASE c = d
    <3>1. /\ asked[c] \in Keys /\ now \in Nat /\ sentAt[c] \in Nat
          /\ changed[asked[c]] \in Nat
      BY <1>2 DEF IInv, TypeOK
    <3>2. verdict'[c] = Says(c) /\ asked' = asked
      BY <1>2, <2>1 DEF IInv, TypeOK, Answered, Says
    <3> QED BY <1>2, <2>1, <3>1, <3>2, TimesAssumption DEF IInv, InFlight, Answered
  <2>2. CASE c # d
    BY <1>2, <2>2 DEF IInv, TypeOK, Answered
  <2> QED BY <2>1, <2>2
<1>3. IInv /\ [Next]_vars =>
        [\A c \in Tasks :
            pc[c] # "done" /\ pc'[c] = "done" /\ verdict'[c] # Allows(tuples, asked'[c])
              => now <= changed[asked'[c]] + MaxLatency + TTL]_vars
  <2> SUFFICES ASSUME IInv, [Next]_vars, NEW c \in Tasks PROVE Recent(c)
    OBVIOUS
  <2>1. CASE UNCHANGED vars
    BY <2>1 DEF vars
  <2>2. ASSUME NEW d \in Tasks, NEW k \in Keys, Call(d, k) PROVE Recent(c)
    <3>1. CASE d = c /\ claim[k[1]] = NoRole
      BY <1>1, <2>2, <3>1 DEF Call, IInv, TypeOK
    <3>2. CASE d = c /\ claim[k[1]] # NoRole
      BY <2>2, <3>2 DEF Call, IInv, TypeOK
    <3>3. CASE d # c
      BY <2>2, <3>3 DEF Call, LookUp, IInv, TypeOK
    <3> QED BY <3>1, <3>2, <3>3
  <2>3. ASSUME NEW d \in Tasks, Provisioned(d) PROVE Recent(c)
    <3>1. CASE d = c
      BY <1>1, <2>3, <3>1 DEF Provisioned, IInv, TypeOK
    <3>2. CASE d # c
      BY <2>3, <3>2 DEF Provisioned, LookUp, IInv, TypeOK
    <3> QED BY <3>1, <3>2
  <2>4. ASSUME NEW d \in Tasks, Provision(d) \/ Decide(d) \/ CheckFails(d) \/ Return(d)
        PROVE  Recent(c)
    BY <2>4 DEF Provision, Decide, CheckFails, Return, Reset, IInv, TypeOK
  <2>5. ASSUME NEW ks, Drop(ks) PROVE Recent(c)
    BY <2>5 DEF Drop
  <2>6. ASSUME NEW u \in Users, NEW r \in Roles, Administer(u, r) PROVE Recent(c)
    BY <2>6 DEF Administer
  <2>7. Tick => Recent(c)
    BY DEF Tick
  <2> HIDE DEF Recent
  <2> QED BY <1>2, <2>1, <2>2, <2>3, <2>4, <2>5, <2>6, <2>7
          DEF Next, Invalidate, InvalidateUser, Clear
<1> QED BY <1>3, Invariance, PTL DEF Spec, StaleOnlyBriefly
=============================================================================
