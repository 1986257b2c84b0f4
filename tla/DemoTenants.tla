----------------------------- MODULE DemoTenants -----------------------------
(***************************************************************************)
(* bsvibe-demo: the life of the tenants in a product's tenants table.      *)
(* create_session inserts a demo tenant, seeds it in the same transaction  *)
(* and then mints a JWT for it; touch_last_active is called on a visitor's *)
(* requests; demo_gc, run by cron, selects the idle demo tenants and then  *)
(* deletes them with a second statement.  Everything here happens in       *)
(* several processes at once: statements interleave, runs of the collector *)
(* overlap, and a process can die between two of them.                     *)
(*                                                                         *)
(* PostgreSQL's now() is the start of the transaction, so a stamp is as    *)
(* old as the transaction that writes it.                                  *)
(***************************************************************************)
EXTENDS Integers

CONSTANTS
    Tenants,     \* the ids uuid4 can draw, and the ids of prod tenants
    ProdTenants, \* those that are in the table already, as prod tenants
    Collectors,  \* processes that run demo_gc
    TTL,         \* ttl_seconds of the collector and of the JWT
    MaxSetup,    \* bound on create_session, from its first statement to the JWT
    MaxStart,    \* bound: the last second at which a session begins
    MaxTime      \* bound: seconds that pass

ASSUME TableAssumption == ProdTenants \subseteq Tenants
ASSUME TimesAssumption == /\ TTL \in Nat /\ MaxSetup \in Nat
                          /\ MaxStart \in Nat /\ MaxTime \in Nat
\* The JWT is out before the collector could take the tenant for idle.
ASSUME SetupAssumption == MaxSetup <= TTL

VARIABLES
    now,        \* the database's and the processes' clock, in seconds
    row,        \* a tenant's row: none, inserting, demo, prod or deleted
    begun,      \* when the transaction that inserts it began
    lastActive, \* settings->>'last_active_at'
    tokenExp,   \* exp of the tenant's JWT; 0: not minted
    minting,    \* tenants that are committed and whose JWT is still to be made
    touches,    \* stamps of a tenant's touches that have not reached its row
    expired     \* what a collector's SELECT returned; {} between runs

vars == <<now, row, begun, lastActive, tokenExp, minting, touches, expired>>

Deleted(t) == row[t] = "demo" /\ row'[t] = "deleted"

\* The tenants whose create_session is under way.
SettingUp == {t \in Tenants : row[t] = "inserting"} \cup minting

Init ==
    /\ now = 0
    /\ row = [t \in Tenants |-> IF t \in ProdTenants THEN "prod" ELSE "none"]
    /\ begun = [t \in Tenants |-> 0]
    /\ lastActive = [t \in Tenants |-> 0]
    /\ tokenExp = [t \in Tenants |-> 0]
    /\ minting = {}
    /\ touches = [t \in Tenants |-> {}]
    /\ expired = [g \in Collectors |-> {}]

(***************************************************************************)
(* create_session                                                          *)
(***************************************************************************)

\* Mutant of Insert: last_active_at keeps the 0 the row is inserted with.
InsertUnstamped(t) ==
    /\ row[t] = "none" /\ now <= MaxStart
    /\ row' = [row EXCEPT ![t] = "inserting"]
    /\ begun' = [begun EXCEPT ![t] = now]
    /\ UNCHANGED <<now, lastActive, tokenExp, minting, touches, expired>>

\* The transaction inserts the row, stamped with its own start, and seeds it;
\* nobody sees the row yet.
Insert(t) ==
    /\ row[t] = "none" /\ now <= MaxStart
    /\ row' = [row EXCEPT ![t] = "inserting"]
    /\ begun' = [begun EXCEPT ![t] = now]
    /\ lastActive' = [lastActive EXCEPT ![t] = now]
    /\ UNCHANGED <<now, tokenExp, minting, touches, expired>>

\* The seed function raises, or the process dies: the insert is rolled back.
Rollback(t) ==
    /\ row[t] = "inserting"
    /\ row' = [row EXCEPT ![t] = "none"]
    /\ begun' = [begun EXCEPT ![t] = 0]
    /\ lastActive' = [lastActive EXCEPT ![t] = 0]
    /\ UNCHANGED <<now, tokenExp, minting, touches, expired>>

Commit(t) ==
    /\ row[t] = "inserting"
    /\ row' = [row EXCEPT ![t] = "demo"]
    /\ minting' = minting \cup {t}
    /\ UNCHANGED <<now, begun, lastActive, tokenExp, touches, expired>>

\* Mutant of Mint: the JWT's lifetime covers two windows.
MintTooLong(t) ==
    /\ t \in minting
    /\ tokenExp' = [tokenExp EXCEPT ![t] = now + 2 * TTL]
    /\ minting' = minting \ {t}
    /\ UNCHANGED <<now, row, begun, lastActive, touches, expired>>

\* mint_demo_jwt: the JWT expires TTL after it is made, not after the insert.
Mint(t) ==
    /\ t \in minting
    /\ tokenExp' = [tokenExp EXCEPT ![t] = now + TTL]
    /\ minting' = minting \ {t}
    /\ UNCHANGED <<now, row, begun, lastActive, touches, expired>>

\* The process dies after the commit: a tenant nobody has a JWT for.
DieBeforeMint(t) ==
    /\ t \in minting
    /\ minting' = minting \ {t}
    /\ UNCHANGED <<now, row, begun, lastActive, tokenExp, touches, expired>>

(***************************************************************************)
(* touch_last_active                                                       *)
(***************************************************************************)

\* A request whose JWT decode_demo_jwt accepts begins its UPDATE.
Touch(t) ==
    /\ now < tokenExp[t]
    /\ touches' = [touches EXCEPT ![t] = @ \cup {now}]
    /\ UNCHANGED <<now, row, begun, lastActive, tokenExp, minting, expired>>

\* The UPDATE reaches the row, if that is still there and still a demo tenant.
TouchLands(t, stamp) ==
    /\ stamp \in touches[t]
    /\ touches' = [touches EXCEPT ![t] = @ \ {stamp}]
    /\ lastActive' = IF row[t] = "demo" THEN [lastActive EXCEPT ![t] = stamp]
                                        ELSE lastActive
    /\ UNCHANGED <<now, row, begun, tokenExp, minting, expired>>

(***************************************************************************)
(* demo_gc                                                                 *)
(***************************************************************************)

\* Mutant of Idle: the comparison is turned around.
IdleSwapped(t) == row[t] = "demo" /\ now - TTL < lastActive[t]

\* The WHERE clause of find_expired_tenants.
Idle(t) == row[t] = "demo" /\ lastActive[t] < now - TTL

\* find_expired_tenants; with nothing to delete, demo_gc ends here.
FindExpired(g) ==
    /\ expired[g] = {}
    /\ expired' = [expired EXCEPT ![g] = {t \in Tenants : Idle(t)}]
    /\ UNCHANGED <<now, row, begun, lastActive, tokenExp, minting, touches>>

\* Mutant of Delete: the DELETE goes by id alone.
DeleteById(g) ==
    /\ expired[g] # {}
    /\ row' = [t \in Tenants |-> IF t \in expired[g] THEN "deleted" ELSE row[t]]
    /\ expired' = [expired EXCEPT ![g] = {}]
    /\ UNCHANGED <<now, begun, lastActive, tokenExp, minting, touches>>

\* The DELETE takes the selected tenants that are demo tenants still, whatever
\* their last_active_at has become.
Delete(g) ==
    /\ expired[g] # {}
    /\ row' = [t \in Tenants |->
                 IF t \in expired[g] /\ row[t] = "demo" THEN "deleted" ELSE row[t]]
    /\ expired' = [expired EXCEPT ![g] = {}]
    /\ UNCHANGED <<now, begun, lastActive, tokenExp, minting, touches>>

\* A run fails, or is killed, before its DELETE commits.
RunDies(g) ==
    /\ expired[g] # {}
    /\ expired' = [expired EXCEPT ![g] = {}]
    /\ UNCHANGED <<now, row, begun, lastActive, tokenExp, minting, touches>>

(***************************************************************************)
(* The world around.                                                       *)
(***************************************************************************)

\* The product turns a visitor's tenant into a customer's: what the DELETE's
\* own is_demo condition is there for.
Promote(t) ==
    /\ row[t] = "demo" /\ t \notin minting
    /\ row' = [row EXCEPT ![t] = "prod"]
    /\ UNCHANGED <<now, begun, lastActive, tokenExp, minting, touches, expired>>

\* A second passes; create_session takes MaxSetup at most.
Tick ==
    /\ now < MaxTime
    /\ \A t \in SettingUp : now < begun[t] + MaxSetup
    /\ now' = now + 1
    /\ UNCHANGED <<row, begun, lastActive, tokenExp, minting, touches, expired>>

Next ==
    \/ \E t \in Tenants :
          \/ Insert(t) \/ Rollback(t) \/ Commit(t) \/ Mint(t) \/ DieBeforeMint(t)
          \/ Touch(t) \/ Promote(t)
          \/ \E stamp \in touches[t] : TouchLands(t, stamp)
    \/ \E g \in Collectors : FindExpired(g) \/ Delete(g) \/ RunDies(g)
    \/ Tick

Spec == Init /\ [][Next]_vars

\* Time passes, a create_session ends, cron keeps starting the collector, and
\* not every run of it is killed between its two statements.
Fairness ==
    /\ WF_vars(Tick)
    /\ \A t \in Tenants : /\ WF_vars(Rollback(t) \/ Commit(t))
                          /\ WF_vars(Mint(t) \/ DieBeforeMint(t))
    /\ \A g \in Collectors : WF_vars(FindExpired(g)) /\ SF_vars(Delete(g))

FairSpec == Spec /\ Fairness

-----------------------------------------------------------------------------
\* Every variable keeps to its kind of value.
TypeOK ==
    /\ now \in Nat
    /\ row \in [Tenants -> {"none", "inserting", "demo", "prod", "deleted"}]
    /\ begun \in [Tenants -> Nat] /\ lastActive \in [Tenants -> Nat]
    /\ tokenExp \in [Tenants -> Nat]
    /\ minting \in SUBSET Tenants
    /\ touches \in [Tenants -> SUBSET Nat]
    /\ expired \in [Collectors -> SUBSET Tenants]

\* "prod tenants are never touched": neither those that always were, nor one
\* that was a demo tenant when the collector selected it.
ProdNeverDeleted == [][\A t \in Tenants : row[t] = "prod" => row'[t] = "prod"]_vars

\* No tenant is deleted in its first TTL seconds, however selections, late
\* touches and deletions of several runs interleave.
FullTermServed == [][\A t \in Tenants : Deleted(t) => begun[t] + TTL < now]_vars

\* A visitor's JWT can outlive the tenant it is for, but by less than the time
\* the session took to set up.  That also bounds what a touch that lands between
\* a collector's SELECT and its DELETE can lose: touches need a JWT.
TokenOrphanedBriefly ==
    [][\A t \in Tenants : Deleted(t) =>
          t \notin minting /\ tokenExp[t] < now + MaxSetup]_vars

\* Every demo tenant goes: JWTs run out, so touches end, and the collector
\* comes by.  That holds for a tenant left behind without a JWT as well.
EveryDemoEnds == \A t \in Tenants : row[t] = "demo" ~> row[t] # "demo"
=============================================================================
