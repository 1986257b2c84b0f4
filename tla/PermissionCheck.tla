--------------------------- MODULE PermissionCheck ---------------------------
(***************************************************************************)
(* check_permission of bsvibe-authz (deps.py) with its PermissionCache     *)
(* (cache.py), as the tasks of one process run it against OpenFGA: write   *)
(* the caller's role tuple, look in the cache, ask OpenFGA, fill the       *)
(* cache.  Between these a task awaits, and meanwhile roles are granted    *)
(* and revoked, entries are invalidated and other tasks fill the cache.    *)
(*                                                                         *)
(* The cache's lock is never held across an await, so each of its methods  *)
(* is one step, and joins the step of the task that calls it.              *)
(***************************************************************************)
EXTENDS Integers, FiniteSets

CONSTANTS
    Users, Roles, Permissions,
    Confers,     \* OpenFGA's model: the permissions a role confers
    Tasks,       \* the requests a process serves at once
    TTL,         \* ttl_s of the cache
    MaxLatency,  \* bound on an OpenFGA check, from its timeouts
    MaxTime,     \* bound: seconds that pass
    MaxChanges   \* bound: grants and revocations by administrators

ASSUME ModelAssumption == /\ Users # {} /\ Permissions # {}
                          /\ Confers \in [Roles -> SUBSET Permissions]
ASSUME TimesAssumption == /\ TTL \in Nat /\ MaxLatency \in Nat
                          /\ MaxTime \in Nat /\ MaxChanges \in Nat

VARIABLES
    now,      \* time.monotonic()
    tuples,   \* OpenFGA's role tuples on the tenant
    claim,    \* app_metadata.role in a user's token, or NoRole
    changes,  \* how many grants and revocations there have been
    entry,    \* the cache's entries; NoEntry where it has none
    pc,       \* where each task is
    asked,    \* the user and permission a task is checking
    sentAt,   \* when its check went to OpenFGA
    answer,   \* OpenFGA's answer, on its way
    verdict,  \* what check_permission returned
    changed,  \* history: when OpenFGA's decision on a key last changed
    clean     \* history: keys invalidated since, with no check in flight

vars == <<now, tuples, claim, changes, entry, pc, asked, sentAt, answer, verdict,
          changed, clean>>

NoRole == "no role"

Keys == Users \X Permissions
NoKey == CHOOSE k \in Keys : TRUE  \* of an idle task: any
NoEntry == [value |-> FALSE, expires |-> 0]
Entries == [value : BOOLEAN, expires : Nat]

\* OpenFGA's decision on key k, given its tuples.
Allows(ts, k) == \E r \in Roles : <<k[1], r>> \in ts /\ k[2] \in Confers[r]

\* _Entry.expires_at is still ahead.  (get pops an entry that is not live; here
\* it stays and is dead.)
Live(k) == entry[k].expires > now

\* The tuples become ts; history follows.
Store(ts) ==
    LET flipped == {k \in Keys : Allows(ts, k) # Allows(tuples, k)}
    IN  /\ tuples' = ts
        /\ changed' = [k \in Keys |-> IF k \in flipped THEN now ELSE changed[k]]
        /\ clean' = clean \ flipped

Init ==
    /\ now = 0
    /\ tuples \in SUBSET (Users \X Roles)
    /\ claim \in [Users -> Roles \cup {NoRole}]
    /\ changes = 0
    /\ entry = [k \in Keys |-> NoEntry]
    /\ pc = [c \in Tasks |-> "idle"]
    /\ asked = [c \in Tasks |-> NoKey]
    /\ sentAt = [c \in Tasks |-> 0]
    /\ answer = [c \in Tasks |-> "none"]
    /\ verdict = [c \in Tasks |-> FALSE]
    /\ changed = [k \in Keys |-> 0]
    /\ clean = Keys

(***************************************************************************)
(* check_permission                                                        *)
(***************************************************************************)

\* Task c is between two requests.
Reset(c) ==
    /\ pc' = [pc EXCEPT ![c] = "idle"]
    /\ asked' = [asked EXCEPT ![c] = NoKey]
    /\ sentAt' = [sentAt EXCEPT ![c] = 0]
    /\ answer' = [answer EXCEPT ![c] = "none"]
    /\ verdict' = [verdict EXCEPT ![c] = FALSE]

\* Mutant of LookUp: an entry decides whether it lives or not.
LookUpExpired(c, k) ==
    IF entry[k] # NoEntry
      THEN /\ pc' = [pc EXCEPT ![c] = "done"]
           /\ verdict' = [verdict EXCEPT ![c] = entry[k].value]
           /\ UNCHANGED sentAt
      ELSE /\ pc' = [pc EXCEPT ![c] = "checking"]
           /\ sentAt' = [sentAt EXCEPT ![c] = now]
           /\ UNCHANGED verdict

\* cache.get: an entry that lives decides, otherwise OpenFGA is asked.
LookUp(c, k) ==
    IF Live(k)
      THEN /\ pc' = [pc EXCEPT ![c] = "done"]
           /\ verdict' = [verdict EXCEPT ![c] = entry[k].value]
           /\ UNCHANGED sentAt
      ELSE /\ pc' = [pc EXCEPT ![c] = "checking"]
           /\ sentAt' = [sentAt EXCEPT ![c] = now]
           /\ UNCHANGED verdict

\* A task starts: with a role claim its tuple is written first.
Call(c, k) ==
    /\ pc[c] = "idle"
    /\ asked' = [asked EXCEPT ![c] = k]
    /\ IF claim[k[1]] # NoRole
         THEN pc' = [pc EXCEPT ![c] = "provisioning"] /\ UNCHANGED <<sentAt, verdict>>
         ELSE LookUp(c, k)
    /\ UNCHANGED <<now, tuples, claim, changes, entry, answer, changed, clean>>

\* OpenFGA stores the tuple of a write_tuple that is on its way.
Provision(c) ==
    /\ pc[c] = "provisioning"
    /\ LET u == asked[c][1] IN Store(tuples \cup {<<u, claim[u]>>})
    /\ pc' = [pc EXCEPT ![c] = "provisioned"]
    /\ UNCHANGED <<now, claim, changes, entry, asked, sentAt, answer, verdict>>

\* write_tuple returns, or raises an OpenFGAError, which is swallowed.
Provisioned(c) ==
    /\ pc[c] \in {"provisioning", "provisioned"}
    /\ LookUp(c, asked[c])
    /\ UNCHANGED <<now, tuples, claim, changes, entry, asked, answer, changed, clean>>

\* OpenFGA decides.
Decide(c) ==
    /\ pc[c] = "checking" /\ answer[c] = "none"
    /\ answer' = [answer EXCEPT ![c] =
                    IF Allows(tuples, asked[c]) THEN "allow" ELSE "deny"]
    /\ UNCHANGED <<now, tuples, claim, changes, entry, pc, asked, sentAt, verdict,
                   changed, clean>>

\* The answer arrives: cache.set, and return it.
Answered(c) ==
    /\ pc[c] = "checking" /\ answer[c] # "none"
    /\ entry' = [entry EXCEPT ![asked[c]] =
                   [value |-> answer[c] = "allow", expires |-> now + TTL]]
    /\ verdict' = [verdict EXCEPT ![c] = (answer[c] = "allow")]
    /\ pc' = [pc EXCEPT ![c] = "done"]
    /\ answer' = [answer EXCEPT ![c] = "none"]
    /\ sentAt' = [sentAt EXCEPT ![c] = 0]
    /\ UNCHANGED <<now, tuples, claim, changes, asked, changed, clean>>

\* The check raises an OpenFGAError, or the request is cancelled: no verdict,
\* and nothing is cached.
CheckFails(c) ==
    /\ pc[c] = "checking"
    /\ Reset(c)
    /\ UNCHANGED <<now, tuples, claim, changes, entry, changed, clean>>

\* The request is over.
Return(c) ==
    /\ pc[c] = "done"
    /\ Reset(c)
    /\ UNCHANGED <<now, tuples, claim, changes, entry, changed, clean>>

(***************************************************************************)
(* invalidate, invalidate_user, clear                                      *)
(***************************************************************************)

\* Entries ks are dropped; that is lasting unless a check is in flight.
Drop(ks) ==
    /\ entry' = [k \in Keys |-> IF k \in ks THEN NoEntry ELSE entry[k]]
    /\ clean' = clean \cup {k \in ks : \A c \in Tasks : pc[c] = "checking" => asked[c] # k}
    /\ UNCHANGED <<now, tuples, claim, changes, pc, asked, sentAt, answer, verdict, changed>>

Invalidate(k) == Drop({k})

\* Mutant of InvalidateUser: entries are kept, only marked as denials.
InvalidateToDeny(u) ==
    /\ entry' = [k \in Keys |-> IF k[1] = u THEN [entry[k] EXCEPT !.value = FALSE] ELSE entry[k]]
    /\ clean' = clean \cup {k \in Keys : k[1] = u /\ \A c \in Tasks : pc[c] = "checking" => asked[c] # k}
    /\ UNCHANGED <<now, tuples, claim, changes, pc, asked, sentAt, answer, verdict, changed>>

InvalidateUser(u) == Drop({k \in Keys : k[1] = u})

Clear == Drop(Keys)

(***************************************************************************)
(* OpenFGA's administrators, and time.                                     *)
(***************************************************************************)

\* write_tuple or delete_tuple, from outside this process.
Administer(u, r) ==
    /\ changes < MaxChanges
    /\ changes' = changes + 1
    /\ Store(IF <<u, r>> \in tuples THEN tuples \ {<<u, r>>} ELSE tuples \cup {<<u, r>>})
    /\ UNCHANGED <<now, claim, entry, pc, asked, sentAt, answer, verdict>>

\* A second passes; a check does not outlive its timeouts.
Tick ==
    /\ now < MaxTime
    /\ \A c \in Tasks : pc[c] = "checking" => now < sentAt[c] + MaxLatency
    /\ now' = now + 1
    /\ UNCHANGED <<tuples, claim, changes, entry, pc, asked, sentAt, answer, verdict,
                   changed, clean>>

Next ==
    \/ \E c \in Tasks : \/ \E k \in Keys : Call(c, k)
                        \/ Provision(c) \/ Provisioned(c) \/ Decide(c)
                        \/ Answered(c) \/ CheckFails(c) \/ Return(c)
    \/ \E k \in Keys : Invalidate(k)
    \/ \E u \in Users : InvalidateUser(u) \/ \E r \in Roles : Administer(u, r)
    \/ Clear
    \/ Tick

Spec == Init /\ [][Next]_vars

-----------------------------------------------------------------------------
\* Every variable keeps to its kind of value, and no entry's life is longer
\* than the cache's TTL.
TypeOK ==
    /\ now \in Nat /\ changes \in Nat
    /\ tuples \subseteq Users \X Roles
    /\ claim \in [Users -> Roles \cup {NoRole}]
    /\ entry \in [Keys -> Entries]
    /\ \A k \in Keys : entry[k].expires <= now + TTL
    /\ pc \in [Tasks -> {"idle", "provisioning", "provisioned", "checking", "done"}]
    /\ asked \in [Tasks -> Keys]
    /\ sentAt \in [Tasks -> Nat]
    /\ answer \in [Tasks -> {"none", "allow", "deny"}]
    /\ verdict \in [Tasks -> BOOLEAN]
    /\ changed \in [Keys -> Nat]
    /\ clean \subseteq Keys

\* A cached decision that OpenFGA no longer makes runs out within TTL and the
\* latency of a check after the change: no fill revives it.
CacheHonest ==
    \A k \in Keys : Live(k) /\ entry[k].value # Allows(tuples, k)
                      => entry[k].expires <= changed[k] + MaxLatency + TTL

\* check_permission's verdict is OpenFGA's, or was until a moment ago; an
\* unreachable OpenFGA never makes one.
StaleOnlyBriefly ==
    [][\A c \in Tasks :
          pc[c] # "done" /\ pc'[c] = "done" /\ verdict'[c] # Allows(tuples, asked'[c])
            => now <= changed[asked'[c]] + MaxLatency + TTL]_vars

\* What invalidation is good for: done after a change and with no check of the
\* key in flight, it leaves the cache in line with OpenFGA until the next change.
InvalidationHolds ==
    \A k \in clean : Live(k) => entry[k].value = Allows(tuples, k)
=============================================================================
