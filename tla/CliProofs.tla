------------------------------ MODULE CliProofs ------------------------------
(***************************************************************************)
(* The command line's two components, which share the keyring but no       *)
(* definition: CliSession and CliProfiles.                                 *)
(*                                                                         *)
(* Sessions: a stored login survives any number of clients, requests,      *)
(* refreshes and logins.  The argument: a rotated token that is not in the *)
(* keyring yet is known to the one request that obtained it, and to its    *)
(* client once the callback runs, so nobody can rotate it away before it   *)
(* is saved; and the token it replaces was, until then, good.              *)
(*                                                                         *)
(* Profiles: what a process saves is one of four changes of a file that    *)
(* was sound when it was loaded, and each of them leaves a sound file;     *)
(* that the file has changed since can lose an update but no more.         *)
(***************************************************************************)
EXTENDS CliSession, CliProfiles, WellFoundedInduction, SequenceTheorems, TLAPS

(***************************************************************************)
(* CliSession                                                              *)
(***************************************************************************)
\* Tokens are grants that were given; those to come go with no refresh token.
Numbers ==
    /\ keyRefresh <= issued /\ granted <= issued
    /\ \A c \in Clients : refresh[c] <= issued
    /\ \A q \in Requests : posted[q] <= issued /\ answer[q] <= issued
    /\ \A g \in Grants : issued < g => partner[g] = None

\* A request has a client, and while the callback runs that client has the
\* new token already.
Running(q) ==
    /\ pc[q] # "idle" => by[q] \in up
    /\ pc[q] \notin {"refreshing", "saving"} => answer[q] = None
    /\ pc[q] = "saving" => Rotated(answer[q]) /\ refresh[by[q]] = answer[q]

\* The token that q's refresh replaces is used up, and by q's client.
Spent(q) ==
    Unsaved(q) => posted[q] \in Grants \ usable /\ spender[posted[q]] = by[q]

\* The token that q obtained is good and nobody else's.
Secret(q) ==
    Unsaved(q) =>
      /\ answer[q] \in usable /\ answer[q] # keyRefresh /\ answer[q] # granted
      /\ \A r \in Requests : posted[r] # answer[q] /\ (r # q => answer[r] # answer[q])
      /\ \A c \in Clients : refresh[c] = answer[q] => pc[q] = "saving" /\ by[q] = c

\* So is the one that login obtained and, in the end, saves.
LoginSecret ==
    /\ login = "saving" => Rotated(granted)
    /\ Rotated(granted) =>
         /\ granted \in usable /\ granted # keyRefresh
         /\ \A r \in Requests : posted[r] # granted /\ answer[r] # granted
         /\ \A c \in Clients : refresh[c] # granted

IInv ==
    /\ TypeOK /\ Numbers
    /\ \A q \in Requests : Running(q) /\ Spent(q) /\ Secret(q)
    /\ LoginSecret
    /\ LoginSurvives
    /\ MemoryIsCurrent

-----------------------------------------------------------------------------
\* The initial states satisfy the invariant.
LEMMA InitIInv == Init => IInv
<1> SUFFICES ASSUME Init PROVE IInv
  OBVIOUS
<1> USE LimitsAssumption DEF Init, None, Token, Grants
<1>1. TypeOK BY DEF TypeOK
<1>2. Numbers BY DEF Numbers
<1>3. \A q \in Requests : Running(q) /\ Spent(q) /\ Secret(q)
  BY DEF Running, Spent, Secret, Unsaved, Rotated
<1>4. LoginSecret BY DEF LoginSecret, Rotated
<1>5. LoginSurvives BY DEF LoginSurvives
<1>6. MemoryIsCurrent BY DEF MemoryIsCurrent
<1> QED BY <1>1, <1>2, <1>3, <1>4, <1>5, <1>6 DEF IInv

\* A client that starts reads the keyring, which has no token of a refresh or a
\* login under way, and none that the client itself has used up.
LEMMA StartStep == ASSUME IInv, NEW c \in Clients, Start(c) PROVE IInv'
<1> USE DEF Start, authVars, keyVars, loginVars, IInv
<1>1. TypeOK' BY DEF TypeOK
<1>2. Numbers' BY DEF Numbers, TypeOK
<1>3. ASSUME NEW q \in Requests PROVE Running(q)' /\ Spent(q)' /\ Secret(q)'
  <2>1. Unsaved(q)' <=> Unsaved(q) BY DEF Unsaved, Rotated
  <2>2. pc[q] # "idle" => by[q] # c BY DEF Running
  <2>3. Running(q)' BY <2>2 DEF Running, Rotated, TypeOK
  <2>4. Spent(q)' BY <2>1 DEF Spent
  <2>5. Secret(q)' BY <2>1 DEF Secret, TypeOK
  <2> QED BY <2>3, <2>4, <2>5
<1>4. LoginSecret' BY DEF LoginSecret, Rotated, TypeOK
<1>5. LoginSurvives' BY DEF LoginSurvives, Unsaved, Rotated
<1>6. MemoryIsCurrent'
  <2> SUFFICES ASSUME NEW d \in up'
               PROVE  \/ refresh'[d] \in usable \cup {None} \cup orphaned
                      \/ d # spender[refresh'[d]]
                      \/ \E q \in Requests :
                            by[q] = d /\ Unsaved(q) /\ posted[q] = refresh'[d]
    BY DEF MemoryIsCurrent, Unsaved, Rotated
  <2>1. CASE d = c
    <3>1. refresh'[d] = keyRefresh BY <2>1 DEF TypeOK
    <3>2. ASSUME NEW q \in Requests, Unsaved(q), posted[q] = keyRefresh
          PROVE  d # spender[keyRefresh]
      BY <2>1, <3>2 DEF Spent, Running, Unsaved
    <3> QED BY <3>1, <3>2 DEF LoginSurvives
  <2>2. CASE d # c BY <2>2 DEF MemoryIsCurrent, TypeOK
  <2> QED BY <2>1, <2>2
<1> QED BY <1>1, <1>2, <1>3, <1>4, <1>5, <1>6

\* Requests in Q end.  What their refreshes obtained is lost, unless they had
\* obtained nothing; some of their clients may be gone with them.
LEMMA OverStep ==
  ASSUME IInv, NEW Q \in SUBSET Requests, Over(Q),
         orphaned' = orphaned \cup Orphans(Q),
         up' \subseteq up, refresh' \in [Clients -> Token],
         \A c \in Clients : refresh'[c] = IF c \in up \ up' THEN None ELSE refresh[c],
         \A q \in Requests \ Q : by[q] \notin up \ up',
         UNCHANGED <<authVars, keyVars, loginVars>>
  PROVE  IInv'
<1> USE DEF authVars, keyVars, loginVars, IInv, Over, NoRefresh
<1>0. /\ \A q \in Q : /\ pc'[q] = "idle" /\ by'[q] = NoClient /\ posted'[q] = None
                      /\ answer'[q] = None /\ tries'[q] = 0
      /\ \A q \in Requests \ Q : /\ pc'[q] = pc[q] /\ by'[q] = by[q] /\ tries'[q] = tries[q]
                                 /\ posted'[q] = posted[q] /\ answer'[q] = answer[q]
  OBVIOUS
<1>1. TypeOK'
  <2>1. Orphans(Q) \subseteq Grants BY DEF Orphans, Spent
  <2>2. /\ pc' \in [Requests -> {"idle", "sent", "refused", "refreshing", "saving", "replayed"}]
        /\ by' \in [Requests -> Clients \cup {NoClient}]
        /\ posted' \in [Requests -> Token] /\ answer' \in [Requests -> Token]
        /\ tries' \in [Requests -> 0..MaxRetries]
    BY LimitsAssumption DEF TypeOK, Token
  <2> QED BY <2>1, <2>2 DEF TypeOK
<1>2. Numbers' BY <1>0 DEF Numbers, TypeOK, None
<1>3. ASSUME NEW q \in Requests PROVE Running(q)' /\ Spent(q)' /\ Secret(q)'
  <2>1. CASE q \in Q BY <1>0, <2>1 DEF Running, Spent, Secret, Unsaved
  <2>2. CASE q \notin Q
    <3>1. Unsaved(q)' <=> Unsaved(q) BY <1>0, <2>2 DEF Unsaved, Rotated
    <3>2. Running(q)' BY <1>0, <2>2 DEF Running, Rotated, TypeOK
    <3>3. Spent(q)' BY <1>0, <2>2, <3>1 DEF Spent
    <3>4. Secret(q)' BY <1>0, <2>2, <3>1 DEF Secret, Unsaved, Rotated
    <3> QED BY <3>2, <3>3, <3>4
  <2> QED BY <2>1, <2>2
<1>4. LoginSecret' BY <1>0 DEF LoginSecret, Rotated
<1>5. \A q \in Requests : Unsaved(q) =>
        \/ Unsaved(q)' /\ posted'[q] = posted[q] /\ by'[q] = by[q]
        \/ posted[q] \in orphaned'
  BY <1>0 DEF Orphans, Unsaved, Rotated
<1>6. LoginSurvives' BY <1>5 DEF LoginSurvives
<1>7. MemoryIsCurrent'
  <2> SUFFICES ASSUME NEW c \in up'
               PROVE  \/ refresh'[c] \in usable' \cup {None} \cup orphaned'
                      \/ c # spender'[refresh'[c]]
                      \/ \E q \in Requests :
                            by'[q] = c /\ Unsaved(q)' /\ posted'[q] = refresh'[c]
    BY DEF MemoryIsCurrent
  <2>1. c \in up /\ refresh'[c] = refresh[c] BY DEF TypeOK
  <2> QED BY <1>5, <2>1 DEF MemoryIsCurrent
<1> QED BY <1>1, <1>2, <1>3, <1>4, <1>6, <1>7

\* A process that ends takes its requests with it.
LEMMA ExitStep == ASSUME IInv, NEW c \in Clients, Exit(c) PROVE IInv'
<1> DEFINE Q == {q \in Requests : by[q] = c}
<1>1. /\ Over(Q) /\ orphaned' = orphaned \cup Orphans(Q)
      /\ up' = up \ {c} /\ c \in up
      /\ refresh' = [refresh EXCEPT ![c] = None]
      /\ UNCHANGED <<authVars, keyVars, loginVars>>
  BY DEF Exit
<1>2. /\ refresh' \in [Clients -> Token]
      /\ \A d \in Clients : refresh'[d] = IF d \in up \ up' THEN None ELSE refresh[d]
  BY <1>1 DEF IInv, TypeOK, Token
<1>3. \A q \in Requests \ Q : by[q] \notin up \ up' BY <1>1
<1> HIDE DEF Q
<1>4. Q \in SUBSET Requests BY DEF Q
<1> QED BY <1>1, <1>2, <1>3, <1>4, OverStep

\* Requests that end without a token on its way leave nothing behind.
LEMMA EndStep ==
  ASSUME IInv, NEW q \in Requests, Over({q}),
         orphaned' = orphaned \cup Orphans({q}),
         UNCHANGED <<authVars, keyVars, up, refresh, loginVars>>
  PROVE  IInv'
<1>1. refresh' \in [Clients -> Token] BY DEF IInv, TypeOK
<1> QED BY <1>1, OverStep

\* A request that has obtained no new token orphans none.
LEMMA NoOrphan == ASSUME NEW q \in Requests, ~Unsaved(q) PROVE Orphans({q}) = {}
  BY DEF Orphans

\* A request that is sent, or refused, has no refresh under way.
LEMMA SendSteps ==
  ASSUME IInv, NEW q \in Requests, NEW c \in Clients, Call(q, c) \/ Answered(q) PROVE IInv'
<1>1. CASE Call(q, c) \/ (Answered(q) /\ pc' = [pc EXCEPT ![q] = "refused"] /\ by' = by
                          /\ UNCHANGED <<posted, answer, tries, orphaned>>)
  <2> USE <1>1 DEF Call, Answered, Free, authVars, keyVars, loginVars, IInv
  <2>1. TypeOK' BY DEF TypeOK
  <2>2. Numbers' BY DEF Numbers
  <2>3. /\ \A r \in Requests \ {q} : pc'[r] = pc[r] /\ by'[r] = by[r]
        /\ pc[q] \in {"idle", "sent"} /\ pc'[q] \in {"sent", "refused"} /\ by'[q] \in up
    BY DEF TypeOK
  <2>4. ASSUME NEW r \in Requests PROVE Running(r)' /\ Spent(r)' /\ Secret(r)'
    <3>1. CASE r = q BY <2>3, <3>1 DEF Running, Spent, Secret, Unsaved
    <3>2. CASE r # q
      BY <2>3, <3>2 DEF Running, Spent, Secret, Unsaved, Rotated
    <3> QED BY <3>1, <3>2
  <2>5. LoginSecret' BY DEF LoginSecret, Rotated
  <2>6. \A r \in Requests : Unsaved(r) => Unsaved(r)' /\ by'[r] = by[r]
    BY <2>3 DEF Unsaved, Rotated
  <2>7. LoginSurvives' BY <2>6 DEF LoginSurvives
  <2>8. MemoryIsCurrent' BY <2>6 DEF MemoryIsCurrent
  <2> QED BY <2>1, <2>2, <2>4, <2>5, <2>7, <2>8
<1>2. CASE Answered(q) /\ Over({q})
  <2>1. ~Unsaved(q) BY <1>2 DEF Answered, Unsaved
  <2>2. orphaned' = orphaned \cup Orphans({q}) BY <1>2, <2>1, NoOrphan DEF Answered
  <2> QED BY <1>2, <2>2, EndStep DEF Answered
<1> QED BY <1>1, <1>2 DEF Answered

\* Posting a refresh token: the client knows no token that another request, or
\* login, has not saved yet.
LEMMA PostStep == ASSUME IInv, NEW q \in Requests, PostRefresh(q) PROVE IInv'
<1> USE DEF PostRefresh, Free, authVars, keyVars, loginVars, IInv
<1>1. TypeOK' BY DEF TypeOK
<1>2. /\ \A r \in Requests \ {q} : pc'[r] = pc[r] /\ posted'[r] = posted[r]
      /\ pc'[q] = "refreshing" /\ posted'[q] = refresh[by[q]]
      /\ by[q] \in up /\ by[q] \in Clients /\ answer[q] = None
  BY DEF TypeOK, Running
<1>3. Numbers' BY <1>2 DEF Numbers
<1>4. ASSUME NEW r \in Requests PROVE Running(r)' /\ Spent(r)' /\ Secret(r)'
  <2>1. CASE r = q BY <1>2, <2>1 DEF Running, Spent, Secret, Unsaved, Rotated
  <2>2. CASE r # q
    <3>1. Unsaved(r)' <=> Unsaved(r) BY <1>2, <2>2 DEF Unsaved, Rotated
    <3>2. Running(r)' /\ Spent(r)' BY <1>2, <2>2, <3>1 DEF Running, Spent, Rotated
    <3>3. Unsaved(r) => refresh[by[q]] # answer[r] BY <1>2 DEF Secret
    <3>4. Secret(r)' BY <1>2, <2>2, <3>1, <3>3 DEF Secret
    <3> QED BY <3>2, <3>4
  <2> QED BY <2>1, <2>2
<1>5. LoginSecret' BY <1>2 DEF LoginSecret, Rotated
<1>6. \A r \in Requests : Unsaved(r) => Unsaved(r)' /\ posted'[r] = posted[r]
  BY <1>2 DEF Unsaved, Rotated
<1>7. LoginSurvives' BY <1>6 DEF LoginSurvives
<1>8. MemoryIsCurrent' BY <1>6 DEF MemoryIsCurrent
<1> QED BY <1>1, <1>3, <1>4, <1>5, <1>7, <1>8

\* The steps of login before it gets its tokens, and its ends.
LEMMA LoginQuiet ==
  ASSUME IInv, TypeOK', granted' \in {granted, None},
         login' = "saving" => granted' = granted /\ Rotated(granted),
         UNCHANGED <<authVars, clientVars, orphaned>>,
         keyRefresh' = keyRefresh \/ (Rotated(granted) /\ keyRefresh' = granted /\ granted' = None)
  PROVE  IInv'
<1> USE DEF authVars, clientVars, IInv
<1>1. Numbers' BY DEF Numbers, TypeOK, None
<1>2. ASSUME NEW q \in Requests PROVE Running(q)' /\ Spent(q)' /\ Secret(q)'
  <2>1. Unsaved(q)' <=> Unsaved(q) BY DEF Unsaved, Rotated
  <2>2. Unsaved(q) => answer[q] # None BY DEF Unsaved, Rotated
  <2>3. Running(q)' /\ Spent(q)' BY <2>1 DEF Running, Spent, Rotated
  <2>4. Secret(q)' BY <2>1, <2>2 DEF Secret, LoginSecret
  <2> QED BY <2>3, <2>4
<1>3. LoginSecret' BY DEF LoginSecret, Rotated
<1>4. \A q \in Requests : Unsaved(q)' <=> Unsaved(q) BY DEF Unsaved, Rotated
<1>5. LoginSurvives' BY <1>4 DEF LoginSurvives, LoginSecret
<1>6. MemoryIsCurrent' BY <1>4 DEF MemoryIsCurrent
<1> QED BY <1>1, <1>2, <1>3, <1>5, <1>6

\* The auth server's grants are new to everybody.  A rotation makes the request
\* that asked for it the one that knows the new token.
LEMMA GrantStep == ASSUME IInv, NEW q \in Requests, AuthRefreshes(q) PROVE IInv'
<1> USE DEF AuthRefreshes, keyVars, loginVars, IInv
<1> DEFINE g == issued + 1
           rotates == usable' = (usable \ {posted[q]}) \cup {g}
                      /\ partner' = [partner EXCEPT ![g] = g]
                      /\ spender' = [spender EXCEPT ![posted[q]] = by[q]]
           keeps == partner' = [partner EXCEPT ![g] = posted[q]]
                    /\ UNCHANGED <<usable, spender>>
<1>1. /\ issued' = g /\ g \in Grants /\ issued \in Nat /\ (rotates \/ keeps)
      /\ answer' = [answer EXCEPT ![q] = g]
      /\ posted[q] \in usable /\ posted[q] \in Grants /\ posted[q] # g /\ g \notin usable
      /\ by[q] \in up /\ by[q] \in Clients /\ answer[q] = None /\ ~Unsaved(q)
  <2>1. issued \in Nat /\ MaxGrants \in Nat /\ issued < MaxGrants /\ usable \subseteq 1..issued
    BY LimitsAssumption DEF TypeOK
  <2>2. issued' = g /\ g \in Grants BY <2>1 DEF Grants
  <2>3. answer' = [answer EXCEPT ![q] = g] /\ (rotates \/ keeps)
    BY <2>2
  <2>4. posted[q] \in usable /\ posted[q] \in Grants /\ posted[q] # g /\ g \notin usable
    <3>1. \A h \in 1..issued : h \in Grants /\ h # g
      BY ONLY <2>1 DEF Grants, g
    <3>2. posted[q] \in usable OBVIOUS
    <3> QED BY ONLY <2>1, <3>1, <3>2
  <2>5. by[q] \in up /\ by[q] \in Clients BY DEF Running, TypeOK
  <2>6. answer[q] = None /\ ~Unsaved(q) BY DEF Unsaved, Rotated
  <2> QED BY <2>1, <2>2, <2>3, <2>4, <2>5, <2>6
<1> HIDE DEF g
<1>2. TypeOK'
  <2>1. usable' \subseteq 1..issued'
    <3>1. usable \subseteq 1..issued /\ issued' = issued + 1 BY <1>1 DEF TypeOK, g
    <3>2. usable' \subseteq usable \cup {issued + 1} BY <1>1 DEF rotates, keeps, g
    <3> QED BY <1>1, <3>1, <3>2
  <2>2. /\ partner' \in [Grants -> Token]
        /\ spender' \in [Grants -> Clients \cup {NoClient}]
        /\ answer' \in [Requests -> Token]
    BY <1>1 DEF rotates, keeps, TypeOK, Token
  <2>3. issued' \in 0..MaxGrants BY <1>1 DEF Grants, g
  <2> QED BY <2>1, <2>2, <2>3 DEF TypeOK
<1>3. /\ \A r \in Requests \ {q} : answer'[r] = answer[r]
      /\ answer'[q] = g
      /\ \A h \in Grants \ {g} : partner'[h] = partner[h]
      /\ \A h \in Grants \ {posted[q]} : spender'[h] = spender[h]
      /\ \A h \in usable : h = posted[q] \/ h \in usable'
      /\ \A h \in usable' : h = g \/ h \in usable
  BY <1>1 DEF rotates, keeps, TypeOK
<1>4. /\ keyRefresh # g /\ granted # g /\ \A c \in Clients : refresh[c] # g
      /\ \A r \in Requests : posted[r] # g /\ answer[r] # g
  BY <1>1 DEF Numbers, TypeOK, Token, None, Grants, g
<1>5. Numbers'
  <2>1. keyRefresh' <= g /\ granted' <= g /\ \A c \in Clients : refresh'[c] <= g
    BY <1>1 DEF Numbers, TypeOK, Token, None, Grants, g
  <2>2. \A r \in Requests : posted'[r] <= g /\ answer'[r] <= g
    <3>1. \A r \in Requests : posted[r] \in Int /\ answer[r] \in Int
      BY DEF TypeOK, Token, None, Grants
    <3> QED BY <1>1, <1>3, <3>1 DEF Numbers, g
  <2>3. \A h \in Grants : g < h => partner'[h] = None
    BY <1>1, <1>3 DEF Numbers, Grants, g
  <2> QED BY <1>1, <2>1, <2>2, <2>3 DEF Numbers
<1>6. \A h \in Token \ {g} : Rotated(h)' <=> Rotated(h)
  BY <1>3 DEF Rotated, Token
<1>7. \A r \in Requests \ {q} : Unsaved(r)' <=> Unsaved(r)
  BY <1>3, <1>4, <1>6 DEF Unsaved, TypeOK
<1>8. Unsaved(q)' => rotates
  BY <1>1, <1>3 DEF Unsaved, Rotated, rotates, keeps, TypeOK
<1>9. ASSUME NEW r \in Requests PROVE Running(r)' /\ Spent(r)' /\ Secret(r)'
  <2>1. CASE r = q
    <3>1. Running(r)' BY <1>3, <2>1 DEF Running
    <3>2. Spent(r)' BY <1>1, <1>8, <2>1 DEF Spent, rotates, TypeOK
    <3>3. Secret(r)' BY <1>1, <1>3, <1>4, <1>8, <2>1 DEF Secret, rotates
    <3> QED BY <3>1, <3>2, <3>3
  <2>2. CASE r # q
    <3>1. Running(r)' BY <1>3, <1>4, <1>6, <2>2 DEF Running, TypeOK
    <3>2. Spent(r)' BY <1>1, <1>3, <1>4, <1>7, <2>2 DEF Spent
    <3>3. Secret(r)' BY <1>1, <1>3, <1>4, <1>7, <2>2 DEF Secret
    <3> QED BY <3>1, <3>2, <3>3
  <2> QED BY <2>1, <2>2
<1>10. LoginSecret'
  <2>1. Rotated(granted)' <=> Rotated(granted) BY <1>4, <1>6 DEF TypeOK, Rotated
  <2> QED BY <1>1, <1>3, <1>4, <2>1 DEF LoginSecret
<1>11. rotates => Unsaved(q)' BY <1>1, <1>3 DEF Unsaved, Rotated, rotates, TypeOK, Grants, None
<1>12. ASSUME NEW h, h \in usable PROVE h \in usable' \/ (Unsaved(q)' /\ posted'[q] = h)
  BY <1>1, <1>3, <1>11, <1>12 DEF keeps
<1>13. LoginSurvives' BY <1>1, <1>7, <1>12 DEF LoginSurvives
<1>14. MemoryIsCurrent'
  <2> SUFFICES ASSUME NEW c \in up
               PROVE  \/ refresh[c] \in usable' \cup {None} \cup orphaned
                      \/ c # spender'[refresh[c]]
                      \/ \E r \in Requests :
                            by[r] = c /\ Unsaved(r)' /\ posted[r] = refresh[c]
    BY DEF MemoryIsCurrent
  <2>1. c \in Clients /\ refresh[c] \in Grants \cup {None} BY DEF TypeOK, Token
  <2>2. CASE refresh[c] = posted[q]
    <3>1. CASE keeps BY <1>1, <2>2, <3>1 DEF keeps
    <3>2. CASE rotates
      <4>1. spender'[posted[q]] = by[q] BY <1>1, <3>2 DEF rotates, TypeOK
      <4> QED BY <1>11, <2>2, <3>2, <4>1
    <3> QED BY <1>1, <3>1, <3>2
  <2>3. CASE refresh[c] # posted[q]
    BY <1>1, <1>3, <1>7, <2>1, <2>3 DEF MemoryIsCurrent
  <2> QED BY <2>2, <2>3
<1> QED BY <1>2, <1>5, <1>9, <1>10, <1>13, <1>14

\* The callback has seen to q's grant: it had no new refresh token, or that was
\* lost, or it is in the keyring now.
LEMMA ReplayStep ==
  ASSUME IInv, NEW q \in Requests, pc[q] \in {"refreshing", "saving"}, Replay(q),
         keyAccess' \in Token, UNCHANGED <<authVars, up, refresh, loginVars>>,
         \/ orphaned' = orphaned \cup Orphans({q}) /\ keyRefresh' = keyRefresh
         \/ /\ orphaned' = orphaned /\ keyRefresh' = answer[q]
            /\ pc[q] = "saving" /\ Rotated(answer[q])
  PROVE  IInv'
<1> USE DEF authVars, loginVars, IInv, Replay, NoRefresh
<1>0. /\ pc'[q] = "replayed" /\ by' = by /\ posted'[q] = None /\ answer'[q] = None
      /\ by[q] \in up
      /\ \A r \in Requests \ {q} : /\ pc'[r] = pc[r] /\ posted'[r] = posted[r]
                                   /\ answer'[r] = answer[r]
  BY DEF TypeOK, Running
<1>1. Orphans({q}) \subseteq Grants BY DEF Orphans, Spent
<1>2. TypeOK'
  <2>1. /\ pc' \in [Requests -> {"idle", "sent", "refused", "refreshing", "saving", "replayed"}]
        /\ posted' \in [Requests -> Token] /\ answer' \in [Requests -> Token]
        /\ tries' \in [Requests -> 0..MaxRetries]
    BY LimitsAssumption DEF TypeOK, Token
  <2>2. keyRefresh' \in Token BY DEF TypeOK
  <2>3. orphaned' \subseteq Grants BY <1>1 DEF TypeOK
  <2> QED BY <2>1, <2>2, <2>3 DEF TypeOK
<1>3. Numbers' BY <1>0 DEF Numbers, TypeOK, None
<1>4. \A r \in Requests \ {q} : Unsaved(r)' <=> Unsaved(r)
  BY <1>0 DEF Unsaved, Rotated
<1>5. ASSUME NEW r \in Requests PROVE Running(r)' /\ Spent(r)' /\ Secret(r)'
  <2>1. CASE r = q BY <1>0, <2>1 DEF Running, Spent, Secret, Unsaved
  <2>2. CASE r # q
    <3>1. Running(r)' /\ Spent(r)' BY <1>0, <1>4, <2>2 DEF Running, Spent, Rotated
    <3>2. Unsaved(r) => answer[r] # None BY DEF Unsaved, Rotated
    <3>3. Secret(r)' BY <1>0, <1>4, <2>2, <3>2 DEF Secret
    <3> QED BY <3>1, <3>3
  <2> QED BY <2>1, <2>2
<1>6. LoginSecret' BY <1>0 DEF LoginSecret, Rotated
<1>7. Unsaved(q) => posted[q] \in orphaned' \/ (pc[q] = "saving" /\ keyRefresh' = answer[q])
  BY DEF Orphans
<1>8. LoginSurvives'
  <2>1. CASE keyRefresh' = answer[q] /\ pc[q] = "saving" /\ Rotated(answer[q])
    BY <2>1 DEF LoginSurvives, Secret, Unsaved
  <2>2. CASE orphaned' = orphaned \cup Orphans({q}) /\ keyRefresh' = keyRefresh
    <3>1. Unsaved(q) => posted[q] \in orphaned' BY <2>2 DEF Orphans
    <3> QED BY <1>0, <1>4, <2>2, <3>1 DEF LoginSurvives
  <2> QED BY <2>1, <2>2
<1>9. MemoryIsCurrent'
  <2> SUFFICES ASSUME NEW c \in up
               PROVE  \/ refresh[c] \in usable \cup {None} \cup orphaned'
                      \/ c # spender[refresh[c]]
                      \/ \E r \in Requests :
                            by[r] = c /\ Unsaved(r)' /\ posted'[r] = refresh[c]
    BY <1>0 DEF MemoryIsCurrent
  <2>1. CASE by[q] = c /\ Unsaved(q) /\ posted[q] = refresh[c]
    <3>1. pc[q] = "saving" => refresh[c] \in usable BY <2>1 DEF Running, Secret
    <3> QED BY <1>7, <2>1, <3>1
  <2>2. CASE ~(by[q] = c /\ Unsaved(q) /\ posted[q] = refresh[c])
    BY <1>0, <1>4, <2>2 DEF MemoryIsCurrent
  <2> QED BY <2>1, <2>2
<1> QED BY <1>2, <1>3, <1>5, <1>6, <1>8, <1>9

\* _apply_grant: the client takes over the new token, which only its own request
\* knew; from here on the client does nothing else until the token is saved.
LEMMA ApplyStep == ASSUME IInv, NEW q \in Requests, Applied(q) PROVE IInv'
<1>1. CASE ~Rotated(answer[q])
  <2>1. Orphans({q}) = {} BY <1>1, NoOrphan DEF Unsaved
  <2>2. keyAccess' \in Token BY DEF Applied, IInv, TypeOK
  <2>3. /\ pc[q] = "refreshing" /\ Replay(q) /\ orphaned' = orphaned /\ keyRefresh' = keyRefresh
        /\ UNCHANGED <<authVars, up, refresh, loginVars>>
    BY <1>1 DEF Applied, Replay, NoRefresh
  <2> QED BY <2>1, <2>2, <2>3, ReplayStep
<1>2. CASE Rotated(answer[q])
  <2> USE <1>2 DEF Applied, Free, authVars, loginVars, IInv
  <2> DEFINE c == by[q]
  <2>0. /\ pc[q] = "refreshing" /\ c \in up /\ c \in Clients /\ Unsaved(q)
        /\ \A r \in Requests : by[r] = c => pc[r] # "saving"
        /\ pc'[q] = "saving" /\ \A r \in Requests \ {q} : pc'[r] = pc[r]
        /\ refresh'[c] = answer[q] /\ \A d \in Clients \ {c} : refresh'[d] = refresh[d]
        /\ UNCHANGED <<by, posted, answer, tries>>
    BY DEF TypeOK, Unsaved
  <2> HIDE DEF c
  <2>1. TypeOK' BY <2>0 DEF TypeOK, c
  <2>2. Numbers'
    <3>1. \A d \in Clients : refresh'[d] <= issued BY <2>0 DEF Numbers
    <3> QED BY <2>0, <3>1 DEF Numbers
  <2>3. \A r \in Requests : Unsaved(r)' <=> Unsaved(r) BY <2>0 DEF Unsaved, Rotated
  <2>4. ASSUME NEW r \in Requests PROVE Running(r)' /\ Spent(r)' /\ Secret(r)'
    <3>1. Running(r)'
      <4>1. CASE r = q BY <2>0, <4>1 DEF Running, Rotated, c
      <4>2. CASE r # q
        <5>1. pc[r] = "saving" => by[r] # c /\ by[r] \in Clients
          BY <2>0 DEF Running, TypeOK
        <5> QED BY <2>0, <4>2, <5>1 DEF Running, Rotated
      <4> QED BY <4>1, <4>2
    <3>2. Spent(r)' BY <2>0, <2>3 DEF Spent
    <3>3. Secret(r)'
      <4>1. CASE r = q
        <5>1. \A d \in Clients : refresh'[d] = answer[q] => d = c
          BY <2>0 DEF Secret
        <5> QED BY <2>0, <2>3, <4>1, <5>1 DEF Secret, c
      <4>2. CASE r # q
        <5>1. Unsaved(r) => \A d \in Clients : refresh'[d] = answer[r] => refresh[d] = answer[r]
          BY <2>0, <4>2 DEF Secret
        <5> QED BY <2>0, <2>3, <4>2, <5>1 DEF Secret
      <4> QED BY <4>1, <4>2
    <3> QED BY <3>1, <3>2, <3>3
  <2>5. LoginSecret'
    <3>1. Rotated(granted) => \A d \in Clients : refresh'[d] # granted
      BY <2>0 DEF LoginSecret
    <3> QED BY <2>0, <3>1 DEF LoginSecret, Rotated
  <2>6. LoginSurvives' BY <2>0, <2>3 DEF LoginSurvives
  <2>7. MemoryIsCurrent'
    <3> SUFFICES ASSUME NEW d \in up
                 PROVE  \/ refresh'[d] \in usable \cup {None} \cup orphaned
                        \/ d # spender[refresh'[d]]
                        \/ \E r \in Requests :
                              by[r] = d /\ Unsaved(r)' /\ posted[r] = refresh'[d]
      BY <2>0 DEF MemoryIsCurrent
    <3>1. CASE d = c BY <2>0, <3>1 DEF Secret
    <3>2. CASE d # c BY <2>0, <2>3, <3>2 DEF MemoryIsCurrent, TypeOK
    <3> QED BY <3>1, <3>2
  <2> QED BY <2>1, <2>2, <2>4, <2>5, <2>6, <2>7
<1> QED BY <1>1, <1>2

\* set_refresh_token, taken or refused.
LEMMA SaveStep == ASSUME IInv, NEW q \in Requests, Saved(q) PROVE IInv'
<1>1. pc[q] = "saving" /\ Replay(q) /\ UNCHANGED <<authVars, keyAccess, up, refresh, loginVars>>
  BY DEF Saved
<1>2. Rotated(answer[q]) BY <1>1 DEF IInv, Running
<1>3. keyAccess' \in Token BY <1>1 DEF IInv, TypeOK
<1> QED BY <1>1, <1>2, <1>3, ReplayStep DEF Saved

\* A lost answer: the new token is gone, the old one rotated away.
LEMMA FailStep == ASSUME IInv, NEW q \in Requests, AttemptFails(q) PROVE IInv'
<1>1. CASE tries[q] < MaxRetries
  <2> USE <1>1 DEF AttemptFails, authVars, keyVars, loginVars, IInv
  <2>0. /\ answer'[q] = None /\ \A r \in Requests \ {q} : answer'[r] = answer[r]
        /\ pc[q] = "refreshing" /\ orphaned' = orphaned \cup Orphans({q})
        /\ UNCHANGED <<pc, by, posted>>
    BY DEF TypeOK
  <2>1. TypeOK'
    <3>1. Orphans({q}) \subseteq Grants BY DEF Orphans, Spent
    <3>2. answer' \in [Requests -> Token] BY DEF TypeOK, Token
    <3>3. tries' \in [Requests -> 0..MaxRetries] BY LimitsAssumption DEF TypeOK
    <3> QED BY <2>0, <3>1, <3>2, <3>3 DEF TypeOK
  <2>2. Numbers' BY <2>0 DEF Numbers, TypeOK, None
  <2>3. ~Unsaved(q)' /\ \A r \in Requests \ {q} : Unsaved(r)' <=> Unsaved(r)
    BY <2>0 DEF Unsaved, Rotated
  <2>4. ASSUME NEW r \in Requests PROVE Running(r)' /\ Spent(r)' /\ Secret(r)'
    <3>1. CASE r = q BY <2>0, <2>3, <3>1 DEF Running, Spent, Secret
    <3>2. CASE r # q
      <4>1. Running(r)' /\ Spent(r)' BY <2>0, <2>3, <3>2 DEF Running, Spent, Rotated
      <4>2. Unsaved(r) => answer[r] # None BY DEF Unsaved, Rotated
      <4>3. Secret(r)' BY <2>0, <2>3, <3>2, <4>2 DEF Secret
      <4> QED BY <4>1, <4>3
    <3> QED BY <3>1, <3>2
  <2>5. LoginSecret' BY <2>0 DEF LoginSecret, Rotated
  <2>6. Unsaved(q) => posted[q] \in orphaned' BY <2>0 DEF Orphans
  <2>7. LoginSurvives' BY <2>0, <2>3, <2>6 DEF LoginSurvives
  <2>8. MemoryIsCurrent' BY <2>0, <2>3, <2>6 DEF MemoryIsCurrent
  <2> QED BY <2>1, <2>2, <2>4, <2>5, <2>7, <2>8
<1>2. CASE ~(tries[q] < MaxRetries)
  <2>1. Over({q}) /\ orphaned' = orphaned \cup Orphans({q})
        /\ UNCHANGED <<authVars, keyVars, up, refresh, loginVars>>
    BY <1>2 DEF AttemptFails
  <2> QED BY <2>1, EndStep
<1> QED BY <1>1, <1>2

\* A call that ends with no new token on its way.
LEMMA EndSteps ==
  ASSUME IInv, NEW q \in Requests, RefreshRefused(q) \/ Replayed(q) PROVE IInv'
<1>1. Over({q}) /\ orphaned' = orphaned /\ ~Unsaved(q)
      /\ UNCHANGED <<authVars, keyVars, up, refresh, loginVars>>
  BY DEF RefreshRefused, Replayed, Unsaved, Rotated
<1> QED BY <1>1, NoOrphan, EndStep

\* The steps of login keep the types.
LEMMA LoginTypes == ASSUME TypeOK, Login PROVE TypeOK'
<1> USE DEF LoginLeaves, keyVars, clientVars, TypeOK, Token, None
<1>1. CASE LoginBegins BY <1>1 DEF LoginBegins, authVars
<1>2. CASE Callback BY <1>2 DEF Callback, authVars
<1>3. CASE AuthLogsIn
  <2> USE <1>3 DEF AuthLogsIn
  <2>1. /\ issued \in Nat /\ issued' = issued + 1 /\ issued' \in Grants /\ issued' \in 0..MaxGrants
        /\ granted' = issued' /\ usable \subseteq 1..issued
    BY LimitsAssumption DEF Grants
  <2>2. usable' \subseteq 1..issued'
    <3>1. usable' \subseteq usable \cup {issued'} OBVIOUS
    <3> HIDE DEF AuthLogsIn
    <3> QED BY ONLY <2>1, <3>1
  <2>3. partner' \in [Grants -> Token] /\ granted' \in Token BY <2>1
  <2> QED BY <2>1, <2>2, <2>3
<1>4. CASE ExchangeRefused BY <1>4 DEF ExchangeRefused, authVars
<1>5. CASE ExchangeFails BY <1>5 DEF ExchangeFails, authVars
<1>6. CASE LoginSavesAccess BY <1>6 DEF LoginSavesAccess, authVars
<1>7. CASE LoginSavesRefresh BY <1>7 DEF LoginSavesRefresh, authVars
<1>8. CASE LoginDies BY <1>8 DEF LoginDies, authVars
<1> QED BY <1>1, <1>2, <1>3, <1>4, <1>5, <1>6, <1>7, <1>8 DEF Login

\* login's grant is new to everybody.
LEMMA LoginGrantStep == ASSUME IInv, AuthLogsIn PROVE IInv'
<1> USE DEF AuthLogsIn, keyVars, clientVars, IInv
<1> DEFINE g == issued + 1
           renewable == usable' = usable \cup {g} /\ partner' = [partner EXCEPT ![g] = g]
<1>1. /\ issued' = g /\ g \in Grants /\ issued \in Nat /\ granted' = g
      /\ renewable \/ UNCHANGED <<usable, partner>>
  <2>1. issued \in Nat /\ MaxGrants \in Nat /\ issued < MaxGrants
    BY LimitsAssumption DEF TypeOK
  <2> QED BY <2>1 DEF Grants
<1> HIDE DEF g
<1>2. TypeOK' BY LoginTypes DEF Login
<1>3. /\ \A h \in Grants \ {g} : partner'[h] = partner[h]
      /\ usable \subseteq usable'
  BY <1>1 DEF renewable, TypeOK
<1>4. /\ keyRefresh # g /\ \A c \in Clients : refresh[c] # g
      /\ \A r \in Requests : /\ posted[r] # g /\ answer[r] # g
                            /\ posted[r] \in Int /\ answer[r] \in Int
  BY <1>1 DEF Numbers, TypeOK, Token, None, Grants, g
<1>5. Numbers'
  <2>1. keyRefresh' <= g /\ granted' <= g /\ \A c \in Clients : refresh'[c] <= g
    BY <1>1 DEF Numbers, TypeOK, Token, None, Grants, g
  <2>2. \A r \in Requests : posted'[r] <= g /\ answer'[r] <= g
    BY <1>1, <1>4 DEF Numbers, g
  <2>3. \A h \in Grants : g < h => partner'[h] = None
    BY <1>1, <1>3 DEF Numbers, Grants, g
  <2> QED BY <1>1, <2>1, <2>2, <2>3 DEF Numbers
<1>6. \A r \in Requests : Unsaved(r)' <=> Unsaved(r)
  BY <1>3, <1>4 DEF Unsaved, Rotated, TypeOK, Token
<1>7. \A r \in Requests : posted[r] \in usable' => posted[r] \in usable
  BY <1>1, <1>4 DEF renewable
<1>8. ASSUME NEW r \in Requests PROVE Running(r)' /\ Spent(r)' /\ Secret(r)'
  <2>1. Running(r)' BY <1>3, <1>4 DEF Running, Rotated, TypeOK, Token
  <2>2. Spent(r)' BY <1>6, <1>7 DEF Spent
  <2>3. Secret(r)' BY <1>1, <1>3, <1>4, <1>6 DEF Secret
  <2> QED BY <2>1, <2>2, <2>3
<1>9. LoginSecret'
  <2>1. Rotated(granted)' => g \in usable'
    <3>1. CASE renewable BY <3>1 DEF renewable
    <3>2. CASE UNCHANGED partner
      <4>1. partner[g] = None BY <1>1 DEF Numbers, g
      <4> QED BY <1>1, <3>2, <4>1 DEF Rotated
    <3> QED BY <1>1, <3>1, <3>2
  <2> QED BY <1>1, <1>4, <2>1 DEF LoginSecret
<1>10. LoginSurvives' BY <1>3, <1>6 DEF LoginSurvives
<1>11. MemoryIsCurrent' BY <1>3, <1>6 DEF MemoryIsCurrent
<1> QED BY <1>2, <1>5, <1>8, <1>9, <1>10, <1>11

\* The steps of login preserve the invariant.
LEMMA LoginSteps == ASSUME IInv, Login PROVE IInv'
<1> USE DEF LoginLeaves, keyVars
<1>0. TypeOK' BY LoginTypes DEF IInv
<1>1. CASE LoginBegins \/ ExchangeRefused \/ LoginDies
  BY <1>0, <1>1, LoginQuiet DEF LoginBegins, ExchangeRefused, LoginDies
<1>2. CASE Callback BY <1>0, <1>2, LoginQuiet DEF Callback
<1>3. CASE AuthLogsIn BY <1>3, LoginGrantStep
<1>4. CASE ExchangeFails BY <1>0, <1>4, LoginQuiet DEF ExchangeFails
<1>5. CASE LoginSavesAccess BY <1>0, <1>5, LoginQuiet DEF LoginSavesAccess
<1>6. CASE LoginSavesRefresh
  <2>1. Rotated(granted) BY <1>6 DEF LoginSavesRefresh, IInv, LoginSecret
  <2> QED BY <1>0, <1>6, <2>1, LoginQuiet DEF LoginSavesRefresh
<1> QED BY <1>1, <1>2, <1>3, <1>4, <1>5, <1>6 DEF Login

\* Every step preserves the invariant.
LEMMA NextIInv == IInv /\ [Next]_vars => IInv'
<1> SUFFICES ASSUME IInv, [Next]_vars PROVE IInv'
  OBVIOUS
<1>1. ASSUME NEW c \in Clients, Start(c) \/ Exit(c) PROVE IInv'
  BY <1>1, StartStep, ExitStep
<1>2. ASSUME NEW q \in Requests, NEW c \in Clients, Call(q, c) PROVE IInv'
  BY <1>2, SendSteps
<1>3. ASSUME NEW q \in Requests, Answered(q) PROVE IInv'
  <2>1. by[q] \in Clients BY <1>3 DEF Answered, Free, IInv, TypeOK
  <2> QED BY <1>3, <2>1, SendSteps
<1>4. ASSUME NEW q \in Requests, AuthRefreshes(q) PROVE IInv' BY <1>4, GrantStep
<1>5. ASSUME NEW q \in Requests, Refresh(q) \/ Replayed(q) PROVE IInv'
  BY <1>5, PostStep, ApplyStep, SaveStep, FailStep, EndSteps DEF Refresh
<1>6. CASE Login BY <1>6, LoginSteps
<1>7. CASE UNCHANGED vars
  BY <1>7 DEF vars, authVars, keyVars, clientVars, loginVars, IInv, TypeOK, Numbers, Running,
              Spent, Secret, LoginSecret, LoginSurvives, MemoryIsCurrent, Unsaved, Rotated
<1> QED BY <1>1, <1>2, <1>3, <1>4, <1>5, <1>6, <1>7 DEF Next

-----------------------------------------------------------------------------
\* The invariant holds in every reachable state.
THEOREM Invariance == Spec => []IInv
  BY InitIInv, NextIInv, PTL DEF Spec

\* Every reachable state is well typed.
THEOREM TypeCorrect == Spec => []TypeOK
<1>1. IInv => TypeOK BY DEF IInv
<1> QED BY Invariance, <1>1, PTL

\* No interleaving of clients, processes and logins spoils the refresh token in
\* the keyring.
THEOREM StoredLoginSurvives == Spec => []LoginSurvives
<1>1. IInv => LoginSurvives BY DEF IInv
<1> QED BY Invariance, <1>1, PTL

\* A client does not hold on to a token that it has itself rotated away.
THEOREM ClientsAreCurrent == Spec => []MemoryIsCurrent
<1>1. IInv => MemoryIsCurrent BY DEF IInv
<1> QED BY Invariance, <1>1, PTL

-----------------------------------------------------------------------------
(***************************************************************************)
(* CliSession implements StoredLogin.  A rotation is under way from the    *)
(* auth server's answer to the second keyring write, or to the loss of the *)
(* answer; everything else leaves the mapped state alone.                  *)
(***************************************************************************)
Pair(q) == [old |-> posted[q], new |-> answer[q]]
Pairs == {Pair(q) : q \in {r \in Requests : Unsaved(r)}}
GivenTokens == {g \in Grants : Rotated(g)}

\* The mapped state in these terms.
LEMMA StoredMapping ==
    /\ Stored!vars = <<GivenTokens, usable, keyRefresh, Pairs, orphaned>>
    /\ Stored!Secret = {r.new : r \in Pairs}
BY DEF Stored!vars, Stored!Secret, Pairs, Pair, GivenTokens

\* A step that touches neither tokens nor the requests that hold an unsaved one.
LEMMA StoredStutter ==
  ASSUME UNCHANGED <<partner, usable, keyRefresh, orphaned>>,
         \A q \in Requests : Unsaved(q)' <=> Unsaved(q),
         \A q \in Requests : Unsaved(q) => posted'[q] = posted[q] /\ answer'[q] = answer[q]
  PROVE  UNCHANGED Stored!vars
<1>1. GivenTokens' = GivenTokens BY DEF GivenTokens, Rotated
<1>2. Pairs' = Pairs BY DEF Pairs, Pair
<1> QED BY <1>1, <1>2 DEF Stored!vars, Pairs, Pair, GivenTokens

\* What the requests in Q have not saved is lost.
LEMMA StoredLost ==
  ASSUME IInv, NEW Q \in SUBSET Requests, UNCHANGED <<partner, usable, keyRefresh>>,
         orphaned' = orphaned \cup Orphans(Q),
         \A q \in Q : ~Unsaved(q)',
         \A q \in Requests \ Q : /\ Unsaved(q)' <=> Unsaved(q)
                                 /\ posted'[q] = posted[q] /\ answer'[q] = answer[q]
  PROVE  Stored!Next
<1>1. PICK R : R = {Pair(q) : q \in {r \in Q : Unsaved(r)}} OBVIOUS
<1>2. GivenTokens' = GivenTokens BY DEF GivenTokens, Rotated
<1>3. Pairs' = Pairs \ R
  <2>1. \A q, r \in Requests : Unsaved(q) /\ Unsaved(r) /\ Pair(q) = Pair(r) => q = r
    BY DEF Pair, IInv, Secret
  <2>2. \A q \in Requests \ Q : Pair(q)' = Pair(q) BY DEF Pair
  <2>3. Pairs' = {Pair(q) : q \in {r \in Requests \ Q : Unsaved(r)}}
    BY <2>2 DEF Pairs
  <2> QED BY <1>1, <2>1, <2>3 DEF Pairs
<1>4. {r.old : r \in R} = Orphans(Q)
  <2>1. \A q \in Requests : Pair(q).old = posted[q] BY DEF Pair
  <2> QED BY <1>1, <2>1 DEF Orphans
<1>5. R \in SUBSET Pairs BY <1>1 DEF Pairs
<1>6. Stored!Lose(R)
  BY <1>2, <1>3, <1>4 DEF Stored!Lose, Pairs, Pair, GivenTokens
<1> QED BY <1>5, <1>6 DEF Stored!Next, Pairs, Pair

LEMMA StoredInit == Init => Stored!Init
  BY DEF Init, Stored!Init, Unsaved, Rotated

\* The auth server's answer to a refresh begins a rotation, or is none.
LEMMA StoredGrant == ASSUME IInv, NEW q \in Requests, AuthRefreshes(q)
                     PROVE  [Stored!Next]_Stored!vars
<1>1. PICK g \in Grants, old \in Grants :
          /\ issued \in Nat /\ g = issued + 1 /\ issued' = g
          /\ old = posted[q] /\ old \in usable /\ old # g
  <2>1. issued \in Nat /\ MaxGrants \in Nat /\ issued < MaxGrants /\ usable \subseteq 1..issued
    BY LimitsAssumption DEF AuthRefreshes, IInv, TypeOK
  <2>2. posted[q] \in usable /\ issued' = issued + 1 BY DEF AuthRefreshes
  <2>3. issued + 1 \in Grants BY <2>1 DEF Grants
  <2>4. posted[q] \in 1..issued BY <2>1, <2>2
  <2>5. posted[q] \in Grants /\ posted[q] # issued + 1 BY ONLY <2>1, <2>4 DEF Grants
  <2> QED BY <2>1, <2>2, <2>3, <2>5
<1>2. /\ pc[q] = "refreshing" /\ answer[q] = None /\ ~Unsaved(q)
      /\ UNCHANGED <<pc, posted, keyRefresh, orphaned>>
      /\ answer'[q] = g /\ \A r \in Requests \ {q} : answer'[r] = answer[r]
  <2>1. answer' = [answer EXCEPT ![q] = g] /\ answer \in [Requests -> Token]
    BY <1>1 DEF AuthRefreshes, IInv, TypeOK
  <2> QED BY <2>1 DEF AuthRefreshes, keyVars, Unsaved, Rotated
<1>3. /\ \A r \in Requests : answer[r] # g /\ answer[r] \in Token
      /\ partner[g] = None /\ g # None /\ ~Rotated(g)
  <2>1. \A r \in Requests : answer[r] <= issued /\ answer[r] \in Token
    BY DEF IInv, Numbers, TypeOK
  <2>2. partner[g] = None BY <1>1 DEF IInv, Numbers
  <2>3. g # None BY DEF Grants, None
  <2> QED BY <1>1, <2>1, <2>2, <2>3 DEF Rotated, Token, Grants, None
<1>4. partner \in [Grants -> Token] BY DEF IInv, TypeOK
<1>5. CASE usable' = (usable \ {old}) \cup {g} /\ partner' = [partner EXCEPT ![g] = g]
  <2>1. \A h \in Grants : Rotated(h)' <=> Rotated(h) \/ h = g
    BY <1>3, <1>4, <1>5 DEF Rotated
  <2>2. GivenTokens' = GivenTokens \cup {g} /\ g \notin GivenTokens
    BY <1>3, <2>1 DEF GivenTokens
  <2>3. \A r \in Requests \ {q} : (Unsaved(r)' <=> Unsaved(r)) /\ Pair(r)' = Pair(r)
    <3>1. \A r \in Requests : answer[r] # None =>
             answer[r] \in Grants /\ partner'[answer[r]] = partner[answer[r]]
      BY <1>3, <1>4, <1>5 DEF Token
    <3> QED BY <1>2, <3>1 DEF Unsaved, Pair, Rotated
  <2>4. Unsaved(q)' /\ Pair(q)' = [old |-> old, new |-> g]
    <3>1. partner'[g] = g BY <1>4, <1>5
    <3> QED BY <1>1, <1>2, <1>3, <3>1 DEF Unsaved, Pair, Rotated
  <2>5. Pairs' = Pairs \cup {[old |-> old, new |-> g]}
    BY <1>2, <2>3, <2>4 DEF Pairs
  <2>6. old \notin {r.new : r \in Pairs}
    BY <1>1 DEF Pairs, Pair, IInv, Secret
  <2>7. Stored!Rotate(old, g)
    BY <1>1, <1>2, <1>5, <2>2, <2>5, <2>6, StoredMapping DEF Stored!Rotate, Pairs, Pair, GivenTokens
  <2> QED BY <2>7 DEF Stored!Next
<1>6. CASE partner' = [partner EXCEPT ![g] = old] /\ usable' = usable
  <2>1. \A h \in Grants : partner'[h] = IF h = g THEN old ELSE partner[h]
    BY <1>4, <1>6
  <2>2. \A h \in Grants : Rotated(h)' <=> Rotated(h)
    BY <1>1, <1>3, <2>1 DEF Rotated
  <2>3. \A r \in Requests : Unsaved(r)' <=> Unsaved(r)
    <3>1. \A r \in Requests : answer[r] # None =>
             answer[r] \in Grants /\ partner'[answer[r]] = partner[answer[r]]
      BY <1>3, <2>1 DEF Token
    <3>2. ~Unsaved(q)' BY <1>1, <1>2, <2>1 DEF Unsaved, Rotated
    <3> QED BY <1>2, <3>1, <3>2 DEF Unsaved, Rotated
  <2>4. \A r \in Requests : Unsaved(r) => posted'[r] = posted[r] /\ answer'[r] = answer[r]
    BY <1>2
  <2>5. GivenTokens' = GivenTokens BY <2>2 DEF GivenTokens
  <2>6. Pairs' = Pairs BY <2>3, <2>4 DEF Pairs, Pair
  <2> QED BY <1>2, <1>6, <2>5, <2>6 DEF Stored!vars, Pairs, Pair, GivenTokens
<1> QED BY <1>1, <1>5, <1>6 DEF AuthRefreshes

\* The end of a refresh: the new token is in the keyring, or lost, or there is none.
LEMMA StoredReplay ==
  ASSUME IInv, NEW q \in Requests, Applied(q) \/ Saved(q) \/ AttemptFails(q)
  PROVE  [Stored!Next]_Stored!vars
<1>0. /\ UNCHANGED <<partner, usable>>
      /\ posted \in [Requests -> Token] /\ answer \in [Requests -> Token]
      /\ pc \in [Requests -> {"idle", "sent", "refused", "refreshing", "saving", "replayed"}]
  BY DEF IInv, TypeOK, Applied, Saved, AttemptFails, authVars
<1>1. ASSUME ~Unsaved(q)', UNCHANGED keyRefresh, orphaned' = orphaned \cup Orphans({q}),
             \A r \in Requests \ {q} : /\ pc'[r] = pc[r]
                                       /\ posted'[r] = posted[r] /\ answer'[r] = answer[r]
      PROVE  Stored!Next
  <2>1. \A r \in Requests \ {q} : Unsaved(r)' <=> Unsaved(r) BY <1>0, <1>1 DEF Unsaved, Rotated
  <2> QED BY <1>0, <1>1, <2>1, StoredLost
<1>2. CASE Applied(q) /\ Rotated(answer[q])
  <2>1. /\ pc[q] = "refreshing" /\ pc' = [pc EXCEPT ![q] = "saving"]
        /\ UNCHANGED <<posted, answer, keyRefresh, orphaned>>
    BY <1>2 DEF Applied
  <2>2. \A r \in Requests : Unsaved(r)' <=> Unsaved(r)
    BY <1>0, <2>1 DEF Unsaved, Rotated
  <2> QED BY <1>0, <2>1, <2>2, StoredStutter
<1>3. CASE Applied(q) /\ ~Rotated(answer[q])
  <2>1. /\ Replay(q) /\ UNCHANGED <<keyRefresh, orphaned>> /\ ~Unsaved(q)
    BY <1>3 DEF Applied, Unsaved
  <2>2. Orphans({q}) = {} BY <2>1, NoOrphan
  <2> QED BY <1>0, <1>1, <2>1, <2>2 DEF Replay, NoRefresh, Unsaved
<1>4. CASE Saved(q) /\ keyRefresh' = answer[q] /\ UNCHANGED orphaned
  <2>1. pc[q] = "saving" /\ Replay(q) BY <1>4 DEF Saved
  <2>2. Unsaved(q) BY <2>1 DEF IInv, Running, Unsaved
  <2>3. /\ ~Unsaved(q)'
        /\ \A r \in Requests \ {q} : (Unsaved(r)' <=> Unsaved(r)) /\ Pair(r)' = Pair(r)
    BY <1>0, <2>1 DEF Replay, NoRefresh, Unsaved, Rotated, Pair
  <2>4. \A r \in Requests \ {q} : Unsaved(r) => Pair(r) # Pair(q)
    BY <2>2 DEF Pair, IInv, Secret
  <2>5. Pairs' = Pairs \ {Pair(q)} BY <2>3, <2>4 DEF Pairs
  <2>6. GivenTokens' = GivenTokens BY <1>0 DEF GivenTokens, Rotated
  <2>7. PICK p \in Pairs : p = Pair(q) /\ p.new = answer[q]
    <3>1. Pair(q) \in Pairs BY <2>2 DEF Pairs
    <3>2. Pair(q).new = answer[q] BY DEF Pair
    <3> QED BY <3>1, <3>2
  <2>8. Stored!StoreRotated(p)
    BY <1>0, <1>4, <2>5, <2>6, <2>7 DEF Stored!StoreRotated, Pairs, Pair, GivenTokens
  <2> QED BY <2>7, <2>8 DEF Stored!Next, Pairs, Pair
<1>5. CASE Saved(q) /\ keyRefresh' = keyRefresh /\ orphaned' = orphaned \cup Orphans({q})
  <2>1. Replay(q) BY <1>5 DEF Saved
  <2> QED BY <1>0, <1>1, <1>5, <2>1 DEF Replay, NoRefresh, Unsaved
<1>6. CASE AttemptFails(q)
  <2>1. /\ UNCHANGED keyRefresh /\ orphaned' = orphaned \cup Orphans({q})
        /\ answer'[q] = None
        /\ \A r \in Requests \ {q} : /\ pc'[r] = pc[r]
                                     /\ posted'[r] = posted[r] /\ answer'[r] = answer[r]
    BY <1>0, <1>6 DEF AttemptFails, keyVars, Over, NoRefresh
  <2>2. ~Unsaved(q)' BY <2>1 DEF Unsaved, Rotated
  <2> QED BY <1>1, <2>1, <2>2
<1> QED BY <1>2, <1>3, <1>4, <1>5, <1>6 DEF Saved

\* login gives one token, and stores it or not.
LEMMA StoredLogins == ASSUME IInv, Login PROVE [Stored!Next]_Stored!vars
<1>0. UNCHANGED <<pc, posted, answer, orphaned>>
  BY DEF Login, LoginBegins, Callback, AuthLogsIn, ExchangeRefused, ExchangeFails,
         LoginSavesAccess, LoginSavesRefresh, LoginDies, clientVars
<1>1. CASE UNCHANGED <<partner, usable>>
  <2>1. /\ \A r \in Requests : Unsaved(r)' <=> Unsaved(r)
        /\ Pairs' = Pairs /\ GivenTokens' = GivenTokens
    BY <1>0, <1>1 DEF Unsaved, Rotated, Pairs, Pair, GivenTokens
  <2>2. CASE keyRefresh' = keyRefresh
    BY <1>0, <1>1, <2>1, <2>2, StoredStutter
  <2>3. CASE LoginSavesRefresh /\ keyRefresh' = granted
    <3>1. PICK t \in Grants : /\ t = granted /\ t \in usable
                              /\ \A r \in Requests : answer[r] # t
      BY <2>3 DEF LoginSavesRefresh, IInv, LoginSecret, TypeOK, Token, Rotated
    <3>2. t \notin {r.new : r \in Pairs} BY <3>1 DEF Pairs, Pair
    <3>3. Stored!StoreLogin(t)
      BY <1>0, <1>1, <2>1, <2>3, <3>1, <3>2, StoredMapping
         DEF Stored!StoreLogin, Pairs, Pair, GivenTokens
    <3> QED BY <3>3 DEF Stored!Next
  <2> QED BY <2>2, <2>3 DEF Login, LoginBegins, Callback, AuthLogsIn, ExchangeRefused,
             ExchangeFails, LoginSavesAccess, LoginSavesRefresh, LoginDies, keyVars
<1>2. CASE AuthLogsIn /\ ~UNCHANGED <<partner, usable>>
  <2>1. PICK g \in Grants : g = issued + 1 /\ issued \in Nat
    BY <1>2, LimitsAssumption DEF AuthLogsIn, IInv, TypeOK, Grants
  <2>2. /\ keyRefresh' = keyRefresh
        /\ usable' = usable \cup {g} /\ partner' = [partner EXCEPT ![g] = g]
    BY <1>2, <2>1 DEF AuthLogsIn, keyVars
  <2>3. partner[g] = None /\ g # None /\ partner \in [Grants -> Token]
    BY <2>1 DEF IInv, Numbers, TypeOK, Grants, None
  <2>4. \A h \in Grants : Rotated(h)' <=> Rotated(h) \/ h = g
    BY <2>2, <2>3 DEF Rotated
  <2>5. GivenTokens' = GivenTokens \cup {g} /\ g \notin GivenTokens
    BY <2>3, <2>4 DEF GivenTokens, Rotated
  <2>6. \A r \in Requests : answer[r] # g /\ answer[r] \in Token
    <3>1. \A r \in Requests : answer[r] <= issued /\ answer[r] \in Token
      BY DEF IInv, Numbers, TypeOK
    <3> QED BY <2>1, <3>1 DEF Token, Grants, None
  <2>7. \A r \in Requests : Unsaved(r)' <=> Unsaved(r)
    <3>1. \A r \in Requests : answer[r] # None => partner'[answer[r]] = partner[answer[r]]
      BY <2>2, <2>3, <2>6 DEF Token
    <3> QED BY <1>0, <3>1 DEF Unsaved, Rotated
  <2>8. Pairs' = Pairs BY <1>0, <2>7 DEF Pairs, Pair
  <2>9. Stored!LogIn(g)
    BY <1>0, <2>2, <2>5, <2>8 DEF Stored!LogIn, Pairs, Pair, GivenTokens
  <2> QED BY <2>9 DEF Stored!Next
<1> QED BY <1>1, <1>2 DEF Login, LoginBegins, Callback, ExchangeRefused, ExchangeFails,
           LoginSavesAccess, LoginSavesRefresh, LoginDies, authVars

\* Every step is a step of StoredLogin, or none.
LEMMA StoredStep == IInv /\ [Next]_vars => [Stored!Next]_Stored!vars
<1> SUFFICES ASSUME IInv, [Next]_vars PROVE [Stored!Next]_Stored!vars
  OBVIOUS
<1>0. /\ posted \in [Requests -> Token] /\ answer \in [Requests -> Token]
      /\ pc \in [Requests -> {"idle", "sent", "refused", "refreshing", "saving", "replayed"}]
  BY DEF IInv, TypeOK
<1>1. ASSUME NEW q \in Requests, ~Unsaved(q), ~Unsaved(q)',
             UNCHANGED <<partner, usable, keyRefresh, orphaned>>,
             \A r \in Requests \ {q} : /\ pc'[r] = pc[r]
                                       /\ posted'[r] = posted[r] /\ answer'[r] = answer[r]
      PROVE  [Stored!Next]_Stored!vars
  <2>1. \A r \in Requests : Unsaved(r)' <=> Unsaved(r) BY <1>1 DEF Unsaved, Rotated
  <2> QED BY <1>1, <2>1, StoredStutter
<1>2. ASSUME NEW c \in Clients, Start(c) PROVE [Stored!Next]_Stored!vars
  <2>1. UNCHANGED <<partner, usable, keyRefresh, orphaned, pc, posted, answer>>
    BY <1>2 DEF Start, authVars, keyVars
  <2>2. \A r \in Requests : Unsaved(r)' <=> Unsaved(r) BY <2>1 DEF Unsaved, Rotated
  <2> QED BY <2>1, <2>2, StoredStutter
<1>3. ASSUME NEW c \in Clients, Exit(c) PROVE [Stored!Next]_Stored!vars
  <2> DEFINE Q == {q \in Requests : by[q] = c}
  <2>1. /\ Over(Q) /\ orphaned' = orphaned \cup Orphans(Q)
        /\ UNCHANGED <<partner, usable, keyRefresh>>
    BY <1>3 DEF Exit, authVars, keyVars
  <2>2. Q \in SUBSET Requests OBVIOUS
  <2> HIDE DEF Q
  <2>3. /\ \A q \in Q : ~Unsaved(q)'
        /\ \A q \in Requests \ Q : /\ Unsaved(q)' <=> Unsaved(q)
                                   /\ posted'[q] = posted[q] /\ answer'[q] = answer[q]
    BY <2>1, <2>2 DEF Over, NoRefresh, Unsaved, Rotated
  <2> QED BY <2>1, <2>2, <2>3, StoredLost
<1>4. ASSUME NEW q \in Requests, NEW c \in Clients, Call(q, c) PROVE [Stored!Next]_Stored!vars
  <2>1. /\ pc[q] = "idle" /\ pc' = [pc EXCEPT ![q] = "sent"]
        /\ UNCHANGED <<partner, usable, keyRefresh, orphaned, posted, answer>>
    BY <1>4 DEF Call, authVars, keyVars
  <2>2. ~Unsaved(q) /\ ~Unsaved(q)' BY <1>0, <2>1 DEF Unsaved
  <2> QED BY <1>0, <1>1, <2>1, <2>2
<1>5. ASSUME NEW q \in Requests, Answered(q) \/ Replayed(q) \/ RefreshRefused(q)
      PROVE  [Stored!Next]_Stored!vars
  <2>1. ~Unsaved(q) /\ UNCHANGED <<partner, usable, keyRefresh, orphaned>>
    BY <1>5 DEF Answered, Replayed, RefreshRefused, Unsaved, Rotated, authVars, keyVars
  <2>2. CASE Over({q})
    BY <1>0, <1>1, <2>1, <2>2 DEF Over, NoRefresh, Unsaved
  <2>3. CASE pc' = [pc EXCEPT ![q] = "refused"] /\ UNCHANGED <<posted, answer>>
    BY <1>0, <1>1, <2>1, <2>3 DEF Unsaved
  <2> QED BY <1>5, <2>2, <2>3 DEF Answered, Replayed, RefreshRefused
<1>6. ASSUME NEW q \in Requests, PostRefresh(q) PROVE [Stored!Next]_Stored!vars
  <2>1. /\ pc[q] = "refused" /\ pc' = [pc EXCEPT ![q] = "refreshing"]
        /\ posted' = [posted EXCEPT ![q] = refresh[by[q]]]
        /\ UNCHANGED <<partner, usable, keyRefresh, orphaned, answer>>
    BY <1>6 DEF PostRefresh, authVars, keyVars
  <2>2. answer[q] = None BY <2>1 DEF IInv, Running
  <2>3. ~Unsaved(q) /\ ~Unsaved(q)' BY <2>1, <2>2 DEF Unsaved, Rotated
  <2> QED BY <1>0, <1>1, <2>1, <2>3
<1>7. CASE UNCHANGED vars
  <2>1. UNCHANGED <<partner, usable, keyRefresh, orphaned, pc, posted, answer>>
    BY <1>7 DEF vars, authVars, keyVars, clientVars
  <2>2. \A r \in Requests : Unsaved(r)' <=> Unsaved(r) BY <2>1 DEF Unsaved, Rotated
  <2> QED BY <2>1, <2>2, StoredStutter
<1> QED BY <1>2, <1>3, <1>4, <1>5, <1>6, <1>7, StoredGrant, StoredReplay, StoredLogins
        DEF Next, Refresh

\* Whatever clients, logins, keyrings and lost answers do, the keyring's refresh
\* token is a login stored once.
THEOREM StoredLoginRefinement == Spec => ImplementsStoredLogin
BY Invariance, StoredInit, StoredStep, PTL DEF Spec, ImplementsStoredLogin, Stored!Spec

\* The promise of StoredLogin suffices for the user to stay logged in: LoginSurvives
\* holds of any program that implements it.
THEOREM StoredLoginPromise == ImplementsStoredLogin => []LoginSurvives
<1> DEFINE Owned == \A r \in Pairs : r.new \in usable
           Stays == keyRefresh \notin usable \cup {None} \cup orphaned =>
                      \E r \in Pairs : r.old = keyRefresh
           Promise == Stays /\ Owned
<1>1. Stored!Init => Promise
  BY DEF Stored!Init, Pairs, Pair
<1>2. Promise /\ [Stored!Next]_Stored!vars => Promise'
  <2> SUFFICES ASSUME Promise, [Stored!Next]_Stored!vars PROVE Promise'
    OBVIOUS
  <2>1. ASSUME NEW t \in Grants, Stored!LogIn(t) \/ Stored!StoreLogin(t) PROVE Promise'
    <3>1. Pairs' = Pairs BY <2>1 DEF Stored!LogIn, Stored!StoreLogin, Pairs, Pair
    <3> QED BY <2>1, <3>1 DEF Stored!LogIn, Stored!StoreLogin
  <2>2. ASSUME NEW old \in Grants, NEW t \in Grants, Stored!Rotate(old, t) PROVE Promise'
    <3>1. /\ old \in usable /\ \A r \in Pairs : r.new # old
          /\ usable' = (usable \ {old}) \cup {t} /\ UNCHANGED <<keyRefresh, orphaned>>
          /\ Pairs' = Pairs \cup {[old |-> old, new |-> t]}
      BY <2>2, StoredMapping DEF Stored!Rotate, Pairs, Pair
    <3>2. Owned' BY <3>1
    <3>3. CASE keyRefresh = old
      <4>1. [old |-> old, new |-> t] \in Pairs' BY <3>1
      <4> QED BY <3>1, <3>2, <3>3, <4>1
    <3>4. CASE keyRefresh # old
      <4>1. Pairs \subseteq Pairs' BY <3>1
      <4> QED BY <3>1, <3>2, <3>4, <4>1
    <3> QED BY <3>3, <3>4
  <2>3. ASSUME NEW r \in Pairs, Stored!StoreRotated(r) PROVE Promise'
    <3>1. keyRefresh' = r.new /\ Pairs' = Pairs \ {r} /\ UNCHANGED <<usable, orphaned>>
      BY <2>3 DEF Stored!StoreRotated, Pairs, Pair
    <3> QED BY <3>1
  <2>4. ASSUME NEW R \in SUBSET Pairs, Stored!Lose(R) PROVE Promise'
    <3>1. /\ UNCHANGED <<keyRefresh, usable>> /\ Pairs' = Pairs \ R
          /\ orphaned' = orphaned \cup {r.old : r \in R}
      BY <2>4 DEF Stored!Lose, Pairs, Pair
    <3> QED BY <3>1
  <2>5. CASE UNCHANGED Stored!vars
    <3>1. Pairs' = Pairs /\ UNCHANGED <<keyRefresh, usable, orphaned>>
      BY <2>5 DEF Stored!vars, Pairs, Pair
    <3> QED BY <3>1
  <2> QED BY <2>1, <2>2, <2>3, <2>4, <2>5 DEF Stored!Next, Pairs, Pair
<1>3. Promise => LoginSurvives
  BY DEF LoginSurvives, Pairs, Pair
<1> QED BY <1>1, <1>2, <1>3, PTL DEF ImplementsStoredLogin, Stored!Spec

(***************************************************************************)
(* CliProfiles: the first profile of a name                                *)
(***************************************************************************)
\* A set of naturals that is not empty has its minimum.
LEMMA MinOfNaturals ==
    ASSUME NEW S \in SUBSET Nat, S # {}
    PROVE  Min(S) \in S /\ \A k \in S : Min(S) <= k
<1>1. PICK m \in S : \A k \in S : ~ (<<k, m>> \in OpToRel(<, Nat))
  BY WFMin, NatLessThanWellFounded
<1>2. \A k \in S : m <= k
  <2> TAKE k \in S
  <2>1. k \in Nat /\ m \in Nat
    OBVIOUS
  <2>2. ~ (k < m)
    BY <1>1, <2>1 DEF OpToRel
  <2> QED BY <2>1, <2>2
<1> QED BY <1>1, <1>2 DEF Min

(***************************************************************************)
(* What the four changes do to a file                                      *)
(***************************************************************************)
Unique(cfg) == \A i, j \in DOMAIN cfg : cfg[i].name = cfg[j].name => i = j

LEMMA IndexOfName ==
    ASSUME NEW cfg \in Seq(Profile), NEW n, Has(cfg, n)
    PROVE  IndexOf(cfg, n) \in DOMAIN cfg /\ cfg[IndexOf(cfg, n)].name = n
<1> DEFINE S == {i \in DOMAIN cfg : cfg[i].name = n}
<1>1. S \in SUBSET Nat /\ S # {}
  BY DEF Has
<1> QED BY <1>1, MinOfNaturals DEF IndexOf

LEMMA AppendShape ==
    ASSUME NEW cfg \in Seq(Profile), NEW e \in Profile
    PROVE  /\ Append(cfg, e) \in Seq(Profile)
           /\ DOMAIN Append(cfg, e) = DOMAIN cfg \cup {Len(cfg) + 1}
           /\ Len(cfg) + 1 \notin DOMAIN cfg
           /\ Append(cfg, e)[Len(cfg) + 1] = e
           /\ \A i \in DOMAIN cfg : Append(cfg, e)[i] = cfg[i]
OBVIOUS

LEMMA ReplacedShape ==
    ASSUME NEW cfg \in Seq(Profile), NEW e \in Profile, Has(cfg, e.name)
    PROVE  /\ Replaced(cfg, e) \in Seq(Profile)
           /\ DOMAIN Replaced(cfg, e) = DOMAIN cfg
           /\ \E k \in DOMAIN cfg :
                /\ cfg[k].name = e.name /\ Replaced(cfg, e)[k] = e
                /\ \A i \in DOMAIN cfg \ {k} : Replaced(cfg, e)[i] = cfg[i]
<1> DEFINE k == IndexOf(cfg, e.name)
<1>1. k \in DOMAIN cfg /\ cfg[k].name = e.name
  BY IndexOfName
<1> HIDE DEF k
<1>2. Replaced(cfg, e) = [cfg EXCEPT ![k] = e]
  BY DEF Replaced, k
<1> QED BY <1>1, <1>2

LEMMA ActivatedShape ==
    ASSUME NEW cfg \in Seq(Profile), NEW n
    PROVE  /\ Activated(cfg, n) \in Seq(Profile)
           /\ DOMAIN Activated(cfg, n) = DOMAIN cfg
           /\ \A i \in DOMAIN cfg :
                /\ Activated(cfg, n)[i].name = cfg[i].name
                /\ Activated(cfg, n)[i].token_ref = cfg[i].token_ref
                /\ Activated(cfg, n)[i].default <=> cfg[i].name = n
<1>1. \A i \in DOMAIN cfg : cfg[i] \in Profile
  OBVIOUS
<1>2. \A i \in DOMAIN cfg : [cfg[i] EXCEPT !.default = cfg[i].name = n] \in Profile
  BY <1>1 DEF Profile
<1>3. Activated(cfg, n) \in [1..Len(cfg) -> Profile]
  BY <1>2 DEF Activated
<1>4. \A i \in DOMAIN cfg : Activated(cfg, n)[i] = [cfg[i] EXCEPT !.default = cfg[i].name = n]
  BY DEF Activated
<1>5. \A i \in DOMAIN cfg : /\ Activated(cfg, n)[i].name = cfg[i].name
                            /\ Activated(cfg, n)[i].token_ref = cfg[i].token_ref
                            /\ Activated(cfg, n)[i].default <=> cfg[i].name = n
  BY <1>1, <1>4 DEF Profile
<1> QED BY <1>3, <1>5, IsASeq DEF Activated

\* One profile goes, the others keep their order.
LEMMA WithoutShape ==
    ASSUME NEW cfg \in Seq(Profile), NEW n, Has(cfg, n)
    PROVE  /\ Without(cfg, n) \in Seq(Profile)
           /\ \E k \in DOMAIN cfg :
                /\ cfg[k].name = n
                /\ DOMAIN Without(cfg, n) = 1..Len(cfg) - 1
                /\ \A i \in 1..Len(cfg) - 1 :
                     Without(cfg, n)[i] = cfg[IF i < k THEN i ELSE i + 1]
<1> DEFINE k == IndexOf(cfg, n)
<1>1. k \in DOMAIN cfg /\ cfg[k].name = n
  BY IndexOfName
<1> HIDE DEF k
<1>2. Without(cfg, n) = SubSeq(cfg, 1, k - 1) \o SubSeq(cfg, k + 1, Len(cfg))
  BY DEF Without, RemoveAt, k
<1> DEFINE a == SubSeq(cfg, 1, k - 1)
           b == SubSeq(cfg, k + 1, Len(cfg))
<1>3. a \in Seq(Profile) /\ Len(a) = k - 1 /\ \A i \in 1..k - 1 : a[i] = cfg[i]
  BY <1>1
<1>4. b \in Seq(Profile) /\ Len(b) = Len(cfg) - k /\ \A i \in 1..Len(cfg) - k : b[i] = cfg[k + i]
  BY <1>1
<1> HIDE DEF a, b
<1>5. Len(a) + Len(b) = Len(cfg) - 1
  BY <1>1, <1>3, <1>4
<1>6. /\ a \o b \in Seq(Profile) /\ Len(a \o b) = Len(a) + Len(b)
      /\ \A i \in 1..Len(a) + Len(b) : (a \o b)[i] = IF i <= Len(a) THEN a[i] ELSE b[i - Len(a)]
  BY <1>3, <1>4, ConcatProperties, Zenon
<1>7. \A i \in 1..Len(cfg) - 1 : (a \o b)[i] = cfg[IF i < k THEN i ELSE i + 1]
  <2> TAKE i \in 1..Len(cfg) - 1
  <2>1. (a \o b)[i] = IF i <= Len(a) THEN a[i] ELSE b[i - Len(a)]
    BY <1>6, <1>5
  <2>2. CASE i < k
    BY <1>1, <1>3, <2>1, <2>2
  <2>3. CASE ~ (i < k)
    <3>1. i - (k - 1) \in 1..Len(cfg) - k /\ k + (i - (k - 1)) = i + 1
      BY <1>1, <2>3
    <3>2. b[i - (k - 1)] = cfg[i + 1]
      BY <1>4, <3>1
    <3> QED BY <1>1, <1>3, <2>1, <2>3, <3>2
  <2> QED BY <2>2, <2>3
<1>8. DOMAIN (a \o b) = 1..Len(cfg) - 1
  BY <1>5, <1>6, LenProperties
<1> QED BY <1>1, <1>2, <1>6, <1>7, <1>8 DEF a, b

\* A file whose names are unique and whose token references have a token.
Backed(e, keys) == e.token_ref # Nothing => keys[e.name] # Nothing
AllBacked(cfg, keys) == \A i \in DOMAIN cfg : Backed(cfg[i], keys)
Sound(cfg, keys) == cfg \in Seq(Profile) /\ Unique(cfg) /\ AllBacked(cfg, keys)

LEMMA AppendSound ==
    ASSUME NEW keys, NEW cfg, Sound(cfg, keys),
           NEW e \in Profile, Backed(e, keys), ~Has(cfg, e.name)
    PROVE  /\ Sound(Append(cfg, e), keys)
           /\ \A n : Has(cfg, n) => Has(Append(cfg, e), n)
<1> DEFINE new == Append(cfg, e)
<1>1. /\ new \in Seq(Profile) /\ DOMAIN new = DOMAIN cfg \cup {Len(cfg) + 1}
      /\ Len(cfg) + 1 \notin DOMAIN cfg /\ new[Len(cfg) + 1] = e
      /\ \A i \in DOMAIN cfg : new[i] = cfg[i]
  BY AppendShape DEF Sound
<1> HIDE DEF new
<1> QED BY <1>1 DEF Sound, Unique, AllBacked, Has, new

LEMMA ReplacedSound ==
    ASSUME NEW keys, NEW cfg, Sound(cfg, keys),
           NEW e \in Profile, Backed(e, keys), Has(cfg, e.name)
    PROVE  /\ Sound(Replaced(cfg, e), keys)
           /\ \A n : Has(cfg, n) => Has(Replaced(cfg, e), n)
<1> DEFINE new == Replaced(cfg, e)
<1>1. PICK k \in DOMAIN cfg : /\ cfg[k].name = e.name /\ new[k] = e
                              /\ \A i \in DOMAIN cfg \ {k} : new[i] = cfg[i]
  BY ReplacedShape DEF Sound
<1>2. new \in Seq(Profile) /\ DOMAIN new = DOMAIN cfg
  BY ReplacedShape DEF Sound
<1> HIDE DEF new
<1>3. \A i \in DOMAIN cfg : new[i].name = cfg[i].name
  BY <1>1
<1>4. AllBacked(new, keys)
  BY <1>1, <1>2 DEF Sound, AllBacked
<1> QED BY <1>2, <1>3, <1>4 DEF Sound, Unique, Has, new

LEMMA ActivatedSound ==
    ASSUME NEW keys, NEW cfg, Sound(cfg, keys), NEW n
    PROVE  /\ Sound(Activated(cfg, n), keys)
           /\ \A m : Has(cfg, m) => Has(Activated(cfg, n), m)
<1> DEFINE new == Activated(cfg, n)
<1>1. /\ new \in Seq(Profile) /\ DOMAIN new = DOMAIN cfg
      /\ \A i \in DOMAIN cfg : new[i].name = cfg[i].name /\ new[i].token_ref = cfg[i].token_ref
  BY ActivatedShape DEF Sound
<1> HIDE DEF new
<1> QED BY <1>1 DEF Sound, Unique, AllBacked, Backed, Has, new

LEMMA WithoutSound ==
    ASSUME NEW keys, NEW cfg, Sound(cfg, keys), NEW n, Has(cfg, n)
    PROVE  /\ Sound(Without(cfg, n), keys)
           /\ \A m : Has(cfg, m) /\ m # n => Has(Without(cfg, n), m)
<1> DEFINE new == Without(cfg, n)  from(i, k) == IF i < k THEN i ELSE i + 1
<1>1. PICK k \in DOMAIN cfg : /\ cfg[k].name = n
                              /\ DOMAIN new = 1..Len(cfg) - 1
                              /\ \A i \in 1..Len(cfg) - 1 : new[i] = cfg[from(i, k)]
  BY WithoutShape DEF Sound
<1>2. new \in Seq(Profile)
  BY WithoutShape DEF Sound
<1> HIDE DEF new
<1>3. cfg \in Seq(Profile)
  BY DEF Sound
<1>4. \A i, j \in DOMAIN new :
        from(i, k) \in DOMAIN cfg /\ (from(i, k) = from(j, k) => i = j)
  BY <1>1, <1>3
<1>5. \A m : Has(cfg, m) /\ m # n => Has(new, m)
  <2> SUFFICES ASSUME NEW m, m # n, NEW j \in DOMAIN cfg, cfg[j].name = m
               PROVE  Has(new, m)
    BY DEF Has
  <2>1. j # k
    BY <1>1
  <2> DEFINE i == IF j < k THEN j ELSE j - 1
  <2>2. i \in DOMAIN new /\ from(i, k) = j
    BY <1>1, <1>3, <2>1
  <2> QED BY <1>1, <2>2 DEF Has
<1>6. Unique(new)
  BY <1>1, <1>4 DEF Sound, Unique
<1>7. AllBacked(new, keys)
  BY <1>1, <1>4 DEF Sound, AllBacked
<1> QED BY <1>2, <1>5, <1>6, <1>7 DEF Sound, new

(***************************************************************************)
(* The invariant                                                           *)
(***************************************************************************)
\* What a process holds at each place: its profile, its command, and a token
\* behind the profile's reference once the handshake is over.
Held(p) ==
    /\ place[p] \in {"handshake", "get", "add", "update", "add saving", "update saving"} =>
         entry[p] \in Profile /\ cmd[p] \in Commands /\ cmd[p].do \in {"add", "login"}
    /\ place[p] \in {"get", "add", "update", "add saving", "update saving"} =>
         Backed(entry[p], keyring)
    /\ place[p] \in {"remove", "remove saving"} =>
         cmd[p] \in [do : {"remove"}, name : Names]
    /\ place[p] \in {"activate", "activate saving"} =>
         /\ cmd[p] \in Commands /\ cmd[p].do \in {"use", "add", "login"}
         /\ cmd[p].do # "use" => entry[p] \in Profile

\* Between load and save the draft is one of the four changes of what was loaded.
Drafted(p) ==
    /\ place[p] \in Saving => Sound(loaded[p], keyring)
    /\ place[p] = "add saving" =>
         draft[p] = Append(loaded[p], entry[p]) /\ ~Has(loaded[p], entry[p].name)
    /\ place[p] = "update saving" =>
         draft[p] = Replaced(loaded[p], entry[p]) /\ Has(loaded[p], entry[p].name)
    /\ place[p] = "remove saving" =>
         draft[p] = Without(loaded[p], cmd[p].name) /\ Has(loaded[p], cmd[p].name)
    /\ place[p] = "activate saving" =>
         draft[p] = Activated(loaded[p], Activating(p)) /\ Has(loaded[p], Activating(p))

\* The names for which a set_active is still to come.
Activators == {p \in Procs : place[p] \in {"activate", "activate saving"}}
Pending == {Activating(p) : p \in Activators}

\* There is one default at most, but for those that a set_active will settle.
Settled(cfg, names) ==
    \A i, j \in Defaults(cfg) : cfg[i].name \notin names /\ cfg[j].name \notin names => i = j

ProfilesInv ==
    /\ ProfilesTypeOK
    /\ AllBacked(file, keyring)
    /\ \A p \in Procs : Held(p) /\ Drafted(p)
    /\ ~disturbed => Settled(file, Pending)

\* What a step leaves alone of a process, and of the keyring.
Untouched(q) ==
    /\ place'[q] = place[q] /\ cmd'[q] = cmd[q] /\ entry'[q] = entry[q]
    /\ loaded'[q] = loaded[q] /\ draft'[q] = draft[q]
KeysKept == \A n \in Names : keyring[n] # Nothing => keyring'[n] # Nothing

LEMMA BackedKept ==
    ASSUME KeysKept, NEW e \in Profile, Backed(e, keyring)
    PROVE  Backed(e, keyring')
BY DEF KeysKept, Backed, Profile

LEMMA SoundKept ==
    ASSUME KeysKept, NEW cfg, Sound(cfg, keyring)
    PROVE  Sound(cfg, keyring')
<1>1. \A i \in DOMAIN cfg : cfg[i] \in Profile
  BY DEF Sound
<1> QED BY <1>1, BackedKept DEF Sound, AllBacked

LEMMA UntouchedKept ==
    ASSUME KeysKept, NEW q \in Procs, Untouched(q), Held(q), Drafted(q)
    PROVE  Held(q)' /\ Drafted(q)'
<1>1. Held(q)'
  BY BackedKept DEF Held, Untouched
<1>2. Activating(q)' = Activating(q)
  BY DEF Untouched, Activating
<1>3. Drafted(q)'
  BY <1>2, SoundKept DEF Drafted, Untouched
<1> QED BY <1>1, <1>3

\* Another process's set_active stays due.
LEMMA PendingKept ==
    ASSUME NEW p \in Procs, \A q \in Procs \ {p} : Untouched(q),
           NEW n \in Pending, p \in Activators => n # Activating(p)
    PROVE  n \in Pending'
<1>1. PICK q \in Activators : n = Activating(q)
  BY DEF Pending
<1>2. q \in Procs \ {p} /\ Untouched(q)
  BY <1>1 DEF Activators
<1>3. q \in Activators' /\ Activating(q)' = Activating(q)
  BY <1>2 DEF Activators, Untouched, Activating
<1> QED BY <1>1, <1>3 DEF Pending

LEMMA SettledWeaker ==
    ASSUME NEW cfg, NEW more, NEW names, Settled(cfg, names),
           \A n \in names : n \notin more => ~Has(cfg, n)
    PROVE  Settled(cfg, more)
BY DEF Settled, Has, Defaults

LEMMA AppendSettled ==
    ASSUME NEW cfg \in Seq(Profile), NEW e \in Profile, NEW names, NEW more,
           names \subseteq more, e.default => e.name \in more, Settled(cfg, names)
    PROVE  Settled(Append(cfg, e), more)
<1> DEFINE new == Append(cfg, e)
<1>1. /\ DOMAIN new = DOMAIN cfg \cup {Len(cfg) + 1} /\ new[Len(cfg) + 1] = e
      /\ \A i \in DOMAIN cfg : new[i] = cfg[i]
  BY AppendShape
<1> HIDE DEF new
<1>2. \A i \in Defaults(new) : new[i].name \notin more => i \in Defaults(cfg) /\ cfg[i].name \notin names
  BY <1>1 DEF Defaults
<1>3. Settled(new, more)
  BY <1>2 DEF Settled
<1> QED BY <1>3 DEF new

LEMMA ReplacedSettled ==
    ASSUME NEW cfg \in Seq(Profile), NEW e \in Profile, Has(cfg, e.name), NEW names, NEW more,
           names \subseteq more, e.default => e.name \in more, Settled(cfg, names)
    PROVE  Settled(Replaced(cfg, e), more)
<1> DEFINE new == Replaced(cfg, e)
<1>1. PICK k \in DOMAIN cfg : /\ cfg[k].name = e.name /\ new[k] = e
                              /\ \A i \in DOMAIN cfg \ {k} : new[i] = cfg[i]
  BY ReplacedShape
<1>2. DOMAIN new = DOMAIN cfg
  BY ReplacedShape
<1> HIDE DEF new
<1>3. \A i \in Defaults(new) : new[i].name \notin more => i \in Defaults(cfg) /\ cfg[i].name \notin names
  BY <1>1, <1>2 DEF Defaults
<1>4. Settled(new, more)
  BY <1>3 DEF Settled
<1> QED BY <1>4 DEF new

LEMMA WithoutSettled ==
    ASSUME NEW cfg \in Seq(Profile), NEW n, Has(cfg, n), NEW names, NEW more,
           names \subseteq more, Settled(cfg, names)
    PROVE  Settled(Without(cfg, n), more)
<1> DEFINE new == Without(cfg, n)  from(i, k) == IF i < k THEN i ELSE i + 1
<1>1. PICK k \in DOMAIN cfg : /\ DOMAIN new = 1..Len(cfg) - 1
                              /\ \A i \in 1..Len(cfg) - 1 : new[i] = cfg[from(i, k)]
  BY WithoutShape
<1> HIDE DEF new
<1>2. \A i, j \in DOMAIN new :
        from(i, k) \in DOMAIN cfg /\ (from(i, k) = from(j, k) => i = j)
  BY <1>1
<1> HIDE DEF from
<1>3. \A i \in Defaults(new) : new[i].name \notin more =>
        from(i, k) \in Defaults(cfg) /\ cfg[from(i, k)].name \notin names
  BY <1>1, <1>2 DEF Defaults
<1>4. Settled(new, more)
  BY <1>2, <1>3 DEF Settled, Defaults
<1> QED BY <1>4 DEF new

LEMMA ActivatedSettled ==
    ASSUME NEW cfg \in Seq(Profile), Unique(cfg), NEW n, NEW names
    PROVE  Settled(Activated(cfg, n), names)
<1>1. /\ DOMAIN Activated(cfg, n) = DOMAIN cfg
      /\ \A i \in DOMAIN cfg : Activated(cfg, n)[i].default <=> cfg[i].name = n
  BY ActivatedShape
<1>2. \A i \in Defaults(Activated(cfg, n)) : i \in DOMAIN cfg /\ cfg[i].name = n
  BY <1>1 DEF Defaults
<1> QED BY <1>2 DEF Settled, Unique

(***************************************************************************)
(* The steps                                                               *)
(***************************************************************************)
LEMMA InitHolds == ProfilesInit => ProfilesInv
<1> SUFFICES ASSUME ProfilesInit PROVE ProfilesInv
  OBVIOUS
<1>1. ProfilesTypeOK
  <2>1. <<>> \in Seq(Profile) /\ "idle" \in Places
    BY DEF Places
  <2>2. file \in Seq(Profile) /\ \A i, j \in DOMAIN file : file[i].name = file[j].name => i = j
    BY <2>1 DEF ProfilesInit
  <2>3. loaded \in [Procs -> Seq(Profile)] /\ draft \in [Procs -> Seq(Profile)]
    BY <2>1 DEF ProfilesInit
  <2>4. place \in [Procs -> Places] /\ started \in 0..MaxCommands
    BY <2>1, BoundAssumption DEF ProfilesInit
  <2> QED BY <2>2, <2>3, <2>4 DEF ProfilesInit, ProfilesTypeOK
<1>2. AllBacked(file, keyring) /\ Settled(file, Pending)
  BY DEF ProfilesInit, AllBacked, Settled, Defaults
<1>3. \A p \in Procs : place[p] = "idle"
  BY DEF ProfilesInit
<1>4. \A p \in Procs : Held(p) /\ Drafted(p)
  BY <1>3 DEF Held, Drafted, Saving
<1> QED BY <1>1, <1>2, <1>4 DEF ProfilesInv

\* What is left to show of a step of p that leaves the other processes alone.
LEMMA Frame ==
    ASSUME ProfilesInv, NEW p \in Procs, \A q \in Procs \ {p} : Untouched(q), KeysKept,
           ProfilesTypeOK', AllBacked(file', keyring'), Held(p)', Drafted(p)',
           ~disturbed' => Settled(file', Pending')
    PROVE  ProfilesInv'
<1>1. \A q \in Procs \ {p} : Held(q)' /\ Drafted(q)'
  BY UntouchedKept DEF ProfilesInv
<1>2. \A q \in Procs : Held(q)' /\ Drafted(q)'
  BY <1>1
<1> QED BY <1>2 DEF ProfilesInv

\* A step that changes neither the file nor the keyring, and gives no set_active up.
LEMMA CalmFrame ==
    ASSUME ProfilesInv, NEW p \in Procs, \A q \in Procs \ {p} : Untouched(q),
           UNCHANGED <<file, keyring, disturbed>>,
           ProfilesTypeOK', Held(p)', Drafted(p)',
           p \in Activators => (\/ p \in Activators' /\ Activating(p)' = Activating(p)
                                \/ disturbed
                                \/ ~Has(file, Activating(p)))
    PROVE  ProfilesInv'
<1>1. KeysKept /\ AllBacked(file', keyring')
  BY DEF KeysKept, ProfilesInv
<1>2. ASSUME ~disturbed PROVE Settled(file', Pending')
  <2>1. \A n \in Pending : n \notin Pending' => ~Has(file, n)
    <3> SUFFICES ASSUME NEW n \in Pending, n \notin Pending' PROVE ~Has(file, n)
      OBVIOUS
    <3>1. p \in Activators /\ n = Activating(p)
      BY PendingKept
    <3>2. ~(p \in Activators' /\ Activating(p)' = Activating(p))
      BY <3>1 DEF Pending
    <3> QED BY <3>1, <3>2, <1>2
  <2>2. Settled(file, Pending)
    BY <1>2 DEF ProfilesInv
  <2> QED BY <2>1, <2>2, SettledWeaker
<1> QED BY <1>1, <1>2, Frame

LEMMA DoneStep ==
    ASSUME ProfilesInv, NEW p \in Procs, Done(p)
    PROVE  /\ \A q \in Procs \ {p} : Untouched(q)
           /\ place' \in [Procs -> Places] /\ cmd' \in [Procs -> Commands \cup {Nothing}]
           /\ entry' \in [Procs -> Profile \cup {Nothing}]
           /\ loaded' \in [Procs -> Seq(Profile)] /\ draft' \in [Procs -> Seq(Profile)]
           /\ place'[p] = "idle" /\ Held(p)' /\ Drafted(p)'
<1>1. <<>> \in Seq(Profile) /\ "idle" \in Places
  BY DEF Places
<1>2. /\ \A q \in Procs \ {p} : Untouched(q)
      /\ place' \in [Procs -> Places] /\ place'[p] = "idle"
      /\ cmd' \in [Procs -> Commands \cup {Nothing}]
  BY <1>1 DEF ProfilesInv, ProfilesTypeOK, Done, Goto, Untouched
<1>3. entry' \in [Procs -> Profile \cup {Nothing}]
  BY DEF ProfilesInv, ProfilesTypeOK, Done
<1>4. loaded' \in [Procs -> Seq(Profile)] /\ draft' \in [Procs -> Seq(Profile)]
  BY <1>1 DEF ProfilesInv, ProfilesTypeOK, Done
<1>5. Held(p)' /\ Drafted(p)'
  BY <1>2 DEF Held, Drafted, Saving
<1> QED BY <1>2, <1>3, <1>4, <1>5

LEMMA OperationFails ==
    ASSUME ProfilesInv, NEW p \in Procs, Fail(p),
           p \in Activators => disturbed \/ ~Has(file, Activating(p))
    PROVE  ProfilesInv'
<1>1. ProfilesTypeOK'
  BY DoneStep DEF ProfilesInv, ProfilesTypeOK, Fail, disk
<1> QED BY <1>1, DoneStep, CalmFrame DEF Fail, disk

LEMMA BeginTypes ==
    ASSUME ProfilesInv, NEW p \in Procs, NEW c \in Commands, Begin(p, c),
           NEW to \in Places, Goto(p, to), UNCHANGED <<loaded, draft>>,
           entry' \in [Procs -> Profile \cup {Nothing}]
    PROVE  /\ ProfilesTypeOK' /\ place[p] = "idle" /\ place'[p] = to /\ cmd'[p] = c
           /\ UNCHANGED <<file, keyring, disturbed>> /\ p \notin Activators
           /\ (\A q \in Procs \ {p} : entry'[q] = entry[q]) => \A q \in Procs \ {p} : Untouched(q)
<1>1. place' \in [Procs -> Places] /\ cmd' \in [Procs -> Commands \cup {Nothing}]
  BY DEF ProfilesInv, ProfilesTypeOK, Begin, Goto
<1>2. started' \in 0..MaxCommands
  BY BoundAssumption DEF ProfilesInv, ProfilesTypeOK, Begin
<1>3. UNCHANGED <<file, keyring, unlocked, disturbed>>
  BY DEF Begin, disk
<1>4. ProfilesTypeOK'
  BY <1>1, <1>2, <1>3 DEF ProfilesInv, ProfilesTypeOK
<1>5. place[p] = "idle" /\ place'[p] = to /\ cmd'[p] = c /\ p \notin Activators
  BY DEF ProfilesInv, ProfilesTypeOK, Begin, Goto, Activators
<1>6. \A q \in Procs \ {p} : place'[q] = place[q] /\ cmd'[q] = cmd[q]
  BY DEF ProfilesInv, ProfilesTypeOK, Begin, Goto
<1> QED BY <1>3, <1>4, <1>5, <1>6 DEF Untouched

LEMMA UseStep ==
    ASSUME ProfilesInv, NEW p \in Procs, NEW n \in Names, Use(p, n)
    PROVE  ProfilesInv'
<1> DEFINE c == [do |-> "use", name |-> n]
<1>1. c \in Commands /\ "activate" \in Places
  BY DEF Commands, Places
<1>2. entry' \in [Procs -> Profile \cup {Nothing}] /\ entry' = entry
  BY DEF ProfilesInv, ProfilesTypeOK, Use
<1>3. /\ ProfilesTypeOK' /\ place'[p] = "activate" /\ cmd'[p] = c
      /\ UNCHANGED <<file, keyring, disturbed>> /\ p \notin Activators
      /\ \A q \in Procs \ {p} : Untouched(q)
  BY <1>1, <1>2, BeginTypes DEF Use
<1>4. Held(p)' /\ Drafted(p)'
  BY <1>1, <1>3 DEF Held, Drafted, Saving
<1> QED BY <1>3, <1>4, CalmFrame

LEMMA RemoveStep ==
    ASSUME ProfilesInv, NEW p \in Procs, NEW n \in Names, RemoveCommand(p, n)
    PROVE  ProfilesInv'
<1> DEFINE c == [do |-> "remove", name |-> n]
<1>1. c \in Commands /\ "remove" \in Places /\ c \in [do : {"remove"}, name : Names]
  BY DEF Commands, Places
<1>2. entry' \in [Procs -> Profile \cup {Nothing}] /\ entry' = entry
  BY DEF ProfilesInv, ProfilesTypeOK, RemoveCommand
<1>3. /\ ProfilesTypeOK' /\ place'[p] = "remove" /\ cmd'[p] = c
      /\ UNCHANGED <<file, keyring, disturbed>> /\ p \notin Activators
      /\ \A q \in Procs \ {p} : Untouched(q)
  BY <1>1, <1>2, BeginTypes DEF RemoveCommand
<1>4. Held(p)' /\ Drafted(p)'
  BY <1>1, <1>3 DEF Held, Drafted, Saving
<1> QED BY <1>3, <1>4, CalmFrame

LEMMA AddStep ==
    ASSUME ProfilesInv, NEW p \in Procs, NEW n \in Names, NEW url \in Urls,
           NEW default \in BOOLEAN, Add(p, n, url, default)
    PROVE  ProfilesInv'
<1> DEFINE c == [do |-> "add", name |-> n, url |-> url, default |-> default]
           e == [name |-> n, url |-> url, default |-> default, token_ref |-> Nothing]
<1>1. c \in Commands /\ c.do = "add" /\ "add" \in Places
  BY DEF Commands, Places
<1>2. e \in Profile /\ Backed(e, keyring)
  BY DEF Profile, Backed
<1>3. entry' \in [Procs -> Profile \cup {Nothing}] /\ entry'[p] = e
      /\ \A q \in Procs \ {p} : entry'[q] = entry[q]
  BY <1>2 DEF ProfilesInv, ProfilesTypeOK, Add
<1>4. /\ ProfilesTypeOK' /\ place'[p] = "add" /\ cmd'[p] = c
      /\ UNCHANGED <<file, keyring, disturbed>> /\ p \notin Activators
      /\ \A q \in Procs \ {p} : Untouched(q)
  BY <1>1, <1>3, BeginTypes DEF Add
<1> HIDE DEF c, e
<1>5. Held(p)' /\ Drafted(p)'
  BY <1>1, <1>2, <1>3, <1>4 DEF Held, Drafted, Saving
<1> QED BY <1>4, <1>5, CalmFrame

\* The profile that a command runs under is one of the file, or none.
LEMMA ContextInFile ==
    ASSUME ProfilesInv, NEW given \in Names \cup {Nothing},
           given # Nothing => Has(file, given)
    PROVE  Context(given) \in Profile \cup {Nothing}
<1>1. file \in Seq(Profile) /\ \A i \in DOMAIN file : file[i] \in Profile
  BY DEF ProfilesInv, ProfilesTypeOK
<1>2. CASE given # Nothing
  BY <1>1, <1>2, IndexOfName DEF Context, Find
<1>3. CASE given = Nothing /\ Defaults(file) # {}
  <2>1. Defaults(file) \in SUBSET Nat
    BY <1>1 DEF Defaults
  <2>2. Min(Defaults(file)) \in DOMAIN file
    BY <2>1, <1>3, MinOfNaturals DEF Defaults
  <2> QED BY <1>1, <1>3, <2>2 DEF Context, Active
<1> QED BY <1>2, <1>3 DEF Context, Active

LEMMA LoginStep ==
    ASSUME ProfilesInv, NEW p \in Procs, NEW given \in Names \cup {Nothing},
           NEW n \in Names \cup {Nothing}, NEW url \in Urls \cup {Nothing},
           LoginAs(p, given, n, url)
    PROVE  ProfilesInv'
<1> DEFINE c == [do |-> "login", name |-> n, url |-> url]
           active == Context(given)
           name == IF n # Nothing THEN n ELSE IF active # Nothing THEN active.name ELSE DefaultName
           bound == IF url # Nothing THEN url ELSE IF active # Nothing THEN active.url ELSE Nothing
           e == [name |-> name, url |-> bound, default |-> TRUE, token_ref |-> name]
<1>1. c \in Commands /\ c.do = "login" /\ "handshake" \in Places
  BY DEF Commands, Places
<1>2. active \in Profile \cup {Nothing}
  BY ContextInFile DEF LoginAs
<1>3. /\ bound # Nothing /\ Begin(p, c) /\ Goto(p, "handshake") /\ UNCHANGED <<loaded, draft>>
      /\ entry' = [entry EXCEPT ![p] = e]
  BY DEF LoginAs
<1> HIDE DEF c, active
<1>4. name \in Names /\ bound \in Urls
  BY <1>2, <1>3, NamesAssumption DEF Profile
<1>5. e \in Profile
  BY <1>4 DEF Profile
<1> HIDE DEF e
<1>6. entry' \in [Procs -> Profile \cup {Nothing}] /\ entry'[p] = e
      /\ \A q \in Procs \ {p} : entry'[q] = entry[q]
  BY <1>3, <1>5 DEF ProfilesInv, ProfilesTypeOK
<1>7. /\ ProfilesTypeOK' /\ place'[p] = "handshake" /\ cmd'[p] = c
      /\ UNCHANGED <<file, keyring, disturbed>> /\ p \notin Activators
      /\ \A q \in Procs \ {p} : Untouched(q)
  BY <1>1, <1>3, <1>6, BeginTypes
<1>8. Held(p)' /\ Drafted(p)'
  BY <1>1, <1>5, <1>6, <1>7 DEF Held, Drafted, Saving
<1> QED BY <1>7, <1>8, CalmFrame

\* A step from one place to another that takes nothing up and puts nothing down.
LEMMA GotoTypes ==
    ASSUME ProfilesInv, NEW p \in Procs, NEW to \in Places, Goto(p, to)
    PROVE  /\ place' \in [Procs -> Places] /\ place'[p] = to
           /\ \A q \in Procs \ {p} : place'[q] = place[q]
BY DEF ProfilesInv, ProfilesTypeOK, Goto

LEMMA SaveTokenStep ==
    ASSUME ProfilesInv, NEW p \in Procs, SaveToken(p)
    PROVE  ProfilesInv'
<1>1. place[p] = "handshake" /\ p \notin Activators
  BY DEF SaveToken, Activators
<1>2. CASE ~unlocked
  <2>1. Fail(p)
    BY <1>2 DEF SaveToken, Fail, disk
  <2> QED BY <1>1, <2>1, OperationFails
<1>3. CASE unlocked
  <2>1. entry[p] \in Profile /\ cmd[p] \in Commands /\ cmd[p].do \in {"add", "login"}
    BY <1>1 DEF ProfilesInv, Held
  <2>2. /\ keyring' = [keyring EXCEPT ![entry[p].name] = StoredToken]
        /\ Goto(p, "get") /\ UNCHANGED <<cmd, entry, loaded, draft, file, unlocked, started, disturbed>>
    BY <1>3 DEF SaveToken
  <2>3. entry[p].name \in Names /\ keyring \in [Names -> {StoredToken, Nothing}]
    BY <2>1 DEF Profile, ProfilesInv, ProfilesTypeOK
  <2>4. /\ keyring' \in [Names -> {StoredToken, Nothing}] /\ KeysKept
        /\ keyring'[entry[p].name] # Nothing
    BY <2>2, <2>3, NamesAssumption DEF KeysKept
  <2>5. place' \in [Procs -> Places] /\ place'[p] = "get" /\ \A q \in Procs \ {p} : place'[q] = place[q]
    BY <2>2, GotoTypes DEF Places
  <2>6. ProfilesTypeOK'
    BY <2>2, <2>4, <2>5 DEF ProfilesInv, ProfilesTypeOK
  <2>7. \A q \in Procs \ {p} : Untouched(q)
    BY <2>2, <2>5 DEF Untouched
  <2>8. Held(p)' /\ Drafted(p)'
    BY <2>1, <2>2, <2>4, <2>5 DEF Held, Drafted, Saving, Backed
  <2>9. AllBacked(file', keyring')
    <3>1. \A i \in DOMAIN file : file[i] \in Profile /\ Backed(file[i], keyring)
      BY DEF ProfilesInv, ProfilesTypeOK, AllBacked
    <3> QED BY <2>2, <2>4, <3>1, BackedKept DEF AllBacked
  <2>10. ~disturbed' => Settled(file', Pending')
    <3>1. \A n \in Pending : n \in Pending'
      BY <1>1, <2>7, PendingKept
    <3> QED BY <2>2, <3>1, SettledWeaker DEF ProfilesInv
  <2> QED BY <2>4, <2>6, <2>7, <2>8, <2>9, <2>10, Frame
<1> QED BY <1>2, <1>3

LEMMA GetProfileStep ==
    ASSUME ProfilesInv, NEW p \in Procs, GetProfile(p)
    PROVE  ProfilesInv'
<1>1. place[p] = "get" /\ p \notin Activators
  BY DEF GetProfile, Activators
<1>2. PICK to \in {"update", "add"} : Goto(p, to)
  BY DEF GetProfile
<1>3. UNCHANGED <<file, keyring, unlocked, disturbed, started, cmd, entry, loaded, draft>>
  BY DEF GetProfile, disk
<1>4. place' \in [Procs -> Places] /\ place'[p] = to /\ \A q \in Procs \ {p} : place'[q] = place[q]
  BY <1>2, GotoTypes DEF Places
<1>5. ProfilesTypeOK' /\ \A q \in Procs \ {p} : Untouched(q)
  BY <1>3, <1>4 DEF ProfilesInv, ProfilesTypeOK, Untouched
<1>6. Held(p)
  BY DEF ProfilesInv
<1>7. Held(p)' /\ Drafted(p)'
  BY <1>1, <1>3, <1>4, <1>6 DEF Held, Drafted, Saving
<1> QED BY <1>1, <1>3, <1>5, <1>7, CalmFrame

LEMMA FileSound == ASSUME ProfilesInv PROVE Sound(file, keyring)
BY DEF ProfilesInv, ProfilesTypeOK, Sound, Unique

LEMMA LoadTypes ==
    ASSUME ProfilesInv, NEW p \in Procs, NEW cfg \in Seq(Profile), Load(p, cfg),
           NEW to \in Places, Goto(p, to)
    PROVE  /\ ProfilesTypeOK' /\ \A q \in Procs \ {p} : Untouched(q)
           /\ UNCHANGED <<file, keyring, disturbed, cmd, entry>>
           /\ place'[p] = to /\ loaded'[p] = file /\ draft'[p] = cfg
           /\ Sound(loaded'[p], keyring')
<1>1. /\ place' \in [Procs -> Places] /\ place'[p] = to
      /\ \A q \in Procs \ {p} : place'[q] = place[q]
  BY GotoTypes
<1>2. file \in Seq(Profile)
  BY DEF ProfilesInv, ProfilesTypeOK
<1>3. /\ loaded' \in [Procs -> Seq(Profile)] /\ draft' \in [Procs -> Seq(Profile)]
      /\ loaded'[p] = file /\ draft'[p] = cfg
      /\ \A q \in Procs \ {p} : loaded'[q] = loaded[q] /\ draft'[q] = draft[q]
  BY <1>2 DEF ProfilesInv, ProfilesTypeOK, Load
<1>4. UNCHANGED <<file, keyring, unlocked, disturbed, started, cmd, entry>>
  BY DEF Load, disk
<1>5. ProfilesTypeOK'
  BY <1>1, <1>3, <1>4 DEF ProfilesInv, ProfilesTypeOK
<1> QED BY <1>1, <1>3, <1>4, <1>5, FileSound DEF Untouched

LEMMA AddProfileStep ==
    ASSUME ProfilesInv, NEW p \in Procs, AddProfile(p)
    PROVE  ProfilesInv'
<1>1. place[p] = "add" /\ p \notin Activators /\ Held(p)
  BY DEF AddProfile, Activators, ProfilesInv
<1>2. CASE Has(file, entry[p].name)
  BY <1>1, <1>2, OperationFails DEF AddProfile
<1>3. CASE ~Has(file, entry[p].name)
  <2>1. entry[p] \in Profile
    BY <1>1 DEF Held
  <2>2. Append(file, entry[p]) \in Seq(Profile)
    BY <2>1, FileSound, AppendSound, <1>1 DEF Sound, ProfilesInv, ProfilesTypeOK
  <2>3. /\ ProfilesTypeOK' /\ \A q \in Procs \ {p} : Untouched(q)
        /\ UNCHANGED <<file, keyring, disturbed, cmd, entry>>
        /\ place'[p] = "add saving" /\ loaded'[p] = file /\ draft'[p] = Append(file, entry[p])
        /\ Sound(loaded'[p], keyring')
    BY <1>3, <2>2, LoadTypes DEF AddProfile, Places
  <2>4. Held(p)' /\ Drafted(p)'
    BY <1>1, <1>3, <2>3 DEF Held, Drafted, Saving
  <2> QED BY <1>1, <2>3, <2>4, CalmFrame
<1> QED BY <1>2, <1>3

LEMMA UpdateProfileStep ==
    ASSUME ProfilesInv, NEW p \in Procs, UpdateProfile(p)
    PROVE  ProfilesInv'
<1>1. place[p] = "update" /\ p \notin Activators /\ Held(p)
  BY DEF UpdateProfile, Activators, ProfilesInv
<1>2. CASE ~Has(file, entry[p].name)
  <2>1. Goto(p, "add") /\ UNCHANGED <<file, keyring, unlocked, disturbed, started, cmd, entry, loaded, draft>>
    BY <1>2 DEF UpdateProfile, disk
  <2>2. place' \in [Procs -> Places] /\ place'[p] = "add" /\ \A q \in Procs \ {p} : place'[q] = place[q]
    BY <2>1, GotoTypes DEF Places
  <2>3. ProfilesTypeOK' /\ \A q \in Procs \ {p} : Untouched(q)
    BY <2>1, <2>2 DEF ProfilesInv, ProfilesTypeOK, Untouched
  <2>4. Held(p)' /\ Drafted(p)'
    BY <1>1, <2>1, <2>2 DEF Held, Drafted, Saving
  <2> QED BY <1>1, <2>1, <2>3, <2>4, CalmFrame
<1>3. CASE Has(file, entry[p].name)
  <2>1. entry[p] \in Profile
    BY <1>1 DEF Held
  <2>2. Replaced(file, entry[p]) \in Seq(Profile)
    BY <1>3, <2>1, ReplacedShape DEF ProfilesInv, ProfilesTypeOK
  <2>3. /\ ProfilesTypeOK' /\ \A q \in Procs \ {p} : Untouched(q)
        /\ UNCHANGED <<file, keyring, disturbed, cmd, entry>>
        /\ place'[p] = "update saving" /\ loaded'[p] = file /\ draft'[p] = Replaced(file, entry[p])
        /\ Sound(loaded'[p], keyring')
    BY <1>3, <2>2, LoadTypes DEF UpdateProfile, Places
  <2>4. Held(p)' /\ Drafted(p)'
    BY <1>1, <1>3, <2>3 DEF Held, Drafted, Saving
  <2> QED BY <1>1, <2>3, <2>4, CalmFrame
<1> QED BY <1>2, <1>3

LEMMA RemoveProfileStep ==
    ASSUME ProfilesInv, NEW p \in Procs, RemoveProfile(p)
    PROVE  ProfilesInv'
<1>1. place[p] = "remove" /\ p \notin Activators /\ Held(p)
  BY DEF RemoveProfile, Activators, ProfilesInv
<1>2. CASE ~Has(file, cmd[p].name)
  BY <1>1, <1>2, OperationFails DEF RemoveProfile
<1>3. CASE Has(file, cmd[p].name)
  <2>1. Without(file, cmd[p].name) \in Seq(Profile)
    BY <1>3, WithoutShape DEF ProfilesInv, ProfilesTypeOK
  <2>2. /\ ProfilesTypeOK' /\ \A q \in Procs \ {p} : Untouched(q)
        /\ UNCHANGED <<file, keyring, disturbed, cmd, entry>>
        /\ place'[p] = "remove saving" /\ loaded'[p] = file
        /\ draft'[p] = Without(file, cmd[p].name) /\ Sound(loaded'[p], keyring')
    BY <1>3, <2>1, LoadTypes DEF RemoveProfile, Places
  <2>3. Held(p)' /\ Drafted(p)'
    BY <1>1, <1>3, <2>2 DEF Held, Drafted, Saving
  <2> QED BY <1>1, <2>2, <2>3, CalmFrame
<1> QED BY <1>2, <1>3

LEMMA SetActiveStep ==
    ASSUME ProfilesInv, NEW p \in Procs, SetActive(p)
    PROVE  ProfilesInv'
<1>1. place[p] = "activate" /\ p \in Activators /\ Held(p)
  BY DEF SetActive, Activators, ProfilesInv
<1>2. CASE ~Has(file, Activating(p))
  BY <1>2, OperationFails DEF SetActive
<1>3. CASE Has(file, Activating(p))
  <2>1. Activated(file, Activating(p)) \in Seq(Profile)
    BY ActivatedShape DEF ProfilesInv, ProfilesTypeOK
  <2>2. /\ ProfilesTypeOK' /\ \A q \in Procs \ {p} : Untouched(q)
        /\ UNCHANGED <<file, keyring, disturbed, cmd, entry>>
        /\ place'[p] = "activate saving" /\ loaded'[p] = file
        /\ draft'[p] = Activated(file, Activating(p)) /\ Sound(loaded'[p], keyring')
    BY <1>3, <2>1, LoadTypes DEF SetActive, Places
  <2>3. Activating(p)' = Activating(p) /\ p \in Activators'
    BY <2>2 DEF Activating, Activators
  <2>4. Held(p)' /\ Drafted(p)'
    BY <1>1, <1>3, <2>2, <2>3 DEF Held, Drafted, Saving
  <2> QED BY <2>2, <2>3, <2>4, CalmFrame
<1> QED BY <1>2, <1>3

LEMMA DieStep ==
    ASSUME ProfilesInv, NEW p \in Procs, Die(p)
    PROVE  ProfilesInv'
<1>1. ProfilesTypeOK' /\ KeysKept /\ AllBacked(file', keyring')
  BY DoneStep DEF ProfilesInv, ProfilesTypeOK, Die, KeysKept
<1>2. disturbed'
  BY DEF Die
<1> QED BY <1>1, <1>2, DoneStep, Frame DEF Die

\* What a save puts on disk is a sound file with all that was loaded, but for what
\* the command removes.
LEMMA DraftSound ==
    ASSUME ProfilesInv, NEW p \in Procs, place[p] \in Saving
    PROVE  /\ Sound(draft[p], keyring)
           /\ \A n \in Names : Has(loaded[p], n) /\ cmd[p] # [do |-> "remove", name |-> n]
                                 => Has(draft[p], n)
<1>1. Sound(loaded[p], keyring) /\ Held(p) /\ Drafted(p)
  BY DEF ProfilesInv, Drafted
<1>2. CASE place[p] = "add saving"
  <2>1. entry[p] \in Profile /\ Backed(entry[p], keyring)
    BY <1>1, <1>2 DEF Held
  <2>2. draft[p] = Append(loaded[p], entry[p]) /\ ~Has(loaded[p], entry[p].name)
    BY <1>1, <1>2 DEF Drafted
  <2> QED BY <1>1, <2>1, <2>2, AppendSound
<1>3. CASE place[p] = "update saving"
  <2>1. entry[p] \in Profile /\ Backed(entry[p], keyring)
    BY <1>1, <1>3 DEF Held
  <2>2. draft[p] = Replaced(loaded[p], entry[p]) /\ Has(loaded[p], entry[p].name)
    BY <1>1, <1>3 DEF Drafted
  <2> QED BY <1>1, <2>1, <2>2, ReplacedSound
<1>4. CASE place[p] = "remove saving"
  <2>1. draft[p] = Without(loaded[p], cmd[p].name) /\ Has(loaded[p], cmd[p].name)
    BY <1>1, <1>4 DEF Drafted
  <2>2. cmd[p] = [do |-> "remove", name |-> cmd[p].name]
    BY <1>1, <1>4 DEF Held
  <2> QED BY <1>1, <2>1, <2>2, WithoutSound
<1>5. CASE place[p] = "activate saving"
  BY <1>1, <1>5, ActivatedSound DEF Drafted
<1> QED BY <1>2, <1>3, <1>4, <1>5 DEF Saving

LEMMA SaveFileStep ==
    ASSUME ProfilesInv, NEW p \in Procs, Save(p)
    PROVE  ProfilesInv'
<1>1. /\ place[p] \in Saving /\ file' = draft[p] /\ UNCHANGED <<keyring, unlocked, started>>
      /\ disturbed' = (disturbed \/ loaded[p] # file)
      /\ Held(p) /\ Drafted(p)
  BY DEF Save, ProfilesInv
<1>2. Sound(draft[p], keyring)
  BY <1>1, DraftSound
<1>3. AllBacked(file', keyring') /\ KeysKept
  BY <1>1, <1>2 DEF Sound, KeysKept
<1>4. /\ file' \in Seq(Profile)
      /\ \A i, j \in DOMAIN file' : file'[i].name = file'[j].name => i = j
  BY <1>1, <1>2 DEF Sound, Unique
<1> DEFINE goesOn == place[p] \in {"add saving", "update saving"} /\ entry[p].default
<1>5. /\ \A q \in Procs \ {p} : Untouched(q)
      /\ place' \in [Procs -> Places] /\ cmd' \in [Procs -> Commands \cup {Nothing}]
      /\ entry' \in [Procs -> Profile \cup {Nothing}]
      /\ loaded' \in [Procs -> Seq(Profile)] /\ draft' \in [Procs -> Seq(Profile)]
      /\ Held(p)' /\ Drafted(p)'
      /\ goesOn => p \in Activators' /\ Activating(p)' = entry[p].name
  <2>1. CASE ~goesOn
    BY <2>1, DoneStep DEF Save
  <2>2. CASE goesOn
    <3>1. /\ Goto(p, "activate") /\ UNCHANGED <<cmd, entry>>
          /\ loaded' = [loaded EXCEPT ![p] = <<>>] /\ draft' = [draft EXCEPT ![p] = <<>>]
      BY <2>2 DEF Save
    <3>2. /\ place' \in [Procs -> Places] /\ place'[p] = "activate"
          /\ \A q \in Procs \ {p} : place'[q] = place[q]
      BY <3>1, GotoTypes DEF Places
    <3>3. <<>> \in Seq(Profile)
      OBVIOUS
    <3>4. /\ loaded' \in [Procs -> Seq(Profile)] /\ draft' \in [Procs -> Seq(Profile)]
          /\ \A q \in Procs \ {p} : loaded'[q] = loaded[q] /\ draft'[q] = draft[q]
      BY <3>1, <3>3 DEF ProfilesInv, ProfilesTypeOK
    <3>5. entry[p] \in Profile /\ cmd[p] \in Commands /\ cmd[p].do \in {"add", "login"}
      BY <1>1, <2>2 DEF Held
    <3>6. Held(p)' /\ Drafted(p)'
      BY <3>1, <3>2, <3>5 DEF Held, Drafted, Saving
    <3>7. p \in Activators' /\ Activating(p)' = entry[p].name
      BY <3>1, <3>2, <3>5 DEF Activators, Activating
    <3>8. cmd' \in [Procs -> Commands \cup {Nothing}] /\ entry' \in [Procs -> Profile \cup {Nothing}]
      BY <3>1 DEF ProfilesInv, ProfilesTypeOK
    <3>9. \A q \in Procs \ {p} : Untouched(q)
      BY <3>1, <3>2, <3>4 DEF Untouched
    <3> QED BY <3>2, <3>4, <3>6, <3>7, <3>8, <3>9
  <2> QED BY <2>1, <2>2
<1>6. ProfilesTypeOK'
  BY <1>1, <1>4, <1>5 DEF ProfilesInv, ProfilesTypeOK
<1>7. ASSUME ~disturbed' PROVE Settled(file', Pending')
  <2>1. ~disturbed /\ loaded[p] = file /\ Settled(loaded[p], Pending)
    BY <1>1, <1>7 DEF ProfilesInv
  <2>2. loaded[p] \in Seq(Profile) /\ Unique(loaded[p])
    BY <1>1 DEF Drafted, Sound
  <2>3. p \notin Activators => Pending \subseteq Pending'
    BY <1>5, PendingKept
  <2>4. CASE place[p] \in {"add saving", "update saving"}
    <3>1. entry[p] \in Profile /\ p \notin Activators
      BY <1>1, <2>4 DEF Held, Activators
    <3>2. entry[p].default => entry[p].name \in Pending'
      BY <1>5, <2>4 DEF Pending
    <3>3. CASE place[p] = "add saving"
      <4>1. file' = Append(loaded[p], entry[p])
        BY <1>1, <3>3 DEF Drafted
      <4>2. Pending \subseteq Pending'
        BY <2>3, <3>1
      <4>3. Settled(Append(loaded[p], entry[p]), Pending')
        BY <2>1, <2>2, <3>1, <3>2, <4>1, <4>2, AppendSettled
      <4> QED BY <4>1, <4>3
    <3>4. CASE place[p] = "update saving"
      <4>1. file' = Replaced(loaded[p], entry[p]) /\ Has(loaded[p], entry[p].name)
        BY <1>1, <3>4 DEF Drafted
      <4>2. Pending \subseteq Pending'
        BY <2>3, <3>1
      <4>3. Settled(Replaced(loaded[p], entry[p]), Pending')
        BY <2>1, <2>2, <3>1, <3>2, <4>1, <4>2, ReplacedSettled
      <4> QED BY <4>1, <4>3
    <3> QED BY <2>4, <3>3, <3>4
  <2>5. CASE place[p] = "remove saving"
    <3>1. p \notin Activators
      BY <2>5 DEF Activators
    <3> QED BY <1>1, <2>1, <2>2, <2>3, <2>5, <3>1, WithoutSettled DEF Drafted
  <2>6. CASE place[p] = "activate saving"
    BY <1>1, <2>2, <2>6, ActivatedSettled DEF Drafted
  <2> QED BY <1>1, <2>4, <2>5, <2>6 DEF Saving
<1> QED BY <1>3, <1>5, <1>6, <1>7, Frame

LEMMA KeyringStep ==
    ASSUME ProfilesInv, KeyringFlips
    PROVE  ProfilesInv'
<1>1. UNCHANGED <<file, keyring, started, disturbed, place, cmd, entry, loaded, draft>>
  BY DEF KeyringFlips
<1>2. unlocked' \in BOOLEAN
  BY DEF KeyringFlips, ProfilesInv, ProfilesTypeOK
<1>3. ProfilesTypeOK' /\ KeysKept /\ \A q \in Procs : Untouched(q)
  BY <1>1, <1>2 DEF ProfilesInv, ProfilesTypeOK, KeysKept, Untouched
<1>4. \A q \in Procs : Held(q)' /\ Drafted(q)'
  BY <1>3, UntouchedKept DEF ProfilesInv
<1>5. Pending' = Pending
  BY <1>1 DEF Pending, Activators, Activating
<1>6. AllBacked(file, keyring)' /\ (~disturbed' => Settled(file, Pending)')
  BY <1>1, <1>5 DEF ProfilesInv
<1> QED BY <1>3, <1>4, <1>6 DEF ProfilesInv

LEMMA NextHolds == ProfilesInv /\ [ProfilesNext]_profileVars => ProfilesInv'
<1> SUFFICES ASSUME ProfilesInv, [ProfilesNext]_profileVars
             PROVE  ProfilesInv'
  OBVIOUS
<1>1. CASE KeyringFlips
  BY <1>1, KeyringStep
<1>2. ASSUME NEW p \in Procs, Command(p)
      PROVE  ProfilesInv'
  BY <1>2, UseStep, RemoveStep, AddStep, LoginStep DEF Command
<1>3. ASSUME NEW p \in Procs, SaveToken(p) \/ GetProfile(p)
      PROVE  ProfilesInv'
  BY <1>3, SaveTokenStep, GetProfileStep
<1>4. ASSUME NEW p \in Procs, AddProfile(p) \/ UpdateProfile(p) \/ RemoveProfile(p) \/ SetActive(p)
      PROVE  ProfilesInv'
  BY <1>4, AddProfileStep, UpdateProfileStep, RemoveProfileStep, SetActiveStep
<1>5. ASSUME NEW p \in Procs, Save(p) \/ Die(p)
      PROVE  ProfilesInv'
  BY <1>5, SaveFileStep, DieStep
<1>6. CASE UNCHANGED profileVars
  <2>1. UNCHANGED <<file, keyring, unlocked, started, place, cmd, entry, loaded, draft, disturbed>>
    BY <1>6 DEF profileVars
  <2>2. ProfilesTypeOK' /\ KeysKept /\ \A q \in Procs : Untouched(q)
    BY <2>1 DEF ProfilesInv, ProfilesTypeOK, KeysKept, Untouched
  <2>3. Pending' = Pending
    BY <2>1 DEF Pending, Activators, Activating
  <2> QED BY <2>1, <2>2, <2>3, UntouchedKept DEF ProfilesInv
<1> QED BY <1>1, <1>2, <1>3, <1>4, <1>5, <1>6 DEF ProfilesNext

THEOREM ProfilesInvariance == ProfilesSpec => []ProfilesInv
BY InitHolds, NextHolds, PTL DEF ProfilesSpec

\* For every number of processes, names and commands, no name is ever twice in the
\* file: every operation that adds one has loaded the file it replaces.
THEOREM ProfilesTyped == ProfilesSpec => []ProfilesTypeOK
<1>1. ProfilesInv => ProfilesTypeOK
  BY DEF ProfilesInv
<1> QED BY <1>1, ProfilesInvariance, PTL

\* While the keyring answers, no profile of the file resolves to a reference that
\* has no token behind it.
THEOREM ReferencesBacked == ProfilesSpec => []RefsBacked
<1>1. ProfilesInv => RefsBacked
  <2> SUFFICES ASSUME ProfilesInv, unlocked, NEW i \in DOMAIN file
               PROVE  Resolved(file[i]) \in {StoredToken, Nothing}
    BY DEF RefsBacked
  <2>1. file[i] \in Profile /\ Backed(file[i], keyring)
    BY DEF ProfilesInv, ProfilesTypeOK, AllBacked
  <2>2. keyring[file[i].name] \in {StoredToken, Nothing}
    BY <2>1 DEF Profile, ProfilesInv, ProfilesTypeOK
  <2> QED BY <2>1, <2>2 DEF Backed, Resolved
<1> QED BY <1>1, ProfilesInvariance, PTL

\* When no command runs and none has died or saved over another's change, one
\* profile at most is the default.
THEOREM DefaultIsOne == ProfilesSpec => []OneDefault
<1>1. ProfilesInv => OneDefault
  <2> SUFFICES ASSUME ProfilesInv, \A p \in Procs : place[p] = "idle", ~disturbed
               PROVE  \A i, j \in Defaults(file) : i = j
    BY DEF OneDefault
  <2>1. Pending = {}
    BY DEF Pending, Activators
  <2> QED BY <2>1 DEF ProfilesInv, Settled
<1> QED BY <1>1, ProfilesInvariance, PTL

\* A profile goes only by a remove, or by a save of a file that another process has
\* changed since its load.
THEOREM ProfilesStay == ProfilesSpec => NothingVanishes
<1>1. ProfilesInv /\ [ProfilesNext]_profileVars =>
        [\A n \in Names : Has(file, n) /\ ~Has(file', n)
         => \E p \in Procs : Saves(p) /\ (Stale(p) \/ cmd[p] = [do |-> "remove", name |-> n])]_profileVars
  <2> SUFFICES ASSUME ProfilesInv, ProfilesNext, NEW n \in Names, Has(file, n), ~Has(file', n)
               PROVE  \E p \in Procs : /\ Saves(p)
                                       /\ Stale(p) \/ cmd[p] = [do |-> "remove", name |-> n]
    OBVIOUS
  <2>1. file' # file
    OBVIOUS
  <2>2. PICK p \in Procs : Save(p)
    <3>1. KeyringFlips => file' = file
      BY DEF KeyringFlips
    <3>2. \A p \in Procs : Command(p) => file' = file
      BY DEF Command, Use, RemoveCommand, Add, LoginAs, Begin, disk
    <3>3. \A p \in Procs : SaveToken(p) \/ GetProfile(p) \/ Die(p) => file' = file
      BY DEF SaveToken, GetProfile, Die, disk
    <3>4. \A p \in Procs : AddProfile(p) \/ UpdateProfile(p) => file' = file
      BY DEF AddProfile, UpdateProfile, Load, Fail, disk
    <3>5. \A p \in Procs : RemoveProfile(p) \/ SetActive(p) => file' = file
      BY DEF RemoveProfile, SetActive, Load, Fail, disk
    <3> QED BY <2>1, <3>1, <3>2, <3>3, <3>4, <3>5 DEF ProfilesNext
  <2>3. place[p] \in Saving /\ file' = draft[p]
    BY <2>2 DEF Save
  <2>4. place'[p] # place[p]
    <3>1. place'[p] \in {"idle", "activate"}
      BY <2>2 DEF Save, Done, Goto, ProfilesInv, ProfilesTypeOK
    <3> QED BY <2>3, <3>1 DEF Saving
  <2>5. Stale(p) \/ cmd[p] = [do |-> "remove", name |-> n]
    BY <2>3, DraftSound DEF Stale
  <2> QED BY <2>3, <2>4, <2>5 DEF Saves
<1> QED BY <1>1, ProfilesInvariance, PTL DEF ProfilesSpec, NothingVanishes
==============================================================================
