---------------------- MODULE ServiceTokenMinterProofs ----------------------
(***************************************************************************)
(* Theorems about ServiceTokenMinter for any set of callers, any lifetimes *)
(* and any margin that covers the latency of a token request.              *)
(***************************************************************************)
EXTENDS ServiceTokenMinter, SequenceTheorems, TLAPS

-----------------------------------------------------------------------------
(* Lemmas on the line at the lock. *)

\* r is q without its i-th member.
Without(q, i, r) ==
    /\ r \in Seq(Callers)
    /\ Len(r) = Len(q) - 1
    /\ \A j \in 1..(Len(q) - 1) : r[j] = IF j < i THEN q[j] ELSE q[j+1]

\* A cancelled waiter leaves the line and the others keep their order.
LEMMA RemoveAtLeaves ==
  ASSUME NEW q \in Seq(Callers), NEW i \in DOMAIN q
  PROVE  Without(q, i, RemoveAt(q, i))
<1> DEFINE a == SubSeq(q, 1, i-1)
           b == SubSeq(q, i+1, Len(q))
<1>0. i \in 1..Len(q) /\ Len(q) \in Nat /\ \A j \in 1..Len(q) : q[j] \in Callers
  OBVIOUS
<1>1. /\ a \in Seq(Callers) /\ Len(a) = i - 1
      /\ \A j \in 1..(i-1) : a[j] = q[j]
  <2>1. \A j \in 1..(i-1) : q[j] \in Callers BY <1>0
  <2>2. 1 \in Int /\ i-1 \in Int BY <1>0
  <2> QED BY <1>0, <2>1, <2>2, SubSeqProperties
<1>2. /\ b \in Seq(Callers) /\ Len(b) = Len(q) - i
      /\ \A j \in 1..(Len(q) - i) : b[j] = q[i+j]
  <2>1. \A j \in (i+1)..Len(q) : q[j] \in Callers BY <1>0
  <2>2. i+1 \in Int /\ Len(q) \in Int BY <1>0
  <2> QED BY <1>0, <2>1, <2>2, SubSeqProperties
<1> HIDE DEF a, b
<1>3. /\ a \o b \in Seq(Callers) /\ Len(a \o b) = Len(a) + Len(b)
      /\ \A j \in 1..(Len(a) + Len(b)) :
            (a \o b)[j] = IF j <= Len(a) THEN a[j] ELSE b[j - Len(a)]
  BY <1>1, <1>2, ConcatProperties
<1>4. \A j \in 1..(Len(q) - 1) : (a \o b)[j] = IF j < i THEN q[j] ELSE q[j+1]
  <2> TAKE j \in 1..(Len(q) - 1)
  <2>1. CASE j < i
    <3>1. j \in 1..(i-1) /\ j <= Len(a) BY <1>0, <1>1, <2>1
    <3>2. j \in 1..(Len(a) + Len(b)) BY <1>0, <1>1, <1>2
    <3>3. (a \o b)[j] = a[j] BY <1>3, <3>1, <3>2
    <3> QED BY <1>1, <2>1, <3>1, <3>3
  <2>2. CASE ~(j < i)
    <3>1. j - Len(a) \in 1..(Len(q) - i) /\ i + (j - Len(a)) = j + 1
      BY <1>0, <1>1, <2>2
    <3>2. j \in 1..(Len(a) + Len(b)) /\ ~(j <= Len(a))
      BY <1>0, <1>1, <1>2, <2>2
    <3>3. (a \o b)[j] = b[j - Len(a)] BY <1>3, <3>2
    <3> QED BY <1>2, <2>2, <3>1, <3>3
  <2> QED BY <2>1, <2>2
<1>5. Len(a \o b) = Len(q) - 1 BY <1>0, <1>1, <1>2, <1>3
<1>6. RemoveAt(q, i) = a \o b BY DEF RemoveAt, a, b
<1> QED BY <1>3, <1>4, <1>5, <1>6 DEF Without

\* Whoever releases the lock leaves the head of the line.
LEMMA TailLeaves ==
  ASSUME NEW q \in Seq(Callers), q # <<>>
  PROVE  1 \in DOMAIN q /\ Head(q) = q[1] /\ Without(q, 1, Tail(q))
  BY HeadTailProperties DEF Without

-----------------------------------------------------------------------------
(* Types and the line at the lock, which need each other. *)

Line == TypeOK /\ LockDiscipline

\* The initial states satisfy Line.
LEMMA LineInit == Init => Line
  BY DEF Init, Line, TypeOK, LockDiscipline, NoToken, Tokens

\* A member leaves the line and goes on without the lock.
LEMMA Leaves ==
  ASSUME Line, NEW i \in DOMAIN queue, NEW s \in {"idle", "using"},
         Without(queue, i, queue'), pc' = [pc EXCEPT ![queue[i]] = s]
  PROVE  LockDiscipline'
<1>0. /\ Len(queue) \in Nat /\ i \in 1..Len(queue) /\ DOMAIN queue = 1..Len(queue)
      /\ DOMAIN queue' = 1..(Len(queue) - 1)
      /\ \A k \in 1..Len(queue) : queue[k] \in Callers
      /\ pc \in [Callers -> {"idle", "waiting", "minting", "using"}]
  BY DEF Without, Line, TypeOK
<1> DEFINE old(k) == IF k < i THEN k ELSE k + 1
<1>a. \A k \in 1..(Len(queue) - 1) :
         old(k) \in 1..Len(queue) /\ old(k) # i /\ (k > 1 => old(k) > 1)
  BY <1>0
<1>b. \A k \in 1..(Len(queue) - 1) : queue'[k] = queue[old(k)]
  BY <1>0 DEF Without
<1>2. \A k, l \in DOMAIN queue' : old(k) = old(l) => k = l
  BY <1>0
<1> HIDE DEF old
<1>c. \A k \in 1..Len(queue) : k # i => queue[k] # queue[i]
  BY <1>0 DEF Line, LockDiscipline
<1>d. \A k \in 1..Len(queue) : k # i => pc'[queue[k]] = pc[queue[k]]
  BY <1>0, <1>c
<1>1. \A k \in DOMAIN queue' : /\ old(k) \in DOMAIN queue /\ old(k) # i
                               /\ queue'[k] = queue[old(k)]
                               /\ pc'[queue'[k]] = pc[queue[old(k)]]
                               /\ k > 1 => old(k) > 1
  BY <1>0, <1>a, <1>b, <1>d
<1>3. \A k \in DOMAIN queue' :
         pc'[queue'[k]] = "waiting" \/ (k = 1 /\ pc'[queue'[k]] = "minting")
  BY <1>0, <1>1 DEF Line, LockDiscipline
<1>4. \A k, l \in DOMAIN queue' : queue'[k] = queue'[l] => k = l
  BY <1>1, <1>2 DEF Line, LockDiscipline
<1>5. ASSUME NEW c \in Callers, pc'[c] = "minting"
      PROVE  queue' # <<>> /\ queue'[1] = c
  <2>1. c # queue[i] /\ pc[c] = "minting" BY <1>0, <1>5
  <2>2. queue # <<>> /\ queue[1] = c BY <2>1 DEF Line, LockDiscipline
  <2>3. i > 1 /\ 1 \in 1..(Len(queue) - 1) BY <1>0, <2>1, <2>2
  <2> QED BY <1>0, <2>2, <2>3 DEF Without
<1> QED BY <1>3, <1>4, <1>5 DEF LockDiscipline

\* The head of the line goes on without the lock.
LEMMA HeadLeaves ==
  ASSUME Line, NEW c \in Callers, NEW s \in {"idle", "using"},
         queue # <<>>, queue[1] = c,
         queue' = Tail(queue), pc' = [pc EXCEPT ![c] = s]
  PROVE  queue' \in Seq(Callers) /\ LockDiscipline'
<1>1. queue \in Seq(Callers) BY DEF Line, TypeOK
<1>2. 1 \in DOMAIN queue /\ Without(queue, 1, queue') BY <1>1, TailLeaves
<1>3. LockDiscipline' BY <1>2, Leaves
<1> QED BY <1>2, <1>3 DEF Without

\* A caller that finds the cache stale takes the lock or joins the line at its end.
LEMMA LineMiss == ASSUME Line, NEW c \in Callers, Miss(c) PROVE Line'
<1> USE DEF Line, TypeOK
<1>0. /\ queue' = Append(queue, c) /\ queue' \in Seq(Callers)
      /\ Len(queue) \in Nat /\ DOMAIN queue = 1..Len(queue)
      /\ Len(queue') = Len(queue) + 1 /\ DOMAIN queue' = 1..(Len(queue) + 1)
      /\ \A i \in 1..Len(queue) : queue'[i] = queue[i]
      /\ queue'[Len(queue) + 1] = c /\ queue' # <<>>
  BY AppendProperties DEF Miss
<1>1. \A i \in 1..Len(queue) : queue[i] \in Callers /\ queue[i] # c
  <2>1. pc[c] = "idle" BY DEF Miss
  <2>2. \A i \in 1..Len(queue) : pc[queue[i]] \in {"waiting", "minting"}
    BY <1>0 DEF LockDiscipline
  <2>3. \A i \in 1..Len(queue) : queue[i] \in Callers BY ElementOfSeq
  <2> QED BY <2>1, <2>2, <2>3
<1>2. TypeOK'
  BY <1>0 DEF Miss, Request
<1>3. CASE queue = <<>>
  <2>1. Len(queue) = 0 BY <1>3
  <2>2. pc' = [pc EXCEPT ![c] = "minting"] BY <1>3 DEF Miss, Request
  <2>3. \A d \in Callers : pc[d] # "minting" BY <1>3 DEF LockDiscipline
  <2> QED BY <1>0, <1>2, <2>1, <2>2, <2>3 DEF LockDiscipline
<1>4. CASE queue # <<>>
  <2>1. Len(queue) > 0 BY <1>0, <1>4, EmptySeq
  <2>2. pc' = [pc EXCEPT ![c] = "waiting"] BY <1>4 DEF Miss
  <2>3. \A i \in DOMAIN queue' :
           pc'[queue'[i]] = "waiting" \/ (i = 1 /\ pc'[queue'[i]] = "minting")
    BY <1>0, <1>1, <2>1, <2>2 DEF LockDiscipline
  <2>4. \A i, j \in DOMAIN queue' : queue'[i] = queue'[j] => i = j
    BY <1>0, <1>1 DEF LockDiscipline
  <2>5. \A d \in Callers : pc'[d] = "minting" => queue'[1] = d
    BY <1>0, <2>1, <2>2 DEF LockDiscipline
  <2> QED BY <1>0, <1>2, <2>3, <2>4, <2>5 DEF LockDiscipline
<1> QED BY <1>3, <1>4

\* The head of the line takes the lock, or leaves with the token it finds.
LEMMA LineEnter == ASSUME Line, NEW c \in Callers, Enter(c) PROVE Line'
<1>1. queue # <<>> /\ queue[1] = c /\ 1 \in DOMAIN queue
  BY TailLeaves DEF Enter, Line, TypeOK
<1>2. CASE Fresh
  <2>1. queue' \in Seq(Callers) /\ LockDiscipline'
    BY <1>1, <1>2, HeadLeaves DEF Enter, Return
  <2> QED BY <1>2, <2>1 DEF Enter, Return, Line, TypeOK
<1>3. CASE ~Fresh
  <2>1. /\ pc' = [pc EXCEPT ![c] = "minting"] /\ UNCHANGED queue
        /\ \A d \in Callers : pc[d] # "minting"
    BY <1>1, <1>3 DEF Enter, Request, Line, LockDiscipline, TypeOK
  <2>2. TypeOK' BY <1>3, <2>1 DEF Enter, Request, Line, TypeOK
  <2> QED BY <1>1, <2>1, <2>2 DEF Line, LockDiscipline, TypeOK
<1> QED BY <1>2, <1>3

\* The two ways out of _mint.
LEMMA LineMintEnds ==
  ASSUME Line, NEW c \in Callers, Minted(c) \/ MintFails(c) PROVE Line'
<1>1. queue # <<>> /\ queue[1] = c
  BY DEF Minted, MintFails, Line, LockDiscipline
<1>2. queue' \in Seq(Callers) /\ LockDiscipline'
  BY <1>1, HeadLeaves DEF Minted, MintFails, Return
<1>3. answer[c] \in Tokens BY DEF Line, TypeOK
<1>4. NoToken \in Tokens BY DEF NoToken, Tokens
<1>5. now + answer[c].life \in Nat BY <1>3 DEF Line, TypeOK, Tokens
<1> QED BY <1>2, <1>3, <1>4, <1>5 DEF Minted, MintFails, Return, Line, TypeOK

\* A cancelled caller leaves the line wherever it stands.
LEMMA LineCancelled ==
  ASSUME Line, NEW i \in DOMAIN queue, Cancelled(i) PROVE Line'
<1>1. queue \in Seq(Callers) BY DEF Line, TypeOK
<1>2. Without(queue, i, queue') BY <1>1, RemoveAtLeaves DEF Cancelled
<1>3. LockDiscipline' BY <1>2, Leaves DEF Cancelled
<1> QED BY <1>2, <1>3 DEF Cancelled, Without, Line, TypeOK

\* The steps that leave the line alone.
LEMMA LineQuiet ==
  ASSUME Line,
         \/ \E c \in Callers : Hit(c) \/ AuthIssues(c) \/ Done(c) \/ Invalidate(c)
         \/ RotateKey \/ Tick \/ UNCHANGED vars
  PROVE  Line'
<1> USE DEF Line, TypeOK
<1>1. ASSUME NEW c \in Callers, Hit(c) \/ Done(c) \/ Invalidate(c) PROVE Line'
  <2>0. NoToken \in Tokens BY DEF NoToken, Tokens
  <2>1. TypeOK'
    <3>1. CASE Hit(c) BY <3>1 DEF Hit, Return
    <3>2. CASE Done(c) BY <3>2, <2>0 DEF Done
    <3>3. CASE Invalidate(c) BY <3>3, <2>0 DEF Invalidate
    <3> QED BY <1>1, <3>1, <3>2, <3>3
  <2>2. /\ UNCHANGED queue /\ pc[c] \notin {"waiting", "minting"}
        /\ pc' = [pc EXCEPT ![c] = pc'[c]] /\ pc'[c] \notin {"waiting", "minting"}
    BY <1>1 DEF Hit, Done, Invalidate, Return
  <2>3. \A d \in Callers : pc'[d] = IF d = c THEN pc'[c] ELSE pc[d] BY <2>2
  <2>4. \A i \in DOMAIN queue : queue[i] \in Callers /\ queue[i] # c
    BY <2>2 DEF LockDiscipline
  <2>5. \A d \in Callers : pc'[d] = "minting" => pc[d] = "minting"
    BY <2>2, <2>3
  <2>6. \A i \in DOMAIN queue : pc'[queue[i]] = pc[queue[i]] BY <2>3, <2>4
  <2>7. LockDiscipline' BY <2>2, <2>5, <2>6 DEF LockDiscipline
  <2> QED BY <2>1, <2>7
<1>2. ASSUME NEW c \in Callers, AuthIssues(c) PROVE Line'
  <2>1. PICK l \in Lifetimes :
          answer' = [answer EXCEPT ![c] = [key |-> key, exp |-> now + l, life |-> l]]
    BY <1>2 DEF AuthIssues
  <2>2. [key |-> key, exp |-> now + l, life |-> l] \in Tokens
    BY LifetimesAssumption DEF Tokens
  <2> QED BY <1>2, <2>1, <2>2 DEF AuthIssues, LockDiscipline
<1>3. CASE RotateKey \/ Tick \/ UNCHANGED vars
  BY <1>3 DEF RotateKey, Tick, vars, LockDiscipline
<1> QED BY <1>1, <1>2, <1>3

\* Every step preserves Line.
LEMMA LineStep == Line /\ [Next]_vars => Line'
  BY LineMiss, LineEnter, LineMintEnds, LineCancelled, LineQuiet DEF Next

\* Types are kept and the lock is held by one caller at a time.
THEOREM LineCorrect == Spec => []Line
  BY LineInit, LineStep, PTL DEF Spec

\* Every reachable state of the minter is well typed.
THEOREM TypeCorrect == Spec => []TypeOK
  BY LineCorrect, PTL DEF Line

\* At most one caller mints, and it stands at the head of the line.
THEOREM LockHolds == Spec => []LockDiscipline
  BY LineCorrect, PTL DEF Line

-----------------------------------------------------------------------------
(***************************************************************************)
(* The life of tokens.  A request is answered within MaxLatency, so when   *)
(* _mint counts expires_in from the moment the answer arrives it is late   *)
(* by at most that much; the margin takes it back.                         *)
(***************************************************************************)
AnswerTimely ==
    \A c \in Callers :
      /\ pc[c] # "minting" => answer[c] = NoToken
      /\ pc[c] = "minting" => sentAt[c] <= now /\ now <= sentAt[c] + MaxLatency
      /\ answer[c] # NoToken =>
           /\ answer[c].life \in Lifetimes
           /\ sentAt[c] + answer[c].life <= answer[c].exp
           /\ answer[c].exp <= now + answer[c].life

LifeInv == AnswerTimely /\ ExpiryTracked /\ NoWastedMint

\* The initial states satisfy LifeInv.
LEMMA LifeInit == Init => LifeInv
  BY LimitsAssumption DEF Init, LifeInv, AnswerTimely, ExpiryTracked, NoWastedMint

\* A fresh token is alive, by the margin.
LEMMA FreshIsAlive == ASSUME Line, LifeInv, Fresh PROVE now < cached.exp
<1>1. now \in Nat /\ cachedExp \in Nat /\ cached.exp \in Nat
  BY DEF Line, TypeOK, Tokens
<1> QED BY <1>1, LimitsAssumption, LatencyAssumption DEF LifeInv, ExpiryTracked, Fresh

\* The token in an answer that has just arrived is alive.
LEMMA AnswerIsAlive ==
  ASSUME Line, LifeInv, NEW c \in Callers, Minted(c)
  PROVE  /\ now < answer[c].exp
         /\ answer[c].exp <= now + answer[c].life
         /\ now + answer[c].life <= answer[c].exp + MaxLatency
<1>1. /\ now \in Nat /\ sentAt[c] \in Nat
      /\ answer[c].exp \in Nat /\ answer[c].life \in Nat
  BY DEF Line, TypeOK, Tokens
<1>2. /\ pc[c] = "minting" /\ answer[c] # NoToken BY DEF Minted
<1>3. /\ now <= sentAt[c] + MaxLatency
      /\ answer[c].life \in Lifetimes
      /\ sentAt[c] + answer[c].life <= answer[c].exp
      /\ answer[c].exp <= now + answer[c].life
  BY <1>2 DEF LifeInv, AnswerTimely
<1>4. MaxLatency < answer[c].life BY <1>3, LatencyAssumption
<1> QED BY <1>1, <1>3, <1>4, LimitsAssumption

\* c starts a request under the lock.
LEMMA LifeRequest ==
  ASSUME Line, LifeInv, NEW c \in Callers, pc[c] # "minting", ~Fresh, Request(c),
         UNCHANGED <<now, cached, cachedExp, answer>>
  PROVE  LifeInv'
<1>1. now \in Nat BY DEF Line, TypeOK
<1>2. AnswerTimely'
  BY <1>1, LimitsAssumption DEF LifeInv, AnswerTimely, Request, Line, TypeOK
<1>3. ExpiryTracked' BY DEF LifeInv, ExpiryTracked
<1>4. NoWastedMint' BY DEF NoWastedMint, Fresh
<1> QED BY <1>2, <1>3, <1>4 DEF LifeInv

\* Steps that neither start a request nor touch cache, clock or answers.
LEMMA LifeQuiet ==
  ASSUME LifeInv, UNCHANGED <<now, cached, cachedExp, answer, sentAt>>,
         \A d \in Callers : pc'[d] = "minting" <=> pc[d] = "minting"
  PROVE  LifeInv'
  BY DEF LifeInv, AnswerTimely, ExpiryTracked, NoWastedMint, Fresh

\* Every step preserves LifeInv.
LEMMA LifeStep == Line /\ LifeInv /\ [Next]_vars => LifeInv'
<1> SUFFICES ASSUME Line, LifeInv, [Next]_vars PROVE LifeInv'
  OBVIOUS
<1>0. pc \in [Callers -> {"idle", "waiting", "minting", "using"}] BY DEF Line, TypeOK
<1>1. ASSUME NEW c \in Callers, Hit(c) \/ Done(c) PROVE LifeInv'
  <2>1. \A d \in Callers : pc'[d] = "minting" <=> pc[d] = "minting"
    BY <1>0, <1>1 DEF Hit, Done, Return
  <2> QED BY <1>1, <2>1, LifeQuiet DEF Hit, Done
<1>2. ASSUME NEW c \in Callers, Miss(c) PROVE LifeInv'
  <2>1. CASE queue = <<>> BY <1>2, <2>1, LifeRequest DEF Miss
  <2>2. CASE queue # <<>>
    <3>1. \A d \in Callers : pc'[d] = "minting" <=> pc[d] = "minting"
      BY <1>0, <1>2, <2>2 DEF Miss
    <3> QED BY <1>2, <2>2, <3>1, LifeQuiet DEF Miss
  <2> QED BY <2>1, <2>2
<1>3. ASSUME NEW c \in Callers, Enter(c) PROVE LifeInv'
  <2>1. CASE ~Fresh BY <1>3, <2>1, LifeRequest DEF Enter
  <2>2. CASE Fresh
    <3>1. \A d \in Callers : pc'[d] = "minting" <=> pc[d] = "minting"
      BY <1>0, <1>3, <2>2 DEF Enter, Return
    <3> QED BY <1>3, <2>2, <3>1, LifeQuiet DEF Enter
  <2> QED BY <2>1, <2>2
<1>4. ASSUME NEW c \in Callers, AuthIssues(c) PROVE LifeInv'
  <2>1. PICK l \in Lifetimes :
          answer' = [answer EXCEPT ![c] = [key |-> key, exp |-> now + l, life |-> l]]
    BY <1>4 DEF AuthIssues
  <2>2. now \in Nat /\ l \in Nat /\ sentAt[c] \in Nat
    BY LifetimesAssumption DEF Line, TypeOK
  <2>3. AnswerTimely'
    BY <1>4, <2>1, <2>2 DEF LifeInv, AnswerTimely, AuthIssues, Line, TypeOK
  <2> QED BY <1>4, <2>3 DEF LifeInv, AuthIssues, ExpiryTracked, NoWastedMint, Fresh
<1>5. ASSUME NEW c \in Callers, Minted(c) PROVE LifeInv'
  <2>1. \A d \in Callers : pc'[d] # "minting"
    BY <1>0, <1>5 DEF Minted, Return, Line, LockDiscipline
  <2>2. \A d \in Callers : answer'[d] = NoToken
    BY <1>5, <2>1 DEF Minted, Return, LifeInv, AnswerTimely, Line, TypeOK, LockDiscipline
  <2>3. ExpiryTracked' BY <1>5, AnswerIsAlive DEF Minted, ExpiryTracked
  <2> QED BY <2>1, <2>2, <2>3 DEF LifeInv, AnswerTimely, NoWastedMint
<1>6. ASSUME NEW c \in Callers, MintFails(c) PROVE LifeInv'
  BY <1>0, <1>6 DEF MintFails, LifeInv, AnswerTimely, ExpiryTracked, NoWastedMint, Fresh,
     Line, TypeOK
<1>7. ASSUME NEW c \in Callers, Invalidate(c) PROVE LifeInv'
  BY <1>0, <1>7 DEF Invalidate, LifeInv, AnswerTimely, ExpiryTracked, NoWastedMint, Fresh
<1>8. ASSUME NEW i \in DOMAIN queue, Cancelled(i) PROVE LifeInv'
  <2>1. \A d \in Callers : pc'[d] = "minting" <=> pc[d] = "minting"
    BY <1>0, <1>8 DEF Cancelled
  <2> QED BY <1>8, <2>1, LifeQuiet DEF Cancelled
<1>9. CASE RotateKey \/ UNCHANGED vars
  <2>1. UNCHANGED <<now, cached, cachedExp, answer, sentAt, pc>>
    BY <1>9 DEF RotateKey, vars
  <2> QED BY <2>1, LifeQuiet
<1>10. CASE Tick
  <2>1. now \in Nat /\ now' = now + 1 /\ cachedExp \in Nat BY <1>10 DEF Tick, Line, TypeOK
  <2>2. ASSUME NEW c \in Callers, pc[c] = "minting"
        PROVE  sentAt[c] <= now' /\ now' <= sentAt[c] + MaxLatency
    BY <1>10, <2>1, <2>2, LimitsAssumption DEF Tick, LifeInv, AnswerTimely, Line, TypeOK
  <2>3. ASSUME NEW c \in Callers, answer[c] # NoToken
        PROVE  answer[c].exp <= now' + answer[c].life
    <3>1. answer[c].exp \in Nat /\ answer[c].life \in Nat BY DEF Line, TypeOK, Tokens
    <3> QED BY <2>1, <2>3, <3>1 DEF LifeInv, AnswerTimely
  <2>4. AnswerTimely' BY <1>10, <2>2, <2>3 DEF Tick, LifeInv, AnswerTimely
  <2>5. Fresh' => Fresh BY <1>10, <2>1, LimitsAssumption DEF Tick, Fresh
  <2> QED BY <1>10, <2>4, <2>5 DEF Tick, LifeInv, ExpiryTracked, NoWastedMint
<1> QED BY <1>1, <1>2, <1>3, <1>4, <1>5, <1>6, <1>7, <1>8, <1>9, <1>10 DEF Next

\* Requests are timely, the cached expiry is accurate and no mint is wasted.
THEOREM LifeCorrect == Spec => []LifeInv
  BY LineCorrect, LifeInit, LifeStep, PTL DEF Spec

\* While a token request is on its way the cache has no fresh token: the check
\* under the lock keeps a burst of callers from minting one token each.
THEOREM MintsAreNeeded == Spec => []NoWastedMint
  BY LifeCorrect, PTL DEF LifeInv

\* The cached expiry errs by the latency of a request, never more.
THEOREM ExpiryIsTracked == Spec => []ExpiryTracked
  BY LifeCorrect, PTL DEF LifeInv

\* get_token never returns a token that has already expired.
THEOREM TokensAreAlive == Spec => ReturnsLiveToken
<1>1. Line /\ LifeInv /\ [Next]_vars =>
        [\A c \in Callers :
            pc[c] # "using" /\ pc'[c] = "using" => now < held'[c].exp]_vars
  <2> SUFFICES ASSUME Line, LifeInv, Next, NEW c \in Callers,
                      pc[c] # "using", pc'[c] = "using"
               PROVE  now < held'[c].exp
    OBVIOUS
  <2>0. /\ pc \in [Callers -> {"idle", "waiting", "minting", "using"}]
        /\ held \in [Callers -> Tokens]
    BY DEF Line, TypeOK
  <2>1. ASSUME NEW d \in Callers, Return(d, cached), Fresh PROVE now < held'[c].exp
    BY <2>0, <2>1, FreshIsAlive DEF Return
  <2>2. ASSUME NEW d \in Callers, Minted(d) PROVE now < held'[c].exp
    BY <2>0, <2>2, AnswerIsAlive DEF Minted, Return
  <2>3. ASSUME NEW d \in Callers, Enter(d) PROVE now < held'[c].exp
    BY <2>0, <2>1, <2>3 DEF Enter, Request
  <2>4. ASSUME NEW d \in Callers, Hit(d) PROVE now < held'[c].exp
    BY <2>1, <2>4 DEF Hit
  <2>5. ASSUME NEW d \in Callers,
               Miss(d) \/ AuthIssues(d) \/ MintFails(d) \/ Done(d) \/ Invalidate(d)
        PROVE  FALSE
    BY <2>0, <2>5 DEF Miss, Request, AuthIssues, MintFails, Done, Invalidate
  <2>6. ASSUME NEW i \in DOMAIN queue, Cancelled(i) PROVE FALSE
    BY <2>0, <2>6 DEF Cancelled
  <2>7. ~RotateKey /\ ~Tick BY DEF RotateKey, Tick
  <2> QED BY <2>2, <2>3, <2>4, <2>5, <2>6, <2>7 DEF Next
<1> QED BY <1>1, LineCorrect, LifeCorrect, PTL DEF Spec, ReturnsLiveToken

-----------------------------------------------------------------------------
(***************************************************************************)
(* Keys.  An invalidation that no request is in flight at leaves no token  *)
(* of an older key anywhere the caller could get it from: not in the       *)
(* cache, and not in an answer.                                            *)
(***************************************************************************)
KeyInv ==
    /\ \A c \in Callers : floor[c] <= key
    /\ cached # NoToken => \A c \in Callers : floor[c] <= cached.key
    /\ \A d \in Callers : answer[d] # NoToken => \A c \in Callers : floor[c] <= answer[d].key

\* The initial states satisfy KeyInv.
LEMMA KeyInit == Init => KeyInv
  BY DEF Init, KeyInv

\* Every step preserves KeyInv.
LEMMA KeyStep == Line /\ LifeInv /\ KeyInv /\ [Next]_vars => KeyInv'
<1> SUFFICES ASSUME Line, LifeInv, KeyInv, [Next]_vars PROVE KeyInv'
  OBVIOUS
<1>0. /\ key \in Nat /\ floor \in [Callers -> Nat] /\ answer \in [Callers -> Tokens]
      /\ cached \in Tokens
  BY DEF Line, TypeOK
<1>1. CASE UNCHANGED <<key, cached, answer, floor>>
  BY <1>1 DEF KeyInv
<1>2. ASSUME NEW c \in Callers, Done(c) PROVE KeyInv'
  <2>1. \A d \in Callers : floor'[d] <= floor[d]
    BY <1>0, <1>2 DEF Done
  <2>2. floor' \in [Callers -> Nat] BY <1>0, <1>2 DEF Done
  <2>3. UNCHANGED <<key, cached, answer>> BY <1>2 DEF Done
  <2> QED BY <1>0, <2>1, <2>2, <2>3 DEF KeyInv, Tokens
<1>3. ASSUME NEW c \in Callers, Invalidate(c) PROVE KeyInv'
  <2>1. cached' = NoToken /\ UNCHANGED <<key, answer>> BY <1>3 DEF Invalidate
  <2>2. CASE Minting
    <3>1. \A d \in Callers : floor'[d] <= floor[d]
      BY <1>0, <1>3, <2>2 DEF Invalidate
    <3>2. floor' \in [Callers -> Nat] BY <1>0, <1>3 DEF Invalidate
    <3> QED BY <1>0, <2>1, <3>1, <3>2 DEF KeyInv, Tokens
  <2>3. CASE ~Minting
    <3>1. \A d \in Callers : answer[d] = NoToken
      BY <2>3 DEF Minting, LifeInv, AnswerTimely
    <3>2. \A d \in Callers : floor'[d] <= key
      BY <1>0, <1>3, <2>3 DEF Invalidate, KeyInv
    <3> QED BY <2>1, <3>1, <3>2 DEF KeyInv
  <2> QED BY <2>2, <2>3
<1>4. ASSUME NEW c \in Callers, AuthIssues(c) PROVE KeyInv'
  <2>1. PICK l \in Lifetimes :
          answer' = [answer EXCEPT ![c] = [key |-> key, exp |-> now + l, life |-> l]]
    BY <1>4 DEF AuthIssues
  <2>2. UNCHANGED <<key, cached, floor>> BY <1>4 DEF AuthIssues
  <2> QED BY <1>0, <2>1, <2>2 DEF KeyInv
<1>5. ASSUME NEW c \in Callers, Minted(c) PROVE KeyInv'
  <2>1. /\ cached' = answer[c] /\ answer[c] # NoToken /\ UNCHANGED <<key, floor>>
        /\ answer' = [answer EXCEPT ![c] = NoToken]
    BY <1>5 DEF Minted
  <2> QED BY <1>0, <2>1 DEF KeyInv
<1>6. ASSUME NEW c \in Callers, MintFails(c) PROVE KeyInv'
  <2>1. /\ UNCHANGED <<key, floor, cached>>
        /\ answer' = [answer EXCEPT ![c] = NoToken]
    BY <1>6 DEF MintFails
  <2> QED BY <1>0, <2>1 DEF KeyInv
<1>7. CASE RotateKey
  <2>1. key' = key + 1 /\ UNCHANGED <<cached, answer, floor>> BY <1>7 DEF RotateKey
  <2>2. \A c \in Callers : floor[c] <= key' BY <1>0, <2>1 DEF KeyInv
  <2> QED BY <2>1, <2>2 DEF KeyInv
<1>8. ASSUME NEW c \in Callers, Hit(c) \/ Miss(c) \/ Enter(c)
      PROVE  UNCHANGED <<key, cached, answer, floor>>
  BY <1>8 DEF Hit, Miss, Enter
<1>9. ASSUME NEW i \in DOMAIN queue, Cancelled(i)
      PROVE  UNCHANGED <<key, cached, answer, floor>>
  BY <1>9 DEF Cancelled
<1>10. CASE Tick \/ UNCHANGED vars
  BY <1>1, <1>10 DEF Tick, vars
<1> QED BY <1>1, <1>2, <1>3, <1>4, <1>5, <1>6, <1>7, <1>8, <1>9, <1>10 DEF Next

\* No token of an older key than a caller's floor is cached or in an answer.
THEOREM KeysCorrect == Spec => []KeyInv
  BY LineCorrect, LifeCorrect, KeyInit, KeyStep, PTL DEF Spec

\* After an invalidation that no token request is in flight at, get_token returns
\* to that caller no token signed with a key from before it.
THEOREM InvalidationHolds == Spec => NextTokenIsFresh
<1>1. Line /\ KeyInv /\ [Next]_vars =>
        [\A c \in Callers :
            pc[c] # "using" /\ pc'[c] = "using" => floor[c] <= held'[c].key]_vars
  <2> SUFFICES ASSUME Line, KeyInv, Next, NEW c \in Callers,
                      pc[c] # "using", pc'[c] = "using"
               PROVE  floor[c] <= held'[c].key
    OBVIOUS
  <2>0. /\ pc \in [Callers -> {"idle", "waiting", "minting", "using"}]
        /\ held \in [Callers -> Tokens]
    BY DEF Line, TypeOK
  <2>1. ASSUME NEW d \in Callers, Return(d, cached), Fresh
        PROVE  floor[c] <= held'[c].key
    BY <2>0, <2>1 DEF Return, KeyInv, Fresh
  <2>2. ASSUME NEW d \in Callers, Minted(d) PROVE floor[c] <= held'[c].key
    BY <2>0, <2>2 DEF Minted, Return, KeyInv
  <2>3. ASSUME NEW d \in Callers, Enter(d) PROVE floor[c] <= held'[c].key
    BY <2>0, <2>1, <2>3 DEF Enter, Request
  <2>4. ASSUME NEW d \in Callers, Hit(d) PROVE floor[c] <= held'[c].key
    BY <2>1, <2>4 DEF Hit
  <2>5. ASSUME NEW d \in Callers,
               Miss(d) \/ AuthIssues(d) \/ MintFails(d) \/ Done(d) \/ Invalidate(d)
        PROVE  FALSE
    BY <2>0, <2>5 DEF Miss, Request, AuthIssues, MintFails, Done, Invalidate
  <2>6. ASSUME NEW i \in DOMAIN queue, Cancelled(i) PROVE FALSE
    BY <2>0, <2>6 DEF Cancelled
  <2>7. ~RotateKey /\ ~Tick BY DEF RotateKey, Tick
  <2> QED BY <2>2, <2>3, <2>4, <2>5, <2>6, <2>7 DEF Next
<1> QED BY <1>1, LineCorrect, KeysCorrect, PTL DEF Spec, NextTokenIsFresh
=============================================================================
