---------------------------- MODULE StoredLogin ----------------------------
(***************************************************************************)
(* What the BSVibe CLIs promise of a login that is stored once and whose   *)
(* token changes with every use: the auth server may rotate a token away   *)
(* for a new one, one user of a token at a time; the new one then replaces *)
(* the stored one, or is lost, and until either happens nobody but its     *)
(* owner has it.  Nothing else becomes of tokens.                          *)
(***************************************************************************)
CONSTANTS Tokens, NoToken

VARIABLES
    given,     \* tokens the auth server has given
    good,      \* tokens it accepts
    stored,    \* the stored token
    underWay,  \* rotations [old, new] whose new token is not stored yet
    lost       \* tokens that were rotated away and whose successor got lost

vars == <<given, good, stored, underWay, lost>>

Init == given = {} /\ good = {} /\ stored = NoToken /\ underWay = {} /\ lost = {}

\* The tokens only their rotation knows.
Secret == {r.new : r \in underWay}

\* A login, until it is stored, changes nothing for anybody else.
LogIn(t) ==
    /\ t \notin given
    /\ given' = given \cup {t} /\ good' = good \cup {t}
    /\ UNCHANGED <<stored, underWay, lost>>

StoreLogin(t) ==
    /\ t \in good \ Secret
    /\ stored' = t
    /\ UNCHANGED <<given, good, underWay, lost>>

Rotate(old, t) ==
    /\ old \in good \ Secret /\ t \notin given
    /\ given' = given \cup {t}
    /\ good' = (good \ {old}) \cup {t}
    /\ underWay' = underWay \cup {[old |-> old, new |-> t]}
    /\ UNCHANGED <<stored, lost>>

StoreRotated(r) ==
    /\ stored' = r.new
    /\ underWay' = underWay \ {r}
    /\ UNCHANGED <<given, good, lost>>

\* Its owner keeps what was to be stored, or dies with it.
Lose(R) ==
    /\ underWay' = underWay \ R
    /\ lost' = lost \cup {r.old : r \in R}
    /\ UNCHANGED <<given, good, stored>>

Next ==
    \/ \E t \in Tokens : LogIn(t) \/ StoreLogin(t)
    \/ \E old, t \in Tokens : Rotate(old, t)
    \/ \E r \in underWay : StoreRotated(r)
    \/ \E R \in SUBSET underWay : Lose(R)

Spec == Init /\ [][Next]_vars

-----------------------------------------------------------------------------
\* The stored token is good, unless its successor is about to be stored or was lost.
StaysLoggedIn == stored \in good \cup {NoToken} \cup {r.old : r \in underWay} \cup lost
=============================================================================
