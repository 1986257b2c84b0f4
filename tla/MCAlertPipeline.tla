--------------------------- MODULE MCAlertPipeline ---------------------------
(* A small instance of AlertPipeline for TLC. *)
EXTENDS AlertPipeline

CONSTANTS t1, t2  \* tenants: the specification treats them alike

Symmetry == Permutations({t1, t2})

\* Brute force scaled down, and a rule for anything of the supervisor.
SmallRules == << [DefaultRules[1] EXCEPT !.count = 2, !.window = 2],
                 [DefaultRules[4] EXCEPT !.pattern = <<"supervisor">>, !.wildcard = TRUE] >>

SmallEvents == {[type |-> <<"auth", "session", "failed">>, tenant |-> t1],
                [type |-> <<"auth", "session", "failed">>, tenant |-> t2],
                [type |-> <<"supervisor", "anomaly", "detected">>, tenant |-> t1]}

\* A hand-built table without an entry for "info".
SmallTable == [warning |-> DefaultTable.warning, critical |-> DefaultTable.critical]
=============================================================================
