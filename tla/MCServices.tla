----------------------------- MODULE MCServices -----------------------------
(* The instance of Services for TLC.                                       *)
EXTENDS Services

CONSTANTS pA, pB, c1, c2

\* Two threads of one process, or one thread of each of two.
Placements == {[c \in Callers |-> pA],
               [c \in Callers |-> IF c = c1 THEN pA ELSE pB]}

\* With a password only, or with a cookie that is preferred to it.
Configurations == {{"password"}, {"password", "cookie"}}
=============================================================================
