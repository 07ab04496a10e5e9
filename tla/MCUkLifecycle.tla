---------------------------- MODULE MCUkLifecycle ----------------------------
(* Instances of UkLifecycle for TLC.                                       *)
EXTENDS UkLifecycle, FiniteSets, TLC

Clicks == {"issue", "panel", "retry", "remove"}

Alone(some, clicks, lost, cards) ==
  [alone |-> TRUE, kinds |-> Clicks, panels |-> some, tasks |-> clicks,
   losses |-> lost, releases |-> cards]

AtATime(kinds, some, clicks) ==
  [alone |-> FALSE, kinds |-> kinds, panels |-> some, tasks |-> clicks,
   losses |-> 0, releases |-> 0]

Pairs == {some \in SUBSET Panels : Cardinality(some) = 2}

\* Of any two panels: tasks one by one with a lost worker, tasks and releases of
\* the key card in turn, and two operators at a time with every kind of click on
\* pages that may be stale.  Of all panels: more unlinkings at a time.
Mixed ==
  UNION {{Alone(two, 5, 1, 0), Alone(two, 3, 0, 1), Alone(two, 2, 0, 2),
          AtATime(Clicks \cup {"unlink"}, two, 3)} : two \in Pairs}
    \cup {AtATime({"issue", "unlink"}, Panels, 4)}

\* The instance is one the theorems of UkProofs speak of.
ASSUME MixedIsOrderly == Orderly

\* Panels and operators are interchangeable; there is one key, one request.
Symmetry == Permutations(Panels) \cup Permutations(Operators)
=============================================================================
