------------------------------ MODULE MCUkKeys ------------------------------
(* Instances of UkKeys for TLC.                                            *)
EXTENDS UkKeys, TLC

\* One operator, who also takes panels off the books.
Unlinking == {[alone |-> TRUE, kinds |-> TaskKinds, panels |-> Panels, tasks |-> 5,
               losses |-> 0, releases |-> 0]}

\* Keys, panels and operators are interchangeable.
Symmetry ==
  Permutations(Keys) \cup Permutations(Panels) \cup Permutations(Operators)
=============================================================================
