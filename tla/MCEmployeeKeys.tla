--------------------------- MODULE MCEmployeeKeys ---------------------------
(* Instances of EmployeeKeys for TLC.                                      *)
EXTENDS EmployeeKeys, TLC

\* Two tasks, one after the other, once with a lost worker; or at the same time.
Mixed == {[careful |-> TRUE, tasks |-> 2, losses |-> 1],
          [careful |-> FALSE, tasks |-> 2, losses |-> 0]}

Symmetry == Permutations(Keys) \cup Permutations(Employees)
              \cup Permutations(Requests)
=============================================================================
