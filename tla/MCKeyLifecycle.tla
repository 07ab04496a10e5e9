--------------------------- MODULE MCKeyLifecycle ---------------------------
(* Instances of KeyLifecycle for TLC.                                      *)
EXTENDS KeyLifecycle, TLC

\* Keys, panels, places and requests are interchangeable in every safety run.
Symmetry ==
  Permutations(Keys) \cup Permutations(Panels) \cup Permutations(Places)
    \cup Permutations(Requests)
=============================================================================
