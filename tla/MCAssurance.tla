----------------------------- MODULE MCAssurance -----------------------------
(* Small instances of Assurance; requests, browsers and the tokens of one     *)
(* level are interchangeable.                                                 *)
EXTENDS Assurance, TLC

Symmetry == Permutations(Requests) \cup Permutations(Browsers)
              \cup Permutations(Aal1) \cup Permutations(Aal2) \cup Permutations(Factors)
=============================================================================
