------------------------------- MODULE MCStore -------------------------------
(* Small instances of Store.                                                  *)
EXTENDS Store, TLC

Symmetry == Permutations(Requests) \cup Permutations(Users) \cup Permutations(Subjects)
              \cup Permutations(Notes) \cup Permutations(Sessions)
=============================================================================
