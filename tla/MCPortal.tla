------------------------------ MODULE MCPortal ------------------------------
(* A small instance of Portal: two users who share one organization, and who  *)
(* may sign in one after the other in one browser; one of them loses and      *)
(* regains an organization.                                                   *)
EXTENDS Portal, TLC

CONSTANTS u, v, o, p

MCMemberships == [w \in {u, v} |-> IF w = u THEN {<<o>>, <<o, p>>} ELSE {<<p>>}]

\* A token is told apart by its owner and where it is kept only.
TokenSymmetry == Permutations(Tokens)
=============================================================================
