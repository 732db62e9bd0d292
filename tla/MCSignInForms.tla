---------------------------- MODULE MCSignInForms ----------------------------
(* Small instances of SignInForms.  Symmetry is not used: the fairness is     *)
(* about one tab, and a liveness property is checked.                         *)
EXTENDS SignInForms, TLC
=============================================================================
