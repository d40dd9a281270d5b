------------------------------- MODULE MCSignIn -------------------------------
(* A small instance of SignIn: two overlapping requests, which are symmetric. *)
EXTENDS SignIn, TLC

MCSymmetry == Permutations(Requests)
=============================================================================
