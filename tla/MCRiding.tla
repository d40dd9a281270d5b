------------------------------ MODULE MCRiding ------------------------------
(* A small instance of Riding.                                             *)
EXTENDS Riding

\* No place and no mode is told apart from another.
MCSymmetry == Permutations(Anchors) \cup Permutations(Modes)
=============================================================================
