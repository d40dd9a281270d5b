------------------------------- MODULE MCIntake -------------------------------
(* A small instance of Intake.                                             *)
EXTENDS Intake, TLC

Say(k) == [kind |-> k, place |-> NoPlace]

MCTaps == {Say("confirm"), Say("cancel")}

MCSymmetry == Permutations(Handlers)
=============================================================================
