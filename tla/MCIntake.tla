------------------------------ MODULE MCIntake ------------------------------
(* A small instance of Intake for TLC.                                     *)
EXTENDS Intake
=============================================================================
