-------------------------- MODULE MCControlChannel --------------------------
(* The control channel with two or three tasks, two connections and two      *)
(* values of the one setting they write.                                     *)
EXTENDS ControlChannel, TLC

TaskSymmetry == Permutations(Tasks)
=============================================================================
