---------------------------- MODULE MCSupervisor ----------------------------
(* The supervisor and its lanes on small instances: two daemons at most, one *)
(* or two write lanes, one or two restarts.                                  *)
EXTENDS Supervisor, TLC

LaneSymmetry == Permutations(Lanes)
=============================================================================
