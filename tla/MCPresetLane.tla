----------------------------- MODULE MCPresetLane -----------------------------
(* Presets with two names and two values, both interchangeable in part.      *)
EXTENDS PresetLane, TLC

MCSymmetry == Permutations(Names)
=============================================================================
