---------------------- MODULE MCBlueprintLifecycle ----------------------
(* BlueprintLifecycle with two steps and two requests. *)
EXTENDS BlueprintLifecycle, TLC

CONSTANTS s1, s2

StepSymmetry == Permutations(Steps)
=============================================================================
