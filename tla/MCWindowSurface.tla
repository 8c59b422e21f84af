-------------------------- MODULE MCWindowSurface --------------------------
(* Small instances of WindowSurface for TLC.                               *)
EXTENDS WindowSurface, TLC

AllFaults == {"setup", "ui"} \cup DOMAIN NextStep

IdSymmetry == Permutations(Ids)
=============================================================================
