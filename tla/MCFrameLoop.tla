---------------------------- MODULE MCFrameLoop ----------------------------
(* Small instances of FrameLoop for TLC.                                   *)
EXTENDS FrameLoop, TLC

AllFaults == FaultNames

\* The failures the loop is meant to survive.
SurvivedFaults == {"continuation", "resize", "waitFence", "resetFence",
                   "endWindow", "present", "waitQueue"}

WindowSymmetry == Permutations(Windows)
=============================================================================
