-------------------------- MODULE FrameOwnership --------------------------
(***************************************************************************)
(* What the frame loop promises about the one set of per-frame resources   *)
(* (command pool, secondary command buffers, uniform and UI buffers): they *)
(* belong either to the CPU, which records a frame into them, or to the    *)
(* GPU, which executes the frame; and they change hands only by submitting *)
(* a recorded frame and by finishing it.                                   *)
(***************************************************************************)
VARIABLES owner, phase

vars == <<owner, phase>>

TypeOK == owner \in {"cpu", "gpu"} /\ phase \in {"idle", "recording"}

Init == owner = "cpu" /\ phase = "idle"

Begin  == phase = "idle" /\ owner = "cpu" /\ phase' = "recording" /\ UNCHANGED owner
Cancel == phase = "recording" /\ phase' = "idle" /\ UNCHANGED owner
Submit == phase = "recording" /\ phase' = "idle" /\ owner' = "gpu"
Finish == owner = "gpu" /\ owner' = "cpu" /\ UNCHANGED phase

Next == Begin \/ Cancel \/ Submit \/ Finish

Spec == Init /\ [][Next]_vars

\* When every submission can start, the GPU gives the resources back.
FairSpec == Spec /\ WF_vars(Finish)
=============================================================================
