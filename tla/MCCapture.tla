------------------------------ MODULE MCCapture ------------------------------
(* Finite instances of Capture.  The lines the game writes in an instance are *)
(* chosen by naming their kinds here.                                         *)
EXTENDS Capture

AllKinds     == LineKinds
RunsAndDeaths == {"start", "end", "died"}
StartsOnly   == {"start"}
DeathsOnly   == {"died"}
NoEnds       == {"start", "failedEnd", "died"}
=============================================================================
