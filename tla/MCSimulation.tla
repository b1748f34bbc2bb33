---------------------------- MODULE MCSimulation ----------------------------
(* The ranges searched by walk-forward *)
EXTENDS Simulation

Fasts == <<1, 2>>
Slows == <<2, 3>>
=============================================================================
