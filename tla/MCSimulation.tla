---------------------------- MODULE MCSimulation ----------------------------
(* Two requests about two chains, with a created and a pending safe.          *)
EXTENDS Simulation, TLC

SomeSafes == {[chain |-> "aura", status |-> "CREATED"], [chain |-> "evmos", status |-> "PENDING"]}
=============================================================================
