------------------------------ MODULE MCBattMini ------------------------------
(* Every thread the driver has, four of them at a time in the middle of    *)
(* something.                                                              *)
EXTENDS BattMini, FiniteSets, TLC

FourAtATime == Cardinality({t \in Threads : pc[t] # "idle"}) <= 4
=============================================================================
