---------------------------- MODULE MCBatteryGauge ----------------------------
(* Values on both sides of the limits of the conversions.                  *)
EXTENDS BatteryGauge

MCCapacities == {Unknown, 0, 100, 10050, 22600}
MCCharges == {57, 100, 10000, 1000001}
=============================================================================
