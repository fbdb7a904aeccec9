---------------------------- MODULE MCCrashRing -----------------------------
(* A ring of three entries, filled and wrapped around with three records.  *)
EXTENDS CrashRing
=============================================================================
