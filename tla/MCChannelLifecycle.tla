------------------------- MODULE MCChannelLifecycle -------------------------
(* Two handles: one channel can close, or leak, while the next is opened.  *)
EXTENDS ChannelLifecycle, FiniteSets, TLC

ChannelSymmetry == Permutations(Channel)

(* Two threads at a time are in the middle of something, beside D0 exit.   *)
Pairwise == Cardinality({t \in Threads : at[t] # "idle"}) <= 2

(* What the properties except happens in one way in a behaviour.           *)
OneException ==
  Cardinality({e \in {"crowded", "late", "swept", "refused"} :
                 \/ e = "crowded" /\ crowded
                 \/ e = "late"    /\ late
                 \/ e = "swept"   /\ swept
                 \/ e = "refused" /\ refused # {}}) <= 1
=============================================================================
