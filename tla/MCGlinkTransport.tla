-------------------------- MODULE MCGlinkTransport --------------------------
(* Two senders, two opcodes: enough for two exchanges of the same and of   *)
(* different opcodes to meet.                                              *)
EXTENDS GlinkTransport, TLC

TransportSymmetry == Permutations(Senders)
=============================================================================
