--------------------------- MODULE MCUlogTransport ---------------------------
(* The timer and one work item; two packets, so that one can come while    *)
(* the other is read.                                                      *)
EXTENDS UlogTransport, TLC
=============================================================================
