---------------------------- MODULE MCUsbcNotify ----------------------------
(* Two ports, so that one can be announced over the other.                 *)
EXTENDS UsbcNotify

CONSTANTS p1, p2, s1, t1, r1, r2
MCPorts == {p1, p2}
MCSelections == {s1}
MCStates == {t1}
MCPool == {r1, r2}
=============================================================================
