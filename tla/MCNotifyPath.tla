---------------------------- MODULE MCNotifyPath ----------------------------
(* A reply of high priority and a notification of low priority, with two   *)
(* work items at a time: enough for two of them to go after one packet.    *)
EXTENDS NotifyPath, TLC

CONSTANTS r, n
MCPriority == (r :> 0) @@ (n :> 1)
WorkerSymmetry == Permutations(Workers)
=============================================================================
