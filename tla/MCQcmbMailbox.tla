---------------------------- MODULE MCQcmbMailbox ----------------------------
(* Words of each kind, with and without the bit of the connection.         *)
EXTENDS QcmbMailbox

CONSTANT w1
MCWorkers == {w1}
MCWords == {0, 1, 3, 5}
=============================================================================
