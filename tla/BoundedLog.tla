----------------------------- MODULE BoundedLog -----------------------------
(***************************************************************************)
(* What a crash-dump data source promises its clients: a log of at most    *)
(* Capacity records that forgets its oldest record to make room, hands     *)
(* records out oldest first and each once, and gives the bug check all of  *)
(* what it holds without consuming it.                                     *)
(***************************************************************************)
EXTENDS Naturals, Sequences

CONSTANTS
  Record,     (* the records a client may write                            *)
  Capacity    (* the number of records the log can hold                    *)

VARIABLES
  log,        (* the records held, oldest first                            *)
  reply,      (* what the last read or capture returned                    *)
  dump        (* what the last bug-check callback was given                *)

vars == <<log, reply, dump>>

(* The log l with the record r added, in a log of c records.               *)
Push(l, r, c) == IF Len(l) < c THEN Append(l, r) ELSE Append(Tail(l), r)

Init == log = <<>> /\ reply = <<>> /\ dump = <<>>

Write(r) ==
  /\ log' = Push(log, r, Capacity)
  /\ UNCHANGED <<reply, dump>>

Read ==
  /\ log # <<>>
  /\ reply' = <<Head(log)>>
  /\ log' = Tail(log)
  /\ UNCHANGED dump

Capture ==
  /\ reply' = log
  /\ log' = <<>>
  /\ UNCHANGED dump

Dump ==
  /\ dump' = log
  /\ UNCHANGED <<log, reply>>

Next == (\E r \in Record : Write(r)) \/ Read \/ Capture \/ Dump

Spec == Init /\ [][Next]_vars
=============================================================================
