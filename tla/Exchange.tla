------------------------------- MODULE Exchange -------------------------------
(***************************************************************************)
(* What PmicGlink_SendData promises its callers.  A caller begins an       *)
(* exchange when no other is under way, and is answered only by a packet   *)
(* that came during its own exchange.  The promise has one hole: a caller  *)
(* that was answered leaves in two steps, and with the second it takes the *)
(* exclusiveness from whoever has begun in between.  Exchanges that lost   *)
(* it are disturbed: others may begin beside them.  Whether an answer that *)
(* came is still there when its caller looks is not promised.              *)
(***************************************************************************)
CONSTANT Senders

VARIABLES
  stage,       (* of each caller's exchange                                *)
  answers,     (* callers that asked and have an answer waiting            *)
  disturbed    (* callers whose exchange is not exclusive any more         *)

vars == <<stage, answers, disturbed>>

(* A caller is out of an exchange, asks, was answered, has given up, or is *)
(* leaving after an answer.                                                *)
Busy   == {s \in Senders : stage[s] \in {"asking", "answered", "over"}}
Asking == {s \in Senders : stage[s] = "asking"}

Turn(s, from, to) ==
  /\ stage[s] = from
  /\ stage' = [stage EXCEPT ![s] = to]

Init ==
  /\ stage = [s \in Senders |-> "out"]
  /\ answers = {} /\ disturbed = {}

Begin(s) ==
  /\ Busy \subseteq disturbed
  /\ Turn(s, "out", "asking")
  /\ disturbed' = IF Busy = {} THEN disturbed ELSE disturbed \cup {s}
  /\ UNCHANGED answers

(* A packet comes; it answers the callers that have asked for its opcode.  *)
Arrive ==
  /\ \E S \in SUBSET Asking : answers' = answers \cup S
  /\ UNCHANGED <<stage, disturbed>>

(* Answers get lost before their callers have seen them: to another        *)
(* exchange, to a device that leaves D0, or for want of memory.            *)
Lose ==
  /\ \E S \in SUBSET answers : answers' = answers \ S
  /\ UNCHANGED <<stage, disturbed>>

Answer(s) ==
  /\ s \in answers
  /\ Turn(s, "asking", "answered")
  /\ answers' = answers \ {s}
  /\ UNCHANGED disturbed

GiveUp(s) ==
  /\ Turn(s, "asking", "over")
  /\ answers' = answers \ {s}
  /\ UNCHANGED disturbed

(* The end of an exchange without an answer ...                            *)
End(s) ==
  /\ Turn(s, "over", "out") \/ Turn(s, "asking", "out")
  /\ answers' = answers \ {s}
  /\ disturbed' = disturbed \ {s}

(* ... and with one.                                                       *)
Release(s) ==
  /\ Turn(s, "answered", "leaving")
  /\ disturbed' = disturbed \ {s}
  /\ UNCHANGED answers

Leave(s) ==
  /\ Turn(s, "leaving", "out")
  /\ disturbed' = disturbed \cup Busy
  /\ UNCHANGED answers

Next ==
  \/ Arrive \/ Lose
  \/ \E s \in Senders :
       \/ Begin(s) \/ Answer(s) \/ GiveUp(s) \/ End(s) \/ Release(s) \/ Leave(s)

Spec == Init /\ [][Next]_vars
=============================================================================
