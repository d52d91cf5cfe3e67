----------------------------- MODULE Validation -----------------------------
(***************************************************************************)
(* What a generated decodeValid promises, in one step: an error when the   *)
(* bytes do not decode, the validated message exactly when `ValidPred`     *)
(* holds of the decoded one, and the first violation in rule order         *)
(* otherwise.                                                              *)
(***************************************************************************)
EXTENDS MessagePlan

VARIABLES
  input,   \* what the base decoder makes of the bytes
  outcome

Answer(verdict) == [verdict |-> verdict, path |-> NoName, rule |-> Required]
Pending == Answer("pending")

Verdict(i) ==
  IF i = Malformed THEN Answer("malformed")
  ELSE IF i \in Valid THEN Answer("ok")
  ELSE ViolationOf[i]

Init ==
  /\ input \in Message \cup {Malformed}
  /\ outcome = Pending

Decide ==
  /\ outcome = Pending
  /\ outcome' = Verdict(input)
  /\ UNCHANGED input

Spec == Init /\ [][Decide]_<<input, outcome>>
=============================================================================
