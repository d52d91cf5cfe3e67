----------------------------- MODULE Validator -----------------------------
(***************************************************************************)
(* The generated validator: decodeThenValidate and the evaluation of       *)
(* `checkPred`, as emitted by leanvalidate/emit.go (emitMessage,           *)
(* emitOneofSum, decisionChain) over lean/Protovalidate/Runtime.lean       *)
(* (Decision.step, Decision.imp, checkList).                               *)
(*                                                                         *)
(* `stack` holds the active calls of checkPred, one for each message on    *)
(* the way down to the one being looked at.                                *)
(***************************************************************************)
EXTENDS MessagePlan

VARIABLES
  input,    \* what the base decoder makes of the bytes
  outcome,
  stack     \* active calls: message, and the unit, part and rule it is at

vars == <<input, outcome, stack>>

V == INSTANCE Validation

\* Mutant: units counted from zero.
StartedAtZero(m) == [msg |-> m, unit |-> 0, part |-> 1, rule |-> 1]

Started(m) == [msg |-> m, unit |-> 1, part |-> 1, rule |-> 1]

Init ==
  /\ input \in Message \cup {Malformed}
  /\ outcome = V!Pending
  /\ stack = <<>>

-----------------------------------------------------------------------------
(* decodeThenValidate.                                                     *)

Decode ==
  /\ outcome = V!Pending
  /\ stack = <<>>
  /\ IF input = Malformed
     THEN outcome' = V!Answer("malformed") /\ UNCHANGED stack
     ELSE stack' = <<Started(input)>> /\ UNCHANGED outcome
  /\ UNCHANGED input

-----------------------------------------------------------------------------
(* checkPred.                                                              *)

Top == stack[Len(stack)]
M == Top.msg
U == Top.unit
AtUnit == stack # <<>> /\ U <= Len(Units(M))

Replace(f) == stack' = [stack EXCEPT ![Len(stack)] = f]
NextUnit == Replace([msg |-> M, unit |-> U + 1, part |-> 1, rule |-> 1])
AfterPart == [msg |-> M, unit |-> U, part |-> Top.part + 1, rule |-> 1]
NextRule == Replace([msg |-> M, unit |-> U, part |-> Top.part, rule |-> Top.rule + 1])

\* A refutation passes every pending step, imp and checkList unchanged.
Fail(violation) ==
  /\ stack' = <<>>
  /\ outcome' = violation

PartsDone == Top.part > Len(Parts(M, U))
\* Mutant: andPath's off-by-one, the last rule of a chain is never decided.
RulesDoneEarly == Escapes(M, U) \/ Top.rule >= Len(Chain(M, U))

RulesDone == Escapes(M, U) \/ Top.rule > Len(Chain(M, U))

\* `match ... with | none`
Absent ==
  /\ AtUnit
  /\ ~IsSet(M, U)
  /\ IF Units(M)[U].required
     THEN Fail(Refusal(Units(M)[U].name, Required))
     ELSE NextUnit /\ UNCHANGED outcome
  /\ UNCHANGED input

\* checkArray on the elements, or checkPred on the payload.
CheckPart ==
  /\ AtUnit
  /\ IsSet(M, U)
  /\ ~PartsDone
  /\ stack' = Append([stack EXCEPT ![Len(stack)] = AfterPart],
                     Started(Parts(M, U)[Top.part]))
  /\ UNCHANGED <<input, outcome>>

\* One `if h : ... then ... else` of the chain.
CheckRule ==
  /\ AtUnit
  /\ IsSet(M, U)
  /\ PartsDone
  /\ ~RulesDone
  /\ IF Chain(M, U)[Top.rule] \in Satisfied(M, U)
     THEN NextRule /\ UNCHANGED outcome
     ELSE Fail(Refusal(Active(M, U).name, Chain(M, U)[Top.rule]))
  /\ UNCHANGED input

\* Mutant: `rest` restarts the step it follows.
UnitDoneRestarts ==
  /\ AtUnit
  /\ IsSet(M, U)
  /\ PartsDone
  /\ RulesDone
  /\ Replace([msg |-> M, unit |-> U, part |-> 1, rule |-> 1])
  /\ UNCHANGED <<input, outcome>>

UnitDone ==
  /\ AtUnit
  /\ IsSet(M, U)
  /\ PartsDone
  /\ RulesDone
  /\ NextUnit
  /\ UNCHANGED <<input, outcome>>

\* Mutant: the proof of an embedded message passes for the whole message's.
ReturnEmbedded ==
  /\ stack # <<>>
  /\ ~AtUnit
  /\ stack' = SubSeq(stack, 1, Len(stack) - 1)
  /\ outcome' = V!Answer("ok")
  /\ UNCHANGED input

\* The assembled proof.
Return ==
  /\ stack # <<>>
  /\ ~AtUnit
  /\ stack' = SubSeq(stack, 1, Len(stack) - 1)
  /\ IF Len(stack) = 1 THEN outcome' = V!Answer("ok") ELSE UNCHANGED outcome
  /\ UNCHANGED input

Next == Decode \/ Absent \/ CheckPart \/ CheckRule \/ UnitDone \/ Return

Spec == Init /\ [][Next]_vars

\* A call of decodeValid is evaluated to its end.
FairSpec == Spec /\ WF_vars(Next)

-----------------------------------------------------------------------------
(* Properties.                                                             *)

Frame == [msg : Message, unit : Nat \ {0}, part : Nat \ {0}, rule : Nat \ {0}]
Outcome == [verdict : {"pending", "malformed", "ok", "violation"}, path : Name, rule : Rule]

TypeOK ==
  /\ input \in Message \cup {Malformed}
  /\ outcome \in Outcome
  /\ stack \in Seq(Frame)

\* The walk over units, elements and rules, through nested messages, answers
\* what the declarative predicate says: ok exactly on valid messages, and
\* otherwise the violation of the first rule that fails.
DecidesValidPred == outcome # V!Pending => outcome = V!Verdict(input)

\* decodeValid implements its one-step promise.
Promise == V!Spec

\* README.md on `required`: "implicit-presence fields gain a non-zero rule".
RequiredIsNonZero ==
  outcome = V!Answer("ok") =>
    \A u \in DOMAIN Units(input) :
      Units(input)[u].required => IsSet(input, u) /\
        (Units(input)[u].shape \in {"plain", "list"} => ~Contents[input][u].zero)

\* Every call ends with an answer.
Answers == <>(outcome # V!Pending)
=============================================================================
