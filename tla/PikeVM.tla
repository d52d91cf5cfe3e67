------------------------------- MODULE PikeVM -------------------------------
(***************************************************************************)
(* The matcher behind CEL `matches`: lean/Protovalidate/Cel/Regex.lean,    *)
(* from `add` to `search`.                                                 *)
(*                                                                         *)
(* At every position of the input the machine keeps the set of             *)
(* instructions some attempt has reached.  The set of the next position is *)
(* built by `add`, which follows split and assertion instructions          *)
(* recursively, under a fuel argument that makes the recursion structural, *)
(* and marks what it visits.  `stack` holds the active calls of `add`.     *)
(***************************************************************************)
EXTENDS Program

VARIABLES
  pos,     \* the position whose set is being built
  set,     \* the finished set of the position before
  seen,    \* the set being built
  scan,    \* next instruction of `set` that step looks at; then the entry
  stack,   \* active calls of add: instruction, fuel of its own calls, next
  answer,  \* "searching", "match" or "none"
  calls    \* history: calls of add for this position

vars == <<pattern, input, pos, set, seen, scan, stack, answer, calls>>

Init ==
  /\ pattern \in Pattern
  /\ input \in Input
  /\ pos = 0
  /\ set = {}
  /\ seen = {}
  /\ scan = Size + 1
  /\ stack = <<>>
  /\ answer = "searching"
  /\ calls = 0

-----------------------------------------------------------------------------
(* add                                                                     *)

Visit(pc, fuel) == [pc |-> pc, fuel |-> fuel, next |-> 1]

\* Mutant: a visited instruction is visited again.
AddAgain(pc, fuel, callers) ==
  /\ calls' = calls + 1
  /\ IF fuel = 0
     THEN stack' = callers /\ UNCHANGED seen
     ELSE /\ stack' = Append(callers, Visit(pc, fuel - 1))
          /\ seen' = seen \cup {pc}

\* Mutant: the instruction is not marked.
AddUnmarked(pc, fuel, callers) ==
  /\ calls' = calls + 1
  /\ IF fuel = 0 \/ pc \in seen
     THEN stack' = callers /\ UNCHANGED seen
     ELSE /\ stack' = Append(callers, Visit(pc, fuel - 1))
          /\ seen' = IF Eps(pc, pos) = <<>> THEN seen \cup {pc} ELSE seen

Add(pc, fuel, callers) ==
  /\ calls' = calls + 1
  /\ IF fuel = 0 \/ pc \in seen
     THEN stack' = callers /\ UNCHANGED seen
     ELSE /\ stack' = Append(callers, Visit(pc, fuel - 1))
          /\ seen' = seen \cup {pc}

Top == stack[Len(stack)]
More == Top.next <= Len(Eps(Top.pc, pos))

\* Mutant: the fuel counts characters, not instructions.
FuelChars == Len(input) + 1

Fuel == Size + 1

\* The top call calls add for the next place it leads to.
Follow ==
  /\ stack # <<>>
  /\ More
  /\ LET callers == [stack EXCEPT ![Len(stack)] =
                       [pc |-> Top.pc, fuel |-> Top.fuel, next |-> Top.next + 1]]
     IN  Add(Eps(Top.pc, pos)[Top.next], Top.fuel, callers)
  /\ UNCHANGED <<pattern, input, pos, set, scan, answer>>

Return ==
  /\ stack # <<>>
  /\ ~More
  /\ stack' = SubSeq(stack, 1, Len(stack) - 1)
  /\ UNCHANGED <<pattern, input, pos, set, seen, scan, answer, calls>>

-----------------------------------------------------------------------------
(* search and step                                                         *)

\* The fold over the set of the position before, in program order.
Scan ==
  /\ answer = "searching"
  /\ stack = <<>>
  /\ scan <= Size
  /\ scan' = scan + 1
  /\ IF scan \in set /\ Takes(scan, pos)
     THEN Add(At(scan).to[1], Fuel, stack)
     ELSE UNCHANGED <<seen, stack, calls>>
  /\ UNCHANGED <<pattern, input, pos, set, answer>>

\* Mutant: only the first position starts an attempt.
SeedOnce ==
  /\ answer = "searching"
  /\ stack = <<>>
  /\ scan = Size + 1
  /\ scan' = scan + 1
  /\ IF pos = 0 THEN Add(Entry, Fuel, stack) ELSE UNCHANGED <<seen, stack, calls>>
  /\ UNCHANGED <<pattern, input, pos, set, answer>>

\* A fresh attempt starts at every position.
Seed ==
  /\ answer = "searching"
  /\ stack = <<>>
  /\ scan = Size + 1
  /\ scan' = scan + 1
  /\ Add(Entry, Fuel, stack)
  /\ UNCHANGED <<pattern, input, pos, set, answer>>

Complete == answer = "searching" /\ stack = <<>> /\ scan = Size + 2

\* Mutant: the end of the input is reached one position early.
AdvanceEarly ==
  /\ Complete
  /\ ~HasDone(seen)
  /\ IF pos + 1 >= Len(input)
     THEN answer' = "none" /\ UNCHANGED <<pos, set, seen, scan, calls>>
     ELSE /\ pos' = pos + 1
          /\ set' = seen
          /\ seen' = {}
          /\ scan' = 1
          /\ calls' = 0
          /\ UNCHANGED answer
  /\ UNCHANGED <<pattern, input, stack>>

\* Mutant: the search runs past the end of the input.
AdvancePastEnd ==
  /\ Complete
  /\ ~HasDone(seen)
  /\ IF pos > Len(input)
     THEN answer' = "none" /\ UNCHANGED <<pos, set, seen, scan, calls>>
     ELSE /\ pos' = pos + 1
          /\ set' = seen
          /\ seen' = {}
          /\ scan' = 1
          /\ calls' = 0
          /\ UNCHANGED answer
  /\ UNCHANGED <<pattern, input, stack>>

Succeed ==
  /\ Complete
  /\ HasDone(seen)
  /\ answer' = "match"
  /\ UNCHANGED <<pattern, input, pos, set, seen, scan, stack, calls>>

Advance ==
  /\ Complete
  /\ ~HasDone(seen)
  /\ IF pos = Len(input)
     THEN answer' = "none" /\ UNCHANGED <<pos, set, seen, scan, calls>>
     ELSE /\ pos' = pos + 1
          /\ set' = seen
          /\ seen' = {}
          /\ scan' = 1
          /\ calls' = 0
          /\ UNCHANGED answer
  /\ UNCHANGED <<pattern, input, stack>>

Next == Follow \/ Return \/ Scan \/ Seed \/ Succeed \/ Advance

Spec == Init /\ [][Next]_vars

-----------------------------------------------------------------------------
(* Properties.                                                             *)

Active == [pc : Pc(ProgOf[pattern]), fuel : Nat, next : Nat \ {0}]

TypeOK ==
  /\ pattern \in Pattern
  /\ input \in Input
  /\ pos \in 0 .. Len(input)
  /\ set \subseteq Pc(ProgOf[pattern])
  /\ seen \subseteq Pc(ProgOf[pattern])
  /\ scan \in 1 .. Size + 2
  /\ stack \in Seq(Active)
  /\ answer \in {"searching", "match", "none"}
  /\ calls \in Nat

\* The fuel is only there for the termination checker: no call of add is cut
\* short by it that would have visited anything.
FuelSuffices ==
  stack # <<>> /\ More /\ Top.fuel = 0 => Eps(Top.pc, pos)[Top.next] \in seen

\* The set of a position is what its attempts reach, no more and no less,
\* although add stops at an instruction whose own visit is still under way:
\* the least set that holds the entry and the targets of the characters taken
\* and is closed under split and assertions.
Seeds == {Entry} \cup {At(pc).to[1] : pc \in {q \in set : Takes(q, pos)}}
ClosedAt(S) == \A pc \in S : \A k \in DOMAIN Eps(pc, pos) : Eps(pc, pos)[k] \in S
Reached == {pc \in Pc(ProgOf[pattern]) :
              \A S \in SUBSET Pc(ProgOf[pattern]) :
                Seeds \subseteq S /\ ClosedAt(S) => pc \in S}
SetIsReached == Complete => seen = Reached

\* "matching is linear in |input| x |program|": a position costs one call for
\* each place an instruction leads to, and one for the fresh attempt.
LinearWork == calls <= 3 * Size + 1

\* The positions and instructions an attempt on the input can be in, and the
\* answer they determine.
State == Pc(ProgOf[pattern]) \X (0 .. Len(input))
Run(S) ==
  /\ \A p \in 0 .. Len(input) : <<Entry, p>> \in S
  /\ \A x \in S :
       /\ \A k \in DOMAIN Eps(x[1], x[2]) : <<Eps(x[1], x[2])[k], x[2]>> \in S
       /\ x[2] < Len(input) /\ Takes(x[1], x[2] + 1) => <<At(x[1]).to[1], x[2] + 1>> \in S
Reachable == {x \in State : \A S \in SUBSET State : Run(S) => x \in S}
Accepts == \E x \in Reachable : At(x[1]).op = "done"

\* The recursive, fuelled and array-marking search does what a walk over the
\* input with one set of instructions does.
Walk == INSTANCE ThreadSets WITH live <- set
ImplementsThreadSets == Walk!Spec

\* The search answers "match" exactly when some attempt can succeed.
AnswersAcceptance ==
  /\ answer = "match" => Accepts
  /\ answer = "none" => ~Accepts
=============================================================================
