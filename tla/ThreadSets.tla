----------------------------- MODULE ThreadSets -----------------------------
(***************************************************************************)
(* What `search` promises of its work: it moves through the input one      *)
(* character at a time and keeps, of all attempts begun so far, only the   *)
(* set of instructions they are at.  No recursion, no fuel, no order.      *)
(***************************************************************************)
EXTENDS Program

VARIABLES
  pos,     \* the position looked at
  live,    \* where the attempts were at the position before
  answer

Init ==
  /\ pattern \in Pattern
  /\ input \in Input
  /\ pos = 0
  /\ live = {}
  /\ answer = "searching"

\* S has a fresh attempt, the attempts that took the character before pos,
\* and every place these lead to without taking another.
Follows(S) ==
  /\ Entry \in S
  /\ \A pc \in live : Takes(pc, pos) => At(pc).to[1] \in S
  /\ \A pc \in S : \A k \in DOMAIN Eps(pc, pos) : Eps(pc, pos)[k] \in S

Threads == {pc \in DOMAIN Prog : \A S \in SUBSET DOMAIN Prog : Follows(S) => pc \in S}

Found ==
  /\ answer = "searching" /\ HasDone(Threads)
  /\ answer' = "match"
  /\ UNCHANGED <<pattern, input, pos, live>>

NextCharacter ==
  /\ answer = "searching" /\ ~HasDone(Threads) /\ pos < Len(input)
  /\ pos' = pos + 1
  /\ live' = Threads
  /\ UNCHANGED <<pattern, input, answer>>

NotFound ==
  /\ answer = "searching" /\ ~HasDone(Threads) /\ pos = Len(input)
  /\ answer' = "none"
  /\ UNCHANGED <<pattern, input, pos, live>>

Next == Found \/ NextCharacter \/ NotFound
Spec == Init /\ [][Next]_<<pattern, input, pos, live, answer>>
=============================================================================
