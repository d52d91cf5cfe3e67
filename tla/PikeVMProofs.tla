---------------------------- MODULE PikeVMProofs ----------------------------
(***************************************************************************)
(* Proofs about PikeVM, for every program and every input.                 *)
(***************************************************************************)
EXTENDS PikeVM, FiniteSetTheorems, SequenceTheorems, TLAPS

Pcs == Pc(ProgOf[pattern])

LEMMA ProgramFacts ==
  ASSUME TypeOK
  PROVE  /\ Size \in Nat /\ Pcs = 1 .. Size /\ Entry \in Pcs /\ Len(input) \in Nat
         /\ \A pc \in Pcs : At(pc).op = "char" => At(pc).to[1] \in Pcs
         /\ \A pc \in Pcs : \A p :
              /\ Len(Eps(pc, p)) \in Nat
              /\ DOMAIN Eps(pc, p) = 1 .. Len(Eps(pc, p))
              /\ \A k \in DOMAIN Eps(pc, p) : k \in {1, 2} /\ Eps(pc, p)[k] \in Pcs
<1>1. WellFormed(ProgOf[pattern]) /\ input \in Seq(Char)
  BY ProgramAssumption DEF TypeOK
<1>2. Prog \in Seq(Inst) /\ Entry \in Pcs /\ Pcs = DOMAIN Prog /\ Len(input) \in Nat
  BY <1>1 DEF WellFormed, Prog, Entry, Pcs, Pc
<1>3. Size \in Nat /\ Pcs = 1 .. Size
  BY <1>2 DEF Size
<1>4. ASSUME NEW pc \in Pcs
      PROVE  /\ At(pc) \in Inst
             /\ \A k \in DOMAIN At(pc).to : At(pc).to[k] \in Pcs
             /\ At(pc).op = "char" => Len(At(pc).to) = 1
             /\ Len(At(pc).to) \in 0 .. 2
  <2>1. At(pc) \in Inst
    BY <1>2, <1>3 DEF At, Size
  <2>2. /\ \A k \in DOMAIN At(pc).to : At(pc).to[k] \in Pcs
        /\ Len(At(pc).to) = Arity(At(pc).op)
    BY <1>1 DEF WellFormed, At, Pcs, Prog
  <2> QED
    BY <2>1, <2>2 DEF Arity
<1>5. ASSUME NEW pc \in Pcs, At(pc).op = "char"
      PROVE  At(pc).to[1] \in Pcs
  <2>1. At(pc).to \in Seq(Nat) /\ Len(At(pc).to) = 1
    BY <1>4, <1>5 DEF Inst
  <2>2. 1 \in DOMAIN At(pc).to
    BY <2>1
  <2> QED
    BY <1>4, <2>2
<1>6. ASSUME NEW pc \in Pcs, NEW p
      PROVE  /\ Len(Eps(pc, p)) \in Nat
             /\ DOMAIN Eps(pc, p) = 1 .. Len(Eps(pc, p))
             /\ \A k \in DOMAIN Eps(pc, p) : k \in {1, 2} /\ Eps(pc, p)[k] \in Pcs
  <2>1. At(pc).to \in Seq(Nat)
    BY <1>4 DEF Inst
  <2>2. CASE Eps(pc, p) = At(pc).to
    BY <1>4, <2>1, <2>2
  <2>3. CASE Eps(pc, p) = <<>>
    <3>1. Len(<<>>) \in Nat /\ DOMAIN <<>> = 1 .. Len(<<>>) /\ DOMAIN <<>> = {}
      OBVIOUS
    <3> QED
      BY <2>3, <3>1
  <2> QED
    BY <2>2, <2>3 DEF Eps
<1> QED
  BY <1>2, <1>3, <1>5, <1>6

\* Neither the program nor the input changes during a search.
LEMMA SameProgram ==
  ASSUME pattern' = pattern, input' = input
  PROVE  /\ Size' = Size /\ Pcs' = Pcs /\ Entry' = Entry
         /\ \A pc : At(pc)' = At(pc)
         /\ \A pc, p : Eps(pc, p)' = Eps(pc, p)
         /\ \A pc, p : Takes(pc, p)' = Takes(pc, p)
         /\ State' = State
         /\ \A S : Run(S)' = Run(S)
         /\ Reachable' = Reachable
         /\ Accepts' = Accepts
<1>1. /\ Size' = Size /\ Pcs' = Pcs /\ Entry' = Entry /\ State' = State
      /\ \A pc : At(pc)' = At(pc)
      /\ \A pc, p : Eps(pc, p)' = Eps(pc, p)
      /\ \A pc, p : Takes(pc, p)' = Takes(pc, p)
  BY DEF Size, Pcs, Entry, At, Eps, Takes, Prog, State
<1>2. \A S : Run(S)' = Run(S)
  BY DEF Run, Size, Entry, At, Eps, Takes, Prog
<1>3. Reachable' = Reachable
  BY <1>1, <1>2 DEF Reachable
<1> QED
  BY <1>1, <1>2, <1>3 DEF Accepts

-----------------------------------------------------------------------------
(* The inductive invariant.                                                *)

\* The active calls visit different instructions, one fuel unit apart.
Nested(st, S) ==
  /\ \A i \in 1 .. Len(st) : st[i].pc \in S /\ st[i].fuel = Size + 1 - i
  /\ \A i, j \in 1 .. Len(st) : st[i].pc = st[j].pc => i = j

\* A visited instruction's successors are visited, except those an active
\* call has still to look at.
Followed(st, S) ==
  /\ \A i \in 1 .. Len(st) : \A k \in DOMAIN Eps(st[i].pc, pos) :
       k < st[i].next => Eps(st[i].pc, pos)[k] \in S
  /\ \A pc \in seen :
       \/ \A k \in DOMAIN Eps(pc, pos) : Eps(pc, pos)[k] \in S
       \/ \E i \in 1 .. Len(st) : st[i].pc = pc

Seeded ==
  /\ \A pc \in set : pc < scan /\ Takes(pc, pos) => At(pc).to[1] \in seen
  /\ scan = Size + 2 => Entry \in seen

\* Only what has been reached is visited, in this position and from the first.
Visited ==
  /\ seen \subseteq Reached
  /\ \A pc \in seen : <<pc, pos>> \in Reachable
  /\ \A pc \in set : pos > 0 /\ <<pc, pos - 1>> \in Reachable

\* Among the earlier positions there is a run without success that ends in
\* `set`.
Fruitless(P) ==
  /\ \A x \in P : x[2] < pos /\ At(x[1]).op # "done"
  /\ \A p \in 0 .. pos - 1 : <<Entry, p>> \in P
  /\ \A x \in P : \A k \in DOMAIN Eps(x[1], x[2]) : <<Eps(x[1], x[2])[k], x[2]>> \in P
  /\ \A x \in P : x[2] + 1 < pos /\ Takes(x[1], x[2] + 1)
                    => <<At(x[1]).to[1], x[2] + 1>> \in P
  /\ \A x \in P : x[2] + 1 = pos => x[1] \in set

Earlier == answer = "searching" => \E P \in SUBSET State : Fruitless(P)

IInv ==
  /\ TypeOK
  /\ Nested(stack, seen)
  /\ Followed(stack, seen)
  /\ Seeded
  /\ Visited
  /\ Earlier
  /\ AnswersAcceptance

LEMMA InitInv ==
  Init => IInv
<1> SUFFICES ASSUME Init PROVE IInv
  OBVIOUS
<1>1. /\ pattern \in Pattern /\ input \in Input /\ pos = 0 /\ set = {} /\ seen = {}
      /\ scan = Size + 1 /\ stack = <<>> /\ answer = "searching" /\ calls = 0
  BY DEF Init
<1>2. Size \in Nat /\ Len(input) \in Nat
  BY <1>1, ProgramAssumption DEF WellFormed, Size, Prog
<1>3. TypeOK
  <2>1. stack \in Seq(Active)
    BY <1>1
  <2>2. scan \in 1 .. Size + 2 /\ pos \in 0 .. Len(input)
    BY <1>1, <1>2
  <2> QED
    BY <1>1, <2>1, <2>2 DEF TypeOK
<1>4. Nested(stack, seen) /\ Followed(stack, seen)
  BY <1>1 DEF Nested, Followed
<1>5. Seeded
  BY <1>1, <1>2 DEF Seeded
<1>6. Visited
  BY <1>1 DEF Visited
<1>7. Fruitless({})
  BY <1>1 DEF Fruitless
<1> QED
  BY <1>1, <1>3, <1>4, <1>5, <1>6, <1>7 DEF IInv, Earlier, AnswersAcceptance

-----------------------------------------------------------------------------
(* add                                                                     *)

\* Stacks of different instructions are no longer than the program: a call is
\* always left with fuel.
LEMMA FuelIsLeft ==
  ASSUME IInv, stack # <<>>
  PROVE  Len(stack) \in 1 .. Size /\ Top.fuel # 0
<1> DEFINE L == Len(stack)
           f == [i \in 1 .. L |-> stack[i].pc]
<1>1. /\ stack \in Seq(Active) /\ L \in Nat /\ L > 0 /\ Size \in Nat
      /\ Pcs = 1 .. Size /\ Nested(stack, seen)
  BY ProgramFacts DEF IInv, TypeOK
<1>2. \A i \in 1 .. L : stack[i] \in Active /\ stack[i].pc \in 1 .. Size
  <2>1. \A i \in 1 .. L : stack[i] \in Active
    BY <1>1
  <2> QED
    BY <1>1, <2>1 DEF Active, Pcs
<1>3. f \in [1 .. L -> 1 .. Size]
  BY <1>2
<1>4. /\ IsFiniteSet(1 .. L) /\ Cardinality(1 .. L) = L
      /\ IsFiniteSet(1 .. Size) /\ Cardinality(1 .. Size) = Size
  <2>1. \A n \in Nat : IsFiniteSet(1 .. n) /\ Cardinality(1 .. n) = IF 1 > n THEN 0 ELSE n - 1 + 1
    BY FS_Interval
  <2> QED
    BY <1>1, <2>1
<1>5. L <= Size
  <2>1. SUFFICES ASSUME Size < L PROVE FALSE
    BY <1>1
  <2>2. \E x, y \in 1 .. L : x # y /\ f[x] = f[y]
    <3> HIDE DEF f, L
    <3> QED
      BY <1>3, <1>4, <2>1, FS_PigeonHole
  <2> QED
    BY <1>1, <2>2 DEF Nested
<1>6. Top.fuel = Size + 1 - L
  BY <1>1 DEF Nested, Top
<1> QED
  BY <1>1, <1>5, <1>6

\* A call of add with fuel left visits its instruction, once.
LEMMA AddVisits ==
  ASSUME TypeOK, pattern' = pattern, input' = input, pos' = pos,
         NEW callers \in Seq(Active), NEW pc \in Pcs, NEW fuel \in Nat,
         fuel # 0, fuel = Size + 1 - Len(callers),
         Nested(callers, seen), Followed(callers, seen \cup {pc}), Add(pc, fuel, callers)
  PROVE  /\ seen' = seen \cup {pc} /\ calls' \in Nat /\ stack' \in Seq(Active)
         /\ Nested(stack, seen)' /\ Followed(stack, seen)'
<1>1. /\ Size' = Size /\ \A q, p : Eps(q, p)' = Eps(q, p)
  BY SameProgram
<1>2. Len(callers) \in Nat /\ Size \in Nat /\ calls \in Nat /\ calls' = calls + 1
  BY ProgramFacts DEF TypeOK, Add
<1>3. CASE pc \in seen
  <2>1. stack' = callers /\ seen' = seen /\ seen \cup {pc} = seen
    BY <1>3 DEF Add
  <2>2. PICK st : st = stack'
    OBVIOUS
  <2>3. Nested(stack, seen)'
    BY <1>1, <2>1 DEF Nested
  <2>4. Followed(stack, seen)'
    BY <1>1, <2>1 DEF Followed
  <2> QED
    BY <1>2, <2>1, <2>3, <2>4
<1>4. CASE pc \notin seen
  <2> DEFINE v == Visit(pc, fuel - 1)
             L == Len(callers)
  <2>1. stack' = Append(callers, v) /\ seen' = seen \cup {pc}
    BY <1>4 DEF Add
  <2>2. v \in Active /\ v.pc = pc /\ v.fuel = fuel - 1 /\ v.next = 1
    BY DEF Visit, Active, Pcs
  <2> HIDE DEF v
  <2>3. /\ stack' \in Seq(Active) /\ Len(stack') = L + 1 /\ stack'[L + 1] = v
        /\ \A i \in 1 .. L : stack'[i] = callers[i]
    BY <2>1, <2>2
  <2>4. \A i \in 1 .. L + 1 : i \in 1 .. L \/ i = L + 1
    BY <1>2
  <2>5. \A i \in 1 .. L : callers[i].pc \in seen /\ callers[i].fuel = Size + 1 - i
    BY DEF Nested
  <2>6. Nested(stack, seen)'
    <3>1. \A i \in 1 .. L + 1 : stack'[i].pc \in seen \cup {pc} /\ stack'[i].fuel = Size + 1 - i
      <4>1. fuel - 1 = Size + 1 - (L + 1)
        BY <1>2
      <4> QED
        BY <2>2, <2>3, <2>4, <2>5, <4>1
    <3>2. \A i, j \in 1 .. L + 1 : stack'[i].pc = stack'[j].pc => i = j
      <4>1. \A i, j \in 1 .. L : callers[i].pc = callers[j].pc => i = j
        BY DEF Nested
      <4> QED
        BY <1>4, <2>2, <2>3, <2>4, <2>5, <4>1
    <3> QED
      BY <1>1, <2>1, <2>3, <3>1, <3>2 DEF Nested
  <2>7. Followed(stack, seen)'
    <3>1. ASSUME NEW i \in 1 .. L + 1, NEW k \in DOMAIN Eps(stack'[i].pc, pos), k < stack'[i].next
          PROVE  Eps(stack'[i].pc, pos)[k] \in seen \cup {pc}
      <4>1. CASE i \in 1 .. L
        BY <2>3, <3>1, <4>1 DEF Followed
      <4>2. CASE i = L + 1
        <5>1. stack'[i].pc = pc /\ stack'[i].next = 1
          BY <2>2, <2>3, <4>2
        <5>2. k \in 1 .. Len(Eps(pc, pos)) /\ Len(Eps(pc, pos)) \in Nat
          BY <3>1, <5>1, ProgramFacts
        <5> QED
          BY <3>1, <5>1, <5>2
      <4> QED
        BY <2>4, <4>1, <4>2
    <3>2. ASSUME NEW q \in seen \cup {pc}
          PROVE  \/ \A k \in DOMAIN Eps(q, pos) : Eps(q, pos)[k] \in seen \cup {pc}
                 \/ \E i \in 1 .. L + 1 : stack'[i].pc = q
      <4>1. CASE q = pc
        <5>1. L + 1 \in 1 .. L + 1
          BY <1>2
        <5> QED
          BY <2>2, <2>3, <4>1, <5>1
      <4>2. CASE q \in seen
        <5>1. \A i \in 1 .. L : i \in 1 .. L + 1
          BY <1>2
        <5> QED
          BY <2>3, <4>2, <5>1 DEF Followed
      <4> QED
        BY <4>1, <4>2
    <3>3. PICK st : st = stack'
      OBVIOUS
    <3>4. \A i \in 1 .. Len(st) : \A k \in DOMAIN Eps(st[i].pc, pos)' :
            k < st[i].next => Eps(st[i].pc, pos)'[k] \in seen \cup {pc}
      BY <1>1, <2>3, <3>1, <3>3
    <3>5. \A q \in seen \cup {pc} :
            \/ \A k \in DOMAIN Eps(q, pos)' : Eps(q, pos)'[k] \in seen \cup {pc}
            \/ \E i \in 1 .. Len(st) : st[i].pc = q
      BY <1>1, <2>3, <3>2, <3>3
    <3>6. Followed(stack, seen)' <=>
            /\ \A i \in 1 .. Len(st) : \A k \in DOMAIN Eps(st[i].pc, pos)' :
                 k < st[i].next => Eps(st[i].pc, pos)'[k] \in seen'
            /\ \A q \in seen' :
                 \/ \A k \in DOMAIN Eps(q, pos)' : Eps(q, pos)'[k] \in seen'
                 \/ \E i \in 1 .. Len(st) : st[i].pc = q
      BY <3>3 DEF Followed
    <3> QED
      BY <2>1, <3>4, <3>5, <3>6
  <2> QED
    BY <1>2, <2>1, <2>3, <2>6, <2>7
<1> QED
  BY <1>3, <1>4

\* The facts about a step that leaves the position as it is.
LEMMA SamePosition ==
  ASSUME IInv, pattern' = pattern, input' = input, pos' = pos, set' = set, answer' = answer
  PROVE  /\ Reached' = Reached
         /\ Earlier' /\ AnswersAcceptance'
<1>1. /\ Size' = Size /\ Pcs' = Pcs /\ Entry' = Entry /\ State' = State
      /\ Reachable' = Reachable /\ Accepts' = Accepts
      /\ \A pc : At(pc)' = At(pc)
      /\ \A pc, p : Eps(pc, p)' = Eps(pc, p)
      /\ \A pc, p : Takes(pc, p)' = Takes(pc, p)
  BY SameProgram
<1>2. Seeds' = Seeds /\ \A S : ClosedAt(S)' = ClosedAt(S)
  BY <1>1 DEF Seeds, ClosedAt
<1>3. Reached' = Reached
  BY <1>1, <1>2 DEF Reached, Pcs
<1>4. \A P : Fruitless(P)' = Fruitless(P)
  BY <1>1 DEF Fruitless
<1> QED
  BY <1>1, <1>3, <1>4 DEF IInv, Earlier, AnswersAcceptance

LEMMA FollowKeepsInv ==
  ASSUME IInv, Follow
  PROVE  IInv'
<1> DEFINE L == Len(stack)
           t == Eps(Top.pc, pos)[Top.next]
           r == [pc |-> Top.pc, fuel |-> Top.fuel, next |-> Top.next + 1]
           callers == [stack EXCEPT ![L] = r]
<1>1. /\ stack # <<>> /\ More /\ Add(t, Top.fuel, callers)
      /\ pattern' = pattern /\ input' = input /\ pos' = pos /\ set' = set
      /\ scan' = scan /\ answer' = answer
  BY DEF Follow
<1>2. /\ TypeOK /\ stack \in Seq(Active) /\ L \in 1 .. Size /\ L \in Nat /\ Size \in Nat
      /\ Top = stack[L] /\ Nested(stack, seen) /\ Followed(stack, seen)
      /\ seen \subseteq Pcs
  BY <1>1, FuelIsLeft, ProgramFacts DEF IInv, TypeOK, Top, Pcs
<1>3. L \in 1 .. L /\ Top \in Active
  BY <1>2
<1>4. /\ Top.pc \in Pcs /\ Top.fuel \in Nat /\ Top.next \in Nat \ {0}
      /\ Top.pc \in seen /\ Top.fuel = Size + 1 - L /\ Top.fuel # 0
  BY <1>1, <1>2, <1>3, FuelIsLeft DEF Active, Pcs, Nested
<1>5. Top.next \in DOMAIN Eps(Top.pc, pos) /\ t \in Pcs
  BY <1>1, <1>2, <1>4, ProgramFacts DEF More
<1>6. r \in Active
  BY <1>4 DEF Active, Pcs
<1> HIDE DEF r
<1>7. /\ callers \in Seq(Active) /\ Len(callers) = L
      /\ \A i \in 1 .. L : callers[i] = IF i = L THEN r ELSE stack[i]
  BY <1>2, <1>3, <1>6
<1>8. /\ \A i \in 1 .. L : callers[i].pc = stack[i].pc /\ callers[i].fuel = stack[i].fuel
      /\ \A i \in 1 .. L : callers[i].next = IF i = L THEN stack[i].next + 1 ELSE stack[i].next
  BY <1>2, <1>7 DEF r
<1> HIDE DEF callers
<1>9. Nested(callers, seen)
  BY <1>2, <1>7, <1>8 DEF Nested
<1>10. Followed(callers, seen \cup {t})
  <2>1. ASSUME NEW i \in 1 .. L, NEW k \in DOMAIN Eps(stack[i].pc, pos), k < callers[i].next
        PROVE  Eps(stack[i].pc, pos)[k] \in seen \cup {t}
    <3>0. stack[i].next \in Nat /\ stack[i].pc \in Pcs
      <4>1. stack[i] \in Active
        BY <1>2
      <4> QED
        BY <4>1 DEF Active, Pcs
    <3>1. k \in Nat
      BY <1>2, <2>1, <3>0, ProgramFacts
    <3>2. CASE k < stack[i].next
      BY <1>2, <2>1, <3>2 DEF Followed
    <3>3. CASE ~(k < stack[i].next)
      <4>1. i = L /\ k = Top.next
        BY <1>2, <1>8, <2>1, <3>0, <3>1, <3>3
      <4> QED
        BY <1>2, <4>1
    <3> QED
      BY <3>2, <3>3
  <2>2. ASSUME NEW q \in seen
        PROVE  \/ \A k \in DOMAIN Eps(q, pos) : Eps(q, pos)[k] \in seen \cup {t}
               \/ \E i \in 1 .. L : callers[i].pc = q
    BY <1>2, <1>8 DEF Followed
  <2> HIDE DEF t
  <2> QED
    BY <1>7, <1>8, <2>1, <2>2 DEF Followed
<1>11. L = Len(callers) /\ Top.fuel = Size + 1 - Len(callers)
  BY <1>4, <1>7
<1> HIDE DEF L
<1>12. /\ seen' = seen \cup {t} /\ calls' \in Nat /\ stack' \in Seq(Active)
       /\ Nested(stack, seen)' /\ Followed(stack, seen)'
  <2> HIDE DEF t
  <2> QED
    BY <1>1, <1>2, <1>4, <1>5, <1>7, <1>9, <1>10, <1>11, AddVisits
<1>13. Size' = Size /\ Entry' = Entry /\ Reachable' = Reachable
       /\ (\A pc : At(pc)' = At(pc)) /\ (\A pc, p : Takes(pc, p)' = Takes(pc, p))
  BY <1>1, SameProgram
<1>14. Reached' = Reached /\ Earlier' /\ AnswersAcceptance'
  BY <1>1, SamePosition
<1>15. TypeOK'
  BY <1>1, <1>2, <1>5, <1>12, <1>13 DEF TypeOK, Pcs, Active
<1>16. Seeded'
  BY <1>1, <1>12, <1>13 DEF IInv, Seeded
<1>17. t \in Reached
  BY <1>4, <1>5 DEF IInv, Visited, Reached, ClosedAt, Pcs
<1>18. <<t, pos>> \in Reachable
  <2>1. <<Top.pc, pos>> \in Reachable
    BY <1>4 DEF IInv, Visited
  <2>2. ASSUME NEW S \in SUBSET State, Run(S)
        PROVE  <<t, pos>> \in S
    <3>1. <<Top.pc, pos>> \in S
      BY <2>1, <2>2 DEF Reachable
    <3>2. \A x \in S : \A k \in DOMAIN Eps(x[1], x[2]) : <<Eps(x[1], x[2])[k], x[2]>> \in S
      BY <2>2 DEF Run
    <3> QED
      BY <1>5, <3>1, <3>2
  <2>3. <<t, pos>> \in State
    BY <1>2, <1>5 DEF State, TypeOK, Pcs
  <2> QED
    BY <2>2, <2>3 DEF Reachable
<1>19. Visited'
  BY <1>1, <1>12, <1>13, <1>14, <1>17, <1>18 DEF IInv, Visited
<1> QED
  BY <1>12, <1>14, <1>15, <1>16, <1>19 DEF IInv

\* The last call of add returns: its successors have all been looked at.
LEMMA ReturnKeepsInv ==
  ASSUME IInv, Return
  PROVE  IInv'
<1> DEFINE L == Len(stack)
<1>1. /\ stack # <<>> /\ ~More /\ stack' = SubSeq(stack, 1, L - 1)
      /\ pattern' = pattern /\ input' = input /\ pos' = pos /\ set' = set /\ seen' = seen
      /\ scan' = scan /\ answer' = answer /\ calls' = calls
  BY DEF Return
<1>2. /\ TypeOK /\ stack \in Seq(Active) /\ L \in 1 .. Size /\ L \in Nat /\ Size \in Nat
      /\ Top = stack[L] /\ Nested(stack, seen) /\ Followed(stack, seen) /\ seen \subseteq Pcs
  BY <1>1, FuelIsLeft, ProgramFacts DEF IInv, TypeOK, Top, Pcs
<1>3. L \in 1 .. L /\ Top \in Active
  BY <1>2
<1>4. Top.pc \in Pcs /\ Top.next \in Nat
  BY <1>3 DEF Active, Pcs
<1>5. \A k \in DOMAIN Eps(Top.pc, pos) : Eps(Top.pc, pos)[k] \in seen
  <2>1. \A k \in DOMAIN Eps(Top.pc, pos) : k < Top.next
    BY <1>1, <1>2, <1>4, ProgramFacts DEF More
  <2> QED
    BY <1>2, <1>3, <2>1 DEF Followed
<1>6. /\ stack' \in Seq(Active) /\ Len(stack') = L - 1
      /\ \A i \in 1 .. L - 1 : stack'[i] = stack[i]
  <2> DEFINE n == L - 1
  <2>1. n \in Nat /\ n <= L /\ stack' = SubSeq(stack, 1, n)
    BY <1>1, <1>2
  <2> HIDE DEF n
  <2>2. /\ SubSeq(stack, 1, n) \in Seq(Active) /\ Len(SubSeq(stack, 1, n)) = n
        /\ \A i \in 1 .. n : SubSeq(stack, 1, n)[i] = stack[i]
    BY <1>2, <2>1, SubSeqProperties, SMTT(60)
  <2> QED
    BY <2>1, <2>2 DEF n
<1>7. PICK st : st = stack'
  OBVIOUS
<1>8. /\ \A i \in 1 .. L : i \in 1 .. L - 1 \/ i = L
      /\ \A i \in 1 .. L - 1 : i \in 1 .. L
  BY <1>2
<1> HIDE DEF L
<1>9. Size' = Size /\ Entry' = Entry /\ Reachable' = Reachable
      /\ (\A pc : At(pc)' = At(pc)) /\ (\A pc, p : Takes(pc, p)' = Takes(pc, p))
      /\ (\A pc, p : Eps(pc, p)' = Eps(pc, p))
  BY <1>1, SameProgram
<1>10. Nested(stack, seen)'
  <2>1. Len(st) = L - 1 /\ \A i \in 1 .. L - 1 : i \in 1 .. L /\ st[i] = stack[i]
    BY <1>6, <1>7, <1>8
  <2>2. /\ \A i \in 1 .. L : stack[i].pc \in seen /\ stack[i].fuel = Size + 1 - i
        /\ \A i, j \in 1 .. L : stack[i].pc = stack[j].pc => i = j
    BY <1>2 DEF Nested, L
  <2>3. Nested(st, seen)
    BY <2>1, <2>2 DEF Nested
  <2>4. seen' = seen /\ Size' = Size
    BY <1>1, <1>9
  <2> QED
    BY <1>7, <2>3, <2>4 DEF Nested
<1>11. Followed(stack, seen)'
  <2>1. ASSUME NEW i \in 1 .. Len(st), NEW k \in DOMAIN Eps(st[i].pc, pos), k < st[i].next
        PROVE  Eps(st[i].pc, pos)[k] \in seen
    <3>1. st[i] = stack[i] /\ i \in 1 .. Len(stack)
      BY <1>6, <1>7, <1>8, <2>1 DEF L
    <3> QED
      BY <1>2, <2>1, <3>1 DEF Followed
  <2>2. ASSUME NEW q \in seen
        PROVE  \/ \A k \in DOMAIN Eps(q, pos) : Eps(q, pos)[k] \in seen
               \/ \E i \in 1 .. Len(st) : st[i].pc = q
    <3>1. CASE q = Top.pc
      BY <1>5, <3>1
    <3>2. CASE \E i \in 1 .. L : i # L /\ stack[i].pc = q
      BY <1>6, <1>7, <1>8, <3>2
    <3>3. CASE \A k \in DOMAIN Eps(q, pos) : Eps(q, pos)[k] \in seen
      BY <3>3
    <3> QED
      BY <1>2, <3>1, <3>2, <3>3 DEF Followed, L
  <2>3. Followed(st, seen)
    BY <2>1, <2>2 DEF Followed
  <2>4. seen' = seen /\ pos' = pos /\ \A pc, p : Eps(pc, p)' = Eps(pc, p)
    BY <1>1, <1>9
  <2> QED
    BY <1>7, <2>3, <2>4 DEF Followed
<1>12. Reached' = Reached /\ Earlier' /\ AnswersAcceptance'
  BY <1>1, SamePosition
<1>13. TypeOK'
  BY <1>1, <1>2, <1>6, <1>9 DEF TypeOK, Active
<1>14. Seeded'
  BY <1>1, <1>9 DEF IInv, Seeded
<1>15. Visited'
  BY <1>1, <1>9, <1>12 DEF IInv, Visited
<1> QED
  BY <1>10, <1>11, <1>12, <1>13, <1>14, <1>15 DEF IInv

-----------------------------------------------------------------------------
(* search and step                                                         *)

\* A call of add by search or step, for a target an attempt is in.
LEMMA StartKeepsInv ==
  ASSUME IInv, stack = <<>>, NEW t \in Pcs, t \in Seeds, <<t, pos>> \in Reachable,
         Add(t, Fuel, stack), pattern' = pattern, input' = input, pos' = pos,
         set' = set, answer' = answer, scan' \in 1 .. Size + 2
  PROVE  /\ seen' = seen \cup {t}
         /\ TypeOK' /\ Nested(stack, seen)' /\ Followed(stack, seen)'
         /\ Visited' /\ Earlier' /\ AnswersAcceptance'
<1>1. /\ TypeOK /\ stack \in Seq(Active) /\ Len(stack) = 0 /\ Size \in Nat /\ seen \subseteq Pcs
      /\ Nested(stack, seen) /\ Followed(stack, seen)
  BY ProgramFacts DEF IInv, TypeOK, Pcs
<1>2. Fuel \in Nat /\ Fuel # 0 /\ Fuel = Size + 1 - Len(stack)
  BY <1>1 DEF Fuel
<1>3. Followed(stack, seen \cup {t})
  BY <1>1 DEF Followed
<1>4. /\ seen' = seen \cup {t} /\ calls' \in Nat /\ stack' \in Seq(Active)
      /\ Nested(stack, seen)' /\ Followed(stack, seen)'
  BY <1>1, <1>2, <1>3, AddVisits
<1>5. Reached' = Reached /\ Earlier' /\ AnswersAcceptance'
  BY SamePosition
<1>6. Size' = Size /\ Reachable' = Reachable
  BY SameProgram
<1>7. TypeOK'
  BY <1>1, <1>4, <1>6 DEF TypeOK, Pcs, Active
<1>8. t \in Reached
  BY DEF Reached, Pcs
<1>9. Visited'
  BY <1>4, <1>5, <1>6, <1>8 DEF IInv, Visited
<1> QED
  BY <1>4, <1>5, <1>7, <1>9

LEMMA ScanKeepsInv ==
  ASSUME IInv, Scan
  PROVE  IInv'
<1>1. /\ stack = <<>> /\ scan <= Size /\ scan' = scan + 1
      /\ pattern' = pattern /\ input' = input /\ pos' = pos /\ set' = set /\ answer' = answer
  BY DEF Scan
<1>2. /\ TypeOK /\ Size \in Nat /\ scan \in 1 .. Size + 2 /\ Pcs = 1 .. Size
      /\ set \subseteq Pcs /\ Len(input) \in Nat /\ pos \in 0 .. Len(input)
  BY ProgramFacts DEF IInv, TypeOK, Pcs
<1>3. scan' \in 1 .. Size + 2 /\ scan' # Size + 2
  BY <1>1, <1>2
<1>4. Size' = Size /\ Entry' = Entry /\ Reachable' = Reachable
      /\ (\A pc : At(pc)' = At(pc)) /\ (\A pc, p : Takes(pc, p)' = Takes(pc, p))
      /\ (\A pc, p : Eps(pc, p)' = Eps(pc, p))
  BY <1>1, SameProgram
<1>5. \A pc \in set : pc < scan + 1 => pc < scan \/ pc = scan
  BY <1>2
<1>6. CASE scan \in set /\ Takes(scan, pos)
  <2> DEFINE t == At(scan).to[1]
  <2>1. Add(t, Fuel, stack)
    BY <1>6 DEF Scan
  <2>2. t \in Pcs /\ t \in Seeds
    BY <1>2, <1>6, ProgramFacts DEF Takes, Seeds
  <2>3. <<t, pos>> \in Reachable
    <3>1. pos > 0 /\ <<scan, pos - 1>> \in Reachable
      BY <1>6 DEF IInv, Visited
    <3>2. pos - 1 < Len(input) /\ pos - 1 + 1 = pos
      BY <1>2, <3>1
    <3>3. ASSUME NEW S \in SUBSET State, Run(S)
          PROVE  <<t, pos>> \in S
      <4>1. <<scan, pos - 1>> \in S
        BY <3>1, <3>3 DEF Reachable
      <4>2. \A x \in S : x[2] < Len(input) /\ Takes(x[1], x[2] + 1)
                           => <<At(x[1]).to[1], x[2] + 1>> \in S
        BY <3>3 DEF Run
      <4> DEFINE x == <<scan, pos - 1>>
      <4>3. x[1] = scan /\ x[2] < Len(input) /\ x[2] + 1 = pos
        BY <3>2
      <4> HIDE DEF x
      <4>4. x \in S
        BY <4>1 DEF x
      <4> QED
        BY <1>6, <4>2, <4>3, <4>4
    <3>4. <<t, pos>> \in State
      BY <1>2, <2>2 DEF State, Pcs
    <3> QED
      BY <3>3, <3>4 DEF Reachable
  <2> HIDE DEF t
  <2>4. /\ seen' = seen \cup {t}
        /\ TypeOK' /\ Nested(stack, seen)' /\ Followed(stack, seen)'
        /\ Visited' /\ Earlier' /\ AnswersAcceptance'
    BY <1>1, <1>3, <2>1, <2>2, <2>3, StartKeepsInv
  <2>5. Seeded'
    BY <1>1, <1>3, <1>4, <1>5, <2>4 DEF IInv, Seeded, t
  <2> QED
    BY <2>4, <2>5 DEF IInv
<1>7. CASE ~(scan \in set /\ Takes(scan, pos))
  <2>1. seen' = seen /\ stack' = stack /\ calls' = calls
    BY <1>7 DEF Scan
  <2>2. Reached' = Reached /\ Earlier' /\ AnswersAcceptance'
    BY <1>1, SamePosition
  <2>3. TypeOK'
    BY <1>1, <1>2, <1>3, <1>4, <2>1 DEF TypeOK, Active
  <2>4. Seeded'
    BY <1>1, <1>3, <1>4, <1>5, <1>7, <2>1 DEF IInv, Seeded
  <2>5. Visited'
    BY <1>1, <1>4, <2>1, <2>2 DEF IInv, Visited
  <2>6. Nested(stack, seen)' /\ Followed(stack, seen)'
    BY <1>1, <1>4, <2>1 DEF IInv, Nested, Followed
  <2> QED
    BY <2>2, <2>3, <2>4, <2>5, <2>6 DEF IInv
<1> QED
  BY <1>6, <1>7

LEMMA SeedKeepsInv ==
  ASSUME IInv, Seed
  PROVE  IInv'
<1>1. /\ stack = <<>> /\ scan = Size + 1 /\ scan' = scan + 1 /\ Add(Entry, Fuel, stack)
      /\ pattern' = pattern /\ input' = input /\ pos' = pos /\ set' = set /\ answer' = answer
  BY DEF Seed
<1>2. /\ TypeOK /\ Size \in Nat /\ Pcs = 1 .. Size /\ Entry \in Pcs
      /\ set \subseteq Pcs /\ pos \in 0 .. Len(input)
  BY ProgramFacts DEF IInv, TypeOK, Pcs
<1>3. scan' \in 1 .. Size + 2
  BY <1>1, <1>2
<1>4. Size' = Size /\ Entry' = Entry
      /\ (\A pc : At(pc)' = At(pc)) /\ (\A pc, p : Takes(pc, p)' = Takes(pc, p))
  BY <1>1, SameProgram
<1>5. Entry \in Seeds
  BY DEF Seeds
<1>6. <<Entry, pos>> \in Reachable
  <2>1. <<Entry, pos>> \in State
    BY <1>2 DEF State, Pcs
  <2> QED
    BY <1>2, <2>1 DEF Reachable, Run
<1>7. /\ seen' = seen \cup {Entry}
      /\ TypeOK' /\ Nested(stack, seen)' /\ Followed(stack, seen)'
      /\ Visited' /\ Earlier' /\ AnswersAcceptance'
  BY <1>1, <1>2, <1>3, <1>5, <1>6, StartKeepsInv
<1>8. Seeded'
  <2>1. \A pc \in set : pc < scan
    BY <1>1, <1>2
  <2> QED
    BY <1>1, <1>4, <1>7, <2>1 DEF IInv, Seeded
<1> QED
  BY <1>7, <1>8 DEF IInv

\* An instruction in the finished set is reached, and done is accepted.
LEMMA SucceedKeepsInv ==
  ASSUME IInv, Succeed
  PROVE  IInv'
<1>1. /\ HasDone(seen) /\ answer' = "match"
      /\ pattern' = pattern /\ input' = input /\ pos' = pos /\ set' = set /\ seen' = seen
      /\ scan' = scan /\ stack' = stack /\ calls' = calls
  BY DEF Succeed
<1>2. /\ Size' = Size /\ Pcs' = Pcs /\ Entry' = Entry
      /\ Reachable' = Reachable /\ Accepts' = Accepts
      /\ (\A pc : At(pc)' = At(pc)) /\ (\A pc, p : Takes(pc, p)' = Takes(pc, p))
      /\ (\A pc, p : Eps(pc, p)' = Eps(pc, p))
  BY <1>1, SameProgram
<1>3. Accepts
  <2>1. PICK pc \in seen : At(pc).op = "done"
    BY <1>1 DEF HasDone
  <2>2. <<pc, pos>> \in Reachable
    BY DEF IInv, Visited
  <2> QED
    BY <2>1, <2>2 DEF Accepts
<1>4. TypeOK'
  BY <1>1, <1>2 DEF IInv, TypeOK, Active
<1>5. Nested(stack, seen)' /\ Followed(stack, seen)'
  BY <1>1, <1>2 DEF IInv, Nested, Followed
<1>6. Seeded'
  BY <1>1, <1>2 DEF IInv, Seeded
<1>7. Visited'
  <2>1. Seeds' = Seeds /\ \A S : ClosedAt(S)' = ClosedAt(S)
    BY <1>1, <1>2 DEF Seeds, ClosedAt
  <2>2. Reached' = Reached
    BY <1>2, <2>1 DEF Reached, Pcs
  <2> QED
    BY <1>1, <1>2, <2>2 DEF IInv, Visited
<1>8. Earlier' /\ AnswersAcceptance'
  BY <1>1, <1>2, <1>3 DEF Earlier, AnswersAcceptance
<1> QED
  BY <1>4, <1>5, <1>6, <1>7, <1>8 DEF IInv

\* A finished set has every seed and is closed.
LEMMA CompleteIsClosed ==
  ASSUME IInv, Complete
  PROVE  Seeds \subseteq seen /\ ClosedAt(seen)
<1>1. /\ TypeOK /\ stack = <<>> /\ scan = Size + 2 /\ Size \in Nat /\ Pcs = 1 .. Size
      /\ set \subseteq Pcs /\ Seeded /\ Followed(stack, seen)
  BY ProgramFacts DEF IInv, TypeOK, Pcs, Complete
<1>2. \A pc \in set : pc < scan
  BY <1>1
<1>3. Seeds \subseteq seen
  BY <1>1, <1>2 DEF Seeds, Seeded
<1>4. ClosedAt(seen)
  BY <1>1 DEF ClosedAt, Followed
<1> QED
  BY <1>3, <1>4

\* The earlier positions and the finished one together.
LEMMA FruitlessExtends ==
  ASSUME IInv, Complete, ~HasDone(seen)
  PROVE  \E Q \in SUBSET State :
           /\ \A x \in Q : x[2] <= pos /\ At(x[1]).op # "done"
           /\ \A p \in 0 .. pos : <<Entry, p>> \in Q
           /\ \A x \in Q : \A k \in DOMAIN Eps(x[1], x[2]) : <<Eps(x[1], x[2])[k], x[2]>> \in Q
           /\ \A x \in Q : x[2] < pos /\ Takes(x[1], x[2] + 1)
                             => <<At(x[1]).to[1], x[2] + 1>> \in Q
           /\ \A x \in Q : x[2] = pos => x[1] \in seen
<1>1. PICK P \in SUBSET State : Fruitless(P)
  BY DEF IInv, Earlier, Complete
<1> DEFINE Q == P \cup {<<pc, pos>> : pc \in seen}
<1>2. /\ Seeds \subseteq seen /\ ClosedAt(seen) /\ seen \subseteq Pcs
      /\ Len(input) \in Nat /\ pos \in 0 .. Len(input)
  BY CompleteIsClosed, ProgramFacts DEF IInv, TypeOK, Pcs
<1>3. \A x \in P : x[1] \in Pcs /\ x[2] \in 0 .. Len(input) /\ x = <<x[1], x[2]>>
  BY DEF State, Pcs
<1>4. Q \in SUBSET State
  BY <1>2 DEF State, Pcs
<1>5. \A x \in P : x[2] < pos /\ At(x[1]).op # "done"
  BY <1>1 DEF Fruitless
<1>6. ASSUME NEW x \in Q PROVE x \in P \/ (x[1] \in seen /\ x[2] = pos)
  <2>1. CASE x \in P
    BY <2>1
  <2>2. CASE x \in {<<pc, pos>> : pc \in seen}
    <3>1. PICK pc \in seen : x = <<pc, pos>>
      BY <2>2
    <3> QED
      BY <3>1
  <2> QED
    BY <2>1, <2>2
<1>7. \A x \in Q : x[2] <= pos /\ At(x[1]).op # "done"
  <2>1. \A pc \in seen : At(pc).op # "done"
    BY DEF HasDone
  <2>2. \A x \in P : x[2] <= pos
    BY <1>2, <1>3, <1>5
  <2> HIDE DEF Q
  <2> QED
    BY <1>2, <1>5, <1>6, <2>1, <2>2
<1>8. \A p \in 0 .. pos : <<Entry, p>> \in Q
  <2>1. \A p \in 0 .. pos : p \in 0 .. pos - 1 \/ p = pos
    BY <1>2
  <2>2. Entry \in seen
    BY <1>2 DEF Seeds
  <2>3. \A p \in 0 .. pos - 1 : <<Entry, p>> \in P
    BY <1>1 DEF Fruitless
  <2> QED
    BY <2>1, <2>2, <2>3
<1>9. ASSUME NEW x \in Q, NEW k \in DOMAIN Eps(x[1], x[2])
      PROVE  <<Eps(x[1], x[2])[k], x[2]>> \in Q
  <2>1. CASE x \in P
    BY <1>1, <1>9, <2>1 DEF Fruitless
  <2>2. CASE x[1] \in seen /\ x[2] = pos
    <3>1. Eps(x[1], pos)[k] \in seen
      BY <1>2, <1>9, <2>2 DEF ClosedAt
    <3> QED
      BY <2>2, <3>1
  <2> QED
    BY <1>6, <1>9, <2>1, <2>2
<1>10. ASSUME NEW x \in Q, x[2] < pos, Takes(x[1], x[2] + 1)
       PROVE  <<At(x[1]).to[1], x[2] + 1>> \in Q
  <2>1. x \in P /\ x[2] \in Nat
    BY <1>2, <1>3, <1>6, <1>10
  <2>2. CASE x[2] + 1 < pos
    BY <1>1, <1>10, <2>1, <2>2 DEF Fruitless
  <2>3. CASE x[2] + 1 = pos
    <3>1. x[1] \in set
      BY <1>1, <2>1, <2>3 DEF Fruitless
    <3>2. At(x[1]).to[1] \in seen
      BY <1>2, <1>10, <2>3, <3>1 DEF Seeds
    <3> QED
      BY <2>3, <3>2
  <2> QED
    BY <1>2, <1>10, <2>1, <2>2, <2>3
<1>11. \A x \in Q : x[2] = pos => x[1] \in seen
  <2>1. \A x \in P : x[2] # pos
    BY <1>2, <1>3, <1>5
  <2> HIDE DEF Q
  <2> QED
    BY <1>6, <2>1
<1> HIDE DEF Q
<1> QED
  BY <1>4, <1>7, <1>8, <1>9, <1>10, <1>11

LEMMA AdvanceKeepsInv ==
  ASSUME IInv, Advance
  PROVE  IInv'
<1>1. /\ Complete /\ ~HasDone(seen) /\ answer = "searching" /\ stack = <<>> /\ stack' = <<>>
      /\ pattern' = pattern /\ input' = input
  BY DEF Advance, Complete
<1>2. /\ Size' = Size /\ Pcs' = Pcs /\ Entry' = Entry /\ State' = State
      /\ Reachable' = Reachable /\ Accepts' = Accepts /\ (\A S : Run(S)' = Run(S))
      /\ (\A pc : At(pc)' = At(pc)) /\ (\A pc, p : Takes(pc, p)' = Takes(pc, p))
      /\ (\A pc, p : Eps(pc, p)' = Eps(pc, p))
  BY <1>1, SameProgram
<1>3. /\ TypeOK /\ Size \in Nat /\ Pcs = 1 .. Size /\ Len(input) \in Nat /\ pos \in 0 .. Len(input)
      /\ seen \subseteq Pcs
  BY ProgramFacts DEF IInv, TypeOK, Pcs
<1>4. PICK Q \in SUBSET State :
        /\ \A x \in Q : x[2] <= pos /\ At(x[1]).op # "done"
        /\ \A p \in 0 .. pos : <<Entry, p>> \in Q
        /\ \A x \in Q : \A k \in DOMAIN Eps(x[1], x[2]) : <<Eps(x[1], x[2])[k], x[2]>> \in Q
        /\ \A x \in Q : x[2] < pos /\ Takes(x[1], x[2] + 1)
                          => <<At(x[1]).to[1], x[2] + 1>> \in Q
        /\ \A x \in Q : x[2] = pos => x[1] \in seen
  BY <1>1, FruitlessExtends
<1>5. CASE pos = Len(input)
  <2>1. /\ answer' = "none" /\ pos' = pos /\ set' = set /\ seen' = seen /\ scan' = scan
        /\ calls' = calls /\ stack' = stack
    BY <1>1, <1>5 DEF Advance
  <2>2. ~Accepts
    <3>1. Run(Q)
      BY <1>4, <1>5 DEF Run
    <3>2. Reachable \subseteq Q
      BY <3>1 DEF Reachable
    <3> QED
      BY <1>4, <3>2 DEF Accepts
  <2>3. TypeOK'
    BY <1>1, <1>2, <2>1 DEF IInv, TypeOK, Active
  <2>4. Nested(stack, seen)' /\ Followed(stack, seen)'
    BY <1>2, <2>1 DEF IInv, Nested, Followed
  <2>5. Seeded'
    BY <1>2, <2>1 DEF IInv, Seeded
  <2>6. Visited'
    <3>1. Seeds' = Seeds /\ \A S : ClosedAt(S)' = ClosedAt(S)
      BY <1>2, <2>1 DEF Seeds, ClosedAt
    <3>2. Reached' = Reached
      BY <1>2, <3>1 DEF Reached, Pcs
    <3> QED
      BY <1>2, <2>1, <3>2 DEF IInv, Visited
  <2>7. Earlier' /\ AnswersAcceptance'
    BY <1>2, <2>1, <2>2 DEF Earlier, AnswersAcceptance
  <2> QED
    BY <2>3, <2>4, <2>5, <2>6, <2>7 DEF IInv
<1>6. CASE pos # Len(input)
  <2>1. /\ answer' = answer /\ pos' = pos + 1 /\ set' = seen /\ seen' = {} /\ scan' = 1
        /\ calls' = 0
    BY <1>6 DEF Advance
  <2>2. pos + 1 \in 0 .. Len(input) /\ pos + 1 > 0 /\ pos + 1 - 1 = pos
    BY <1>3, <1>6
  <2>3. TypeOK'
    <3>1. 1 \in 1 .. Size + 2 /\ <<>> \in Seq(Active') /\ 0 \in Nat
      BY <1>3
    <3>2. pattern' \in Pattern /\ input' \in Input /\ answer' \in {"searching", "match", "none"}
      BY <1>1, <1>3, <2>1 DEF TypeOK
    <3> QED
      BY <1>1, <1>2, <1>3, <2>1, <2>2, <3>1, <3>2 DEF TypeOK, Pcs
  <2>4. Nested(stack, seen)' /\ Followed(stack, seen)'
    <3>1. Len(<<>>) = 0
      OBVIOUS
    <3> QED
      BY <1>1, <2>1, <3>1 DEF Nested, Followed
  <2>5. Seeded'
    <3>1. \A pc \in seen : ~(pc < 1)
      BY <1>3
    <3> QED
      BY <1>2, <1>3, <2>1, <3>1 DEF Seeded
  <2>6. Visited'
    <3>2. (\A pc \in set : pos > 0 /\ <<pc, pos - 1>> \in Reachable)'
      <4>1. set' = seen /\ pos' = pos + 1 /\ Reachable' = Reachable
        BY <1>2, <2>1
      <4>2. pos \in Int
        BY <1>3
      <4>3. ASSUME NEW pc \in seen
            PROVE  pos' > 0 /\ <<pc, pos' - 1>> \in Reachable'
        <5>1. pos' > 0 /\ pos' - 1 = pos
          BY <1>3, <4>1, <4>2
        <5>2. <<pc, pos>> \in Reachable
          BY DEF IInv, Visited
        <5> QED
          BY <4>1, <5>1, <5>2
      <4> QED
        BY <4>1, <4>3
    <3>3. (seen \subseteq Reached)' /\ (\A pc \in seen : <<pc, pos>> \in Reachable)'
      BY <2>1
    <3> QED
      BY <3>2, <3>3 DEF Visited
  <2>7. Fruitless(Q)'
    <3>1. \A x \in Q : x[2] \in 0 .. Len(input)
      BY DEF State
    <3>2. /\ \A x \in Q : x[2] < pos + 1 /\ At(x[1]).op # "done"
          /\ \A p \in 0 .. pos + 1 - 1 : <<Entry, p>> \in Q
      BY <1>3, <1>4, <2>2, <3>1
    <3>3. \A x \in Q : x[2] + 1 < pos + 1 /\ Takes(x[1], x[2] + 1)
                         => <<At(x[1]).to[1], x[2] + 1>> \in Q
      BY <1>3, <1>4, <3>1
    <3>4. \A x \in Q : x[2] + 1 = pos + 1 => x[1] \in seen
      BY <1>3, <1>4, <3>1
    <3>5. \A x \in Q : \A k \in DOMAIN Eps(x[1], x[2]) : <<Eps(x[1], x[2])[k], x[2]>> \in Q
      BY <1>4
    <3>6. /\ Entry' = Entry /\ pos' = pos + 1 /\ set' = seen
          /\ (\A pc : At(pc)' = At(pc)) /\ (\A pc, p : Takes(pc, p)' = Takes(pc, p))
          /\ (\A pc, p : Eps(pc, p)' = Eps(pc, p))
      BY <1>2, <2>1
    <3>7. /\ (\A x \in Q : x[2] < pos /\ At(x[1]).op # "done")'
          /\ (\A p \in 0 .. pos - 1 : <<Entry, p>> \in Q)'
      <4>0. pos' = pos + 1
        BY <3>6
      <4>1. Entry' = Entry /\ \A pc : At(pc)' = At(pc)
        BY <3>6
      <4>2. pos' - 1 = pos + 1 - 1
        BY <1>3, <4>0
      <4>3. (\A p \in 0 .. pos - 1 : <<Entry, p>> \in Q)'
        BY <3>2, <4>1, <4>2
      <4>4. (\A x \in Q : x[2] < pos /\ At(x[1]).op # "done")'
        BY <3>2, <4>0, <4>1
      <4> QED
        BY <4>3, <4>4
    <3>8. (\A x \in Q : \A k \in DOMAIN Eps(x[1], x[2]) : <<Eps(x[1], x[2])[k], x[2]>> \in Q)'
      BY <3>5, <3>6
    <3>9. (\A x \in Q : x[2] + 1 < pos /\ Takes(x[1], x[2] + 1)
                           => <<At(x[1]).to[1], x[2] + 1>> \in Q)'
      BY <3>3, <3>6
    <3>10. (\A x \in Q : x[2] + 1 = pos => x[1] \in set)'
      BY <3>4, <3>6
    <3> QED
      BY <3>7, <3>8, <3>9, <3>10 DEF Fruitless
  <2>8. Earlier' /\ AnswersAcceptance'
    BY <1>1, <1>2, <2>1, <2>7 DEF Earlier, AnswersAcceptance
  <2> QED
    BY <2>3, <2>4, <2>5, <2>6, <2>8 DEF IInv
<1> QED
  BY <1>5, <1>6

LEMMA StutterKeepsInv ==
  ASSUME IInv, UNCHANGED vars
  PROVE  IInv'
<1>1. /\ pattern' = pattern /\ input' = input /\ pos' = pos /\ set' = set /\ seen' = seen
      /\ scan' = scan /\ stack' = stack /\ answer' = answer /\ calls' = calls
  BY DEF vars
<1>2. /\ Size' = Size /\ Entry' = Entry /\ Reachable' = Reachable
      /\ (\A pc : At(pc)' = At(pc)) /\ (\A pc, p : Takes(pc, p)' = Takes(pc, p))
      /\ (\A pc, p : Eps(pc, p)' = Eps(pc, p))
  BY <1>1, SameProgram
<1>3. Reached' = Reached /\ Earlier' /\ AnswersAcceptance'
  BY <1>1, SamePosition
<1>4. TypeOK'
  BY <1>1, <1>2 DEF IInv, TypeOK, Active
<1>5. Nested(stack, seen)' /\ Followed(stack, seen)'
  BY <1>1, <1>2 DEF IInv, Nested, Followed
<1>6. Seeded' /\ Visited'
  BY <1>1, <1>2, <1>3 DEF IInv, Seeded, Visited
<1> QED
  BY <1>3, <1>4, <1>5, <1>6 DEF IInv

LEMMA Invariance ==
  Spec => []IInv
<1>1. IInv /\ [Next]_vars => IInv'
  <2> SUFFICES ASSUME IInv, [Next]_vars PROVE IInv'
    OBVIOUS
  <2>1. CASE Follow
    BY <2>1, FollowKeepsInv
  <2>2. CASE Return
    BY <2>2, ReturnKeepsInv
  <2>3. CASE Scan
    BY <2>3, ScanKeepsInv
  <2>4. CASE Seed
    BY <2>4, SeedKeepsInv
  <2>5. CASE Succeed
    BY <2>5, SucceedKeepsInv
  <2>6. CASE Advance
    BY <2>6, AdvanceKeepsInv
  <2>7. CASE UNCHANGED vars
    BY <2>7, StutterKeepsInv
  <2> QED
    BY <2>1, <2>2, <2>3, <2>4, <2>5, <2>6, <2>7 DEF Next
<1> QED
  BY <1>1, InitInv, PTL DEF Spec

-----------------------------------------------------------------------------
(* The theorems.                                                           *)

\* The search stays within the program and the input: every set, call of add
\* and position is one the arrays of `add` and `step` have.
THEOREM TypeCorrect ==
  Spec => []TypeOK
<1>1. IInv => TypeOK
  BY DEF IInv
<1> QED
  BY <1>1, Invariance, PTL

\* "the visited set makes extra fuel harmless", and the fuel of `size + 1` is
\* never missing: add is never stopped by it short of an unvisited instruction.
THEOREM FuelIsEnough ==
  Spec => []FuelSuffices
<1>1. IInv => FuelSuffices
  BY FuelIsLeft DEF FuelSuffices
<1> QED
  BY <1>1, Invariance, PTL

\* What add and step build for a position is the least set that holds the
\* targets of the characters taken and the entry and is closed under split
\* and assertion instructions.
THEOREM SetsAreClosures ==
  Spec => []SetIsReached
<1>1. IInv => SetIsReached
  <2> SUFFICES ASSUME IInv, Complete PROVE seen = Reached
    BY DEF SetIsReached
  <2>1. seen \subseteq Pc(ProgOf[pattern]) /\ seen \subseteq Reached
    BY DEF IInv, TypeOK, Visited
  <2>2. Reached \subseteq seen
    BY <2>1, CompleteIsClosed DEF Reached
  <2> QED
    BY <2>1, <2>2
<1> QED
  BY <1>1, Invariance, PTL

\* `search` answers "match" only when an attempt can reach `done`, and "none"
\* only when no attempt can, from any position, on any program and input.
THEOREM SearchIsExact ==
  Spec => []AnswersAcceptance
<1>1. IInv => AnswersAcceptance
  BY DEF IInv
<1> QED
  BY <1>1, Invariance, PTL

\* A finished set is the set of threads of the position.
LEMMA CompleteIsThreads ==
  ASSUME IInv, Complete
  PROVE  seen = Walk!Threads
<1>1. seen = Reached
  <2>1. seen \subseteq Pc(ProgOf[pattern]) /\ seen \subseteq Reached
    BY DEF IInv, TypeOK, Visited
  <2>2. Reached \subseteq seen
    BY <2>1, CompleteIsClosed DEF Reached
  <2> QED
    BY <2>1, <2>2
<1>2. \A S : Walk!Follows(S) <=> Seeds \subseteq S /\ ClosedAt(S)
  BY DEF Walk!Follows, Walk!Entry, Walk!Takes, Walk!At, Walk!Prog, Walk!Eps,
         Seeds, ClosedAt, Entry, Takes, At, Prog, Eps
<1>3. DOMAIN Walk!Prog = Pc(ProgOf[pattern])
  BY DEF Walk!Prog, Pc
<1> QED
  BY <1>1, <1>2, <1>3 DEF Walk!Threads, Reached

\* The search goes from one set of threads to the next: the walk of a set, its
\* recursion and its fuel happen between two steps of the abstract search.
THEOREM ImplementsSets ==
  Spec => ImplementsThreadSets
<1>1. Init => Walk!Init
  BY DEF Init, Walk!Init
<1>2. ASSUME IInv, [Next]_vars
      PROVE  [Walk!Next]_<<pattern, input, pos, set, answer>>
  <2>1. CASE Follow
    BY <2>1 DEF Follow
  <2>2. CASE Return
    BY <2>2 DEF Return
  <2>3. CASE Scan
    BY <2>3 DEF Scan
  <2>4. CASE Seed
    BY <2>4 DEF Seed
  <2>5. ASSUME Complete
        PROVE  HasDone(seen) <=> Walk!HasDone(Walk!Threads)
    BY <1>2, <2>5, CompleteIsThreads DEF HasDone, Walk!HasDone, At, Walk!At, Prog, Walk!Prog
  <2>6. CASE Succeed
    <3>1. Complete /\ HasDone(seen) /\ answer' = "match"
          /\ UNCHANGED <<pattern, input, pos, set>>
      BY <2>6 DEF Succeed
    <3>2. Walk!Found
      BY <2>5, <3>1 DEF Walk!Found, Complete
    <3> QED
      BY <3>2 DEF Walk!Next
  <2>7. CASE Advance
    <3>1. Complete /\ ~Walk!HasDone(Walk!Threads) /\ answer = "searching"
          /\ seen = Walk!Threads /\ UNCHANGED <<pattern, input>>
      BY <1>2, <2>5, <2>7, CompleteIsThreads DEF Advance, Complete
    <3>2. CASE pos = Len(input)
      <4>1. answer' = "none" /\ UNCHANGED <<pos, set>>
        BY <2>7, <3>2 DEF Advance
      <4>2. Walk!NotFound
        BY <3>1, <3>2, <4>1 DEF Walk!NotFound
      <4> QED
        BY <4>2 DEF Walk!Next
    <3>3. CASE pos # Len(input)
      <4>1. pos' = pos + 1 /\ set' = seen /\ UNCHANGED answer
        BY <2>7, <3>3 DEF Advance
      <4>2. pos < Len(input)
        BY <1>2, <3>3, ProgramFacts DEF IInv, TypeOK
      <4>3. Walk!NextCharacter
        BY <3>1, <4>1, <4>2 DEF Walk!NextCharacter
      <4> QED
        BY <4>3 DEF Walk!Next
    <3> QED
      BY <3>2, <3>3
  <2>8. CASE UNCHANGED vars
    BY <2>8 DEF vars
  <2> QED
    BY <1>2, <2>1, <2>2, <2>3, <2>4, <2>6, <2>7, <2>8 DEF Next
<1> QED
  BY <1>1, <1>2, Invariance, PTL DEF Spec, ImplementsThreadSets, Walk!Spec

-----------------------------------------------------------------------------
(* The work at a position.  Every call of add is paid for by an instruction *)
(* that is scanned, by the fresh attempt, or by a place a visited           *)
(* instruction leads to, and no place pays twice.                           *)

\* The places in W are behind the active calls.
Behind(st, W) ==
  \A i \in 1 .. Len(st), k \in {1, 2} : <<st[i].pc, k>> \in W => k < st[i].next

Paid ==
  \E W \in SUBSET (seen \X {1, 2}) :
    calls <= Cardinality(W) + scan - 1 /\ Behind(stack, W)

LEMMA PlacesAreFew ==
  ASSUME TypeOK, NEW W \in SUBSET (seen \X {1, 2})
  PROVE  IsFiniteSet(W) /\ Cardinality(W) \in Nat /\ Cardinality(W) <= 2 * Size
<1>1. Size \in Nat /\ Pcs = 1 .. Size /\ seen \subseteq Pcs
  BY ProgramFacts DEF TypeOK, Pcs
<1>2. IsFiniteSet(1 .. Size) /\ Cardinality(1 .. Size) = Size
  <2>1. \A n \in Nat : IsFiniteSet(1 .. n) /\ Cardinality(1 .. n) = IF 1 > n THEN 0 ELSE n - 1 + 1
    BY FS_Interval
  <2> QED
    BY <1>1, <2>1
<1>3. IsFiniteSet({1, 2}) /\ Cardinality({1, 2}) = 2
  <2>1. IsFiniteSet({1}) /\ Cardinality({1}) = 1
    BY FS_Singleton
  <2>2. {1, 2} = {1} \cup {2} /\ 2 \notin {1}
    OBVIOUS
  <2> QED
    BY <2>1, <2>2, FS_AddElement
<1> DEFINE A == 1 .. Size
           B == {1, 2}
<1>4. W \subseteq A \X B
  BY <1>1
<1> HIDE DEF A, B
<1>5. IsFiniteSet(A \X B) /\ Cardinality(A \X B) = Size * 2
  <2>1. IsFiniteSet(A) /\ IsFiniteSet(B) /\ Cardinality(A) = Size /\ Cardinality(B) = 2
    BY <1>2, <1>3 DEF A, B
  <2> QED
    BY <2>1, FS_Product
<1> QED
  BY <1>1, <1>4, <1>5, FS_Subset, FS_CardinalityType

\* A call that visits its instruction starts before the first place.
LEMMA AddPaid ==
  ASSUME TypeOK, NEW callers \in Seq(Active), NEW pc, NEW fuel,
         NEW W \in SUBSET (seen \X {1, 2}), Behind(callers, W), Add(pc, fuel, callers)
  PROVE  seen \subseteq seen' /\ Behind(stack, W)' /\ calls' = calls + 1
<1>1. CASE stack' = callers /\ seen' = seen
  BY <1>1 DEF Behind, Add
<1>2. CASE /\ pc \notin seen /\ seen' = seen \cup {pc}
           /\ stack' = Append(callers, Visit(pc, fuel - 1))
  <2> DEFINE v == Visit(pc, fuel - 1)
  <2>1. v.pc = pc
    BY DEF Visit
  <2> HIDE DEF v
  <2>2. Len(callers) \in Nat
    OBVIOUS
  <2>3. /\ Len(stack') = Len(callers) + 1 /\ stack'[Len(callers) + 1] = v
        /\ \A i \in 1 .. Len(callers) : stack'[i] = callers[i]
    <3>1. stack' = Append(callers, v)
      BY <1>2 DEF v
    <3> QED
      BY <3>1, AppendProperties
  <2>4. \A i \in 1 .. Len(callers) + 1 : i \in 1 .. Len(callers) \/ i = Len(callers) + 1
    BY <2>2
  <2>5. \A k : <<pc, k>> \notin W
    BY <1>2
  <2>6. \A i \in 1 .. Len(stack'), k \in {1, 2} : <<stack'[i].pc, k>> \in W => k < stack'[i].next
    BY <2>1, <2>3, <2>4, <2>5 DEF Behind
  <2> QED
    BY <1>2, <2>6 DEF Behind, Add
<1> QED
  BY <1>1, <1>2 DEF Add

LEMMA FollowKeepsPaid ==
  ASSUME IInv, Paid, Follow
  PROVE  Paid'
<1> DEFINE L == Len(stack)
           r == [pc |-> Top.pc, fuel |-> Top.fuel, next |-> Top.next + 1]
           callers == [stack EXCEPT ![L] = r]
<1>1. /\ stack # <<>> /\ More /\ scan' = scan
      /\ Add(Eps(Top.pc, pos)[Top.next], Top.fuel, callers)
  BY DEF Follow
<1>2. /\ TypeOK /\ stack \in Seq(Active) /\ L \in 1 .. Size /\ L \in Nat /\ Size \in Nat
      /\ Top = stack[L] /\ Nested(stack, seen) /\ calls \in Nat /\ scan \in 1 .. Size + 2
  BY <1>1, FuelIsLeft, ProgramFacts DEF IInv, TypeOK, Top
<1>3. L \in 1 .. L /\ Top \in Active
  BY <1>2
<1>4. /\ Top.pc \in Pcs /\ Top.fuel \in Nat /\ Top.next \in Nat \ {0} /\ Top.pc \in seen
  BY <1>2, <1>3 DEF Active, Pcs, Nested
<1>5. Top.next \in {1, 2}
  BY <1>1, <1>2, <1>4, ProgramFacts DEF More
<1>6. r \in Active
  BY <1>4 DEF Active, Pcs
<1> HIDE DEF r
<1>7. /\ callers \in Seq(Active) /\ Len(callers) = L
      /\ \A i \in 1 .. L : callers[i] = IF i = L THEN r ELSE stack[i]
  BY <1>2, <1>3, <1>6
<1> HIDE DEF callers
<1>8. PICK W \in SUBSET (seen \X {1, 2}) : calls <= Cardinality(W) + scan - 1 /\ Behind(stack, W)
  BY DEF Paid
<1>9. <<Top.pc, Top.next>> \notin W
  <2>1. \A k \in {1, 2} : <<Top.pc, k>> \in W => k < Top.next
    BY <1>2, <1>3, <1>8 DEF Behind
  <2> QED
    BY <1>4, <1>5, <2>1
<1> PICK V : V = W \cup {<<Top.pc, Top.next>>}
  OBVIOUS
<1>10. V \in SUBSET (seen \X {1, 2})
  BY <1>4, <1>5
<1>11. Cardinality(V) = Cardinality(W) + 1 /\ Cardinality(W) \in Nat
  BY <1>2, <1>9, PlacesAreFew, FS_AddElement
<1>12. Behind(callers, V)
  <2>1. ASSUME NEW i \in 1 .. L, NEW k \in {1, 2}, <<callers[i].pc, k>> \in V
        PROVE  k < callers[i].next
    <3>1. stack[i] \in Active
      BY <1>2
    <3>2. stack[i].next \in Nat
      BY <3>1 DEF Active
    <3>3. CASE i = L
      <4>1. callers[i].pc = Top.pc /\ callers[i].next = Top.next + 1
        BY <1>7, <3>3 DEF r
      <4>2. CASE <<Top.pc, k>> \in W
        <5>1. k < Top.next
          BY <1>2, <1>3, <1>8, <4>2 DEF Behind
        <5> QED
          BY <1>4, <4>1, <5>1
      <4>3. CASE k = Top.next
        BY <1>4, <4>1, <4>3
      <4> QED
        BY <2>1, <4>1, <4>2, <4>3
    <3>4. CASE i # L
      <4>1. callers[i] = stack[i] /\ stack[i].pc # Top.pc
        BY <1>2, <1>3, <1>7, <3>4 DEF Nested
      <4> QED
        BY <1>8, <2>1, <4>1 DEF Behind
    <3> QED
      BY <3>3, <3>4
  <2> QED
    BY <1>7, <2>1 DEF Behind
<1>13. seen \subseteq seen' /\ Behind(stack, V)' /\ calls' = calls + 1
  BY <1>1, <1>2, <1>7, <1>10, <1>12, AddPaid
<1>14. calls' <= Cardinality(V) + scan' - 1
  BY <1>1, <1>2, <1>8, <1>11, <1>13
<1>15. V \in SUBSET (seen' \X {1, 2})
  BY <1>10, <1>13
<1> QED
  BY <1>13, <1>14, <1>15 DEF Paid, Behind

LEMMA PaidIsInductive ==
  ASSUME IInv, Paid, [Next]_vars
  PROVE  Paid'
<1>1. TypeOK /\ Size \in Nat /\ calls \in Nat /\ scan \in 1 .. Size + 2 /\ stack \in Seq(Active)
  BY ProgramFacts DEF IInv, TypeOK
<1>2. PICK W \in SUBSET (seen \X {1, 2}) : calls <= Cardinality(W) + scan - 1 /\ Behind(stack, W)
  BY DEF Paid
<1>3. Cardinality(W) \in Nat
  BY <1>1, PlacesAreFew
<1>4. CASE Follow
  BY <1>4, FollowKeepsPaid
<1>5. CASE Return
  <2>1. /\ stack # <<>> /\ stack' = SubSeq(stack, 1, Len(stack) - 1)
        /\ seen' = seen /\ scan' = scan /\ calls' = calls
    BY <1>5 DEF Return
  <2> DEFINE n == Len(stack) - 1
  <2>2. n \in Nat /\ n <= Len(stack) /\ stack' = SubSeq(stack, 1, n)
    BY <1>1, <2>1
  <2>3. \A i \in 1 .. n : i \in 1 .. Len(stack)
    BY <1>1, <2>2
  <2> HIDE DEF n
  <2>4. Len(stack') = n /\ \A i \in 1 .. n : stack'[i] = stack[i]
    BY <1>1, <2>2, SubSeqProperties, SMTT(60)
  <2>5. \A i \in 1 .. Len(stack'), k \in {1, 2} : <<stack'[i].pc, k>> \in W => k < stack'[i].next
    BY <1>2, <2>3, <2>4 DEF Behind
  <2> QED
    BY <1>2, <2>1, <2>5 DEF Paid, Behind
<1>6. ASSUME NEW t, Add(t, Fuel, stack), scan' = scan + 1
      PROVE  Paid'
  <2>1. seen \subseteq seen' /\ Behind(stack, W)' /\ calls' = calls + 1
    BY <1>1, <1>2, <1>6, AddPaid
  <2>2. calls' <= Cardinality(W) + scan' - 1
    BY <1>1, <1>2, <1>3, <1>6, <2>1
  <2> QED
    BY <2>1, <2>2 DEF Paid, Behind
<1>7. ASSUME stack' = stack, seen' = seen, calls' = calls, scan' \in {scan, scan + 1}
      PROVE  Paid'
  <2>1. calls' <= Cardinality(W) + scan' - 1
    BY <1>1, <1>2, <1>3, <1>7
  <2> QED
    BY <1>2, <1>7, <2>1 DEF Paid, Behind
<1>8. CASE Scan
  BY <1>6, <1>7, <1>8 DEF Scan
<1>9. CASE Seed
  BY <1>6, <1>9 DEF Seed
<1>10. CASE Succeed
  BY <1>7, <1>10 DEF Succeed
<1>11. CASE Advance
  <2>1. CASE stack' = stack /\ seen' = seen /\ calls' = calls /\ scan' = scan
    BY <1>7, <2>1
  <2>2. CASE stack' = stack /\ stack = <<>> /\ calls' = 0 /\ scan' = 1
    <3>1. {} \in SUBSET (seen' \X {1, 2}) /\ Cardinality({}) = 0
      BY FS_EmptySet
    <3>2. Behind(stack, {})'
      BY DEF Behind
    <3>3. calls' <= Cardinality({}) + scan' - 1
      BY <2>2, <3>1
    <3> QED
      BY <3>1, <3>2, <3>3 DEF Paid, Behind
  <2> QED
    BY <1>11, <2>1, <2>2 DEF Advance, Complete
<1>12. CASE UNCHANGED vars
  BY <1>7, <1>12 DEF vars
<1> QED
  BY <1>4, <1>5, <1>8, <1>9, <1>10, <1>11, <1>12 DEF Next

\* "matching is linear in |input| x |program|": a position costs at most one
\* call of add for each instruction of the program, two for the places it
\* leads to, and one for the fresh attempt, whatever the program and the input.
THEOREM WorkIsLinear ==
  Spec => []LinearWork
<1>1. Init => Paid
  <2> SUFFICES ASSUME Init PROVE Paid
    OBVIOUS
  <2>1. TypeOK /\ Size \in Nat /\ calls = 0 /\ scan = Size + 1 /\ stack = <<>>
    BY InitInv, ProgramFacts DEF IInv, Init
  <2>2. {} \in SUBSET (seen \X {1, 2}) /\ Cardinality({}) = 0 /\ Behind(stack, {})
    BY FS_EmptySet DEF Behind
  <2>3. calls <= Cardinality({}) + scan - 1
    BY <2>1, <2>2
  <2> QED
    BY <2>2, <2>3 DEF Paid
<1>2. IInv /\ Paid => LinearWork
  <2> SUFFICES ASSUME IInv, Paid PROVE LinearWork
    OBVIOUS
  <2>1. TypeOK /\ Size \in Nat /\ calls \in Nat /\ scan \in 1 .. Size + 2
    BY ProgramFacts DEF IInv, TypeOK
  <2>2. PICK W \in SUBSET (seen \X {1, 2}) : calls <= Cardinality(W) + scan - 1
    BY DEF Paid
  <2>3. Cardinality(W) \in Nat /\ Cardinality(W) <= 2 * Size
    BY <2>1, PlacesAreFew
  <2> QED
    BY <2>1, <2>2, <2>3 DEF LinearWork
<1> QED
  BY <1>1, <1>2, PaidIsInductive, Invariance, PTL DEF Spec
=============================================================================
