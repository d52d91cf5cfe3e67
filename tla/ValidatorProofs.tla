--------------------------- MODULE ValidatorProofs ---------------------------
(***************************************************************************)
(* For every plan and every message: the validator decides ValidPred, and  *)
(* implements the one-step promise of Validation.                          *)
(***************************************************************************)
EXTENDS Validator, SequenceTheorems, TLAPS

-----------------------------------------------------------------------------
(* The inductive invariant.                                                *)

At(f) == f.unit \in DOMAIN Units(f.msg)
InRange(f) == f.unit <= Len(Units(f.msg)) + 1
Earlier(f) == \A u \in 1 .. f.unit - 1 : UnitHolds(f.msg, u)
PartsPassed(f, n) ==
  At(f) => \A p \in DOMAIN Parts(f.msg, f.unit) :
             p <= n => Parts(f.msg, f.unit)[p] \in Valid
RulesPassed(f) ==
  At(f) => \A r \in DOMAIN Chain(f.msg, f.unit) :
             r < f.rule => Chain(f.msg, f.unit)[r] \in Satisfied(f.msg, f.unit)
Passed(f) == InRange(f) /\ Earlier(f) /\ RulesPassed(f)

\* A violation of the message of a frame is the input's.
Inherits(m, f) ==
  f.msg \notin Valid => m \notin Valid /\ ViolationOf[m] = ViolationOf[f.msg]

\* The call above a frame is about the part it last went into.
Calls(f, g) ==
  /\ At(f)
  /\ f.part - 1 \in DOMAIN Parts(f.msg, f.unit)
  /\ g.msg = Parts(f.msg, f.unit)[f.part - 1]

Frames(m, st) == \A i \in 1 .. Len(st) : Passed(st[i]) /\ Inherits(m, st[i])
TopParts(st) == st # <<>> => PartsPassed(st[Len(st)], st[Len(st)].part - 1)
Lower(f, g) == PartsPassed(f, f.part - 2) /\ Calls(f, g)
LowerParts(st) == \A i \in 1 .. Len(st) - 1 : Lower(st[i], st[i + 1])
Rooted(m, st) == st # <<>> => m \in Message /\ st[1].msg = m
StackOK(m, st) == Frames(m, st) /\ TopParts(st) /\ LowerParts(st) /\ Rooted(m, st)

Deciding == stack # <<>> => outcome = V!Pending

IInv == TypeOK /\ StackOK(input, stack) /\ Deciding /\ DecidesValidPred

-----------------------------------------------------------------------------
(* The plan.                                                               *)

LEMMA FirstIsLeast ==
  ASSUME NEW S \in SUBSET Nat, NEW x \in S, \A y \in S : x <= y
  PROVE  First(S) = x
<1>1. \A y \in S : (\A z \in S : y <= z) => y = x
  OBVIOUS
<1>2. First(S) \in S /\ \A z \in S : First(S) <= z
  BY DEF First
<1> QED
  BY <1>1, <1>2

LEMMA MessageUnitType ==
  ASSUME NEW t \in Type
  PROVE  MessageUnit(t) \in Unit
<1> DEFINE mem == [name |-> NoName, rules |-> MessageRules[t], ignoreZero |-> FALSE,
                   nested |-> FALSE]
<1>1. mem \in Member
  BY PlanAssumption DEF Member
<1> HIDE DEF mem
<1>2. <<mem>> \in Seq(Member)
  BY <1>1
<1>3. MessageUnit(t) = [name |-> NoName, shape |-> "message", required |-> FALSE,
                        members |-> <<mem>>]
  BY DEF MessageUnit, mem
<1> QED
  BY <1>2, <1>3, PlanAssumption DEF Unit

LEMMA UnitsType ==
  ASSUME NEW m \in Message
  PROVE  Units(m) \in Seq(Unit)
<1>1. TypeOf[m] \in Type
  BY PlanAssumption
<1>2. FieldUnits[TypeOf[m]] \in Seq(Unit) /\ OneofUnits[TypeOf[m]] \in Seq(Unit)
  BY <1>1, PlanAssumption
<1>3. <<MessageUnit(TypeOf[m])>> \in Seq(Unit)
  BY <1>1, MessageUnitType
<1> QED
  BY <1>2, <1>3 DEF Units

LEMMA UnitType ==
  ASSUME NEW m \in Message, NEW u \in DOMAIN Units(m)
  PROVE  /\ Units(m)[u] \in Unit
         /\ Contents[m][u] \in Content
         /\ Active(m, u) \in Member
         /\ Chain(m, u) \in Seq(Rule)
         /\ Parts(m, u) \in Seq(Message)
<1>1. Units(m)[u] \in Unit
  BY UnitsType
<1>2. Contents[m] \in Seq(Content) /\ Len(Contents[m]) = Len(Units(m))
  BY ContentAssumption
<1>3. Contents[m][u] \in Content
  BY <1>2, UnitsType
<1>4. Contents[m][u].member \in DOMAIN Units(m)[u].members
  BY ContentAssumption
<1>5. Units(m)[u].members \in Seq(Member)
  BY <1>1 DEF Unit
<1>6. Active(m, u) \in Member
  BY <1>4, <1>5 DEF Active
<1>7. Active(m, u).rules \in Seq(Rule)
  BY <1>6 DEF Member
<1>8. Chain(m, u) \in Seq(Rule)
  BY <1>7, PlanAssumption DEF Chain
<1>9. Parts(m, u) \in Seq(Message)
  BY <1>3 DEF Parts, Content
<1> QED
  BY <1>1, <1>3, <1>6, <1>8, <1>9

\* The first unit that does not hold decides the violation of its message.
LEMMA FirstFault ==
  ASSUME NEW m \in Message, NEW u \in DOMAIN Units(m), ~UnitHolds(m, u),
         \A v \in 1 .. u - 1 : UnitHolds(m, v)
  PROVE  m \notin Valid /\ ViolationOf[m] = UnitViolation(m, u)
<1>1. DOMAIN Units(m) = 1 .. Len(Units(m)) /\ Len(Units(m)) \in Nat
  BY UnitsType
<1>2. BadUnits(m) \in SUBSET Nat /\ u \in BadUnits(m)
  BY <1>1 DEF BadUnits
<1>3. \A v \in BadUnits(m) : u <= v
  BY <1>1 DEF BadUnits
<1>4. First(BadUnits(m)) = u
  BY <1>2, <1>3, FirstIsLeast
<1>5. m \notin Valid
  BY <1>2, ValidAssumption
<1> QED
  BY <1>4, <1>5, ValidAssumption

LEMMA AllHold ==
  ASSUME NEW m \in Message, \A u \in DOMAIN Units(m) : UnitHolds(m, u)
  PROVE  m \in Valid
BY ValidAssumption DEF BadUnits

\* A unit decided: parts and rules passed.
LEMMA UnitPassed ==
  ASSUME NEW m \in Message, NEW u \in DOMAIN Units(m), IsSet(m, u),
         \A p \in DOMAIN Parts(m, u) : Parts(m, u)[p] \in Valid,
         Escapes(m, u) \/ \A r \in DOMAIN Chain(m, u) : Chain(m, u)[r] \in Satisfied(m, u)
  PROVE  UnitHolds(m, u)
BY DEF UnitHolds, BadParts, BadRules

\* An unset required unit.
LEMMA UnsetFault ==
  ASSUME NEW m \in Message, NEW u \in DOMAIN Units(m), ~IsSet(m, u)
  PROVE  /\ UnitHolds(m, u) <=> ~Units(m)[u].required
         /\ UnitViolation(m, u) = Refusal(Units(m)[u].name, Required)
BY DEF UnitHolds, UnitViolation

\* The first part that is not valid.
LEMMA PartFault ==
  ASSUME NEW m \in Message, NEW u \in DOMAIN Units(m), IsSet(m, u),
         NEW p \in DOMAIN Parts(m, u), Parts(m, u)[p] \notin Valid,
         \A q \in DOMAIN Parts(m, u) : q < p => Parts(m, u)[q] \in Valid
  PROVE  ~UnitHolds(m, u) /\ UnitViolation(m, u) = ViolationOf[Parts(m, u)[p]]
<1>1. DOMAIN Parts(m, u) = 1 .. Len(Parts(m, u)) /\ Len(Parts(m, u)) \in Nat
  BY UnitType
<1>2. BadParts(m, u) \in SUBSET Nat /\ p \in BadParts(m, u)
  BY <1>1 DEF BadParts
<1>3. \A q \in BadParts(m, u) : p <= q
  BY <1>1 DEF BadParts
<1>4. First(BadParts(m, u)) = p
  BY <1>2, <1>3, FirstIsLeast
<1> QED
  BY <1>2, <1>4 DEF UnitHolds, UnitViolation

\* The first rule that is not satisfied, when all parts are valid.
LEMMA RuleFault ==
  ASSUME NEW m \in Message, NEW u \in DOMAIN Units(m), IsSet(m, u), ~Escapes(m, u),
         \A q \in DOMAIN Parts(m, u) : Parts(m, u)[q] \in Valid,
         NEW r \in DOMAIN Chain(m, u), Chain(m, u)[r] \notin Satisfied(m, u),
         \A q \in DOMAIN Chain(m, u) : q < r => Chain(m, u)[q] \in Satisfied(m, u)
  PROVE  /\ ~UnitHolds(m, u)
         /\ UnitViolation(m, u) = Refusal(Active(m, u).name, Chain(m, u)[r])
<1>1. DOMAIN Chain(m, u) = 1 .. Len(Chain(m, u)) /\ Len(Chain(m, u)) \in Nat
  BY UnitType
<1>2. BadRules(m, u) \in SUBSET Nat /\ r \in BadRules(m, u)
  BY <1>1 DEF BadRules
<1>3. \A q \in BadRules(m, u) : r <= q
  BY <1>1 DEF BadRules
<1>4. First(BadRules(m, u)) = r
  BY <1>2, <1>3, FirstIsLeast
<1>5. BadParts(m, u) = {}
  BY DEF BadParts
<1> QED
  BY <1>2, <1>4, <1>5 DEF UnitHolds, UnitViolation

-----------------------------------------------------------------------------
(* The stack.                                                              *)

LEMMA PushFirst ==
  ASSUME NEW m \in Message
  PROVE  /\ <<Started(m)>> \in Seq(Frame)
         /\ StackOK(m, <<Started(m)>>)
<1> DEFINE f == Started(m)
<1>1. f \in Frame /\ f.msg = m /\ f.unit = 1 /\ f.part = 1 /\ f.rule = 1
  BY DEF Started, Frame
<1>2. DOMAIN Units(m) = 1 .. Len(Units(m)) /\ Len(Units(m)) \in Nat
  BY UnitsType
<1>3. At(f) => /\ DOMAIN Parts(m, 1) = 1 .. Len(Parts(m, 1)) /\ Len(Parts(m, 1)) \in Nat
               /\ DOMAIN Chain(m, 1) = 1 .. Len(Chain(m, 1)) /\ Len(Chain(m, 1)) \in Nat
  BY <1>1, UnitType DEF At
<1> HIDE DEF f
<1>4. Passed(f)
  BY <1>1, <1>2, <1>3 DEF Passed, InRange, Earlier, RulesPassed
<1>5. PartsPassed(f, f.part - 1)
  BY <1>1, <1>3 DEF PartsPassed
<1>6. Inherits(m, f)
  BY <1>1 DEF Inherits
<1>7. StackOK(m, <<f>>)
  BY <1>1, <1>4, <1>5, <1>6 DEF StackOK, Frames, TopParts, LowerParts, Rooted
<1>8. <<f>> \in Seq(Frame)
  BY <1>1
<1> QED
  BY <1>7, <1>8 DEF f

LEMMA ExceptTop ==
  ASSUME NEW st \in Seq(Frame), NEW n \in 1 .. Len(st), NEW f \in Frame
  PROVE  /\ [st EXCEPT ![n] = f] \in Seq(Frame)
         /\ Len([st EXCEPT ![n] = f]) = Len(st)
         /\ [st EXCEPT ![n] = f][n] = f
         /\ \A i \in 1 .. n - 1 : [st EXCEPT ![n] = f][i] = st[i]
<1>1. [st EXCEPT ![n] = f] \in Seq(Frame) /\ Len([st EXCEPT ![n] = f]) = Len(st)
  OBVIOUS
<1>2. [st EXCEPT ![n] = f][n] = f
  OBVIOUS
<1>3. \A i \in 1 .. n - 1 : [st EXCEPT ![n] = f][i] = st[i]
  OBVIOUS
<1> QED
  BY <1>1, <1>2, <1>3

LEMMA ReplaceTop ==
  ASSUME NEW m, NEW st \in Seq(Frame), st # <<>>, StackOK(m, st),
         NEW f \in Frame, f.msg = st[Len(st)].msg, Passed(f), PartsPassed(f, f.part - 1)
  PROVE  /\ [st EXCEPT ![Len(st)] = f] \in Seq(Frame)
         /\ StackOK(m, [st EXCEPT ![Len(st)] = f])
<1> DEFINE n == Len(st)
           new == [st EXCEPT ![n] = f]
<1>1. n \in Nat /\ n >= 1 /\ DOMAIN st = 1 .. n
  BY EmptySeq
<1>2. /\ new \in Seq(Frame) /\ Len(new) = n /\ new[n] = f
      /\ \A i \in 1 .. n - 1 : new[i] = st[i]
  <2>1. n \in 1 .. Len(st) /\ Len(st) = n
    BY <1>1
  <2> HIDE DEF n
  <2> QED
    BY <2>1, ExceptTop
<1> HIDE DEF n, new
<1>3. Frames(m, new)
  <2>1. Inherits(m, f)
    BY <1>1 DEF StackOK, Frames, Inherits, n
  <2>2. \A i \in 1 .. n - 1 : Passed(st[i]) /\ Inherits(m, st[i])
    BY <1>1 DEF StackOK, Frames, n
  <2> QED
    BY <1>1, <1>2, <2>1, <2>2 DEF Frames
<1>4. TopParts(new)
  BY <1>2 DEF TopParts
<1>5. LowerParts(new)
  <2>1. \A i \in 1 .. n - 1 : Lower(st[i], st[i + 1])
    BY <1>1 DEF StackOK, LowerParts, n
  <2> SUFFICES ASSUME NEW i \in 1 .. n - 1
               PROVE  Lower(new[i], new[i + 1])
    BY <1>2 DEF LowerParts
  <2>2. new[i] = st[i] /\ new[i + 1].msg = st[i + 1].msg
    <3>1. CASE i = n - 1
      <4>1. i + 1 = n
        BY <1>1, <3>1
      <4> QED
        BY <1>2, <4>1 DEF n
    <3>2. CASE i # n - 1
      <4>1. i + 1 \in 1 .. n - 1
        BY <1>1, <3>2
      <4> QED
        BY <1>2, <4>1
    <3> QED
      BY <3>1, <3>2
  <2> QED
    BY <2>1, <2>2 DEF Lower, Calls
<1>6. Rooted(m, new)
  <2>1. CASE n = 1
    BY <1>2, <2>1 DEF StackOK, Rooted, n
  <2>2. CASE n # 1
    <3>1. 1 \in 1 .. n - 1
      BY <1>1, <2>2
    <3> QED
      BY <1>2, <3>1 DEF StackOK, Rooted
  <2> QED
    BY <2>1, <2>2
<1>7. StackOK(m, new)
  BY <1>3, <1>4, <1>5, <1>6 DEF StackOK
<1> QED
  BY <1>2, <1>7 DEF n, new

\* ReplaceTop by f, then a call g from it.
LEMMA Push ==
  ASSUME NEW m, NEW st \in Seq(Frame), st # <<>>, StackOK(m, st),
         NEW f \in Frame, f.msg = st[Len(st)].msg, Passed(f),
         NEW g \in Frame, Lower(f, g), Passed(g), Inherits(m, g),
         PartsPassed(g, g.part - 1)
  PROVE  /\ Append([st EXCEPT ![Len(st)] = f], g) \in Seq(Frame)
         /\ StackOK(m, Append([st EXCEPT ![Len(st)] = f], g))
<1> DEFINE n == Len(st)
           new == Append([st EXCEPT ![n] = f], g)
<1>1. n \in Nat /\ n >= 1 /\ DOMAIN st = 1 .. n
  BY EmptySeq
<1>2. /\ new \in Seq(Frame) /\ Len(new) = n + 1 /\ new[n] = f /\ new[n + 1] = g
      /\ \A i \in 1 .. n - 1 : new[i] = st[i]
  <2> DEFINE low == [st EXCEPT ![n] = f]
  <2>1. low \in Seq(Frame) /\ Len(low) = n /\ low[n] = f /\ \A i \in 1 .. n - 1 : low[i] = st[i]
    <3>1. n \in 1 .. Len(st) /\ Len(st) = n
      BY <1>1
    <3> HIDE DEF n
    <3> QED
      BY <3>1, ExceptTop
  <2> HIDE DEF low, n
  <2>2. Append(low, g) \in Seq(Frame) /\ Len(Append(low, g)) = n + 1
    BY <2>1
  <2>3. Append(low, g)[n + 1] = g /\ \A i \in 1 .. n : Append(low, g)[i] = low[i]
    BY <1>1, <2>1
  <2> QED
    BY <1>1, <2>1, <2>2, <2>3 DEF low
<1> HIDE DEF n, new
<1>3. Frames(m, new)
  <2>1. Inherits(m, f)
    BY <1>1 DEF StackOK, Frames, Inherits, n
  <2>2. \A i \in 1 .. n - 1 : Passed(st[i]) /\ Inherits(m, st[i])
    BY <1>1 DEF StackOK, Frames, n
  <2>3. ASSUME NEW i \in 1 .. n + 1
        PROVE  Passed(new[i]) /\ Inherits(m, new[i])
    <3>1. i \in 1 .. n - 1 \/ i = n \/ i = n + 1
      BY <1>1
    <3> QED
      BY <1>2, <2>1, <2>2, <3>1
  <2> QED
    BY <1>2, <2>3 DEF Frames
<1>4. TopParts(new)
  BY <1>2 DEF TopParts
<1>5. LowerParts(new)
  <2>1. \A i \in 1 .. n - 1 : Lower(st[i], st[i + 1])
    BY <1>1 DEF StackOK, LowerParts, n
  <2> SUFFICES ASSUME NEW i \in 1 .. n
               PROVE  Lower(new[i], new[i + 1])
    BY <1>1, <1>2 DEF LowerParts
  <2>2. CASE i = n
    BY <1>2, <2>2
  <2>3. CASE i # n
    <3>1. i \in 1 .. n - 1
      BY <1>1, <2>3
    <3>2. new[i] = st[i] /\ new[i + 1].msg = st[i + 1].msg
      <4>1. CASE i = n - 1
        <5>1. i + 1 = n
          BY <1>1, <4>1
        <5> QED
          BY <1>2, <3>1, <5>1 DEF n
      <4>2. CASE i # n - 1
        <5>1. i + 1 \in 1 .. n - 1
          BY <1>1, <3>1, <4>2
        <5> QED
          BY <1>2, <3>1, <5>1
      <4> QED
        BY <4>1, <4>2
    <3> QED
      BY <2>1, <3>1, <3>2 DEF Lower, Calls
  <2> QED
    BY <2>2, <2>3
<1>6. Rooted(m, new)
  <2>1. CASE n = 1
    BY <1>2, <2>1 DEF StackOK, Rooted, n
  <2>2. CASE n # 1
    <3>1. 1 \in 1 .. n - 1
      BY <1>1, <2>2
    <3> QED
      BY <1>2, <3>1 DEF StackOK, Rooted
  <2> QED
    BY <2>1, <2>2
<1>7. StackOK(m, new)
  BY <1>3, <1>4, <1>5, <1>6 DEF StackOK
<1> QED
  BY <1>2, <1>7 DEF n, new

\* A call returns: the part it was about is valid.
LEMMA Pop ==
  ASSUME NEW m, NEW st \in Seq(Frame), st # <<>>, StackOK(m, st),
         st[Len(st)].msg \in Valid
  PROVE  /\ SubSeq(st, 1, Len(st) - 1) \in Seq(Frame)
         /\ StackOK(m, SubSeq(st, 1, Len(st) - 1))
<1> DEFINE n == Len(st)
           new == SubSeq(st, 1, n - 1)
<1>1. n \in Nat /\ n >= 1 /\ DOMAIN st = 1 .. n
  BY EmptySeq
<1> HIDE DEF n
<1>2. /\ new \in Seq(Frame) /\ Len(new) = n - 1
      /\ \A i \in 1 .. n - 1 : new[i] = st[i]
  BY <1>1, SubSeqProperties, SMTT(60) DEF n
<1> HIDE DEF new
<1>3. Frames(m, new)
  BY <1>1, <1>2 DEF StackOK, Frames, n
<1>4. \A i \in 1 .. n - 1 : Lower(st[i], st[i + 1])
  BY <1>1 DEF StackOK, LowerParts, n
<1>5. TopParts(new)
  <2> SUFFICES ASSUME new # <<>>
               PROVE  PartsPassed(new[n - 1], new[n - 1].part - 1)
    BY <1>2 DEF TopParts
  <2>1. n - 1 \in 1 .. n - 1
    <3>1. Len(new) # 0
      BY <1>2, EmptySeq
    <3> QED
      BY <1>1, <1>2, <3>1
  <2> DEFINE f == st[n - 1]
  <2>2. new[n - 1] = f
    BY <1>2, <2>1
  <2>3. Lower(f, st[n])
    <3>1. (n - 1) + 1 = n
      BY <1>1
    <3> QED
      BY <1>4, <2>1, <3>1
  <2>4. st[n].msg \in Valid
    BY DEF n
  <2>5. f \in Frame
    <3>1. n - 1 \in DOMAIN st
      BY <1>1, <2>1
    <3> QED
      BY <3>1
  <2> HIDE DEF f
  <2>6. f.msg \in Message /\ f.part \in Nat
    BY <2>5 DEF Frame
  <2>7. PartsPassed(f, f.part - 1)
    <3> SUFFICES ASSUME At(f), NEW p \in DOMAIN Parts(f.msg, f.unit), p <= f.part - 1
                 PROVE  Parts(f.msg, f.unit)[p] \in Valid
      BY DEF PartsPassed
    <3>1. p \in Nat
      BY <2>6, UnitType DEF At
    <3>2. p <= f.part - 2 \/ p = f.part - 1
      BY <2>6, <3>1
    <3>3. CASE p <= f.part - 2
      BY <2>3, <3>3 DEF Lower, PartsPassed
    <3>4. CASE p = f.part - 1
      BY <2>3, <2>4, <3>4 DEF Lower, Calls
    <3> QED
      BY <3>2, <3>3, <3>4
  <2> QED
    BY <2>2, <2>7
<1>6. LowerParts(new)
  <2> SUFFICES ASSUME NEW i \in 1 .. n - 2
               PROVE  Lower(new[i], new[i + 1])
    BY <1>1, <1>2 DEF LowerParts
  <2>1. i \in 1 .. n - 1 /\ i + 1 \in 1 .. n - 1
    BY <1>1
  <2> QED
    BY <1>2, <1>4, <2>1
<1>7. Rooted(m, new)
  <2> SUFFICES ASSUME new # <<>>
               PROVE  m \in Message /\ new[1].msg = m
    BY DEF Rooted
  <2>1. 1 \in 1 .. n - 1
    <3>1. Len(new) # 0
      BY <1>2, EmptySeq
    <3> QED
      BY <1>1, <1>2, <3>1
  <2> QED
    BY <1>2, <2>1 DEF StackOK, Rooted
<1>8. StackOK(m, new)
  BY <1>3, <1>5, <1>6, <1>7 DEF StackOK
<1> QED
  BY <1>2, <1>8 DEF n, new

-----------------------------------------------------------------------------
(* The steps.                                                              *)

LEMMA Answers0 ==
  /\ V!Pending \in Outcome /\ V!Answer("ok") \in Outcome /\ V!Answer("malformed") \in Outcome
  /\ V!Answer("ok") # V!Pending /\ V!Answer("malformed") # V!Pending
<1>1. NoName \in Name /\ Required \in Rule
  BY PlanAssumption
<1> QED
  BY <1>1 DEF V!Pending, V!Answer, Outcome

LEMMA RefusalType ==
  ASSUME NEW n \in Name, NEW r \in Rule
  PROVE  Refusal(n, r) \in Outcome /\ Refusal(n, r) # V!Pending
BY DEF Refusal, Outcome, V!Pending, V!Answer

\* What holds of the frame on top.
LEMMA TopFrame ==
  ASSUME IInv, stack # <<>>
  PROVE  /\ Top \in Frame /\ M \in Message /\ U \in Nat \ {0} /\ Top.part \in Nat \ {0}
         /\ Top.rule \in Nat \ {0} /\ Top.msg = M /\ Top.unit = U
         /\ Passed(Top) /\ Inherits(input, Top) /\ PartsPassed(Top, Top.part - 1)
         /\ input \in Message /\ outcome = V!Pending
         /\ Top = stack[Len(stack)]
         /\ stack \in Seq(Frame) /\ StackOK(input, stack)
<1>1. stack \in Seq(Frame) /\ StackOK(input, stack) /\ outcome = V!Pending
  BY DEF IInv, TypeOK, Deciding
<1>2. Len(stack) \in 1 .. Len(stack) /\ DOMAIN stack = 1 .. Len(stack)
  BY <1>1, EmptySeq
<1>3. Top \in Frame /\ Top = stack[Len(stack)]
  BY <1>1, <1>2 DEF Top
<1>4. M \in Message /\ U \in Nat \ {0} /\ Top.part \in Nat \ {0} /\ Top.rule \in Nat \ {0}
      /\ Top.msg = M /\ Top.unit = U
  BY <1>3 DEF Frame, M, U
<1>5. Passed(Top) /\ Inherits(input, Top)
  BY <1>1, <1>2, <1>3 DEF StackOK, Frames
<1>6. PartsPassed(Top, Top.part - 1) /\ input \in Message
  BY <1>1, <1>3 DEF StackOK, TopParts, Rooted
<1> QED
  BY <1>1, <1>3, <1>4, <1>5, <1>6

LEMMA TopUnit ==
  ASSUME IInv, AtUnit
  PROVE  /\ U \in DOMAIN Units(M) /\ At(Top)
         /\ \A v \in 1 .. U - 1 : UnitHolds(M, v)
         /\ \A p \in DOMAIN Parts(M, U) : p <= Top.part - 1 => Parts(M, U)[p] \in Valid
         /\ \A r \in DOMAIN Chain(M, U) : r < Top.rule => Chain(M, U)[r] \in Satisfied(M, U)
         /\ DOMAIN Parts(M, U) = 1 .. Len(Parts(M, U)) /\ Len(Parts(M, U)) \in Nat
         /\ DOMAIN Chain(M, U) = 1 .. Len(Chain(M, U)) /\ Len(Chain(M, U)) \in Nat
<1>1. stack # <<>> /\ U <= Len(Units(M))
  BY DEF AtUnit
<1>2. U \in DOMAIN Units(M)
  BY <1>1, TopFrame, UnitsType
<1>3. At(Top)
  BY <1>1, <1>2, TopFrame DEF At
<1>4. Chain(M, U) \in Seq(Rule) /\ Parts(M, U) \in Seq(Message)
  BY <1>1, <1>2, TopFrame, UnitType
<1>5. \A v \in 1 .. U - 1 : UnitHolds(M, v)
  BY <1>1, TopFrame DEF Passed, Earlier
<1>6. \A p \in DOMAIN Parts(M, U) : p <= Top.part - 1 => Parts(M, U)[p] \in Valid
  BY <1>1, <1>3, TopFrame DEF PartsPassed
<1>7. \A r \in DOMAIN Chain(M, U) : r < Top.rule => Chain(M, U)[r] \in Satisfied(M, U)
  BY <1>1, <1>3, TopFrame DEF Passed, RulesPassed
<1> HIDE DEF M, U
<1> QED
  BY <1>2, <1>3, <1>4, <1>5, <1>6, <1>7

\* The first unit that does not hold decides the answer.
LEMMA FailIsExact ==
  ASSUME IInv, AtUnit, ~UnitHolds(M, U)
  PROVE  V!Verdict(input) = UnitViolation(M, U)
<1>1. M \notin Valid /\ ViolationOf[M] = UnitViolation(M, U)
  BY TopFrame, TopUnit, FirstFault DEF AtUnit
<1>2. input \in Message \ Valid /\ ViolationOf[input] = ViolationOf[M]
  BY <1>1, TopFrame DEF AtUnit, Inherits
<1> QED
  BY <1>1, <1>2, PlanAssumption DEF V!Verdict

LEMMA FailPreserves ==
  ASSUME IInv, AtUnit, ~UnitHolds(M, U), NEW n \in Name, NEW r \in Rule,
         UnitViolation(M, U) = Refusal(n, r), Fail(Refusal(n, r)), UNCHANGED input
  PROVE  IInv'
<1>1. input \in Message /\ input' = input /\ stack' = <<>> /\ outcome' = Refusal(n, r)
  BY TopFrame DEF AtUnit, Fail
<1>2. TypeOK'
  BY <1>1, RefusalType, EmptySeq DEF TypeOK
<1>3. StackOK(input, stack)'
  BY <1>1 DEF StackOK, Frames, TopParts, LowerParts, Rooted
<1>4. Deciding'
  BY <1>1 DEF Deciding
<1>5. outcome' = V!Verdict(input)
  BY <1>1, FailIsExact
<1>6. DecidesValidPred'
  BY <1>1, <1>5 DEF DecidesValidPred, V!Verdict, V!Answer
<1> QED
  BY <1>2, <1>3, <1>4, <1>6 DEF IInv

LEMMA ReplacePreserves ==
  ASSUME IInv, stack # <<>>, NEW f \in Frame, f.msg = M, Passed(f),
         PartsPassed(f, f.part - 1), Replace(f), UNCHANGED <<input, outcome>>
  PROVE  IInv'
<1>1. /\ input \in Message /\ input' = input /\ outcome' = outcome /\ outcome = V!Pending
      /\ stack' = [stack EXCEPT ![Len(stack)] = f]
  BY TopFrame DEF Replace
<1>2. stack' \in Seq(Frame) /\ StackOK(input, stack')
  BY <1>1, TopFrame, ReplaceTop
<1>3. TypeOK'
  BY <1>1, <1>2, Answers0 DEF TypeOK
<1>4. StackOK(input, stack)'
  BY <1>1, <1>2
<1>5. Deciding'
  BY <1>1 DEF Deciding, V!Pending, V!Answer
<1>6. DecidesValidPred'
  BY <1>1 DEF DecidesValidPred, V!Pending, V!Answer
<1> QED
  BY <1>3, <1>4, <1>5, <1>6 DEF IInv

\* The unit holds: on to the next.
LEMMA NextUnitPreserves ==
  ASSUME IInv, AtUnit, UnitHolds(M, U), NextUnit, UNCHANGED <<input, outcome>>
  PROVE  IInv'
<1> DEFINE f == [msg |-> M, unit |-> U + 1, part |-> 1, rule |-> 1]
<1>0. stack # <<>>
  BY DEF AtUnit
<1>1. /\ f \in Frame /\ f.msg = M /\ f.unit = U + 1 /\ f.part = 1 /\ f.rule = 1
      /\ Replace(f)
  BY <1>0, TopFrame DEF Frame, NextUnit
<1> HIDE DEF f
<1>2. M \in Message /\ U \in Nat \ {0}
  BY <1>0, TopFrame
<1>3. InRange(f)
  <2>1. Len(Units(M)) \in Nat
    BY <1>2, UnitsType
  <2> QED
    BY <1>1, <1>2, <2>1 DEF InRange, AtUnit
<1>4. Earlier(f)
  <2> SUFFICES ASSUME NEW v \in 1 .. U
               PROVE  UnitHolds(M, v)
    BY <1>1, <1>2 DEF Earlier
  <2> QED
    BY <1>2, TopUnit
<1>5. At(f) => /\ DOMAIN Chain(M, U + 1) = 1 .. Len(Chain(M, U + 1)) /\ Len(Chain(M, U + 1)) \in Nat
               /\ DOMAIN Parts(M, U + 1) = 1 .. Len(Parts(M, U + 1)) /\ Len(Parts(M, U + 1)) \in Nat
  <2> SUFFICES ASSUME U + 1 \in DOMAIN Units(M)
               PROVE  Chain(M, U + 1) \in Seq(Rule) /\ Parts(M, U + 1) \in Seq(Message)
    BY <1>1 DEF At
  <2> QED
    BY <1>2, UnitType
<1>6. RulesPassed(f) /\ PartsPassed(f, f.part - 1)
  BY <1>1, <1>5 DEF RulesPassed, PartsPassed
<1> QED
  BY <1>0, <1>1, <1>3, <1>4, <1>6, ReplacePreserves DEF Passed

LEMMA InitInv ==
  Init => IInv
<1> SUFFICES ASSUME Init PROVE IInv
  OBVIOUS
<1>1. input \in Message \cup {Malformed} /\ outcome = V!Pending /\ stack = <<>>
  BY DEF Init
<1>2. TypeOK
  BY <1>1, Answers0, EmptySeq DEF TypeOK
<1>3. StackOK(input, stack)
  BY <1>1 DEF StackOK, Frames, TopParts, LowerParts, Rooted
<1> QED
  BY <1>1, <1>2, <1>3 DEF IInv, Deciding, DecidesValidPred

LEMMA DecodePreserves ==
  ASSUME IInv, Decode
  PROVE  IInv'
<1>1. outcome = V!Pending /\ stack = <<>> /\ input' = input
  BY DEF Decode
<1>2. CASE input = Malformed
  <2>1. outcome' = V!Answer("malformed") /\ stack' = <<>>
    BY <1>1, <1>2 DEF Decode
  <2>2. TypeOK'
    BY <1>1, <2>1, Answers0, EmptySeq DEF IInv, TypeOK
  <2>3. StackOK(input, stack)'
    BY <2>1 DEF StackOK, Frames, TopParts, LowerParts, Rooted
  <2>4. Deciding'
    BY <2>1 DEF Deciding
  <2>5. DecidesValidPred'
    BY <1>1, <1>2, <2>1 DEF DecidesValidPred, V!Verdict, V!Answer
  <2> QED
    BY <2>2, <2>3, <2>4, <2>5 DEF IInv
<1>3. CASE input # Malformed
  <2>1. input \in Message
    BY <1>3 DEF IInv, TypeOK
  <2>2. outcome' = outcome /\ stack' = <<Started(input)>>
    BY <1>3 DEF Decode
  <2>3. stack' \in Seq(Frame) /\ StackOK(input, stack')
    BY <2>1, <2>2, PushFirst
  <2>4. TypeOK'
    BY <1>1, <2>1, <2>2, <2>3, Answers0 DEF TypeOK
  <2>5. StackOK(input, stack)'
    BY <1>1, <2>3
  <2>6. Deciding' /\ DecidesValidPred'
    BY <1>1, <2>2 DEF Deciding, DecidesValidPred, V!Pending, V!Answer
  <2> QED
    BY <2>4, <2>5, <2>6 DEF IInv
<1> QED
  BY <1>2, <1>3

LEMMA AbsentPreserves ==
  ASSUME IInv, Absent
  PROVE  IInv'
<1>1. AtUnit /\ ~IsSet(M, U) /\ input' = input /\ stack # <<>>
  BY DEF Absent, AtUnit
<1>2. M \in Message /\ U \in DOMAIN Units(M)
  BY <1>1, TopFrame, TopUnit
<1>3. CASE Units(M)[U].required
  <2>1. ~UnitHolds(M, U) /\ UnitViolation(M, U) = Refusal(Units(M)[U].name, Required)
    BY <1>1, <1>2, <1>3, UnsetFault
  <2>2. Units(M)[U].name \in Name /\ Required \in Rule
    BY <1>2, UnitType, PlanAssumption DEF Unit
  <2>3. Fail(Refusal(Units(M)[U].name, Required))
    BY <1>3 DEF Absent
  <2> QED
    BY <1>1, <2>1, <2>2, <2>3, FailPreserves
<1>4. CASE ~Units(M)[U].required
  <2>1. UnitHolds(M, U)
    BY <1>1, <1>2, <1>4, UnsetFault
  <2>2. NextUnit /\ outcome' = outcome
    BY <1>4 DEF Absent
  <2> QED
    BY <1>1, <2>1, <2>2, NextUnitPreserves
<1> QED
  BY <1>3, <1>4

LEMMA CheckPartPreserves ==
  ASSUME IInv, CheckPart
  PROVE  IInv'
<1> DEFINE part == Parts(M, U)[Top.part]
           f == AfterPart
           g == Started(part)
<1>1. /\ AtUnit /\ stack # <<>> /\ IsSet(M, U) /\ ~PartsDone
      /\ input' = input /\ outcome' = outcome
      /\ stack' = Append([stack EXCEPT ![Len(stack)] = f], g)
  BY DEF CheckPart, AtUnit
<1>2. /\ M \in Message /\ U \in DOMAIN Units(M) /\ U \in Nat \ {0}
      /\ Top.part \in Nat \ {0} /\ Top.msg = M /\ Top.unit = U
      /\ outcome = V!Pending /\ stack \in Seq(Frame) /\ StackOK(input, stack)
      /\ Top = stack[Len(stack)] /\ input \in Message
  BY <1>1, TopFrame, TopUnit
<1>3. Top.part \in DOMAIN Parts(M, U)
  BY <1>1, <1>2, TopUnit DEF PartsDone
<1>4. part \in Message
  BY <1>2, <1>3, UnitType
<1>5. f \in Frame /\ f.msg = M /\ f.unit = U /\ f.part = Top.part + 1 /\ f.rule = 1
  BY <1>2 DEF AfterPart, Frame
<1>6. g \in Frame /\ g.msg = part /\ g.unit = 1 /\ g.part = 1 /\ g.rule = 1
  BY <1>4 DEF Started, Frame
<1> HIDE DEF f, g
<1>7. Passed(f)
  <2>1. InRange(f) /\ Earlier(f)
    BY <1>1, <1>2, <1>5, TopFrame DEF Passed, InRange, Earlier
  <2>2. RulesPassed(f)
    BY <1>1, <1>5, TopUnit DEF RulesPassed
  <2> QED
    BY <2>1, <2>2 DEF Passed
<1>8. Lower(f, g)
  <2>1. f.part - 2 = Top.part - 1 /\ f.part - 1 = Top.part
    BY <1>2, <1>5
  <2>2. PartsPassed(f, f.part - 2)
    BY <1>1, <1>5, <2>1, TopUnit DEF PartsPassed
  <2>3. Calls(f, g)
    BY <1>2, <1>3, <1>5, <1>6, <2>1 DEF Calls, At
  <2> QED
    BY <2>2, <2>3 DEF Lower
<1>9. Passed(g) /\ PartsPassed(g, g.part - 1)
  <2>1. DOMAIN Units(part) = 1 .. Len(Units(part)) /\ Len(Units(part)) \in Nat
    BY <1>4, UnitsType
  <2>2. At(g) => /\ DOMAIN Chain(part, 1) = 1 .. Len(Chain(part, 1)) /\ Len(Chain(part, 1)) \in Nat
                 /\ DOMAIN Parts(part, 1) = 1 .. Len(Parts(part, 1)) /\ Len(Parts(part, 1)) \in Nat
    <3> SUFFICES ASSUME 1 \in DOMAIN Units(part)
                 PROVE  Chain(part, 1) \in Seq(Rule) /\ Parts(part, 1) \in Seq(Message)
      BY <1>6 DEF At
    <3> QED
      BY <1>4, UnitType
  <2> HIDE DEF part
  <2>3. InRange(g) /\ Earlier(g)
    BY <1>6, <2>1 DEF InRange, Earlier
  <2>4. RulesPassed(g) /\ PartsPassed(g, g.part - 1)
    BY <1>6, <2>2 DEF RulesPassed, PartsPassed
  <2> QED
    BY <2>3, <2>4 DEF Passed
<1>10. Inherits(input, g)
  <2> SUFFICES ASSUME part \notin Valid
               PROVE  input \notin Valid /\ ViolationOf[input] = ViolationOf[part]
    BY <1>6 DEF Inherits
  <2>1. \A q \in DOMAIN Parts(M, U) : q < Top.part => Parts(M, U)[q] \in Valid
    <3> SUFFICES ASSUME NEW q \in DOMAIN Parts(M, U), q < Top.part
                 PROVE  q <= Top.part - 1
      BY <1>1, TopUnit
    <3>1. q \in Nat
      BY <1>1, TopUnit
    <3> QED
      BY <1>2, <3>1
  <2>2. ~UnitHolds(M, U) /\ UnitViolation(M, U) = ViolationOf[part]
    BY <1>1, <1>2, <1>3, <2>1, PartFault
  <2>3. M \notin Valid /\ ViolationOf[M] = ViolationOf[part]
    BY <1>1, <1>2, <2>2, TopUnit, FirstFault
  <2> QED
    BY <1>1, <1>2, <2>3, TopFrame DEF Inherits
<1> HIDE DEF part
<1>11. stack' \in Seq(Frame) /\ StackOK(input, stack')
  BY <1>1, <1>2, <1>5, <1>6, <1>7, <1>8, <1>9, <1>10, Push
<1>12. TypeOK'
  BY <1>1, <1>2, <1>11, Answers0 DEF TypeOK
<1>13. StackOK(input, stack)'
  BY <1>1, <1>11
<1>14. Deciding' /\ DecidesValidPred'
  BY <1>1, <1>2 DEF Deciding, DecidesValidPred, V!Pending, V!Answer
<1> QED
  BY <1>12, <1>13, <1>14 DEF IInv

\* Every part has been looked at.
LEMMA AllParts ==
  ASSUME IInv, AtUnit, PartsDone
  PROVE  \A p \in DOMAIN Parts(M, U) : Parts(M, U)[p] \in Valid
<1> SUFFICES ASSUME NEW p \in DOMAIN Parts(M, U)
             PROVE  p <= Top.part - 1
  BY TopUnit
<1>1. Top.part \in Nat /\ p \in Nat /\ p <= Len(Parts(M, U)) /\ Len(Parts(M, U)) \in Nat
  BY TopFrame, TopUnit DEF AtUnit
<1> QED
  BY <1>1 DEF PartsDone

LEMMA CheckRulePreserves ==
  ASSUME IInv, CheckRule
  PROVE  IInv'
<1> DEFINE r == Top.rule
<1>1. /\ AtUnit /\ stack # <<>> /\ IsSet(M, U) /\ PartsDone /\ ~RulesDone /\ input' = input
  BY DEF CheckRule, AtUnit
<1>2. /\ M \in Message /\ U \in DOMAIN Units(M) /\ U \in Nat \ {0} /\ r \in Nat \ {0}
      /\ Top.part \in Nat \ {0} /\ Top.msg = M /\ Top.unit = U
  BY <1>1, TopFrame, TopUnit
<1>3. ~Escapes(M, U) /\ r \in DOMAIN Chain(M, U)
  BY <1>1, <1>2, TopUnit DEF RulesDone
<1>4. CASE Chain(M, U)[r] \in Satisfied(M, U)
  <2> DEFINE f == [msg |-> M, unit |-> U, part |-> Top.part, rule |-> Top.rule + 1]
  <2>1. /\ f \in Frame /\ f.msg = M /\ f.unit = U /\ f.part = Top.part /\ f.rule = r + 1
        /\ Replace(f) /\ outcome' = outcome
    BY <1>2, <1>4 DEF Frame, NextRule, CheckRule
  <2> HIDE DEF f
  <2>2. InRange(f) /\ Earlier(f) /\ PartsPassed(f, f.part - 1)
    BY <1>1, <1>2, <2>1, TopFrame DEF Passed, InRange, Earlier, PartsPassed, At
  <2>3. RulesPassed(f)
    <3> SUFFICES ASSUME NEW q \in DOMAIN Chain(M, U), q < r + 1
                 PROVE  Chain(M, U)[q] \in Satisfied(M, U)
      BY <2>1 DEF RulesPassed
    <3>1. q \in Nat
      BY <1>1, TopUnit
    <3>2. q < r \/ q = r
      BY <1>2, <3>1
    <3> QED
      BY <1>1, <1>4, <3>2, TopUnit
  <2> QED
    BY <1>1, <2>1, <2>2, <2>3, ReplacePreserves DEF Passed
<1>5. CASE Chain(M, U)[r] \notin Satisfied(M, U)
  <2>1. /\ ~UnitHolds(M, U)
        /\ UnitViolation(M, U) = Refusal(Active(M, U).name, Chain(M, U)[r])
    BY <1>1, <1>2, <1>3, <1>5, AllParts, TopUnit, RuleFault
  <2>2. Active(M, U).name \in Name /\ Chain(M, U)[r] \in Rule
    BY <1>2, <1>3, UnitType DEF Member
  <2>3. Fail(Refusal(Active(M, U).name, Chain(M, U)[r]))
    BY <1>5 DEF CheckRule
  <2> QED
    BY <1>1, <2>1, <2>2, <2>3, FailPreserves
<1> QED
  BY <1>4, <1>5

LEMMA UnitDonePreserves ==
  ASSUME IInv, UnitDone
  PROVE  IInv'
<1>1. /\ AtUnit /\ stack # <<>> /\ IsSet(M, U) /\ PartsDone /\ RulesDone
      /\ NextUnit /\ UNCHANGED <<input, outcome>>
  BY DEF UnitDone, AtUnit
<1>2. M \in Message /\ U \in DOMAIN Units(M) /\ Top.rule \in Nat
  BY <1>1, TopFrame, TopUnit
<1>3. Escapes(M, U) \/ \A q \in DOMAIN Chain(M, U) : Chain(M, U)[q] \in Satisfied(M, U)
  <2> SUFFICES ASSUME ~Escapes(M, U), NEW q \in DOMAIN Chain(M, U)
               PROVE  q < Top.rule
    BY <1>1, TopUnit
  <2>1. q \in Nat /\ q <= Len(Chain(M, U)) /\ Len(Chain(M, U)) \in Nat
    BY <1>1, TopUnit
  <2>2. Top.rule > Len(Chain(M, U))
    BY <1>1 DEF RulesDone
  <2> QED
    BY <1>2, <2>1, <2>2
<1>4. UnitHolds(M, U)
  BY <1>1, <1>2, <1>3, AllParts, UnitPassed
<1> QED
  BY <1>1, <1>4, NextUnitPreserves

LEMMA ReturnPreserves ==
  ASSUME IInv, Return
  PROVE  IInv'
<1>1. /\ stack # <<>> /\ ~AtUnit /\ input' = input
      /\ stack' = SubSeq(stack, 1, Len(stack) - 1)
  BY DEF Return
<1>2. /\ M \in Message /\ U \in Nat \ {0} /\ Top.msg = M /\ Top.unit = U
      /\ outcome = V!Pending /\ stack \in Seq(Frame) /\ StackOK(input, stack)
      /\ Top = stack[Len(stack)] /\ input \in Message
  BY <1>1, TopFrame
<1>3. M \in Valid
  <2>1. DOMAIN Units(M) = 1 .. Len(Units(M)) /\ Len(Units(M)) \in Nat
    BY <1>2, UnitsType
  <2>2. Earlier(Top)
    BY <1>1, TopFrame DEF Passed
  <2>3. U > Len(Units(M))
    BY <1>1, <1>2, <2>1 DEF AtUnit
  <2>4. \A v \in DOMAIN Units(M) : UnitHolds(M, v)
    BY <1>2, <2>1, <2>2, <2>3 DEF Earlier
  <2> QED
    BY <1>2, <2>4, AllHold
<1>4. stack' \in Seq(Frame) /\ StackOK(input, stack')
  BY <1>1, <1>2, <1>3, Pop
<1>5. StackOK(input, stack)'
  BY <1>1, <1>4
<1>6. CASE Len(stack) = 1
  <2>1. outcome' = V!Answer("ok")
    BY <1>6 DEF Return
  <2>2. stack' = <<>>
    BY <1>1, <1>2, <1>6
  <2>3. input = M
    BY <1>1, <1>2, <1>6 DEF StackOK, Rooted
  <2>4. V!Verdict(input) = V!Answer("ok")
    BY <1>2, <1>3, <2>3, PlanAssumption DEF V!Verdict
  <2>5. TypeOK'
    BY <1>1, <1>2, <1>4, <2>1, Answers0 DEF TypeOK
  <2>6. Deciding'
    BY <2>2 DEF Deciding
  <2>7. DecidesValidPred'
    BY <1>1, <2>1, <2>4 DEF DecidesValidPred, V!Verdict, V!Answer
  <2> QED
    BY <1>5, <2>5, <2>6, <2>7 DEF IInv
<1>7. CASE Len(stack) # 1
  <2>1. outcome' = outcome
    BY <1>7 DEF Return
  <2>2. TypeOK'
    BY <1>1, <1>2, <1>4, <2>1, Answers0 DEF TypeOK
  <2>3. Deciding' /\ DecidesValidPred'
    BY <1>2, <2>1 DEF Deciding, DecidesValidPred, V!Pending, V!Answer
  <2> QED
    BY <1>5, <2>2, <2>3 DEF IInv
<1> QED
  BY <1>6, <1>7

LEMMA StutterPreserves ==
  ASSUME IInv, UNCHANGED vars
  PROVE  IInv'
<1>1. input' = input /\ outcome' = outcome /\ stack' = stack
  BY DEF vars
<1>2. TypeOK' /\ StackOK(input, stack)'
  BY <1>1 DEF IInv, TypeOK
<1>3. Deciding' /\ DecidesValidPred'
  BY <1>1 DEF IInv, Deciding, DecidesValidPred, V!Pending, V!Answer, V!Verdict
<1> QED
  BY <1>2, <1>3 DEF IInv

LEMMA NextPreserves ==
  IInv /\ [Next]_vars => IInv'
<1> SUFFICES ASSUME IInv, [Next]_vars
             PROVE  IInv'
  OBVIOUS
<1>1. CASE Decode
  BY <1>1, DecodePreserves
<1>2. CASE Absent
  BY <1>2, AbsentPreserves
<1>3. CASE CheckPart
  BY <1>3, CheckPartPreserves
<1>4. CASE CheckRule
  BY <1>4, CheckRulePreserves
<1>5. CASE UnitDone
  BY <1>5, UnitDonePreserves
<1>6. CASE Return
  BY <1>6, ReturnPreserves
<1>7. CASE UNCHANGED vars
  BY <1>7, StutterPreserves
<1> QED
  BY <1>1, <1>2, <1>3, <1>4, <1>5, <1>6, <1>7 DEF Next

-----------------------------------------------------------------------------
(* The theorems.                                                           *)

\* The call stack holds messages under validation, the answer is one of the
\* three a decodeValid gives.
THEOREM TypeCorrect == Spec => []TypeOK
<1>1. IInv => TypeOK
  BY DEF IInv
<1> QED
  BY InitInv, NextPreserves, <1>1, PTL DEF Spec

\* checkPred decides ValidPred and reports the first violation in rule order,
\* through embedded messages, whatever the plan.
THEOREM ValidatorDecides == Spec => []DecidesValidPred
<1>1. IInv => DecidesValidPred
  BY DEF IInv
<1> QED
  BY InitInv, NextPreserves, <1>1, PTL DEF Spec

\* A step answers once, from a pending call, or changes neither bytes nor answer.
LEMMA StepAnswersOnce ==
  ASSUME IInv, [Next]_vars
  PROVE  input' = input /\ (outcome' = outcome \/ outcome = V!Pending)
<1>1. CASE UNCHANGED vars
  BY <1>1 DEF vars
<1>2. CASE Decode
  BY <1>2 DEF Decode
<1>3. CASE Absent \/ CheckPart \/ CheckRule \/ UnitDone \/ Return
  <2>1. input' = input /\ stack # <<>>
    BY <1>3 DEF Absent, CheckPart, CheckRule, UnitDone, Return, AtUnit
  <2> QED
    BY <2>1 DEF IInv, Deciding
<1> QED
  BY <1>1, <1>2, <1>3 DEF Next

\* decodeValid implements its promise: one atomic decision.
THEOREM ImplementsPromise == Spec => Promise
<1>1. Init => V!Init
  BY DEF Init, V!Init
<1>2. ASSUME IInv, IInv', [Next]_vars
      PROVE  [V!Decide]_<<input, outcome>>
  <2>1. input' = input /\ (outcome' = outcome \/ outcome = V!Pending)
    BY <1>2, StepAnswersOnce
  <2>2. CASE outcome' = outcome
    BY <2>1, <2>2
  <2>3. CASE outcome' # outcome
    <3>1. outcome = V!Pending /\ outcome' # V!Pending
      BY <2>1, <2>3
    <3>2. outcome' = V!Verdict(input)
      BY <1>2, <2>1, <3>1 DEF IInv, DecidesValidPred, V!Pending, V!Answer, V!Verdict
    <3> QED
      BY <2>1, <3>1, <3>2 DEF V!Decide
  <2> QED
    BY <2>2, <2>3
<1> QED
  BY InitInv, NextPreserves, <1>1, <1>2, PTL DEF Spec, Promise, V!Spec
=============================================================================
