------------------------ MODULE CelTranslatorProofs ------------------------
(***************************************************************************)
(* Proofs about the translator, for every set of expressions and every set *)
(* of environments that satisfy the assumptions of CelEval.                *)
(***************************************************************************)
EXTENDS CelTranslator, FiniteSetTheorems, TLAPS

(* The walk only ever asks for an operand that is there. *)
LEMMA VisitFacts ==
  ASSUME NEW n \in Node
  PROVE  /\ Len(Visit(n)) \in Nat
         /\ \A k \in 1 .. Len(Visit(n)) : /\ Visit(n)[k] \in DOMAIN Kids[n]
                                          /\ Operand(n, k) \in Node
         /\ Op[n] # "conditional" =>
              /\ Len(Visit(n)) = Len(Kids[n])
              /\ \A k \in DOMAIN Kids[n] : Visit(n)[k] = k
<1>1. /\ Kids[n] \in Seq(Node)
      /\ Len(Kids[n]) \in Nat
      /\ DOMAIN Kids[n] = 1 .. Len(Kids[n])
  BY SyntaxAssumption
<1>2. CASE Op[n] # "conditional"
  <2> DEFINE N == Len(Kids[n])
  <2>1. Visit(n) = [k \in 1 .. N |-> k]
    BY <1>1, <1>2 DEF Visit
  <2>2. Len(Visit(n)) = N
    BY <1>1, <2>1
  <2> QED
    BY <1>1, <1>2, <2>1, <2>2 DEF Operand, Kid
<1>3. CASE Op[n] = "conditional"
  <2>1. Len(Kids[n]) = 3
    BY <1>3, SyntaxAssumption
  <2>2. Visit(n) \in {<<1, 2>>, <<1, 3>>, <<1, 2, 3>>}
    BY <1>3 DEF Visit
  <2> QED
    BY <1>1, <1>3, <2>1, <2>2 DEF Operand, Kid
<1> QED
  BY <1>2, <1>3

LEMMA VisitLen ==
  \A n \in Node : Len(Visit(n)) \in Nat
BY VisitFacts

-----------------------------------------------------------------------------
(* Fragments are well formed. *)

LEMMA MergeType ==
  ASSUME NEW kind \in Kinds, NEW val \in SUBSET Env, NEW ps
  PROVE  Merge(kind, val, ps) \in Piece
BY DEF Merge, Piece, DefAll, AnyOpen, AnyDep, AnyClosed

LEMMA CloseGuardsType ==
  ASSUME NEW p \in Piece
  PROVE  /\ CloseGuards(p) \in Piece
         /\ CloseGuardsPositive(p) \in Piece
BY DEF CloseGuards, CloseGuardsPositive, Piece, Kinds

LEMMA StrictPieceType ==
  ASSUME NEW n \in Node, NEW ps
  PROVE  StrictPiece(n, ps) \in Piece
BY RootAssumption DEF StrictPiece, Piece, DefAll, AnyOpen, AnyDep, AnyClosed

LEMMA HoistType ==
  ASSUME NEW n \in Node, NEW kind \in Kinds, NEW val \in SUBSET Env,
         NEW recv \in Piece, NEW bodies, \A k \in DOMAIN bodies : bodies[k] \in Piece
  PROVE  Hoist(n, kind, val, recv, bodies) \in Piece
BY DEF Hoist, Piece, AnyOpen, AnyClosed

-----------------------------------------------------------------------------
(* The call stack. *)

\* Every active call waits for the operand that the next one translates.
CallsStarted ==
  /\ status = "walking" => Len(stack) > 0 /\ stack[1].node = root
  /\ status # "walking" => stack = <<>>

CallsBounded ==
  \A i \in 1 .. Len(stack) : Len(stack[i].args) <= Len(Visit(stack[i].node))

CallsLinked ==
  \A i \in 1 .. Len(stack) - 1 :
    /\ Len(stack[i].args) < Len(Visit(stack[i].node))
    /\ stack[i + 1].node = Operand(stack[i].node, Len(stack[i].args) + 1)

Calls == CallsStarted /\ CallsBounded /\ CallsLinked

LEMMA StackFacts ==
  ASSUME TypeOK
  PROVE  /\ Len(stack) \in Nat
         /\ \A i \in 1 .. Len(stack) :
              /\ stack[i] \in Frame
              /\ stack[i].node \in Node
              /\ stack[i].args \in Seq(Piece)
              /\ Len(stack[i].args) \in Nat
              /\ DOMAIN stack[i].args = 1 .. Len(stack[i].args)
              /\ \A k \in 1 .. Len(stack[i].args) : stack[i].args[k] \in Piece
<1>1. stack \in Seq(Frame)
  BY DEF TypeOK
<1>2. Len(stack) \in Nat /\ \A i \in 1 .. Len(stack) : stack[i] \in Frame
  BY <1>1
<1> QED
  BY <1>2 DEF Frame
LEMMA NegativeCallsFinite ==
  ASSUME TypeOK
  PROVE  /\ IsFiniteSet(NegativeCalls)
         /\ Cardinality(NegativeCalls) \in Nat
         /\ NegativeCalls \subseteq 1 .. Len(stack) - 1
<1>1. Len(stack) \in Nat
  BY StackFacts
<1>2. NegativeCalls \subseteq 1 .. Len(stack) - 1
  BY DEF NegativeCalls
<1>3. IsFiniteSet(1 .. Len(stack) - 1)
  BY <1>1, FS_Interval
<1>4. IsFiniteSet(NegativeCalls)
  BY <1>2, <1>3, FS_Subset
<1> QED
  BY <1>2, <1>4, FS_CardinalityType

Structure == TypeOK /\ Calls /\ NegDepthBalanced

\* A handler returns p to whoever called it.
ReturnsPiece(p) ==
  /\ status = "walking"
  /\ Len(Args) = Len(Visit(Top.node))
  /\ Return(p)
  /\ floated' \in BOOLEAN
  /\ absorbed' \in BOOLEAN

LEMMA DescendKeepsStructure ==
  ASSUME Structure, Descend
  PROVE  Structure'
<1> DEFINE L == Len(stack)
           n == Top.node
           k == Len(Args) + 1
<1>1. /\ status = "walking" /\ L \in Nat /\ L > 0 /\ Top = stack[L]
      /\ Args = stack[L].args /\ L \in 1 .. L
      /\ n \in Node /\ Args \in Seq(Piece) /\ Len(Args) \in Nat
  BY StackFacts DEF Structure, Calls, CallsStarted, Descend, Top, Args
<1>2. /\ k \in 1 .. Len(Visit(n))
      /\ Operand(n, k) \in Node
  BY <1>1, VisitFacts DEF Descend
<1>3. /\ stack \in Seq(Frame)
      /\ stack' = Append(stack, Call(Operand(n, k)))
      /\ Call(Operand(n, k)) \in Frame
  BY <1>1, <1>2 DEF Descend, Call, Frame, Structure, TypeOK
<1>4. /\ stack' \in Seq(Frame)
      /\ Len(stack') = L + 1
      /\ \A i \in 1 .. L : stack'[i] = stack[i]
      /\ stack'[L + 1].node = Operand(n, k)
      /\ Len(stack'[L + 1].args) = 0
  BY <1>1, <1>3 DEF Call
<1>5. negDepth' = negDepth + Raise(n, k) /\ Raise(n, k) \in Nat /\ negDepth \in Nat
  BY DEF Descend, Structure, TypeOK, Raise
<1>6. TypeOK'
  BY <1>4, <1>5 DEF Structure, TypeOK, Descend
<1>7. CallsBounded /\ CallsLinked
  BY DEF Structure, Calls
<1>8. Calls'
  <2>1. ASSUME NEW i \in 1 .. L + 1
        PROVE  Len(stack'[i].args) <= Len(Visit(stack'[i].node))
    <3>1. CASE i = L + 1
      <4>1. Len(Visit(Operand(n, k))) \in Nat
        BY <1>2, VisitLen
      <4>2. stack'[i].node = Operand(n, k) /\ Len(stack'[i].args) = 0
        BY <1>4, <3>1
      <4> QED
        BY <4>1, <4>2
    <3>2. CASE i # L + 1
      <4>1. i \in 1 .. L
        BY <1>1, <3>2
      <4>2. stack'[i] = stack[i]
        BY <1>4, <4>1
      <4>3. Len(stack[i].args) <= Len(Visit(stack[i].node))
        BY <1>7, <4>1 DEF CallsBounded
      <4> QED
        BY <4>2, <4>3
    <3> QED
      BY <3>1, <3>2
  <2>2. ASSUME NEW i \in 1 .. L
        PROVE  /\ Len(stack'[i].args) < Len(Visit(stack'[i].node))
               /\ stack'[i + 1].node = Operand(stack'[i].node, Len(stack'[i].args) + 1)
    <3>1. CASE i = L
      BY <1>1, <1>2, <1>4, <3>1
    <3>2. CASE i # L
      <4>1. i \in 1 .. L - 1 /\ stack'[i] = stack[i] /\ stack'[i + 1] = stack[i + 1]
        BY <1>1, <1>4, <3>2
      <4> QED
        BY <1>7, <4>1 DEF CallsLinked
    <3> QED
      BY <3>1, <3>2
  <2> QED
    <3>1. CallsStarted'
      BY <1>1, <1>4 DEF CallsStarted, Calls, Descend, Structure
    <3> QED
      BY <1>1, <1>4, <2>1, <2>2, <3>1 DEF Calls, CallsBounded, CallsLinked
<1>9. NegDepthBalanced'
  <2>1. NegativeCalls' = NegativeCalls \cup (IF Raises(n, k) THEN {L} ELSE {})
    <3>1. Len(stack') - 1 = L /\ Len(stack) - 1 = L - 1
      BY <1>1, <1>4
    <3>2. NegativeCalls' = {i \in 1 .. L : Raises(stack[i].node, Len(stack[i].args) + 1)}
      BY <1>4, <3>1 DEF NegativeCalls
    <3>3. 1 .. L = (1 .. L - 1) \cup {L}
      BY <1>1
    <3>4. Raises(stack[L].node, Len(stack[L].args) + 1) <=> Raises(n, k)
      BY <1>1
    <3> QED
      BY <3>1, <3>2, <3>3, <3>4 DEF NegativeCalls
  <2>2. L \notin NegativeCalls
    BY <1>1 DEF NegativeCalls
  <2>3. IsFiniteSet(NegativeCalls) /\ negDepth = Cardinality(NegativeCalls)
    BY <1>1, NegativeCallsFinite DEF Structure, NegDepthBalanced
  <2>4. Cardinality(NegativeCalls \cup {L}) = Cardinality(NegativeCalls) + 1
    BY <2>2, <2>3, FS_AddElement
  <2> QED
    <3>1. negDepth' = Cardinality(NegativeCalls')
      <4>1. CASE Raises(n, k)
        BY <1>5, <2>1, <2>3, <2>4, <4>1 DEF Raise
      <4>2. CASE ~Raises(n, k)
        <5>1. NegativeCalls' = NegativeCalls
          BY <2>1, <4>2
        <5> QED
          BY <1>5, <2>3, <4>2, <5>1 DEF Raise
      <4> QED
        BY <4>1, <4>2
    <3> QED
      BY <3>1 DEF NegDepthBalanced
<1> QED
  BY <1>6, <1>8, <1>9 DEF Structure

LEMMA ReturnKeepsStructure ==
  ASSUME Structure, NEW p \in Piece, ReturnsPiece(p)
  PROVE  Structure'
<1> DEFINE L == Len(stack)
<1>1. /\ status = "walking" /\ L \in Nat /\ L > 0 /\ Top = stack[L]
      /\ Args = stack[L].args
      /\ root' = root /\ root \in Root
      /\ floated' \in BOOLEAN /\ absorbed' \in BOOLEAN
  BY StackFacts DEF Structure, TypeOK, Calls, CallsStarted, ReturnsPiece, Return, Top, Args
<1>2. CASE L = 1
  <2>1. Finish(p)
    BY <1>2 DEF ReturnsPiece, Return
  <2>2. CloseGuards(p) \in Piece
    BY CloseGuardsType
  <2>3. TypeOK'
    BY <1>1, <2>1, <2>2 DEF Finish, Structure, TypeOK
  <2>4. Calls'
    BY <2>1 DEF Finish, Calls, CallsStarted, CallsBounded, CallsLinked
  <2>5. NegativeCalls = {} /\ NegativeCalls' = {}
    BY <1>2, <2>1 DEF NegativeCalls, Finish
  <2>6. NegDepthBalanced'
    BY <1>1, <2>1, <2>5 DEF Finish, NegDepthBalanced, Structure
  <2> QED
    BY <2>3, <2>4, <2>6 DEF Structure
<1>3. CASE L # 1
  <2>0. L \in Nat /\ L >= 2
    <3>1. \A m \in Nat : m > 0 /\ m # 1 => m >= 2
      OBVIOUS
    <3> QED
      BY <1>1, <1>3, <3>1
  <2> DEFINE caller == stack[L - 1]
             k == Len(caller.args) + 1
  <2>1. ReturnTo(caller, p)
    BY <1>3 DEF ReturnsPiece, Return
  <2>2. /\ L - 1 \in 1 .. L /\ caller \in Frame /\ caller.node \in Node
        /\ caller.args \in Seq(Piece) /\ Len(caller.args) \in Nat
        /\ k <= Len(Visit(caller.node))
    <3>1. L - 1 \in 1 .. L /\ L - 1 \in 1 .. L - 1
      BY <2>0
    <3>2. /\ caller \in Frame /\ caller.node \in Node
          /\ caller.args \in Seq(Piece) /\ Len(caller.args) \in Nat
      BY <3>1, StackFacts DEF Structure
    <3>3. Len(caller.args) < Len(Visit(caller.node))
      BY <3>1 DEF Structure, Calls, CallsLinked
    <3> QED
      BY <3>1, <3>2, <3>3, VisitLen
  <2>3. /\ Append(caller.args, p) \in Seq(Piece)
        /\ Len(Append(caller.args, p)) = k
    BY <2>2
  <2>4. stack' = [i \in 1 .. L - 1 |->
                    IF i = L - 1 THEN [caller EXCEPT !.args = Append(@, p)] ELSE stack[i]]
    BY <2>1 DEF ReturnTo
  <2>5. /\ Len(stack') = L - 1
        /\ \A i \in 1 .. L - 2 : stack'[i] = stack[i]
        /\ stack'[L - 1] \in Frame
        /\ stack'[L - 1].node = caller.node
        /\ stack'[L - 1].args = Append(caller.args, p)
    <3>1. Len(stack') = L - 1
      BY <2>0, <2>4
    <3>2. \A i \in 1 .. L - 2 : stack'[i] = stack[i]
      BY <2>0, <2>4
    <3>3. stack'[L - 1] = [caller EXCEPT !.args = Append(@, p)]
      BY <2>0, <2>4
    <3> QED
      BY <2>2, <2>3, <3>1, <3>2, <3>3 DEF Frame
  <2>6. stack' \in Seq(Frame)
    BY <1>1, <2>4, <2>5, StackFacts DEF Structure
  <2>7. negDepth' = negDepth - Raise(caller.node, k) /\ status' = status /\ result' = result
    BY <2>1 DEF ReturnTo
  <2>8. /\ NegativeCalls' = NegativeCalls \ {L - 1}
        /\ L - 1 \in NegativeCalls <=> Raises(caller.node, k)
    <3>1. L - 1 \in Nat /\ Len(stack') - 1 = L - 2
      BY <2>0, <2>5
    <3>2. \A i \in 1 .. L - 2 : Raises(stack'[i].node, Len(stack'[i].args) + 1)
                               <=> Raises(stack[i].node, Len(stack[i].args) + 1)
      BY <2>5
    <3>3. \A i : i \in 1 .. L - 1 <=> i \in 1 .. L - 2 \/ i = L - 1
      BY <2>0
    <3>4. L - 1 \notin 1 .. L - 2
      BY <1>1
    <3> QED
      BY <3>1, <3>2, <3>3, <3>4 DEF NegativeCalls
  <2>9. /\ IsFiniteSet(NegativeCalls) /\ Cardinality(NegativeCalls) \in Nat
        /\ negDepth = Cardinality(NegativeCalls)
    BY <1>1, NegativeCallsFinite DEF Structure, NegDepthBalanced
  <2>10. /\ IsFiniteSet(NegativeCalls') /\ Cardinality(NegativeCalls') \in Nat
         /\ negDepth' = Cardinality(NegativeCalls')
    BY <2>7, <2>8, <2>9, FS_RemoveElement, FS_CardinalityType DEF Raise
  <2>11. TypeOK'
    BY <1>1, <2>6, <2>7, <2>10 DEF Structure, TypeOK
  <2>12. Calls'
    <3>1. \A i \in 1 .. L - 1 : Len(stack'[i].args) <= Len(Visit(stack'[i].node))
      <4> SUFFICES ASSUME NEW i \in 1 .. L - 1
                   PROVE  Len(stack'[i].args) <= Len(Visit(stack'[i].node))
        OBVIOUS
      <4>1. CASE i = L - 1
        BY <2>2, <2>3, <2>5, <4>1
      <4>2. CASE i # L - 1
        <5>1. i \in 1 .. L /\ stack'[i] = stack[i]
          BY <1>1, <2>5, <4>2
        <5> QED
          BY <5>1 DEF Structure, Calls, CallsBounded
      <4> QED
        BY <4>1, <4>2
    <3>2. \A i \in 1 .. L - 2 :
            /\ Len(stack'[i].args) < Len(Visit(stack'[i].node))
            /\ stack'[i + 1].node = Operand(stack'[i].node, Len(stack'[i].args) + 1)
      <4> SUFFICES ASSUME NEW i \in 1 .. L - 2
                   PROVE  /\ Len(stack'[i].args) < Len(Visit(stack'[i].node))
                          /\ stack'[i + 1].node = Operand(stack'[i].node, Len(stack'[i].args) + 1)
        OBVIOUS
      <4>1. /\ i \in 1 .. L - 1 /\ stack'[i] = stack[i]
            /\ stack'[i + 1].node = stack[i + 1].node
        <5>1. i \in 1 .. L - 1 /\ stack'[i] = stack[i]
          BY <2>0, <2>5
        <5>2. CASE i = L - 2
          <6>1. i + 1 = L - 1
            BY <2>0, <5>2
          <6> QED
            BY <2>5, <5>1, <6>1
        <5>3. CASE i # L - 2
          <6>1. i + 1 \in 1 .. L - 2
            BY <2>0, <5>3
          <6>2. stack'[i + 1] = stack[i + 1]
            BY <2>5, <6>1
          <6> QED
            BY <5>1, <6>2
        <5> QED
          BY <5>2, <5>3
      <4> QED
        BY <4>1 DEF Structure, Calls, CallsLinked
    <3> QED
      <4>1. CallsStarted'
        BY <1>1, <2>0, <2>5, <2>7 DEF CallsStarted, Calls, Structure
      <4>2. CallsBounded'
        BY <2>5, <3>1 DEF CallsBounded
      <4>3. Len(stack') - 1 = L - 2
        <5>1. Len(stack') = L - 1
          BY <2>5
        <5>2. (L - 1) - 1 = L - 2
          BY <2>0
        <5> QED
          BY <5>1, <5>2
      <4>4. CallsLinked'
        BY <3>2, <4>3 DEF CallsLinked
      <4> QED
        BY <4>1, <4>2, <4>4 DEF Calls
  <2> QED
    BY <2>10, <2>11, <2>12 DEF Structure, NegDepthBalanced
<1> QED
  BY <1>2, <1>3

-----------------------------------------------------------------------------
(* What a fragment p owes the expression m it translates.                  *)

\* Where its guards hold, a true text means that CEL answers true; and if no
\* guard was discharged inside, text and evaluation agree.
SoundFor(m, p) ==
  /\ ~p.open => p.def = Env
  /\ \A e \in p.def :
       /\ e \in p.val => e \in Holds[m]
       /\ ~p.closed => e \notin Errs[m] /\ (e \in Holds[m] => e \in p.val)

\* Where CEL answers true so does the guarded text; and if no guard was
\* discharged inside, its guards hold wherever evaluation does not err.
CompleteFor(m, p) ==
  \A e \in Env :
    /\ e \in Holds[m] => e \in p.val /\ e \in p.def
    /\ ~p.closed /\ e \notin Errs[m] => e \in p.def

SoundArgs(n, ps) ==
  /\ DOMAIN ps = 1 .. Len(Visit(n))
  /\ \A k \in DOMAIN ps : ps[k] \in Piece /\ SoundFor(Operand(n, k), ps[k])

CompleteArgs(n, ps) == \A k \in DOMAIN ps : CompleteFor(Operand(n, k), ps[k])

LEMMA EvalFacts ==
  ASSUME NEW n \in Node
  PROVE  /\ Holds[n] \subseteq Env /\ Errs[n] \subseteq Env
         /\ \A e \in Env : e \in Holds[n] <=> CelHolds(n, e)
         /\ \A e \in Env : e \in Errs[n] <=> CelErrs(n, e)
         /\ \A e \in Env : e \in Holds[n] => e \notin Errs[n]
<1>1. Errs[n] = {e \in Env : CelErrs(n, e)} /\ Holds[n] = {e \in Env : CelHolds(n, e)}
  BY EvalAssumption
<1> QED
  BY <1>1 DEF CelHolds

LEMMA CloseGuardsFaithful ==
  ASSUME NEW m \in Node, NEW p \in Piece, SoundFor(m, p)
  PROVE  /\ SoundFor(m, CloseGuards(p))
         /\ CompleteFor(m, p) => CompleteFor(m, CloseGuards(p))
         /\ ~CloseGuards(p).open
<1>1. CASE p.open
  BY <1>1 DEF CloseGuards, SoundFor, CompleteFor, Piece
<1>2. CASE ~p.open
  BY <1>2 DEF CloseGuards
<1> QED
  BY <1>1, <1>2

\* The operands of every operation but the ternary, by their own number.
LEMMA PlainArgs ==
  ASSUME NEW n \in Node, Op[n] # "conditional", NEW ps, SoundArgs(n, ps)
  PROVE  /\ DOMAIN ps = DOMAIN Kids[n]
         /\ \A k \in DOMAIN ps : /\ Operand(n, k) = Kid(n, k)
                                 /\ Kid(n, k) \in Node
                                 /\ ps[k] \in Piece
                                 /\ SoundFor(Kid(n, k), ps[k])
         /\ CompleteArgs(n, ps) => \A k \in DOMAIN ps : CompleteFor(Kid(n, k), ps[k])
<1>1. /\ Len(Visit(n)) = Len(Kids[n])
      /\ DOMAIN Kids[n] = 1 .. Len(Kids[n])
      /\ \A k \in DOMAIN Kids[n] : Visit(n)[k] = k /\ Kids[n][k] \in Node
  BY VisitFacts, SyntaxAssumption
<1> QED
  BY <1>1 DEF SoundArgs, CompleteArgs, Operand, Kid

\* Where all guards hold and none was discharged, the operands that hold are
\* those that CEL finds true.
LEMMA ExactArgs ==
  ASSUME NEW n \in Node, Op[n] # "conditional", NEW ps, SoundArgs(n, ps),
         ~AnyClosed(ps), NEW e \in DefAll(ps)
  PROVE  /\ HoldsAt(ps, e) = TrueKids(n, e)
         /\ ~AnyKidErrs(n, e)
<1>1. \A k \in DOMAIN ps : e \in ps[k].def /\ ~ps[k].closed
  BY DEF DefAll, AnyClosed
<1> QED
  BY <1>1, PlainArgs DEF HoldsAt, TrueKids, AnyKidErrs, SoundFor

\* Completeness brings all guards whenever no operand errs.
LEMMA DefinedArgs ==
  ASSUME NEW n \in Node, Op[n] # "conditional", NEW ps, SoundArgs(n, ps),
         ~AnyClosed(ps), CompleteArgs(n, ps), NEW e \in Env, ~AnyKidErrs(n, e)
  PROVE  e \in DefAll(ps)
BY PlainArgs DEF AnyKidErrs, DefAll, AnyClosed, CompleteFor

LEMMA NoGuards ==
  ASSUME NEW n \in Node, NEW ps, SoundArgs(n, ps), ~AnyOpen(ps)
  PROVE  DefAll(ps) = Env
BY DEF SoundArgs, SoundFor, AnyOpen, DefAll

LEMMA LiteralFaithful ==
  ASSUME NEW n \in Node, Op[n] \in Literals, NEW ps, SoundArgs(n, ps), NEW kind
  PROVE  LET p == Merge(kind, IF Op[n] = "true" THEN Env ELSE {}, ps)
         IN  SoundFor(n, p) /\ CompleteFor(n, p)
<1>1. DOMAIN ps = {}
  BY PlainArgs, SyntaxAssumption DEF Literals
<1>2. \A e \in Env : e \notin Errs[n] /\ (e \in Holds[n] <=> Op[n] = "true")
  BY EvalFacts DEF CelErrs, CelHolds, Literals, Quantifiers, Lambdas
<1> QED
  BY <1>1, <1>2 DEF SoundFor, CompleteFor, Merge, DefAll, AnyOpen, AnyClosed

LEMMA StrictFaithful ==
  ASSUME NEW n \in Node, Op[n] = "strict", NEW ps, SoundArgs(n, ps), ~AnyClosed(ps)
  PROVE  /\ SoundFor(n, StrictPiece(n, ps))
         /\ CompleteArgs(n, ps) => CompleteFor(n, StrictPiece(n, ps))
<1> DEFINE p == StrictPiece(n, ps)
           Bad(e, ts) == Own[n] # "none" /\ Fails(n, e, ts)
<1>1. \A e \in Env : /\ e \in Errs[n] <=> AnyKidErrs(n, e) \/ Bad(e, TrueKids(n, e))
                     /\ e \in Holds[n] <=> e \notin Errs[n] /\ Apply(n, e, TrueKids(n, e))
  BY EvalFacts DEF CelErrs, CelHolds, Literals, Quantifiers, Lambdas
<1>2. /\ p.def = {e \in DefAll(ps) : ~Bad(e, HoldsAt(ps, e))}
      /\ p.val = {e \in Env : Apply(n, e, HoldsAt(ps, e))}
      /\ ~p.closed
      /\ p.open <=> AnyOpen(ps) \/ Own[n] # "none"
  BY DEF StrictPiece
<1>3. DefAll(ps) \subseteq Env
  BY DEF DefAll
<1>4. ~p.open => p.def = Env
  BY <1>2, NoGuards
<1>5. SoundFor(n, p)
  <2>1. ASSUME NEW e \in p.def
        PROVE  e \notin Errs[n] /\ (e \in p.val <=> e \in Holds[n])
    <3>1. e \in DefAll(ps) /\ e \in Env /\ ~Bad(e, HoldsAt(ps, e))
      BY <1>2, <1>3, <2>1
    <3>2. HoldsAt(ps, e) = TrueKids(n, e) /\ ~AnyKidErrs(n, e)
      BY <3>1, ExactArgs
    <3> QED
      BY <1>1, <1>2, <3>1, <3>2
  <2> QED
    BY <1>4, <2>1 DEF SoundFor
<1>6. ASSUME CompleteArgs(n, ps)
      PROVE  CompleteFor(n, p)
  <2>1. ASSUME NEW e \in Env, e \notin Errs[n]
        PROVE  e \in p.def /\ (e \in Holds[n] => e \in p.val)
    <3>1. e \in DefAll(ps)
      BY <1>1, <1>6, <2>1, DefinedArgs
    <3>2. HoldsAt(ps, e) = TrueKids(n, e)
      BY <3>1, ExactArgs
    <3> QED
      BY <1>1, <1>2, <2>1, <3>1, <3>2
  <2> QED
    BY <2>1, EvalFacts DEF CompleteFor
<1> QED
  BY <1>5, <1>6

LEMMA NotFaithful ==
  ASSUME NEW n \in Node, Op[n] = "not", NEW ps, SoundArgs(n, ps), ~AnyClosed(ps)
  PROVE  LET p == Merge("prop", Env \ ps[1].val, ps)
         IN  /\ SoundFor(n, p)
             /\ CompleteArgs(n, ps) => CompleteFor(n, p)
<1> DEFINE p == Merge("prop", Env \ ps[1].val, ps)
<1>1. DOMAIN ps = {1} /\ DOMAIN Kids[n] = {1}
  BY PlainArgs, SyntaxAssumption
<1>2. \A e \in Env : /\ e \in Errs[n] <=> AnyKidErrs(n, e)
                     /\ e \in Holds[n] <=> e \notin Errs[n] /\ TrueKids(n, e) = {}
  BY EvalFacts DEF CelErrs, CelHolds, Literals, Quantifiers, Lambdas
<1>3. /\ p.def = DefAll(ps) /\ p.val = Env \ ps[1].val /\ ~p.closed
      /\ p.open <=> AnyOpen(ps)
  BY DEF Merge
<1>4. DefAll(ps) \subseteq Env
  BY DEF DefAll
<1>5. ASSUME NEW e \in DefAll(ps)
      PROVE  e \notin Errs[n] /\ (e \in p.val <=> e \in Holds[n])
  <2>1. HoldsAt(ps, e) = TrueKids(n, e) /\ ~AnyKidErrs(n, e)
    BY ExactArgs
  <2>2. e \in Env
    BY <1>4
  <2>3. HoldsAt(ps, e) = {} <=> e \notin ps[1].val
    BY <1>1 DEF HoldsAt
  <2>4. e \notin Errs[n] /\ (e \in Holds[n] <=> TrueKids(n, e) = {})
    BY <1>2, <2>1, <2>2
  <2> QED
    BY <1>3, <2>1, <2>2, <2>3, <2>4
<1>6. SoundFor(n, p)
  BY <1>3, <1>5, NoGuards DEF SoundFor
<1>7. CompleteArgs(n, ps) => \A e \in Env : e \notin Errs[n] => e \in DefAll(ps)
  BY <1>2, DefinedArgs
<1> QED
  BY <1>3, <1>5, <1>6, <1>7, EvalFacts DEF CompleteFor

LEMMA EqualityFaithful ==
  ASSUME NEW n \in Node, Op[n] = "equal", NEW ps, SoundArgs(n, ps), ~AnyClosed(ps)
  PROVE  LET p == Merge("prop", {e \in Env : HoldsAt(ps, e) \in {{}, {1, 2}}}, ps)
         IN  /\ SoundFor(n, p)
             /\ CompleteArgs(n, ps) => CompleteFor(n, p)
<1> DEFINE p == Merge("prop", {e \in Env : HoldsAt(ps, e) \in {{}, {1, 2}}}, ps)
<1>2. \A e \in Env : /\ e \in Errs[n] <=> AnyKidErrs(n, e)
                     /\ e \in Holds[n] <=> e \notin Errs[n] /\ TrueKids(n, e) \in {{}, {1, 2}}
  BY EvalFacts DEF CelErrs, CelHolds, Literals, Quantifiers, Lambdas
<1>3. /\ p.def = DefAll(ps) /\ ~p.closed
      /\ p.val = {e \in Env : HoldsAt(ps, e) \in {{}, {1, 2}}}
      /\ p.open <=> AnyOpen(ps)
  BY DEF Merge
<1>4. DefAll(ps) \subseteq Env
  BY DEF DefAll
<1>5. \A e \in DefAll(ps) : e \notin Errs[n] /\ (e \in p.val <=> e \in Holds[n])
  BY <1>2, <1>3, <1>4, ExactArgs
<1>6. SoundFor(n, p)
  BY <1>3, <1>5, NoGuards DEF SoundFor
<1>7. CompleteArgs(n, ps) => \A e \in Env : e \notin Errs[n] => e \in DefAll(ps)
  BY <1>2, DefinedArgs
<1>8. CompleteArgs(n, ps) => CompleteFor(n, p)
  <2> SUFFICES ASSUME CompleteArgs(n, ps), NEW e \in Env
               PROVE  /\ e \in Holds[n] => e \in p.val /\ e \in p.def
                      /\ e \notin Errs[n] => e \in p.def
    BY DEF CompleteFor
  <2> HIDE DEF p
  <2> QED
    BY <1>3, <1>5, <1>7, EvalFacts
<1> QED
  BY <1>6, <1>8

LEMMA ChainFaithful ==
  ASSUME NEW n \in Node, Op[n] \in Chains, NEW ps, SoundArgs(n, ps)
  PROVE  LET p == Merge("prop", ChainVal(Op[n], ps), ps)
         IN  /\ SoundFor(n, p)
             /\ CompleteArgs(n, ps) /\ ~AnyOpen(ps) => CompleteFor(n, p)
<1> DEFINE p == Merge("prop", ChainVal(Op[n], ps), ps)
<1>1. /\ p.def = DefAll(ps) /\ p.val = ChainVal(Op[n], ps)
      /\ p.open <=> AnyOpen(ps)
      /\ p.closed <=> AnyClosed(ps)
      /\ DefAll(ps) \subseteq Env
      /\ DOMAIN ps = DOMAIN Kids[n] /\ Op[n] # "conditional"
  BY PlainArgs DEF Merge, DefAll, Chains
<1>2. ~p.open => p.def = Env
  BY <1>1, NoGuards
<1>3. CASE Op[n] = "and"
  <2>1. \A e \in Env :
          /\ e \in Holds[n] <=> e \notin Errs[n] /\ TrueKids(n, e) = DOMAIN Kids[n]
          /\ e \in Errs[n] => AnyKidErrs(n, e)
    BY <1>3, EvalFacts DEF CelErrs, CelHolds, Literals, Quantifiers, Lambdas
  <2>2. \A e \in Env : e \in p.val <=> \A k \in DOMAIN ps : e \in ps[k].val
    BY <1>1, <1>3 DEF ChainVal, HoldsAt
  <2>3. ASSUME NEW e \in p.def, e \in p.val
        PROVE  e \in Holds[n]
    <3>1. \A k \in DOMAIN ps : e \in Holds[Kid(n, k)]
      BY <1>1, <2>2, <2>3, PlainArgs DEF DefAll, SoundFor
    <3>2. TrueKids(n, e) = DOMAIN Kids[n]
      BY <1>1, <3>1 DEF TrueKids
    <3>3. ~AnyKidErrs(n, e)
      BY <1>1, <2>3, <3>1, PlainArgs, EvalFacts DEF AnyKidErrs
    <3> QED
      BY <1>1, <2>1, <2>3, <3>2, <3>3
  <2>4. ASSUME NEW e \in p.def, ~p.closed
        PROVE  e \notin Errs[n] /\ (e \in Holds[n] => e \in p.val)
    <3>1. HoldsAt(ps, e) = TrueKids(n, e) /\ ~AnyKidErrs(n, e) /\ e \in Env
      BY <1>1, <2>4, ExactArgs
    <3> QED
      BY <1>1, <2>1, <2>2, <3>1 DEF HoldsAt, TrueKids
  <2>5. ASSUME CompleteArgs(n, ps), ~AnyOpen(ps), NEW e \in Env, e \in Holds[n]
        PROVE  e \in p.val
    BY <1>1, <2>1, <2>2, <2>5, PlainArgs DEF TrueKids, CompleteFor
  <2> QED
    BY <1>1, <1>2, <2>3, <2>4, <2>5 DEF SoundFor, CompleteFor
<1>4. CASE Op[n] = "or"
  <2>1. \A e \in Env :
          /\ e \in Holds[n] <=> e \notin Errs[n] /\ TrueKids(n, e) # {}
          /\ e \in Errs[n] <=> AnyKidErrs(n, e) /\ TrueKids(n, e) = {}
    BY <1>4, EvalFacts DEF CelErrs, CelHolds, Literals, Quantifiers, Lambdas
  <2>2. \A e \in Env : e \in p.val <=> \E k \in DOMAIN ps : e \in ps[k].val
    BY <1>1, <1>4 DEF ChainVal, HoldsAt
  <2>3. ASSUME NEW e \in p.def, e \in p.val
        PROVE  e \in Holds[n]
    <3>1. PICK k \in DOMAIN ps : e \in ps[k].val
      BY <1>1, <2>2, <2>3
    <3>2. e \in Holds[Kid(n, k)]
      BY <1>1, <2>3, <3>1, PlainArgs DEF DefAll, SoundFor
    <3>3. k \in TrueKids(n, e)
      BY <1>1, <3>2 DEF TrueKids
    <3> QED
      BY <1>1, <2>1, <2>3, <3>3
  <2>4. ASSUME NEW e \in p.def, ~p.closed
        PROVE  e \notin Errs[n] /\ (e \in Holds[n] => e \in p.val)
    <3>1. HoldsAt(ps, e) = TrueKids(n, e) /\ ~AnyKidErrs(n, e) /\ e \in Env
      BY <1>1, <2>4, ExactArgs
    <3> QED
      BY <1>1, <2>1, <2>2, <3>1 DEF HoldsAt, TrueKids
  <2>5. ASSUME CompleteArgs(n, ps), ~AnyOpen(ps), NEW e \in Env, e \in Holds[n]
        PROVE  e \in p.val
    <3>1. PICK k \in DOMAIN ps : e \in Holds[Kid(n, k)]
      BY <1>1, <2>1, <2>5 DEF TrueKids
    <3> QED
      BY <2>2, <2>5, <3>1, PlainArgs, <1>1 DEF CompleteFor
  <2> QED
    BY <1>1, <1>2, <2>3, <2>4, <2>5 DEF SoundFor, CompleteFor
<1> QED
  BY <1>3, <1>4 DEF Chains

\* The ternary is strict in its condition and lazy in its branches.
LEMMA ConditionalEval ==
  ASSUME NEW n \in Node, Op[n] = "conditional"
  PROVE  /\ Kid(n, 1) \in Node /\ Kid(n, 2) \in Node /\ Kid(n, 3) \in Node
         /\ \A e \in Env :
              /\ e \in Errs[n] <=> e \in Errs[Kid(n, 1)] \/ e \in Errs[Branch(n, e)]
              /\ e \in Holds[n] <=> e \notin Errs[n] /\ e \in Holds[Branch(n, e)]
<1>1. /\ Kids[n] \in Seq(Node) /\ Len(Kids[n]) = 3
      /\ DOMAIN Kids[n] = 1 .. 3
  BY SyntaxAssumption
<1>2. \A e \in Env :
        /\ e \in Errs[n] <=> e \in Errs[Kid(n, 1)] \/ e \in Errs[Branch(n, e)]
        /\ e \in Holds[n] <=> e \notin Errs[n] /\ e \in Holds[Branch(n, e)]
  BY EvalFacts DEF CelErrs, CelHolds, Literals, Quantifiers, Lambdas
<1> QED
  BY <1>1, <1>2 DEF Kid

LEMMA LiteralEval ==
  ASSUME NEW n \in Node, Op[n] \in Literals
  PROVE  \A e \in Env : e \notin Errs[n] /\ (e \in Holds[n] <=> Op[n] = "true")
<1>1. DOMAIN Kids[n] = {}
  BY SyntaxAssumption
<1> QED
  BY <1>1, EvalFacts DEF CelErrs, CelHolds, Literals, Quantifiers, Lambdas

\* The three idioms.  The condition c was translated under a raised negDepth,
\* so nothing is closed in it.
LEMMA IdiomFaithful ==
  ASSUME NEW n \in Node, Op[n] = "conditional", Len(Visit(n)) = 2,
         NEW c \in Piece, ~c.closed, SoundFor(Kid(n, 1), c),
         NEW p \in Piece, SoundFor(Operand(n, 2), p)
  PROVE  LET q == Merge("prop", IdiomVal(n, c, p), <<c, p>>)
         IN  /\ SoundFor(n, q)
             /\ /\ CompleteFor(Kid(n, 1), c) /\ CompleteFor(Operand(n, 2), p)
                /\ ~p.open
                => CompleteFor(n, q)
<1> DEFINE q == Merge("prop", IdiomVal(n, c, p), <<c, p>>)
           e2(e) == e \in c.def /\ e \in p.def
<1>1. /\ q.def = c.def \cap p.def /\ q.val = IdiomVal(n, c, p)
      /\ q.open <=> c.open \/ p.open
      /\ q.closed <=> p.closed
      /\ c.def \subseteq Env /\ p.def \subseteq Env
  BY DEF Merge, DefAll, AnyOpen, AnyClosed, Piece
<1>2. \/ Op[Kid(n, 3)] \in Literals /\ Operand(n, 2) = Kid(n, 2)
      \/ /\ Op[Kid(n, 3)] \notin Literals /\ Op[Kid(n, 2)] = "true"
         /\ Operand(n, 2) = Kid(n, 3)
  BY DEF Visit, Operand
<1>3. /\ Op[Kid(n, 3)] \in Literals =>
           \A e \in Env : /\ e \notin Errs[Kid(n, 3)]
                          /\ e \in Holds[Kid(n, 3)] <=> Op[Kid(n, 3)] = "true"
      /\ Op[Kid(n, 2)] = "true" =>
           \A e \in Env : e \notin Errs[Kid(n, 2)] /\ e \in Holds[Kid(n, 2)]
  BY ConditionalEval, LiteralEval DEF Literals
<1>4. q.val \subseteq Env /\ \A e \in Env :
        e \in q.val <=> IF Op[Kid(n, 3)] = "true" THEN e \notin c.val \/ e \in p.val
                        ELSE IF Op[Kid(n, 3)] = "false" THEN e \in c.val /\ e \in p.val
                        ELSE e \in c.val \/ e \in p.val
  BY <1>1 DEF IdiomVal, Piece
<1> HIDE DEF q
<1>5. SoundFor(n, q)
  <2>1. ASSUME NEW e \in q.def, e \in q.val
        PROVE  e \in Holds[n]
    BY <1>1, <1>2, <1>3, <1>4, <2>1, ConditionalEval, EvalFacts
       DEF SoundFor, Branch, Literals
  <2>2. ASSUME NEW e \in q.def, ~q.closed
        PROVE  e \notin Errs[n] /\ (e \in Holds[n] => e \in q.val)
    BY <1>1, <1>2, <1>3, <1>4, <2>2, ConditionalEval DEF SoundFor, Branch, Literals
  <2> QED
    BY <1>1, <2>1, <2>2 DEF SoundFor
<1>6. ASSUME CompleteFor(Kid(n, 1), c), CompleteFor(Operand(n, 2), p), ~p.open
      PROVE  CompleteFor(n, q)
  <2>1. p.def = Env
    BY <1>6 DEF SoundFor
  <2>2. ASSUME NEW e \in Env, e \notin Errs[n]
        PROVE  e \in q.def
    BY <1>1, <1>6, <2>1, <2>2, ConditionalEval DEF CompleteFor
  <2>3. ASSUME NEW e \in Env, e \in Holds[n]
        PROVE  e \in q.val
    <3>1. e \in c.def
      BY <1>1, <2>2, <2>3, ConditionalEval
    <3> QED
      BY <1>2, <1>3, <1>4, <1>6, <2>3, <3>1, ConditionalEval
         DEF SoundFor, CompleteFor, Branch, Literals
  <2> QED
    BY <2>2, <2>3, EvalFacts DEF CompleteFor
<1> QED
  BY <1>5, <1>6 DEF q

LEMMA IteFaithful ==
  ASSUME NEW n \in Node, Op[n] = "conditional", NEW kind \in Kinds,
         NEW c \in Piece, ~c.closed, SoundFor(Kid(n, 1), c),
         NEW a \in Piece, SoundFor(Kid(n, 2), a),
         NEW b \in Piece, SoundFor(Kid(n, 3), b)
  PROVE  LET q == Merge(kind, IteVal(c, a, b), <<c, a, b>>)
         IN  /\ SoundFor(n, q)
             /\ /\ CompleteFor(Kid(n, 1), c) /\ CompleteFor(Kid(n, 2), a)
                /\ CompleteFor(Kid(n, 3), b)
                /\ ~a.open /\ ~b.open
                => CompleteFor(n, q)
<1> DEFINE q == Merge(kind, IteVal(c, a, b), <<c, a, b>>)
<1>1. /\ q.def = c.def \cap a.def \cap b.def
      /\ q.val = IteVal(c, a, b)
      /\ q.open <=> c.open \/ a.open \/ b.open
      /\ q.closed <=> a.closed \/ b.closed
      /\ c.def \subseteq Env /\ a.def \subseteq Env /\ b.def \subseteq Env
  BY DEF Merge, DefAll, AnyOpen, AnyClosed, Piece
<1>2. \A e \in Env : e \in q.val <=> IF e \in c.val THEN e \in a.val ELSE e \in b.val
  BY <1>1 DEF IteVal
<1> HIDE DEF q
<1>3. SoundFor(n, q)
  <2>1. ASSUME NEW e \in q.def
        PROVE  /\ e \in Env /\ e \notin Errs[Kid(n, 1)]
               /\ e \in c.val <=> e \in Holds[Kid(n, 1)]
               /\ e \in a.def /\ e \in b.def
    BY <1>1, <2>1 DEF SoundFor
  <2>2. ASSUME NEW e \in q.def, e \in q.val
        PROVE  e \in Holds[n]
    BY <1>2, <2>1, <2>2, ConditionalEval, EvalFacts DEF SoundFor, Branch
  <2>3. ASSUME NEW e \in q.def, ~q.closed
        PROVE  e \notin Errs[n] /\ (e \in Holds[n] => e \in q.val)
    BY <1>1, <1>2, <2>1, <2>3, ConditionalEval DEF SoundFor, Branch
  <2> QED
    BY <1>1, <2>2, <2>3 DEF SoundFor
<1>4. ASSUME CompleteFor(Kid(n, 1), c), CompleteFor(Kid(n, 2), a),
             CompleteFor(Kid(n, 3), b), ~a.open, ~b.open
      PROVE  CompleteFor(n, q)
  <2>1. a.def = Env /\ b.def = Env
    BY <1>4 DEF SoundFor
  <2>2. ASSUME NEW e \in Env, e \notin Errs[n]
        PROVE  e \in q.def
    BY <1>1, <1>4, <2>1, <2>2, ConditionalEval DEF CompleteFor
  <2>3. ASSUME NEW e \in Env, e \in Holds[n]
        PROVE  e \in q.val
    <3>1. e \in c.def
      BY <1>1, <2>2, <2>3, ConditionalEval
    <3> QED
      BY <1>2, <1>4, <2>3, <3>1, ConditionalEval DEF SoundFor, CompleteFor, Branch
  <2> QED
    BY <2>2, <2>3, EvalFacts DEF CompleteFor
<1> QED
  BY <1>3, <1>4 DEF q

LEMMA HoistFacts ==
  ASSUME NEW n \in Node, NEW kind, NEW val, NEW recv \in Piece,
         NEW bodies, \A k \in DOMAIN bodies : bodies[k] \in Piece
  PROVE  LET q == Hoist(n, kind, val, recv, bodies)
         IN  /\ q.val = val
             /\ q.def = {e \in recv.def : \A k \in DOMAIN bodies :
                                            \A x \in Elem(n, e) : x[2] \in bodies[k].def}
             /\ q.def \subseteq Env
             /\ q.open <=> recv.open \/ AnyOpen(bodies)
             /\ q.closed <=> recv.closed \/ AnyClosed(bodies)
BY DEF Hoist, Piece

\* A comprehension's operands; it errs whenever its receiver does.
LEMMA ComprehensionEval ==
  ASSUME NEW n \in Node, Op[n] \in Quantifiers \cup Lambdas
  PROVE  /\ \A e \in Env : e \in Errs[Kid(n, 1)] => e \in Errs[n]
         /\ \A k \in 1 .. Len(Kids[n]) : Kid(n, k) \in Node
<1>1. \A e \in Env : e \in Errs[Kid(n, 1)] => CelErrs(n, e)
  BY DEF CelErrs
<1> QED
  BY <1>1, EvalFacts, SyntaxAssumption DEF Kid

LEMMA QuantifierFaithful ==
  ASSUME NEW n \in Node, Op[n] \in Quantifiers,
         NEW recv \in Piece, ~recv.closed, SoundFor(Kid(n, 1), recv),
         NEW body \in Piece, SoundFor(Kid(n, 2), body)
  PROVE  LET q == Hoist(n, "prop", QuantifierVal(n, body), recv, <<body>>)
         IN  /\ SoundFor(n, q)
             /\ /\ CompleteFor(Kid(n, 1), recv) /\ CompleteFor(Kid(n, 2), body)
                /\ ~body.open
                => CompleteFor(n, q)
<1> DEFINE q == Hoist(n, "prop", QuantifierVal(n, body), recv, <<body>>)
<1>1. /\ q.def = {e \in recv.def : \A x \in Elem(n, e) : x[2] \in body.def}
      /\ q.val = QuantifierVal(n, body)
      /\ q.def \subseteq Env
      /\ q.open <=> recv.open \/ body.open
      /\ q.closed <=> body.closed
  <2>1. DOMAIN <<body>> = {1} /\ <<body>>[1] = body
    OBVIOUS
  <2>2. (AnyOpen(<<body>>) <=> body.open) /\ (AnyClosed(<<body>>) <=> body.closed)
    BY DEF AnyOpen, AnyClosed
  <2> QED
    BY <2>1, <2>2 DEF Hoist, Piece
<1> HIDE DEF q
<1>2. /\ \A e \in Env : \A x \in Elem(n, e) : x[2] \in Env
      /\ \A e \in Env : e \in Errs[Kid(n, 1)] => e \in Errs[n]
      /\ Kid(n, 2) \in Node
  <2>1. Len(Kids[n]) = 2
    BY SyntaxAssumption
  <2>2. \A k \in 1 .. 2 : Kid(n, k) \in Node
    BY <2>1, ComprehensionEval
  <2> QED
    BY <2>2, ComprehensionEval, EnvAssumption
<1>3. ~q.open => q.def = Env
  BY <1>1, <1>2 DEF SoundFor
<1>4. \A e \in q.def : /\ e \in Env /\ e \notin Errs[Kid(n, 1)]
                       /\ \A x \in Elem(n, e) : x[2] \in body.def
  BY <1>1 DEF SoundFor
<1>5. CompleteFor(Kid(n, 1), recv) /\ ~body.open
        => \A e \in Env : e \notin Errs[n] => e \in q.def
  BY <1>1, <1>2 DEF SoundFor, CompleteFor
<1>6. CASE Op[n] = "all"
  <2>1. \A e \in Env :
          /\ e \in Errs[n] <=> \/ e \in Errs[Kid(n, 1)]
                               \/ /\ ErrElems(n, e, 2) # {}
                                  /\ \A x \in Elem(n, e) : ~IsFalse(Kid(n, 2), x[2])
          /\ e \in Holds[n] <=> e \notin Errs[n] /\ TrueElems(n, e, 2) = Elem(n, e)
    BY <1>6, EvalFacts DEF CelErrs, CelHolds, Literals, Quantifiers, Lambdas, Chains
  <2>2. \A e \in Env : e \in q.val <=> \A x \in Elem(n, e) : x[2] \in body.val
    BY <1>1, <1>6 DEF QuantifierVal, Satisfying
  <2>3. ASSUME NEW e \in q.def, e \in q.val
        PROVE  e \in Holds[n]
    <3>1. \A x \in Elem(n, e) : x[2] \in Holds[Kid(n, 2)] /\ x[2] \in Env
      BY <1>2, <1>4, <2>2, <2>3 DEF SoundFor
    <3>2. TrueElems(n, e, 2) = Elem(n, e) /\ ErrElems(n, e, 2) = {}
      BY <1>2, <3>1, EvalFacts DEF TrueElems, ErrElems
    <3> QED
      BY <1>4, <2>1, <3>2
  <2>4. ASSUME NEW e \in q.def, ~q.closed
        PROVE  e \notin Errs[n] /\ (e \in Holds[n] => e \in q.val)
    <3>1. \A x \in Elem(n, e) : /\ x[2] \notin Errs[Kid(n, 2)]
                                /\ x[2] \in Holds[Kid(n, 2)] => x[2] \in body.val
      BY <1>1, <1>4, <2>4 DEF SoundFor
    <3> QED
      BY <1>4, <2>1, <2>2, <3>1 DEF TrueElems, ErrElems
  <2>5. ASSUME CompleteFor(Kid(n, 2), body), NEW e \in Env, e \in Holds[n]
        PROVE  e \in q.val
    BY <1>2, <2>1, <2>2, <2>5 DEF CompleteFor, TrueElems
  <2> QED
    BY <1>3, <1>5, <2>3, <2>4, <2>5, EvalFacts DEF SoundFor, CompleteFor, q
<1>7. CASE Op[n] = "exists"
  <2>1. \A e \in Env :
          /\ e \in Errs[n] <=> \/ e \in Errs[Kid(n, 1)]
                               \/ ErrElems(n, e, 2) # {} /\ TrueElems(n, e, 2) = {}
          /\ e \in Holds[n] <=> e \notin Errs[n] /\ TrueElems(n, e, 2) # {}
    BY <1>7, EvalFacts DEF CelErrs, CelHolds, Literals, Quantifiers, Lambdas, Chains
  <2>2. \A e \in Env : e \in q.val <=> \E x \in Elem(n, e) : x[2] \in body.val
    BY <1>1, <1>7 DEF QuantifierVal, Satisfying
  <2>3. ASSUME NEW e \in q.def, e \in q.val
        PROVE  e \in Holds[n]
    <3>1. PICK x \in Elem(n, e) : x[2] \in body.val
      BY <1>4, <2>2, <2>3
    <3>2. x \in TrueElems(n, e, 2)
      BY <1>4, <3>1 DEF SoundFor, TrueElems
    <3> QED
      BY <1>4, <2>1, <3>2
  <2>4. ASSUME NEW e \in q.def, ~q.closed
        PROVE  e \notin Errs[n] /\ (e \in Holds[n] => e \in q.val)
    <3>1. \A x \in Elem(n, e) : /\ x[2] \notin Errs[Kid(n, 2)]
                                /\ x[2] \in Holds[Kid(n, 2)] => x[2] \in body.val
      BY <1>1, <1>4, <2>4 DEF SoundFor
    <3> QED
      BY <1>4, <2>1, <2>2, <3>1 DEF TrueElems, ErrElems
  <2>5. ASSUME CompleteFor(Kid(n, 2), body), NEW e \in Env, e \in Holds[n]
        PROVE  e \in q.val
    BY <1>2, <2>1, <2>2, <2>5 DEF CompleteFor, TrueElems
  <2> QED
    BY <1>3, <1>5, <2>3, <2>4, <2>5, EvalFacts DEF SoundFor, CompleteFor, q
<1> QED
  BY <1>6, <1>7 DEF Quantifiers

\* The bodies that print a Bool-valued function: with nothing discharged in
\* them, they err or agree with CEL element by element.
LEMMA LambdaFaithful ==
  ASSUME NEW n \in Node, Op[n] \in Lambdas,
         NEW recv \in Piece, ~recv.closed, SoundFor(Kid(n, 1), recv),
         NEW bodies, DOMAIN bodies = 1 .. Len(Kids[n]) - 1,
         \A k \in DOMAIN bodies : bodies[k] \in Piece /\ SoundFor(Kid(n, k + 1), bodies[k]),
         ~AnyClosed(bodies), NEW kind
  PROVE  LET q == Hoist(n, kind, LambdaVal(n, bodies), recv, bodies)
         IN  /\ SoundFor(n, q)
             /\ /\ CompleteFor(Kid(n, 1), recv)
                /\ \A k \in DOMAIN bodies : CompleteFor(Kid(n, k + 1), bodies[k])
                /\ ~(Op[n] = "mapIf" /\ bodies[2].open)
                => CompleteFor(n, q)
<1> DEFINE q == Hoist(n, kind, LambdaVal(n, bodies), recv, bodies)
           Two == Op[n] = "mapIf"
<1>1. /\ q.def = {e \in recv.def : \A k \in DOMAIN bodies :
                                     \A x \in Elem(n, e) : x[2] \in bodies[k].def}
      /\ q.val = LambdaVal(n, bodies)
      /\ q.def \subseteq Env
      /\ q.open <=> recv.open \/ AnyOpen(bodies)
      /\ ~q.closed
  <2>1. q.open <=> recv.open \/ AnyOpen(bodies)
    BY DEF Hoist
  <2> QED
    BY <2>1 DEF Hoist, Piece
<1> HIDE DEF q
<1>2. /\ \A e \in Env : \A x \in Elem(n, e) : x[2] \in Env
      /\ \A e \in Env : e \in Errs[Kid(n, 1)] => e \in Errs[n]
  BY ComprehensionEval, EnvAssumption
<1>3. /\ 1 \in DOMAIN bodies
      /\ 2 \in DOMAIN bodies <=> Two
      /\ DOMAIN bodies \subseteq {1, 2}
      /\ Kid(n, 2) \in Node /\ (Two => Kid(n, 3) \in Node)
  <2>1. Len(Kids[n]) = IF Two THEN 3 ELSE 2
    BY SyntaxAssumption DEF Lambdas
  <2>2. DOMAIN bodies = IF Two THEN {1, 2} ELSE {1}
    <3>1. 1 .. 3 - 1 = {1, 2} /\ 1 .. 2 - 1 = {1}
      OBVIOUS
    <3> QED
      BY <2>1, <3>1
  <2>3. \A k \in 1 .. Len(Kids[n]) : Kid(n, k) \in Node
    BY ComprehensionEval
  <2> QED
    BY <2>1, <2>2, <2>3
<1>4. /\ bodies[1] \in Piece /\ SoundFor(Kid(n, 2), bodies[1]) /\ ~bodies[1].closed
      /\ Two => bodies[2] \in Piece /\ SoundFor(Kid(n, 3), bodies[2]) /\ ~bodies[2].closed
  <2>1. 1 + 1 = 2 /\ 2 + 1 = 3
    OBVIOUS
  <2> QED
    BY <1>3, <2>1 DEF AnyClosed
<1>5. \A e \in Env :
        e \in Errs[n] <=> \/ e \in Errs[Kid(n, 1)]
                          \/ ErrElems(n, e, 2) # {}
                          \/ Two /\ ErrElems(n, e, 3) \cap TrueElems(n, e, 2) # {}
  BY EvalFacts DEF CelErrs, Literals, Quantifiers, Lambdas, Chains
<1>6. \A e \in Env :
        e \in Holds[n] <=>
          /\ e \notin Errs[n]
          /\ IF Op[n] = "exists_one" THEN \E x \in Elem(n, e) : TrueElems(n, e, 2) = {x}
             ELSE IF Two THEN TrueElems(n, e, 2) \cap TrueElems(n, e, 3) # {}
             ELSE TrueElems(n, e, 2) # {}
  BY EvalFacts DEF CelHolds, Literals, Quantifiers, Lambdas, Chains
<1>7. q.val \subseteq Env /\ \A e \in Env :
        e \in q.val <=>
          IF Op[n] = "exists_one"
          THEN \E x \in Elem(n, e) : Satisfying(n, e, bodies[1]) = {x}
          ELSE IF Two THEN Satisfying(n, e, bodies[1]) \cap Satisfying(n, e, bodies[2]) # {}
          ELSE Satisfying(n, e, bodies[1]) # {}
  BY <1>1 DEF LambdaVal
<1>8. ~q.open => q.def = Env
  BY <1>1, <1>2, <1>3, <1>4 DEF SoundFor, AnyOpen
<1>9. ASSUME NEW e \in q.def
      PROVE  e \notin Errs[n] /\ (e \in Holds[n] <=> e \in q.val)
  <2>1. /\ e \in Env /\ e \notin Errs[Kid(n, 1)]
        /\ \A x \in Elem(n, e) : /\ x[2] \in bodies[1].def
                                 /\ Two => x[2] \in bodies[2].def
    BY <1>1, <1>3 DEF SoundFor
  <2>2. ErrElems(n, e, 2) = {} /\ TrueElems(n, e, 2) = Satisfying(n, e, bodies[1])
    BY <1>4, <2>1 DEF SoundFor, ErrElems, TrueElems, Satisfying
  <2>3. Two => ErrElems(n, e, 3) = {} /\ TrueElems(n, e, 3) = Satisfying(n, e, bodies[2])
    BY <1>4, <2>1 DEF SoundFor, ErrElems, TrueElems, Satisfying
  <2> QED
    BY <1>5, <1>6, <1>7, <2>1, <2>2, <2>3
<1>10. ASSUME CompleteFor(Kid(n, 1), recv), CompleteFor(Kid(n, 2), bodies[1]),
              Two => ~bodies[2].open,
              NEW e \in Env, e \notin Errs[n]
       PROVE  e \in q.def
  <2>1. e \in recv.def
    BY <1>2, <1>10 DEF CompleteFor
  <2>2. \A x \in Elem(n, e) : x[2] \in bodies[1].def
    BY <1>2, <1>4, <1>5, <1>10 DEF CompleteFor, ErrElems
  <2>3. Two => \A x \in Elem(n, e) : x[2] \in bodies[2].def
    BY <1>2, <1>4, <1>10 DEF SoundFor
  <2> QED
    BY <1>1, <1>3, <2>1, <2>2, <2>3
<1>11. CompleteFor(Kid(n, 1), recv) /\ CompleteFor(Kid(n, 2), bodies[1])
         /\ (Two => ~bodies[2].open)
         => CompleteFor(n, q)
  BY <1>9, <1>10, EvalFacts DEF CompleteFor
<1>12. SoundFor(n, q)
  BY <1>8, <1>9 DEF SoundFor
<1>13. (\A k \in DOMAIN bodies : CompleteFor(Kid(n, k + 1), bodies[k]))
         => CompleteFor(Kid(n, 2), bodies[1])
  <2>1. 1 + 1 = 2
    OBVIOUS
  <2> QED
    BY <1>3, <2>1
<1> QED
  BY <1>11, <1>12, <1>13 DEF q

-----------------------------------------------------------------------------
(* The inductive invariant: every fragment on the stack is faithful to the *)
(* operand it translates, as far as the history variables vouch for it.    *)

SoundStack ==
  ~absorbed => \A i \in 1 .. Len(stack) : \A k \in 1 .. Len(stack[i].args) :
                 SoundFor(Operand(stack[i].node, k), stack[i].args[k])

CompleteStack ==
  ~absorbed /\ ~floated =>
    \A i \in 1 .. Len(stack) : \A k \in 1 .. Len(stack[i].args) :
      CompleteFor(Operand(stack[i].node, k), stack[i].args[k])

FaithfulResult ==
  status = "done" /\ ~absorbed =>
    /\ ~result.open
    /\ SoundFor(root, result)
    /\ ~floated => CompleteFor(root, result)

IInv ==
  /\ Structure
  /\ NoClosedGuardUnderNegation
  /\ SoundStack
  /\ CompleteStack
  /\ FaithfulResult

\* A handler's answer: faithful, and with no discharged guard in it if it is
\* translated under a negation.
Answers(p) ==
  /\ p \in Piece
  /\ ReturnsPiece(p)
  /\ absorbed => absorbed'
  /\ floated => floated'
  /\ ~absorbed' => SoundFor(Top.node, p)
  /\ ~absorbed' /\ ~floated' => CompleteFor(Top.node, p)
  /\ p.closed => NegativeCalls = {}

LEMMA InitInv ==
  Init => IInv
<1> SUFFICES ASSUME Init PROVE IInv
  OBVIOUS
<1>1. stack = <<[node |-> root, args |-> <<>>]>> /\ root \in Node /\ root \in Root
  BY RootAssumption DEF Init, Call
<1>2. Len(stack) = 1 /\ stack[1].node = root /\ stack[1].args = <<>>
  BY <1>1
<1>3. [node |-> root, args |-> <<>>] \in Frame
  BY <1>1 DEF Frame
<1>4. stack \in Seq(Frame)
  BY <1>1, <1>3
<1>5. NoPiece \in Piece
  <2>1. {} \in SUBSET Env /\ "prop" \in Kinds
    BY DEF Kinds
  <2> QED
    BY <2>1, MergeType DEF NoPiece
<1>6. TypeOK
  BY <1>1, <1>4, <1>5 DEF Init, TypeOK
<1>7. Calls
  BY <1>1, <1>2, VisitLen DEF Init, Calls, CallsStarted, CallsBounded, CallsLinked
<1>8. NegDepthBalanced
  <2>1. NegativeCalls = {}
    BY <1>2 DEF NegativeCalls
  <2> QED
    BY <2>1, FS_EmptySet DEF Init, NegDepthBalanced
<1>9. NoClosedGuardUnderNegation
  BY <1>1, <1>2 DEF NoClosedGuardUnderNegation
<1> QED
  BY <1>2, <1>6, <1>7, <1>8, <1>9 DEF IInv, Structure, SoundStack, CompleteStack,
     FaithfulResult, Init

LEMMA WalkFacts ==
  ASSUME IInv, status = "walking"
  PROVE  /\ Len(stack) \in Nat /\ Len(stack) > 0
         /\ Top = stack[Len(stack)] /\ Args = stack[Len(stack)].args
         /\ Top.node \in Node
         /\ Args \in Seq(Piece) /\ Len(Args) \in Nat
         /\ DOMAIN Args = 1 .. Len(Args)
         /\ \A k \in DOMAIN Args :
              /\ Args[k] \in Piece
              /\ Args[k].closed => ~Raises(Top.node, k) /\ NegativeCalls = {}
              /\ ~absorbed => SoundFor(Operand(Top.node, k), Args[k])
              /\ ~absorbed /\ ~floated => CompleteFor(Operand(Top.node, k), Args[k])
<1> DEFINE L == Len(stack)
<1>1. L \in Nat /\ L > 0 /\ L \in 1 .. L /\ L \in DOMAIN stack
  BY StackFacts DEF IInv, Structure, Calls, CallsStarted, TypeOK
<1>2. /\ Top = stack[L] /\ Args = stack[L].args /\ Top.node \in Node
      /\ Args \in Seq(Piece) /\ Len(Args) \in Nat
      /\ DOMAIN Args = 1 .. Len(Args)
      /\ \A k \in DOMAIN Args : Args[k] \in Piece
  BY <1>1, StackFacts DEF IInv, Structure, Top, Args
<1>3. \A k \in DOMAIN Args :
        Args[k].closed => ~Raises(Top.node, k) /\ NegativeCalls \cap (1 .. L - 1) = {}
  BY <1>1, <1>2 DEF IInv, NoClosedGuardUnderNegation
<1>4. NegativeCalls \subseteq 1 .. L - 1
  BY NegativeCallsFinite DEF IInv, Structure
<1>5. \A k \in DOMAIN Args :
        /\ ~absorbed => SoundFor(Operand(Top.node, k), Args[k])
        /\ ~absorbed /\ ~floated => CompleteFor(Operand(Top.node, k), Args[k])
  BY <1>1, <1>2 DEF IInv, SoundStack, CompleteStack
<1> QED
  BY <1>1, <1>2, <1>3, <1>4, <1>5

LEMMA DescendKeepsInv ==
  ASSUME IInv, Descend
  PROVE  IInv'
<1> DEFINE L == Len(stack)
<1>1. Structure'
  BY DescendKeepsStructure DEF IInv
<1>2. /\ L \in Nat /\ L > 0
      /\ status = "walking" /\ status' = status
      /\ absorbed' = absorbed /\ floated' = floated
      /\ stack \in Seq(Frame)
      /\ stack' = Append(stack, Call(Operand(Top.node, Len(Args) + 1)))
  BY WalkFacts DEF Descend, IInv, Structure, TypeOK
<1>3. /\ Len(stack') = L + 1
      /\ DOMAIN stack = 1 .. L /\ DOMAIN stack' = 1 .. L + 1
      /\ \A i \in 1 .. L : stack'[i] = stack[i]
      /\ stack'[L + 1].args = <<>>
  BY <1>2 DEF Call
<1>4. \A i \in 1 .. L + 1 : \A k \in 1 .. Len(stack'[i].args) :
        i \in 1 .. L /\ stack'[i] = stack[i] /\ k \in 1 .. Len(stack[i].args)
  BY <1>2, <1>3
<1>5. SoundStack' /\ CompleteStack'
  BY <1>2, <1>3, <1>4 DEF IInv, SoundStack, CompleteStack
<1>6. FaithfulResult'
  BY <1>2 DEF FaithfulResult
<1>7. \A i \in 1 .. L : NegativeCalls' \cap (1 .. i - 1) = NegativeCalls \cap (1 .. i - 1)
  BY <1>2, <1>3 DEF NegativeCalls
<1>8. NoClosedGuardUnderNegation'
  <2> SUFFICES ASSUME NEW i \in DOMAIN stack', NEW k \in DOMAIN stack'[i].args,
                      stack'[i].args[k].closed
               PROVE  /\ ~Raises(stack'[i].node, k)
                      /\ NegativeCalls' \cap (1 .. i - 1) = {}
    BY DEF NoClosedGuardUnderNegation
  <2>1. i \in 1 .. L /\ stack'[i] = stack[i] /\ i \in DOMAIN stack
    BY <1>2, <1>3
  <2> QED
    BY <1>7, <2>1 DEF IInv, NoClosedGuardUnderNegation
<1> QED
  BY <1>1, <1>5, <1>6, <1>8 DEF IInv

LEMMA AnswerKeepsInv ==
  ASSUME IInv, NEW p, Answers(p)
  PROVE  IInv'
<1> DEFINE L == Len(stack)
<1>1. /\ p \in Piece /\ ReturnsPiece(p) /\ status = "walking"
      /\ ~absorbed' => ~absorbed /\ SoundFor(Top.node, p)
      /\ ~absorbed' /\ ~floated' => ~floated /\ CompleteFor(Top.node, p)
      /\ p.closed => NegativeCalls = {}
      /\ root' = root
  BY DEF Answers, ReturnsPiece, Return
<1>2. Structure'
  BY <1>1, ReturnKeepsStructure DEF IInv
<1>3. L \in Nat /\ L > 0 /\ Top = stack[L] /\ Top.node \in Node
  BY <1>1, WalkFacts
<1>4. CASE L = 1
  <2>1. Finish(p)
    BY <1>1, <1>4 DEF ReturnsPiece, Return
  <2>2. Top.node = root
    BY <1>1, <1>3, <1>4 DEF IInv, Structure, Calls, CallsStarted
  <2>3. stack' = <<>> /\ result' = CloseGuards(p)
    BY <2>1 DEF Finish
  <2>4. NoClosedGuardUnderNegation' /\ SoundStack' /\ CompleteStack'
    BY <2>3 DEF NoClosedGuardUnderNegation, SoundStack, CompleteStack
  <2>5. FaithfulResult'
    BY <1>1, <1>3, <2>2, <2>3, CloseGuardsFaithful DEF FaithfulResult
  <2> QED
    BY <1>2, <2>4, <2>5 DEF IInv
<1>5. CASE L # 1
  <2>0. L >= 2 /\ L - 1 \in 1 .. L /\ L - 1 \in 1 .. L - 1 /\ L - 1 \in DOMAIN stack
    <3>1. \A m \in Nat : m > 0 /\ m # 1 => m >= 2
      OBVIOUS
    <3>2. DOMAIN stack = 1 .. L
      BY DEF IInv, Structure, TypeOK
    <3> QED
      BY <1>3, <1>5, <3>1, <3>2
  <2> DEFINE caller == stack[L - 1]
             K == Len(caller.args)
  <2>1. ReturnTo(caller, p)
    BY <1>1, <1>5 DEF ReturnsPiece, Return
  <2>2. /\ caller \in Frame /\ caller.node \in Node /\ K \in Nat
        /\ caller.args \in Seq(Piece) /\ DOMAIN caller.args = 1 .. K
        /\ Top.node = Operand(caller.node, K + 1)
    <3>1. /\ caller \in Frame /\ caller.node \in Node /\ K \in Nat
          /\ caller.args \in Seq(Piece) /\ DOMAIN caller.args = 1 .. K
      BY <2>0, StackFacts DEF IInv, Structure
    <3>2. stack[L - 1 + 1].node = Operand(caller.node, K + 1)
      BY <2>0 DEF IInv, Structure, Calls, CallsLinked
    <3>3. L - 1 + 1 = L
      BY <1>3
    <3> QED
      BY <1>3, <3>1, <3>2, <3>3
  <2>3. /\ status' = status
        /\ stack' = [i \in 1 .. L - 1 |->
                       IF i = L - 1 THEN [caller EXCEPT !.args = Append(@, p)] ELSE stack[i]]
    BY <2>1 DEF ReturnTo
  <2>4. stack'[L - 1] = [caller EXCEPT !.args = Append(@, p)]
    BY <2>0, <2>3
  <2>5. /\ Len(stack') = L - 1
        /\ DOMAIN stack' = 1 .. L - 1
        /\ \A i \in 1 .. L - 1 : i # L - 1 => stack'[i] = stack[i]
        /\ stack'[L - 1].node = caller.node
        /\ stack'[L - 1].args = Append(caller.args, p)
    BY <2>0, <2>2, <2>3, <2>4 DEF Frame
  <2>6. /\ Len(Append(caller.args, p)) = K + 1
        /\ DOMAIN Append(caller.args, p) = 1 .. K + 1
        /\ Append(caller.args, p)[K + 1] = p
        /\ \A k \in 1 .. K : Append(caller.args, p)[k] = caller.args[k]
    BY <1>1, <2>2
  <2>7. \A i \in 1 .. L - 1 : \A k \in 1 .. Len(stack'[i].args) :
          /\ stack'[i].node = stack[i].node
          /\ \/ /\ i = L - 1 /\ k = K + 1 /\ stack'[i].args[k] = p
                /\ Operand(stack[i].node, k) = Top.node
             \/ /\ i \in 1 .. L /\ k \in 1 .. Len(stack[i].args)
                /\ stack'[i].args[k] = stack[i].args[k]
    <3> SUFFICES ASSUME NEW i \in 1 .. L - 1, NEW k \in 1 .. Len(stack'[i].args)
                 PROVE  /\ stack'[i].node = stack[i].node
                        /\ \/ /\ i = L - 1 /\ k = K + 1 /\ stack'[i].args[k] = p
                              /\ Operand(stack[i].node, k) = Top.node
                           \/ /\ i \in 1 .. L /\ k \in 1 .. Len(stack[i].args)
                              /\ stack'[i].args[k] = stack[i].args[k]
      OBVIOUS
    <3>1. CASE i = L - 1
      <4>1. k \in 1 .. K \/ k = K + 1
        BY <2>2, <2>5, <2>6, <3>1
      <4> QED
        BY <2>0, <2>2, <2>5, <2>6, <3>1, <4>1
    <3>2. CASE i # L - 1
      BY <2>0, <2>5, <3>2
    <3> QED
      BY <3>1, <3>2
  <2>8. SoundStack'
    BY <1>1, <2>5, <2>7 DEF IInv, SoundStack
  <2>9. CompleteStack'
    BY <1>1, <2>5, <2>7 DEF IInv, CompleteStack
  <2>10. FaithfulResult'
    BY <1>1, <2>3 DEF FaithfulResult
  <2>11. NegativeCalls' \subseteq NegativeCalls /\ (L - 1 \in NegativeCalls <=> Raises(caller.node, K + 1))
    <3>1. \A i \in 1 .. L - 2 : i \in 1 .. L - 1 /\ stack'[i] = stack[i]
      BY <2>0, <2>5
    <3>2. NegativeCalls' = {i \in 1 .. L - 1 - 1 : Raises(stack'[i].node, Len(stack'[i].args) + 1)}
      BY <2>5 DEF NegativeCalls
    <3>3. 1 .. L - 1 - 1 = 1 .. L - 2
      BY <1>3
    <3> QED
      BY <2>0, <3>1, <3>2, <3>3 DEF NegativeCalls
  <2>12. NoClosedGuardUnderNegation'
    <3> SUFFICES ASSUME NEW i \in DOMAIN stack', NEW k \in DOMAIN stack'[i].args,
                        stack'[i].args[k].closed
                 PROVE  /\ ~Raises(stack'[i].node, k)
                        /\ NegativeCalls' \cap (1 .. i - 1) = {}
      BY DEF NoClosedGuardUnderNegation
    <3>1. i \in 1 .. L - 1 /\ k \in 1 .. Len(stack'[i].args)
      <4>1. stack'[i] \in Frame
        BY <1>2, <2>5 DEF Structure, TypeOK
      <4> QED
        BY <2>5, <4>1 DEF Frame
    <3>2. CASE stack'[i].args[k] = p /\ i = L - 1 /\ k = K + 1
      BY <1>1, <2>5, <2>11, <3>2
    <3>3. CASE /\ i \in 1 .. L /\ k \in 1 .. Len(stack[i].args)
               /\ stack'[i].args[k] = stack[i].args[k]
      <4>1. i \in DOMAIN stack /\ k \in DOMAIN stack[i].args
        BY <3>3, StackFacts DEF IInv, Structure, TypeOK
      <4> QED
        BY <2>7, <2>11, <3>1, <3>3, <4>1 DEF IInv, NoClosedGuardUnderNegation
    <3> QED
      BY <2>7, <3>1, <3>2, <3>3
  <2> QED
    BY <1>2, <2>8, <2>9, <2>10, <2>12 DEF IInv
<1> QED
  BY <1>4, <1>5

-----------------------------------------------------------------------------
(* Every handler answers, or rejects the expression. *)

LEMMA RejectKeepsInv ==
  ASSUME IInv, status = "walking", Reject
  PROVE  IInv'
<1>1. /\ stack' = <<>> /\ status' = "rejected"
      /\ negDepth' = negDepth /\ root' = root /\ result' = result
      /\ floated' = floated /\ absorbed' = absorbed
  BY DEF Reject
<1>2. TypeOK'
  BY <1>1 DEF IInv, Structure, TypeOK
<1>3. Calls' /\ NegDepthBalanced'
  BY <1>1 DEF Calls, CallsStarted, CallsBounded, CallsLinked, NegDepthBalanced
<1> QED
  BY <1>1, <1>2, <1>3 DEF IInv, Structure, NoClosedGuardUnderNegation, SoundStack,
     CompleteStack, FaithfulResult

\* With all operands collected, the arguments are those of the node.
LEMMA HandlerFacts ==
  ASSUME IInv, NEW ops, Handles(ops)
  PROVE  /\ status = "walking" /\ Op[Top.node] \in ops /\ Top.node \in Node
         /\ Len(Args) = Len(Visit(Top.node)) /\ Args \in Seq(Piece)
         /\ floated \in BOOLEAN /\ absorbed \in BOOLEAN
         /\ DOMAIN Args = 1 .. Len(Visit(Top.node))
         /\ \A k \in DOMAIN Args : Args[k] \in Piece
         /\ ~absorbed => SoundArgs(Top.node, Args)
         /\ ~absorbed /\ ~floated => CompleteArgs(Top.node, Args)
         /\ AnyClosed(Args) => NegativeCalls = {}
         /\ (\A k \in DOMAIN Args : Raises(Top.node, k)) => ~AnyClosed(Args)
<1>1. /\ status = "walking" /\ Op[Top.node] \in ops
      /\ Len(Args) = Len(Visit(Top.node))
      /\ floated \in BOOLEAN /\ absorbed \in BOOLEAN
  BY DEF Handles, IInv, Structure, TypeOK
<1>2. /\ Top.node \in Node /\ Args \in Seq(Piece) /\ DOMAIN Args = 1 .. Len(Args)
      /\ \A k \in DOMAIN Args :
           /\ Args[k] \in Piece
           /\ Args[k].closed => ~Raises(Top.node, k) /\ NegativeCalls = {}
           /\ ~absorbed => SoundFor(Operand(Top.node, k), Args[k])
           /\ ~absorbed /\ ~floated => CompleteFor(Operand(Top.node, k), Args[k])
  BY <1>1, WalkFacts
<1> QED
  BY <1>1, <1>2 DEF SoundArgs, CompleteArgs, AnyClosed

\* A guard is discharged only where no caller is negative.
LEMMA ClosePositiveFacts ==
  ASSUME IInv, status = "walking", NEW p \in Piece,
         p.closed => NegativeCalls = {}
  PROVE  /\ CloseGuardsPositive(p) \in Piece
         /\ CloseGuardsPositive(p).closed => NegativeCalls = {}
         /\ \A m \in Node :
              SoundFor(m, p) => /\ SoundFor(m, CloseGuardsPositive(p))
                                /\ CompleteFor(m, p) => CompleteFor(m, CloseGuardsPositive(p))
<1>1. CloseGuardsPositive(p) \in Piece
  BY CloseGuardsType
<1>2. negDepth \in Nat /\ negDepth = Cardinality(NegativeCalls) /\ IsFiniteSet(NegativeCalls)
  BY NegativeCallsFinite DEF IInv, Structure, TypeOK, NegDepthBalanced
<1>3. negDepth = 0 => NegativeCalls = {}
  BY <1>2, FS_EmptySet
<1>4. CASE negDepth > 0
  BY <1>1, <1>4 DEF CloseGuardsPositive
<1>5. CASE ~(negDepth > 0)
  <2>1. CloseGuardsPositive(p) = CloseGuards(p) /\ NegativeCalls = {}
    BY <1>2, <1>3, <1>5 DEF CloseGuardsPositive
  <2> QED
    BY <1>1, <2>1, CloseGuardsFaithful
<1> QED
  BY <1>4, <1>5

LEMMA LiteralAnswers ==
  ASSUME IInv, Literal
  PROVE  \E p : Answers(p)
<1> DEFINE n == Top.node
           v == IF Op[n] = "true" THEN Env ELSE {}
           p == Merge("bool", v, Args)
<1>1. Handles(Literals) /\ Return(p) /\ floated' = floated /\ absorbed' = absorbed
  BY DEF Literal
<1>2. p \in Piece
  <2>1. v \in SUBSET Env /\ "bool" \in Kinds
    BY DEF Kinds
  <2> QED
    BY <2>1, MergeType
<1>3. p.closed <=> AnyClosed(Args)
  BY DEF Merge
<1>4. ~absorbed => SoundFor(n, p) /\ CompleteFor(n, p)
  BY <1>1, HandlerFacts, LiteralFaithful
<1> HIDE DEF p
<1>5. Answers(p)
  BY <1>1, <1>2, <1>3, <1>4, HandlerFacts DEF Answers, ReturnsPiece
<1> QED
  BY <1>5

LEMMA StrictAnswers ==
  ASSUME IInv, Strict
  PROVE  \E p : Answers(p)
<1> DEFINE n == Top.node
           p == StrictPiece(n, Args)
<1>1. Handles({"strict"}) /\ Return(p) /\ floated' = floated
      /\ absorbed' = (absorbed \/ AnyClosed(Args))
  BY DEF Strict
<1>2. p \in Piece
  BY <1>1, HandlerFacts, StrictPieceType
<1>3. p.closed <=> AnyClosed(Args)
  BY DEF StrictPiece
<1>4. /\ ~absorbed' => SoundFor(n, p)
      /\ ~absorbed' /\ ~floated' => CompleteFor(n, p)
  <2>1. /\ n \in Node /\ Op[n] = "strict"
        /\ ~absorbed => SoundArgs(n, Args)
        /\ ~absorbed /\ ~floated => CompleteArgs(n, Args)
    BY <1>1, HandlerFacts
  <2>2. SoundArgs(n, Args) /\ ~AnyClosed(Args) =>
          SoundFor(n, p) /\ (CompleteArgs(n, Args) => CompleteFor(n, p))
    BY <2>1, StrictFaithful
  <2>3. ~absorbed' => ~absorbed /\ ~AnyClosed(Args)
    BY <1>1
  <2>4. floated' = floated
    BY <1>1
  <2> QED
    BY <2>1, <2>2, <2>3, <2>4
<1> HIDE DEF p
<1>5. Answers(p)
  BY <1>1, <1>2, <1>3, <1>4, HandlerFacts DEF Answers, ReturnsPiece
<1> QED
  BY <1>5

LEMMA NotAnswers ==
  ASSUME IInv, Not
  PROVE  \E p : Answers(p)
<1> DEFINE n == Top.node
           p == Merge("prop", Env \ Args[1].val, Args)
<1>1. Handles({"not"}) /\ Return(p) /\ floated' = floated /\ absorbed' = absorbed
  BY DEF Not
<1>2. p \in Piece
  <2>1. Env \ Args[1].val \in SUBSET Env /\ "prop" \in Kinds
    BY DEF Kinds
  <2> QED
    BY <2>1, MergeType
<1>3. p.closed <=> AnyClosed(Args)
  BY DEF Merge
<1>4. ~AnyClosed(Args)
  BY <1>1, HandlerFacts DEF Raises
<1>5. /\ ~absorbed => SoundFor(n, p)
      /\ ~absorbed /\ ~floated => CompleteFor(n, p)
  BY <1>1, <1>4, HandlerFacts, NotFaithful
<1> HIDE DEF p
<1>6. Answers(p)
  BY <1>1, <1>2, <1>3, <1>5, HandlerFacts DEF Answers, ReturnsPiece
<1> QED
  BY <1>6

LEMMA EqualityAnswers ==
  ASSUME IInv, Equality
  PROVE  \E p : Answers(p)
<1> DEFINE n == Top.node
           v == {e \in Env : HoldsAt(Args, e) \in {{}, {1, 2}}}
           p == Merge("prop", v, Args)
<1>1. Handles({"equal"}) /\ Return(p) /\ floated' = floated /\ absorbed' = absorbed
  BY DEF Equality
<1>2. p \in Piece
  <2>1. v \in SUBSET Env /\ "prop" \in Kinds
    BY DEF Kinds
  <2> QED
    BY <2>1, MergeType
<1>3. p.closed <=> AnyClosed(Args)
  BY DEF Merge
<1>4. ~AnyClosed(Args)
  BY <1>1, HandlerFacts DEF Raises
<1>5. /\ ~absorbed => SoundFor(n, p)
      /\ ~absorbed /\ ~floated => CompleteFor(n, p)
  <2>1. /\ n \in Node /\ Op[n] = "equal"
        /\ ~absorbed => SoundArgs(n, Args)
        /\ ~absorbed /\ ~floated => CompleteArgs(n, Args)
    BY <1>1, HandlerFacts
  <2>2. SoundArgs(n, Args) => SoundFor(n, p) /\ (CompleteArgs(n, Args) => CompleteFor(n, p))
    BY <1>4, <2>1, EqualityFaithful
  <2> QED
    BY <2>1, <2>2
<1> HIDE DEF p
<1>6. Answers(p)
  BY <1>1, <1>2, <1>3, <1>5, HandlerFacts DEF Answers, ReturnsPiece
<1> QED
  BY <1>6

LEMMA LogicalChainAnswers ==
  ASSUME IInv, LogicalChain
  PROVE  \E p : Answers(p)
<1> DEFINE n == Top.node
           ps == [k \in DOMAIN Args |-> CloseGuardsPositive(Args[k])]
           p == Merge("prop", ChainVal(Op[n], ps), ps)
<1>1. /\ Handles(Chains) /\ Return(p) /\ absorbed' = absorbed
      /\ floated' = (floated \/ AnyOpen(ps))
  BY DEF LogicalChain
<1>2. p \in Piece
  <2>1. ChainVal(Op[n], ps) \in SUBSET Env /\ "prop" \in Kinds
    BY DEF Kinds, ChainVal
  <2> QED
    BY <2>1, MergeType
<1>3. p.closed <=> AnyClosed(ps)
  BY DEF Merge
<1>4. /\ DOMAIN ps = DOMAIN Args
      /\ \A k \in DOMAIN ps :
           /\ ps[k] \in Piece
           /\ ps[k].closed => NegativeCalls = {}
           /\ \A m \in Node : SoundFor(m, Args[k]) =>
                 /\ SoundFor(m, ps[k])
                 /\ CompleteFor(m, Args[k]) => CompleteFor(m, ps[k])
  <2>1. ASSUME NEW k \in DOMAIN Args
        PROVE  Args[k] \in Piece /\ (Args[k].closed => NegativeCalls = {})
    BY <1>1, HandlerFacts DEF AnyClosed
  <2> QED
    BY <1>1, <2>1, HandlerFacts, ClosePositiveFacts
<1>5. \A k \in 1 .. Len(Visit(n)) : Operand(n, k) \in Node
  BY <1>1, HandlerFacts, VisitFacts
<1> HIDE DEF ps
<1>6. /\ ~absorbed => SoundArgs(n, ps)
      /\ ~absorbed /\ ~floated => CompleteArgs(n, ps)
  BY <1>1, <1>4, <1>5, HandlerFacts DEF SoundArgs, CompleteArgs
<1>7. /\ ~absorbed => SoundFor(n, p)
      /\ ~absorbed /\ ~floated /\ ~AnyOpen(ps) => CompleteFor(n, p)
  BY <1>1, <1>6, HandlerFacts, ChainFaithful
<1> HIDE DEF p
<1>8. p.closed => NegativeCalls = {}
  BY <1>3, <1>4 DEF AnyClosed
<1>9. floated' \in BOOLEAN
  BY <1>1, HandlerFacts DEF AnyOpen
<1>10. Answers(p)
  BY <1>1, <1>2, <1>7, <1>8, <1>9, HandlerFacts DEF Answers, ReturnsPiece
<1> QED
  BY <1>10

\* The operands of a ternary: its condition was translated under a raised
\* negDepth, so no guard was discharged in it.
LEMMA ConditionalArgs ==
  ASSUME IInv, Handles({"conditional"})
  PROVE  /\ Len(Args) \in {2, 3}
         /\ Operand(Top.node, 1) = Kid(Top.node, 1)
         /\ Len(Args) = 3 => /\ Operand(Top.node, 2) = Kid(Top.node, 2)
                             /\ Operand(Top.node, 3) = Kid(Top.node, 3)
         /\ Operand(Top.node, 2) \in Node
         /\ ~Args[1].closed
         /\ \A k \in 1 .. Len(Args) :
              /\ Args[k] \in Piece
              /\ Args[k].closed => NegativeCalls = {}
              /\ ~absorbed => SoundFor(Operand(Top.node, k), Args[k])
              /\ ~absorbed /\ ~floated => CompleteFor(Operand(Top.node, k), Args[k])
<1> DEFINE n == Top.node
<1>1. /\ status = "walking" /\ Op[n] = "conditional" /\ n \in Node
      /\ Len(Args) = Len(Visit(n))
      /\ DOMAIN Args = 1 .. Len(Args)
  BY HandlerFacts
<1>2. Visit(n) \in {<<1, 2>>, <<1, 3>>, <<1, 2, 3>>}
  BY <1>1 DEF Visit
<1>3. Len(Visit(n)) \in {2, 3} /\ Visit(n)[1] = 1
  BY <1>2
<1>4. Len(Visit(n)) = 3 => Visit(n)[2] = 2 /\ Visit(n)[3] = 3
  BY <1>2
<1>5. 1 \in DOMAIN Args /\ 2 \in 1 .. Len(Visit(n))
  BY <1>1, <1>3
<1>6. Operand(n, 2) \in Node
  BY <1>1, <1>5, VisitFacts
<1>7. \A k \in DOMAIN Args :
        /\ Args[k] \in Piece
        /\ Args[k].closed => ~Raises(n, k) /\ NegativeCalls = {}
        /\ ~absorbed => SoundFor(Operand(n, k), Args[k])
        /\ ~absorbed /\ ~floated => CompleteFor(Operand(n, k), Args[k])
  BY <1>1, WalkFacts
<1>8. Raises(n, 1)
  BY <1>1 DEF Raises
<1> QED
  BY <1>1, <1>3, <1>4, <1>5, <1>6, <1>7, <1>8 DEF Operand

LEMMA ConditionalIdiomAnswers ==
  ASSUME IInv, ConditionalIdiom
  PROVE  \E p : Answers(p)
<1> DEFINE n == Top.node
           c == Args[1]
           b == CloseGuardsPositive(Args[2])
           p == Merge("prop", IdiomVal(n, c, b), <<c, b>>)
<1>1. /\ Handles({"conditional"}) /\ Len(Args) = 2 /\ Return(p) /\ absorbed' = absorbed
      /\ floated' = (floated \/ b.open)
  BY DEF ConditionalIdiom
<1>2. /\ status = "walking" /\ Op[n] = "conditional" /\ n \in Node
      /\ Len(Args) = Len(Visit(n)) /\ Len(Visit(n)) = 2
      /\ floated \in BOOLEAN /\ absorbed \in BOOLEAN
  BY <1>1, HandlerFacts
<1>3. /\ c \in Piece /\ Args[2] \in Piece /\ Operand(n, 2) \in Node
      /\ ~c.closed
      /\ Args[2].closed => NegativeCalls = {}
      /\ ~absorbed => SoundFor(Kid(n, 1), c) /\ SoundFor(Operand(n, 2), Args[2])
      /\ ~absorbed /\ ~floated => /\ CompleteFor(Kid(n, 1), c)
                                  /\ CompleteFor(Operand(n, 2), Args[2])
  <2>1. 1 \in 1 .. Len(Args) /\ 2 \in 1 .. Len(Args)
    BY <1>1
  <2> QED
    BY <1>1, <2>1, ConditionalArgs
<1>4. /\ b \in Piece /\ (b.closed => NegativeCalls = {})
      /\ SoundFor(Operand(n, 2), Args[2]) =>
           /\ SoundFor(Operand(n, 2), b)
           /\ CompleteFor(Operand(n, 2), Args[2]) => CompleteFor(Operand(n, 2), b)
  BY <1>2, <1>3, ClosePositiveFacts
<1> HIDE DEF b
<1>5. p \in Piece
  <2>1. IdiomVal(n, c, b) \in SUBSET Env /\ "prop" \in Kinds
    BY <1>3, <1>4 DEF Kinds, IdiomVal, Piece
  <2> QED
    BY <2>1, MergeType
<1>6. p.closed => NegativeCalls = {}
  BY <1>3, <1>4 DEF Merge, AnyClosed
<1>7. SoundFor(Kid(n, 1), c) /\ SoundFor(Operand(n, 2), b) =>
        /\ SoundFor(n, p)
        /\ CompleteFor(Kid(n, 1), c) /\ CompleteFor(Operand(n, 2), b) /\ ~b.open
           => CompleteFor(n, p)
  BY <1>2, <1>3, <1>4, IdiomFaithful
<1> HIDE DEF p
<1>8. /\ ~absorbed => SoundFor(n, p)
      /\ ~absorbed /\ ~floated /\ ~b.open => CompleteFor(n, p)
  BY <1>3, <1>4, <1>7
<1>9. floated' \in BOOLEAN
  BY <1>1, <1>2, <1>4 DEF Piece
<1>10. Answers(p)
  BY <1>1, <1>2, <1>5, <1>6, <1>8, <1>9 DEF Answers, ReturnsPiece
<1> QED
  BY <1>10

LEMMA ConditionalPropAnswers ==
  ASSUME IInv, ConditionalProp
  PROVE  \E p : Answers(p)
<1> DEFINE n == Top.node
           c == Args[1]
           a == CloseGuardsPositive(Args[2])
           b == CloseGuardsPositive(Args[3])
           p == Merge("prop", IteVal(c, a, b), <<c, a, b>>)
<1>1. /\ Handles({"conditional"}) /\ Len(Args) = 3 /\ Return(p) /\ absorbed' = absorbed
      /\ floated' = (floated \/ a.open \/ b.open)
  BY DEF ConditionalProp
<1>2. /\ status = "walking" /\ Op[n] = "conditional" /\ n \in Node
      /\ Len(Args) = Len(Visit(n))
      /\ floated \in BOOLEAN /\ absorbed \in BOOLEAN
  BY <1>1, HandlerFacts
<1>3. /\ c \in Piece /\ Args[2] \in Piece /\ Args[3] \in Piece
      /\ ~c.closed
      /\ Args[2].closed => NegativeCalls = {}
      /\ Args[3].closed => NegativeCalls = {}
      /\ ~absorbed => /\ SoundFor(Kid(n, 1), c)
                      /\ SoundFor(Kid(n, 2), Args[2]) /\ SoundFor(Kid(n, 3), Args[3])
      /\ ~absorbed /\ ~floated =>
           /\ CompleteFor(Kid(n, 1), c)
           /\ CompleteFor(Kid(n, 2), Args[2]) /\ CompleteFor(Kid(n, 3), Args[3])
  <2>1. 1 \in 1 .. Len(Args) /\ 2 \in 1 .. Len(Args) /\ 3 \in 1 .. Len(Args)
    BY <1>1
  <2> QED
    BY <1>1, <2>1, ConditionalArgs
<1>4. Kid(n, 2) \in Node /\ Kid(n, 3) \in Node
  BY <1>2, ConditionalEval
<1>5. /\ a \in Piece /\ (a.closed => NegativeCalls = {})
      /\ SoundFor(Kid(n, 2), Args[2]) =>
           /\ SoundFor(Kid(n, 2), a)
           /\ CompleteFor(Kid(n, 2), Args[2]) => CompleteFor(Kid(n, 2), a)
  BY <1>2, <1>3, <1>4, ClosePositiveFacts
<1>6. /\ b \in Piece /\ (b.closed => NegativeCalls = {})
      /\ SoundFor(Kid(n, 3), Args[3]) =>
           /\ SoundFor(Kid(n, 3), b)
           /\ CompleteFor(Kid(n, 3), Args[3]) => CompleteFor(Kid(n, 3), b)
  BY <1>2, <1>3, <1>4, ClosePositiveFacts
<1> HIDE DEF a, b
<1>7. p \in Piece
  <2>1. IteVal(c, a, b) \in SUBSET Env /\ "prop" \in Kinds
    BY <1>3, <1>5, <1>6 DEF Kinds, IteVal, Piece
  <2> QED
    BY <2>1, MergeType
<1>8. p.closed => NegativeCalls = {}
  BY <1>3, <1>5, <1>6 DEF Merge, AnyClosed
<1>9. SoundFor(Kid(n, 1), c) /\ SoundFor(Kid(n, 2), a) /\ SoundFor(Kid(n, 3), b) =>
        /\ SoundFor(n, p)
        /\ /\ CompleteFor(Kid(n, 1), c) /\ CompleteFor(Kid(n, 2), a)
           /\ CompleteFor(Kid(n, 3), b) /\ ~a.open /\ ~b.open
           => CompleteFor(n, p)
  <2>1. "prop" \in Kinds
    BY DEF Kinds
  <2> QED
    BY <1>2, <1>3, <1>5, <1>6, <2>1, IteFaithful
<1> HIDE DEF p
<1>10. /\ ~absorbed => SoundFor(n, p)
       /\ ~absorbed /\ ~floated /\ ~a.open /\ ~b.open => CompleteFor(n, p)
  BY <1>3, <1>5, <1>6, <1>9
<1>11. floated' \in BOOLEAN
  BY <1>1, <1>2, <1>5, <1>6 DEF Piece
<1>12. Answers(p)
  BY <1>1, <1>2, <1>7, <1>8, <1>10, <1>11 DEF Answers, ReturnsPiece
<1> QED
  BY <1>12

LEMMA ConditionalValueAnswers ==
  ASSUME IInv, ConditionalValue
  PROVE  \E p : Answers(p)
<1> DEFINE n == Top.node
           c == Args[1]
           a == Args[2]
           b == Args[3]
           kind == IF a.kind = "bool" /\ b.kind = "bool" THEN "bool" ELSE "term"
           p == Merge(kind, IteVal(c, a, b), <<c, a, b>>)
<1>1. /\ Handles({"conditional"}) /\ Len(Args) = 3 /\ absorbed' = absorbed
      /\ Return(Merge(kind, IteVal(c, a, b), Args))
      /\ floated' = (floated \/ a.open \/ b.open)
  BY DEF ConditionalValue
<1>2. /\ status = "walking" /\ Op[n] = "conditional" /\ n \in Node
      /\ Len(Args) = Len(Visit(n)) /\ Args \in Seq(Piece)
      /\ floated \in BOOLEAN /\ absorbed \in BOOLEAN
  BY <1>1, HandlerFacts
<1>3. /\ c \in Piece /\ a \in Piece /\ b \in Piece
      /\ ~c.closed
      /\ a.closed => NegativeCalls = {}
      /\ b.closed => NegativeCalls = {}
      /\ ~absorbed => /\ SoundFor(Kid(n, 1), c)
                      /\ SoundFor(Kid(n, 2), a) /\ SoundFor(Kid(n, 3), b)
      /\ ~absorbed /\ ~floated =>
           /\ CompleteFor(Kid(n, 1), c)
           /\ CompleteFor(Kid(n, 2), a) /\ CompleteFor(Kid(n, 3), b)
  <2>1. 1 \in 1 .. Len(Args) /\ 2 \in 1 .. Len(Args) /\ 3 \in 1 .. Len(Args)
    BY <1>1
  <2> QED
    BY <1>1, <2>1, ConditionalArgs
<1>5. Return(p)
  <2>1. Args = <<c, a, b>>
    BY <1>1, <1>2
  <2> QED
    BY <1>1, <2>1
<1>6. kind \in Kinds
  BY DEF Kinds
<1> HIDE DEF kind
<1>7. p \in Piece
  <2>1. IteVal(c, a, b) \in SUBSET Env
    BY <1>3 DEF IteVal, Piece
  <2> QED
    BY <1>6, <2>1, MergeType
<1>8. p.closed => NegativeCalls = {}
  BY <1>3 DEF Merge, AnyClosed
<1>9. SoundFor(Kid(n, 1), c) /\ SoundFor(Kid(n, 2), a) /\ SoundFor(Kid(n, 3), b) =>
        /\ SoundFor(n, p)
        /\ /\ CompleteFor(Kid(n, 1), c) /\ CompleteFor(Kid(n, 2), a)
           /\ CompleteFor(Kid(n, 3), b) /\ ~a.open /\ ~b.open
           => CompleteFor(n, p)
  BY <1>2, <1>3, <1>6, IteFaithful
<1> HIDE DEF p
<1>10. floated' \in BOOLEAN
  BY <1>1, <1>2, <1>3 DEF Piece
<1>11. Answers(p)
  BY <1>1, <1>2, <1>3, <1>5, <1>7, <1>8, <1>9, <1>10 DEF Answers, ReturnsPiece
<1> QED
  BY <1>11

LEMMA QuantifierAnswers ==
  ASSUME IInv, Quantifier
  PROVE  Reject \/ \E p : Answers(p)
<1> DEFINE n == Top.node
           r == Args[1]
           body == CloseGuardsPositive(Args[2])
           p == Hoist(n, "prop", QuantifierVal(n, body), r, <<body>>)
<1>1. Handles(Quantifiers)
  BY DEF Quantifier
<1>2. /\ status = "walking" /\ Op[n] \in Quantifiers /\ n \in Node
      /\ Len(Args) = Len(Visit(n)) /\ Op[n] # "conditional"
      /\ floated \in BOOLEAN /\ absorbed \in BOOLEAN
  BY <1>1, HandlerFacts DEF Quantifiers
<1>3. SUFFICES ASSUME Hoistable(<<body>>)
               PROVE  \E q : Answers(q)
  BY DEF Quantifier
<1>4. /\ Return(p) /\ floated' = (floated \/ body.open)
      /\ absorbed' = (absorbed \/ r.closed)
  BY <1>3 DEF Quantifier
<1>5. /\ Len(Kids[n]) = 2 /\ Len(Args) = 2
      /\ Operand(n, 1) = Kid(n, 1) /\ Operand(n, 2) = Kid(n, 2)
      /\ Kid(n, 2) \in Node
  <2>1. Len(Kids[n]) = 2 /\ DOMAIN Kids[n] = 1 .. 2
    BY <1>2, SyntaxAssumption
  <2>2. /\ Len(Visit(n)) = Len(Kids[n])
        /\ \A k \in DOMAIN Kids[n] : Visit(n)[k] = k
        /\ \A k \in 1 .. Len(Visit(n)) : Operand(n, k) \in Node
    BY <1>2, VisitFacts
  <2> QED
    BY <1>2, <2>1, <2>2 DEF Operand
<1>6. /\ r \in Piece /\ Args[2] \in Piece
      /\ r.closed => NegativeCalls = {}
      /\ Args[2].closed => NegativeCalls = {}
      /\ ~absorbed => SoundFor(Kid(n, 1), r) /\ SoundFor(Kid(n, 2), Args[2])
      /\ ~absorbed /\ ~floated => CompleteFor(Kid(n, 1), r) /\ CompleteFor(Kid(n, 2), Args[2])
  <2>1. 1 \in DOMAIN Args /\ 2 \in DOMAIN Args
    BY <1>2, <1>5, WalkFacts
  <2> QED
    BY <1>2, <1>5, <2>1, WalkFacts
<1>7. /\ body \in Piece /\ (body.closed => NegativeCalls = {})
      /\ SoundFor(Kid(n, 2), Args[2]) =>
           /\ SoundFor(Kid(n, 2), body)
           /\ CompleteFor(Kid(n, 2), Args[2]) => CompleteFor(Kid(n, 2), body)
  BY <1>2, <1>5, <1>6, ClosePositiveFacts
<1> HIDE DEF body
<1>8. DOMAIN <<body>> = {1} /\ <<body>>[1] = body
  OBVIOUS
<1>9. p \in Piece
  <2>1. QuantifierVal(n, body) \in SUBSET Env /\ "prop" \in Kinds
    BY DEF Kinds, QuantifierVal
  <2> QED
    BY <1>2, <1>6, <1>7, <1>8, <2>1, HoistType
<1>10. p.closed => NegativeCalls = {}
  BY <1>6, <1>7, <1>8 DEF Hoist, AnyClosed
<1>11. ~r.closed /\ SoundFor(Kid(n, 1), r) /\ SoundFor(Kid(n, 2), body) =>
        /\ SoundFor(n, p)
        /\ CompleteFor(Kid(n, 1), r) /\ CompleteFor(Kid(n, 2), body) /\ ~body.open
           => CompleteFor(n, p)
  BY <1>2, <1>6, <1>7, QuantifierFaithful
<1> HIDE DEF p
<1>12. /\ ~absorbed' => SoundFor(n, p)
       /\ ~absorbed' /\ ~floated' => CompleteFor(n, p)
  BY <1>4, <1>6, <1>7, <1>11
<1>13. floated' \in BOOLEAN /\ absorbed' \in BOOLEAN
  BY <1>2, <1>4, <1>6, <1>7 DEF Piece
<1>14. Answers(p)
  BY <1>2, <1>4, <1>9, <1>10, <1>12, <1>13 DEF Answers, ReturnsPiece
<1> QED
  BY <1>14

LEMMA LambdaAnswers ==
  ASSUME IInv, Lambda
  PROVE  Reject \/ \E p : Answers(p)
<1> DEFINE n == Top.node
           r == Args[1]
           bodies == Tail(Args)
           kind == IF Op[n] = "exists_one" THEN "prop" ELSE "term"
           p == Hoist(n, kind, LambdaVal(n, bodies), r, bodies)
           late == Op[n] = "mapIf" /\ bodies[2].open
<1>1. Handles(Lambdas)
  BY DEF Lambda
<1>2. /\ status = "walking" /\ Op[n] \in Lambdas /\ n \in Node
      /\ Len(Args) = Len(Visit(n)) /\ Op[n] # "conditional"
      /\ Args \in Seq(Piece) /\ Len(Args) \in Nat
      /\ floated \in BOOLEAN /\ absorbed \in BOOLEAN
      /\ AnyClosed(Args) => NegativeCalls = {}
  BY <1>1, HandlerFacts, WalkFacts DEF Lambdas
<1>3. SUFFICES ASSUME Hoistable(bodies)
               PROVE  \E q : Answers(q)
  BY DEF Lambda
<1>4. /\ Return(p) /\ floated' = (floated \/ late)
      /\ absorbed' = (absorbed \/ AnyClosed(Args))
  BY <1>3 DEF Lambda
<1>5. /\ Len(Kids[n]) \in {2, 3} /\ Len(Args) = Len(Kids[n])
      /\ Op[n] = "mapIf" => Len(Kids[n]) = 3
      /\ \A k \in 1 .. Len(Args) : Operand(n, k) = Kid(n, k) /\ Kid(n, k) \in Node
  <2>1. /\ Len(Kids[n]) \in {2, 3} /\ DOMAIN Kids[n] = 1 .. Len(Kids[n])
        /\ Op[n] = "mapIf" => Len(Kids[n]) = 3
    BY <1>2, SyntaxAssumption DEF Lambdas
  <2>2. /\ Len(Visit(n)) = Len(Kids[n])
        /\ \A k \in DOMAIN Kids[n] : Visit(n)[k] = k
        /\ \A k \in 1 .. Len(Visit(n)) : Operand(n, k) \in Node
    BY <1>2, VisitFacts
  <2> QED
    BY <1>2, <2>1, <2>2 DEF Operand
<1>6. \A k \in 1 .. Len(Args) :
        /\ Args[k] \in Piece
        /\ ~absorbed => SoundFor(Kid(n, k), Args[k])
        /\ ~absorbed /\ ~floated => CompleteFor(Kid(n, k), Args[k])
  <2>1. DOMAIN Args = 1 .. Len(Args)
    BY <1>2
  <2> QED
    BY <1>2, <1>5, <2>1, WalkFacts
<1>7. /\ DOMAIN bodies = 1 .. Len(Kids[n]) - 1
      /\ \A k \in DOMAIN bodies : k + 1 \in 1 .. Len(Args) /\ bodies[k] = Args[k + 1]
      /\ Op[n] = "mapIf" => 2 \in DOMAIN bodies
  <2>1. Len(Args) >= 2 /\ Len(Args) = Len(Kids[n])
    BY <1>5
  <2>2. /\ Len(bodies) = Len(Args) - 1
        /\ \A k \in 1 .. Len(Args) - 1 : bodies[k] = Args[k + 1]
    BY <1>2, <2>1
  <2>3. DOMAIN bodies = 1 .. Len(Args) - 1
    BY <1>2, <2>1
  <2>4. Op[n] = "mapIf" => 2 \in 1 .. Len(Args) - 1
    <3>1. Op[n] = "mapIf" => Len(Args) = 3
      BY <1>5
    <3>2. 2 \in 1 .. 3 - 1
      OBVIOUS
    <3> QED
      BY <3>1, <3>2
  <2> HIDE DEF bodies
  <2>5. \A k \in 1 .. Len(Args) - 1 : k + 1 \in 1 .. Len(Args)
    BY <1>2
  <2> QED
    BY <2>1, <2>2, <2>3, <2>4, <2>5
<1>8. 1 \in 1 .. Len(Args) /\ DOMAIN Args = 1 .. Len(Args)
  <2>1. Len(Args) \in {2, 3}
    BY <1>5
  <2>2. DOMAIN Args = 1 .. Len(Args)
    BY <1>2
  <2> QED
    BY <2>1, <2>2
<1> HIDE DEF bodies
<1>9. /\ \A k \in DOMAIN bodies :
           /\ bodies[k] \in Piece
           /\ ~absorbed => SoundFor(Kid(n, k + 1), bodies[k])
           /\ ~absorbed /\ ~floated => CompleteFor(Kid(n, k + 1), bodies[k])
      /\ AnyClosed(Args) <=> r.closed \/ AnyClosed(bodies)
  <2>1. \A j \in 1 .. Len(Args) : j = 1 \/ (j - 1 \in DOMAIN bodies /\ j - 1 + 1 = j)
    BY <1>2, <1>5, <1>7
  <2>2. r.closed \/ AnyClosed(bodies) => AnyClosed(Args)
    BY <1>7, <1>8 DEF AnyClosed
  <2>3. ASSUME AnyClosed(Args)
        PROVE  r.closed \/ AnyClosed(bodies)
    <3>1. PICK j \in 1 .. Len(Args) : Args[j].closed
      BY <1>8, <2>3 DEF AnyClosed
    <3>2. CASE j = 1
      BY <3>1, <3>2
    <3>3. CASE j # 1
      <4>1. j - 1 \in DOMAIN bodies /\ j - 1 + 1 = j
        BY <2>1, <3>3
      <4>2. bodies[j - 1] = Args[j]
        BY <1>7, <4>1
      <4> QED
        BY <3>1, <4>1, <4>2 DEF AnyClosed
    <3> QED
      BY <3>2, <3>3
  <2> QED
    BY <1>6, <1>7, <2>2, <2>3
<1>10. r \in Piece /\ (~absorbed => SoundFor(Kid(n, 1), r))
       /\ (~absorbed /\ ~floated => CompleteFor(Kid(n, 1), r))
  BY <1>6, <1>8
<1>11. p \in Piece
  <2>1. LambdaVal(n, bodies) \in SUBSET Env /\ kind \in Kinds
    BY DEF Kinds, LambdaVal
  <2> QED
    BY <1>2, <1>9, <1>10, <2>1, HoistType
<1>12. p.closed <=> AnyClosed(Args)
  BY <1>9 DEF Hoist
<1>13. ASSUME ~absorbed, ~AnyClosed(Args)
       PROVE  /\ SoundFor(n, p)
              /\ ~floated /\ ~late => CompleteFor(n, p)
  <2>1. /\ n \in Node /\ Op[n] \in Lambdas /\ r \in Piece /\ ~r.closed
        /\ SoundFor(Kid(n, 1), r) /\ ~AnyClosed(bodies)
        /\ DOMAIN bodies = 1 .. Len(Kids[n]) - 1
        /\ \A k \in DOMAIN bodies : bodies[k] \in Piece /\ SoundFor(Kid(n, k + 1), bodies[k])
    BY <1>2, <1>7, <1>9, <1>10, <1>13
  <2>2. /\ SoundFor(n, p)
        /\ /\ CompleteFor(Kid(n, 1), r)
           /\ \A k \in DOMAIN bodies : CompleteFor(Kid(n, k + 1), bodies[k])
           /\ ~late
           => CompleteFor(n, p)
    BY <2>1, LambdaFaithful
  <2> QED
    BY <1>9, <1>10, <1>13, <2>2
<1> HIDE DEF p
<1>14. floated' \in BOOLEAN /\ absorbed' \in BOOLEAN
  <2>1. late \in BOOLEAN
    BY <1>7, <1>9 DEF Piece
  <2>2. AnyClosed(Args) \in BOOLEAN
    BY DEF AnyClosed
  <2> QED
    BY <1>2, <1>4, <2>1, <2>2
<1>15. /\ ~absorbed' => SoundFor(n, p)
       /\ ~absorbed' /\ ~floated' => CompleteFor(n, p)
  BY <1>4, <1>13
<1>16. Answers(p)
  BY <1>2, <1>4, <1>11, <1>12, <1>14, <1>15 DEF Answers, ReturnsPiece
<1> QED
  BY <1>16

-----------------------------------------------------------------------------
(* The theorems. *)

LEMMA NextKeepsInv ==
  ASSUME IInv, [Next]_vars
  PROVE  IInv'
<1>1. CASE Descend
  BY <1>1, DescendKeepsInv
<1>2. CASE Literal
  BY <1>2, LiteralAnswers, AnswerKeepsInv
<1>3. CASE Strict
  BY <1>3, StrictAnswers, AnswerKeepsInv
<1>4. CASE Not
  BY <1>4, NotAnswers, AnswerKeepsInv
<1>5. CASE Equality
  BY <1>5, EqualityAnswers, AnswerKeepsInv
<1>6. CASE LogicalChain
  BY <1>6, LogicalChainAnswers, AnswerKeepsInv
<1>7. CASE ConditionalIdiom
  BY <1>7, ConditionalIdiomAnswers, AnswerKeepsInv
<1>8. CASE ConditionalProp
  BY <1>8, ConditionalPropAnswers, AnswerKeepsInv
<1>9. CASE ConditionalValue
  BY <1>9, ConditionalValueAnswers, AnswerKeepsInv
<1>10. CASE Quantifier
  <2>1. status = "walking"
    BY <1>10 DEF Quantifier, Handles
  <2> QED
    BY <1>10, <2>1, QuantifierAnswers, AnswerKeepsInv, RejectKeepsInv
<1>11. CASE Lambda
  <2>1. status = "walking"
    BY <1>11 DEF Lambda, Handles
  <2> QED
    BY <1>11, <2>1, LambdaAnswers, AnswerKeepsInv, RejectKeepsInv
<1>12. CASE UNCHANGED vars
  <2>1. /\ stack' = stack /\ negDepth' = negDepth /\ status' = status /\ root' = root
        /\ result' = result /\ floated' = floated /\ absorbed' = absorbed
    BY <1>12 DEF vars
  <2>2. Structure'
    <3>1. TypeOK'
      BY <2>1 DEF IInv, Structure, TypeOK
    <3>2. Calls'
      BY <2>1 DEF IInv, Structure, Calls, CallsStarted, CallsBounded, CallsLinked
    <3>3. NegDepthBalanced'
      BY <2>1 DEF IInv, Structure, NegDepthBalanced, NegativeCalls
    <3> QED
      BY <3>1, <3>2, <3>3 DEF Structure
  <2>3. NoClosedGuardUnderNegation'
    BY <2>1 DEF IInv, NoClosedGuardUnderNegation, NegativeCalls
  <2>4. SoundStack' /\ CompleteStack' /\ FaithfulResult'
    BY <2>1 DEF IInv, SoundStack, CompleteStack, FaithfulResult
  <2> QED
    BY <2>2, <2>3, <2>4 DEF IInv
<1> QED
  BY <1>1, <1>2, <1>3, <1>4, <1>5, <1>6, <1>7, <1>8, <1>9, <1>10, <1>11, <1>12 DEF Next

LEMMA Invariance ==
  Spec => []IInv
<1>1. IInv /\ [Next]_vars => IInv'
  BY NextKeepsInv
<1> QED
  BY InitInv, <1>1, PTL DEF Spec

LEMMA ResultFacts ==
  ASSUME IInv
  PROVE  Sound /\ Complete
<1>1. root \in Node /\ Holds[root] \subseteq Env
  BY RootAssumption, EvalFacts DEF IInv, Structure, TypeOK
<1>2. ASSUME status = "done", ~absorbed
      PROVE  /\ result.val \subseteq Env /\ result.def = Env
             /\ \A e \in result.val : e \in Holds[root]
             /\ ~floated => \A e \in Holds[root] : e \in result.val
  BY <1>1, <1>2 DEF IInv, FaithfulResult, SoundFor, CompleteFor, Structure, TypeOK, Piece
<1> QED
  BY <1>2 DEF Sound, Complete

\* The walk's state is well typed: negDepth never goes below zero, and every
\* frame collects fragments of a real operand.
THEOREM TypeCorrect ==
  Spec => []TypeOK
<1>1. IInv => TypeOK
  BY DEF IInv, Structure
<1> QED
  BY Invariance, <1>1, PTL

\* negDepth is the number of enclosing non-monotone operands: every
\* `negDepth++` of not, equality and conditional is undone on every path.
THEOREM NegDepthIsBalanced ==
  Spec => []NegDepthBalanced
<1>1. IInv => NegDepthBalanced
  BY DEF IInv, Structure
<1> QED
  BY Invariance, <1>1, PTL

\* closeGuardsPositive never discharges a guard below a negation.
THEOREM NothingClosedUnderNegation ==
  Spec => []NoClosedGuardUnderNegation
<1>1. IInv => NoClosedGuardUnderNegation
  BY DEF IInv
<1> QED
  BY Invariance, <1>1, PTL

\* A proved proposition was never one on which CEL errs or answers false.
THEOREM TranslationSound ==
  Spec => []Sound
<1>1. IInv => Sound
  BY ResultFacts
<1> QED
  BY Invariance, <1>1, PTL

\* A message that satisfies the CEL rule satisfies the emitted proposition.
THEOREM TranslationComplete ==
  Spec => []Complete
<1>1. IInv => Complete
  BY ResultFacts
<1> QED
  BY Invariance, <1>1, PTL
=============================================================================
