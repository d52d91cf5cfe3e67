-------------------------- MODULE FieldRulesProofs --------------------------
(***************************************************************************)
(* Proofs about FieldRules and RuleViews.  The generated checks of a field *)
(* accept exactly what its declared rules accept, for all rules and all    *)
(* values (first half).  What a custom rule says about descriptors is what *)
(* they say of the values CEL means, for all rules that Depth bounds and   *)
(* all descriptors (second half, by induction on the expression).          *)
(***************************************************************************)
EXTENDS RuleViews, RegexGrammarProofs, FiniteSetTheorems, SequenceTheorems

Holds(R, v) == \A r \in R : CheckHolds(r, v)

-----------------------------------------------------------------------------
(* What the shapes of checks say.                                          *)

LEMMA AllHolds ==
  ASSUME NEW atoms, NEW v
  PROVE  CheckHolds(Check(FALSE, "all", atoms), v) <=> \A a \in atoms : AtomHolds(a, v)
BY DEF CheckHolds, PlainHolds, Check

LEMMA AnyHolds ==
  ASSUME NEW atoms, NEW v
  PROVE  CheckHolds(Check(FALSE, "any", atoms), v) <=> \E a \in atoms : AtomHolds(a, v)
BY DEF CheckHolds, PlainHolds, Check

LEMMA NotAnyHolds ==
  ASSUME NEW atoms, NEW v
  PROVE  CheckHolds(Check(TRUE, "any", atoms), v) <=> ~\E a \in atoms : AtomHolds(a, v)
BY DEF CheckHolds, PlainHolds, Check

LEMMA AtomMeans ==
  ASSUME NEW m, NEW op, NEW b, NEW v
  PROVE  AtomHolds(Atom(m, op, b), v) <=> \E x \in v[m] : Compare(op, x, b)
BY DEF AtomHolds, Atom

LEMMA EqualMeans ==
  ASSUME NEW m, NEW b, NEW v
  PROVE  AtomHolds(Atom(m, "=", b), v) <=> b \in v[m]
BY AtomMeans DEF Compare

LEMMA HoldsBoth ==
  ASSUME NEW R, NEW S, NEW v
  PROVE  Holds(R \cup S, v) <=> Holds(R, v) /\ Holds(S, v)
BY DEF Holds

LEMMA HoldsThree ==
  ASSUME NEW R, NEW S, NEW T, NEW v
  PROVE  Holds(R \cup S \cup T, v) <=> Holds(R, v) /\ Holds(S, v) /\ Holds(T, v)
BY DEF Holds

LEMMA HoldsOne ==
  ASSUME NEW r, NEW v
  PROVE  Holds({r}, v) <=> CheckHolds(r, v)
BY DEF Holds

LEMMA HoldsNone ==
  ASSUME NEW v
  PROVE  Holds({}, v)
BY DEF Holds

LEMMA OneMeans ==
  ASSUME NEW m, NEW op, NEW S, NEW v
  PROVE  Holds(One(m, op, S), v) <=> \A b \in S : \E x \in v[m] : Compare(op, x, b)
<1>1. \A b \in S : CheckHolds(Check(FALSE, "all", {Atom(m, op, b)}), v) <=> AtomHolds(Atom(m, op, b), v)
  BY AllHolds
<1>2. \A b \in S : AtomHolds(Atom(m, op, b), v) <=> \E x \in v[m] : Compare(op, x, b)
  BY AtomMeans
<1>. QED  BY <1>1, <1>2 DEF Holds, One

LEMMA OneEqualMeans ==
  ASSUME NEW m, NEW S, NEW v
  PROVE  Holds(One(m, "=", S), v) <=> S \subseteq v[m]
<1>1. Holds(One(m, "=", S), v) <=> \A b \in S : \E x \in v[m] : Compare("=", x, b)
  BY OneMeans
<1>. QED  BY <1>1 DEF Compare

LEMMA NeverMeans ==
  ASSUME NEW m, NEW v
  PROVE  CheckHolds(Never(m), v) <=> 1 \notin v[m]
<1>1. CheckHolds(Never(m), v) <=> ~\E a \in {Atom(m, "=", 1)} : AtomHolds(a, v)
  BY NotAnyHolds DEF Never
<1>. QED  BY <1>1, EqualMeans

LEMMA ListAtoms ==
  ASSUME NEW S, NEW v
  PROVE  (\E a \in {Atom("self", "=", b) : b \in S} : AtomHolds(a, v)) <=> S \cap v.self # {}
<1>1. \A b \in S : AtomHolds(Atom("self", "=", b), v) <=> b \in v.self
  BY EqualMeans
<1>. QED  BY <1>1

LEMMA InMeans ==
  ASSUME NEW S, NEW v
  PROVE  Holds(InChecks(S), v) <=> MeansIn(S, v)
<1>1. CASE S = {}
  BY <1>1, HoldsNone DEF InChecks, InList, MeansIn
<1>2. CASE S # {}
  <2>. DEFINE atoms == {Atom("self", "=", b) : b \in S}
  <2>1. InChecks(S) = {Check(FALSE, "any", atoms)}
    BY <1>2 DEF InChecks, InList
  <2>2. Holds({Check(FALSE, "any", atoms)}, v) <=> \E a \in atoms : AtomHolds(a, v)
    <3>. HIDE DEF atoms
    <3>. QED  BY HoldsOne, AnyHolds
  <2>. QED  BY <1>2, <2>1, <2>2, ListAtoms DEF MeansIn
<1>. QED  BY <1>1, <1>2

LEMMA NotInMeans ==
  ASSUME NEW S, NEW v
  PROVE  Holds(NotInChecks(S), v) <=> MeansNotIn(S, v)
<1>1. CASE S = {}
  BY <1>1, HoldsNone DEF NotInChecks, InList, MeansNotIn
<1>2. CASE S # {}
  <2>. DEFINE atoms == {Atom("self", "=", b) : b \in S}
  <2>1. NotInChecks(S) = {Check(TRUE, "any", atoms)}
    BY <1>2 DEF NotInChecks, InList
  <2>2. Holds({Check(TRUE, "any", atoms)}, v) <=> ~\E a \in atoms : AtomHolds(a, v)
    <3>. HIDE DEF atoms
    <3>. QED  BY HoldsOne, NotAnyHolds
  <2>. QED  BY <2>1, <2>2, ListAtoms DEF MeansNotIn
<1>. QED  BY <1>1, <1>2

LEMMA ConstMeans ==
  ASSUME NEW S, NEW v
  PROVE  Holds(ConstChecks(S), v) <=> MeansConst(S, v)
BY OneEqualMeans DEF ConstChecks, MeansConst

\* A range whose order says "inside" only when the upper bound is not below
\* the lower one lets everything through that it means; and nothing else, if the
\* order is right in both directions.
LEMMA RangeMeans ==
  ASSUME NEW lt, NEW gt, NEW order, NEW v, AtMostOne(lt), AtMostOne(gt),
         \A l \in lt, g \in gt : order > 0 => g[2] <= l[2]
  PROVE  /\ MeansRange(lt, gt, v) => Holds(RangeChecks(lt, gt, order), v)
         /\ (\A l \in lt, g \in gt : g[2] <= l[2] => order > 0) =>
              (Holds(RangeChecks(lt, gt, order), v) => MeansRange(lt, gt, v))
<1>. DEFINE bound(l) == Atom("self", l[1], l[2])
            bounds == {bound(l) : l \in lt \cup gt}
<1>1. \A l \in lt \cup gt : AtomHolds(bound(l), v) <=> Meets(l, v)
  BY AtomMeans DEF Meets
<1>2. CASE lt = {} \/ gt = {}
  <2>1. RangeChecks(lt, gt, order) = {Check(FALSE, "all", {a}) : a \in bounds}
    BY <1>2 DEF RangeChecks
  <2>2. \A a \in bounds : CheckHolds(Check(FALSE, "all", {a}), v) <=> AtomHolds(a, v)
    BY AllHolds
  <2>3. Holds(RangeChecks(lt, gt, order), v) <=> \A a \in bounds : AtomHolds(a, v)
    BY <2>1, <2>2 DEF Holds
  <2>4. Holds(RangeChecks(lt, gt, order), v) <=> \A l \in lt \cup gt : Meets(l, v)
    BY <2>3, <1>1
  <2>. QED  BY <1>2, <2>4 DEF MeansRange
<1>3. CASE lt # {} /\ gt # {}
  <2>1. PICK l : lt = {l}
    BY <1>3 DEF AtMostOne
  <2>2. PICK g : gt = {g}
    BY <1>3 DEF AtMostOne
  <2>3. RangeChecks(lt, gt, order) = {Check(FALSE, IF order > 0 THEN "all" ELSE "any", bounds)}
    BY <1>3 DEF RangeChecks
  <2>4. bounds = {bound(l), bound(g)}
    BY <2>1, <2>2
  <2>5. MeansRange(lt, gt, v) <=>
          IF g[2] <= l[2] THEN Meets(l, v) /\ Meets(g, v) ELSE Meets(l, v) \/ Meets(g, v)
    BY <1>3, <2>1, <2>2 DEF MeansRange
  <2>. HIDE DEF bounds
  <2>6. CASE order > 0
    <3>1. Holds({Check(FALSE, "all", bounds)}, v) <=> \A a \in bounds : AtomHolds(a, v)
      BY HoldsOne, AllHolds
    <3>2. Holds(RangeChecks(lt, gt, order), v) <=> Meets(l, v) /\ Meets(g, v)
      BY <2>6, <2>3, <2>4, <2>1, <2>2, <1>1, <3>1
    <3>. QED  BY <3>2, <2>5, <2>6, <2>1, <2>2
  <2>7. CASE ~(order > 0)
    <3>1. Holds({Check(FALSE, "any", bounds)}, v) <=> \E a \in bounds : AtomHolds(a, v)
      BY HoldsOne, AnyHolds
    <3>2. Holds(RangeChecks(lt, gt, order), v) <=> Meets(l, v) \/ Meets(g, v)
      BY <2>7, <2>3, <2>4, <2>1, <2>2, <1>1, <3>1
    <3>. QED  BY <3>2, <2>5, <2>7, <2>1, <2>2
  <2>. QED  BY <2>6, <2>7
<1>. QED  BY <1>2, <1>3

-----------------------------------------------------------------------------
(* The order of the bounds of a range.                                     *)

LEMMA NumericOrderIs ==
  ASSUME NEW r, r.kind = "numeric", ProperLeaf(r), NEW l \in r.lt, NEW g \in r.gt
  PROVE  /\ NumericOrder(r) > 0 => g[2] <= l[2]
         /\ ~LeafTouches(r) /\ g[2] <= l[2] => NumericOrder(r) > 0
<1>0. ~LeafTouches(r) => l[2] # g[2]
  BY DEF LeafTouches
<1>1. r.lt = {l} /\ r.gt = {g}
  BY DEF ProperLeaf, ProperRange, AtMostOne
<1>2. BoundIn(r.lt) = l[2] /\ BoundIn(r.gt) = g[2]
  BY <1>1 DEF BoundIn
<1>3. l[2] \in Numbers /\ g[2] \in Numbers
  BY DEF ProperLeaf
<1>4. /\ l[2] \in Int /\ g[2] \in Int
      /\ Round(l[2]) \in Int /\ Round(g[2]) \in Int
      /\ l[2] <= g[2] => Round(l[2]) <= Round(g[2])
      /\ g[2] <= l[2] => Round(g[2]) <= Round(l[2])
  BY <1>3, RoundAssumption
<1>5. CASE r.rep = "int"
  <2>1. NumericOrder(r) = CmpFloat(Round(l[2]), Round(g[2]))
    BY <1>5, <1>2 DEF NumericOrder
  <2>2. ~LeafTouches(r) /\ g[2] <= l[2] => Round(l[2]) # Round(g[2])
    BY <1>0, <1>4, <1>5 DEF LeafTouches
  <2>. QED  BY <2>1, <2>2, <1>4 DEF CmpFloat
<1>6. CASE r.rep # "int"
  <2>1. NumericOrder(r) = CmpFloat(l[2], g[2])
    BY <1>6, <1>2 DEF NumericOrder
  <2>. QED  BY <2>1, <1>0, <1>4 DEF CmpFloat
<1>. QED  BY <1>5, <1>6

LEMMA PairsOrderNanos ==
  ASSUME NEW s, NEW t, ProperTime(s), ProperTime(t)
  PROVE  CmpSecNanos(s, t) > 0 <=> Nanos(t) < Nanos(s)
<1>. USE DEF Second
<1>1. /\ s[1] \in Int /\ s[2] \in Int /\ t[1] \in Int /\ t[2] \in Int
      /\ Nanos(s) \in Int /\ Nanos(t) \in Int
  BY DEF ProperTime, Nanos
<1>2. CASE s[1] < t[1]
  <2>1. Nanos(s) < Nanos(t)
    BY <1>1, <1>2 DEF ProperTime, Nanos
  <2>. QED  BY <1>1, <1>2, <2>1 DEF CmpSecNanos
<1>3. CASE t[1] < s[1]
  <2>1. Nanos(t) < Nanos(s)
    BY <1>1, <1>3 DEF ProperTime, Nanos
  <2>2. s # t
    BY <1>1, <1>3
  <2>. QED  BY <1>1, <1>3, <2>1, <2>2 DEF CmpSecNanos
<1>4. CASE s[1] = t[1]
  <2>1. CASE s[2] < t[2]
    BY <1>1, <1>4, <2>1 DEF CmpSecNanos, Nanos
  <2>2. CASE t[2] < s[2]
    <3>1. s # t
      BY <1>1, <2>2
    <3>. QED  BY <1>1, <1>4, <2>2, <3>1 DEF CmpSecNanos, Nanos
  <2>3. CASE s[2] = t[2]
    <3>1. s = t
      BY <1>4, <2>3 DEF ProperTime
    <3>. QED  BY <1>1, <1>4, <2>3, <3>1 DEF CmpSecNanos
  <2>. QED  BY <1>1, <2>1, <2>2, <2>3
<1>. QED  BY <1>1, <1>2, <1>3, <1>4

LEMMA NanosTellApart ==
  ASSUME NEW s, NEW t, ProperTime(s), ProperTime(t), Nanos(s) = Nanos(t)
  PROVE  s = t
<1>1. s[1] \in Int /\ s[2] \in Int /\ t[1] \in Int /\ t[2] \in Int /\ Nanos(s) \in Int
  BY DEF ProperTime, Nanos, Second
<1>2. ~(CmpSecNanos(s, t) > 0) /\ ~(CmpSecNanos(t, s) > 0)
  BY <1>1, PairsOrderNanos
<1>. QED  BY <1>1, <1>2 DEF CmpSecNanos

-----------------------------------------------------------------------------
(* Leaf rules, kind by kind.  Each lemma says that what the rules mean is  *)
(* accepted and, apart from touching bounds, that nothing else is.         *)

LEMMA NumericMeans ==
  ASSUME NEW r, NEW v, r.kind = "numeric", ProperLeaf(r)
  PROVE  /\ MeansNumeric(r, v) => Holds(LowerNumeric(r), v)
         /\ ~LeafTouches(r) => (Holds(LowerNumeric(r), v) => MeansNumeric(r, v))
<1>. DEFINE finite == IF r.finite THEN {Never("nan"), Never("inf")} ELSE {}
            range == RangeChecks(r.lt, r.gt, NumericOrder(r))
<1>1. Holds(finite, v) <=> (r.finite => 1 \notin v.nan /\ 1 \notin v.inf)
  BY NeverMeans DEF Holds
<1>2. /\ MeansRange(r.lt, r.gt, v) => Holds(range, v)
      /\ ~LeafTouches(r) => (Holds(range, v) => MeansRange(r.lt, r.gt, v))
  <2>1. AtMostOne(r.lt) /\ AtMostOne(r.gt)
    BY DEF ProperLeaf, ProperRange
  <2>2. \A l \in r.lt, g \in r.gt :
          /\ NumericOrder(r) > 0 => g[2] <= l[2]
          /\ ~LeafTouches(r) => (g[2] <= l[2] => NumericOrder(r) > 0)
    BY NumericOrderIs
  <2>. QED  BY <2>1, <2>2, RangeMeans
<1>3. LowerNumeric(r) = ConstChecks(r.const) \cup range \cup InChecks(r.in) \cup NotInChecks(r.notIn) \cup finite
  BY DEF LowerNumeric
<1>. HIDE DEF finite, range
<1>4. Holds(LowerNumeric(r), v) <=>
        /\ Holds(ConstChecks(r.const), v) /\ Holds(range, v) /\ Holds(InChecks(r.in), v)
        /\ Holds(NotInChecks(r.notIn), v) /\ Holds(finite, v)
  BY <1>3 DEF Holds
<1>. QED  BY <1>1, <1>2, <1>4, ConstMeans, InMeans, NotInMeans DEF MeansNumeric

LEMMA TimeRangeMeans ==
  ASSUME NEW r, NEW v, r.kind \in {"timestamp", "duration"}, ProperLeaf(r)
  PROVE  /\ MeansTimeRange(r, v) => Holds(LowerTimeCmp(r), v)
         /\ ~LeafTouches(r) => (Holds(LowerTimeCmp(r), v) => MeansTimeRange(r, v))
<1>. DEFINE lt == AtNanos(r.lt)
            gt == AtNanos(r.gt)
            order == CmpSecNanos(BoundIn(r.lt), BoundIn(r.gt))
<1>1. AtMostOne(r.lt) /\ AtMostOne(r.gt)
  BY DEF ProperLeaf, ProperRange
<1>2. AtMostOne(lt) /\ AtMostOne(gt)
  BY <1>1 DEF AtMostOne, AtNanos
<1>3. ASSUME NEW l \in r.lt, NEW g \in r.gt
      PROVE  /\ order > 0 => Nanos(g[2]) <= Nanos(l[2])
             /\ ~LeafTouches(r) => (Nanos(g[2]) <= Nanos(l[2]) => order > 0)
  <2>1. r.lt = {l} /\ r.gt = {g}
    BY <1>1, <1>3 DEF AtMostOne
  <2>2. BoundIn(r.lt) = l[2] /\ BoundIn(r.gt) = g[2]
    BY <2>1 DEF BoundIn
  <2>3. ProperTime(l[2]) /\ ProperTime(g[2])
    BY DEF ProperLeaf
  <2>4. Nanos(l[2]) \in Int /\ Nanos(g[2]) \in Int
    BY <2>3 DEF ProperTime, Nanos, Second
  <2>5. order > 0 <=> Nanos(g[2]) < Nanos(l[2])
    BY <2>2, <2>3, PairsOrderNanos
  <2>6. ~LeafTouches(r) => l[2] # g[2]
    BY DEF LeafTouches
  <2>7. ~LeafTouches(r) => Nanos(l[2]) # Nanos(g[2])
    BY <2>3, <2>6, NanosTellApart
  <2>. HIDE DEF order
  <2>. QED  BY <2>4, <2>5, <2>7
<1>4. \A l \in lt, g \in gt :
        /\ order > 0 => g[2] <= l[2]
        /\ ~LeafTouches(r) => (g[2] <= l[2] => order > 0)
  <2>1. \A l \in lt : \E k \in r.lt : l[2] = Nanos(k[2])
    BY DEF AtNanos
  <2>2. \A g \in gt : \E k \in r.gt : g[2] = Nanos(k[2])
    BY DEF AtNanos
  <2>. HIDE DEF lt, gt, order
  <2>. QED  BY <2>1, <2>2, <1>3
<1>. HIDE DEF lt, gt, order
<1>5. /\ MeansRange(lt, gt, v) => Holds(RangeChecks(lt, gt, order), v)
      /\ ~LeafTouches(r) => (Holds(RangeChecks(lt, gt, order), v) => MeansRange(lt, gt, v))
  BY <1>2, <1>4, RangeMeans
<1>6. Holds(LowerTimeCmp(r), v) <=>
        Holds(ConstChecks({Nanos(t) : t \in r.const}), v) /\ Holds(RangeChecks(lt, gt, order), v)
  BY HoldsBoth DEF LowerTimeCmp, lt, gt, order
<1>7. MeansTimeRange(r, v) <=> MeansConst({Nanos(t) : t \in r.const}, v) /\ MeansRange(lt, gt, v)
  BY DEF MeansTimeRange, lt, gt
<1>. QED  BY <1>5, <1>6, <1>7, ConstMeans

LEMMA DurationMeans ==
  ASSUME NEW r, NEW v, r.kind = "duration", ProperLeaf(r)
  PROVE  /\ MeansDuration(r, v) => Holds(LowerDuration(r), v)
         /\ ~LeafTouches(r) => (Holds(LowerDuration(r), v) => MeansDuration(r, v))
<1>. DEFINE in == {Nanos(t) : t \in r.in}
            notIn == {Nanos(t) : t \in r.notIn}
<1>1. Holds(LowerDuration(r), v) <=> Holds(LowerTimeCmp(r), v) /\ Holds(InChecks(in), v) /\ Holds(NotInChecks(notIn), v)
  BY HoldsThree DEF LowerDuration
<1>2. MeansDuration(r, v) <=> MeansTimeRange(r, v) /\ MeansIn(in, v) /\ MeansNotIn(notIn, v)
  BY DEF MeansDuration
<1>. HIDE DEF in, notIn
<1>. QED  BY <1>1, <1>2, TimeRangeMeans, InMeans, NotInMeans

LEMMA SizesMean ==
  ASSUME NEW m, NEW S, NEW v
  PROVE  /\ Holds(One(m, ">=", S), v) <=> \A n \in S : \E s \in v[m] : s >= n
         /\ Holds(One(m, "<=", S), v) <=> \A n \in S : \E s \in v[m] : s <= n
<1>1. Holds(One(m, ">=", S), v) <=> \A b \in S : \E x \in v[m] : Compare(">=", x, b)
  BY OneMeans
<1>2. Holds(One(m, "<=", S), v) <=> \A b \in S : \E x \in v[m] : Compare("<=", x, b)
  BY OneMeans
<1>. QED  BY <1>1, <1>2 DEF Compare

LEMMA PartsMean ==
  ASSUME NEW r, NEW v
  PROVE  Holds(Parts(r), v) <=> MeansParts(r, v)
<1>1. Holds(Parts(r), v) <=>
        Holds(One("prefix", "=", r.prefix), v) /\ Holds(One("suffix", "=", r.suffix), v)
          /\ Holds(One("contains", "=", r.contains), v)
  BY HoldsThree DEF Parts
<1>. QED  BY <1>1, OneEqualMeans DEF MeansParts

LEMMA WellKnownMeans ==
  ASSUME NEW S, NEW v
  PROVE  Holds(WellKnown(S), v) <=>
           \A n \in S : IF n = "address" THEN {"hostname", "ip"} \cap v.format # {} ELSE n \in v.format
<1>. DEFINE formats(n) == IF n = "address" THEN {"hostname", "ip"} ELSE {n}
            atoms(n) == {Atom("format", "=", f) : f \in formats(n)}
<1>1. \A n \in S : CheckHolds(Check(FALSE, "any", atoms(n)), v) <=> \E f \in formats(n) : f \in v.format
  <2>1. \A f : AtomHolds(Atom("format", "=", f), v) <=> f \in v.format
    BY EqualMeans
  <2>. HIDE DEF formats
  <2>2. \A n \in S : (\E a \in atoms(n) : AtomHolds(a, v)) <=> \E f \in formats(n) : f \in v.format
    BY <2>1
  <2>. HIDE DEF atoms
  <2>. QED  BY <2>2, AnyHolds
<1>2. Holds(WellKnown(S), v) <=> \A n \in S : CheckHolds(Check(FALSE, "any", atoms(n)), v)
  BY DEF Holds, WellKnown
<1>. QED  BY <1>1, <1>2

LEMMA NotContainsMeans ==
  ASSUME NEW S, NEW v
  PROVE  Holds({Check(TRUE, "any", {Atom("contains", "=", b)}) : b \in S}, v) <=> S \cap v.contains = {}
<1>1. \A b \in S : CheckHolds(Check(TRUE, "any", {Atom("contains", "=", b)}), v) <=> b \notin v.contains
  <2>. TAKE b \in S
  <2>. DEFINE atoms == {Atom("contains", "=", b)}
  <2>1. (\E a \in atoms : AtomHolds(a, v)) <=> b \in v.contains
    BY EqualMeans
  <2>. HIDE DEF atoms
  <2>2. CheckHolds(Check(TRUE, "any", atoms), v) <=> ~\E a \in atoms : AtomHolds(a, v)
    BY NotAnyHolds
  <2>. QED  BY <2>1, <2>2 DEF atoms
<1>. QED  BY <1>1 DEF Holds

LEMMA LengthsMean ==
  ASSUME NEW r, NEW v
  PROVE  /\ Holds(One("size", "=", r.len), v) /\ Holds(One("size", ">=", r.minLen), v)
           /\ Holds(One("size", "<=", r.maxLen), v)
         <=> MeansSizes(r, v)
<1>1. Holds(One("size", "=", r.len), v) <=> \A n \in r.len : n \in v.size
  BY OneEqualMeans
<1>. QED  BY <1>1, SizesMean DEF MeansSizes

LEMMA StringMeans ==
  ASSUME NEW r, NEW v
  PROVE  Holds(LowerString(r), v) <=> MeansString(r, v)
<1>. DEFINE absent == {Check(TRUE, "any", {Atom("contains", "=", b)}) : b \in r.notContains}
            chars == One("size", "=", r.len) \cup One("size", ">=", r.minLen) \cup One("size", "<=", r.maxLen)
            exact == One("bytes", "=", r.lenBytes)
            least == One("bytes", ">=", r.minBytes)
            most == One("bytes", "<=", r.maxBytes)
            matching == One("matches", "=", r.pattern)
<1>1. Holds(StringSizes(r), v) <=>
        MeansSizes(r, v) /\ Holds(exact, v) /\ Holds(least, v) /\ Holds(most, v)
  <2>1. Holds(chars, v) <=> MeansSizes(r, v)
    BY HoldsThree, LengthsMean
  <2>2. StringSizes(r) = chars \cup exact \cup least \cup most
    BY DEF StringSizes
  <2>. HIDE DEF chars, exact, least, most
  <2>3. Holds(chars \cup exact \cup least \cup most, v) <=>
          Holds(chars, v) /\ Holds(exact, v) /\ Holds(least, v) /\ Holds(most, v)
    BY DEF Holds
  <2>. QED  BY <2>1, <2>2, <2>3
<1>2. Holds(exact, v) <=> \A n \in r.lenBytes : n \in v.bytes
  BY OneEqualMeans
<1>3. /\ Holds(least, v) <=> \A n \in r.minBytes : \E s \in v.bytes : s >= n
      /\ Holds(most, v) <=> \A n \in r.maxBytes : \E s \in v.bytes : s <= n
  BY SizesMean
<1>4. Holds(matching, v) <=> r.pattern \subseteq v.matches
  BY OneEqualMeans
<1>5. Holds(absent, v) <=> r.notContains \cap v.contains = {}
  BY NotContainsMeans
<1>6. LowerString(r) = ConstChecks(r.const) \cup StringSizes(r) \cup matching \cup Parts(r) \cup absent
                         \cup InChecks(r.in) \cup NotInChecks(r.notIn) \cup WellKnown(r.wellKnown)
  BY DEF LowerString
<1>. HIDE DEF absent, exact, least, most, matching
<1>7. Holds(LowerString(r), v) <=>
        /\ Holds(ConstChecks(r.const), v) /\ Holds(StringSizes(r), v) /\ Holds(matching, v) /\ Holds(Parts(r), v)
        /\ Holds(absent, v) /\ Holds(InChecks(r.in), v) /\ Holds(NotInChecks(r.notIn), v)
        /\ Holds(WellKnown(r.wellKnown), v)
  BY <1>6 DEF Holds
<1>. QED  BY <1>1, <1>2, <1>3, <1>4, <1>5, <1>7, ConstMeans, PartsMean, InMeans, NotInMeans, WellKnownMeans
          DEF MeansString

LEMMA BytesMeans ==
  ASSUME NEW r, NEW v
  PROVE  Holds(LowerBytes(r), v) <=> MeansBytes(r, v)
<1>. DEFINE exact == One("size", "=", r.len)
            least == One("size", ">=", r.minLen)
            most == One("size", "<=", r.maxLen)
<1>1. LowerBytes(r) = ConstChecks(r.const) \cup exact \cup least \cup most \cup Parts(r)
                        \cup InChecks(r.in) \cup NotInChecks(r.notIn)
  BY DEF LowerBytes
<1>2. Holds(exact, v) /\ Holds(least, v) /\ Holds(most, v) <=> MeansSizes(r, v)
  BY LengthsMean
<1>. HIDE DEF exact, least, most
<1>3. Holds(LowerBytes(r), v) <=>
        /\ Holds(ConstChecks(r.const), v) /\ Holds(exact, v) /\ Holds(least, v) /\ Holds(most, v)
        /\ Holds(Parts(r), v) /\ Holds(InChecks(r.in), v) /\ Holds(NotInChecks(r.notIn), v)
  BY <1>1 DEF Holds
<1>. QED  BY <1>2, <1>3, ConstMeans, PartsMean, InMeans, NotInMeans DEF MeansBytes

LEMMA EnumMeans ==
  ASSUME NEW r, NEW v
  PROVE  Holds(LowerEnum(r), v) <=> MeansEnum(r, v)
<1>. DEFINE defined == IF r.definedOnly THEN {Never("unknown")} ELSE {}
<1>1. Holds(defined, v) <=> (r.definedOnly => 1 \notin v.unknown)
  BY NeverMeans DEF Holds
<1>2. LowerEnum(r) = ConstChecks(r.const) \cup defined \cup InChecks(r.in) \cup NotInChecks(r.notIn)
  BY DEF LowerEnum
<1>. HIDE DEF defined
<1>3. Holds(LowerEnum(r), v) <=>
        /\ Holds(ConstChecks(r.const), v) /\ Holds(defined, v) /\ Holds(InChecks(r.in), v)
        /\ Holds(NotInChecks(r.notIn), v)
  BY <1>2 DEF Holds
<1>. QED  BY <1>1, <1>3, ConstMeans, InMeans, NotInMeans DEF MeansEnum

LEMMA LeafMeans ==
  ASSUME NEW r, NEW v, ProperLeaf(r)
  PROVE  /\ MeansLeaf(r, v) => Holds(LeafChecks(r), v)
         /\ ~LeafTouches(r) => (Holds(LeafChecks(r), v) => MeansLeaf(r, v))
<1>1. CASE r.kind = "numeric"
  <2>1. LeafChecks(r) = LowerNumeric(r) /\ (MeansLeaf(r, v) <=> MeansNumeric(r, v))
    BY <1>1 DEF LeafChecks, MeansLeaf
  <2>. QED  BY <1>1, <2>1, NumericMeans
<1>2. CASE r.kind = "timestamp"
  <2>1. LeafChecks(r) = LowerTimeCmp(r) /\ (MeansLeaf(r, v) <=> MeansTimeRange(r, v))
    BY <1>2 DEF LeafChecks, MeansLeaf, LowerTimestamp
  <2>. QED  BY <1>2, <2>1, TimeRangeMeans
<1>3. CASE r.kind = "duration"
  <2>1. LeafChecks(r) = LowerDuration(r) /\ (MeansLeaf(r, v) <=> MeansDuration(r, v))
    BY <1>3 DEF LeafChecks, MeansLeaf
  <2>. QED  BY <1>3, <2>1, DurationMeans
<1>4. CASE r.kind = "string"
  <2>1. LeafChecks(r) = LowerString(r) /\ (MeansLeaf(r, v) <=> MeansString(r, v))
    BY <1>4 DEF LeafChecks, MeansLeaf
  <2>. QED  BY <2>1, StringMeans
<1>5. CASE r.kind = "bytes"
  <2>1. LeafChecks(r) = LowerBytes(r) /\ (MeansLeaf(r, v) <=> MeansBytes(r, v))
    BY <1>5 DEF LeafChecks, MeansLeaf
  <2>. QED  BY <2>1, BytesMeans
<1>6. CASE r.kind = "bool"
  <2>1. LeafChecks(r) = ConstChecks(r.const) /\ (MeansLeaf(r, v) <=> MeansConst(r.const, v))
    BY <1>6 DEF LeafChecks, MeansLeaf, LowerBool
  <2>. QED  BY <2>1, ConstMeans
<1>7. CASE r.kind = "enum"
  <2>1. LeafChecks(r) = LowerEnum(r) /\ (MeansLeaf(r, v) <=> MeansEnum(r, v))
    BY <1>7 DEF LeafChecks, MeansLeaf
  <2>. QED  BY <2>1, EnumMeans
<1>8. CASE r.kind \notin {"numeric", "timestamp", "duration", "string", "bytes", "bool", "enum"}
  <2>1. LeafChecks(r) = {} /\ (MeansLeaf(r, v) <=> TRUE)
    BY <1>8 DEF LeafChecks, MeansLeaf
  <2>. QED  BY <2>1, HoldsNone
<1>. QED  BY <1>1, <1>2, <1>3, <1>4, <1>5, <1>6, <1>7, <1>8

-----------------------------------------------------------------------------
(* Elements, containers and whole fields.                                  *)

LEMMA CustomMeans ==
  ASSUME NEW n, NEW v
  PROVE  CheckHolds(Custom(n), v) <=> n \in v.cel
<1>. DEFINE atoms == {Atom("cel", "=", n)}
<1>1. (\A a \in atoms : AtomHolds(a, v)) <=> n \in v.cel
  BY EqualMeans
<1>2. Custom(n) = Check(FALSE, "all", atoms)
  BY DEF Custom
<1>. HIDE DEF atoms
<1>. QED  BY <1>1, <1>2, AllHolds

LEMMA CustomsMean ==
  ASSUME NEW S, NEW v
  PROVE  Holds({Custom(n) : n \in S}, v) <=> S \subseteq v.cel
BY CustomMeans DEF Holds

\* The checks of a single value are not quantified.
LEMMA LeafIsPlain ==
  ASSUME NEW r, NEW c \in LeafChecks(r)
  PROVE  c.over = "this"
<1>1. \A neg, join, atoms : Check(neg, join, atoms).over = "this"
  BY DEF Check
<1>2. \A m, op, S : \A x \in One(m, op, S) : x.over = "this"
  BY <1>1 DEF One
<1>3. \A m : Never(m).over = "this"
  BY <1>1 DEF Never
<1>4. \A S : \A x \in InChecks(S) \cup NotInChecks(S) \cup ConstChecks(S) : x.over = "this"
  BY <1>1, <1>2 DEF InChecks, NotInChecks, InList, ConstChecks
<1>5. \A lt, gt, order : \A x \in RangeChecks(lt, gt, order) : x.over = "this"
  BY <1>1 DEF RangeChecks
<1>6. \A x \in LowerNumeric(r) : x.over = "this"
  BY <1>3, <1>4, <1>5 DEF LowerNumeric
<1>7. \A x \in LowerTimeCmp(r) : x.over = "this"
  BY <1>4, <1>5 DEF LowerTimeCmp
<1>8. \A x \in LowerDuration(r) : x.over = "this"
  BY <1>4, <1>7 DEF LowerDuration
<1>9. \A x \in LowerString(r) : x.over = "this"
  <2>1. \A x \in StringSizes(r) \cup Parts(r) : x.over = "this"
    BY <1>2 DEF StringSizes, Parts
  <2>2. \A x \in WellKnown(r.wellKnown) : x.over = "this"
    BY <1>1 DEF WellKnown
  <2>3. \A x \in {Check(TRUE, "any", {Atom("contains", "=", b)}) : b \in r.notContains} : x.over = "this"
    BY <1>1
  <2>4. \A x \in One("matches", "=", r.pattern) : x.over = "this"
    BY <1>2
  <2>. QED  BY <1>4, <2>1, <2>2, <2>3, <2>4 DEF LowerString
<1>10. \A x \in LowerBytes(r) : x.over = "this"
  BY <1>2, <1>4 DEF LowerBytes, Parts
<1>11. \A x \in LowerEnum(r) \cup LowerBool(r) \cup LowerTimestamp(r) : x.over = "this"
  BY <1>3, <1>4, <1>7 DEF LowerEnum, LowerBool, LowerTimestamp
<1>. QED  BY <1>6, <1>8, <1>9, <1>10, <1>11 DEF LeafChecks

LEMMA ItemMeans ==
  ASSUME NEW e, NEW w, ProperLeaf(e.std)
  PROVE  LET plain == \A c \in LowerItemRules(e) : PlainHolds(c, w)
             means == MeansLeaf(e.std, w) /\ e.cel \subseteq w.cel
         IN  /\ means => plain
             /\ ~LeafTouches(e.std) => (plain => means)
<1>. DEFINE customs == {Custom(n) : n \in e.cel}
<1>1. LowerItemRules(e) = LeafChecks(e.std) \cup customs
  BY DEF LowerItemRules
<1>2. \A c \in customs : c.over = "this"
  BY DEF Custom, Check
<1>3. Holds(customs, w) <=> e.cel \subseteq w.cel
  BY CustomsMean
<1>. HIDE DEF customs
<1>4. (\A c \in LowerItemRules(e) : PlainHolds(c, w)) <=> Holds(LeafChecks(e.std), w) /\ Holds(customs, w)
  BY <1>1, <1>2, LeafIsPlain DEF Holds, CheckHolds
<1>. QED  BY <1>3, <1>4, LeafMeans

LEMMA QuantifiedHolds ==
  ASSUME NEW over \in {"elems", "keys", "values"}, NEW E, NEW v
  PROVE  Holds(Quantified(over, E), v) <=>
           \A e \in E, w \in v[over] : \A c \in LowerItemRules(e) : PlainHolds(c, w)
<1>1. \A e \in E : CheckHolds([over |-> over, inner |-> LowerItemRules(e)], v) <=>
                     \A w \in v[over] : \A c \in LowerItemRules(e) : PlainHolds(c, w)
  BY DEF CheckHolds
<1>. QED  BY <1>1 DEF Holds, Quantified

LEMMA EachMeans ==
  ASSUME NEW over \in {"elems", "keys", "values"}, NEW E, NEW v, \A e \in E : ProperLeaf(e.std)
  PROVE  /\ (\A e \in E : e.ignore = "unspecified") =>
              (MeansEach(E, v[over]) => Holds(Quantified(over, E), v))
         /\ (\A e \in E : ~LeafTouches(e.std)) =>
              (Holds(Quantified(over, E), v) => MeansEach(E, v[over]))
<1>. DEFINE plain(e, w) == \A c \in LowerItemRules(e) : PlainHolds(c, w)
<1>1. Holds(Quantified(over, E), v) <=> \A e \in E, w \in v[over] : plain(e, w)
  BY QuantifiedHolds
<1>2. \A e \in E, w \in v[over] :
        /\ MeansLeaf(e.std, w) /\ e.cel \subseteq w.cel => plain(e, w)
        /\ ~LeafTouches(e.std) => (plain(e, w) => MeansLeaf(e.std, w) /\ e.cel \subseteq w.cel)
  BY ItemMeans
<1>. HIDE DEF plain
<1>. QED  BY <1>1, <1>2 DEF MeansEach, MeansElement, Excused

LEMMA ListMeans ==
  ASSUME NEW r, NEW v, \A e \in r.items : ProperLeaf(e.std)
  PROVE  LET means == /\ MeansCount(r.minItems, r.maxItems, v) /\ MeansEach(r.items, v.elems)
                      /\ r.unique => 1 \in v.unique
         IN  /\ (\A e \in r.items : e.ignore = "unspecified") => (means => Holds(LowerRepeated(r), v))
             /\ (\A e \in r.items : ~LeafTouches(e.std)) => (Holds(LowerRepeated(r), v) => means)
<1>. DEFINE least == One("size", ">=", r.minItems)
            most == One("size", "<=", r.maxItems)
            distinct == {Atom("unique", "=", 1)}
            unique == IF r.unique THEN {Check(FALSE, "all", distinct)} ELSE {}
            each == Quantified("elems", r.items)
<1>1. Holds(least, v) /\ Holds(most, v) <=> MeansCount(r.minItems, r.maxItems, v)
  BY SizesMean DEF MeansCount
<1>2. Holds(unique, v) <=> (r.unique => 1 \in v.unique)
  <2>1. (\A a \in distinct : AtomHolds(a, v)) <=> 1 \in v.unique
    BY EqualMeans
  <2>. HIDE DEF distinct
  <2>. QED  BY <2>1, AllHolds DEF Holds
<1>3. /\ (\A e \in r.items : e.ignore = "unspecified") => (MeansEach(r.items, v.elems) => Holds(each, v))
      /\ (\A e \in r.items : ~LeafTouches(e.std)) => (Holds(each, v) => MeansEach(r.items, v.elems))
  <2>1. v.elems = v["elems"]
    OBVIOUS
  <2>. QED  BY <2>1, EachMeans
<1>4. LowerRepeated(r) = least \cup most \cup unique \cup each
  BY DEF LowerRepeated
<1>. HIDE DEF least, most, distinct, unique, each
<1>5. Holds(LowerRepeated(r), v) <=> Holds(least, v) /\ Holds(most, v) /\ Holds(unique, v) /\ Holds(each, v)
  BY <1>4 DEF Holds
<1>. QED  BY <1>1, <1>2, <1>3, <1>5

LEMMA MapMeans ==
  ASSUME NEW r, NEW v, \A e \in r.keys \cup r.values : ProperLeaf(e.std)
  PROVE  LET means == /\ MeansCount(r.minPairs, r.maxPairs, v)
                      /\ MeansEach(r.keys, v.keys) /\ MeansEach(r.values, v.values)
         IN  /\ (\A e \in r.keys \cup r.values : e.ignore = "unspecified") => (means => Holds(LowerMap(r), v))
             /\ (\A e \in r.keys \cup r.values : ~LeafTouches(e.std)) => (Holds(LowerMap(r), v) => means)
<1>. DEFINE least == One("size", ">=", r.minPairs)
            most == One("size", "<=", r.maxPairs)
            keys == Quantified("keys", r.keys)
            values == Quantified("values", r.values)
<1>1. Holds(least, v) /\ Holds(most, v) <=> MeansCount(r.minPairs, r.maxPairs, v)
  BY SizesMean DEF MeansCount
<1>2. /\ (\A e \in r.keys : e.ignore = "unspecified") => (MeansEach(r.keys, v["keys"]) => Holds(keys, v))
      /\ (\A e \in r.keys : ~LeafTouches(e.std)) => (Holds(keys, v) => MeansEach(r.keys, v["keys"]))
  BY EachMeans
<1>3. /\ (\A e \in r.values : e.ignore = "unspecified") => (MeansEach(r.values, v["values"]) => Holds(values, v))
      /\ (\A e \in r.values : ~LeafTouches(e.std)) => (Holds(values, v) => MeansEach(r.values, v["values"]))
  BY EachMeans
<1>4. LowerMap(r) = least \cup most \cup keys \cup values
  BY DEF LowerMap
<1>. HIDE DEF least, most, keys, values
<1>5. Holds(LowerMap(r), v) <=> Holds(least, v) /\ Holds(most, v) /\ Holds(keys, v) /\ Holds(values, v)
  BY <1>4 DEF Holds
<1>. QED  BY <1>1, <1>2, <1>3, <1>5

LEMMA StandardMeans ==
  ASSUME NEW d \in Decls, NEW v
  PROVE  /\ ~IgnoresElements(d.std) => (MeansStandard(d.std, v) => Holds(LowerStandard(d.std), v))
         /\ ~Touches(d.std) => (Holds(LowerStandard(d.std), v) => MeansStandard(d.std, v))
<1>. DEFINE r == d.std
<1>1. ProperLeaf(r) /\ \A e \in Elements(r) : ProperLeaf(e.std)
  BY DeclAssumption
<1>2. CASE r.kind = "list"
  <2>1. Elements(r) = r.items /\ LowerStandard(r) = LowerRepeated(r)
    BY <1>2 DEF Elements, LowerStandard
  <2>2. MeansStandard(r, v) <=>
          /\ MeansCount(r.minItems, r.maxItems, v) /\ MeansEach(r.items, v.elems)
          /\ r.unique => 1 \in v.unique
    BY <1>2 DEF MeansStandard
  <2>. QED  BY <1>1, <2>1, <2>2, ListMeans DEF IgnoresElements, Touches
<1>3. CASE r.kind = "map"
  <2>1. Elements(r) = r.keys \cup r.values /\ LowerStandard(r) = LowerMap(r)
    BY <1>3 DEF Elements, LowerStandard
  <2>2. MeansStandard(r, v) <=>
          /\ MeansCount(r.minPairs, r.maxPairs, v)
          /\ MeansEach(r.keys, v.keys) /\ MeansEach(r.values, v.values)
    BY <1>3 DEF MeansStandard
  <2>. QED  BY <1>1, <2>1, <2>2, MapMeans DEF IgnoresElements, Touches
<1>4. CASE r.kind \notin {"list", "map"}
  <2>1. LowerStandard(r) = LeafChecks(r) /\ (MeansStandard(r, v) <=> MeansLeaf(r, v))
    BY <1>4 DEF LowerStandard, MeansStandard
  <2>. QED  BY <1>1, <2>1, LeafMeans DEF Touches
<1>. QED  BY <1>2, <1>3, <1>4

-----------------------------------------------------------------------------
(* The stages.                                                             *)

AllAttrs == {PathAttrs(d, n).attrs : d \in Decls, n \in Nat}
Customs(n) == {Custom(i) : i \in 1 .. n - 1}

\* What lowering leaves is known at every stage: nothing for a field that is
\* ignored, else its standard rules and the custom rules before `next`.
SetIsLowered ==
  set = [rules |-> LowerStandard(decl.std) \cup Customs(next), required |-> decl.required,
         ignoreZero |-> decl.ignore = "if zero"]

StageInv ==
  /\ decl \in Decls /\ phase \in Phases
  /\ next \in 1 .. Len(decl.cel) + 1
  /\ attrs \in Seq(AllAttrs) /\ Len(attrs) = next - 1
  /\ phase \in {"standard", "bad standard rule"} => set = NoRules /\ next = 1
  /\ phase \notin {"standard", "bad standard rule"} =>
       IF decl.ignore = "always" THEN set = NoRules ELSE SetIsLowered
  /\ phase = "custom" => decl.ignore # "always"
  /\ phase \in {"rendering", "generated", "built"} /\ decl.ignore # "always" => next = Len(decl.cel) + 1

LEMMA InitStage == Init => StageInv
BY DeclAssumption DEF Init, StageInv, Phases

LEMMA NoCustoms == Customs(1) = {}
<1>1. \A i \in 1 .. 1 - 1 : FALSE
  OBVIOUS
<1>. QED  BY <1>1 DEF Customs

LEMMA InRange ==
  ASSUME NEW n \in Nat, NEW i \in 1 .. n + 1
  PROVE  i \in Nat
OBVIOUS

LEMMA AttrsInAll ==
  ASSUME NEW d \in Decls, NEW n \in Nat
  PROVE  PathAttrs(d, n).attrs \in AllAttrs
<1>1. \E e \in Decls, k \in Nat : PathAttrs(d, n).attrs = PathAttrs(e, k).attrs
  BY Zenon
<1>. QED  BY <1>1 DEF AllAttrs

LEMMA NextStage == StageInv /\ [Next]_vars => StageInv'
<1>. SUFFICES ASSUME StageInv, [Next]_vars PROVE StageInv'
  OBVIOUS
<1>. USE DEF StageInv
<1>0. Len(decl.cel) \in Nat
  BY DeclAssumption
<1>8. next \in 1 .. Len(decl.cel) + 1
  OBVIOUS
<1>9. next \in Nat
  BY <1>0, <1>8, InRange
<1>1. CASE IgnoreField
  BY <1>1, <1>0 DEF IgnoreField, Phases
<1>2. CASE LowerStandardRules
  <2>4. /\ phase = "standard" /\ decl.ignore # "always"
        /\ decl' = decl /\ next' = next /\ attrs' = attrs
    BY <1>2 DEF LowerStandardRules
  <2>5. set = NoRules /\ next = 1 /\ Len(attrs) = 0
    BY <2>4
  <2>2. CASE StandardFails(decl.std, decl.type, decl.re2)
    <3>1. phase' = "bad standard rule" /\ set' = set
      BY <1>2, <2>2 DEF LowerStandardRules
    <3>. QED  BY <2>4, <2>5, <3>1, <1>0 DEF Phases, Rejections
  <2>3. CASE ~StandardFails(decl.std, decl.type, decl.re2)
    <3>1. phase' = "custom" /\ set' = [rules |-> LowerStandard(decl.std), required |-> decl.required,
                                       ignoreZero |-> decl.ignore = "if zero"]
      BY <1>2, <2>3 DEF LowerStandardRules
    <3>2. SetIsLowered'
      BY NoCustoms, <2>4, <2>5, <3>1 DEF SetIsLowered
    <3>. QED  BY <2>4, <2>5, <3>1, <3>2, <1>0 DEF Phases
  <2>. QED  BY <2>2, <2>3
<1>3. CASE LowerCustomRule
  <2>. DEFINE a == PathAttrs(decl, next)
  <2>1. SetIsLowered
    BY <1>3 DEF LowerCustomRule
  <2>2. CASE a.ok
    <3>1. /\ next' = next + 1 /\ attrs' = Append(attrs, a.attrs) /\ decl' = decl /\ phase' = "custom"
          /\ set' = [set EXCEPT !.rules = @ \cup {Custom(next)}] /\ next <= Len(decl.cel)
          /\ decl.ignore # "always" /\ phase = "custom"
      BY <1>3, <2>2 DEF LowerCustomRule
    <3>2. a.attrs \in AllAttrs
      BY <1>9, AttrsInAll
    <3>3. attrs' \in Seq(AllAttrs) /\ Len(attrs') = next' - 1
      BY <3>1, <3>2, <1>0
    <3>4. Customs(next') = Customs(next) \cup {Custom(next)}
      <4>1. 1 .. next' - 1 = (1 .. next - 1) \cup {next}
        BY <3>1, <1>0
      <4>. QED  BY <4>1 DEF Customs
    <3>5. SetIsLowered'
      BY <2>1, <3>1, <3>4 DEF SetIsLowered
    <3>. QED  BY <1>0, <3>1, <3>3, <3>5 DEF Phases
  <2>3. CASE ~a.ok
    <3>1. /\ phase' = "bad path" /\ set' = set /\ next' = next /\ attrs' = attrs /\ decl' = decl
          /\ decl.ignore # "always"
      BY <1>3, <2>3 DEF LowerCustomRule
    <3>. QED  BY <2>1, <3>1 DEF Phases, Rejections, SetIsLowered
  <2>. QED  BY <2>2, <2>3
<1>4. CASE CustomRulesDone
  <2>1. /\ phase = "custom" /\ phase' = "rendering" /\ next > Len(decl.cel)
        /\ decl' = decl /\ set' = set /\ next' = next /\ attrs' = attrs
    BY <1>4 DEF CustomRulesDone
  <2>2. decl.ignore # "always" /\ SetIsLowered /\ next = Len(decl.cel) + 1
    BY <2>1, <1>0
  <2>. QED  BY <2>1, <2>2 DEF Phases, SetIsLowered
<1>5. CASE Render
  BY <1>5 DEF Render, Phases, Rejections, SetIsLowered
<1>6. CASE Build
  BY <1>6 DEF Build, Phases, SetIsLowered
<1>7. CASE UNCHANGED vars
  BY <1>7 DEF vars, SetIsLowered
<1>. QED  BY <1>1, <1>2, <1>3, <1>4, <1>5, <1>6, <1>7 DEF Next

\* What StageInv says of the lowering so far, in every reachable state.
THEOREM Staged == Spec => []StageInv
<1>1. StageInv /\ UNCHANGED vars => StageInv'
  BY NextStage
<1>. QED  BY InitStage, NextStage, <1>1, PTL DEF Spec

-----------------------------------------------------------------------------
(* The theorems.                                                           *)

LEMMA CustomOver ==
  ASSUME NEW n
  PROVE  Custom(n).over = "this"
BY DEF Custom, Check

\* No lowered check is about anything but the value and its parts.
LEMMA LoweredOver ==
  ASSUME NEW r, NEW c \in LowerStandard(r)
  PROVE  c.over \in {"this", "elems", "keys", "values"}
<1>1. \A m, op, S : \A x \in One(m, op, S) : x.over = "this"
  BY DEF One, Check
<1>2. Check(FALSE, "all", {Atom("unique", "=", 1)}).over = "this"
  BY DEF Check
<1>3. \A over, E : \A x \in Quantified(over, E) : x.over = over
  BY DEF Quantified
<1>4. \A x \in LowerRepeated(r) : x.over \in {"this", "elems"}
  BY <1>1, <1>2, <1>3 DEF LowerRepeated
<1>5. \A x \in LowerMap(r) : x.over \in {"this", "keys", "values"}
  BY <1>1, <1>3 DEF LowerMap
<1>6. \A x \in LeafChecks(r) : x.over = "this"
  BY LeafIsPlain
<1>. QED  BY <1>4, <1>5, <1>6 DEF LowerStandard

\* Type correctness: the lowering keeps one attribute set per custom rule
\* lowered, and only checks on the value or on its parts.
THEOREM TypeCorrect == Spec => []TypeOK
<1>1. StageInv => TypeOK
  <2>. SUFFICES ASSUME StageInv PROVE TypeOK
    OBVIOUS
  <2>1. \A c \in Customs(next) : c.over = "this"
    BY CustomOver DEF Customs
  <2>2. CASE set = NoRules
    BY <2>2 DEF StageInv, TypeOK, NoRules
  <2>3. CASE SetIsLowered
    <3>1. decl.required \in BOOLEAN
      BY DeclAssumption DEF StageInv
    <3>. QED  BY <2>1, <2>3, <3>1, LoweredOver DEF StageInv, TypeOK, SetIsLowered
  <2>. QED  BY <2>2, <2>3 DEF StageInv
<1>. QED  BY Staged, <1>1, PTL

\* In a file that builds, the checks of a field are the lowered rules.
LEMMA AcceptedIs ==
  ASSUME StageInv, phase = "built", NEW v
  PROVE  Accepted(set, v) <=>
           Excused(decl, v) \/ (Holds(LowerStandard(decl.std), v) /\ \A n \in 1 .. Len(decl.cel) : n \in v.cel)
<1>1. CASE decl.ignore = "always"
  BY <1>1 DEF StageInv, Accepted, Excused, NoRules
<1>2. CASE decl.ignore # "always"
  <2>. DEFINE customs == {Custom(n) : n \in 1 .. Len(decl.cel)}
  <2>1. Len(decl.cel) \in Nat
    BY DeclAssumption DEF StageInv
  <2>2. SetIsLowered /\ next = Len(decl.cel) + 1
    BY <1>2 DEF StageInv
  <2>3. next - 1 = Len(decl.cel)
    BY <2>1, <2>2
  <2>4. Customs(next) = customs
    BY <2>3 DEF Customs
  <2>5. Holds(customs, v) <=> \A n \in 1 .. Len(decl.cel) : n \in v.cel
    BY CustomsMean
  <2>. HIDE DEF customs
  <2>6. (\A r \in set.rules : CheckHolds(r, v)) <=> Holds(LowerStandard(decl.std), v) /\ Holds(customs, v)
    BY <2>2, <2>4 DEF SetIsLowered, Holds
  <2>7. set.ignoreZero <=> decl.ignore = "if zero"
    BY <2>2 DEF SetIsLowered
  <2>. QED  BY <1>2, <2>5, <2>6, <2>7 DEF Accepted, Excused
<1>. QED  BY <1>1, <1>2

\* The generated field type has no value that the declared rules refuse,
\* whatever the rules and the values are, unless the lowering takes two
\* bounds to be equal.
THEOREM OnlyDeclaredAccepted == Spec => []AcceptsOnlyDeclared
<1>1. StageInv => AcceptsOnlyDeclared
  <2>. SUFFICES ASSUME StageInv, phase = "built", ~Touches(decl.std),
                       NEW v \in ValuesOf(decl), Accepted(set, v)
                PROVE  Declared(decl, v)
    BY DEF AcceptsOnlyDeclared
  <2>1. Holds(LowerStandard(decl.std), v) => MeansStandard(decl.std, v)
    BY StandardMeans DEF StageInv
  <2>. QED  BY <2>1, AcceptedIs DEF Declared
<1>. QED  BY Staged, <1>1, PTL

\* The exception is needed: when all that is declared of a number is that it
\* is at most and at least the same bound, lowerNumeric emits a disjunction
\* (standard.go:618-620), and every number passes.
THEOREM EqualBoundsRefuseNothing ==
  ASSUME NEW r, NEW b \in Numbers, ProperLeaf(r), r.kind = "numeric",
         r.lt = {<<"<=", b>>}, r.gt = {<<">=", b>>},
         r.const = {}, r.in = {}, r.notIn = {}, ~r.finite,
         NEW v, NEW x \in v.self, x \in Int
  PROVE  Holds(LowerNumeric(r), v)
<1>. DEFINE atoms == {Atom("self", l[1], l[2]) : l \in r.lt \cup r.gt}
            range == RangeChecks(r.lt, r.gt, NumericOrder(r))
<1>1. b \in Int /\ Round(b) \in Int
  BY RoundAssumption
<1>2. BoundIn(r.lt) = b /\ BoundIn(r.gt) = b
  <2>1. ASSUME NEW y PROVE (CHOOSE l \in {y} : TRUE) = y
    OBVIOUS
  <2>2. (CHOOSE l \in r.lt : TRUE) = <<"<=", b>> /\ (CHOOSE l \in r.gt : TRUE) = <<">=", b>>
    BY <2>1
  <2>. QED  BY <2>2 DEF BoundIn
<1>3. ~(NumericOrder(r) > 0)
  BY <1>1, <1>2 DEF NumericOrder, CmpFloat
<1>4. range = {Check(FALSE, "any", atoms)}
  BY <1>3 DEF RangeChecks
<1>5. Atom("self", "<=", b) \in atoms /\ Atom("self", ">=", b) \in atoms
  OBVIOUS
<1>6. \E l \in r.lt \cup r.gt : Compare(l[1], x, l[2])
  BY <1>1 DEF Compare
<1>7. \E a \in atoms : AtomHolds(a, v)
  BY <1>6, AtomMeans
<1>. HIDE DEF atoms
<1>8. Holds({Check(FALSE, "any", atoms)}, v)
  BY <1>7, HoldsOne, AnyHolds
<1>9. LowerNumeric(r) = range
  BY DEF LowerNumeric, ConstChecks, One, InChecks, NotInChecks, InList
<1>. QED  BY <1>4, <1>8, <1>9

\* It has every value that the declared rules accept, unless rules of
\* elements ask for something to be ignored.
THEOREM AllDeclaredAccepted == Spec => []AcceptsAllDeclared
<1>1. StageInv => AcceptsAllDeclared
  <2>. SUFFICES ASSUME StageInv, phase = "built", ~IgnoresElements(decl.std),
                       NEW v \in ValuesOf(decl), Declared(decl, v)
                PROVE  Accepted(set, v)
    BY DEF AcceptsAllDeclared
  <2>1. MeansStandard(decl.std, v) => Holds(LowerStandard(decl.std), v)
    BY StandardMeans DEF StageInv
  <2>. QED  BY <2>1, AcceptedIs DEF Declared
<1>. QED  BY Staged, <1>1, PTL

-----------------------------------------------------------------------------
(* The gate for patterns.                                                  *)

\* Plain checks whose patterns are texts.
Texts(R) == \A c \in R : c.over = "this" /\ \A a \in c.atoms : a[1] = "matches" => a[3] \in Seq(STRING)

LEMMA AtomTexts ==
  ASSUME NEW m, NEW op, NEW b, m # "matches"
  PROVE  Atom(m, op, b)[1] # "matches"
BY DEF Atom

LEMMA OneTexts ==
  ASSUME NEW m, NEW op, NEW S, m # "matches" \/ S \subseteq Seq(STRING)
  PROVE  Texts(One(m, op, S))
<1>1. \A b \in S : LET c == Check(FALSE, "all", {Atom(m, op, b)})
                   IN  c.over = "this" /\ c.atoms = {Atom(m, op, b)}
  BY DEF Check
<1>2. \A b \in S : Atom(m, op, b)[1] = "matches" => Atom(m, op, b)[3] \in Seq(STRING)
  BY DEF Atom
<1>. QED  BY <1>1, <1>2 DEF Texts, One

LEMMA ListTexts ==
  ASSUME NEW neg, NEW S
  PROVE  Texts(InList(neg, S))
<1>1. \A b \in S : Atom("self", "=", b)[1] # "matches"
  BY DEF Atom
<1>. QED  BY <1>1 DEF Texts, InList, Check

LEMMA NeverTexts ==
  ASSUME NEW m, m # "matches"
  PROVE  Texts({Never(m)})
BY AtomTexts DEF Texts, Never, Check

LEMMA RangeTexts ==
  ASSUME NEW lt, NEW gt, NEW order
  PROVE  Texts(RangeChecks(lt, gt, order))
<1>. DEFINE bounds == {Atom("self", l[1], l[2]) : l \in lt \cup gt}
<1>1. \A a \in bounds : a[1] # "matches"
  BY DEF Atom
<1>2. RangeChecks(lt, gt, order) =
        IF lt # {} /\ gt # {} THEN {Check(FALSE, IF order > 0 THEN "all" ELSE "any", bounds)}
        ELSE {Check(FALSE, "all", {a}) : a \in bounds}
  BY DEF RangeChecks
<1>. HIDE DEF bounds
<1>. QED  BY <1>1, <1>2 DEF Texts, Check

LEMMA JoinTexts ==
  ASSUME NEW R, NEW S, Texts(R), Texts(S)
  PROVE  Texts(R \cup S)
BY DEF Texts

LEMMA WellKnownTexts ==
  ASSUME NEW S
  PROVE  Texts(WellKnown(S))
<1>1. \A f : Atom("format", "=", f)[1] # "matches"
  BY DEF Atom
<1>. QED  BY <1>1 DEF Texts, WellKnown, Check

LEMMA LeafTexts ==
  ASSUME NEW r, ProperLeaf(r)
  PROVE  Texts(LeafChecks(r))
<1>1. \A S : Texts(ConstChecks(S)) /\ Texts(InChecks(S)) /\ Texts(NotInChecks(S))
  BY OneTexts, ListTexts DEF ConstChecks, InChecks, NotInChecks
<1>2. Texts({})
  BY DEF Texts
<1>3. CASE r.kind = "numeric"
  <2>1. Texts(IF r.finite THEN {Never("nan"), Never("inf")} ELSE {})
    <3>1. Texts({Never("nan")}) /\ Texts({Never("inf")})
      BY NeverTexts
    <3>. QED  BY <3>1 DEF Texts
  <2>2. Texts(LowerNumeric(r))
    BY <1>1, <2>1, RangeTexts, JoinTexts DEF LowerNumeric
  <2>. QED  BY <1>3, <2>2 DEF LeafChecks
<1>4. Texts(LowerTimeCmp(r))
  BY <1>1, RangeTexts, JoinTexts DEF LowerTimeCmp
<1>5. CASE r.kind = "timestamp"
  BY <1>4, <1>5 DEF LeafChecks, LowerTimestamp
<1>6. CASE r.kind = "duration"
  <2>1. Texts(LowerDuration(r))
    BY <1>1, <1>4, JoinTexts DEF LowerDuration
  <2>. QED  BY <1>6, <2>1 DEF LeafChecks
<1>7. Texts(Parts(r))
  BY OneTexts, JoinTexts DEF Parts
<1>8. CASE r.kind = "string"
  <2>1. Texts(StringSizes(r))
    BY OneTexts, JoinTexts DEF StringSizes
  <2>2. Texts(One("matches", "=", r.pattern))
    BY <1>8, OneTexts DEF ProperLeaf
  <2>3. Texts({Check(TRUE, "any", {Atom("contains", "=", b)}) : b \in r.notContains})
    <3>1. \A b : Atom("contains", "=", b)[1] # "matches"
      BY DEF Atom
    <3>. QED  BY <3>1 DEF Texts, Check
  <2>4. Texts(LowerString(r))
    BY <1>1, <1>7, <2>1, <2>2, <2>3, WellKnownTexts, JoinTexts DEF LowerString
  <2>. QED  BY <1>8, <2>4 DEF LeafChecks
<1>9. CASE r.kind = "bytes"
  <2>1. Texts(LowerBytes(r))
    BY <1>1, <1>7, OneTexts, JoinTexts DEF LowerBytes
  <2>. QED  BY <1>9, <2>1 DEF LeafChecks
<1>10. CASE r.kind = "bool"
  BY <1>1, <1>10 DEF LeafChecks, LowerBool
<1>11. CASE r.kind = "enum"
  <2>1. Texts(IF r.definedOnly THEN {Never("unknown")} ELSE {})
    BY <1>2, NeverTexts
  <2>2. Texts(LowerEnum(r))
    BY <1>1, <2>1, JoinTexts DEF LowerEnum
  <2>. QED  BY <1>11, <2>2 DEF LeafChecks
<1>12. CASE r.kind \notin {"numeric", "timestamp", "duration", "string", "bytes", "bool", "enum"}
  BY <1>2, <1>12 DEF LeafChecks
<1>. QED  BY <1>3, <1>5, <1>6, <1>8, <1>9, <1>10, <1>11, <1>12

LEMMA CustomTexts ==
  ASSUME NEW N
  PROVE  Texts({Custom(n) : n \in N})
<1>1. \A n \in N : Atom("cel", "=", n)[1] # "matches"
  BY DEF Atom
<1>. QED  BY <1>1 DEF Texts, Custom, Check

LEMMA PlainPatterns ==
  ASSUME NEW R, Texts(R), NEW c \in R
  PROVE  Patterns(c) \subseteq Seq(STRING)
<1>1. c.over = "this" /\ \A a \in c.atoms : a[1] = "matches" => a[3] \in Seq(STRING)
  BY DEF Texts
<1>2. Patterns(c) = {a[3] : a \in {x \in UNION {d.atoms : d \in {c}} : x[1] = "matches"}}
  BY <1>1 DEF Patterns
<1>3. UNION {d.atoms : d \in {c}} = c.atoms
  OBVIOUS
<1>. QED  BY <1>1, <1>2, <1>3

LEMMA QuantifiedPatterns ==
  ASSUME NEW over, over # "this", NEW E, \A e \in E : ProperLeaf(e.std), NEW c \in Quantified(over, E)
  PROVE  Patterns(c) \subseteq Seq(STRING)
<1>1. PICK e \in E : c = [over |-> over, inner |-> LowerItemRules(e)]
  BY DEF Quantified
<1>2. Texts(LowerItemRules(e))
  BY LeafTexts, CustomTexts, JoinTexts DEF LowerItemRules
<1>3. c.over = over /\ c.inner = LowerItemRules(e)
  BY <1>1
<1>4. Patterns(c) = {a[3] : a \in {x \in UNION {d.atoms : d \in LowerItemRules(e)} : x[1] = "matches"}}
  BY <1>3 DEF Patterns
<1>. QED  BY <1>2, <1>4 DEF Texts

\* Every pattern of a lowered rule is one of the declared patterns, a text.
LEMMA LoweredPatterns ==
  ASSUME NEW r, ProperLeaf(r), \A e \in Elements(r) : ProperLeaf(e.std), NEW c \in LowerStandard(r)
  PROVE  Patterns(c) \subseteq Seq(STRING)
<1>1. CASE r.kind = "list"
  <2>1. Texts(One("size", ">=", r.minItems)) /\ Texts(One("size", "<=", r.maxItems))
    BY OneTexts
  <2>2. Texts(IF r.unique THEN {Check(FALSE, "all", {Atom("unique", "=", 1)})} ELSE {})
    <3>1. Atom("unique", "=", 1)[1] # "matches"
      BY DEF Atom
    <3>. QED  BY <3>1 DEF Texts, Check
  <2>3. \A e \in r.items : ProperLeaf(e.std)
    BY <1>1 DEF Elements
  <2>4. \/ c \in One("size", ">=", r.minItems) \/ c \in One("size", "<=", r.maxItems)
        \/ c \in (IF r.unique THEN {Check(FALSE, "all", {Atom("unique", "=", 1)})} ELSE {})
        \/ c \in Quantified("elems", r.items)
    BY <1>1 DEF LowerStandard, LowerRepeated
  <2>. QED  BY <2>1, <2>2, <2>3, <2>4, PlainPatterns, QuantifiedPatterns
<1>2. CASE r.kind = "map"
  <2>1. Texts(One("size", ">=", r.minPairs)) /\ Texts(One("size", "<=", r.maxPairs))
    BY OneTexts
  <2>2. \A e \in r.keys \cup r.values : ProperLeaf(e.std)
    BY <1>2 DEF Elements
  <2>3. \/ c \in One("size", ">=", r.minPairs) \/ c \in One("size", "<=", r.maxPairs)
        \/ c \in Quantified("keys", r.keys) \/ c \in Quantified("values", r.values)
    BY <1>2 DEF LowerStandard, LowerMap
  <2>. QED  BY <2>1, <2>2, <2>3, PlainPatterns, QuantifiedPatterns
<1>3. CASE r.kind \notin {"list", "map"}
  <2>1. LowerStandard(r) = LeafChecks(r)
    BY <1>3 DEF LowerStandard
  <2>. QED  BY <2>1, LeafTexts, PlainPatterns
<1>. QED  BY <1>1, <1>2, <1>3

LEMMA AllPatternsAreTexts == StageInv => AllPatterns \subseteq Seq(STRING)
<1>. SUFFICES ASSUME StageInv, NEW c \in set.rules PROVE Patterns(c) \subseteq Seq(STRING)
  BY DEF AllPatterns
<1>1. CASE set = NoRules
  BY <1>1 DEF NoRules
<1>2. CASE SetIsLowered
  <2>1. ProperLeaf(decl.std) /\ \A e \in Elements(decl.std) : ProperLeaf(e.std)
    BY DeclAssumption DEF StageInv
  <2>2. c \in LowerStandard(decl.std) \/ c \in Customs(next)
    BY <1>2 DEF SetIsLowered
  <2>3. Texts(Customs(next))
    BY CustomTexts DEF Customs
  <2>. QED  BY <2>1, <2>2, <2>3, LoweredPatterns, PlainPatterns
<1>. QED  BY <1>1, <1>2 DEF StageInv

\* What the two gates have said once they have been passed, or not.
GateInv ==
  /\ phase \in {"generated", "built", "refused"} => \A p \in AllPatterns : RegexAccepted(p)
  /\ phase = "refused" => \E p \in AllPatterns : ~ParserAccepts(p)
  /\ phase = "bad pattern" => \E p \in AllPatterns : ~(decl.re2 /\ RegexAccepted(p))

LEMMA InitGate == Init => GateInv
BY DEF Init, GateInv

LEMMA NextGate == GateInv /\ [Next]_vars => GateInv'
<1>. SUFFICES ASSUME GateInv, [Next]_vars PROVE GateInv'
  OBVIOUS
<1>1. CASE IgnoreField
  BY <1>1 DEF IgnoreField, GateInv
<1>2. CASE LowerStandardRules
  <2>1. phase' \in {"bad standard rule", "custom"}
    BY <1>2 DEF LowerStandardRules
  <2>. QED  BY <2>1 DEF GateInv
<1>3. CASE LowerCustomRule
  <2>1. phase' \in {"bad path", "custom"}
    BY <1>3 DEF LowerCustomRule
  <2>. QED  BY <2>1 DEF GateInv
<1>4. CASE CustomRulesDone
  BY <1>4 DEF CustomRulesDone, GateInv
<1>5. CASE Render
  <2>1. AllPatterns' = AllPatterns /\ decl' = decl
    BY <1>5 DEF Render, AllPatterns
  <2>2. phase' = IF \A p \in AllPatterns : decl.re2 /\ RegexAccepted(p) THEN "generated" ELSE "bad pattern"
    BY <1>5 DEF Render
  <2>. QED  BY <2>1, <2>2 DEF GateInv
<1>6. CASE Build
  <2>1. AllPatterns' = AllPatterns /\ decl' = decl /\ phase = "generated"
    BY <1>6 DEF Build, AllPatterns
  <2>2. phase' = IF \A p \in AllPatterns : ParserAccepts(p) THEN "built" ELSE "refused"
    BY <1>6 DEF Build
  <2>. QED  BY <2>1, <2>2 DEF GateInv
<1>7. CASE UNCHANGED vars
  <2>1. AllPatterns' = AllPatterns /\ decl' = decl /\ phase' = phase
    BY <1>7 DEF vars, AllPatterns
  <2>. QED  BY <2>1 DEF GateInv
<1>. QED  BY <1>1, <1>2, <1>3, <1>4, <1>5, <1>6, <1>7 DEF Next

\* The gates have said what GateInv records, in every reachable state.
THEOREM Gated == Spec => []GateInv
<1>1. GateInv /\ UNCHANGED vars => GateInv'
  BY NextGate
<1>. QED  BY InitGate, NextGate, <1>1, PTL DEF Spec

\* No generated file is refused over a pattern: whatever the plugin lets
\* through, the parser of the runtime accepts.
THEOREM GateIsSound == Spec => []GateSound
<1>1. StageInv /\ GateInv => GateSound
  <2>. SUFFICES ASSUME StageInv, GateInv, phase = "refused" PROVE FALSE
    BY DEF GateSound
  <2>1. PICK p \in AllPatterns : ~ParserAccepts(p)
    BY DEF GateInv
  <2>2. p \in Seq(STRING) /\ RegexAccepted(p)
    BY AllPatternsAreTexts DEF GateInv
  <2>. QED  BY <2>1, <2>2, AcceptedIsParsed
<1>. QED  BY Staged, Gated, <1>1, PTL

\* The plugin refuses no pattern but one that RE2 refuses, that the runtime
\* refuses too, or that has a form the engines read differently.
THEOREM GateIsExact == Spec => []GateExact
<1>1. StageInv /\ GateInv => GateExact
  <2>. SUFFICES ASSUME StageInv, GateInv, phase = "bad pattern", decl.re2
                PROVE  \E p \in AllPatterns : ReadDifferently(p) \/ ~ParserAccepts(p)
    BY DEF GateExact
  <2>1. PICK p \in AllPatterns : ~RegexAccepted(p)
    BY DEF GateInv
  <2>2. p \in Seq(STRING)
    BY AllPatternsAreTexts
  <2>. QED  BY <2>1, <2>2, ParsedIsAccepted
<1>. QED  BY Staged, Gated, <1>1, PTL
-----------------------------------------------------------------------------
(* Expressions.                                                            *)

\* The levels of expressions; they are in no set known beforehand.
LEMMA Levels ==
  /\ Nested[0] = Idle
  /\ \A d \in Nat : Nested[d + 1] = Grown(Nested[d])
<1>. DEFINE Follows(g, n) == g[0] = Idle /\ \A k \in 0 .. n - 1 : g[k + 1] = Grown(g[k])
            Last1(n) == CHOOSE g : Follows(g, n)
            Body(f) == [d \in Nat |-> IF d = 0 THEN Idle ELSE Grown(f[d - 1])]
            upTo == CHOOSE f : f = Body(f)
            f == [n \in Nat |-> Last1(n)[n]]
<1>1. ASSUME NEW n \in Nat PROVE Follows(Last1(n), n)
  <2>. DEFINE T == {k \in Nat : \E g : Follows(g, k)}
  <2>1. 0 \in T
    <3>. DEFINE g == [k \in {0} |-> Idle]
    <3>1. Follows(g, 0)
      OBVIOUS
    <3>. HIDE DEF Follows
    <3>. QED  BY <3>1
  <2>2. ASSUME NEW k \in Nat, k \in T PROVE k + 1 \in T
    <3>1. PICK g : Follows(g, k)
      BY <2>2
    <3>. DEFINE h == [i \in 0 .. k + 1 |-> IF i = k + 1 THEN Grown(g[k]) ELSE g[i]]
    <3>2. h[0] = Idle
      BY <3>1
    <3>3. ASSUME NEW i \in 0 .. (k + 1) - 1 PROVE h[i + 1] = Grown(h[i])
      <4>1. i \in 0 .. k + 1 /\ i + 1 \in 0 .. k + 1 /\ i # k + 1
        OBVIOUS
      <4>2. CASE i = k
        BY <4>1, <4>2
      <4>3. CASE i # k
        <5>1. i \in 0 .. k - 1 /\ i + 1 # k + 1
          BY <4>3
        <5>2. g[i + 1] = Grown(g[i])
          BY <3>1, <5>1
        <5>. QED  BY <4>1, <5>1, <5>2
      <4>. QED  BY <4>2, <4>3
    <3>4. Follows(h, k + 1)
      BY <3>2, <3>3
    <3>. HIDE DEF Follows, h
    <3>. QED  BY <3>4
  <2>. HIDE DEF T, Follows
  <2>3. Nat \subseteq T
    BY <2>1, <2>2, Induction
  <2>. QED  BY <2>3 DEF T
<1>2. ASSUME NEW n \in Nat PROVE Last1(n + 1)[n] = Last1(n)[n]
  <2>. DEFINE g == Last1(n)
              h == Last1(n + 1)
              T == {k \in Nat : k <= n => h[k] = g[k]}
  <2>1. Follows(g, n) /\ Follows(h, n + 1)
    <3>1. n + 1 \in Nat
      OBVIOUS
    <3>. HIDE DEF Follows, Last1
    <3>. QED  BY <1>1, <3>1
  <2>. HIDE DEF g, h
  <2>2. 0 \in T
    BY <2>1
  <2>3. ASSUME NEW k \in Nat, k \in T PROVE k + 1 \in T
    <3>. SUFFICES ASSUME k + 1 <= n PROVE h[k + 1] = g[k + 1]
      OBVIOUS
    <3>1. h[k] = g[k] /\ k \in 0 .. n - 1 /\ k \in 0 .. (n + 1) - 1
      BY <2>3
    <3>. QED  BY <2>1, <3>1
  <2>. HIDE DEF T
  <2>4. Nat \subseteq T
    BY <2>2, <2>3, Induction
  <2>. QED  BY <2>4 DEF T, g, h
<1>3. f[0] = Idle
  <2>1. Last1(0)[0] = Idle
    BY <1>1
  <2>. HIDE DEF Last1
  <2>. QED  BY <2>1
<1>4. ASSUME NEW n \in Nat PROVE f[n + 1] = Grown(f[n])
  <2>1. Last1(n + 1)[n + 1] = Grown(Last1(n + 1)[n])
    <3>1. n \in 0 .. (n + 1) - 1 /\ n + 1 \in Nat
      OBVIOUS
    <3>2. Follows(Last1(n + 1), n + 1)
      BY <1>1, <3>1
    <3>. HIDE DEF Last1
    <3>. QED  BY <3>1, <3>2
  <2>. HIDE DEF Last1
  <2>2. f[n + 1] = Last1(n + 1)[n + 1] /\ f[n] = Last1(n)[n]
    OBVIOUS
  <2>. QED  BY <1>2, <2>1, <2>2
<1>5. f = Body(f)
  <2>. DEFINE value(d) == IF d = 0 THEN Idle ELSE Grown(f[d - 1])
  <2>1. ASSUME NEW d \in Nat PROVE f[d] = value(d)
    <3>1. CASE d = 0
      BY <1>3, <3>1
    <3>2. CASE d # 0
      <4>1. d - 1 \in Nat /\ (d - 1) + 1 = d
        BY <3>2
      <4>2. f[(d - 1) + 1] = Grown(f[d - 1])
        BY <1>4, <4>1
      <4>. HIDE DEF f
      <4>. QED  BY <3>2, <4>1, <4>2
    <3>. QED  BY <3>1, <3>2
  <2>2. f = [d \in Nat |-> f[d]]
    OBVIOUS
  <2>. HIDE DEF f
  <2>. QED  BY <2>1, <2>2
<1>. HIDE DEF f
<1>6. upTo = Body(upTo)
  <2>. HIDE DEF Body
  <2>. QED  BY <1>5
<1>7. Nested = upTo
  BY DEF Nested
<1>. HIDE DEF upTo
<1>8. upTo[0] = Idle
  BY <1>6
<1>9. ASSUME NEW d \in Nat PROVE upTo[d + 1] = Grown(upTo[d])
  <2>1. d + 1 \in Nat /\ d + 1 # 0 /\ (d + 1) - 1 = d
    OBVIOUS
  <2>2. upTo[d + 1] = Body(upTo)[d + 1]
    BY <1>6
  <2>. QED  BY <2>1, <2>2
<1>. QED  BY <1>7, <1>8, <1>9

\* The expressions directly over T, operator by operator.
Unary(T) == [op : {"index", "test"}, of : T]
Presence(T) == [op : {"has"}, of : Selects(T)]
Binding2(T) == [op : Macros, of : T, var : Variable, body : T]
Paired(T) == [op : Pairs, of : T, other : T]

LEMMA GrownIs ==
  ASSUME NEW T
  PROVE  Grown(T) = Idle \cup Selects(T) \cup Unary(T) \cup Presence(T) \cup Binding2(T) \cup Paired(T)
BY DEF Grown, Unary, Presence, Binding2, Paired

LEMMA GrownIsMonotone ==
  ASSUME NEW T, NEW V, T \subseteq V
  PROVE  Grown(T) \subseteq Grown(V)
<1>1. Selects(T) \subseteq Selects(V)
  BY DEF Selects
<1>2. Unary(T) \subseteq Unary(V) /\ Binding2(T) \subseteq Binding2(V) /\ Paired(T) \subseteq Paired(V)
  BY DEF Unary, Binding2, Paired
<1>3. Presence(T) \subseteq Presence(V)
  BY <1>1 DEF Presence
<1>. QED  BY <1>1, <1>2, <1>3, GrownIs

LEMMA LevelsGrow ==
  ASSUME NEW d \in Nat
  PROVE  Nested[d] \subseteq Nested[d + 1]
<1>. DEFINE T == {k \in Nat : Nested[k] \subseteq Nested[k + 1]}
<1>1. 0 \in T
  <2>1. Nested[0 + 1] = Grown(Nested[0]) /\ Nested[0] = Idle
    BY Levels
  <2>. QED  BY <2>1, GrownIs
<1>2. ASSUME NEW k \in Nat, k \in T PROVE k + 1 \in T
  <2>1. k + 1 \in Nat
    OBVIOUS
  <2>2. Nested[(k + 1) + 1] = Grown(Nested[k + 1]) /\ Nested[k + 1] = Grown(Nested[k])
    BY <2>1, Levels
  <2>3. Nested[k] \subseteq Nested[k + 1]
    BY <1>2
  <2>. QED  BY <2>1, <2>2, <2>3, GrownIsMonotone
<1>. HIDE DEF T
<1>3. Nat \subseteq T
  BY <1>1, <1>2, Induction
<1>. QED  BY <1>3 DEF T

LEMMA LevelsNest ==
  ASSUME NEW d \in Nat, NEW e \in Nat, d <= e
  PROVE  Nested[d] \subseteq Nested[e]
<1>. DEFINE T == {k \in Nat : Nested[d] \subseteq Nested[d + k]}
<1>1. 0 \in T
  OBVIOUS
<1>2. ASSUME NEW k \in Nat, k \in T PROVE k + 1 \in T
  <2>1. d + (k + 1) = (d + k) + 1 /\ d + k \in Nat
    OBVIOUS
  <2>2. Nested[d + k] \subseteq Nested[(d + k) + 1]
    BY <2>1, LevelsGrow
  <2>. QED  BY <1>2, <2>1, <2>2
<1>. HIDE DEF T
<1>3. Nat \subseteq T
  BY <1>1, <1>2, Induction
<1>4. e - d \in Nat /\ d + (e - d) = e
  OBVIOUS
<1>. QED  BY <1>3, <1>4 DEF T

\* The operators tell the sorts of expressions apart.
LEMMA Sorts ==
  ASSUME NEW T, NEW e
  PROVE  /\ e \in Idle => e.op = "ident" /\ e.name \in Name /\ e = Ident(e.name)
         /\ e \in Selects(T) => e.op = "select" /\ e.of \in T /\ e.field \in Field
         /\ e \in Unary(T) => e.op \in {"index", "test"} /\ e.of \in T
         /\ e \in Presence(T) => e.op = "has" /\ e.of \in Selects(T)
         /\ e \in Binding2(T) => e.op \in Macros /\ e.of \in T /\ e.var \in Variable /\ e.body \in T
         /\ e \in Paired(T) => e.op \in Pairs /\ e.of \in T /\ e.other \in T
BY DEF Idle, Selects, Unary, Presence, Binding2, Paired, Ident

\* Every expression is a name or made of expressions.
LEMMA ExprIs ==
  ASSUME NEW e \in Expr
  PROVE  \/ e \in Idle
         \/ e \in Selects(Expr)
         \/ e \in Unary(Expr)
         \/ e \in Presence(Expr) /\ e.of \in Expr
         \/ e \in Binding2(Expr)
         \/ e \in Paired(Expr)
<1>1. Depth \in Nat
  BY DescriptorAssumption
<1>2. Expr \subseteq Grown(Expr)
  BY <1>1, LevelsGrow, Levels DEF Expr
<1>3. ASSUME e \in Presence(Expr) PROVE e.of \in Expr
  <2>1. CASE Depth = 0
    <3>1. e \in Idle
      BY <2>1, Levels DEF Expr
    <3>. QED  BY <1>3, <3>1, Sorts
  <2>2. CASE Depth # 0
    <3>1. PICK d \in Nat : Depth = d + 1
      <4>1. Depth - 1 \in Nat /\ Depth = (Depth - 1) + 1
        BY <1>1, <2>2
      <4>. QED  BY <4>1
    <3>2. Expr = Grown(Nested[d])
      BY <3>1, Levels DEF Expr
    <3>3. e.op = "has"
      BY <1>3, Sorts
    <3>4. e \in Presence(Nested[d])
      BY <3>2, <3>3, GrownIs, Sorts DEF Macros, Pairs
    <3>5. e.of \in Selects(Nested[d])
      BY <3>4, Sorts
    <3>. QED  BY <3>2, <3>5, GrownIs
  <2>. QED  BY <2>1, <2>2
<1>. QED  BY <1>2, <1>3, GrownIs

\* What an expression is made of; the presence of a field is asked of the
\* value that would hold it.
Parts1(e) ==
  CASE e.op = "ident" -> {}
    [] e.op \in Macros -> {e.of, e.body}
    [] e.op \in Pairs -> {e.of, e.other}
    [] e.op = "has" -> {e.of.of}
    [] OTHER -> {e.of}

LEMMA PartsAre ==
  ASSUME NEW T, NEW e
  PROVE  /\ e \in Idle => Parts1(e) = {}
         /\ e \in Selects(T) \/ e \in Unary(T) => Parts1(e) = {e.of}
         /\ e \in Presence(T) => Parts1(e) = {e.of.of}
         /\ e \in Binding2(T) => Parts1(e) = {e.of, e.body}
         /\ e \in Paired(T) => Parts1(e) = {e.of, e.other}
BY Sorts DEF Parts1, Macros, Pairs

LEMMA PartsBelow ==
  ASSUME NEW T, NEW e \in Grown(T)
  PROVE  Parts1(e) \subseteq T
<1>1. e \in Presence(T) => e.of.of \in T
  BY Sorts
<1>. QED  BY <1>1, GrownIs, PartsAre, Sorts

LEMMA PartsInExpr ==
  ASSUME NEW e \in Expr
  PROVE  Parts1(e) \subseteq Expr
<1>1. Depth \in Nat
  BY DescriptorAssumption
<1>2. Expr \subseteq Grown(Expr)
  BY <1>1, LevelsGrow, Levels DEF Expr
<1>. QED  BY <1>2, PartsBelow

\* What an expression is, by its operator.
LEMMA Shapes ==
  ASSUME NEW e \in Expr
  PROVE  /\ e.op \in {"ident", "select", "index", "test", "has"} \cup Macros \cup Pairs
         /\ e.op = "ident" => e.name \in Name /\ e = Ident(e.name) /\ Parts1(e) = {}
         /\ e.op = "select" => e.of \in Expr /\ e.field \in Field /\ Parts1(e) = {e.of}
         /\ e.op \in {"index", "test"} => e.of \in Expr /\ Parts1(e) = {e.of}
         /\ e.op = "has" =>
              /\ e.of \in Expr /\ e.of.op = "select" /\ e.of.of \in Expr /\ e.of.field \in Field
              /\ Parts1(e) = {e.of.of}
         /\ e.op \in Macros =>
              e.of \in Expr /\ e.body \in Expr /\ e.var \in Variable /\ Parts1(e) = {e.of, e.body}
         /\ e.op \in Pairs => e.of \in Expr /\ e.other \in Expr /\ Parts1(e) = {e.of, e.other}
<1>1. CASE e \in Idle
  <2>1. e.op = "ident" /\ e.name \in Name /\ e = Ident(e.name)
    BY <1>1, Sorts
  <2>2. Parts1(e) = {}
    BY <1>1, PartsAre
  <2>. QED  BY <2>1, <2>2 DEF Macros, Pairs
<1>2. CASE e \in Selects(Expr)
  <2>1. e.op = "select" /\ e.of \in Expr /\ e.field \in Field
    BY <1>2, Sorts
  <2>2. Parts1(e) = {e.of}
    BY <1>2, PartsAre
  <2>. QED  BY <2>1, <2>2 DEF Macros, Pairs
<1>3. CASE e \in Unary(Expr)
  <2>1. e.op \in {"index", "test"} /\ e.of \in Expr
    BY <1>3, Sorts
  <2>2. Parts1(e) = {e.of}
    BY <1>3, PartsAre
  <2>. QED  BY <2>1, <2>2 DEF Macros, Pairs
<1>4. CASE e \in Presence(Expr) /\ e.of \in Expr
  <2>1. e.op = "has" /\ e.of \in Selects(Expr)
    BY <1>4, Sorts
  <2>2. e.of.op = "select" /\ e.of.of \in Expr /\ e.of.field \in Field
    BY <2>1, Sorts
  <2>3. Parts1(e) = {e.of.of}
    BY <1>4, PartsAre
  <2>. QED  BY <1>4, <2>1, <2>2, <2>3 DEF Macros, Pairs
<1>5. CASE e \in Binding2(Expr)
  <2>1. e.op \in Macros /\ e.of \in Expr /\ e.var \in Variable /\ e.body \in Expr
    BY <1>5, Sorts
  <2>2. Parts1(e) = {e.of, e.body}
    BY <1>5, PartsAre
  <2>. QED  BY <2>1, <2>2 DEF Macros, Pairs
<1>6. CASE e \in Paired(Expr)
  <2>1. e.op \in Pairs /\ e.of \in Expr /\ e.other \in Expr
    BY <1>6, Sorts
  <2>2. Parts1(e) = {e.of, e.other}
    BY <1>6, PartsAre
  <2>. QED  BY <2>1, <2>2 DEF Macros, Pairs
<1>. QED  BY <1>1, <1>2, <1>3, <1>4, <1>5, <1>6, ExprIs

\* What passes from the parts of expressions to the expressions holds of all.
LEMMA ExprInduction ==
  ASSUME NEW P, \A e \in Expr : Parts1(e) \subseteq P => e \in P
  PROVE  Expr \subseteq P
<1>. DEFINE T == {d \in Nat : d <= Depth => Nested[d] \subseteq P}
<1>0. Depth \in Nat
  BY DescriptorAssumption
<1>1. 0 \in T
  <2>. SUFFICES ASSUME NEW e \in Nested[0] PROVE e \in P
    OBVIOUS
  <2>1. e \in Idle
    BY Levels
  <2>2. e \in Expr
    BY <1>0, LevelsNest DEF Expr
  <2>. QED  BY <2>1, <2>2, PartsAre
<1>2. ASSUME NEW d \in Nat, d \in T PROVE d + 1 \in T
  <2>. SUFFICES ASSUME d + 1 <= Depth, NEW e \in Nested[d + 1] PROVE e \in P
    OBVIOUS
  <2>1. Nested[d] \subseteq P /\ d + 1 \in Nat
    BY <1>0, <1>2
  <2>2. e \in Expr
    BY <1>0, <2>1, LevelsNest DEF Expr
  <2>3. e \in Grown(Nested[d])
    BY Levels
  <2>4. Parts1(e) \subseteq P
    BY <2>1, <2>3, PartsBelow
  <2>. QED  BY <2>2, <2>4
<1>. HIDE DEF T
<1>3. Nat \subseteq T
  BY <1>1, <1>2, Induction
<1>. QED  BY <1>0, <1>3 DEF T, Expr

\* A function that a step defines on every expression from what it is on the
\* parts of the expression.
LooksAtParts(V, step) ==
  \A e \in Expr : \A f, g \in [Expr -> V] :
    (\A c \in Parts1(e) : f[c] = g[c]) => step[<<e, f>>] = step[<<e, g>>]
StepsTo(f, V, step) == f \in [Expr -> V] /\ \A e \in Expr : f[e] = step[<<e, f>>]

LEMMA ExprRecursion ==
  ASSUME NEW V, NEW v \in V, NEW step \in [Expr \X [Expr -> V] -> V], LooksAtParts(V, step)
  PROVE  \E f : StepsTo(f, V, step)
<1>. DEFINE Found(d) == \E f \in [Expr -> V] : \A e \in Nested[d] : f[e] = step[<<e, f>>]
            T == {d \in Nat : d <= Depth => Found(d)}
<1>0. Depth \in Nat
  BY DescriptorAssumption
<1>1. 0 \in T
  <2>. DEFINE f0 == [e \in Expr |-> v]
              f == [e \in Expr |-> step[<<e, f0>>]]
  <2>1. f0 \in [Expr -> V] /\ f \in [Expr -> V]
    OBVIOUS
  <2>2. ASSUME NEW e \in Nested[0] PROVE f[e] = step[<<e, f>>]
    <3>1. e \in Idle /\ e \in Expr
      BY <1>0, Levels, LevelsNest DEF Expr
    <3>2. Parts1(e) = {}
      BY <3>1, PartsAre
    <3>3. f[e] = step[<<e, f0>>]
      BY <3>1
    <3>. HIDE DEF f, f0
    <3>. QED  BY <2>1, <3>1, <3>2, <3>3 DEF LooksAtParts
  <2>. HIDE DEF f
  <2>3. Found(0)
    BY <2>1, <2>2
  <2>. HIDE DEF Found
  <2>. QED  BY <2>3
<1>2. ASSUME NEW d \in Nat, d \in T PROVE d + 1 \in T
  <2>. SUFFICES ASSUME d + 1 <= Depth PROVE Found(d + 1)
    <3>. HIDE DEF Found
    <3>. QED  OBVIOUS
  <2>0. Found(d)
    <3>. HIDE DEF Found
    <3>. QED  BY <1>0, <1>2
  <2>1. PICK f \in [Expr -> V] : \A e \in Nested[d] : f[e] = step[<<e, f>>]
    BY <2>0
  <2>2. Nested[d] \subseteq Expr /\ Nested[d + 1] \subseteq Expr
    BY <1>0, LevelsNest DEF Expr
  <2>. DEFINE g == [e \in Expr |-> step[<<e, f>>]]
  <2>3. g \in [Expr -> V]
    OBVIOUS
  <2>4. \A e \in Nested[d] : g[e] = f[e]
    BY <2>1, <2>2
  <2>5. ASSUME NEW e \in Nested[d + 1] PROVE g[e] = step[<<e, g>>]
    <3>1. e \in Grown(Nested[d]) /\ e \in Expr
      BY <2>2, Levels
    <3>2. \A c \in Parts1(e) : f[c] = g[c]
      BY <2>4, <3>1, PartsBelow
    <3>3. g[e] = step[<<e, f>>]
      BY <3>1
    <3>. HIDE DEF g
    <3>. QED  BY <2>3, <3>1, <3>2, <3>3 DEF LooksAtParts
  <2>. HIDE DEF g
  <2>. QED  BY <2>3, <2>5
<1>. HIDE DEF T, Found
<1>3. Nat \subseteq T
  BY <1>1, <1>2, Induction
<1>4. Found(Depth)
  BY <1>0, <1>3 DEF T
<1>. QED  BY <1>4 DEF Found, Expr, StepsTo

-----------------------------------------------------------------------------
(* The latest of several places, and names nobody uses.                    *)

LEMMA LastIs ==
  ASSUME NEW n \in Nat, NEW S, S \subseteq 1 .. n
  PROVE  /\ S = {} => Last(S) = 0
         /\ S # {} => Last(S) \in S /\ \A y \in S : y <= Last(S)
<1>1. ASSUME S # {} PROVE \E x \in S : \A y \in S : x >= y
  <2>. DEFINE T == {n - y : y \in S}
  <2>1. T \subseteq Nat /\ T # {}
    <3>1. \A y \in S : y \in 1 .. n
      OBVIOUS
    <3>2. \A y \in S : n - y \in Nat
      BY <3>1
    <3>. QED  BY <1>1, <3>2
  <2>2. PICK t \in T : \A u \in T : t <= u
    BY <2>1, LeastNumber
  <2>3. PICK x \in S : t = n - x
    BY <2>2
  <2>4. ASSUME NEW y \in S PROVE x >= y
    <3>1. n - y \in T
      OBVIOUS
    <3>2. n - x <= n - y
      BY <2>2, <2>3, <3>1
    <3>. QED  BY <3>2
  <2>. QED  BY <2>4
<1>2. ASSUME S # {} PROVE Max(S) \in S /\ \A y \in S : Max(S) >= y
  BY <1>1, <1>2 DEF Max
<1>3. S # {} => \A y \in S : Max(S) >= y => y <= Max(S)
  BY <1>2
<1>. QED  BY <1>2, <1>3 DEF Last

LEMMA FreshNameIs ==
  ASSUME NEW base, NEW used, IsFiniteSet(used)
  PROVE  FreshName(base, used) \notin used /\ (base \in Name => FreshName(base, used) \in Name)
<1>. DEFINE C == Cardinality(used)
            S == {i \in 1 .. C + 1 : <<base[1], i>> \notin used}
<1>1. C \in Nat
  BY FS_CardinalityType
<1>2. S # {}
  <2>. SUFFICES ASSUME S = {} PROVE FALSE
    OBVIOUS
  <2>. DEFINE f == [i \in 1 .. C + 1 |-> <<base[1], i>>]
  <2>1. f \in [1 .. C + 1 -> used]
    OBVIOUS
  <2>2. IsFiniteSet(1 .. C + 1) /\ Cardinality(1 .. C + 1) = C + 1
    <3>1. C + 1 \in Int /\ 1 \in Int /\ ~(1 > C + 1) /\ (C + 1) - 1 + 1 = C + 1
      BY <1>1
    <3>. HIDE DEF C
    <3>. QED  BY <3>1, FS_Interval
  <2>3. Cardinality(used) < Cardinality(1 .. C + 1)
    BY <1>1, <2>2
  <2>4. \A x, y \in 1 .. C + 1 : f[x] = f[y] => x = y
    OBVIOUS
  <2>. DEFINE I == 1 .. C + 1
  <2>. HIDE DEF f, C, I
  <2>5. IsFiniteSet(I) /\ Cardinality(used) < Cardinality(I) /\ f \in [I -> used]
    BY <2>1, <2>2, <2>3 DEF I
  <2>6. \E x, y \in I : x # y /\ f[x] = f[y]
    BY <2>5, FS_PigeonHole
  <2>. QED  BY <2>4, <2>6 DEF I
<1>3. S \subseteq Nat
  BY <1>1
<1>4. \E x \in S : \A y \in S : x <= y
  BY <1>2, <1>3, LeastNumber
<1>5. Min(S) \in S
  BY <1>4 DEF Min
<1>6. <<base[1], Min(S)>> \notin used /\ (base \in Name => <<base[1], Min(S)>> \in Name)
  <2>1. \A i \in S : i \in Nat /\ <<base[1], i>> \notin used
    BY <1>3
  <2>2. base \in Name => base[1] \in STRING
    BY DEF Name
  <2>. HIDE DEF S
  <2>. QED  BY <1>5, <2>1, <2>2 DEF Name
<1>. QED  BY <1>6 DEF FreshName

-----------------------------------------------------------------------------
(* Scopes.                                                                 *)

Entry == [var : Variable, path : Path, type : Type, lean : Name]

LEMMA ScopeIs ==
  ASSUME NEW scope \in Scopes
  PROVE  /\ Len(scope) \in Nat /\ DOMAIN scope = 1 .. Len(scope)
         /\ \A i \in 1 .. Len(scope) : scope[i] \in Entry
         /\ \A i \in 1 .. Len(scope) :
              scope[i].var \in Variable /\ scope[i].path \in Path /\ scope[i].type \in Type /\ scope[i].lean \in Name
<1>1. scope \in Seq(Entry)
  BY DEF Scopes, Entry
<1>2. \A i \in 1 .. Len(scope) : scope[i] \in Entry
  BY <1>1
<1>. QED  BY <1>1, <1>2 DEF Entry

LEMMA ScopeGrows ==
  ASSUME NEW scope \in Scopes, NEW b \in Entry
  PROVE  /\ Append(scope, b) \in Scopes
         /\ Len(Append(scope, b)) = Len(scope) + 1
         /\ Append(scope, b)[Len(scope) + 1] = b
         /\ \A i \in 1 .. Len(scope) : Append(scope, b)[i] = scope[i]
<1>1. scope \in Seq(Entry)
  BY DEF Scopes, Entry
<1>. QED  BY <1>1 DEF Scopes, Entry

LEMMA NoScope ==
  /\ <<>> \in Scopes /\ Len(<<>>) = 0
  /\ \A n : BoundAt(<<>>, n) = 0 /\ LeanAt(<<>>, n) = 0
<1>1. <<>> \in Scopes /\ Len(<<>>) = 0
  BY DEF Scopes
<1>2. DOMAIN <<>> = {}
  OBVIOUS
<1>. QED  BY <1>1, <1>2 DEF BoundAt, LeanAt, Last

LEMMA BoundAtIs ==
  ASSUME NEW scope \in Scopes, NEW n
  PROVE  /\ BoundAt(scope, n) \in 0 .. Len(scope)
         /\ BoundAt(scope, n) = 0 <=> \A i \in 1 .. Len(scope) : scope[i].var # n
         /\ BoundAt(scope, n) # 0 =>
              /\ BoundAt(scope, n) \in 1 .. Len(scope)
              /\ scope[BoundAt(scope, n)].var = n
              /\ \A i \in 1 .. Len(scope) : scope[i].var = n => i <= BoundAt(scope, n)
<1>. DEFINE S == {i \in DOMAIN scope : scope[i].var = n}
<1>1. Len(scope) \in Nat /\ DOMAIN scope = 1 .. Len(scope)
  BY ScopeIs
<1>2. S \subseteq 1 .. Len(scope) /\ BoundAt(scope, n) = Last(S)
  BY <1>1 DEF BoundAt
<1>3. /\ S = {} => Last(S) = 0
      /\ S # {} => Last(S) \in S /\ \A y \in S : y <= Last(S)
  BY <1>1, <1>2, LastIs
<1>4. \A i : i \in S <=> i \in 1 .. Len(scope) /\ scope[i].var = n
  BY <1>1
<1>. HIDE DEF S
<1>. QED  BY <1>1, <1>2, <1>3, <1>4

LEMMA LeanAtIs ==
  ASSUME NEW scope \in Scopes, NEW n
  PROVE  /\ LeanAt(scope, n) \in 0 .. Len(scope)
         /\ LeanAt(scope, n) = 0 <=> \A i \in 1 .. Len(scope) : scope[i].lean # n
         /\ LeanAt(scope, n) # 0 =>
              /\ LeanAt(scope, n) \in 1 .. Len(scope)
              /\ scope[LeanAt(scope, n)].lean = n
              /\ \A i \in 1 .. Len(scope) : scope[i].lean = n => i <= LeanAt(scope, n)
<1>. DEFINE S == {i \in DOMAIN scope : scope[i].lean = n}
<1>1. Len(scope) \in Nat /\ DOMAIN scope = 1 .. Len(scope)
  BY ScopeIs
<1>2. S \subseteq 1 .. Len(scope) /\ LeanAt(scope, n) = Last(S)
  BY <1>1 DEF LeanAt
<1>3. /\ S = {} => Last(S) = 0
      /\ S # {} => Last(S) \in S /\ \A y \in S : y <= Last(S)
  BY <1>1, <1>2, LastIs
<1>4. \A i : i \in S <=> i \in 1 .. Len(scope) /\ scope[i].lean = n
  BY <1>1
<1>. HIDE DEF S
<1>. QED  BY <1>1, <1>2, <1>3, <1>4

\* The innermost comprehension comes first.
LEMMA BoundWithin ==
  ASSUME NEW scope \in Scopes, NEW b \in Entry, NEW n
  PROVE  BoundAt(Append(scope, b), n) = IF b.var = n THEN Len(scope) + 1 ELSE BoundAt(scope, n)
<1>. DEFINE inner == Append(scope, b)
            i == BoundAt(inner, n)
            j == BoundAt(scope, n)
<1>1. /\ inner \in Scopes /\ Len(inner) = Len(scope) + 1 /\ Len(scope) \in Nat
      /\ inner[Len(scope) + 1] = b /\ \A k \in 1 .. Len(scope) : inner[k] = scope[k]
  BY ScopeGrows, ScopeIs
<1>2. /\ i \in 0 .. Len(inner) /\ (i = 0 <=> \A k \in 1 .. Len(inner) : inner[k].var # n)
      /\ i # 0 => /\ i \in 1 .. Len(inner) /\ inner[i].var = n
                  /\ \A k \in 1 .. Len(inner) : inner[k].var = n => k <= i
  BY <1>1, BoundAtIs
<1>3. /\ j \in 0 .. Len(scope) /\ (j = 0 <=> \A k \in 1 .. Len(scope) : scope[k].var # n)
      /\ j # 0 => /\ j \in 1 .. Len(scope) /\ scope[j].var = n
                  /\ \A k \in 1 .. Len(scope) : scope[k].var = n => k <= j
  BY BoundAtIs
<1>. HIDE DEF inner, i, j
<1>4. CASE b.var = n
  <2>1. Len(scope) + 1 \in 1 .. Len(inner) /\ inner[Len(scope) + 1].var = n
    BY <1>1, <1>4
  <2>2. Len(scope) + 1 <= i /\ i <= Len(scope) + 1
    BY <1>1, <1>2, <2>1
  <2>3. i = Len(scope) + 1
    BY <1>1, <1>2, <2>2
  <2>. QED  BY <1>4, <2>3 DEF i, inner
<1>5. CASE b.var # n
  <2>1. \A k \in 1 .. Len(inner) : inner[k].var = n <=> k \in 1 .. Len(scope) /\ scope[k].var = n
    <3>1. \A k \in 1 .. Len(inner) : k \in 1 .. Len(scope) \/ k = Len(scope) + 1
      BY <1>1
    <3>. QED  BY <1>1, <1>5, <3>1
  <2>2. \A k \in 1 .. Len(scope) : k \in 1 .. Len(inner)
    BY <1>1
  <2>3. i = j
    <3>1. CASE j = 0
      BY <1>2, <1>3, <2>1, <3>1
    <3>2. CASE j # 0
      <4>1. j <= i /\ i # 0
        BY <1>2, <1>3, <2>1, <2>2, <3>2
      <4>2. i <= j
        BY <1>2, <1>3, <2>1, <3>2, <4>1
      <4>. QED  BY <1>1, <1>2, <1>3, <4>1, <4>2
    <3>. QED  BY <3>1, <3>2
  <2>. QED  BY <1>5, <2>3 DEF i, j, inner
<1>. QED  BY <1>4, <1>5

LEMMA LeanWithin ==
  ASSUME NEW scope \in Scopes, NEW b \in Entry, NEW n
  PROVE  LeanAt(Append(scope, b), n) = IF b.lean = n THEN Len(scope) + 1 ELSE LeanAt(scope, n)
<1>. DEFINE inner == Append(scope, b)
            i == LeanAt(inner, n)
            j == LeanAt(scope, n)
<1>1. /\ inner \in Scopes /\ Len(inner) = Len(scope) + 1 /\ Len(scope) \in Nat
      /\ inner[Len(scope) + 1] = b /\ \A k \in 1 .. Len(scope) : inner[k] = scope[k]
  BY ScopeGrows, ScopeIs
<1>2. /\ i \in 0 .. Len(inner) /\ (i = 0 <=> \A k \in 1 .. Len(inner) : inner[k].lean # n)
      /\ i # 0 => /\ i \in 1 .. Len(inner) /\ inner[i].lean = n
                  /\ \A k \in 1 .. Len(inner) : inner[k].lean = n => k <= i
  BY <1>1, LeanAtIs
<1>3. /\ j \in 0 .. Len(scope) /\ (j = 0 <=> \A k \in 1 .. Len(scope) : scope[k].lean # n)
      /\ j # 0 => /\ j \in 1 .. Len(scope) /\ scope[j].lean = n
                  /\ \A k \in 1 .. Len(scope) : scope[k].lean = n => k <= j
  BY LeanAtIs
<1>. HIDE DEF inner, i, j
<1>4. CASE b.lean = n
  <2>1. Len(scope) + 1 \in 1 .. Len(inner) /\ inner[Len(scope) + 1].lean = n
    BY <1>1, <1>4
  <2>2. Len(scope) + 1 <= i /\ i <= Len(scope) + 1
    BY <1>1, <1>2, <2>1
  <2>3. i = Len(scope) + 1
    BY <1>1, <1>2, <2>2
  <2>. QED  BY <1>4, <2>3 DEF i, inner
<1>5. CASE b.lean # n
  <2>1. \A k \in 1 .. Len(inner) : inner[k].lean = n <=> k \in 1 .. Len(scope) /\ scope[k].lean = n
    <3>1. \A k \in 1 .. Len(inner) : k \in 1 .. Len(scope) \/ k = Len(scope) + 1
      BY <1>1
    <3>. QED  BY <1>1, <1>5, <3>1
  <2>2. \A k \in 1 .. Len(scope) : k \in 1 .. Len(inner)
    BY <1>1
  <2>3. i = j
    <3>1. CASE j = 0
      BY <1>2, <1>3, <2>1, <3>1
    <3>2. CASE j # 0
      <4>1. j <= i /\ i # 0
        BY <1>2, <1>3, <2>1, <2>2, <3>2
      <4>2. i <= j
        BY <1>2, <1>3, <2>1, <3>2, <4>1
      <4>. QED  BY <1>1, <1>2, <1>3, <4>1, <4>2
    <3>. QED  BY <3>1, <3>2
  <2>. QED  BY <1>5, <2>3 DEF i, j, inner
<1>. QED  BY <1>4, <1>5

-----------------------------------------------------------------------------
(* Types.                                                                  *)

LEMMA WordsAre ==
  /\ "none" \in Words /\ "list" \in Words /\ "bool" \in Words /\ Nowhere \in Words
  /\ Iterated \in Words /\ Indexed \in Words /\ Iterated # Indexed
  /\ Field \subseteq Words /\ Iterated \notin Field /\ Indexed \notin Field /\ Nowhere \notin Field
<1>1. /\ "none" \in Words /\ "list" \in Words /\ "bool" \in Words /\ Nowhere \in Words
      /\ Iterated \in Words /\ Indexed \in Words
  BY Zenon DEF Words
<1>2. Iterated # Indexed
  BY Zenon DEF Iterated, Indexed
<1>3. STRING \subseteq Words
  BY Zenon DEF Words
<1>4. Field \subseteq STRING /\ Iterated \notin Field /\ Indexed \notin Field /\ Nowhere \notin Field
  BY Zenon DEF Field, Descents, Nowhere
<1>. QED  BY <1>1, <1>2, <1>3, <1>4

LEMMA WordIs ==
  ASSUME NEW t \in Type, NEW i
  PROVE  Word(t, i) \in Words
<1>1. t \in Seq(Words) /\ "none" \in Words
  BY WordsAre DEF Type
<1>2. ASSUME i \in 1 .. Len(t) PROVE t[i] \in Words
  BY <1>1, <1>2, ElementOfSeq
<1>. QED  BY <1>1, <1>2, Zenon DEF Word

LEMMA ScalarIs ==
  ASSUME NEW k \in Words
  PROVE  Scalar(k) \in Type
BY DEF Scalar, Type

LEMMA TypesClosed ==
  ASSUME NEW t \in Type
  PROVE  KeyOf(t) \in Type /\ ElemOf(t) \in Type /\ NoType \in Type /\ List(t) \in Type
<1>1. KeyOf(t) \in Type
  BY WordIs, ScalarIs DEF KeyOf
<1>2. NoType \in Type
  BY DEF NoType, Type
<1>3. ElemOf(t) \in Type
  <2>. DEFINE m == IF Kind(t) = "map" THEN 3 ELSE 2
  <2>1. m \in Int /\ m >= 1
    OBVIOUS
  <2>2. Len(t) \in Nat /\ \A i \in 1 .. Len(t) : t[i] \in Words
    BY DEF Type
  <2>. HIDE DEF m
  <2>3. \A i \in m .. Len(t) : t[i] \in Words
    BY <2>1, <2>2
  <2>4. SubSeq(t, m, Len(t)) \in Seq(Words)
    BY <2>1, <2>2, <2>3, SubSeqProperties
  <2>. QED  BY <2>4 DEF ElemOf, Type, m
<1>4. List(t) \in Type
  <2>0. "list" \in Words
    BY WordsAre
  <2>1. <<"list">> \in Seq(Words) /\ t \in Seq(Words)
    BY <2>0 DEF Type
  <2>. QED  BY <2>1, ConcatProperties DEF List, Type
<1>. QED  BY <1>1, <1>2, <1>3, <1>4

LEMMA FieldsAre ==
  ASSUME NEW t \in Type
  PROVE  /\ IsFiniteSet(DOMAIN FieldsIn(t)) /\ DOMAIN FieldsIn(t) \subseteq Field
         /\ \A f \in DOMAIN FieldsIn(t) : FieldsIn(t)[f] \in Type
         /\ Kind(t) # "message" => DOMAIN FieldsIn(t) = {}
<1>1. DOMAIN <<>> = {} /\ IsFiniteSet({})
  BY FS_EmptySet
<1>. QED  BY <1>1, DescriptorAssumption DEF FieldsIn

LEMMA StepTypeIs ==
  ASSUME NEW t \in Type, NEW comp
  PROVE  /\ StepType(t, comp) \in Type
         /\ ElemType(t) \in Type
         /\ Kind(t) \notin {"list", "map", "message"} => StepType(t, comp) = NoType
<1>1. KeyOf(t) \in Type /\ ElemOf(t) \in Type /\ NoType \in Type
  BY TypesClosed
<1>. QED  BY <1>1, FieldsAre DEF StepType, ElemType

-----------------------------------------------------------------------------
(* What the recursive functions on expressions are.                        *)

\* The names in an expression, given those in its parts.
NameSets == {S \in SUBSET Name : IsFiniteSet(S)}
IdentsOnce(f, e) ==
  CASE e.op = "ident" -> {e.name}
    [] e.op \in Macros -> {e.var} \cup f[e.of] \cup f[e.body]
    [] e.op \in Pairs -> f[e.of] \cup f[e.other]
    [] e.op = "has" -> f[e.of.of]
    [] OTHER -> f[e.of]

LEMMA IdentsCases ==
  ASSUME NEW f, NEW e
  PROVE  /\ e.op = "ident" => IdentsOnce(f, e) = {e.name}
         /\ e.op = "select" => IdentsOnce(f, e) = f[e.of]
         /\ e.op = "index" => IdentsOnce(f, e) = f[e.of]
         /\ e.op = "test" => IdentsOnce(f, e) = f[e.of]
         /\ e.op = "has" => IdentsOnce(f, e) = f[e.of.of]
         /\ e.op \in Macros => IdentsOnce(f, e) = {e.var} \cup f[e.of] \cup f[e.body]
         /\ e.op \in Pairs => IdentsOnce(f, e) = f[e.of] \cup f[e.other]
<1>1. e.op = "ident" => IdentsOnce(f, e) = {e.name}
  BY DEF IdentsOnce, Macros, Pairs
<1>2. e.op = "select" => IdentsOnce(f, e) = f[e.of]
  BY DEF IdentsOnce, Macros, Pairs
<1>3. e.op = "index" => IdentsOnce(f, e) = f[e.of]
  BY DEF IdentsOnce, Macros, Pairs
<1>4. e.op = "test" => IdentsOnce(f, e) = f[e.of]
  BY DEF IdentsOnce, Macros, Pairs
<1>5. e.op = "has" => IdentsOnce(f, e) = f[e.of.of]
  BY DEF IdentsOnce, Macros, Pairs
<1>6. e.op \in Macros => IdentsOnce(f, e) = {e.var} \cup f[e.of] \cup f[e.body]
  BY DEF IdentsOnce, Macros, Pairs
<1>7. e.op \in Pairs => IdentsOnce(f, e) = f[e.of] \cup f[e.other]
  BY DEF IdentsOnce, Macros, Pairs
<1>. QED  BY <1>1, <1>2, <1>3, <1>4, <1>5, <1>6, <1>7

LEMMA IdentsAgrees ==
  ASSUME NEW f, NEW g, NEW e \in Expr, \A c \in Parts1(e) : f[c] = g[c]
  PROVE  IdentsOnce(f, e) = IdentsOnce(g, e)
<1>1. CASE e.op = "ident"
  <2>1. IdentsOnce(f, e) = {e.name}
    BY <1>1, IdentsCases
  <2>2. IdentsOnce(g, e) = {e.name}
    BY <1>1, IdentsCases
  <2>. QED  BY <1>1, <2>1, <2>2, Shapes
<1>2. CASE e.op = "select"
  <2>1. IdentsOnce(f, e) = f[e.of]
    BY <1>2, IdentsCases
  <2>2. IdentsOnce(g, e) = g[e.of]
    BY <1>2, IdentsCases
  <2>. QED  BY <1>2, <2>1, <2>2, Shapes
<1>3. CASE e.op = "index"
  <2>1. IdentsOnce(f, e) = f[e.of]
    BY <1>3, IdentsCases
  <2>2. IdentsOnce(g, e) = g[e.of]
    BY <1>3, IdentsCases
  <2>. QED  BY <1>3, <2>1, <2>2, Shapes
<1>4. CASE e.op = "test"
  <2>1. IdentsOnce(f, e) = f[e.of]
    BY <1>4, IdentsCases
  <2>2. IdentsOnce(g, e) = g[e.of]
    BY <1>4, IdentsCases
  <2>. QED  BY <1>4, <2>1, <2>2, Shapes
<1>5. CASE e.op = "has"
  <2>1. IdentsOnce(f, e) = f[e.of.of]
    BY <1>5, IdentsCases
  <2>2. IdentsOnce(g, e) = g[e.of.of]
    BY <1>5, IdentsCases
  <2>. QED  BY <1>5, <2>1, <2>2, Shapes
<1>6. CASE e.op \in Macros
  <2>1. IdentsOnce(f, e) = {e.var} \cup f[e.of] \cup f[e.body]
    BY <1>6, IdentsCases
  <2>2. IdentsOnce(g, e) = {e.var} \cup g[e.of] \cup g[e.body]
    BY <1>6, IdentsCases
  <2>. QED  BY <1>6, <2>1, <2>2, Shapes
<1>7. CASE e.op \in Pairs
  <2>1. IdentsOnce(f, e) = f[e.of] \cup f[e.other]
    BY <1>7, IdentsCases
  <2>2. IdentsOnce(g, e) = g[e.of] \cup g[e.other]
    BY <1>7, IdentsCases
  <2>. QED  BY <1>7, <2>1, <2>2, Shapes
<1>. QED  BY <1>1, <1>2, <1>3, <1>4, <1>5, <1>6, <1>7, Shapes

LEMMA IdentsOnceIs ==
  ASSUME NEW f, NEW e \in Expr, \A c \in Parts1(e) : f[c] \in NameSets
  PROVE  IdentsOnce(f, e) \in NameSets
<1>1. CASE e.op = "ident"
  <2>1. IdentsOnce(f, e) = {e.name}
    BY <1>1, IdentsCases
  <2>2. e.name \in Name
    BY <1>1, Shapes
  <2>. QED  BY <2>1, <2>2, FS_Singleton DEF NameSets
<1>2. CASE e.op = "select"
  <2>1. IdentsOnce(f, e) = f[e.of]
    BY <1>2, IdentsCases
  <2>. QED  BY <1>2, <2>1, Shapes
<1>3. CASE e.op = "index"
  <2>1. IdentsOnce(f, e) = f[e.of]
    BY <1>3, IdentsCases
  <2>. QED  BY <1>3, <2>1, Shapes
<1>4. CASE e.op = "test"
  <2>1. IdentsOnce(f, e) = f[e.of]
    BY <1>4, IdentsCases
  <2>. QED  BY <1>4, <2>1, Shapes
<1>5. CASE e.op = "has"
  <2>1. IdentsOnce(f, e) = f[e.of.of]
    BY <1>5, IdentsCases
  <2>. QED  BY <1>5, <2>1, Shapes
<1>6. CASE e.op \in Macros
  <2>1. IdentsOnce(f, e) = {e.var} \cup f[e.of] \cup f[e.body]
    BY <1>6, IdentsCases
  <2>2. e.var \in Name /\ f[e.of] \in NameSets /\ f[e.body] \in NameSets
    BY <1>6, Shapes DEF Variable
  <2>3. {e.var} \in NameSets
    BY <2>2, FS_Singleton DEF NameSets
  <2>. QED  BY <2>1, <2>2, <2>3, FS_Union DEF NameSets
<1>7. CASE e.op \in Pairs
  <2>1. IdentsOnce(f, e) = f[e.of] \cup f[e.other]
    BY <1>7, IdentsCases
  <2>2. f[e.of] \in NameSets /\ f[e.other] \in NameSets
    BY <1>7, Shapes
  <2>. QED  BY <2>1, <2>2, FS_Union DEF NameSets
<1>. QED  BY <1>1, <1>2, <1>3, <1>4, <1>5, <1>6, <1>7, Shapes

LEMMA IdentsIs ==
  \A e \in Expr : Idents[e] = IdentsOnce(Idents, e) /\ Idents[e] \in NameSets
<1>. DEFINE V == NameSets
            Body(f) == [e \in Expr |-> IdentsOnce(f, e)]
            step == [z \in Expr \X [Expr -> V] |-> IdentsOnce(z[2], z[1])]
<1>1. \A e \in Expr : \A f \in [Expr -> V] : step[<<e, f>>] = IdentsOnce(f, e)
  OBVIOUS
<1>2. \A e \in Expr : \A f \in [Expr -> V] : IdentsOnce(f, e) \in V
  <2>. SUFFICES ASSUME NEW e \in Expr, NEW f \in [Expr -> V] PROVE IdentsOnce(f, e) \in V
    OBVIOUS
  <2>1. \A c \in Parts1(e) : f[c] \in V
    <3>. HIDE DEF V
    <3>. QED  BY PartsInExpr
  <2>. QED  BY <2>1, IdentsOnceIs
<1>3. step \in [Expr \X [Expr -> V] -> V]
  <2>. HIDE DEF V
  <2>. QED  BY <1>2
<1>. HIDE DEF step
<1>4. LooksAtParts(V, step)
  <2>. SUFFICES ASSUME NEW e \in Expr, NEW f \in [Expr -> V], NEW g \in [Expr -> V],
                       \A c \in Parts1(e) : f[c] = g[c]
                PROVE  step[<<e, f>>] = step[<<e, g>>]
    BY DEF LooksAtParts
  <2>1. IdentsOnce(f, e) = IdentsOnce(g, e)
    BY IdentsAgrees
  <2>. HIDE DEF V
  <2>. QED  BY <1>1, <2>1
<1>5. PICK v : v \in V
  <2>1. {} \in V
    BY FS_EmptySet DEF NameSets
  <2>. QED  BY <2>1
<1>6. PICK f : StepsTo(f, V, step)
  <2>. HIDE DEF V
  <2>. QED  BY <1>3, <1>4, <1>5, ExprRecursion
<1>7. f = Body(f)
  <2>1. \A e \in Expr : f[e] = IdentsOnce(f, e)
    <3>1. f \in [Expr -> V] /\ \A e \in Expr : f[e] = step[<<e, f>>]
      BY <1>6 DEF StepsTo
    <3>. HIDE DEF V
    <3>. QED  BY <1>1, <3>1
  <2>2. f = [e \in Expr |-> f[e]]
    BY <1>6 DEF StepsTo
  <2>. QED  BY <2>1, <2>2
<1>8. Idents = [e \in Expr |-> IdentsOnce(Idents, e)]
  BY <1>7 DEF Idents, IdentsOnce
<1>9. \A e \in Expr : Idents[e] = IdentsOnce(Idents, e)
  BY <1>8
<1>10. Expr \subseteq {e \in Expr : Idents[e] \in V}
  <2>. DEFINE T == {e \in Expr : Idents[e] \in V}
  <2>1. ASSUME NEW e \in Expr, Parts1(e) \subseteq T PROVE e \in T
    <3>1. \A c \in Parts1(e) : Idents[c] \in V
      BY <2>1
    <3>2. IdentsOnce(Idents, e) \in V
      BY <3>1, IdentsOnceIs
    <3>. QED  BY <1>9, <3>2
  <2>. HIDE DEF T
  <2>. QED  BY <2>1, ExprInduction DEF T
<1>. QED  BY <1>9, <1>10

LEMMA PathsClosed ==
  /\ <<>> \in Path /\ NoPath \in Path /\ NoPath # <<>>
  /\ \A p \in Path : IterElem(p) \in Path /\ IndexElem(p) \in Path
  /\ \A p \in Path, f \in Field : Extend(p, f) \in Path
<1>1. Nowhere \in Words /\ Iterated \in Words /\ Indexed \in Words /\ Field \subseteq Words
  BY WordsAre
<1>2. <<>> \in Path
  BY DEF Path
<1>3. NoPath \in Path
  <2>1. \A w \in Words : <<w>> \in Seq(Words)
    OBVIOUS
  <2>. QED  BY <1>1, <2>1, Zenon DEF Path, NoPath
<1>4. \A p \in Path, w \in Words : Append(p, w) \in Path
  BY DEF Path
<1>5. NoPath # <<>>
  BY DEF NoPath
<1>. QED  BY <1>1, <1>2, <1>3, <1>4, <1>5 DEF IterElem, IndexElem, Extend

LEMMA PathInIs ==
  ASSUME NEW env \in Envs, NEW n
  PROVE  PathIn(env, n) \in Path
<1>1. \A b \in env : b[2] \in Path
  BY DEF Envs
<1>2. ASSUME \E b \in env : b[1] = n PROVE (CHOOSE b \in env : b[1] = n) \in env
  BY <1>2
<1>. QED  BY <1>1, <1>2, PathsClosed DEF PathIn

\* The path of an expression, given that of its parts.
CelPathOnce(env, f, e) ==
  CASE e.op = "ident" -> PathIn(env, e.name)
    [] e.op = "select" -> Extend(f[e.of], e.field)
    [] e.op = "index" -> IndexElem(f[e.of])
    [] OTHER -> NoPath

LEMMA CelPathCases ==
  ASSUME NEW env, NEW f, NEW e
  PROVE  /\ e.op = "ident" => CelPathOnce(env, f, e) = PathIn(env, e.name)
         /\ e.op = "select" => CelPathOnce(env, f, e) = Extend(f[e.of], e.field)
         /\ e.op = "index" => CelPathOnce(env, f, e) = IndexElem(f[e.of])
         /\ e.op = "test" => CelPathOnce(env, f, e) = NoPath
         /\ e.op = "has" => CelPathOnce(env, f, e) = NoPath
         /\ e.op \in Macros => CelPathOnce(env, f, e) = NoPath
         /\ e.op \in Pairs => CelPathOnce(env, f, e) = NoPath
<1>1. e.op = "ident" => CelPathOnce(env, f, e) = PathIn(env, e.name)
  BY DEF CelPathOnce, Macros, Pairs
<1>2. e.op = "select" => CelPathOnce(env, f, e) = Extend(f[e.of], e.field)
  BY DEF CelPathOnce, Macros, Pairs
<1>3. e.op = "index" => CelPathOnce(env, f, e) = IndexElem(f[e.of])
  BY DEF CelPathOnce, Macros, Pairs
<1>4. e.op = "test" => CelPathOnce(env, f, e) = NoPath
  BY DEF CelPathOnce, Macros, Pairs
<1>5. e.op = "has" => CelPathOnce(env, f, e) = NoPath
  BY DEF CelPathOnce, Macros, Pairs
<1>6. e.op \in Macros => CelPathOnce(env, f, e) = NoPath
  BY DEF CelPathOnce, Macros, Pairs
<1>7. e.op \in Pairs => CelPathOnce(env, f, e) = NoPath
  BY DEF CelPathOnce, Macros, Pairs
<1>. QED  BY <1>1, <1>2, <1>3, <1>4, <1>5, <1>6, <1>7

LEMMA CelPathAgrees ==
  ASSUME NEW env \in Envs, NEW f, NEW g, NEW e \in Expr, \A c \in Parts1(e) : f[c] = g[c]
  PROVE  CelPathOnce(env, f, e) = CelPathOnce(env, g, e)
<1>1. CASE e.op = "ident"
  <2>1. CelPathOnce(env, f, e) = PathIn(env, e.name)
    BY <1>1, CelPathCases
  <2>2. CelPathOnce(env, g, e) = PathIn(env, e.name)
    BY <1>1, CelPathCases
  <2>. QED  BY <1>1, <2>1, <2>2, Shapes
<1>2. CASE e.op = "select"
  <2>1. CelPathOnce(env, f, e) = Extend(f[e.of], e.field)
    BY <1>2, CelPathCases
  <2>2. CelPathOnce(env, g, e) = Extend(g[e.of], e.field)
    BY <1>2, CelPathCases
  <2>. QED  BY <1>2, <2>1, <2>2, Shapes
<1>3. CASE e.op = "index"
  <2>1. CelPathOnce(env, f, e) = IndexElem(f[e.of])
    BY <1>3, CelPathCases
  <2>2. CelPathOnce(env, g, e) = IndexElem(g[e.of])
    BY <1>3, CelPathCases
  <2>. QED  BY <1>3, <2>1, <2>2, Shapes
<1>4. CASE e.op = "test"
  <2>1. CelPathOnce(env, f, e) = NoPath
    BY <1>4, CelPathCases
  <2>2. CelPathOnce(env, g, e) = NoPath
    BY <1>4, CelPathCases
  <2>. QED  BY <1>4, <2>1, <2>2, Shapes
<1>5. CASE e.op = "has"
  <2>1. CelPathOnce(env, f, e) = NoPath
    BY <1>5, CelPathCases
  <2>2. CelPathOnce(env, g, e) = NoPath
    BY <1>5, CelPathCases
  <2>. QED  BY <1>5, <2>1, <2>2, Shapes
<1>6. CASE e.op \in Macros
  <2>1. CelPathOnce(env, f, e) = NoPath
    BY <1>6, CelPathCases
  <2>2. CelPathOnce(env, g, e) = NoPath
    BY <1>6, CelPathCases
  <2>. QED  BY <1>6, <2>1, <2>2, Shapes
<1>7. CASE e.op \in Pairs
  <2>1. CelPathOnce(env, f, e) = NoPath
    BY <1>7, CelPathCases
  <2>2. CelPathOnce(env, g, e) = NoPath
    BY <1>7, CelPathCases
  <2>. QED  BY <1>7, <2>1, <2>2, Shapes
<1>. QED  BY <1>1, <1>2, <1>3, <1>4, <1>5, <1>6, <1>7, Shapes

LEMMA CelPathOnceIs ==
  ASSUME NEW env \in Envs, NEW f, NEW e \in Expr, \A c \in Parts1(e) : f[c] \in Path
  PROVE  CelPathOnce(env, f, e) \in Path
<1>1. CASE e.op = "ident"
  <2>1. CelPathOnce(env, f, e) = PathIn(env, e.name)
    BY <1>1, CelPathCases
  <2>. QED  BY <1>1, <2>1, Shapes, PathInIs
<1>2. CASE e.op = "select"
  <2>1. CelPathOnce(env, f, e) = Extend(f[e.of], e.field)
    BY <1>2, CelPathCases
  <2>. QED  BY <1>2, <2>1, Shapes, PathsClosed
<1>3. CASE e.op = "index"
  <2>1. CelPathOnce(env, f, e) = IndexElem(f[e.of])
    BY <1>3, CelPathCases
  <2>. QED  BY <1>3, <2>1, Shapes, PathsClosed
<1>4. CASE e.op = "test"
  <2>1. CelPathOnce(env, f, e) = NoPath
    BY <1>4, CelPathCases
  <2>. QED  BY <1>4, <2>1, Shapes, PathsClosed
<1>5. CASE e.op = "has"
  <2>1. CelPathOnce(env, f, e) = NoPath
    BY <1>5, CelPathCases
  <2>. QED  BY <1>5, <2>1, Shapes, PathsClosed
<1>6. CASE e.op \in Macros
  <2>1. CelPathOnce(env, f, e) = NoPath
    BY <1>6, CelPathCases
  <2>. QED  BY <1>6, <2>1, Shapes, PathsClosed
<1>7. CASE e.op \in Pairs
  <2>1. CelPathOnce(env, f, e) = NoPath
    BY <1>7, CelPathCases
  <2>. QED  BY <1>7, <2>1, Shapes, PathsClosed
<1>. QED  BY <1>1, <1>2, <1>3, <1>4, <1>5, <1>6, <1>7, Shapes

LEMMA CelPathIs ==
  ASSUME NEW env \in Envs
  PROVE  \A e \in Expr : CelPath(env)[e] = CelPathOnce(env, CelPath(env), e) /\ CelPath(env)[e] \in Path
<1>. DEFINE V == Path
            Body(f) == [e \in Expr |-> CelPathOnce(env, f, e)]
            step == [z \in Expr \X [Expr -> V] |-> CelPathOnce(env, z[2], z[1])]
<1>1. \A e \in Expr : \A f \in [Expr -> V] : step[<<e, f>>] = CelPathOnce(env, f, e)
  OBVIOUS
<1>2. \A e \in Expr : \A f \in [Expr -> V] : CelPathOnce(env, f, e) \in V
  <2>. SUFFICES ASSUME NEW e \in Expr, NEW f \in [Expr -> V] PROVE CelPathOnce(env, f, e) \in V
    OBVIOUS
  <2>1. \A c \in Parts1(e) : f[c] \in V
    <3>. HIDE DEF V
    <3>. QED  BY PartsInExpr
  <2>. QED  BY <2>1, CelPathOnceIs
<1>3. step \in [Expr \X [Expr -> V] -> V]
  <2>. HIDE DEF V
  <2>. QED  BY <1>2
<1>. HIDE DEF step
<1>4. LooksAtParts(V, step)
  <2>. SUFFICES ASSUME NEW e \in Expr, NEW f \in [Expr -> V], NEW g \in [Expr -> V],
                       \A c \in Parts1(e) : f[c] = g[c]
                PROVE  step[<<e, f>>] = step[<<e, g>>]
    BY DEF LooksAtParts
  <2>1. CelPathOnce(env, f, e) = CelPathOnce(env, g, e)
    BY CelPathAgrees
  <2>. HIDE DEF V
  <2>. QED  BY <1>1, <2>1
<1>5. PICK v : v \in V
  BY PathsClosed
<1>6. PICK f : StepsTo(f, V, step)
  <2>. HIDE DEF V
  <2>. QED  BY <1>3, <1>4, <1>5, ExprRecursion
<1>7. f = Body(f)
  <2>1. \A e \in Expr : f[e] = CelPathOnce(env, f, e)
    <3>1. f \in [Expr -> V] /\ \A e \in Expr : f[e] = step[<<e, f>>]
      BY <1>6 DEF StepsTo
    <3>. HIDE DEF V
    <3>. QED  BY <1>1, <3>1
  <2>2. f = [e \in Expr |-> f[e]]
    BY <1>6 DEF StepsTo
  <2>. QED  BY <2>1, <2>2
<1>8. CelPath(env) = [e \in Expr |-> CelPathOnce(env, CelPath(env), e)]
  BY <1>7 DEF CelPath, CelPathOnce
<1>9. \A e \in Expr : CelPath(env)[e] = CelPathOnce(env, CelPath(env), e)
  BY <1>8
<1>10. Expr \subseteq {e \in Expr : CelPath(env)[e] \in V}
  <2>. DEFINE T == {e \in Expr : CelPath(env)[e] \in V}
  <2>1. ASSUME NEW e \in Expr, Parts1(e) \subseteq T PROVE e \in T
    <3>1. \A c \in Parts1(e) : CelPath(env)[c] \in V
      BY <2>1
    <3>2. CelPathOnce(env, CelPath(env), e) \in V
      BY <3>1, CelPathOnceIs
    <3>. QED  BY <1>9, <3>2
  <2>. HIDE DEF T
  <2>. QED  BY <2>1, ExprInduction DEF T
<1>. QED  BY <1>9, <1>10

LEMMA InnerEnvIs ==
  ASSUME NEW env \in Envs, NEW v \in Variable, NEW p \in Path
  PROVE  InnerEnv(env, v, p) \in Envs
BY DEF InnerEnv, Others, Envs

\* The paths collected from an expression, given those from its parts.
SelectPathsAt(f, e, env) ==
  LET elem == IterElem(CelPath(env)[e.of])
  IN CASE e.op = "ident" -> {}
       [] e.op \in {"select", "index"} -> ({CelPath(env)[e]} \ {NoPath}) \cup f[e.of][env]
       [] e.op \in Macros ->
            f[e.of][env] \cup ({elem} \ {NoPath}) \cup f[e.body][InnerEnv(env, e.var, elem)]
       [] e.op \in Pairs -> f[e.of][env] \cup f[e.other][env]
       [] e.op = "has" -> ({CelPath(env)[e.of]} \ {NoPath}) \cup f[e.of.of][env]
       [] OTHER -> f[e.of][env]
SelectPathsOnce(f, e) == [env \in Envs |-> SelectPathsAt(f, e, env)]

LEMMA SelectPathsCases ==
  ASSUME NEW f, NEW e, NEW env
  PROVE  /\ e.op = "ident" => SelectPathsAt(f, e, env) = {}
         /\ e.op = "select" => SelectPathsAt(f, e, env) = ({CelPath(env)[e]} \ {NoPath}) \cup f[e.of][env]
         /\ e.op = "index" => SelectPathsAt(f, e, env) = ({CelPath(env)[e]} \ {NoPath}) \cup f[e.of][env]
         /\ e.op = "test" => SelectPathsAt(f, e, env) = f[e.of][env]
         /\ e.op = "has" => SelectPathsAt(f, e, env) = ({CelPath(env)[e.of]} \ {NoPath}) \cup f[e.of.of][env]
         /\ e.op \in Macros => SelectPathsAt(f, e, env) = f[e.of][env] \cup ({IterElem(CelPath(env)[e.of])} \ {NoPath})
            \cup f[e.body][InnerEnv(env, e.var, IterElem(CelPath(env)[e.of]))]
         /\ e.op \in Pairs => SelectPathsAt(f, e, env) = f[e.of][env] \cup f[e.other][env]
<1>1. e.op = "ident" => SelectPathsAt(f, e, env) = {}
  BY DEF SelectPathsAt, Macros, Pairs
<1>2. e.op = "select" => SelectPathsAt(f, e, env) = ({CelPath(env)[e]} \ {NoPath}) \cup f[e.of][env]
  BY DEF SelectPathsAt, Macros, Pairs
<1>3. e.op = "index" => SelectPathsAt(f, e, env) = ({CelPath(env)[e]} \ {NoPath}) \cup f[e.of][env]
  BY DEF SelectPathsAt, Macros, Pairs
<1>4. e.op = "test" => SelectPathsAt(f, e, env) = f[e.of][env]
  BY DEF SelectPathsAt, Macros, Pairs
<1>5. e.op = "has" => SelectPathsAt(f, e, env) = ({CelPath(env)[e.of]} \ {NoPath}) \cup f[e.of.of][env]
  BY DEF SelectPathsAt, Macros, Pairs
<1>6. e.op \in Macros => SelectPathsAt(f, e, env) = f[e.of][env] \cup ({IterElem(CelPath(env)[e.of])} \ {NoPath})
            \cup f[e.body][InnerEnv(env, e.var, IterElem(CelPath(env)[e.of]))]
  BY DEF SelectPathsAt, Macros, Pairs
<1>7. e.op \in Pairs => SelectPathsAt(f, e, env) = f[e.of][env] \cup f[e.other][env]
  BY DEF SelectPathsAt, Macros, Pairs
<1>. QED  BY <1>1, <1>2, <1>3, <1>4, <1>5, <1>6, <1>7

LEMMA SelectPathsAgrees ==
  ASSUME NEW f, NEW g, NEW e \in Expr, \A c \in Parts1(e) : f[c] = g[c]
  PROVE  SelectPathsOnce(f, e) = SelectPathsOnce(g, e)
<1>. SUFFICES ASSUME NEW env \in Envs PROVE SelectPathsAt(f, e, env) = SelectPathsAt(g, e, env)
  BY DEF SelectPathsOnce
<1>1. CASE e.op = "ident"
  <2>1. SelectPathsAt(f, e, env) = {}
    BY <1>1, SelectPathsCases
  <2>2. SelectPathsAt(g, e, env) = {}
    BY <1>1, SelectPathsCases
  <2>. QED  BY <1>1, <2>1, <2>2, Shapes
<1>2. CASE e.op = "select"
  <2>1. SelectPathsAt(f, e, env) = ({CelPath(env)[e]} \ {NoPath}) \cup f[e.of][env]
    BY <1>2, SelectPathsCases
  <2>2. SelectPathsAt(g, e, env) = ({CelPath(env)[e]} \ {NoPath}) \cup g[e.of][env]
    BY <1>2, SelectPathsCases
  <2>. QED  BY <1>2, <2>1, <2>2, Shapes
<1>3. CASE e.op = "index"
  <2>1. SelectPathsAt(f, e, env) = ({CelPath(env)[e]} \ {NoPath}) \cup f[e.of][env]
    BY <1>3, SelectPathsCases
  <2>2. SelectPathsAt(g, e, env) = ({CelPath(env)[e]} \ {NoPath}) \cup g[e.of][env]
    BY <1>3, SelectPathsCases
  <2>. QED  BY <1>3, <2>1, <2>2, Shapes
<1>4. CASE e.op = "test"
  <2>1. SelectPathsAt(f, e, env) = f[e.of][env]
    BY <1>4, SelectPathsCases
  <2>2. SelectPathsAt(g, e, env) = g[e.of][env]
    BY <1>4, SelectPathsCases
  <2>. QED  BY <1>4, <2>1, <2>2, Shapes
<1>5. CASE e.op = "has"
  <2>1. SelectPathsAt(f, e, env) = ({CelPath(env)[e.of]} \ {NoPath}) \cup f[e.of.of][env]
    BY <1>5, SelectPathsCases
  <2>2. SelectPathsAt(g, e, env) = ({CelPath(env)[e.of]} \ {NoPath}) \cup g[e.of.of][env]
    BY <1>5, SelectPathsCases
  <2>. QED  BY <1>5, <2>1, <2>2, Shapes
<1>6. CASE e.op \in Macros
  <2>1. SelectPathsAt(f, e, env) = f[e.of][env] \cup ({IterElem(CelPath(env)[e.of])} \ {NoPath})
            \cup f[e.body][InnerEnv(env, e.var, IterElem(CelPath(env)[e.of]))]
    BY <1>6, SelectPathsCases
  <2>2. SelectPathsAt(g, e, env) = g[e.of][env] \cup ({IterElem(CelPath(env)[e.of])} \ {NoPath})
            \cup g[e.body][InnerEnv(env, e.var, IterElem(CelPath(env)[e.of]))]
    BY <1>6, SelectPathsCases
  <2>. QED  BY <1>6, <2>1, <2>2, Shapes
<1>7. CASE e.op \in Pairs
  <2>1. SelectPathsAt(f, e, env) = f[e.of][env] \cup f[e.other][env]
    BY <1>7, SelectPathsCases
  <2>2. SelectPathsAt(g, e, env) = g[e.of][env] \cup g[e.other][env]
    BY <1>7, SelectPathsCases
  <2>. QED  BY <1>7, <2>1, <2>2, Shapes
<1>. QED  BY <1>1, <1>2, <1>3, <1>4, <1>5, <1>6, <1>7, Shapes

LEMMA SelectPathsOnceIs ==
  ASSUME NEW f, NEW e \in Expr, \A c \in Parts1(e) : f[c] \in [Envs -> SUBSET Path]
  PROVE  SelectPathsOnce(f, e) \in [Envs -> SUBSET Path]
<1>. SUFFICES ASSUME NEW env \in Envs PROVE SelectPathsAt(f, e, env) \in SUBSET Path
  BY DEF SelectPathsOnce
<1>0. \A c \in Parts1(e), y \in Envs : f[c][y] \in SUBSET Path
  OBVIOUS
<1>1. CASE e.op = "ident"
  <2>1. SelectPathsAt(f, e, env) = {}
    BY <1>1, SelectPathsCases
  <2>. QED  BY <1>0, <1>1, <2>1, Shapes
<1>2. CASE e.op = "select"
  <2>1. SelectPathsAt(f, e, env) = ({CelPath(env)[e]} \ {NoPath}) \cup f[e.of][env]
    BY <1>2, SelectPathsCases
  <2>. QED  BY <1>0, <1>2, <2>1, Shapes, CelPathIs
<1>3. CASE e.op = "index"
  <2>1. SelectPathsAt(f, e, env) = ({CelPath(env)[e]} \ {NoPath}) \cup f[e.of][env]
    BY <1>3, SelectPathsCases
  <2>. QED  BY <1>0, <1>3, <2>1, Shapes, CelPathIs
<1>4. CASE e.op = "test"
  <2>1. SelectPathsAt(f, e, env) = f[e.of][env]
    BY <1>4, SelectPathsCases
  <2>. QED  BY <1>0, <1>4, <2>1, Shapes
<1>5. CASE e.op = "has"
  <2>1. SelectPathsAt(f, e, env) = ({CelPath(env)[e.of]} \ {NoPath}) \cup f[e.of.of][env]
    BY <1>5, SelectPathsCases
  <2>. QED  BY <1>0, <1>5, <2>1, Shapes, CelPathIs
<1>6. CASE e.op \in Macros
  <2>. DEFINE elem == IterElem(CelPath(env)[e.of])
  <2>1. e.var \in Variable /\ e.of \in Expr /\ e.of \in Parts1(e) /\ e.body \in Parts1(e)
    BY <1>6, Shapes
  <2>2. elem \in Path
    BY <2>1, CelPathIs, PathsClosed
  <2>3. InnerEnv(env, e.var, elem) \in Envs
    BY <2>1, <2>2, InnerEnvIs
  <2>4. SelectPathsAt(f, e, env) = f[e.of][env] \cup ({elem} \ {NoPath}) \cup f[e.body][InnerEnv(env, e.var, elem)]
    BY <1>6, SelectPathsCases
  <2>. HIDE DEF elem
  <2>. QED  BY <1>0, <2>1, <2>2, <2>3, <2>4
<1>7. CASE e.op \in Pairs
  <2>1. SelectPathsAt(f, e, env) = f[e.of][env] \cup f[e.other][env]
    BY <1>7, SelectPathsCases
  <2>. QED  BY <1>0, <1>7, <2>1, Shapes
<1>. QED  BY <1>1, <1>2, <1>3, <1>4, <1>5, <1>6, <1>7, Shapes

LEMMA SelectPathsIs ==
  \A e \in Expr : SelectPaths[e] = SelectPathsOnce(SelectPaths, e) /\ SelectPaths[e] \in [Envs -> SUBSET Path]
<1>. DEFINE V == [Envs -> SUBSET Path]
            Body(f) == [e \in Expr |-> SelectPathsOnce(f, e)]
            step == [z \in Expr \X [Expr -> V] |-> SelectPathsOnce(z[2], z[1])]
<1>1. \A e \in Expr : \A f \in [Expr -> V] : step[<<e, f>>] = SelectPathsOnce(f, e)
  OBVIOUS
<1>2. \A e \in Expr : \A f \in [Expr -> V] : SelectPathsOnce(f, e) \in V
  <2>. SUFFICES ASSUME NEW e \in Expr, NEW f \in [Expr -> V] PROVE SelectPathsOnce(f, e) \in V
    OBVIOUS
  <2>1. \A c \in Parts1(e) : f[c] \in V
    <3>. HIDE DEF V
    <3>. QED  BY PartsInExpr
  <2>. QED  BY <2>1, SelectPathsOnceIs
<1>3. step \in [Expr \X [Expr -> V] -> V]
  <2>. HIDE DEF V
  <2>. QED  BY <1>2
<1>. HIDE DEF step
<1>4. LooksAtParts(V, step)
  <2>. SUFFICES ASSUME NEW e \in Expr, NEW f \in [Expr -> V], NEW g \in [Expr -> V],
                       \A c \in Parts1(e) : f[c] = g[c]
                PROVE  step[<<e, f>>] = step[<<e, g>>]
    BY DEF LooksAtParts
  <2>1. SelectPathsOnce(f, e) = SelectPathsOnce(g, e)
    BY SelectPathsAgrees
  <2>. HIDE DEF V
  <2>. QED  BY <1>1, <2>1
<1>5. PICK v : v \in V
  <2>1. [env \in Envs |-> {}] \in V
    OBVIOUS
  <2>. QED  BY <2>1
<1>6. PICK f : StepsTo(f, V, step)
  <2>. HIDE DEF V
  <2>. QED  BY <1>3, <1>4, <1>5, ExprRecursion
<1>7. f = Body(f)
  <2>1. \A e \in Expr : f[e] = SelectPathsOnce(f, e)
    <3>1. f \in [Expr -> V] /\ \A e \in Expr : f[e] = step[<<e, f>>]
      BY <1>6 DEF StepsTo
    <3>. HIDE DEF V
    <3>. QED  BY <1>1, <3>1
  <2>2. f = [e \in Expr |-> f[e]]
    BY <1>6 DEF StepsTo
  <2>. QED  BY <2>1, <2>2
<1>8. SelectPaths = [e \in Expr |-> SelectPathsOnce(SelectPaths, e)]
  BY <1>7 DEF SelectPaths, SelectPathsOnce, SelectPathsAt
<1>9. \A e \in Expr : SelectPaths[e] = SelectPathsOnce(SelectPaths, e)
  BY <1>8
<1>10. Expr \subseteq {e \in Expr : SelectPaths[e] \in V}
  <2>. DEFINE T == {e \in Expr : SelectPaths[e] \in V}
  <2>1. ASSUME NEW e \in Expr, Parts1(e) \subseteq T PROVE e \in T
    <3>1. \A c \in Parts1(e) : SelectPaths[c] \in V
      BY <2>1
    <3>2. SelectPathsOnce(SelectPaths, e) \in V
      BY <3>1, SelectPathsOnceIs
    <3>. QED  BY <1>9, <3>2
  <2>. HIDE DEF T
  <2>. QED  BY <2>1, ExprInduction DEF T
<1>. QED  BY <1>9, <1>10

LEMMA SelectPathsEquals ==
  ASSUME NEW e \in Expr, NEW env \in Envs
  PROVE  SelectPaths[e][env] = SelectPathsAt(SelectPaths, e, env) /\ SelectPaths[e][env] \in SUBSET Path
<1>1. SelectPaths[e] = SelectPathsOnce(SelectPaths, e) /\ SelectPaths[e] \in [Envs -> SUBSET Path]
  BY SelectPathsIs
<1>2. SelectPathsOnce(SelectPaths, e)[env] = SelectPathsAt(SelectPaths, e, env)
  BY DEF SelectPathsOnce
<1>. QED  BY <1>1, <1>2

LEMMA TypesAlongIs ==
  ASSUME NEW path, NEW start \in Type
  PROVE  /\ TypesAlong(path, start) \in [Nat -> Type]
         /\ TypesAlong(path, start)[0] = start
         /\ \A i \in Nat : TypesAlong(path, start)[i + 1] = StepType(TypesAlong(path, start)[i], Word(path, i + 1))
<1>. DEFINE step == [x \in Nat \X Type |-> StepType(x[2], Word(path, x[1] + 1))]
            Body(f) == [i \in Nat |-> IF i = 0 THEN start ELSE StepType(f[i - 1], Word(path, i))]
<1>1. step \in [Nat \X Type -> Type]
  <2>1. \A t \in Type : \A comp : StepType(t, comp) \in Type
    BY StepTypeIs
  <2>. QED  BY <2>1
<1>2. \A n \in Nat, t \in Type : step[<<n, t>>] = StepType(t, Word(path, n + 1))
  OBVIOUS
<1>. HIDE DEF step
<1>3. PICK f : Recurses(f, Type, start, step)
  BY <1>1, Recursion
<1>4. f \in [Nat -> Type] /\ f[0] = start /\ \A n \in Nat : f[n + 1] = StepType(f[n], Word(path, n + 1))
  BY <1>2, <1>3 DEF Recurses
<1>5. f = Body(f)
  <2>. DEFINE value(i) == IF i = 0 THEN start ELSE StepType(f[i - 1], Word(path, i))
  <2>1. ASSUME NEW i \in Nat PROVE f[i] = value(i)
    <3>1. CASE i = 0
      BY <1>4, <3>1
    <3>2. CASE i # 0
      <4>1. i - 1 \in Nat /\ (i - 1) + 1 = i
        BY <3>2
      <4>2. f[(i - 1) + 1] = StepType(f[i - 1], Word(path, (i - 1) + 1))
        BY <1>4, <4>1
      <4>. QED  BY <3>2, <4>1, <4>2
    <3>. QED  BY <3>1, <3>2
  <2>2. f = [i \in Nat |-> f[i]]
    BY <1>4
  <2>. QED  BY <2>1, <2>2
<1>6. TypesAlong(path, start) = CHOOSE g : g = Body(g)
  BY DEF TypesAlong
<1>. DEFINE type == TypesAlong(path, start)
<1>7. type = Body(type)
  <2>. HIDE DEF Body
  <2>. QED  BY <1>5, <1>6
<1>. HIDE DEF type
<1>8. type[0] = start
  BY <1>7
<1>9. ASSUME NEW i \in Nat PROVE type[i + 1] = StepType(type[i], Word(path, i + 1))
  <2>1. i + 1 \in Nat /\ i + 1 # 0 /\ (i + 1) - 1 = i
    OBVIOUS
  <2>2. type[i + 1] = Body(type)[i + 1]
    BY <1>7
  <2>. QED  BY <2>1, <2>2
<1>10. \A i \in Nat : type[i] \in Type
  <2>. DEFINE T == {i \in Nat : type[i] \in Type}
  <2>1. 0 \in T
    BY <1>8
  <2>2. ASSUME NEW i \in Nat, i \in T PROVE i + 1 \in T
    BY <1>9, <2>2, StepTypeIs
  <2>. HIDE DEF T
  <2>3. Nat \subseteq T
    BY <2>1, <2>2, Induction
  <2>. QED  BY <2>3 DEF T
<1>11. type = [i \in Nat |-> type[i]]
  BY <1>7
<1>. QED  BY <1>8, <1>9, <1>10, <1>11 DEF type

LEMMA TypedIs ==
  ASSUME NEW scope \in Scopes, NEW v \in Variable, NEW t \in Type
  PROVE  Typed(scope, v, t) \in Scopes
<1>1. ElemType(t) \in Type /\ NoPath \in Path /\ v \in Name
  BY StepTypeIs, PathsClosed DEF Variable
<1>2. [var |-> v, path |-> NoPath, type |-> ElemType(t), lean |-> v] \in Entry
  BY <1>1 DEF Entry
<1>. QED  BY <1>2, ScopeGrows DEF Typed

LEMMA NoTypeIs == NoType \in Type
BY DEF NoType, Type

\* The type of an expression, given that of its parts.
TypeOfAt(this, f, e, scope) ==
  LET i == BoundAt(scope, e.name)
      t == f[e.of][scope]
  IN CASE e.op = "ident" -> IF i # 0 THEN scope[i].type ELSE IF e = This THEN this ELSE NoType
       [] e.op = "select" -> IF Kind(t) \in {"message", "map"} THEN StepType(t, e.field) ELSE NoType
       [] e.op = "index" -> IF Kind(t) \in {"list", "map"} THEN ElemOf(t) ELSE NoType
       [] e.op \in {"filter", "conditional"} -> t
       [] e.op = "map" -> List(f[e.body][Typed(scope, e.var, t)])
       [] OTHER -> Scalar("bool")
TypeOfOnce(this, f, e) == [scope \in Scopes |-> TypeOfAt(this, f, e, scope)]

LEMMA TypeOfCases ==
  ASSUME NEW this, NEW f, NEW e, NEW scope
  PROVE  /\ e.op = "ident" => TypeOfAt(this, f, e, scope) = IF BoundAt(scope, e.name) # 0 THEN scope[BoundAt(scope, e.name)].type
            ELSE IF e = This THEN this ELSE NoType
         /\ e.op = "select" => TypeOfAt(this, f, e, scope) = IF Kind(f[e.of][scope]) \in {"message", "map"}
            THEN StepType(f[e.of][scope], e.field) ELSE NoType
         /\ e.op = "index" => TypeOfAt(this, f, e, scope) = IF Kind(f[e.of][scope]) \in {"list", "map"} THEN ElemOf(f[e.of][scope]) ELSE NoType
         /\ e.op = "test" => TypeOfAt(this, f, e, scope) = Scalar("bool")
         /\ e.op = "has" => TypeOfAt(this, f, e, scope) = Scalar("bool")
         /\ e.op \in Macros => TypeOfAt(this, f, e, scope) = IF e.op = "filter" THEN f[e.of][scope]
            ELSE IF e.op = "map" THEN List(f[e.body][Typed(scope, e.var, f[e.of][scope])]) ELSE Scalar("bool")
         /\ e.op \in Pairs => TypeOfAt(this, f, e, scope) = IF e.op = "conditional" THEN f[e.of][scope] ELSE Scalar("bool")
<1>1. e.op = "ident" => TypeOfAt(this, f, e, scope) = IF BoundAt(scope, e.name) # 0 THEN scope[BoundAt(scope, e.name)].type
            ELSE IF e = This THEN this ELSE NoType
  BY DEF TypeOfAt, Macros, Pairs
<1>2. e.op = "select" => TypeOfAt(this, f, e, scope) = IF Kind(f[e.of][scope]) \in {"message", "map"}
            THEN StepType(f[e.of][scope], e.field) ELSE NoType
  BY DEF TypeOfAt, Macros, Pairs
<1>3. e.op = "index" => TypeOfAt(this, f, e, scope) = IF Kind(f[e.of][scope]) \in {"list", "map"} THEN ElemOf(f[e.of][scope]) ELSE NoType
  BY DEF TypeOfAt, Macros, Pairs
<1>4. e.op = "test" => TypeOfAt(this, f, e, scope) = Scalar("bool")
  BY DEF TypeOfAt, Macros, Pairs
<1>5. e.op = "has" => TypeOfAt(this, f, e, scope) = Scalar("bool")
  BY DEF TypeOfAt, Macros, Pairs
<1>6. e.op \in Macros => TypeOfAt(this, f, e, scope) = IF e.op = "filter" THEN f[e.of][scope]
            ELSE IF e.op = "map" THEN List(f[e.body][Typed(scope, e.var, f[e.of][scope])]) ELSE Scalar("bool")
  BY DEF TypeOfAt, Macros, Pairs
<1>7. e.op \in Pairs => TypeOfAt(this, f, e, scope) = IF e.op = "conditional" THEN f[e.of][scope] ELSE Scalar("bool")
  BY DEF TypeOfAt, Macros, Pairs
<1>. QED  BY <1>1, <1>2, <1>3, <1>4, <1>5, <1>6, <1>7

LEMMA TypeOfAgrees ==
  ASSUME NEW this \in Type, NEW f, NEW g, NEW e \in Expr, \A c \in Parts1(e) : f[c] = g[c]
  PROVE  TypeOfOnce(this, f, e) = TypeOfOnce(this, g, e)
<1>. SUFFICES ASSUME NEW scope \in Scopes PROVE TypeOfAt(this, f, e, scope) = TypeOfAt(this, g, e, scope)
  BY DEF TypeOfOnce
<1>1. CASE e.op = "ident"
  <2>1. TypeOfAt(this, f, e, scope) = IF BoundAt(scope, e.name) # 0 THEN scope[BoundAt(scope, e.name)].type
            ELSE IF e = This THEN this ELSE NoType
    BY <1>1, TypeOfCases
  <2>2. TypeOfAt(this, g, e, scope) = IF BoundAt(scope, e.name) # 0 THEN scope[BoundAt(scope, e.name)].type
            ELSE IF e = This THEN this ELSE NoType
    BY <1>1, TypeOfCases
  <2>. QED  BY <1>1, <2>1, <2>2, Shapes
<1>2. CASE e.op = "select"
  <2>1. TypeOfAt(this, f, e, scope) = IF Kind(f[e.of][scope]) \in {"message", "map"}
            THEN StepType(f[e.of][scope], e.field) ELSE NoType
    BY <1>2, TypeOfCases
  <2>2. TypeOfAt(this, g, e, scope) = IF Kind(g[e.of][scope]) \in {"message", "map"}
            THEN StepType(g[e.of][scope], e.field) ELSE NoType
    BY <1>2, TypeOfCases
  <2>. QED  BY <1>2, <2>1, <2>2, Shapes
<1>3. CASE e.op = "index"
  <2>1. TypeOfAt(this, f, e, scope) = IF Kind(f[e.of][scope]) \in {"list", "map"} THEN ElemOf(f[e.of][scope]) ELSE NoType
    BY <1>3, TypeOfCases
  <2>2. TypeOfAt(this, g, e, scope) = IF Kind(g[e.of][scope]) \in {"list", "map"} THEN ElemOf(g[e.of][scope]) ELSE NoType
    BY <1>3, TypeOfCases
  <2>. QED  BY <1>3, <2>1, <2>2, Shapes
<1>4. CASE e.op = "test"
  <2>1. TypeOfAt(this, f, e, scope) = Scalar("bool")
    BY <1>4, TypeOfCases
  <2>2. TypeOfAt(this, g, e, scope) = Scalar("bool")
    BY <1>4, TypeOfCases
  <2>. QED  BY <1>4, <2>1, <2>2, Shapes
<1>5. CASE e.op = "has"
  <2>1. TypeOfAt(this, f, e, scope) = Scalar("bool")
    BY <1>5, TypeOfCases
  <2>2. TypeOfAt(this, g, e, scope) = Scalar("bool")
    BY <1>5, TypeOfCases
  <2>. QED  BY <1>5, <2>1, <2>2, Shapes
<1>6. CASE e.op \in Macros
  <2>1. TypeOfAt(this, f, e, scope) = IF e.op = "filter" THEN f[e.of][scope]
            ELSE IF e.op = "map" THEN List(f[e.body][Typed(scope, e.var, f[e.of][scope])]) ELSE Scalar("bool")
    BY <1>6, TypeOfCases
  <2>2. TypeOfAt(this, g, e, scope) = IF e.op = "filter" THEN g[e.of][scope]
            ELSE IF e.op = "map" THEN List(g[e.body][Typed(scope, e.var, g[e.of][scope])]) ELSE Scalar("bool")
    BY <1>6, TypeOfCases
  <2>. QED  BY <1>6, <2>1, <2>2, Shapes
<1>7. CASE e.op \in Pairs
  <2>1. TypeOfAt(this, f, e, scope) = IF e.op = "conditional" THEN f[e.of][scope] ELSE Scalar("bool")
    BY <1>7, TypeOfCases
  <2>2. TypeOfAt(this, g, e, scope) = IF e.op = "conditional" THEN g[e.of][scope] ELSE Scalar("bool")
    BY <1>7, TypeOfCases
  <2>. QED  BY <1>7, <2>1, <2>2, Shapes
<1>. QED  BY <1>1, <1>2, <1>3, <1>4, <1>5, <1>6, <1>7, Shapes

LEMMA TypeOfOnceIs ==
  ASSUME NEW this \in Type, NEW f, NEW e \in Expr, \A c \in Parts1(e) : f[c] \in [Scopes -> Type]
  PROVE  TypeOfOnce(this, f, e) \in [Scopes -> Type]
<1>. SUFFICES ASSUME NEW scope \in Scopes PROVE TypeOfAt(this, f, e, scope) \in Type
  BY DEF TypeOfOnce
<1>0. \A c \in Parts1(e), y \in Scopes : f[c][y] \in Type
  OBVIOUS
<1>1. CASE e.op = "ident"
  <2>1. TypeOfAt(this, f, e, scope) = IF BoundAt(scope, e.name) # 0 THEN scope[BoundAt(scope, e.name)].type
            ELSE IF e = This THEN this ELSE NoType
    BY <1>1, TypeOfCases
  <2>. QED  BY <1>0, <1>1, <2>1, Shapes, BoundAtIs, ScopeIs, NoTypeIs
<1>2. CASE e.op = "select"
  <2>1. TypeOfAt(this, f, e, scope) = IF Kind(f[e.of][scope]) \in {"message", "map"}
            THEN StepType(f[e.of][scope], e.field) ELSE NoType
    BY <1>2, TypeOfCases
  <2>. QED  BY <1>0, <1>2, <2>1, Shapes, StepTypeIs, NoTypeIs
<1>3. CASE e.op = "index"
  <2>1. TypeOfAt(this, f, e, scope) = IF Kind(f[e.of][scope]) \in {"list", "map"} THEN ElemOf(f[e.of][scope]) ELSE NoType
    BY <1>3, TypeOfCases
  <2>. QED  BY <1>0, <1>3, <2>1, Shapes, TypesClosed
<1>4. CASE e.op = "test"
  <2>1. TypeOfAt(this, f, e, scope) = Scalar("bool")
    BY <1>4, TypeOfCases
  <2>. QED  BY <1>0, <1>4, <2>1, Shapes, WordsAre, ScalarIs
<1>5. CASE e.op = "has"
  <2>1. TypeOfAt(this, f, e, scope) = Scalar("bool")
    BY <1>5, TypeOfCases
  <2>. QED  BY <1>0, <1>5, <2>1, Shapes, WordsAre, ScalarIs
<1>6. CASE e.op \in Macros
  <2>1. e.var \in Variable /\ e.of \in Parts1(e) /\ e.body \in Parts1(e)
    BY <1>6, Shapes
  <2>2. f[e.of][scope] \in Type
    BY <1>0, <2>1
  <2>3. Typed(scope, e.var, f[e.of][scope]) \in Scopes
    BY <2>1, <2>2, TypedIs
  <2>4. List(f[e.body][Typed(scope, e.var, f[e.of][scope])]) \in Type
    BY <1>0, <2>1, <2>3, TypesClosed
  <2>5. Scalar("bool") \in Type
    BY WordsAre, ScalarIs
  <2>6. TypeOfAt(this, f, e, scope) = IF e.op = "filter" THEN f[e.of][scope]
            ELSE IF e.op = "map" THEN List(f[e.body][Typed(scope, e.var, f[e.of][scope])]) ELSE Scalar("bool")
    BY <1>6, TypeOfCases
  <2>. QED  BY <2>2, <2>4, <2>5, <2>6
<1>7. CASE e.op \in Pairs
  <2>1. TypeOfAt(this, f, e, scope) = IF e.op = "conditional" THEN f[e.of][scope] ELSE Scalar("bool")
    BY <1>7, TypeOfCases
  <2>. QED  BY <1>0, <1>7, <2>1, Shapes, WordsAre, ScalarIs
<1>. QED  BY <1>1, <1>2, <1>3, <1>4, <1>5, <1>6, <1>7, Shapes

LEMMA TypeOfIs ==
  ASSUME NEW this \in Type
  PROVE  \A e \in Expr : TypeOf(this)[e] = TypeOfOnce(this, TypeOf(this), e) /\ TypeOf(this)[e] \in [Scopes -> Type]
<1>. DEFINE V == [Scopes -> Type]
            Body(f) == [e \in Expr |-> TypeOfOnce(this, f, e)]
            step == [z \in Expr \X [Expr -> V] |-> TypeOfOnce(this, z[2], z[1])]
<1>1. \A e \in Expr : \A f \in [Expr -> V] : step[<<e, f>>] = TypeOfOnce(this, f, e)
  OBVIOUS
<1>2. \A e \in Expr : \A f \in [Expr -> V] : TypeOfOnce(this, f, e) \in V
  <2>. SUFFICES ASSUME NEW e \in Expr, NEW f \in [Expr -> V] PROVE TypeOfOnce(this, f, e) \in V
    OBVIOUS
  <2>1. \A c \in Parts1(e) : f[c] \in V
    <3>. HIDE DEF V
    <3>. QED  BY PartsInExpr
  <2>. QED  BY <2>1, TypeOfOnceIs
<1>3. step \in [Expr \X [Expr -> V] -> V]
  <2>. HIDE DEF V
  <2>. QED  BY <1>2
<1>. HIDE DEF step
<1>4. LooksAtParts(V, step)
  <2>. SUFFICES ASSUME NEW e \in Expr, NEW f \in [Expr -> V], NEW g \in [Expr -> V],
                       \A c \in Parts1(e) : f[c] = g[c]
                PROVE  step[<<e, f>>] = step[<<e, g>>]
    BY DEF LooksAtParts
  <2>1. TypeOfOnce(this, f, e) = TypeOfOnce(this, g, e)
    BY TypeOfAgrees
  <2>. HIDE DEF V
  <2>. QED  BY <1>1, <2>1
<1>5. PICK v : v \in V
  <2>1. NoType \in Type
    BY DEF NoType, Type
  <2>2. [scope \in Scopes |-> NoType] \in V
    BY <2>1
  <2>. QED  BY <2>2
<1>6. PICK f : StepsTo(f, V, step)
  <2>. HIDE DEF V
  <2>. QED  BY <1>3, <1>4, <1>5, ExprRecursion
<1>7. f = Body(f)
  <2>1. \A e \in Expr : f[e] = TypeOfOnce(this, f, e)
    <3>1. f \in [Expr -> V] /\ \A e \in Expr : f[e] = step[<<e, f>>]
      BY <1>6 DEF StepsTo
    <3>. HIDE DEF V
    <3>. QED  BY <1>1, <3>1
  <2>2. f = [e \in Expr |-> f[e]]
    BY <1>6 DEF StepsTo
  <2>. QED  BY <2>1, <2>2
<1>8. TypeOf(this) = [e \in Expr |-> TypeOfOnce(this, TypeOf(this), e)]
  BY <1>7 DEF TypeOf, TypeOfOnce, TypeOfAt
<1>9. \A e \in Expr : TypeOf(this)[e] = TypeOfOnce(this, TypeOf(this), e)
  BY <1>8
<1>10. Expr \subseteq {e \in Expr : TypeOf(this)[e] \in V}
  <2>. DEFINE T == {e \in Expr : TypeOf(this)[e] \in V}
  <2>1. ASSUME NEW e \in Expr, Parts1(e) \subseteq T PROVE e \in T
    <3>1. \A c \in Parts1(e) : TypeOf(this)[c] \in V
      BY <2>1
    <3>2. TypeOfOnce(this, TypeOf(this), e) \in V
      BY <3>1, TypeOfOnceIs
    <3>. QED  BY <1>9, <3>2
  <2>. HIDE DEF T
  <2>. QED  BY <2>1, ExprInduction DEF T
<1>. QED  BY <1>9, <1>10

LEMMA TypeOfEquals ==
  ASSUME NEW this \in Type, NEW e \in Expr, NEW scope \in Scopes
  PROVE  TypeOf(this)[e][scope] = TypeOfAt(this, TypeOf(this), e, scope) /\ TypeOf(this)[e][scope] \in Type
<1>1. TypeOf(this)[e] = TypeOfOnce(this, TypeOf(this), e) /\ TypeOf(this)[e] \in [Scopes -> Type]
  BY TypeOfIs
<1>2. TypeOfOnce(this, TypeOf(this), e)[scope] = TypeOfAt(this, TypeOf(this), e, scope)
  BY DEF TypeOfOnce
<1>. QED  BY <1>1, <1>2

\* The types that an expression opens, given those that its parts open.
OpenedAt(this, f, e, scope) ==
  LET t == TypeOf(this)[e.of][scope]
  IN CASE e.op = "ident" -> {}
       [] e.op \in Pairs -> f[e.of][scope] \cup f[e.other][scope]
       [] e.op = "test" -> f[e.of][scope]
       [] e.op = "has" -> {TypeOf(this)[e.of.of][scope]} \cup f[e.of.of][scope]
       [] e.op \in Macros -> {t} \cup f[e.of][scope] \cup f[e.body][Typed(scope, e.var, t)]
       [] OTHER -> {t} \cup f[e.of][scope]
OpenedOnce(this, f, e) == [scope \in Scopes |-> OpenedAt(this, f, e, scope)]

LEMMA OpenedCases ==
  ASSUME NEW this, NEW f, NEW e, NEW scope
  PROVE  /\ e.op = "ident" => OpenedAt(this, f, e, scope) = {}
         /\ e.op = "select" => OpenedAt(this, f, e, scope) = {TypeOf(this)[e.of][scope]} \cup f[e.of][scope]
         /\ e.op = "index" => OpenedAt(this, f, e, scope) = {TypeOf(this)[e.of][scope]} \cup f[e.of][scope]
         /\ e.op = "test" => OpenedAt(this, f, e, scope) = f[e.of][scope]
         /\ e.op = "has" => OpenedAt(this, f, e, scope) = {TypeOf(this)[e.of.of][scope]} \cup f[e.of.of][scope]
         /\ e.op \in Macros => OpenedAt(this, f, e, scope) = {TypeOf(this)[e.of][scope]} \cup f[e.of][scope]
            \cup f[e.body][Typed(scope, e.var, TypeOf(this)[e.of][scope])]
         /\ e.op \in Pairs => OpenedAt(this, f, e, scope) = f[e.of][scope] \cup f[e.other][scope]
<1>1. e.op = "ident" => OpenedAt(this, f, e, scope) = {}
  BY DEF OpenedAt, Macros, Pairs
<1>2. e.op = "select" => OpenedAt(this, f, e, scope) = {TypeOf(this)[e.of][scope]} \cup f[e.of][scope]
  BY DEF OpenedAt, Macros, Pairs
<1>3. e.op = "index" => OpenedAt(this, f, e, scope) = {TypeOf(this)[e.of][scope]} \cup f[e.of][scope]
  BY DEF OpenedAt, Macros, Pairs
<1>4. e.op = "test" => OpenedAt(this, f, e, scope) = f[e.of][scope]
  BY DEF OpenedAt, Macros, Pairs
<1>5. e.op = "has" => OpenedAt(this, f, e, scope) = {TypeOf(this)[e.of.of][scope]} \cup f[e.of.of][scope]
  BY DEF OpenedAt, Macros, Pairs
<1>6. e.op \in Macros => OpenedAt(this, f, e, scope) = {TypeOf(this)[e.of][scope]} \cup f[e.of][scope]
            \cup f[e.body][Typed(scope, e.var, TypeOf(this)[e.of][scope])]
  BY DEF OpenedAt, Macros, Pairs
<1>7. e.op \in Pairs => OpenedAt(this, f, e, scope) = f[e.of][scope] \cup f[e.other][scope]
  BY DEF OpenedAt, Macros, Pairs
<1>. QED  BY <1>1, <1>2, <1>3, <1>4, <1>5, <1>6, <1>7

LEMMA OpenedAgrees ==
  ASSUME NEW this \in Type, NEW f, NEW g, NEW e \in Expr, \A c \in Parts1(e) : f[c] = g[c]
  PROVE  OpenedOnce(this, f, e) = OpenedOnce(this, g, e)
<1>. SUFFICES ASSUME NEW scope \in Scopes PROVE OpenedAt(this, f, e, scope) = OpenedAt(this, g, e, scope)
  BY DEF OpenedOnce
<1>1. CASE e.op = "ident"
  <2>1. OpenedAt(this, f, e, scope) = {}
    BY <1>1, OpenedCases
  <2>2. OpenedAt(this, g, e, scope) = {}
    BY <1>1, OpenedCases
  <2>. QED  BY <1>1, <2>1, <2>2, Shapes
<1>2. CASE e.op = "select"
  <2>1. OpenedAt(this, f, e, scope) = {TypeOf(this)[e.of][scope]} \cup f[e.of][scope]
    BY <1>2, OpenedCases
  <2>2. OpenedAt(this, g, e, scope) = {TypeOf(this)[e.of][scope]} \cup g[e.of][scope]
    BY <1>2, OpenedCases
  <2>. QED  BY <1>2, <2>1, <2>2, Shapes
<1>3. CASE e.op = "index"
  <2>1. OpenedAt(this, f, e, scope) = {TypeOf(this)[e.of][scope]} \cup f[e.of][scope]
    BY <1>3, OpenedCases
  <2>2. OpenedAt(this, g, e, scope) = {TypeOf(this)[e.of][scope]} \cup g[e.of][scope]
    BY <1>3, OpenedCases
  <2>. QED  BY <1>3, <2>1, <2>2, Shapes
<1>4. CASE e.op = "test"
  <2>1. OpenedAt(this, f, e, scope) = f[e.of][scope]
    BY <1>4, OpenedCases
  <2>2. OpenedAt(this, g, e, scope) = g[e.of][scope]
    BY <1>4, OpenedCases
  <2>. QED  BY <1>4, <2>1, <2>2, Shapes
<1>5. CASE e.op = "has"
  <2>1. OpenedAt(this, f, e, scope) = {TypeOf(this)[e.of.of][scope]} \cup f[e.of.of][scope]
    BY <1>5, OpenedCases
  <2>2. OpenedAt(this, g, e, scope) = {TypeOf(this)[e.of.of][scope]} \cup g[e.of.of][scope]
    BY <1>5, OpenedCases
  <2>. QED  BY <1>5, <2>1, <2>2, Shapes
<1>6. CASE e.op \in Macros
  <2>1. OpenedAt(this, f, e, scope) = {TypeOf(this)[e.of][scope]} \cup f[e.of][scope]
            \cup f[e.body][Typed(scope, e.var, TypeOf(this)[e.of][scope])]
    BY <1>6, OpenedCases
  <2>2. OpenedAt(this, g, e, scope) = {TypeOf(this)[e.of][scope]} \cup g[e.of][scope]
            \cup g[e.body][Typed(scope, e.var, TypeOf(this)[e.of][scope])]
    BY <1>6, OpenedCases
  <2>. QED  BY <1>6, <2>1, <2>2, Shapes
<1>7. CASE e.op \in Pairs
  <2>1. OpenedAt(this, f, e, scope) = f[e.of][scope] \cup f[e.other][scope]
    BY <1>7, OpenedCases
  <2>2. OpenedAt(this, g, e, scope) = g[e.of][scope] \cup g[e.other][scope]
    BY <1>7, OpenedCases
  <2>. QED  BY <1>7, <2>1, <2>2, Shapes
<1>. QED  BY <1>1, <1>2, <1>3, <1>4, <1>5, <1>6, <1>7, Shapes

LEMMA OpenedOnceIs ==
  ASSUME NEW this \in Type, NEW f, NEW e \in Expr, \A c \in Parts1(e) : f[c] \in [Scopes -> SUBSET Type]
  PROVE  OpenedOnce(this, f, e) \in [Scopes -> SUBSET Type]
<1>. SUFFICES ASSUME NEW scope \in Scopes PROVE OpenedAt(this, f, e, scope) \in SUBSET Type
  BY DEF OpenedOnce
<1>0. \A c \in Parts1(e), y \in Scopes : f[c][y] \in SUBSET Type
  OBVIOUS
<1>1. CASE e.op = "ident"
  <2>1. OpenedAt(this, f, e, scope) = {}
    BY <1>1, OpenedCases
  <2>. QED  BY <1>0, <1>1, <2>1, Shapes
<1>2. CASE e.op = "select"
  <2>1. OpenedAt(this, f, e, scope) = {TypeOf(this)[e.of][scope]} \cup f[e.of][scope]
    BY <1>2, OpenedCases
  <2>. QED  BY <1>0, <1>2, <2>1, Shapes, TypeOfIs
<1>3. CASE e.op = "index"
  <2>1. OpenedAt(this, f, e, scope) = {TypeOf(this)[e.of][scope]} \cup f[e.of][scope]
    BY <1>3, OpenedCases
  <2>. QED  BY <1>0, <1>3, <2>1, Shapes, TypeOfIs
<1>4. CASE e.op = "test"
  <2>1. OpenedAt(this, f, e, scope) = f[e.of][scope]
    BY <1>4, OpenedCases
  <2>. QED  BY <1>0, <1>4, <2>1, Shapes
<1>5. CASE e.op = "has"
  <2>1. OpenedAt(this, f, e, scope) = {TypeOf(this)[e.of.of][scope]} \cup f[e.of.of][scope]
    BY <1>5, OpenedCases
  <2>. QED  BY <1>0, <1>5, <2>1, Shapes, TypeOfIs
<1>6. CASE e.op \in Macros
  <2>. DEFINE t == TypeOf(this)[e.of][scope]
  <2>1. e.var \in Variable /\ e.of \in Expr /\ e.of \in Parts1(e) /\ e.body \in Parts1(e)
    BY <1>6, Shapes
  <2>2. t \in Type
    BY <2>1, TypeOfIs
  <2>3. Typed(scope, e.var, t) \in Scopes
    BY <2>1, <2>2, TypedIs
  <2>4. OpenedAt(this, f, e, scope) = {t} \cup f[e.of][scope] \cup f[e.body][Typed(scope, e.var, t)]
    BY <1>6, OpenedCases
  <2>. HIDE DEF t
  <2>. QED  BY <1>0, <2>1, <2>2, <2>3, <2>4
<1>7. CASE e.op \in Pairs
  <2>1. OpenedAt(this, f, e, scope) = f[e.of][scope] \cup f[e.other][scope]
    BY <1>7, OpenedCases
  <2>. QED  BY <1>0, <1>7, <2>1, Shapes
<1>. QED  BY <1>1, <1>2, <1>3, <1>4, <1>5, <1>6, <1>7, Shapes

LEMMA OpenedIs ==
  ASSUME NEW this \in Type
  PROVE  \A e \in Expr : Opened(this)[e] = OpenedOnce(this, Opened(this), e) /\ Opened(this)[e] \in [Scopes -> SUBSET Type]
<1>. DEFINE V == [Scopes -> SUBSET Type]
            Body(f) == [e \in Expr |-> OpenedOnce(this, f, e)]
            step == [z \in Expr \X [Expr -> V] |-> OpenedOnce(this, z[2], z[1])]
<1>1. \A e \in Expr : \A f \in [Expr -> V] : step[<<e, f>>] = OpenedOnce(this, f, e)
  OBVIOUS
<1>2. \A e \in Expr : \A f \in [Expr -> V] : OpenedOnce(this, f, e) \in V
  <2>. SUFFICES ASSUME NEW e \in Expr, NEW f \in [Expr -> V] PROVE OpenedOnce(this, f, e) \in V
    OBVIOUS
  <2>1. \A c \in Parts1(e) : f[c] \in V
    <3>. HIDE DEF V
    <3>. QED  BY PartsInExpr
  <2>. QED  BY <2>1, OpenedOnceIs
<1>3. step \in [Expr \X [Expr -> V] -> V]
  <2>. HIDE DEF V
  <2>. QED  BY <1>2
<1>. HIDE DEF step
<1>4. LooksAtParts(V, step)
  <2>. SUFFICES ASSUME NEW e \in Expr, NEW f \in [Expr -> V], NEW g \in [Expr -> V],
                       \A c \in Parts1(e) : f[c] = g[c]
                PROVE  step[<<e, f>>] = step[<<e, g>>]
    BY DEF LooksAtParts
  <2>1. OpenedOnce(this, f, e) = OpenedOnce(this, g, e)
    BY OpenedAgrees
  <2>. HIDE DEF V
  <2>. QED  BY <1>1, <2>1
<1>5. PICK v : v \in V
  <2>1. [scope \in Scopes |-> {}] \in V
    OBVIOUS
  <2>. QED  BY <2>1
<1>6. PICK f : StepsTo(f, V, step)
  <2>. HIDE DEF V
  <2>. QED  BY <1>3, <1>4, <1>5, ExprRecursion
<1>7. f = Body(f)
  <2>1. \A e \in Expr : f[e] = OpenedOnce(this, f, e)
    <3>1. f \in [Expr -> V] /\ \A e \in Expr : f[e] = step[<<e, f>>]
      BY <1>6 DEF StepsTo
    <3>. HIDE DEF V
    <3>. QED  BY <1>1, <3>1
  <2>2. f = [e \in Expr |-> f[e]]
    BY <1>6 DEF StepsTo
  <2>. QED  BY <2>1, <2>2
<1>8. Opened(this) = [e \in Expr |-> OpenedOnce(this, Opened(this), e)]
  BY <1>7 DEF Opened, OpenedOnce, OpenedAt
<1>9. \A e \in Expr : Opened(this)[e] = OpenedOnce(this, Opened(this), e)
  BY <1>8
<1>10. Expr \subseteq {e \in Expr : Opened(this)[e] \in V}
  <2>. DEFINE T == {e \in Expr : Opened(this)[e] \in V}
  <2>1. ASSUME NEW e \in Expr, Parts1(e) \subseteq T PROVE e \in T
    <3>1. \A c \in Parts1(e) : Opened(this)[c] \in V
      BY <2>1
    <3>2. OpenedOnce(this, Opened(this), e) \in V
      BY <3>1, OpenedOnceIs
    <3>. QED  BY <1>9, <3>2
  <2>. HIDE DEF T
  <2>. QED  BY <2>1, ExprInduction DEF T
<1>. QED  BY <1>9, <1>10

LEMMA OpenedEquals ==
  ASSUME NEW this \in Type, NEW e \in Expr, NEW scope \in Scopes
  PROVE  Opened(this)[e][scope] = OpenedAt(this, Opened(this), e, scope) /\ Opened(this)[e][scope] \in SUBSET Type
<1>1. Opened(this)[e] = OpenedOnce(this, Opened(this), e) /\ Opened(this)[e] \in [Scopes -> SUBSET Type]
  BY OpenedIs
<1>2. OpenedOnce(this, Opened(this), e)[scope] = OpenedAt(this, Opened(this), e, scope)
  BY DEF OpenedOnce
<1>. QED  BY <1>1, <1>2

LEMMA BindingPathsIs ==
  ASSUME NEW scope \in Scopes
  PROVE  BindingPaths(scope) \in Envs
BY ScopeIs DEF BindingPaths, Envs

LEMMA LeansAreFinite ==
  ASSUME NEW scope \in Scopes
  PROVE  IsFiniteSet({scope[i].lean : i \in DOMAIN scope})
<1>. DEFINE S == DOMAIN scope
            T == {scope[i].lean : i \in S}
            f == [i \in S |-> scope[i].lean]
<1>1. f \in Surjection(S, T)
  BY DEF Surjection
<1>2. IsFiniteSet(S)
  <2>1. Len(scope) \in Int /\ 1 \in Int /\ S = 1 .. Len(scope)
    BY ScopeIs
  <2>. QED  BY <2>1, FS_Interval
<1>. HIDE DEF f, S, T
<1>3. IsFiniteSet(T)
  BY <1>1, <1>2, FS_Surjection
<1>. QED  BY <1>3 DEF T, S

\* The names that the translation of a comprehension dodges.
Used(scope, ctx) == ctx.used \cup {scope[i].lean : i \in DOMAIN scope}

LEMMA BindingIs ==
  ASSUME NEW this \in Type, NEW ctx, IsFiniteSet(ctx.used), NEW scope \in Scopes, NEW e \in Expr, e.op \in Macros
  PROVE  /\ Binding(e, scope, this, ctx) \in Entry
         /\ Binding(e, scope, this, ctx).var = e.var
         /\ Binding(e, scope, this, ctx).path = IterElem(PathOf(e.of, scope))
         /\ Binding(e, scope, this, ctx).type = ElemType(TypeOf(this)[e.of][scope])
         /\ Binding(e, scope, this, ctx).lean = Emitted(e.var, ctx.root, Used(scope, ctx))
         /\ IsFiniteSet(Used(scope, ctx))
<1>1. e.var \in Variable /\ e.var \in Name /\ e.of \in Expr
  BY Shapes DEF Variable
<1>2. IterElem(PathOf(e.of, scope)) \in Path
  BY <1>1, BindingPathsIs, CelPathIs, PathsClosed DEF PathOf
<1>3. ElemType(TypeOf(this)[e.of][scope]) \in Type
  BY <1>1, TypeOfIs, StepTypeIs
<1>4. IsFiniteSet(Used(scope, ctx))
  BY LeansAreFinite, FS_Union DEF Used
<1>5. Emitted(e.var, ctx.root, Used(scope, ctx)) \in Name
  BY <1>1, <1>4, FreshNameIs DEF Emitted
<1>6. Binding(e, scope, this, ctx) =
        [var |-> e.var, path |-> IterElem(PathOf(e.of, scope)), type |-> ElemType(TypeOf(this)[e.of][scope]),
         lean |-> Emitted(e.var, ctx.root, Used(scope, ctx))]
  BY DEF Binding, Used
<1>. QED  BY <1>1, <1>2, <1>3, <1>4, <1>5, <1>6 DEF Entry

\* The values in an expression, given those in its parts.
Places == [path : Path, type : Type, cel : Nat, lean : Nat, base : Nat]
ValuesAt(this, ctx, f, e, scope) ==
  CASE e.op = "ident" -> IdentValues(e, scope, this, ctx)
    [] e.op = "select" ->
         IF e.of = This /\ ctx.message THEN FieldValues(e, scope, this, ctx)
         ELSE {Value(e, scope, this, 0, 0, 0)} \cup f[e.of][scope]
    [] e.op \in Macros ->
         f[e.of][scope] \cup f[e.body][Append(scope, Binding(e, scope, this, ctx))]
    [] e.op \in Pairs -> f[e.of][scope] \cup f[e.other][scope]
    [] e.op = "has" -> f[e.of.of][scope]
    [] e.op = "test" -> f[e.of][scope]
    [] OTHER -> {Value(e, scope, this, 0, 0, 0)} \cup f[e.of][scope]
ValuesOnce(this, ctx, f, e) == [scope \in Scopes |-> ValuesAt(this, ctx, f, e, scope)]

LEMMA ValuesCases ==
  ASSUME NEW this, NEW ctx, NEW f, NEW e, NEW scope
  PROVE  /\ e.op = "ident" => ValuesAt(this, ctx, f, e, scope) = IdentValues(e, scope, this, ctx)
         /\ e.op = "select" => ValuesAt(this, ctx, f, e, scope) = (IF e.of = This /\ ctx.message THEN FieldValues(e, scope, this, ctx)
            ELSE {Value(e, scope, this, 0, 0, 0)} \cup f[e.of][scope])
         /\ e.op = "index" => ValuesAt(this, ctx, f, e, scope) = {Value(e, scope, this, 0, 0, 0)} \cup f[e.of][scope]
         /\ e.op = "test" => ValuesAt(this, ctx, f, e, scope) = f[e.of][scope]
         /\ e.op = "has" => ValuesAt(this, ctx, f, e, scope) = f[e.of.of][scope]
         /\ e.op \in Macros => ValuesAt(this, ctx, f, e, scope) = f[e.of][scope] \cup f[e.body][Append(scope, Binding(e, scope, this, ctx))]
         /\ e.op \in Pairs => ValuesAt(this, ctx, f, e, scope) = f[e.of][scope] \cup f[e.other][scope]
<1>1. e.op = "ident" => ValuesAt(this, ctx, f, e, scope) = IdentValues(e, scope, this, ctx)
  BY DEF ValuesAt, Macros, Pairs
<1>2. e.op = "select" => ValuesAt(this, ctx, f, e, scope) = (IF e.of = This /\ ctx.message THEN FieldValues(e, scope, this, ctx)
            ELSE {Value(e, scope, this, 0, 0, 0)} \cup f[e.of][scope])
  BY DEF ValuesAt, Macros, Pairs
<1>3. e.op = "index" => ValuesAt(this, ctx, f, e, scope) = {Value(e, scope, this, 0, 0, 0)} \cup f[e.of][scope]
  BY DEF ValuesAt, Macros, Pairs
<1>4. e.op = "test" => ValuesAt(this, ctx, f, e, scope) = f[e.of][scope]
  BY DEF ValuesAt, Macros, Pairs
<1>5. e.op = "has" => ValuesAt(this, ctx, f, e, scope) = f[e.of.of][scope]
  BY DEF ValuesAt, Macros, Pairs
<1>6. e.op \in Macros => ValuesAt(this, ctx, f, e, scope) = f[e.of][scope] \cup f[e.body][Append(scope, Binding(e, scope, this, ctx))]
  BY DEF ValuesAt, Macros, Pairs
<1>7. e.op \in Pairs => ValuesAt(this, ctx, f, e, scope) = f[e.of][scope] \cup f[e.other][scope]
  BY DEF ValuesAt, Macros, Pairs
<1>. QED  BY <1>1, <1>2, <1>3, <1>4, <1>5, <1>6, <1>7

LEMMA ValuesAgrees ==
  ASSUME NEW this \in Type, NEW ctx, IsFiniteSet(ctx.used), NEW f, NEW g, NEW e \in Expr, \A c \in Parts1(e) : f[c] = g[c]
  PROVE  ValuesOnce(this, ctx, f, e) = ValuesOnce(this, ctx, g, e)
<1>. SUFFICES ASSUME NEW scope \in Scopes PROVE ValuesAt(this, ctx, f, e, scope) = ValuesAt(this, ctx, g, e, scope)
  BY DEF ValuesOnce
<1>1. CASE e.op = "ident"
  <2>1. ValuesAt(this, ctx, f, e, scope) = IdentValues(e, scope, this, ctx)
    BY <1>1, ValuesCases
  <2>2. ValuesAt(this, ctx, g, e, scope) = IdentValues(e, scope, this, ctx)
    BY <1>1, ValuesCases
  <2>. QED  BY <1>1, <2>1, <2>2, Shapes
<1>2. CASE e.op = "select"
  <2>1. ValuesAt(this, ctx, f, e, scope) = (IF e.of = This /\ ctx.message THEN FieldValues(e, scope, this, ctx)
            ELSE {Value(e, scope, this, 0, 0, 0)} \cup f[e.of][scope])
    BY <1>2, ValuesCases
  <2>2. ValuesAt(this, ctx, g, e, scope) = (IF e.of = This /\ ctx.message THEN FieldValues(e, scope, this, ctx)
            ELSE {Value(e, scope, this, 0, 0, 0)} \cup g[e.of][scope])
    BY <1>2, ValuesCases
  <2>. QED  BY <1>2, <2>1, <2>2, Shapes
<1>3. CASE e.op = "index"
  <2>1. ValuesAt(this, ctx, f, e, scope) = {Value(e, scope, this, 0, 0, 0)} \cup f[e.of][scope]
    BY <1>3, ValuesCases
  <2>2. ValuesAt(this, ctx, g, e, scope) = {Value(e, scope, this, 0, 0, 0)} \cup g[e.of][scope]
    BY <1>3, ValuesCases
  <2>. QED  BY <1>3, <2>1, <2>2, Shapes
<1>4. CASE e.op = "test"
  <2>1. ValuesAt(this, ctx, f, e, scope) = f[e.of][scope]
    BY <1>4, ValuesCases
  <2>2. ValuesAt(this, ctx, g, e, scope) = g[e.of][scope]
    BY <1>4, ValuesCases
  <2>. QED  BY <1>4, <2>1, <2>2, Shapes
<1>5. CASE e.op = "has"
  <2>1. ValuesAt(this, ctx, f, e, scope) = f[e.of.of][scope]
    BY <1>5, ValuesCases
  <2>2. ValuesAt(this, ctx, g, e, scope) = g[e.of.of][scope]
    BY <1>5, ValuesCases
  <2>. QED  BY <1>5, <2>1, <2>2, Shapes
<1>6. CASE e.op \in Macros
  <2>1. ValuesAt(this, ctx, f, e, scope) = f[e.of][scope] \cup f[e.body][Append(scope, Binding(e, scope, this, ctx))]
    BY <1>6, ValuesCases
  <2>2. ValuesAt(this, ctx, g, e, scope) = g[e.of][scope] \cup g[e.body][Append(scope, Binding(e, scope, this, ctx))]
    BY <1>6, ValuesCases
  <2>. QED  BY <1>6, <2>1, <2>2, Shapes
<1>7. CASE e.op \in Pairs
  <2>1. ValuesAt(this, ctx, f, e, scope) = f[e.of][scope] \cup f[e.other][scope]
    BY <1>7, ValuesCases
  <2>2. ValuesAt(this, ctx, g, e, scope) = g[e.of][scope] \cup g[e.other][scope]
    BY <1>7, ValuesCases
  <2>. QED  BY <1>7, <2>1, <2>2, Shapes
<1>. QED  BY <1>1, <1>2, <1>3, <1>4, <1>5, <1>6, <1>7, Shapes

LEMMA ValueIs ==
  ASSUME NEW this \in Type, NEW e \in Expr, NEW scope \in Scopes, NEW c \in Nat, NEW l \in Nat, NEW b \in Nat
  PROVE  Value(e, scope, this, c, l, b) \in Places
<1>1. PathOf(e, scope) \in Path
  BY BindingPathsIs, CelPathIs DEF PathOf
<1>2. TypeOf(this)[e][scope] \in Type
  BY TypeOfIs
<1>. QED  BY <1>1, <1>2 DEF Value, Places

LEMMA ValuesOnceIs ==
  ASSUME NEW this \in Type, NEW ctx, IsFiniteSet(ctx.used), NEW f, NEW e \in Expr, \A c \in Parts1(e) : f[c] \in [Scopes -> SUBSET Places]
  PROVE  ValuesOnce(this, ctx, f, e) \in [Scopes -> SUBSET Places]
<1>. SUFFICES ASSUME NEW scope \in Scopes PROVE ValuesAt(this, ctx, f, e, scope) \in SUBSET Places
  BY DEF ValuesOnce
<1>0. \A c \in Parts1(e), y \in Scopes : f[c][y] \in SUBSET Places
  OBVIOUS
<1>1. CASE e.op = "ident"
  <2>1. ValuesAt(this, ctx, f, e, scope) = IdentValues(e, scope, this, ctx)
    BY <1>1, ValuesCases
  <2>2. BoundAt(scope, e.name) \in Nat /\ \A n : LeanAt(scope, n) \in Nat
    BY BoundAtIs, LeanAtIs, ScopeIs
  <2>. QED  BY <2>1, <2>2, ValueIs DEF IdentValues
<1>2. CASE e.op = "select"
  <2>1. ValuesAt(this, ctx, f, e, scope) = (IF e.of = This /\ ctx.message THEN FieldValues(e, scope, this, ctx)
            ELSE {Value(e, scope, this, 0, 0, 0)} \cup f[e.of][scope])
    BY <1>2, ValuesCases
  <2>2. f[e.of][scope] \subseteq Places
    BY <1>0, <1>2, Shapes
  <2>3. LeanAt(scope, <<e.field, 0>>) \in Nat /\ LeanAt(scope, ctx.base) \in Nat
    BY LeanAtIs, ScopeIs
  <2>4. 0 \in Nat
    OBVIOUS
  <2>. QED  BY <2>1, <2>2, <2>3, <2>4, ValueIs DEF FieldValues
<1>3. CASE e.op = "index"
  <2>1. ValuesAt(this, ctx, f, e, scope) = {Value(e, scope, this, 0, 0, 0)} \cup f[e.of][scope]
    BY <1>3, ValuesCases
  <2>. QED  BY <1>0, <1>3, <2>1, Shapes, ValueIs
<1>4. CASE e.op = "test"
  <2>1. ValuesAt(this, ctx, f, e, scope) = f[e.of][scope]
    BY <1>4, ValuesCases
  <2>. QED  BY <1>0, <1>4, <2>1, Shapes
<1>5. CASE e.op = "has"
  <2>1. ValuesAt(this, ctx, f, e, scope) = f[e.of.of][scope]
    BY <1>5, ValuesCases
  <2>. QED  BY <1>0, <1>5, <2>1, Shapes
<1>6. CASE e.op \in Macros
  <2>. DEFINE inner == Append(scope, Binding(e, scope, this, ctx))
  <2>1. e.of \in Parts1(e) /\ e.body \in Parts1(e)
    BY <1>6, Shapes
  <2>2. inner \in Scopes
    BY <1>6, BindingIs, ScopeGrows
  <2>3. ValuesAt(this, ctx, f, e, scope) = f[e.of][scope] \cup f[e.body][inner]
    BY <1>6, ValuesCases
  <2>. HIDE DEF inner
  <2>. QED  BY <1>0, <2>1, <2>2, <2>3
<1>7. CASE e.op \in Pairs
  <2>1. ValuesAt(this, ctx, f, e, scope) = f[e.of][scope] \cup f[e.other][scope]
    BY <1>7, ValuesCases
  <2>. QED  BY <1>0, <1>7, <2>1, Shapes
<1>. QED  BY <1>1, <1>2, <1>3, <1>4, <1>5, <1>6, <1>7, Shapes

LEMMA ValuesIs ==
  ASSUME NEW this \in Type, NEW ctx, IsFiniteSet(ctx.used)
  PROVE  \A e \in Expr : Values(this, ctx)[e] = ValuesOnce(this, ctx, Values(this, ctx), e) /\ Values(this, ctx)[e] \in [Scopes -> SUBSET Places]
<1>. DEFINE V == [Scopes -> SUBSET Places]
            Body(f) == [e \in Expr |-> ValuesOnce(this, ctx, f, e)]
            step == [z \in Expr \X [Expr -> V] |-> ValuesOnce(this, ctx, z[2], z[1])]
<1>1. \A e \in Expr : \A f \in [Expr -> V] : step[<<e, f>>] = ValuesOnce(this, ctx, f, e)
  OBVIOUS
<1>2. \A e \in Expr : \A f \in [Expr -> V] : ValuesOnce(this, ctx, f, e) \in V
  <2>. SUFFICES ASSUME NEW e \in Expr, NEW f \in [Expr -> V] PROVE ValuesOnce(this, ctx, f, e) \in V
    OBVIOUS
  <2>1. \A c \in Parts1(e) : f[c] \in V
    <3>. HIDE DEF V
    <3>. QED  BY PartsInExpr
  <2>. QED  BY <2>1, ValuesOnceIs
<1>3. step \in [Expr \X [Expr -> V] -> V]
  <2>. HIDE DEF V
  <2>. QED  BY <1>2
<1>. HIDE DEF step
<1>4. LooksAtParts(V, step)
  <2>. SUFFICES ASSUME NEW e \in Expr, NEW f \in [Expr -> V], NEW g \in [Expr -> V],
                       \A c \in Parts1(e) : f[c] = g[c]
                PROVE  step[<<e, f>>] = step[<<e, g>>]
    BY DEF LooksAtParts
  <2>1. ValuesOnce(this, ctx, f, e) = ValuesOnce(this, ctx, g, e)
    BY ValuesAgrees
  <2>. HIDE DEF V
  <2>. QED  BY <1>1, <2>1
<1>5. PICK v : v \in V
  <2>1. [scope \in Scopes |-> {}] \in V
    OBVIOUS
  <2>. QED  BY <2>1
<1>6. PICK f : StepsTo(f, V, step)
  <2>. HIDE DEF V
  <2>. QED  BY <1>3, <1>4, <1>5, ExprRecursion
<1>7. f = Body(f)
  <2>1. \A e \in Expr : f[e] = ValuesOnce(this, ctx, f, e)
    <3>1. f \in [Expr -> V] /\ \A e \in Expr : f[e] = step[<<e, f>>]
      BY <1>6 DEF StepsTo
    <3>. HIDE DEF V
    <3>. QED  BY <1>1, <3>1
  <2>2. f = [e \in Expr |-> f[e]]
    BY <1>6 DEF StepsTo
  <2>. QED  BY <2>1, <2>2
<1>8. Values(this, ctx) = [e \in Expr |-> ValuesOnce(this, ctx, Values(this, ctx), e)]
  BY <1>7 DEF Values, ValuesOnce, ValuesAt
<1>9. \A e \in Expr : Values(this, ctx)[e] = ValuesOnce(this, ctx, Values(this, ctx), e)
  BY <1>8
<1>10. Expr \subseteq {e \in Expr : Values(this, ctx)[e] \in V}
  <2>. DEFINE T == {e \in Expr : Values(this, ctx)[e] \in V}
  <2>1. ASSUME NEW e \in Expr, Parts1(e) \subseteq T PROVE e \in T
    <3>1. \A c \in Parts1(e) : Values(this, ctx)[c] \in V
      BY <2>1
    <3>2. ValuesOnce(this, ctx, Values(this, ctx), e) \in V
      BY <3>1, ValuesOnceIs
    <3>. QED  BY <1>9, <3>2
  <2>. HIDE DEF T
  <2>. QED  BY <2>1, ExprInduction DEF T
<1>. QED  BY <1>9, <1>10

LEMMA ValuesEquals ==
  ASSUME NEW this \in Type, NEW ctx, IsFiniteSet(ctx.used), NEW e \in Expr, NEW scope \in Scopes
  PROVE  Values(this, ctx)[e][scope] = ValuesAt(this, ctx, Values(this, ctx), e, scope) /\ Values(this, ctx)[e][scope] \in SUBSET Places
<1>1. Values(this, ctx)[e] = ValuesOnce(this, ctx, Values(this, ctx), e) /\ Values(this, ctx)[e] \in [Scopes -> SUBSET Places]
  BY ValuesIs
<1>2. ValuesOnce(this, ctx, Values(this, ctx), e)[scope] = ValuesAt(this, ctx, Values(this, ctx), e, scope)
  BY DEF ValuesOnce
<1>. QED  BY <1>1, <1>2

-----------------------------------------------------------------------------
(* The paths of bound variables.                                           *)

LEMMA BindingPathsAre ==
  ASSUME NEW scope \in Scopes, NEW z
  PROVE  z \in BindingPaths(scope) <=>
           \E i \in 1 .. Len(scope) :
             /\ BoundAt(scope, scope[i].var) = i /\ scope[i].path # NoPath
             /\ z = <<scope[i].var, scope[i].path>>
BY ScopeIs DEF BindingPaths

\* A comprehension hides the outer variable of its name and no other.
LEMMA EnvWithin ==
  ASSUME NEW scope \in Scopes, NEW b \in Entry
  PROVE  BindingPaths(Append(scope, b)) = InnerEnv(BindingPaths(scope), b.var, b.path)
<1>. DEFINE inner == Append(scope, b)
            n == Len(scope)
            B(s, i, z) == /\ BoundAt(s, s[i].var) = i /\ s[i].path # NoPath
                          /\ z = <<s[i].var, s[i].path>>
<1>1. /\ inner \in Scopes /\ Len(inner) = n + 1 /\ n \in Nat
      /\ inner[n + 1] = b /\ \A i \in 1 .. n : inner[i] = scope[i]
  BY ScopeGrows, ScopeIs
<1>2. \A v : BoundAt(inner, v) = IF b.var = v THEN n + 1 ELSE BoundAt(scope, v)
  <2>. SUFFICES ASSUME NEW v PROVE BoundAt(inner, v) = IF b.var = v THEN n + 1 ELSE BoundAt(scope, v)
    OBVIOUS
  <2>. QED  BY BoundWithin
<1>3. \A z : z \in BindingPaths(inner) <=> \E i \in 1 .. n + 1 : B(inner, i, z)
  <2>. SUFFICES ASSUME NEW z PROVE z \in BindingPaths(inner) <=> \E i \in 1 .. n + 1 : B(inner, i, z)
    OBVIOUS
  <2>1. inner \in Scopes /\ Len(inner) = n + 1
    BY <1>1
  <2>. HIDE DEF inner, n
  <2>2. z \in BindingPaths(inner) <=> \E i \in 1 .. Len(inner) : B(inner, i, z)
    BY <2>1, BindingPathsAre
  <2>. QED  BY <2>1, <2>2
<1>4. \A z : z \in BindingPaths(scope) <=> \E i \in 1 .. n : B(scope, i, z)
  BY BindingPathsAre
<1>5. \A z : z \in InnerEnv(BindingPaths(scope), b.var, b.path) <=>
        \/ z \in BindingPaths(scope) /\ z[1] # b.var
        \/ b.path # NoPath /\ z = <<b.var, b.path>>
  BY DEF InnerEnv, Others
<1>6. \A z : B(inner, n + 1, z) <=> b.path # NoPath /\ z = <<b.var, b.path>>
  BY <1>1, <1>2
<1>. HIDE DEF inner
<1>7. ASSUME NEW i \in 1 .. n, NEW z PROVE B(inner, i, z) <=> B(scope, i, z) /\ z[1] # b.var
  <2>1. inner[i] = scope[i] /\ i # n + 1
    BY <1>1
  <2>2. b.var = scope[i].var => ~(BoundAt(inner, inner[i].var) = i)
    BY <1>2, <2>1
  <2>3. b.var # scope[i].var => BoundAt(inner, inner[i].var) = BoundAt(scope, scope[i].var)
    BY <1>2, <2>1
  <2>4. z = <<scope[i].var, scope[i].path>> => z[1] = scope[i].var
    OBVIOUS
  <2>. QED  BY <2>1, <2>2, <2>3, <2>4
<1>. HIDE DEF B
<1>8. 1 .. n + 1 = (1 .. n) \cup {n + 1}
  BY <1>1
<1>9. \A z : z \in BindingPaths(inner) <=> z \in InnerEnv(BindingPaths(scope), b.var, b.path)
  <2>. SUFFICES ASSUME NEW z
                PROVE  z \in BindingPaths(inner) <=> z \in InnerEnv(BindingPaths(scope), b.var, b.path)
    OBVIOUS
  <2>1. z \in BindingPaths(inner) <=> (\E i \in 1 .. n : B(inner, i, z)) \/ B(inner, n + 1, z)
    BY <1>3, <1>8
  <2>2. (\E i \in 1 .. n : B(inner, i, z)) <=> (\E i \in 1 .. n : B(scope, i, z)) /\ z[1] # b.var
    BY <1>7
  <2>. QED  BY <2>1, <2>2, <1>4, <1>5, <1>6
<1>. QED  BY <1>9 DEF inner

LEMMA PathInScope ==
  ASSUME NEW scope \in Scopes, NEW n
  PROVE  PathIn(BindingPaths(scope), n) =
           IF BoundAt(scope, n) # 0 THEN scope[BoundAt(scope, n)].path
           ELSE IF n = ThisName THEN <<>> ELSE NoPath
<1>. DEFINE env == BindingPaths(scope)
            i == BoundAt(scope, n)
<1>1. \A z : z \in env <=>
        \E j \in 1 .. Len(scope) :
          BoundAt(scope, scope[j].var) = j /\ scope[j].path # NoPath /\ z = <<scope[j].var, scope[j].path>>
  BY BindingPathsAre
<1>2. /\ i = 0 <=> \A j \in 1 .. Len(scope) : scope[j].var # n
      /\ i # 0 => i \in 1 .. Len(scope) /\ scope[i].var = n
  BY BoundAtIs
<1>3. \A z \in env : z[1] = n => i # 0 /\ z = <<n, scope[i].path>> /\ scope[i].path # NoPath
  <2>. SUFFICES ASSUME NEW z \in env, z[1] = n
                PROVE  i # 0 /\ z = <<n, scope[i].path>> /\ scope[i].path # NoPath
    OBVIOUS
  <2>1. PICK j \in 1 .. Len(scope) :
          BoundAt(scope, scope[j].var) = j /\ scope[j].path # NoPath /\ z = <<scope[j].var, scope[j].path>>
    BY <1>1
  <2>2. scope[j].var = n
    BY <2>1
  <2>3. j = i
    BY <2>1, <2>2
  <2>. QED  BY <1>2, <2>1, <2>2, <2>3
<1>4. CASE \E z \in env : z[1] = n
  <2>1. PICK z \in env : z[1] = n
    BY <1>4
  <2>2. (CHOOSE b \in env : b[1] = n) = <<n, scope[i].path>>
    <3>1. (CHOOSE b \in env : b[1] = n) \in env /\ (CHOOSE b \in env : b[1] = n)[1] = n
      BY <2>1
    <3>. QED  BY <1>3, <3>1
  <2>3. PathIn(env, n) = <<n, scope[i].path>>[2]
    BY <1>4, <2>2 DEF PathIn
  <2>4. i # 0
    BY <1>3, <2>1
  <2>. QED  BY <2>3, <2>4
<1>5. CASE ~\E z \in env : z[1] = n
  <2>1. PathIn(env, n) = IF n = ThisName THEN <<>> ELSE NoPath
    BY <1>5 DEF PathIn
  <2>2. CASE i = 0
    BY <2>1, <2>2
  <2>3. CASE i # 0
    <3>1. i \in 1 .. Len(scope) /\ scope[i].var = n /\ scope[i].var # ThisName
      BY <1>2, <2>3, ScopeIs DEF Variable
    <3>2. scope[i].path = NoPath
      <4>1. ASSUME scope[i].path # NoPath PROVE <<scope[i].var, scope[i].path>> \in env
        BY <1>1, <3>1, <4>1
      <4>2. <<scope[i].var, scope[i].path>>[1] = n
        BY <3>1
      <4>. QED  BY <1>5, <4>1, <4>2
    <3>. QED  BY <2>1, <2>3, <3>1, <3>2
  <2>. QED  BY <2>2, <2>3
<1>. QED  BY <1>4, <1>5

-----------------------------------------------------------------------------
(* Names.                                                                  *)

\* The names emitted for comprehensions denote what CEL means by theirs: none
\* is the name of `this`, none is a name of the rule that it was not given
\* by, and a name is used again for the same variable only.  No variable is
\* renamed when `this` has a name the rule does not use.
Hygienic(scope, ctx) ==
  /\ \A i \in 1 .. Len(scope) :
       /\ scope[i].lean # ctx.root /\ scope[i].var \in ctx.used
       /\ scope[i].lean = scope[i].var \/ scope[i].lean \notin ctx.used
       /\ ctx.root \notin ctx.used => scope[i].lean = scope[i].var
  /\ \A i, j \in 1 .. Len(scope) : scope[i].lean = scope[j].lean => scope[i].var = scope[j].var

LEMMA StaysHygienic ==
  ASSUME NEW this \in Type, NEW ctx, IsFiniteSet(ctx.used), NEW scope \in Scopes, Hygienic(scope, ctx),
         NEW e \in Expr, e.op \in Macros, e.var \in ctx.used
  PROVE  Hygienic(Append(scope, Binding(e, scope, this, ctx)), ctx)
<1>. DEFINE b == Binding(e, scope, this, ctx)
            inner == Append(scope, b)
            n == Len(scope)
<1>1. b \in Entry /\ b.var = e.var /\ b.lean = Emitted(e.var, ctx.root, Used(scope, ctx)) /\ IsFiniteSet(Used(scope, ctx))
  BY BindingIs
<1>. HIDE DEF b
<1>2. /\ inner \in Scopes /\ Len(inner) = n + 1 /\ n \in Nat
      /\ inner[n + 1] = b /\ \A i \in 1 .. n : inner[i] = scope[i]
  BY <1>1, ScopeGrows, ScopeIs
<1>3. ctx.used \subseteq Used(scope, ctx) /\ \A i \in 1 .. n : scope[i].lean \in Used(scope, ctx)
  BY ScopeIs DEF Used
<1>4. /\ b.lean # ctx.root /\ (b.lean = b.var \/ b.lean \notin ctx.used)
      /\ ctx.root \notin ctx.used => b.lean = b.var
      /\ \A i \in 1 .. n : scope[i].lean = b.lean => scope[i].var = b.var
  <2>1. CASE e.var # ctx.root
    <3>1. b.lean = e.var
      BY <1>1, <2>1 DEF Emitted
    <3>2. \A i \in 1 .. n : scope[i].lean = e.var => scope[i].var = e.var
      BY DEF Hygienic
    <3>. QED  BY <1>1, <2>1, <3>1, <3>2
  <2>2. CASE e.var = ctx.root
    <3>1. b.lean = FreshName(e.var, Used(scope, ctx))
      BY <1>1, <2>2 DEF Emitted
    <3>2. b.lean \notin Used(scope, ctx)
      BY <1>1, <3>1, FreshNameIs
    <3>3. ctx.root \in Used(scope, ctx)
      BY <1>3, <2>2
    <3>. QED  BY <1>3, <2>2, <3>2, <3>3
  <2>. QED  BY <2>1, <2>2
<1>. HIDE DEF inner
<1>5. 1 .. n + 1 = (1 .. n) \cup {n + 1}
  BY <1>2
<1>6. ASSUME NEW i \in 1 .. n + 1
      PROVE  /\ inner[i].lean # ctx.root /\ inner[i].var \in ctx.used
             /\ inner[i].lean = inner[i].var \/ inner[i].lean \notin ctx.used
             /\ ctx.root \notin ctx.used => inner[i].lean = inner[i].var
  <2>1. CASE i = n + 1
    BY <1>1, <1>2, <1>4, <2>1
  <2>2. CASE i \in 1 .. n
    BY <1>2, <2>2 DEF Hygienic
  <2>. QED  BY <1>5, <2>1, <2>2
<1>7. ASSUME NEW i \in 1 .. n + 1, NEW j \in 1 .. n + 1, inner[i].lean = inner[j].lean
      PROVE  inner[i].var = inner[j].var
  <2>1. CASE i \in 1 .. n /\ j \in 1 .. n
    BY <1>2, <1>7, <2>1 DEF Hygienic
  <2>2. CASE i = n + 1 /\ j \in 1 .. n
    BY <1>2, <1>4, <1>7, <2>2
  <2>3. CASE i \in 1 .. n /\ j = n + 1
    BY <1>2, <1>4, <1>7, <2>3
  <2>4. CASE i = n + 1 /\ j = n + 1
    BY <2>4
  <2>. QED  BY <1>5, <2>1, <2>2, <2>3, <2>4
<1>8. Hygienic(inner, ctx)
  BY <1>2, <1>6, <1>7 DEF Hygienic
<1>. QED  BY <1>8 DEF inner, b

LEMMA HygienicNames ==
  ASSUME NEW ctx, NEW scope \in Scopes, Hygienic(scope, ctx), NEW n \in ctx.used
  PROVE  /\ LeanAt(scope, ctx.root) = 0
         /\ LeanAt(scope, IF BoundAt(scope, n) = 0 THEN n ELSE scope[BoundAt(scope, n)].lean) = BoundAt(scope, n)
<1>. DEFINE i == BoundAt(scope, n)
            m == IF i = 0 THEN n ELSE scope[i].lean
            j == LeanAt(scope, m)
<1>1. LeanAt(scope, ctx.root) = 0
  BY LeanAtIs DEF Hygienic
<1>2. /\ i \in 0 .. Len(scope) /\ (i = 0 <=> \A k \in 1 .. Len(scope) : scope[k].var # n)
      /\ i # 0 => /\ i \in 1 .. Len(scope) /\ scope[i].var = n
                  /\ \A k \in 1 .. Len(scope) : scope[k].var = n => k <= i
  BY BoundAtIs
<1>3. /\ j \in 0 .. Len(scope) /\ (j = 0 <=> \A k \in 1 .. Len(scope) : scope[k].lean # m)
      /\ j # 0 => /\ j \in 1 .. Len(scope) /\ scope[j].lean = m
                  /\ \A k \in 1 .. Len(scope) : scope[k].lean = m => k <= j
  BY LeanAtIs
<1>4. CASE i = 0
  <2>1. ASSUME NEW k \in 1 .. Len(scope), scope[k].lean = n PROVE FALSE
    <3>1. scope[k].lean = scope[k].var
      BY <2>1 DEF Hygienic
    <3>. QED  BY <1>2, <1>4, <2>1, <3>1
  <2>. QED  BY <1>1, <1>3, <1>4, <2>1
<1>5. CASE i # 0
  <2>. HIDE DEF i, j
  <2>1. m = scope[i].lean /\ i \in 1 .. Len(scope)
    BY <1>2, <1>5
  <2>2. j # 0 /\ j \in 1 .. Len(scope) /\ scope[j].lean = scope[i].lean /\ i <= j
    BY <1>3, <2>1
  <2>3. scope[j].var = scope[i].var
    BY <2>1, <2>2 DEF Hygienic
  <2>4. j <= i
    BY <1>2, <1>5, <2>2, <2>3
  <2>5. j = i
    BY <2>1, <2>2, <2>4, ScopeIs
  <2>. QED  BY <1>1, <2>5 DEF i, j
<1>. QED  BY <1>4, <1>5

\* The name of the base message is bound by no comprehension.
LEMMA BaseIsFree ==
  ASSUME NEW ctx, NEW scope \in Scopes, Hygienic(scope, ctx), ctx.root \notin ctx.used, ctx.base \notin ctx.used
  PROVE  LeanAt(scope, ctx.base) = 0
BY LeanAtIs DEF Hygienic

\* Each value is bound in Lean where CEL binds it: in the text of a field
\* rule, and in the text of a message rule over the base message.
Denotes(x, ctx) == IF ctx.message THEN x.base = x.cel ELSE x.lean = x.cel

LEMMA ValuesDenote ==
  ASSUME NEW this \in Type, NEW ctx, IsFiniteSet(ctx.used), ctx.message \in BOOLEAN,
         ctx.message => ctx.root \notin ctx.used /\ ctx.base \notin ctx.used
  PROVE  \A e \in Expr : \A scope \in Scopes :
           Hygienic(scope, ctx) /\ Idents[e] \subseteq ctx.used =>
             \A x \in Values(this, ctx)[e][scope] : Denotes(x, ctx)
<1>. DEFINE V == Values(this, ctx)
            T == {e \in Expr : \A scope \in Scopes :
                   Hygienic(scope, ctx) /\ Idents[e] \subseteq ctx.used => \A x \in V[e][scope] : Denotes(x, ctx)}
<1>1. ASSUME NEW e \in Expr, Parts1(e) \subseteq T PROVE e \in T
  <2>. SUFFICES ASSUME NEW scope \in Scopes, Hygienic(scope, ctx), Idents[e] \subseteq ctx.used,
                       NEW x \in V[e][scope]
                PROVE  Denotes(x, ctx)
    OBVIOUS
  <2>. HIDE DEF V
  <2>0. V[e][scope] = ValuesAt(this, ctx, V, e, scope) /\ Idents[e] = IdentsOnce(Idents, e)
    BY ValuesEquals, IdentsIs DEF V
  <2>1. \A c \in Parts1(e), s \in Scopes :
          Hygienic(s, ctx) /\ Idents[c] \subseteq ctx.used => \A y \in V[c][s] : Denotes(y, ctx)
    BY <1>1
  <2>. HIDE DEF T
  <2>2. \A c \in Parts1(e) : Idents[c] \subseteq ctx.used
    BY <2>0, IdentsCases, Shapes
  <2>3. \A c \in Parts1(e) : \A y \in V[c][scope] : Denotes(y, ctx)
    BY <2>1, <2>2
  <2>4. Denotes(Value(e, scope, this, 0, 0, 0), ctx)
    BY DEF Denotes, Value
  <2>5. CASE e.op = "ident"
    <3>1. e.name \in ctx.used
      BY <2>0, <2>5, IdentsCases
    <3>. DEFINE i == BoundAt(scope, e.name)
                bound == LeanAt(scope, IF i = 0 THEN e.name ELSE scope[i].lean)
                rooted == LeanAt(scope, ctx.root)
    <3>2. rooted = 0 /\ bound = i
      BY <3>1, HygienicNames
    <3>. HIDE DEF i, bound, rooted
    <3>3. x \in IdentValues(e, scope, this, ctx)
      BY <2>0, <2>5, ValuesCases
    <3>4. CASE e # This
      <4>1. x = Value(e, scope, this, i, bound, bound)
        BY <3>3, <3>4 DEF IdentValues, i, bound
      <4>. QED  BY <3>2, <4>1 DEF Denotes, Value
    <3>5. CASE e = This
      <4>1. x = Value(e, scope, this, i, rooted, rooted)
        BY <3>3, <3>5 DEF IdentValues, i, rooted
      <4>2. e.name = ThisName
        BY <3>5 DEF This, Ident
      <4>3. i = 0
        BY <4>2, BoundAtIs, ScopeIs DEF i, Variable
      <4>. QED  BY <3>2, <4>1, <4>3 DEF Denotes, Value
    <3>. QED  BY <3>4, <3>5
  <2>6. CASE e.op = "select"
    <3>1. CASE e.of = This /\ ctx.message
      <4>1. x \in FieldValues(e, scope, this, ctx)
        BY <2>0, <2>6, <3>1, ValuesCases
      <4>. DEFINE l == LeanAt(scope, <<e.field, 0>>)
                  r == LeanAt(scope, ctx.base)
      <4>2. e.field \in ctx.fields /\ x = Value(e, scope, this, 0, l, r)
        BY <4>1 DEF FieldValues
      <4>3. x.base = r /\ x.cel = 0
        BY <4>2 DEF Value
      <4>4. r = 0
        BY <3>1, BaseIsFree
      <4>. QED  BY <3>1, <4>3, <4>4 DEF Denotes
    <3>2. CASE ~(e.of = This /\ ctx.message)
      <4>1. x \in {Value(e, scope, this, 0, 0, 0)} \cup V[e.of][scope]
        BY <2>0, <2>6, <3>2, ValuesCases
      <4>. QED  BY <2>3, <2>4, <2>6, <4>1, Shapes
    <3>. QED  BY <3>1, <3>2
  <2>7. CASE e.op = "index"
    <3>1. x \in {Value(e, scope, this, 0, 0, 0)} \cup V[e.of][scope]
      BY <2>0, <2>7, ValuesCases
    <3>. QED  BY <2>3, <2>4, <2>7, <3>1, Shapes
  <2>8. CASE e.op = "test"
    <3>1. x \in V[e.of][scope]
      BY <2>0, <2>8, ValuesCases
    <3>. QED  BY <2>3, <2>8, <3>1, Shapes
  <2>9. CASE e.op = "has"
    <3>1. x \in V[e.of.of][scope]
      BY <2>0, <2>9, ValuesCases
    <3>. QED  BY <2>3, <2>9, <3>1, Shapes
  <2>10. CASE e.op \in Pairs
    <3>1. x \in V[e.of][scope] \cup V[e.other][scope]
      BY <2>0, <2>10, ValuesCases
    <3>. QED  BY <2>3, <2>10, <3>1, Shapes
  <2>11. CASE e.op \in Macros
    <3>. DEFINE inner == Append(scope, Binding(e, scope, this, ctx))
    <3>1. x \in V[e.of][scope] \cup V[e.body][inner]
      BY <2>0, <2>11, ValuesCases
    <3>2. e.var \in ctx.used
      BY <2>0, <2>11, IdentsCases
    <3>3. inner \in Scopes /\ Hygienic(inner, ctx)
      BY <2>11, <3>2, BindingIs, ScopeGrows, StaysHygienic
    <3>4. e.body \in Parts1(e) /\ e.of \in Parts1(e)
      BY <2>11, Shapes
    <3>. HIDE DEF inner
    <3>. QED  BY <2>1, <2>2, <2>3, <3>1, <3>3, <3>4
  <2>. QED  BY <2>5, <2>6, <2>7, <2>8, <2>9, <2>10, <2>11, Shapes
<1>. HIDE DEF T, V
<1>2. Expr \subseteq T
  BY <1>1, ExprInduction
<1>. QED  BY <1>2 DEF T, V

-----------------------------------------------------------------------------
(* The types along paths.                                                  *)

LEMMA StepsAre ==
  ASSUME NEW t \in Type
  PROVE  /\ StepType(t, Iterated) = ElemType(t)
         /\ StepType(t, Indexed) = IF Kind(t) \in {"list", "map"} THEN ElemOf(t) ELSE NoType
         /\ \A f \in Field : Kind(t) \notin {"message", "map"} => StepType(t, f) = NoType
<1>1. Iterated \notin DOMAIN FieldsIn(t) /\ Indexed \notin DOMAIN FieldsIn(t) /\ Iterated # Indexed
  BY FieldsAre, WordsAre
<1>2. Iterated \in Descents /\ Indexed \in Descents /\ \A f \in Field : f \notin Descents
  BY WordsAre DEF Descents
<1>3. StepType(t, Iterated) = ElemType(t)
  BY <1>1, <1>2 DEF StepType, ElemType
<1>4. StepType(t, Indexed) = IF Kind(t) \in {"list", "map"} THEN ElemOf(t) ELSE NoType
  BY <1>1, <1>2 DEF StepType
<1>5. ASSUME NEW f \in Field, Kind(t) \notin {"message", "map"} PROVE StepType(t, f) = NoType
  <2>1. DOMAIN FieldsIn(t) = {} /\ f \notin Descents
    BY <1>2, <1>5, FieldsAre
  <2>. QED  BY <1>5, <2>1 DEF StepType
<1>. QED  BY <1>3, <1>4, <1>5

\* Paths that begin alike have the same types there.
LEMMA SameTypesAlong ==
  ASSUME NEW p, NEW q, NEW this \in Type, NEW n \in Nat, \A i \in 1 .. n : Word(p, i) = Word(q, i)
  PROVE  \A i \in 0 .. n : TypesAlong(p, this)[i] = TypesAlong(q, this)[i]
<1>. DEFINE T == {i \in Nat : i <= n => TypesAlong(p, this)[i] = TypesAlong(q, this)[i]}
<1>1. 0 \in T
  BY TypesAlongIs
<1>2. ASSUME NEW i \in Nat, i \in T PROVE i + 1 \in T
  <2>. SUFFICES ASSUME i + 1 <= n PROVE TypesAlong(p, this)[i + 1] = TypesAlong(q, this)[i + 1]
    OBVIOUS
  <2>1. TypesAlong(p, this)[i] = TypesAlong(q, this)[i] /\ i + 1 \in 1 .. n
    BY <1>2
  <2>2. Word(p, i + 1) = Word(q, i + 1)
    BY <2>1
  <2>3. TypesAlong(p, this)[i + 1] = StepType(TypesAlong(p, this)[i], Word(p, i + 1))
    BY TypesAlongIs
  <2>4. TypesAlong(q, this)[i + 1] = StepType(TypesAlong(q, this)[i], Word(q, i + 1))
    BY TypesAlongIs
  <2>. QED  BY <2>1, <2>2, <2>3, <2>4
<1>. HIDE DEF T
<1>3. Nat \subseteq T
  BY <1>1, <1>2, Induction
<1>. QED  BY <1>3 DEF T

\* The type of the value a path denotes.
TypeAt(path, this) == TypesAlong(path, this)[Len(path)]

LEMMA TypeOneOn ==
  ASSUME NEW p \in Path, NEW c \in Words, NEW this \in Type
  PROVE  /\ Len(Append(p, c)) = Len(p) + 1 /\ Len(p) \in Nat
         /\ \A i \in 0 .. Len(p) : TypesAlong(Append(p, c), this)[i] = TypesAlong(p, this)[i]
         /\ TypeAt(Append(p, c), this) = StepType(TypeAt(p, this), c)
         /\ TypeAt(p, this) \in Type
<1>. DEFINE q == Append(p, c)
            n == Len(p)
<1>1. Len(q) = n + 1 /\ n \in Nat /\ q[n + 1] = c /\ \A i \in 1 .. n : q[i] = p[i]
  BY DEF Path
<1>. HIDE DEF q
<1>2. \A i \in 1 .. n : Word(q, i) = Word(p, i)
  <2>. SUFFICES ASSUME NEW i \in 1 .. n PROVE Word(q, i) = Word(p, i)
    OBVIOUS
  <2>1. i \in 1 .. Len(q) /\ q[i] = p[i]
    BY <1>1
  <2>. QED  BY <2>1 DEF Word
<1>3. Word(q, n + 1) = c
  BY <1>1 DEF Word
<1>4. \A i \in 0 .. n : TypesAlong(q, this)[i] = TypesAlong(p, this)[i]
  <2>. HIDE DEF n
  <2>. QED  BY <1>1, <1>2, SameTypesAlong
<1>5. TypesAlong(q, this)[n + 1] = StepType(TypesAlong(q, this)[n], Word(q, n + 1))
  BY <1>1, TypesAlongIs
<1>6. TypesAlong(p, this)[n] \in Type
  BY <1>1, TypesAlongIs
<1>. QED  BY <1>1, <1>3, <1>4, <1>5, <1>6 DEF TypeAt, q

\* What a variable ranges over has the type that its path says.
Tracks(scope, this) ==
  \A i \in 1 .. Len(scope) :
    scope[i].path # NoPath => scope[i].type = TypeAt(scope[i].path, this)

\* An expression that has a path has the type that its path says.
LEMMA TypeFollowsPath ==
  ASSUME NEW this \in Type
  PROVE  \A e \in Expr : \A scope \in Scopes :
           Tracks(scope, this) /\ PathOf(e, scope) # NoPath =>
             TypeOf(this)[e][scope] = TypeAt(PathOf(e, scope), this)
<1>. DEFINE T == {e \in Expr : \A scope \in Scopes :
                   Tracks(scope, this) /\ PathOf(e, scope) # NoPath =>
                     TypeOf(this)[e][scope] = TypeAt(PathOf(e, scope), this)}
<1>1. ASSUME NEW e \in Expr, Parts1(e) \subseteq T PROVE e \in T
  <2>. SUFFICES ASSUME NEW scope \in Scopes, Tracks(scope, this), PathOf(e, scope) # NoPath
                PROVE  TypeOf(this)[e][scope] = TypeAt(PathOf(e, scope), this)
    OBVIOUS
  <2>. DEFINE env == BindingPaths(scope)
  <2>1. env \in Envs
    BY BindingPathsIs
  <2>. HIDE DEF env
  <2>2. PathOf(e, scope) = CelPathOnce(env, CelPath(env), e)
    BY <2>1, CelPathIs DEF PathOf, env
  <2>3. TypeOf(this)[e][scope] = TypeOfAt(this, TypeOf(this), e, scope)
    BY TypeOfEquals
  <2>4. \A c \in Parts1(e) : /\ c \in Expr /\ PathOf(c, scope) = CelPath(env)[c] /\ CelPath(env)[c] \in Path
                             /\ TypeOf(this)[c][scope] \in Type
    BY <2>1, PartsInExpr, CelPathIs, TypeOfIs DEF PathOf, env
  <2>5. \A c \in Parts1(e) :
          CelPath(env)[c] # NoPath => TypeOf(this)[c][scope] = TypeAt(CelPath(env)[c], this)
    BY <1>1, <2>4
  <2>. HIDE DEF T
  <2>6. CASE e.op = "ident"
    <3>. DEFINE i == BoundAt(scope, e.name)
    <3>1. PathOf(e, scope) = PathIn(env, e.name)
      BY <2>2, <2>6, CelPathCases
    <3>2. PathOf(e, scope) = IF i # 0 THEN scope[i].path ELSE IF e.name = ThisName THEN <<>> ELSE NoPath
      BY <3>1, PathInScope DEF env
    <3>3. TypeOf(this)[e][scope] = IF i # 0 THEN scope[i].type ELSE IF e = This THEN this ELSE NoType
      BY <2>3, <2>6, TypeOfCases
    <3>4. e.name = ThisName => e = This
      BY <2>6, Shapes DEF This
    <3>5. TypeAt(<<>>, this) = this
      BY TypesAlongIs DEF TypeAt
    <3>6. i # 0 => i \in 1 .. Len(scope)
      BY BoundAtIs
    <3>. HIDE DEF i
    <3>. QED  BY <3>2, <3>3, <3>4, <3>5, <3>6 DEF Tracks
  <2>7. CASE e.op = "select"
    <3>. DEFINE p == CelPath(env)[e.of]
                t == TypeOf(this)[e.of][scope]
    <3>1. e.of \in Parts1(e) /\ e.field \in Field /\ e.field \in Words
      BY <2>7, Shapes, WordsAre
    <3>2. PathOf(e, scope) = Extend(p, e.field)
      BY <2>2, <2>7, CelPathCases
    <3>3. TypeOf(this)[e][scope] = IF Kind(t) \in {"message", "map"} THEN StepType(t, e.field) ELSE NoType
      BY <2>3, <2>7, TypeOfCases
    <3>4. p \in Path /\ p # NoPath /\ t = TypeAt(p, this) /\ t \in Type
      BY <2>4, <2>5, <3>1, <3>2 DEF Extend
    <3>. HIDE DEF p, t
    <3>5. PathOf(e, scope) = Append(p, e.field)
      BY <3>2, <3>4 DEF Extend
    <3>6. TypeAt(Append(p, e.field), this) = StepType(t, e.field)
      BY <3>1, <3>4, TypeOneOn
    <3>. QED  BY <3>1, <3>3, <3>4, <3>5, <3>6, StepsAre
  <2>8. CASE e.op = "index"
    <3>. DEFINE p == CelPath(env)[e.of]
                t == TypeOf(this)[e.of][scope]
    <3>1. e.of \in Parts1(e) /\ Indexed \in Words
      BY <2>8, Shapes, WordsAre
    <3>2. PathOf(e, scope) = IndexElem(p)
      BY <2>2, <2>8, CelPathCases
    <3>3. TypeOf(this)[e][scope] = IF Kind(t) \in {"list", "map"} THEN ElemOf(t) ELSE NoType
      BY <2>3, <2>8, TypeOfCases
    <3>4. p \in Path /\ p # NoPath /\ t = TypeAt(p, this) /\ t \in Type
      BY <2>4, <2>5, <3>1, <3>2 DEF IndexElem, Extend
    <3>. HIDE DEF p, t
    <3>5. PathOf(e, scope) = Append(p, Indexed)
      BY <3>2, <3>4 DEF IndexElem, Extend
    <3>6. TypeAt(Append(p, Indexed), this) = StepType(t, Indexed)
      BY <3>1, <3>4, TypeOneOn
    <3>. QED  BY <3>3, <3>4, <3>5, <3>6, StepsAre
  <2>9. CASE e.op \in {"test", "has"} \cup Macros \cup Pairs
    BY <2>2, <2>9, CelPathCases
  <2>. QED  BY <2>6, <2>7, <2>8, <2>9, Shapes
<1>. HIDE DEF T
<1>2. Expr \subseteq T
  BY <1>1, ExprInduction
<1>. QED  BY <1>2 DEF T

LEMMA StaysTracking ==
  ASSUME NEW this \in Type, NEW scope \in Scopes, Tracks(scope, this),
         NEW e \in Expr, NEW b \in Entry, b.path = IterElem(PathOf(e, scope)),
         b.type = ElemType(TypeOf(this)[e][scope])
  PROVE  Tracks(Append(scope, b), this)
<1>. DEFINE inner == Append(scope, b)
            n == Len(scope)
            p == PathOf(e, scope)
<1>1. /\ Len(inner) = n + 1 /\ n \in Nat
      /\ inner[n + 1] = b /\ \A i \in 1 .. n : inner[i] = scope[i]
  BY ScopeGrows, ScopeIs
<1>2. p \in Path
  BY BindingPathsIs, CelPathIs DEF PathOf
<1>3. p # NoPath => TypeOf(this)[e][scope] = TypeAt(p, this)
  BY TypeFollowsPath
<1>. HIDE DEF inner, p
<1>4. ASSUME b.path # NoPath PROVE b.type = TypeAt(b.path, this)
  <2>1. p # NoPath /\ b.path = Append(p, Iterated)
    BY <1>4 DEF p, IterElem, Extend
  <2>2. TypeAt(Append(p, Iterated), this) = StepType(TypeAt(p, this), Iterated) /\ TypeAt(p, this) \in Type
    BY <1>2, WordsAre, TypeOneOn
  <2>. QED  BY <1>3, <2>1, <2>2, StepsAre
<1>5. 1 .. n + 1 = (1 .. n) \cup {n + 1}
  BY <1>1
<1>6. ASSUME NEW i \in 1 .. n + 1, inner[i].path # NoPath PROVE inner[i].type = TypeAt(inner[i].path, this)
  <2>1. CASE i = n + 1
    BY <1>1, <1>4, <1>6, <2>1
  <2>2. CASE i \in 1 .. n
    BY <1>1, <1>6, <2>2 DEF Tracks
  <2>. QED  BY <1>5, <2>1, <2>2
<1>7. Tracks(inner, this)
  BY <1>1, <1>6 DEF Tracks
<1>. QED  BY <1>7 DEF inner

-----------------------------------------------------------------------------
(* The paths that are collected are those that are looked up.              *)

Known(scope, P) == \A i \in 1 .. Len(scope) : scope[i].path \in P \cup {NoPath}
Tells(x, P, this) == x.path # NoPath => x.path \in P \cup {<<>>} /\ x.type = TypeAt(x.path, this)

LEMMA ValueTells ==
  ASSUME NEW this \in Type, NEW P, NEW e \in Expr, NEW scope \in Scopes, Tracks(scope, this),
         PathOf(e, scope) \in P \cup {<<>>, NoPath}, NEW c, NEW l, NEW b
  PROVE  Tells(Value(e, scope, this, c, l, b), P, this)
<1>1. PathOf(e, scope) # NoPath => TypeOf(this)[e][scope] = TypeAt(PathOf(e, scope), this)
  BY TypeFollowsPath
<1>. DEFINE x == Value(e, scope, this, c, l, b)
<1>2. x.path = PathOf(e, scope) /\ x.type = TypeOf(this)[e][scope]
  BY DEF Value
<1>. HIDE DEF x
<1>. QED  BY <1>1, <1>2 DEF Tells, x

LEMMA ValuesTell ==
  ASSUME NEW this \in Type, NEW ctx, IsFiniteSet(ctx.used), NEW P
  PROVE  \A e \in Expr : \A scope \in Scopes :
           Tracks(scope, this) /\ Known(scope, P) /\ SelectPaths[e][BindingPaths(scope)] \subseteq P =>
             \A x \in Values(this, ctx)[e][scope] : Tells(x, P, this)
<1>. DEFINE V == Values(this, ctx)
            T == {e \in Expr : \A scope \in Scopes :
                   Tracks(scope, this) /\ Known(scope, P) /\ SelectPaths[e][BindingPaths(scope)] \subseteq P =>
                     \A x \in V[e][scope] : Tells(x, P, this)}
<1>1. ASSUME NEW e \in Expr, Parts1(e) \subseteq T PROVE e \in T
  <2>. SUFFICES ASSUME NEW scope \in Scopes, Tracks(scope, this), Known(scope, P),
                       SelectPaths[e][BindingPaths(scope)] \subseteq P, NEW x \in V[e][scope]
                PROVE  Tells(x, P, this)
    OBVIOUS
  <2>. DEFINE env == BindingPaths(scope)
  <2>1. env \in Envs
    BY BindingPathsIs
  <2>2. V[e][scope] = ValuesAt(this, ctx, V, e, scope)
    BY ValuesEquals
  <2>. HIDE DEF V
  <2>3. SelectPaths[e][env] = SelectPathsAt(SelectPaths, e, env) /\ PathOf(e, scope) = CelPath(env)[e]
    BY <2>1, SelectPathsEquals DEF PathOf
  <2>4. \A c \in Parts1(e), s \in Scopes :
          Tracks(s, this) /\ Known(s, P) /\ SelectPaths[c][BindingPaths(s)] \subseteq P =>
            \A y \in V[c][s] : Tells(y, P, this)
    BY <1>1
  <2>5. \A c \in Parts1(e) : SelectPaths[c][env] \subseteq P => \A y \in V[c][scope] : Tells(y, P, this)
    BY <2>4
  <2>6. PathOf(e, scope) \in P \cup {<<>>, NoPath} => Tells(Value(e, scope, this, 0, 0, 0), P, this)
    BY ValueTells
  <2>. HIDE DEF T, env
  <2>7. CASE e.op = "ident"
    <3>. DEFINE i == BoundAt(scope, e.name)
    <3>1. PathOf(e, scope) = PathIn(env, e.name)
      BY <2>1, <2>3, <2>7, CelPathIs, CelPathCases
    <3>2. PathOf(e, scope) = IF i # 0 THEN scope[i].path ELSE IF e.name = ThisName THEN <<>> ELSE NoPath
      BY <3>1, PathInScope DEF env
    <3>3. i # 0 => i \in 1 .. Len(scope)
      BY BoundAtIs
    <3>. HIDE DEF i
    <3>4. PathOf(e, scope) \in P \cup {<<>>, NoPath}
      BY <3>2, <3>3 DEF Known
    <3>5. x \in IdentValues(e, scope, this, ctx)
      BY <2>2, <2>7, ValuesCases
    <3>6. \E c, l, b : x = Value(e, scope, this, c, l, b)
      BY <3>5 DEF IdentValues
    <3>. QED  BY <3>4, <3>6, ValueTells
  <2>8. CASE e.op \in {"select", "index"}
    <3>1. SelectPaths[e][env] = ({CelPath(env)[e]} \ {NoPath}) \cup SelectPaths[e.of][env]
      BY <2>3, <2>8, SelectPathsCases
    <3>2. PathOf(e, scope) \in P \cup {<<>>, NoPath} /\ SelectPaths[e.of][env] \subseteq P
      BY <2>3, <3>1 DEF env
    <3>3. \A y \in V[e.of][scope] : Tells(y, P, this)
      BY <2>5, <2>8, <3>2, Shapes
    <3>4. CASE e.op = "select" /\ e.of = This /\ ctx.message
      <4>1. x \in FieldValues(e, scope, this, ctx)
        BY <2>2, <3>4, ValuesCases
      <4>2. \E c, l, b : x = Value(e, scope, this, c, l, b)
        BY <4>1 DEF FieldValues
      <4>. QED  BY <3>2, <4>2, ValueTells
    <3>5. CASE ~(e.op = "select" /\ e.of = This /\ ctx.message)
      <4>1. x \in {Value(e, scope, this, 0, 0, 0)} \cup V[e.of][scope]
        BY <2>2, <2>8, <3>5, ValuesCases
      <4>. QED  BY <2>6, <3>2, <3>3, <4>1
    <3>. QED  BY <3>4, <3>5
  <2>9. CASE e.op = "test"
    <3>1. x \in V[e.of][scope] /\ SelectPaths[e][env] = SelectPaths[e.of][env]
      BY <2>2, <2>3, <2>9, ValuesCases, SelectPathsCases
    <3>. QED  BY <2>5, <2>9, <3>1, Shapes DEF env
  <2>10. CASE e.op = "has"
    <3>1. x \in V[e.of.of][scope] /\ SelectPaths[e.of.of][env] \subseteq SelectPaths[e][env]
      BY <2>2, <2>3, <2>10, ValuesCases, SelectPathsCases
    <3>. QED  BY <2>5, <2>10, <3>1, Shapes DEF env
  <2>11. CASE e.op \in Pairs
    <3>1. /\ x \in V[e.of][scope] \cup V[e.other][scope]
          /\ SelectPaths[e][env] = SelectPaths[e.of][env] \cup SelectPaths[e.other][env]
      BY <2>2, <2>3, <2>11, ValuesCases, SelectPathsCases
    <3>. QED  BY <2>5, <2>11, <3>1, Shapes DEF env
  <2>12. CASE e.op \in Macros
    <3>. DEFINE b == Binding(e, scope, this, ctx)
                inner == Append(scope, b)
                elem == IterElem(CelPath(env)[e.of])
    <3>1. /\ x \in V[e.of][scope] \cup V[e.body][inner]
          /\ SelectPaths[e][env] = SelectPaths[e.of][env] \cup ({elem} \ {NoPath})
                                     \cup SelectPaths[e.body][InnerEnv(env, e.var, elem)]
      BY <2>2, <2>3, <2>12, ValuesCases, SelectPathsCases
    <3>2. e.body \in Parts1(e) /\ e.of \in Parts1(e) /\ e.of \in Expr
      BY <2>12, Shapes
    <3>3. /\ b \in Entry /\ b.var = e.var /\ b.path = IterElem(PathOf(e.of, scope))
          /\ b.type = ElemType(TypeOf(this)[e.of][scope])
      BY <2>12, BindingIs
    <3>4. b.path = elem
      BY <3>3 DEF PathOf, env
    <3>. HIDE DEF b, elem
    <3>5. BindingPaths(inner) = InnerEnv(env, e.var, elem)
      BY <3>3, <3>4, EnvWithin DEF env
    <3>6. inner \in Scopes /\ Tracks(inner, this)
      BY <3>2, <3>3, ScopeGrows, StaysTracking
    <3>7. elem \in P \cup {NoPath}
      BY <3>1 DEF env
    <3>8. Known(inner, P)
      <4>1. /\ Len(inner) = Len(scope) + 1 /\ Len(scope) \in Nat /\ inner[Len(scope) + 1] = b
            /\ \A i \in 1 .. Len(scope) : inner[i] = scope[i]
        BY <3>3, ScopeGrows, ScopeIs
      <4>. HIDE DEF inner
      <4>2. \A i \in 1 .. Len(inner) : i \in 1 .. Len(scope) \/ i = Len(scope) + 1
        BY <4>1
      <4>. QED  BY <3>4, <3>7, <4>1, <4>2 DEF Known
    <3>. HIDE DEF inner
    <3>9. CASE x \in V[e.of][scope]
      BY <2>5, <3>1, <3>2, <3>9 DEF env
    <3>10. CASE x \in V[e.body][inner]
      <4>1. SelectPaths[e.body][BindingPaths(inner)] \subseteq P
        BY <3>1, <3>5 DEF env
      <4>. QED  BY <2>4, <3>2, <3>6, <3>8, <3>10, <4>1
    <3>. QED  BY <3>1, <3>9, <3>10
  <2>. QED  BY <2>7, <2>8, <2>9, <2>10, <2>11, <2>12, Shapes
<1>. HIDE DEF T, V
<1>2. Expr \subseteq T
  BY <1>1, ExprInduction
<1>. QED  BY <1>2 DEF T, V

-----------------------------------------------------------------------------
(* Attributes.                                                             *)

LEMMA AttrOfIs ==
  ASSUME NEW t
  PROVE  /\ AttrOf(t) # SelectsThroughEnum
         /\ Kind(t) = "enum" => AttrOf(t) = "enumInt"
         /\ Kind(t) = "map" => AttrOf(t) = "mapSelect"
         /\ Kind(t) \in Numeric => AttrOf(t) = Kind(t)
         /\ Kind(t) \notin Numeric \cup {"enum", "map"} => AttrOf(t) = "none"
         /\ {"enumInt", "mapSelect", "none"} \cap {SelectsThroughEnum} = {}
<1>1. /\ Kind(t) = "enum" => AttrOf(t) = "enumInt"
      /\ Kind(t) = "map" => AttrOf(t) = "mapSelect"
  BY DEF AttrOf, Numeric
<1>2. Kind(t) \in Numeric => AttrOf(t) = Kind(t)
  BY DEF AttrOf, Numeric
<1>3. Kind(t) \notin Numeric \cup {"enum", "map"} => AttrOf(t) = "none"
  BY DEF AttrOf
<1>4. {"enumInt", "mapSelect", "none"} \cap {SelectsThroughEnum} = {} /\ SelectsThroughEnum \notin Numeric
  BY Zenon DEF Numeric, SelectsThroughEnum
<1>5. Kind(t) \in Numeric \/ Kind(t) = "enum" \/ Kind(t) = "map" \/ Kind(t) \notin Numeric \cup {"enum", "map"}
  OBVIOUS
<1>6. AttrOf(t) \in {"enumInt", "mapSelect", "none"} \cup Numeric
  BY <1>1, <1>2, <1>3, <1>5
<1>. QED  BY <1>1, <1>2, <1>3, <1>4, <1>6

LEMMA NoTypeHasNone == Kind(NoType) = "none" /\ AttrOf(NoType) = "none"
<1>1. Kind(NoType) = "none"
  BY DEF Kind, NoType, Word
<1>. QED  BY <1>1, AttrOfIs DEF Numeric

\* Below what is no container nothing has a type.
LEMMA NothingBelow ==
  ASSUME NEW p, NEW this \in Type, Kind(this) \notin {"list", "map", "message"}, NEW n \in Nat, n # 0
  PROVE  TypesAlong(p, this)[n] = NoType
<1>. DEFINE T == {i \in Nat : TypesAlong(p, this)[i + 1] = NoType}
<1>1. 0 \in T
  <2>1. TypesAlong(p, this)[0 + 1] = StepType(this, Word(p, 0 + 1))
    BY TypesAlongIs
  <2>. QED  BY <2>1, StepTypeIs
<1>2. ASSUME NEW i \in Nat, i \in T PROVE i + 1 \in T
  <2>1. TypesAlong(p, this)[(i + 1) + 1] = StepType(NoType, Word(p, (i + 1) + 1))
    BY <1>2, TypesAlongIs
  <2>2. Kind(NoType) \notin {"list", "map", "message"} /\ NoType \in Type
    BY NoTypeHasNone, NoTypeIs
  <2>. QED  BY <2>1, <2>2, StepTypeIs
<1>. HIDE DEF T
<1>3. Nat \subseteq T
  BY <1>1, <1>2, Induction
<1>4. n - 1 \in Nat /\ (n - 1) + 1 = n
  OBVIOUS
<1>. QED  BY <1>3, <1>4 DEF T

LEMMA WalkPathIs ==
  ASSUME NEW p, NEW this, NEW a
  PROVE  a \in WalkPath(p, this) <=>
           \E i \in 1 .. Len(p) :
             LET t == TypesAlong(p, this)[i]
                 opens == Kind(t) = "enum" /\ i < Len(p)
             IN /\ opens \/ Marked(AttrOf(t), i = Len(p))
                /\ a = <<SubSeq(p, 1, i), IF opens THEN SelectsThroughEnum ELSE AttrOf(t)>>
BY DEF WalkPath

\* What is said of a path is the attribute of the type there.
LEMMA WalkedTells ==
  ASSUME NEW p \in Path, NEW this \in Type, NEW a \in WalkPath(p, this), a[2] # SelectsThroughEnum
  PROVE  a[1] \in Path /\ a[1] # <<>> /\ a[2] = AttrOf(TypeAt(a[1], this))
<1>. DEFINE type == TypesAlong(p, this)
            Opens(i) == Kind(type[i]) = "enum" /\ i < Len(p)
            q(i) == SubSeq(p, 1, i)
<1>1. PICK i \in 1 .. Len(p) :
        /\ Opens(i) \/ Marked(AttrOf(type[i]), i = Len(p))
        /\ a = <<q(i), IF Opens(i) THEN SelectsThroughEnum ELSE AttrOf(type[i])>>
  BY WalkPathIs
<1>2. Len(p) \in Nat /\ i \in Nat /\ i <= Len(p) /\ i # 0 /\ \A k \in 1 .. Len(p) : p[k] \in Words
  BY DEF Path
<1>3. q(i) \in Path /\ Len(q(i)) = i /\ \A k \in 1 .. i : q(i)[k] = p[k]
  BY <1>2, SubSeqProperties DEF Path
<1>. HIDE DEF q, type
<1>4. a[1] = q(i) /\ a[2] = AttrOf(type[i])
  BY <1>1
<1>5. \A k \in 1 .. i : Word(q(i), k) = Word(p, k)
  BY <1>2, <1>3 DEF Word
<1>6. TypesAlong(q(i), this)[i] = type[i]
  BY <1>2, <1>5, SameTypesAlong DEF type
<1>7. q(i) # <<>>
  BY <1>2, <1>3
<1>. QED  BY <1>3, <1>4, <1>6, <1>7 DEF TypeAt

\* The attributes found for a set of paths, beside what is said of `this`.
LEMMA ResolvedTells ==
  ASSUME NEW this \in Type, NEW P, P \subseteq Path, NEW S, \A s \in S : s[1] = <<>>,
         \A a \in ResolvePaths(P, this) \cup S : a[2] # SelectsThroughEnum,
         NEW p \in P, p # <<>>, p # NoPath
  PROVE  AttrAt(ResolvePaths(P, this) \cup S, p) = AttrOf(TypeAt(p, this))
<1>. DEFINE A == ResolvePaths(P, this) \cup S
<1>1. \A a \in A : a[1] = p => a[2] = AttrOf(TypeAt(p, this))
  <2>. SUFFICES ASSUME NEW a \in A, a[1] = p PROVE a[2] = AttrOf(TypeAt(p, this))
    OBVIOUS
  <2>1. a \in ResolvePaths(P, this)
    OBVIOUS
  <2>2. PICK q \in P : a \in WalkPath(q, this)
    BY <2>1 DEF ResolvePaths
  <2>. QED  BY <2>2, WalkedTells
<1>2. AttrOf(TypeAt(p, this)) # "none" => \E a \in A : a[1] = p
  <2>. SUFFICES ASSUME AttrOf(TypeAt(p, this)) # "none" PROVE \E a \in A : a[1] = p
    OBVIOUS
  <2>. DEFINE n == Len(p)
              t == TypesAlong(p, this)[n]
              a == <<SubSeq(p, 1, n), IF Kind(t) = "enum" /\ n < n THEN SelectsThroughEnum ELSE AttrOf(t)>>
  <2>1. n \in Nat /\ n # 0 /\ SubSeq(p, 1, n) = p
    <3>1. p \in Seq(Words)
      BY DEF Path
    <3>. QED  BY <3>1
  <2>2. Marked(AttrOf(t), n = n)
    BY DEF Marked, TypeAt
  <2>3. a \in WalkPath(p, this)
    <3>1. n \in 1 .. Len(p)
      BY <2>1
    <3>. QED  BY <2>2, <3>1, WalkPathIs
  <2>4. a \in A
    BY <2>3 DEF ResolvePaths
  <2>5. a[1] = p
    BY <2>1
  <2>. HIDE DEF A, a
  <2>. QED  BY <2>4, <2>5
<1>. HIDE DEF A
<1>3. CASE \E a \in A : a[1] = p
  <2>1. PICK a \in A : a[1] = p
    BY <1>3
  <2>2. (CHOOSE b \in A : b[1] = p) \in A /\ (CHOOSE b \in A : b[1] = p)[1] = p
    BY <2>1
  <2>3. AttrAt(A, p) = (CHOOSE b \in A : b[1] = p)[2]
    BY <2>1 DEF AttrAt
  <2>4. AttrAt(A, p) = AttrOf(TypeAt(p, this))
    BY <1>1, <2>2, <2>3
  <2>. QED  BY <2>4 DEF A
<1>4. CASE ~\E a \in A : a[1] = p
  <2>1. AttrAt(A, p) = "none"
    BY <1>4 DEF AttrAt
  <2>. QED  BY <1>2, <1>4, <2>1 DEF A
<1>. QED  BY <1>3, <1>4

LEMMA ResolvedHere ==
  ASSUME NEW this \in Type, NEW P, P \subseteq Path,
         \A a \in ResolvePaths(P, this) : a[2] # SelectsThroughEnum
  PROVE  /\ AttrAt(ResolvePaths(P, this), <<>>) = "none"
         /\ \A v : AttrAt(ResolvePaths(P, this) \cup {<<<<>>, v>>}, <<>>) = v
<1>. DEFINE A == ResolvePaths(P, this)
<1>1. \A a \in A : a[1] # <<>>
  <2>. SUFFICES ASSUME NEW a \in A PROVE a[1] # <<>>
    OBVIOUS
  <2>1. PICK q \in P : a \in WalkPath(q, this)
    BY DEF ResolvePaths
  <2>. QED  BY <2>1, WalkedTells
<1>. HIDE DEF A
<1>2. AttrAt(A, <<>>) = "none"
  BY <1>1 DEF AttrAt
<1>3. ASSUME NEW v PROVE AttrAt(A \cup {<<<<>>, v>>}, <<>>) = v
  <2>. DEFINE B == A \cup {<<<<>>, v>>}
  <2>1. <<<<>>, v>> \in B /\ <<<<>>, v>>[1] = <<>> /\ \A b \in B : b[1] = <<>> => b = <<<<>>, v>>
    BY <1>1
  <2>. HIDE DEF B
  <2>2. (CHOOSE b \in B : b[1] = <<>>) = <<<<>>, v>>
    BY <2>1
  <2>3. <<>> # NoPath
    BY PathsClosed
  <2>4. AttrAt(B, <<>>) = <<<<>>, v>>[2]
    BY <2>1, <2>2, <2>3 DEF AttrAt
  <2>. QED  BY <2>4 DEF B
<1>. QED  BY <1>2, <1>3 DEF A

LEMMA OnlyHere ==
  ASSUME NEW v
  PROVE  /\ AttrAt({<<<<>>, v>>}, <<>>) = v
         /\ \A p : p # <<>> => AttrAt({<<<<>>, v>>}, p) = "none"
         /\ \A p : AttrAt({}, p) = "none"
<1>. DEFINE A == {<<<<>>, v>>}
<1>1. \A a \in A : a = <<<<>>, v>> /\ a[1] = <<>> /\ a[2] = v
  OBVIOUS
<1>2. <<<<>>, v>> \in A /\ <<>> # NoPath
  BY PathsClosed
<1>. HIDE DEF A
<1>3. (CHOOSE a \in A : a[1] = <<>>) \in A
  BY <1>1, <1>2
<1>4. AttrAt(A, <<>>) = v
  BY <1>1, <1>2, <1>3 DEF AttrAt
<1>5. \A p : p # <<>> => AttrAt(A, p) = "none"
  BY <1>1 DEF AttrAt
<1>6. \A p : AttrAt({}, p) = "none"
  BY DEF AttrAt
<1>. QED  BY <1>4, <1>5, <1>6 DEF A

LEMMA NothingBound ==
  ASSUME NEW this, NEW P, NEW ctx
  PROVE  <<>> \in Scopes /\ BindingPaths(<<>>) = {} /\ {} \in Envs /\ Tracks(<<>>, this) /\ Known(<<>>, P) /\ Hygienic(<<>>, ctx)
<1>1. <<>> \in Scopes /\ 1 .. Len(<<>>) = {}
  BY NoScope
<1>2. BindingPaths(<<>>) = {}
  BY <1>1, BindingPathsAre
<1>. QED  BY <1>1, <1>2 DEF Envs, Tracks, Known, Hygienic

\* The attributes of a rule that has no error are those of its values.
Attrs(target, this, e) ==
  IF target = "message" THEN PathAttrsForMessage(this, e) ELSE PathAttrsForField(this, e)

LEMMA AttrsTell ==
  ASSUME NEW target, NEW this \in Type, target = "message" => Kind(this) = "message",
         NEW e \in Expr, \A a \in Attrs(target, this, e) : a[2] # SelectsThroughEnum,
         NEW p \in SelectPaths[e][{}] \cup {<<>>}, p # NoPath
  PROVE  AttrAt(Attrs(target, this, e), p) = AttrOf(TypeAt(p, this))
<1>. DEFINE P == SelectPaths[e][{}]
            A == Attrs(target, this, e)
            R == ResolvePaths(P, this)
<1>1. P \subseteq Path
  BY NothingBound, SelectPathsEquals
<1>2. TypeAt(<<>>, this) = this
  BY TypesAlongIs DEF TypeAt
<1>. HIDE DEF P
<1>3. CASE target = "message" \/ Kind(this) \in {"list", "message"}
  <2>1. A = R
    BY <1>3 DEF Attrs, PathAttrsForMessage, PathAttrsForField, P, Numeric
  <2>2. Kind(this) \notin Numeric \cup {"enum", "map"}
    BY <1>3 DEF Numeric
  <2>3. R = R \cup {}
    OBVIOUS
  <2>4. \A a \in R : a[2] # SelectsThroughEnum
    BY <2>1
  <2>5. CASE p = <<>>
    <3>1. AttrAt(R, <<>>) = "none"
      BY <1>1, <2>4, ResolvedHere
    <3>2. AttrOf(this) = "none"
      BY <2>2, AttrOfIs
    <3>. QED  BY <1>2, <2>1, <2>5, <3>1, <3>2
  <2>6. CASE p # <<>>
    <3>1. p \in P
      BY <2>6 DEF P
    <3>2. ASSUME NEW S, \A s \in S : s[1] = <<>>, \A a \in R \cup S : a[2] # SelectsThroughEnum
          PROVE  AttrAt(R \cup S, p) = AttrOf(TypeAt(p, this))
      BY <1>1, <2>6, <3>1, <3>2, ResolvedTells
    <3>. HIDE DEF R
    <3>3. (\A s \in {} : s[1] = <<>>) /\ \A a \in R \cup {} : a[2] # SelectsThroughEnum
      BY <2>3, <2>4
    <3>4. AttrAt(R \cup {}, p) = AttrOf(TypeAt(p, this))
      BY <3>2, <3>3
    <3>. QED  BY <2>1, <2>3, <3>4
  <2>. QED  BY <2>5, <2>6
<1>4. CASE target # "message" /\ Kind(this) = "map"
  <2>. DEFINE S == {<<<<>>, "mapSelect">>}
  <2>1. A = R \cup S
    BY <1>4 DEF Attrs, PathAttrsForField, P, Numeric
  <2>2. \A a \in R \cup S : a[2] # SelectsThroughEnum
    BY <2>1
  <2>3. CASE p = <<>>
    <3>1. AttrAt(R \cup S, <<>>) = "mapSelect"
      BY <1>1, <2>2, ResolvedHere
    <3>2. AttrOf(this) = "mapSelect"
      BY <1>4, AttrOfIs
    <3>. QED  BY <1>2, <2>1, <2>3, <3>1, <3>2
  <2>4. CASE p # <<>>
    <3>1. p \in P
      BY <2>4 DEF P
    <3>2. \A s \in S : s[1] = <<>>
      OBVIOUS
    <3>. HIDE DEF S
    <3>3. AttrAt(R \cup S, p) = AttrOf(TypeAt(p, this))
      BY <1>1, <2>2, <2>4, <3>1, <3>2, ResolvedTells
    <3>. QED  BY <2>1, <3>3
  <2>. QED  BY <2>3, <2>4
<1>5. CASE target # "message" /\ Kind(this) \notin {"list", "map", "message"}
  <2>1. p # <<>> => AttrOf(TypeAt(p, this)) = "none"
    <3>. SUFFICES ASSUME p # <<>> PROVE AttrOf(TypeAt(p, this)) = "none"
      OBVIOUS
    <3>1. Len(p) \in Nat /\ Len(p) # 0
      BY <1>1 DEF Path, P
    <3>2. TypeAt(p, this) = NoType
      BY <1>5, <3>1, NothingBelow DEF TypeAt
    <3>. QED  BY <3>2, NoTypeHasNone
  <2>2. CASE Kind(this) = "enum"
    <3>1. A = {<<<<>>, IF P # {} THEN SelectsThroughEnum ELSE "enumInt">>}
      BY <1>5, <2>2 DEF Attrs, PathAttrsForField, P, Numeric
    <3>2. <<<<>>, IF P # {} THEN SelectsThroughEnum ELSE "enumInt">>[2] # SelectsThroughEnum
      BY <3>1
    <3>3. P = {}
      BY <3>2
    <3>4. A = {<<<<>>, "enumInt">>} /\ p = <<>>
      BY <3>1, <3>3 DEF P
    <3>. QED  BY <1>2, <2>2, <3>4, OnlyHere, AttrOfIs
  <2>3. CASE Kind(this) \in Numeric
    <3>1. A = {<<<<>>, Kind(this)>>}
      BY <1>5, <2>3 DEF Attrs, PathAttrsForField, P, Numeric
    <3>. HIDE DEF A
    <3>2. p = <<>> => AttrAt(A, p) = AttrOf(this)
      BY <2>3, <3>1, OnlyHere, AttrOfIs
    <3>3. p # <<>> => AttrAt(A, p) = "none"
      BY <3>1, OnlyHere
    <3>. QED  BY <1>2, <2>1, <3>2, <3>3 DEF A
  <2>4. CASE Kind(this) \notin Numeric \cup {"enum"}
    <3>1. A = {}
      BY <1>5, <2>4 DEF Attrs, PathAttrsForField, P, Numeric
    <3>2. AttrOf(this) = "none"
      BY <1>5, <2>4, AttrOfIs
    <3>. QED  BY <1>2, <2>1, <3>1, <3>2, OnlyHere
  <2>. QED  BY <2>2, <2>3, <2>4
<1>. QED  BY <1>3, <1>4, <1>5

-----------------------------------------------------------------------------
(* Selecting through an enum.                                              *)

\* Scopes that a type depends on in the same way.
SameTypes(s1, s2) ==
  /\ Len(s1) = Len(s2)
  /\ \A i \in 1 .. Len(s1) : s1[i].var = s2[i].var /\ s1[i].type = s2[i].type

LEMMA SameBound ==
  ASSUME NEW s1 \in Scopes, NEW s2 \in Scopes, SameTypes(s1, s2), NEW n
  PROVE  BoundAt(s1, n) = BoundAt(s2, n)
<1>. DEFINE i == BoundAt(s1, n)
            j == BoundAt(s2, n)
<1>1. Len(s1) \in Nat /\ Len(s1) = Len(s2) /\ \A k \in 1 .. Len(s1) : s1[k].var = s2[k].var
  BY ScopeIs DEF SameTypes
<1>2. /\ i \in Nat
      /\ i = 0 <=> \A k \in 1 .. Len(s1) : s1[k].var # n
      /\ i # 0 => i \in 1 .. Len(s1) /\ s1[i].var = n /\ \A k \in 1 .. Len(s1) : s1[k].var = n => k <= i
  BY <1>1, BoundAtIs
<1>3. /\ j \in Nat
      /\ j = 0 <=> \A k \in 1 .. Len(s2) : s2[k].var # n
      /\ j # 0 => j \in 1 .. Len(s2) /\ s2[j].var = n /\ \A k \in 1 .. Len(s2) : s2[k].var = n => k <= j
  BY <1>1, BoundAtIs
<1>. HIDE DEF i, j
<1>. QED  BY <1>1, <1>2, <1>3 DEF i, j

LEMMA SameWithin ==
  ASSUME NEW s1 \in Scopes, NEW s2 \in Scopes, SameTypes(s1, s2),
         NEW a \in Entry, NEW b \in Entry, a.var = b.var, a.type = b.type
  PROVE  SameTypes(Append(s1, a), Append(s2, b))
<1>. DEFINE t1 == Append(s1, a)
            t2 == Append(s2, b)
            n == Len(s1)
<1>1. n \in Nat /\ Len(s2) = n /\ \A i \in 1 .. n : s1[i].var = s2[i].var /\ s1[i].type = s2[i].type
  BY ScopeIs DEF SameTypes
<1>2. Len(t1) = n + 1 /\ t1[n + 1] = a /\ \A i \in 1 .. n : t1[i] = s1[i]
  BY ScopeGrows
<1>3. Len(t2) = n + 1 /\ t2[n + 1] = b /\ \A i \in 1 .. n : t2[i] = s2[i]
  BY <1>1, ScopeGrows
<1>. HIDE DEF t1, t2, n
<1>4. ASSUME NEW i \in 1 .. n + 1 PROVE t1[i].var = t2[i].var /\ t1[i].type = t2[i].type
  <2>1. CASE i = n + 1
    BY <1>2, <1>3, <2>1
  <2>2. CASE i \in 1 .. n
    BY <1>1, <1>2, <1>3, <2>2
  <2>. QED  BY <1>1, <2>1, <2>2
<1>5. SameTypes(t1, t2)
  BY <1>2, <1>3, <1>4 DEF SameTypes
<1>. QED  BY <1>5 DEF t1, t2

\* The entry that Typed adds.
TypedEntry(v, t) == [var |-> v, path |-> NoPath, type |-> ElemType(t), lean |-> v]

LEMMA TypedEntryIs ==
  ASSUME NEW v \in Variable, NEW t \in Type
  PROVE  /\ TypedEntry(v, t) \in Entry /\ TypedEntry(v, t).var = v /\ TypedEntry(v, t).type = ElemType(t)
         /\ \A s : Typed(s, v, t) = Append(s, TypedEntry(v, t))
<1>1. ElemType(t) \in Type /\ NoPath \in Path /\ v \in Name
  BY StepTypeIs, PathsClosed DEF Variable
<1>. QED  BY <1>1 DEF Entry, TypedEntry, Typed

LEMMA TypeOfSame ==
  ASSUME NEW this \in Type
  PROVE  \A e \in Expr : \A s1, s2 \in Scopes : SameTypes(s1, s2) => TypeOf(this)[e][s1] = TypeOf(this)[e][s2]
<1>. DEFINE T == {e \in Expr : \A s1, s2 \in Scopes : SameTypes(s1, s2) => TypeOf(this)[e][s1] = TypeOf(this)[e][s2]}
<1>1. ASSUME NEW e \in Expr, Parts1(e) \subseteq T PROVE e \in T
  <2>. SUFFICES ASSUME NEW s1 \in Scopes, NEW s2 \in Scopes, SameTypes(s1, s2)
                PROVE  TypeOf(this)[e][s1] = TypeOf(this)[e][s2]
    OBVIOUS
  <2>. DEFINE F == TypeOf(this)
  <2>1. F[e][s1] = TypeOfAt(this, F, e, s1) /\ F[e][s2] = TypeOfAt(this, F, e, s2)
    BY TypeOfEquals
  <2>2. \A c \in Parts1(e) : c \in Expr /\ F[c][s1] \in Type
    BY PartsInExpr, TypeOfEquals
  <2>. HIDE DEF F
  <2>3. \A c \in Parts1(e) : \A t1, t2 \in Scopes : SameTypes(t1, t2) => F[c][t1] = F[c][t2]
    BY <1>1 DEF F
  <2>4. \A c \in Parts1(e) : F[c][s1] = F[c][s2]
    BY <2>3
  <2>. HIDE DEF T
  <2>5. CASE e.op = "ident"
    <3>1. BoundAt(s1, e.name) = BoundAt(s2, e.name)
      BY SameBound
    <3>2. BoundAt(s1, e.name) # 0 => BoundAt(s1, e.name) \in 1 .. Len(s1)
      BY BoundAtIs
    <3>3. /\ F[e][s1] = IF BoundAt(s1, e.name) # 0 THEN s1[BoundAt(s1, e.name)].type ELSE IF e = This THEN this ELSE NoType
          /\ F[e][s2] = IF BoundAt(s2, e.name) # 0 THEN s2[BoundAt(s2, e.name)].type ELSE IF e = This THEN this ELSE NoType
      BY <2>1, <2>5, TypeOfCases
    <3>4. F[e][s1] = F[e][s2]
      BY <3>1, <3>2, <3>3 DEF SameTypes
    <3>. QED  BY <3>4 DEF F
  <2>6. CASE e.op \in {"select", "index"}
    <3>1. F[e.of][s1] = F[e.of][s2]
      BY <2>4, <2>6, Shapes
    <3>2. F[e][s1] = F[e][s2]
      BY <2>1, <2>6, <3>1, TypeOfCases
    <3>. QED  BY <3>2 DEF F
  <2>7. CASE e.op \in {"test", "has"}
    <3>1. F[e][s1] = F[e][s2]
      BY <2>1, <2>7, TypeOfCases
    <3>. QED  BY <3>1 DEF F
  <2>8. CASE e.op \in Pairs
    <3>1. F[e.of][s1] = F[e.of][s2]
      BY <2>4, <2>8, Shapes
    <3>2. F[e][s1] = F[e][s2]
      BY <2>1, <2>8, <3>1, TypeOfCases
    <3>. QED  BY <3>2 DEF F
  <2>9. CASE e.op \in Macros
    <3>. DEFINE t == F[e.of][s1]
                b == TypedEntry(e.var, t)
                r1 == Append(s1, b)
                r2 == Append(s2, b)
    <3>1. e.body \in Parts1(e) /\ e.of \in Parts1(e) /\ e.var \in Variable
      BY <2>9, Shapes
    <3>2. F[e.of][s2] = t /\ t \in Type
      BY <2>2, <2>4, <3>1
    <3>. HIDE DEF t
    <3>3. b \in Entry /\ \A s : Typed(s, e.var, t) = Append(s, b)
      BY <3>1, <3>2, TypedEntryIs
    <3>. HIDE DEF b
    <3>4. /\ SameTypes(r1, r2) /\ r1 \in Scopes /\ r2 \in Scopes
          /\ Typed(s1, e.var, t) = r1 /\ Typed(s2, e.var, t) = r2
      BY <3>3, SameWithin, ScopeGrows
    <3>. HIDE DEF r1, r2
    <3>5. F[e.body][r1] = F[e.body][r2]
      BY <2>3, <3>1, <3>4
    <3>6. F[e.body][Typed(s1, e.var, t)] = F[e.body][Typed(s2, e.var, t)]
      BY <3>4, <3>5
    <3>7. F[e][s1] = F[e][s2]
      BY <2>1, <2>9, <3>2, <3>6, TypeOfCases DEF t
    <3>. QED  BY <3>7 DEF F
  <2>. QED  BY <2>5, <2>6, <2>7, <2>8, <2>9, Shapes
<1>. HIDE DEF T
<1>2. Expr \subseteq T
  BY <1>1, ExprInduction
<1>. QED  BY <1>2 DEF T

LEMMA OpenedSame ==
  ASSUME NEW this \in Type
  PROVE  \A e \in Expr : \A s1, s2 \in Scopes : SameTypes(s1, s2) => Opened(this)[e][s1] = Opened(this)[e][s2]
<1>. DEFINE T == {e \in Expr : \A s1, s2 \in Scopes : SameTypes(s1, s2) => Opened(this)[e][s1] = Opened(this)[e][s2]}
<1>1. ASSUME NEW e \in Expr, Parts1(e) \subseteq T PROVE e \in T
  <2>. SUFFICES ASSUME NEW s1 \in Scopes, NEW s2 \in Scopes, SameTypes(s1, s2)
                PROVE  Opened(this)[e][s1] = Opened(this)[e][s2]
    OBVIOUS
  <2>. DEFINE F == Opened(this)
              G == TypeOf(this)
  <2>1. F[e][s1] = OpenedAt(this, F, e, s1) /\ F[e][s2] = OpenedAt(this, F, e, s2)
    BY OpenedEquals
  <2>2. \A c \in Parts1(e) : c \in Expr /\ G[c][s1] \in Type /\ G[c][s1] = G[c][s2]
    BY PartsInExpr, TypeOfEquals, TypeOfSame
  <2>. HIDE DEF F
  <2>3. \A c \in Parts1(e) : \A t1, t2 \in Scopes : SameTypes(t1, t2) => F[c][t1] = F[c][t2]
    BY <1>1 DEF F
  <2>4. \A c \in Parts1(e) : F[c][s1] = F[c][s2]
    BY <2>3
  <2>. HIDE DEF T, G
  <2>5. CASE e.op = "ident"
    <3>1. F[e][s1] \subseteq F[e][s2] /\ F[e][s2] \subseteq F[e][s1]
      BY <2>1, <2>5, OpenedCases
    <3>2. F[e][s1] = F[e][s2]
      BY <3>1
    <3>. QED  BY <3>2 DEF F
  <2>6. CASE e.op \in {"select", "index"}
    <3>1. F[e.of][s1] = F[e.of][s2] /\ G[e.of][s1] = G[e.of][s2]
      BY <2>2, <2>4, <2>6, Shapes
    <3>2. F[e][s1] \subseteq F[e][s2] /\ F[e][s2] \subseteq F[e][s1]
      BY <2>1, <2>6, <3>1, OpenedCases DEF G
    <3>3. F[e][s1] = F[e][s2]
      BY <3>2
    <3>. QED  BY <3>3 DEF F
  <2>7. CASE e.op = "test"
    <3>1. F[e.of][s1] = F[e.of][s2]
      BY <2>4, <2>7, Shapes
    <3>2. F[e][s1] \subseteq F[e][s2] /\ F[e][s2] \subseteq F[e][s1]
      BY <2>1, <2>7, <3>1, OpenedCases
    <3>3. F[e][s1] = F[e][s2]
      BY <3>2
    <3>. QED  BY <3>3 DEF F
  <2>8. CASE e.op = "has"
    <3>1. F[e.of.of][s1] = F[e.of.of][s2] /\ G[e.of.of][s1] = G[e.of.of][s2]
      BY <2>2, <2>4, <2>8, Shapes
    <3>2. F[e][s1] \subseteq F[e][s2] /\ F[e][s2] \subseteq F[e][s1]
      BY <2>1, <2>8, <3>1, OpenedCases DEF G
    <3>3. F[e][s1] = F[e][s2]
      BY <3>2
    <3>. QED  BY <3>3 DEF F
  <2>9. CASE e.op \in Pairs
    <3>1. F[e.of][s1] = F[e.of][s2] /\ F[e.other][s1] = F[e.other][s2]
      BY <2>4, <2>9, Shapes
    <3>2. F[e][s1] \subseteq F[e][s2] /\ F[e][s2] \subseteq F[e][s1]
      BY <2>1, <2>9, <3>1, OpenedCases
    <3>3. F[e][s1] = F[e][s2]
      BY <3>2
    <3>. QED  BY <3>3 DEF F
  <2>10. CASE e.op \in Macros
    <3>. DEFINE t == G[e.of][s1]
                b == TypedEntry(e.var, t)
                r1 == Append(s1, b)
                r2 == Append(s2, b)
    <3>1. e.body \in Parts1(e) /\ e.of \in Parts1(e) /\ e.var \in Variable
      BY <2>10, Shapes
    <3>2. G[e.of][s2] = t /\ t \in Type /\ F[e.of][s1] = F[e.of][s2]
      BY <2>2, <2>4, <3>1
    <3>. HIDE DEF t
    <3>3. b \in Entry /\ \A s : Typed(s, e.var, t) = Append(s, b)
      BY <3>1, <3>2, TypedEntryIs
    <3>. HIDE DEF b
    <3>4. /\ SameTypes(r1, r2) /\ r1 \in Scopes /\ r2 \in Scopes
          /\ Typed(s1, e.var, t) = r1 /\ Typed(s2, e.var, t) = r2
      BY <3>3, SameWithin, ScopeGrows
    <3>. HIDE DEF r1, r2
    <3>5. F[e.body][r1] = F[e.body][r2]
      BY <2>3, <3>1, <3>4
    <3>6. F[e.body][Typed(s1, e.var, t)] = F[e.body][Typed(s2, e.var, t)]
      BY <3>4, <3>5
    <3>7. F[e][s1] \subseteq F[e][s2] /\ F[e][s2] \subseteq F[e][s1]
      BY <2>1, <2>10, <3>2, <3>6, OpenedCases DEF G, t
    <3>8. F[e][s1] = F[e][s2]
      BY <3>7
    <3>. QED  BY <3>8 DEF F
  <2>. QED  BY <2>5, <2>6, <2>7, <2>8, <2>9, <2>10, Shapes
<1>. HIDE DEF T
<1>2. Expr \subseteq T
  BY <1>1, ExprInduction
<1>. QED  BY <1>2 DEF T

\* A path that descends, and through no enum.
Passes(p, this) ==
  p # <<>> /\ \A i \in 0 .. Len(p) - 1 : Kind(TypesAlong(p, this)[i]) # "enum"

LEMMA PassesOn ==
  ASSUME NEW this \in Type, NEW p \in Path, NEW c \in Words,
         p = <<>> \/ Passes(p, this), Kind(TypeAt(p, this)) # "enum"
  PROVE  Passes(Append(p, c), this)
<1>. DEFINE q == Append(p, c)
            n == Len(p)
<1>1. Len(q) = n + 1 /\ n \in Nat /\ \A i \in 0 .. n : TypesAlong(q, this)[i] = TypesAlong(p, this)[i]
  BY TypeOneOn
<1>2. p = <<>> => n = 0
  OBVIOUS
<1>3. \A i \in 0 .. n - 1 : Kind(TypesAlong(p, this)[i]) # "enum"
  BY <1>1, <1>2 DEF Passes
<1>4. Kind(TypesAlong(p, this)[n]) # "enum"
  BY DEF TypeAt
<1>5. q # <<>>
  BY <1>1
<1>. HIDE DEF q, n
<1>6. \A i \in 0 .. n : i = n \/ i \in 0 .. n - 1
  BY <1>1
<1>7. (n + 1) - 1 = n
  BY <1>1
<1>8. Passes(q, this)
  BY <1>1, <1>3, <1>4, <1>5, <1>6, <1>7 DEF Passes
<1>. QED  BY <1>8 DEF q

Clears(scope, this) == \A i \in 1 .. Len(scope) : scope[i].path # NoPath => Passes(scope[i].path, this)
ClearPath(p, this) == p \in {NoPath, <<>>} \/ Passes(p, this)
NoEnumIn(S) == \A t \in S : Kind(t) # "enum"

\* One component further.
LEMMA ClearOn ==
  ASSUME NEW this \in Type, NEW e \in Expr, NEW scope \in Scopes, Tracks(scope, this),
         ClearPath(PathOf(e, scope), this), Kind(TypeOf(this)[e][scope]) # "enum", NEW c \in Words
  PROVE  Extend(PathOf(e, scope), c) = NoPath \/ Passes(Extend(PathOf(e, scope), c), this)
<1>. DEFINE p == PathOf(e, scope)
<1>1. p \in Path
  BY BindingPathsIs, CelPathIs DEF PathOf
<1>2. p # NoPath => TypeOf(this)[e][scope] = TypeAt(p, this)
  BY TypeFollowsPath
<1>. HIDE DEF p
<1>3. CASE p = NoPath
  BY <1>3 DEF Extend, p
<1>4. CASE p # NoPath
  <2>1. Extend(p, c) = Append(p, c)
    BY <1>4 DEF Extend
  <2>2. p = <<>> \/ Passes(p, this)
    BY <1>4 DEF ClearPath, p
  <2>3. Kind(TypeAt(p, this)) # "enum"
    BY <1>2, <1>4
  <2>4. Passes(Append(p, c), this)
    BY <1>1, <2>2, <2>3, PassesOn
  <2>. QED  BY <2>1, <2>4 DEF p
<1>. QED  BY <1>3, <1>4

LEMMA StaysClear ==
  ASSUME NEW this \in Type, NEW scope \in Scopes, Clears(scope, this),
         NEW b \in Entry, b.path = NoPath \/ Passes(b.path, this)
  PROVE  Clears(Append(scope, b), this)
<1>. DEFINE inner == Append(scope, b)
            n == Len(scope)
<1>1. Len(inner) = n + 1 /\ n \in Nat /\ inner[n + 1] = b /\ \A i \in 1 .. n : inner[i] = scope[i]
  BY ScopeGrows, ScopeIs
<1>2. \A i \in 1 .. n : scope[i].path # NoPath => Passes(scope[i].path, this)
  BY DEF Clears
<1>. HIDE DEF inner, n
<1>3. \A i \in 1 .. Len(inner) : i = n + 1 \/ i \in 1 .. n
  BY <1>1
<1>4. Clears(inner, this)
  BY <1>1, <1>2, <1>3 DEF Clears
<1>. QED  BY <1>4 DEF inner

\* Where nothing is selected from an enum, no collected path leads through one.
LEMMA PathsPass ==
  ASSUME NEW this \in Type
  PROVE  \A e \in Expr : \A scope \in Scopes :
           Tracks(scope, this) /\ Clears(scope, this) /\ NoEnumIn(Opened(this)[e][scope]) =>
             /\ ClearPath(PathOf(e, scope), this)
             /\ \A p \in SelectPaths[e][BindingPaths(scope)] : Passes(p, this)
<1>. DEFINE Good(e, scope) == /\ ClearPath(PathOf(e, scope), this)
                              /\ \A p \in SelectPaths[e][BindingPaths(scope)] : Passes(p, this)
            T == {e \in Expr : \A scope \in Scopes :
                   Tracks(scope, this) /\ Clears(scope, this) /\ NoEnumIn(Opened(this)[e][scope]) => Good(e, scope)}
<1>1. ASSUME NEW e \in Expr, Parts1(e) \subseteq T PROVE e \in T
  <2>. SUFFICES ASSUME NEW scope \in Scopes, Tracks(scope, this), Clears(scope, this),
                       NoEnumIn(Opened(this)[e][scope])
                PROVE  Good(e, scope)
    OBVIOUS
  <2>. DEFINE env == BindingPaths(scope)
              O == Opened(this)
              G == TypeOf(this)
  <2>1. env \in Envs
    BY BindingPathsIs
  <2>2. O[e][scope] = OpenedAt(this, O, e, scope)
    BY OpenedEquals
  <2>3. SelectPaths[e][env] = SelectPathsAt(SelectPaths, e, env)
    BY <2>1, SelectPathsEquals
  <2>4. PathOf(e, scope) = CelPathOnce(env, CelPath(env), e) /\ \A c : PathOf(c, scope) = CelPath(env)[c]
    BY <2>1, CelPathIs DEF PathOf
  <2>5. \A c \in Parts1(e), s \in Scopes :
          Tracks(s, this) /\ Clears(s, this) /\ NoEnumIn(O[c][s]) => Good(c, s)
    BY <1>1
  <2>6. \A c \in Parts1(e) : NoEnumIn(O[c][scope]) => Good(c, scope)
    BY <2>5
  <2>. HIDE DEF T
  <2>7. \A c \in Parts1(e) : c \in Expr /\ G[c][scope] \in Type
    BY PartsInExpr, TypeOfEquals
  <2>8. ASSUME NEW c \in Parts1(e), NoEnumIn(O[c][scope]), Kind(G[c][scope]) # "enum", NEW w \in Words
        PROVE  Extend(PathOf(c, scope), w) = NoPath \/ Passes(Extend(PathOf(c, scope), w), this)
    BY <2>6, <2>7, <2>8, ClearOn
  <2>. HIDE DEF O, G, env
  <2>9. CASE e.op = "ident"
    <3>. DEFINE i == BoundAt(scope, e.name)
    <3>1. PathOf(e, scope) = IF i # 0 THEN scope[i].path ELSE IF e.name = ThisName THEN <<>> ELSE NoPath
      BY <2>4, <2>9, CelPathCases, PathInScope DEF env
    <3>2. i # 0 => i \in 1 .. Len(scope)
      BY BoundAtIs
    <3>. HIDE DEF i
    <3>3. ClearPath(PathOf(e, scope), this)
      BY <3>1, <3>2 DEF ClearPath, Clears
    <3>4. SelectPaths[e][env] = {}
      BY <2>3, <2>9, SelectPathsCases
    <3>. QED  BY <3>3, <3>4 DEF env
  <2>10. CASE e.op \in {"select", "index"}
    <3>. DEFINE w == IF e.op = "select" THEN e.field ELSE Indexed
    <3>1. e.of \in Parts1(e) /\ w \in Words
      BY <2>10, Shapes, WordsAre
    <3>2. PathOf(e, scope) = Extend(PathOf(e.of, scope), w)
      BY <2>4, <2>10, CelPathCases DEF IndexElem
    <3>3. O[e][scope] = {G[e.of][scope]} \cup O[e.of][scope]
      BY <2>2, <2>10, OpenedCases DEF G
    <3>4. NoEnumIn(O[e.of][scope]) /\ Kind(G[e.of][scope]) # "enum"
      BY <3>3 DEF NoEnumIn, O
    <3>. HIDE DEF w
    <3>5. PathOf(e, scope) = NoPath \/ Passes(PathOf(e, scope), this)
      BY <2>8, <3>1, <3>2, <3>4
    <3>6. SelectPaths[e][env] = ({PathOf(e, scope)} \ {NoPath}) \cup SelectPaths[e.of][env]
      BY <2>3, <2>4, <2>10, SelectPathsCases
    <3>7. \A p \in SelectPaths[e.of][env] : Passes(p, this)
      BY <2>6, <3>1, <3>4 DEF env
    <3>. QED  BY <3>5, <3>6, <3>7 DEF ClearPath, env
  <2>11. CASE e.op = "test"
    <3>1. e.of \in Parts1(e)
      BY <2>11, Shapes
    <3>2. O[e][scope] = O[e.of][scope] /\ SelectPaths[e][env] = SelectPaths[e.of][env] /\ PathOf(e, scope) = NoPath
      BY <2>2, <2>3, <2>4, <2>11, OpenedCases, SelectPathsCases, CelPathCases
    <3>. QED  BY <2>6, <3>1, <3>2 DEF ClearPath, env, O
  <2>12. CASE e.op = "has"
    <3>. DEFINE c == e.of.of
                w == e.of.field
    <3>1. c \in Parts1(e) /\ w \in Words /\ e.of \in Expr /\ e.of.op = "select"
      BY <2>12, Shapes, WordsAre
    <3>2. CelPath(env)[e.of] = Extend(PathOf(c, scope), w)
      <4>1. CelPath(env)[e.of] = CelPathOnce(env, CelPath(env), e.of)
        BY <2>1, <3>1, CelPathIs
      <4>2. CelPathOnce(env, CelPath(env), e.of) = Extend(CelPath(env)[c], w)
        BY <3>1, CelPathCases
      <4>. QED  BY <2>4, <4>1, <4>2
    <3>3. O[e][scope] = {G[c][scope]} \cup O[c][scope]
      BY <2>2, <2>12, OpenedCases DEF G
    <3>4. SelectPaths[e][env] = ({CelPath(env)[e.of]} \ {NoPath}) \cup SelectPaths[c][env] /\ PathOf(e, scope) = NoPath
      BY <2>3, <2>4, <2>12, SelectPathsCases, CelPathCases
    <3>. HIDE DEF c, w
    <3>5. NoEnumIn(O[c][scope]) /\ Kind(G[c][scope]) # "enum"
      BY <3>3 DEF NoEnumIn, O
    <3>6. CelPath(env)[e.of] = NoPath \/ Passes(CelPath(env)[e.of], this)
      BY <2>8, <3>1, <3>2, <3>5
    <3>7. \A p \in SelectPaths[c][env] : Passes(p, this)
      BY <2>6, <3>1, <3>5 DEF env
    <3>. QED  BY <3>4, <3>6, <3>7 DEF ClearPath, env
  <2>13. CASE e.op \in Pairs
    <3>1. e.of \in Parts1(e) /\ e.other \in Parts1(e)
      BY <2>13, Shapes
    <3>2. /\ O[e][scope] = O[e.of][scope] \cup O[e.other][scope] /\ PathOf(e, scope) = NoPath
          /\ SelectPaths[e][env] = SelectPaths[e.of][env] \cup SelectPaths[e.other][env]
      BY <2>2, <2>3, <2>4, <2>13, OpenedCases, SelectPathsCases, CelPathCases
    <3>3. NoEnumIn(O[e.of][scope]) /\ NoEnumIn(O[e.other][scope])
      BY <3>2 DEF NoEnumIn, O
    <3>4. \A p \in SelectPaths[e.of][env] \cup SelectPaths[e.other][env] : Passes(p, this)
      BY <2>6, <3>1, <3>3 DEF env
    <3>. QED  BY <3>2, <3>4 DEF ClearPath, env
  <2>14. CASE e.op \in Macros
    <3>. DEFINE t == G[e.of][scope]
                elem == IterElem(CelPath(env)[e.of])
                a == TypedEntry(e.var, t)
                b == [var |-> e.var, path |-> elem, type |-> ElemType(t), lean |-> e.var]
                typed == Append(scope, a)
                inner == Append(scope, b)
    <3>1. e.of \in Parts1(e) /\ e.body \in Parts1(e) /\ e.var \in Variable /\ e.of \in Expr /\ e.body \in Expr
      BY <2>14, Shapes
    <3>2. t \in Type /\ elem = IterElem(PathOf(e.of, scope)) /\ elem \in Path
      <4>1. CelPath(env)[e.of] \in Path
        BY <2>1, <3>1, CelPathIs
      <4>. QED  BY <2>4, <2>7, <3>1, <4>1, PathsClosed
    <3>3. O[e][scope] = {t} \cup O[e.of][scope] \cup O[e.body][Typed(scope, e.var, t)]
      BY <2>2, <2>14, OpenedCases DEF G
    <3>4. /\ SelectPaths[e][env] = SelectPaths[e.of][env] \cup ({elem} \ {NoPath})
                                     \cup SelectPaths[e.body][InnerEnv(env, e.var, elem)]
          /\ PathOf(e, scope) = NoPath
      BY <2>3, <2>4, <2>14, SelectPathsCases, CelPathCases
    <3>. HIDE DEF elem
    <3>5. NoEnumIn(O[e.of][scope]) /\ Kind(t) # "enum" /\ NoEnumIn(O[e.body][Typed(scope, e.var, t)])
      BY <3>3 DEF NoEnumIn, O
    <3>6. elem = NoPath \/ Passes(elem, this)
      <4>1. Iterated \in Words
        BY WordsAre
      <4>. QED  BY <2>8, <3>1, <3>2, <3>5, <4>1 DEF IterElem
    <3>7. b \in Entry /\ b.var = e.var /\ b.path = elem /\ b.type = ElemType(t)
      <4>1. ElemType(t) \in Type /\ e.var \in Name
        BY <3>1, <3>2, StepTypeIs DEF Variable
      <4>. HIDE DEF t
      <4>. QED  BY <3>1, <3>2, <4>1 DEF Entry
    <3>8. a \in Entry /\ a.var = e.var /\ a.type = ElemType(t) /\ Typed(scope, e.var, t) = typed
      <4>. HIDE DEF t
      <4>. QED  BY <3>1, <3>2, TypedEntryIs
    <3>9. t = TypeOf(this)[e.of][scope]
      BY DEF G
    <3>. HIDE DEF t, a, b
    <3>10. typed \in Scopes /\ inner \in Scopes /\ SameTypes(typed, inner)
      <4>1. SameTypes(scope, scope)
        BY DEF SameTypes
      <4>. QED  BY <3>7, <3>8, <4>1, ScopeGrows, SameWithin
    <3>11. Tracks(inner, this)
      BY <3>1, <3>2, <3>7, <3>9, StaysTracking
    <3>12. Clears(inner, this)
      BY <3>6, <3>7, StaysClear
    <3>13. BindingPaths(inner) = InnerEnv(env, e.var, elem)
      BY <3>7, EnvWithin DEF env
    <3>. HIDE DEF typed, inner
    <3>14. O[e.body][inner] = O[e.body][typed]
      BY <3>1, <3>10, OpenedSame DEF O
    <3>15. \A p \in SelectPaths[e.body][InnerEnv(env, e.var, elem)] : Passes(p, this)
      BY <2>5, <3>1, <3>5, <3>8, <3>10, <3>11, <3>12, <3>13, <3>14
    <3>16. \A p \in SelectPaths[e.of][env] : Passes(p, this)
      BY <2>6, <3>1, <3>5 DEF env
    <3>. QED  BY <3>4, <3>6, <3>15, <3>16 DEF ClearPath, env
  <2>. QED  BY <2>9, <2>10, <2>11, <2>12, <2>13, <2>14, Shapes
<1>. HIDE DEF T
<1>2. Expr \subseteq T
  BY <1>1, ExprInduction
<1>. QED  BY <1>2 DEF T

\* A walk along a path that passes meets no enum on the way.
LEMMA WalkPasses ==
  ASSUME NEW p \in Path, NEW this \in Type, Passes(p, this), NEW a \in WalkPath(p, this)
  PROVE  a[2] # SelectsThroughEnum
<1>. DEFINE type == TypesAlong(p, this)
            Opens(i) == Kind(type[i]) = "enum" /\ i < Len(p)
<1>1. PICK i \in 1 .. Len(p) :
        a = <<SubSeq(p, 1, i), IF Opens(i) THEN SelectsThroughEnum ELSE AttrOf(type[i])>>
  BY WalkPathIs
<1>2. Len(p) \in Nat
  BY DEF Path
<1>3. ~Opens(i)
  <2>1. i < Len(p) => i \in 0 .. Len(p) - 1
    BY <1>2
  <2>. QED  BY <2>1 DEF Passes
<1>. HIDE DEF type, Opens
<1>4. a[2] = AttrOf(type[i])
  BY <1>1, <1>3
<1>. QED  BY <1>4, AttrOfIs

\* A rule is refused for its paths only when it selects through an enum.
LEMMA RefusedForEnum ==
  ASSUME NEW target, NEW this \in Type, target = "message" => Kind(this) = "message",
         NEW e \in Expr, NEW a \in Attrs(target, this, e), a[2] = SelectsThroughEnum
  PROVE  \E t \in Opened(this)[e][<<>>] : Kind(t) = "enum"
<1>. SUFFICES ASSUME NoEnumIn(Opened(this)[e][<<>>]) PROVE FALSE
  BY DEF NoEnumIn
<1>. DEFINE P == SelectPaths[e][{}]
            R == ResolvePaths(P, this)
<1>1. P \subseteq Path
  BY NothingBound, SelectPathsEquals
<1>2. \A p \in P : Passes(p, this)
  <2>1. <<>> \in Scopes /\ Tracks(<<>>, this) /\ BindingPaths(<<>>) = {} /\ Clears(<<>>, this)
    BY NothingBound, NoScope DEF Clears
  <2>. QED  BY <2>1, PathsPass
<1>3. \A x \in R : x[2] # SelectsThroughEnum
  <2>. SUFFICES ASSUME NEW x \in R PROVE x[2] # SelectsThroughEnum
    OBVIOUS
  <2>1. PICK p \in P : x \in WalkPath(p, this)
    BY DEF ResolvePaths
  <2>. QED  BY <1>1, <1>2, <2>1, WalkPasses
<1>. HIDE DEF P, R
<1>4. CASE target = "message" \/ Kind(this) \in {"list", "message"}
  <2>1. Attrs(target, this, e) = R
    BY <1>4 DEF Attrs, PathAttrsForMessage, PathAttrsForField, P, R, Numeric
  <2>. QED  BY <1>3, <2>1
<1>5. CASE target # "message" /\ Kind(this) = "map"
  <2>1. Attrs(target, this, e) = R \cup {<<<<>>, "mapSelect">>}
    BY <1>5 DEF Attrs, PathAttrsForField, P, R, Numeric
  <2>2. a = <<<<>>, "mapSelect">>
    BY <1>3, <2>1
  <2>3. a[2] = "mapSelect"
    BY <2>2
  <2>. QED  BY <2>3, AttrOfIs
<1>6. CASE target # "message" /\ Kind(this) = "enum"
  <2>1. P = {}
    <3>. SUFFICES ASSUME NEW p \in P PROVE FALSE
      OBVIOUS
    <3>1. p # <<>> /\ Len(p) \in Nat
      BY <1>1, <1>2 DEF Passes, Path
    <3>2. 0 \in 0 .. Len(p) - 1
      <4>1. Len(p) # 0
        BY <1>1, <3>1 DEF Path
      <4>. QED  BY <3>1, <4>1
    <3>3. Kind(TypesAlong(p, this)[0]) # "enum"
      BY <1>2, <3>2 DEF Passes
    <3>. QED  BY <1>6, <3>3, TypesAlongIs
  <2>2. Attrs(target, this, e) = {<<<<>>, IF P # {} THEN SelectsThroughEnum ELSE "enumInt">>}
    BY <1>6 DEF Attrs, PathAttrsForField, P, Numeric
  <2>3. a[2] = "enumInt"
    BY <2>1, <2>2
  <2>. QED  BY <2>3, AttrOfIs
<1>7. CASE target # "message" /\ Kind(this) \in Numeric
  <2>1. Attrs(target, this, e) = {<<<<>>, Kind(this)>>}
    BY <1>7 DEF Attrs, PathAttrsForField, P, Numeric
  <2>2. a[2] = Kind(this)
    BY <2>1
  <2>. QED  BY <1>7, <2>2, AttrOfIs
<1>8. CASE target # "message" /\ Kind(this) \notin Numeric \cup {"list", "map", "message", "enum"}
  <2>1. Attrs(target, this, e) = {}
    BY <1>8 DEF Attrs, PathAttrsForField, P, Numeric
  <2>. QED  BY <2>1
<1>. QED  BY <1>4, <1>5, <1>6, <1>7, <1>8

-----------------------------------------------------------------------------
(* What is resolved is what the stages keep.                               *)

ResolvedSoFar ==
  /\ \A n \in 1 .. next - 1 : ResolvedAttrs(decl, n).ok /\ attrs[n] = ResolvedAttrs(decl, n).attrs
  /\ phase = "bad path" => next <= Len(decl.cel) /\ ~ResolvedAttrs(decl, next).ok

LEMMA StageIs ==
  StageInv => /\ decl \in Decls /\ Len(decl.cel) \in Nat /\ next \in 1 .. Len(decl.cel) + 1 /\ next \in Nat
              /\ attrs \in Seq(AllAttrs) /\ Len(attrs) = next - 1
<1>. SUFFICES ASSUME StageInv
              PROVE  /\ decl \in Decls /\ Len(decl.cel) \in Nat /\ next \in 1 .. Len(decl.cel) + 1 /\ next \in Nat
                     /\ attrs \in Seq(AllAttrs) /\ Len(attrs) = next - 1
  OBVIOUS
<1>1. decl \in Decls /\ next \in 1 .. Len(decl.cel) + 1 /\ attrs \in Seq(AllAttrs) /\ Len(attrs) = next - 1
  BY Zenon DEF StageInv
<1>2. Len(decl.cel) \in Nat
  BY <1>1, DeclAssumption
<1>. QED  BY <1>1, <1>2, InRange

LEMMA RejectedIs ==
  StageInv /\ next <= Len(decl.cel) => decl \in Decls /\ next \in 1 .. Len(decl.cel)
BY StageIs

LEMMA InitResolved == Init => ResolvedSoFar
<1>1. \A n \in 1 .. 1 - 1 : FALSE
  OBVIOUS
<1>. QED  BY <1>1 DEF Init, ResolvedSoFar

LEMMA NextResolved == StageInv /\ ResolvedSoFar /\ [Next]_vars => ResolvedSoFar'
<1>. SUFFICES ASSUME StageInv, ResolvedSoFar, [Next]_vars PROVE ResolvedSoFar'
  OBVIOUS
<1>0. /\ decl \in Decls /\ Len(decl.cel) \in Nat /\ next \in 1 .. Len(decl.cel) + 1 /\ next \in Nat
      /\ attrs \in Seq(AllAttrs) /\ Len(attrs) = next - 1
  BY StageIs
<1>4. \A n \in 1 .. next - 1 : ResolvedAttrs(decl, n).ok /\ attrs[n] = ResolvedAttrs(decl, n).attrs
  BY Zenon DEF ResolvedSoFar
<1>1. CASE LowerCustomRule
  <2>. DEFINE a == PathAttrs(decl, next)
  <2>0. decl' = decl /\ next <= Len(decl.cel)
    BY <1>1, Zenon DEF LowerCustomRule
  <2>1. next \in 1 .. Len(decl.cel)
    BY <1>0, <2>0
  <2>2. a = ResolvedAttrs(decl, next)
    BY <1>0, <2>1, RuleAssumption
  <2>3. CASE a.ok
    <3>1. next' = next + 1 /\ attrs' = Append(attrs, a.attrs) /\ phase' = "custom"
      BY <1>1, <2>3 DEF LowerCustomRule
    <3>. HIDE DEF a
    <3>2. attrs'[next] = a.attrs /\ \A n \in 1 .. next - 1 : attrs'[n] = attrs[n]
      BY <1>0, <3>1
    <3>3. 1 .. next' - 1 = (1 .. next - 1) \cup {next}
      BY <1>0, <3>1
    <3>4. \A n \in 1 .. next' - 1 : ResolvedAttrs(decl, n).ok /\ attrs'[n] = ResolvedAttrs(decl, n).attrs
      BY <1>4, <2>2, <2>3, <3>2, <3>3
    <3>5. phase' # "bad path"
      BY <3>1, Zenon
    <3>. QED  BY <2>0, <3>4, <3>5, Zenon DEF ResolvedSoFar, ResolvedAttrs
  <2>4. CASE ~a.ok
    <3>1. phase' = "bad path" /\ next' = next /\ attrs' = attrs
      BY <1>1, <2>4 DEF LowerCustomRule
    <3>. QED  BY <2>0, <2>2, <2>4, <3>1 DEF ResolvedSoFar, ResolvedAttrs
  <2>. QED  BY <2>3, <2>4
<1>2. CASE IgnoreField \/ LowerStandardRules \/ CustomRulesDone \/ Render \/ Build
  <2>1. decl' = decl /\ next' = next /\ attrs' = attrs /\ phase' # "bad path"
    BY <1>2 DEF IgnoreField, LowerStandardRules, CustomRulesDone, Render, Build
  <2>. QED  BY <2>1 DEF ResolvedSoFar, ResolvedAttrs
<1>3. CASE UNCHANGED vars
  BY <1>3 DEF vars, ResolvedSoFar, ResolvedAttrs
<1>. QED  BY <1>1, <1>2, <1>3 DEF Next

\* The attributes kept are those the rules lowered so far resolve to, in
\* every reachable state.
THEOREM Resolved == Spec => []ResolvedSoFar
<1>1. UNCHANGED vars /\ StageInv /\ ResolvedSoFar => ResolvedSoFar'
  BY NextResolved
<1>. QED  BY Staged, InitResolved, NextResolved, <1>1, PTL DEF Spec

-----------------------------------------------------------------------------
(* The theorems about custom rules.                                        *)

LEMMA RulesAre ==
  ASSUME NEW d \in Decls, NEW n \in 1 .. Len(d.cel)
  PROVE  /\ d.type \in Type /\ d.cel[n] \in Expr /\ (d.target = "message" => Kind(d.type) = "message")
         /\ d.target = "message" => d.subject = [dotted |-> FALSE, name |-> <<"x", 0>>]
         /\ ResolvedAttrs(d, n).attrs = Attrs(d.target, d.type, d.cel[n])
         /\ ResolvedAttrs(d, n).ok <=> \A a \in Attrs(d.target, d.type, d.cel[n]) : a[2] # SelectsThroughEnum
BY RuleAssumption DEF ResolvedAttrs, MessageAttrs, FieldAttrs, Resolution, Attrs

LEMMA ContextIs ==
  ASSUME NEW d \in Decls, NEW n \in 1 .. Len(d.cel)
  PROVE  /\ IsFiniteSet(Context(d, n).used) /\ Context(d, n).used = Idents[d.cel[n]]
         /\ Context(d, n).message \in BOOLEAN /\ (Context(d, n).message <=> d.target = "message")
         /\ Context(d, n).message =>
              Context(d, n).root \notin Context(d, n).used /\ Context(d, n).base \notin Context(d, n).used
<1>. DEFINE F == DOMAIN FieldsIn(d.type)
            N == {<<f, 0>> : f \in F}
            g == [f \in F |-> <<f, 0>>]
            I == 1 .. Len(d.cel)
            S == {Idents[d.cel[i]] : i \in I}
            h == [i \in I |-> Idents[d.cel[i]]]
<1>1. IsFiniteSet(F)
  BY RulesAre, FieldsAre
<1>2. g \in Surjection(F, N) /\ h \in Surjection(I, S)
  BY DEF Surjection
<1>3. IsFiniteSet(I)
  BY DeclAssumption, FS_Interval
<1>4. \A i \in I : IsFiniteSet(Idents[d.cel[i]])
  BY RulesAre, IdentsIs DEF NameSets
<1>5. \A T \in S : IsFiniteSet(T)
  BY <1>4
<1>6. Idents[d.cel[n]] \in S /\ IsFiniteSet(Idents[d.cel[n]])
  BY <1>4
<1>7. BaseName(d) = FreshName(<<"b", 0>>, N \cup UNION S)
  BY DEF BaseName
<1>. HIDE DEF g, h, F, N, I, S
<1>8. IsFiniteSet(N) /\ IsFiniteSet(S)
  BY <1>1, <1>2, <1>3, FS_Surjection
<1>9. IsFiniteSet(N \cup UNION S)
  BY <1>5, <1>8, FS_UNION, FS_Union
<1>10. BaseName(d) \notin Idents[d.cel[n]]
  BY <1>6, <1>7, <1>9, FreshNameIs
<1>11. d.target = "message" => VarRoot(d.subject, d.cel[n]) \notin Idents[d.cel[n]]
  <2>1. d.target = "message" => VarRoot(d.subject, d.cel[n]) = FreshName(<<"x", 0>>, Idents[d.cel[n]])
    BY RulesAre DEF VarRoot
  <2>. QED  BY <1>6, <2>1, FreshNameIs
<1>. QED  BY <1>6, <1>10, <1>11 DEF Context

\* What lowers a rule, with what the lemmas say of its values.
LEMMA LoweredIs ==
  ASSUME StageInv, ResolvedSoFar, NEW nx \in LoweredValues
  PROVE  /\ nx[1] \in 1 .. Len(decl.cel) /\ nx[2] \in ValuesIn(nx[1])
         /\ ResolvedAttrs(decl, nx[1]).ok /\ attrs[nx[1]] = ResolvedAttrs(decl, nx[1]).attrs
<1>1. decl \in Decls /\ Len(decl.cel) \in Nat /\ next \in 1 .. Len(decl.cel) + 1
  BY StageIs
<1>2. PICK n \in 1 .. next - 1 : \E x \in ValuesIn(n) : nx = <<n, x>>
  BY DEF LoweredValues
<1>3. nx[1] = n /\ nx[2] \in ValuesIn(n)
  BY <1>2
<1>4. n \in 1 .. Len(decl.cel)
  BY <1>1, <1>2
<1>5. ResolvedAttrs(decl, n).ok /\ attrs[n] = ResolvedAttrs(decl, n).attrs
  BY <1>2 DEF ResolvedSoFar
<1>. QED  BY <1>3, <1>4, <1>5

LEMMA ValuesInDenote ==
  ASSUME NEW n \in 1 .. Len(decl.cel), decl \in Decls, NEW x \in ValuesIn(n)
  PROVE  IF decl.target = "message" THEN x.base = x.cel ELSE x.lean = x.cel
<1>. DEFINE ctx == Context(decl, n)
            e == decl.cel[n]
<1>1. decl.type \in Type /\ e \in Expr
  BY RulesAre
<1>2. /\ IsFiniteSet(ctx.used) /\ ctx.used = Idents[e]
      /\ ctx.message \in BOOLEAN /\ (ctx.message <=> decl.target = "message")
      /\ ctx.message => ctx.root \notin ctx.used /\ ctx.base \notin ctx.used
  BY ContextIs
<1>3. <<>> \in Scopes /\ Hygienic(<<>>, ctx)
  BY NothingBound
<1>4. x \in Values(decl.type, ctx)[e][<<>>]
  BY DEF ValuesIn
<1>. HIDE DEF ctx, e
<1>5. Denotes(x, ctx)
  BY <1>1, <1>2, <1>3, <1>4, ValuesDenote
<1>. QED  BY <1>2, <1>5 DEF Denotes

\* Every value of a custom rule that has a path is looked up with the
\* attribute of the type CEL gives it: whatever the rule, the walk that
\* collects its paths and the walk that looks them up agree.
THEOREM ViewsAreAsDeclared == Spec => []ViewsAsDeclared
<1>1. StageInv /\ ResolvedSoFar => ViewsAsDeclared
  <2>. SUFFICES ASSUME StageInv, ResolvedSoFar, NEW nx \in LoweredValues, nx[2].path # NoPath
                PROVE  AttrAt(attrs[nx[1]], nx[2].path) = AttrOf(nx[2].type)
    BY DEF ViewsAsDeclared
  <2>. DEFINE n == nx[1]
              x == nx[2]
              this == decl.type
              e == decl.cel[n]
              ctx == Context(decl, n)
              P == SelectPaths[e][{}]
              A == Attrs(decl.target, this, e)
  <2>1. /\ n \in 1 .. Len(decl.cel) /\ x \in ValuesIn(n) /\ decl \in Decls
        /\ ResolvedAttrs(decl, n).ok /\ attrs[n] = ResolvedAttrs(decl, n).attrs
    BY LoweredIs, StageIs
  <2>2. x \in Values(this, ctx)[e][<<>>]
    BY <2>1 DEF ValuesIn
  <2>. HIDE DEF n, x
  <2>3. /\ this \in Type /\ e \in Expr /\ (decl.target = "message" => Kind(this) = "message")
        /\ attrs[n] = A /\ \A a \in A : a[2] # SelectsThroughEnum
    BY <2>1, RulesAre
  <2>4. IsFiniteSet(ctx.used)
    BY <2>1, ContextIs
  <2>. HIDE DEF this, e, ctx, A
  <2>5. /\ <<>> \in Scopes /\ Tracks(<<>>, this) /\ Known(<<>>, P)
        /\ BindingPaths(<<>>) = {} /\ SelectPaths[e][BindingPaths(<<>>)] \subseteq P
    BY NothingBound
  <2>6. Tells(x, P, this)
    BY <2>2, <2>3, <2>4, <2>5, ValuesTell
  <2>7. x.path # NoPath
    BY DEF x
  <2>8. x.path \in P \cup {<<>>} /\ x.type = TypeAt(x.path, this)
    BY <2>6, <2>7 DEF Tells
  <2>9. AttrAt(A, x.path) = AttrOf(TypeAt(x.path, this))
    BY <2>3, <2>7, <2>8, AttrsTell DEF A
  <2>. QED  BY <2>3, <2>8, <2>9 DEF n, x
<1>. QED  BY Staged, Resolved, <1>1, PTL

\* Generation fails over the paths of a rule only when the rule selects from,
\* indexes or iterates over an enum.
THEOREM OnlyEnumSelectsRejected == Spec => []RejectsOnlyEnumSelects
<1>1. StageInv /\ ResolvedSoFar => RejectsOnlyEnumSelects
  <2>. SUFFICES ASSUME StageInv, ResolvedSoFar, phase = "bad path"
                PROVE  \E t \in Opened(decl.type)[decl.cel[next]][<<>>] : Kind(t) = "enum"
    BY DEF RejectsOnlyEnumSelects
  <2>0. next <= Len(decl.cel) /\ ~ResolvedAttrs(decl, next).ok
    BY Zenon DEF ResolvedSoFar
  <2>1. decl \in Decls /\ next \in 1 .. Len(decl.cel) /\ ~ResolvedAttrs(decl, next).ok
    BY <2>0, RejectedIs, Zenon
  <2>2. PICK a \in Attrs(decl.target, decl.type, decl.cel[next]) : a[2] = SelectsThroughEnum
    BY <2>1, RulesAre
  <2>3. /\ decl.type \in Type /\ decl.cel[next] \in Expr
        /\ decl.target = "message" => Kind(decl.type) = "message"
    BY <2>1, RulesAre
  <2>. QED  BY <2>2, <2>3, RefusedForEnum
<1>. QED  BY Staged, Resolved, <1>1, PTL

\* Each value of a field rule is bound in the Lean text where CEL binds it,
\* however the rule reuses and shadows names.
THEOREM FieldBindersDenote == Spec => []BindersDenote
<1>1. StageInv /\ ResolvedSoFar => BindersDenote
  <2>. SUFFICES ASSUME StageInv, ResolvedSoFar, decl.target = "field", NEW nx \in LoweredValues
                PROVE  nx[2].lean = nx[2].cel
    BY DEF BindersDenote
  <2>1. nx[1] \in 1 .. Len(decl.cel) /\ nx[2] \in ValuesIn(nx[1]) /\ decl \in Decls
    BY LoweredIs, StageIs
  <2>. QED  BY <2>1, ValuesInDenote
<1>. QED  BY Staged, Resolved, <1>1, PTL

\* A message rule is decided and proved over the base message, and there too
\* each value is bound where CEL binds it, whatever the rules name.
THEOREM BaseTextsDenote == Spec => []BaseTextDenotes
<1>1. StageInv /\ ResolvedSoFar => BaseTextDenotes
  <2>. SUFFICES ASSUME StageInv, ResolvedSoFar, decl.target = "message", NEW nx \in LoweredValues
                PROVE  nx[2].base = nx[2].cel
    BY DEF BaseTextDenotes
  <2>1. nx[1] \in 1 .. Len(decl.cel) /\ nx[2] \in ValuesIn(nx[1]) /\ decl \in Decls
    BY LoweredIs, StageIs
  <2>. QED  BY <2>1, ValuesInDenote
<1>. QED  BY Staged, Resolved, <1>1, PTL
=============================================================================
