-------------------------- MODULE ArithmeticProofs --------------------------
(***************************************************************************)
(* Proofs about Arithmetic, for every width of the fields.                 *)
(***************************************************************************)
EXTENDS Arithmetic, FiniteSetTheorems, TLAPS

-----------------------------------------------------------------------------
(* Powers of two, counted as the subsets of an interval.                   *)

LEMMA PowerCounts ==
  ASSUME NEW S, NEW n \in Nat, IsFiniteSet(S), Cardinality(S) = n
  PROVE  /\ IsFiniteSet(SUBSET S) /\ Cardinality(SUBSET S) = 2 ^ n
         /\ 2 ^ n \in Nat \ {0}
<1>1. IsFiniteSet(SUBSET S) /\ Cardinality(SUBSET S) = 2 ^ n
  BY FS_SUBSET
<1>2. Cardinality(SUBSET S) \in Nat /\ Cardinality(SUBSET S) # 0
  <2>1. SUBSET S # {}
    OBVIOUS
  <2> QED
    BY <1>1, <2>1, FS_CardinalityType, FS_EmptySet
<1> QED
  BY <1>1, <1>2

LEMMA IntervalCounts ==
  ASSUME NEW m \in Nat, NEW n \in Nat
  PROVE  IsFiniteSet(m + 1 .. m + n) /\ Cardinality(m + 1 .. m + n) = n
<1>1. /\ IsFiniteSet(m + 1 .. m + n)
      /\ Cardinality(m + 1 .. m + n) = IF m + 1 > m + n THEN 0 ELSE m + n - (m + 1) + 1
  BY FS_Interval
<1> QED
  BY <1>1

LEMMA PowerType ==
  ASSUME NEW n \in Nat
  PROVE  2 ^ n \in Nat \ {0}
BY IntervalCounts, PowerCounts

\* A subset of m + n numbers is one of the first m and one of the other n.
LEMMA PowerSum ==
  ASSUME NEW m \in Nat, NEW n \in Nat
  PROVE  2 ^ (m + n) = 2 ^ m * 2 ^ n
<1> DEFINE A == 1 .. m
           B == m + 1 .. m + n
           C == 1 .. m + n
           S == (SUBSET A) \X (SUBSET B)
           T == SUBSET C
           f == [x \in S |-> x[1] \cup x[2]]
<1>1. /\ IsFiniteSet(A) /\ Cardinality(A) = m
      /\ IsFiniteSet(B) /\ Cardinality(B) = n
      /\ IsFiniteSet(C) /\ Cardinality(C) = m + n
  <2>1. 0 + 1 = 1 /\ 0 + m = m /\ 0 + (m + n) = m + n /\ m + n \in Nat /\ 0 \in Nat
    OBVIOUS
  <2> QED
    BY <2>1, IntervalCounts
<1>2. /\ C = A \cup B
      /\ \A i : ~(i \in A /\ i \in B)
  OBVIOUS
<1> HIDE DEF A, B, C
<1>3. IsFiniteSet(S) /\ Cardinality(S) = 2 ^ m * 2 ^ n
  <2>1. /\ IsFiniteSet(SUBSET A) /\ Cardinality(SUBSET A) = 2 ^ m
        /\ IsFiniteSet(SUBSET B) /\ Cardinality(SUBSET B) = 2 ^ n
    BY <1>1, PowerCounts
  <2> QED
    BY <2>1, FS_Product
<1>4. Cardinality(T) = 2 ^ (m + n)
  <2>1. m + n \in Nat
    OBVIOUS
  <2> QED
    BY <1>1, <2>1, PowerCounts
<1>5. f \in [S -> T]
  BY <1>2
<1>6. \A x, y \in S : f[x] = f[y] => x = y
  <2> TAKE x, y \in S
  <2> HAVE f[x] = f[y]
  <2>1. x[1] \cup x[2] = y[1] \cup y[2]
    OBVIOUS
  <2>2. x[1] = y[1] /\ x[2] = y[2]
    BY <1>2, <2>1
  <2> QED
    BY <2>2
<1>7. \A t \in T : \E x \in S : f[x] = t
  <2> TAKE t \in T
  <2> WITNESS <<t \cap A, t \cap B>> \in S
  <2> QED
    BY <1>2
<1>8. f \in Bijection(S, T)
  <2> HIDE DEF S, T, f
  <2>1. f \in Injection(S, T)
    BY <1>5, <1>6 DEF Injection, IsInjective
  <2>2. f \in Surjection(S, T)
    BY <1>5, <1>7 DEF Surjection
  <2> QED
    BY <2>1, <2>2 DEF Bijection
<1> HIDE DEF S, T, f
<1>9. Cardinality(T) = Cardinality(S)
  BY <1>3, <1>8, FS_Bijection DEF ExistsBijection
<1> QED
  BY <1>3, <1>4, <1>9

LEMMA PowerOne ==
  2 ^ 1 = 2
<1>1. IsFiniteSet({1}) /\ Cardinality({1}) = 1
  BY FS_Singleton
<1>2. Cardinality(SUBSET {1}) = 2 ^ 1
  BY <1>1, PowerCounts
<1>3. SUBSET {1} = {{}} \cup {{1}} /\ {1} \notin {{}}
  OBVIOUS
<1>4. IsFiniteSet({{}}) /\ Cardinality({{}}) = 1
  BY FS_Singleton
<1>5. Cardinality({{}} \cup {{1}}) = 1 + 1
  BY <1>3, <1>4, FS_AddElement
<1> QED
  BY <1>2, <1>3, <1>5

-----------------------------------------------------------------------------
(* The domains.                                                            *)

\* Half the values of a domain, and all of them.
Half(d) == 2 ^ (d.bits - 1)
All(d) == 2 ^ d.bits

LEMMA DomainFacts ==
  ASSUME NEW d \in Domain
  PROVE  /\ d.bits \in Nat \ {0} /\ d.unsigned \in BOOLEAN
         /\ Half(d) \in Nat \ {0} /\ All(d) = 2 * Half(d)
         /\ All(d) \in Nat \ {0}
         /\ MinInt(d) = (IF d.unsigned THEN 0 ELSE -Half(d))
         /\ MaxInt(d) = (IF d.unsigned THEN 2 * Half(d) - 1 ELSE Half(d) - 1)
         /\ MinInt(d) \in Int /\ MaxInt(d) \in Int
         /\ MaxInt(d) = MinInt(d) + All(d) - 1
<1>1. d.bits \in Nat \ {0} /\ d.unsigned \in BOOLEAN
  BY WidthAssumption DEF Domain
<1>2. d.bits - 1 \in Nat /\ 1 \in Nat /\ (d.bits - 1) + 1 = d.bits
  BY <1>1
<1>3. All(d) = Half(d) * 2
  BY <1>2, PowerSum, PowerOne DEF Half, All
<1>4. Half(d) \in Nat \ {0}
  BY <1>2, PowerType DEF Half
<1>5. MinInt(d) = (IF d.unsigned THEN 0 ELSE -Half(d)) /\ MaxInt(d) = MinInt(d) + All(d) - 1
  BY DEF MinInt, MaxInt, Half, All
<1> QED
  BY <1>1, <1>3, <1>4, <1>5

LEMMA CelDomIsDomain ==
  ASSUME NEW u \in BOOLEAN
  PROVE  CelDom(u) \in Domain /\ CelDom(u).unsigned = u /\ CelDom(u).bits = Wide
BY DEF CelDom, Domain

\* CEL's domains have the same width, and hold the fields' values.
LEMMA WideFacts ==
  ASSUME NEW d \in Domain
  PROVE  /\ Half(d) <= Half(CelDom(FALSE))
         /\ Half(CelDom(TRUE)) = Half(CelDom(FALSE))
         /\ \A v \in ValuesOf(d) : v \in Number /\ v \in Int /\ v \in ValuesOf(CelDom(d.unsigned))
<1>1. Half(CelDom(TRUE)) = Half(CelDom(FALSE))
  BY DEF Half, CelDom
<1>2. Half(d) <= Half(CelDom(FALSE))
  <2>1. CASE d.bits = Wide
    <3>1. Half(d) = Half(CelDom(FALSE))
      BY <2>1, CelDomIsDomain DEF Half
    <3>2. Half(d) <= Half(d)
      BY DomainFacts
    <3> QED
      BY <3>1, <3>2
  <2>2. CASE d.bits = Narrow
    <3> DEFINE k == Wide - Narrow
    <3>1. k \in Nat /\ d.bits - 1 \in Nat /\ Wide - 1 = k + (d.bits - 1)
      BY <2>2, WidthAssumption
    <3> HIDE DEF k
    <3>2. 2 ^ (Wide - 1) = 2 ^ k * 2 ^ (d.bits - 1)
      BY <3>1, PowerSum
    <3>3. 2 ^ k \in Nat \ {0} /\ 2 ^ (d.bits - 1) \in Nat \ {0}
      BY <3>1, PowerType
    <3>4. \A a, b \in Nat \ {0} : b <= a * b
      OBVIOUS
    <3>5. Half(CelDom(FALSE)) = 2 ^ (Wide - 1)
      BY CelDomIsDomain DEF Half
    <3> QED
      BY <3>2, <3>3, <3>4, <3>5 DEF Half
  <2> QED
    BY <2>1, <2>2 DEF Domain
<1> DEFINE h == Half(d)
           H == Half(CelDom(FALSE))
<1>3. /\ h \in Nat \ {0} /\ d.unsigned \in BOOLEAN
      /\ MinInt(d) = (IF d.unsigned THEN 0 ELSE -h)
      /\ MaxInt(d) = (IF d.unsigned THEN 2 * h - 1 ELSE h - 1)
  BY DomainFacts
<1>4. /\ CelDom(FALSE) \in Domain /\ CelDom(FALSE).unsigned = FALSE
      /\ CelDom(TRUE) \in Domain /\ CelDom(TRUE).unsigned = TRUE
  BY CelDomIsDomain
<1>5. /\ H \in Nat \ {0}
      /\ MinInt(CelDom(FALSE)) = -H /\ MaxInt(CelDom(FALSE)) = H - 1
      /\ MinInt(CelDom(TRUE)) = 0 /\ MaxInt(CelDom(TRUE)) = 2 * H - 1
  BY <1>1, <1>4, DomainFacts
<1>6. h <= H
  BY <1>2
<1> HIDE DEF h, H
<1> DEFINE e == CelDom(d.unsigned)
<1>7. /\ MinInt(e) = (IF d.unsigned THEN 0 ELSE -H)
      /\ MaxInt(e) = (IF d.unsigned THEN 2 * H - 1 ELSE H - 1)
  <2>1. e \in Domain /\ e.unsigned = d.unsigned /\ e.bits = Wide
    BY <1>3, CelDomIsDomain
  <2>2. Half(e) = H
    BY <2>1, CelDomIsDomain DEF Half, H
  <2> HIDE DEF e, H
  <2>3. /\ MinInt(e) = (IF e.unsigned THEN 0 ELSE -Half(e))
        /\ MaxInt(e) = (IF e.unsigned THEN 2 * Half(e) - 1 ELSE Half(e) - 1)
    BY <2>1, DomainFacts
  <2> QED
    BY <2>1, <2>2, <2>3
<1> HIDE DEF e
<1>8. ASSUME NEW v \in ValuesOf(d)
      PROVE  v \in Number /\ v \in Int /\ v \in ValuesOf(e)
  <2>1. /\ v \in Int /\ MinInt(d) <= v /\ v <= MaxInt(d)
        /\ MinInt(d) \in Int /\ MaxInt(d) \in Int /\ MinInt(e) \in Int /\ MaxInt(e) \in Int
    BY <1>3, <1>5, <1>7 DEF ValuesOf
  <2>2. /\ -H <= v /\ v <= 2 * H - 1
    BY <1>3, <1>5, <1>6, <2>1
  <2>3. MinInt(e) <= v /\ v <= MaxInt(e)
    <3>1. CASE d.unsigned
      BY <1>3, <1>5, <1>6, <1>7, <2>1, <3>1
    <3>2. CASE ~d.unsigned
      BY <1>3, <1>5, <1>6, <1>7, <2>1, <3>2
    <3> QED
      BY <3>1, <3>2
  <2>4. v \in MinInt(e) .. MaxInt(e)
    BY <2>1, <2>3
  <2>5. v \in (-H) .. (2 * H - 1)
    BY <1>5, <2>1, <2>2
  <2>6. v \in Number
    BY <1>5, <2>5 DEF Number
  <2> QED
    BY <2>1, <2>4, <2>6 DEF ValuesOf
<1> QED
  BY <1>1, <1>2, <1>8 DEF h, H, e

-----------------------------------------------------------------------------
(* Wrapping.                                                               *)

LEMMA DivMod ==
  ASSUME NEW M \in Nat \ {0}, NEW v \in Int
  PROVE  /\ v % M \in 0 .. M - 1
         /\ v \div M \in Int
         /\ v = M * (v \div M) + (v % M)
<1>1. v % M \in Int /\ 0 <= v % M /\ v % M < M
  OBVIOUS
<1>2. v \div M \in Int
  OBVIOUS
<1>3. v = M * (v \div M) + (v % M)
  OBVIOUS
<1> QED
  BY <1>1, <1>2, <1>3

\* A residue class has one member in an interval of its modulus's length.
LEMMA OneResidue ==
  ASSUME NEW M \in Nat \ {0}, NEW a \in 0 .. M - 1, NEW b \in 0 .. M - 1,
         NEW k \in Int, a = b + k * M
  PROVE  a = b
OBVIOUS

LEMMA WrapFacts ==
  ASSUME NEW d \in Domain, NEW v \in Int
  PROVE  /\ Wrap(d, v) \in ValuesOf(d) /\ Wrap(d, v) \in Int /\ InRange(d, Wrap(d, v))
         /\ \E k \in Int : Wrap(d, v) = v + k * All(d)
<1> DEFINE M == All(d)
           m == MinInt(d)
           q == (v - m) \div M
           r == (v - m) % M
<1>1. M \in Nat \ {0} /\ m \in Int /\ MaxInt(d) = m + M - 1 /\ v - m \in Int
  BY DomainFacts
<1>2. Wrap(d, v) = r + m
  BY DEF Wrap, All
<1> HIDE DEF M, m
<1>3. r \in 0 .. M - 1 /\ q \in Int /\ v - m = M * q + r
  BY <1>1, DivMod
<1> HIDE DEF q, r
<1>4. Wrap(d, v) = v + (-q) * M /\ -q \in Int
  BY <1>1, <1>2, <1>3
<1>5. Wrap(d, v) \in m .. m + M - 1
  BY <1>1, <1>2, <1>3
<1> QED
  BY <1>1, <1>4, <1>5 DEF ValuesOf, InRange, M, m

LEMMA WrapIsUnique ==
  ASSUME NEW d \in Domain, NEW v \in Int, NEW w \in Int, InRange(d, w),
         NEW k \in Int, w = v + k * All(d)
  PROVE  Wrap(d, v) = w
<1> DEFINE M == All(d)
           m == MinInt(d)
<1>1. M \in Nat \ {0} /\ m \in Int /\ MaxInt(d) = m + M - 1
  BY DomainFacts
<1>2. Wrap(d, v) \in m .. m + M - 1
  BY <1>1, WrapFacts DEF ValuesOf
<1>3. PICK j \in Int : Wrap(d, v) = v + j * M
  BY WrapFacts
<1>4. w - m \in 0 .. M - 1 /\ Wrap(d, v) - m \in 0 .. M - 1
  BY <1>1, <1>2 DEF InRange
<1> HIDE DEF M, m
<1>5. Wrap(d, v) - m = (w - m) + (j - k) * M
  <2>1. w = v + k * M
    BY DEF M
  <2>2. Wrap(d, v) \in Int
    BY WrapFacts
  <2> QED
    BY <1>1, <1>3, <2>1, <2>2
<1>6. Wrap(d, v) - m = w - m
  <2>1. j - k \in Int
    OBVIOUS
  <2> QED
    BY <1>1, <1>4, <1>5, <2>1, OneResidue
<1> QED
  BY <1>1, <1>2, <1>6

LEMMA WrapKeeps ==
  ASSUME NEW d \in Domain, NEW v \in Int, InRange(d, v)
  PROVE  Wrap(d, v) = v
<1>1. v = v + 0 * All(d)
  BY DomainFacts
<1> QED
  BY <1>1, WrapIsUnique

\* Lean computes with wrapped operands what it would with the operands.
LEMMA WrapCongruence ==
  ASSUME NEW d \in Domain, NEW a \in Int, NEW b \in Int
  PROVE  /\ Wrap(d, Wrap(d, a) + Wrap(d, b)) = Wrap(d, a + b)
         /\ Wrap(d, Wrap(d, a) - Wrap(d, b)) = Wrap(d, a - b)
         /\ Wrap(d, Wrap(d, a) * Wrap(d, b)) = Wrap(d, a * b)
         /\ Wrap(d, -Wrap(d, a)) = Wrap(d, -a)
<1> DEFINE M == All(d)
<1>1. M \in Nat \ {0}
  BY DomainFacts
<1>2. PICK i \in Int : Wrap(d, a) = a + i * M
  BY WrapFacts
<1>3. PICK j \in Int : Wrap(d, b) = b + j * M
  BY WrapFacts
<1> HIDE DEF M
<1>4. ASSUME NEW x \in Int, NEW y \in Int, NEW k \in Int, x = y + k * M
      PROVE  Wrap(d, x) = Wrap(d, y)
  <2>1. Wrap(d, x) \in Int /\ InRange(d, Wrap(d, x))
    BY WrapFacts
  <2>2. PICK n \in Int : Wrap(d, x) = x + n * M
    BY WrapFacts DEF M
  <2>3. Wrap(d, x) = y + (k + n) * M /\ k + n \in Int
    BY <1>1, <1>4, <2>2
  <2> QED
    BY <2>1, <2>3, WrapIsUnique DEF M
<1>5. Wrap(d, Wrap(d, a) + Wrap(d, b)) = Wrap(d, a + b)
  <2>1. Wrap(d, a) + Wrap(d, b) = (a + b) + (i + j) * M
    BY <1>1, <1>2, <1>3
  <2>2. Wrap(d, a) + Wrap(d, b) \in Int /\ a + b \in Int /\ i + j \in Int
    BY WrapFacts
  <2> QED
    BY <1>4, <2>1, <2>2
<1>6. Wrap(d, Wrap(d, a) - Wrap(d, b)) = Wrap(d, a - b)
  <2>1. Wrap(d, a) - Wrap(d, b) = (a - b) + (i - j) * M
    BY <1>1, <1>2, <1>3
  <2>2. Wrap(d, a) - Wrap(d, b) \in Int /\ a - b \in Int /\ i - j \in Int
    BY WrapFacts
  <2> QED
    BY <1>4, <2>1, <2>2
<1>7. Wrap(d, Wrap(d, a) * Wrap(d, b)) = Wrap(d, a * b)
  <2> DEFINE k == a * j + b * i + i * j * M
  <2>1. (a + i * M) * (b + j * M) = a * b + k * M
    BY <1>1
  <2>2. k \in Int /\ a * b \in Int /\ Wrap(d, a) * Wrap(d, b) \in Int
    BY <1>1, WrapFacts
  <2>3. Wrap(d, a) * Wrap(d, b) = a * b + k * M
    BY <1>2, <1>3, <2>1
  <2> HIDE DEF k
  <2> QED
    BY <1>4, <2>2, <2>3
<1>8. Wrap(d, -Wrap(d, a)) = Wrap(d, -a)
  <2>1. -Wrap(d, a) = -a + (-i) * M
    BY <1>1, <1>2
  <2>2. -Wrap(d, a) \in Int /\ -a \in Int /\ -i \in Int
    BY WrapFacts
  <2> QED
    BY <1>4, <2>1, <2>2
<1> QED
  BY <1>5, <1>6, <1>7, <1>8

-----------------------------------------------------------------------------
(* The operators.                                                          *)

Ops == {"+", "-", "*", "/", "%"}

LEMMA AbsFacts ==
  ASSUME NEW x \in Int
  PROVE  AbsOf(x) \in Nat /\ (x = 0 <=> AbsOf(x) = 0) /\ (x = AbsOf(x) \/ x = -AbsOf(x))
BY DEF AbsOf

\* The quotient is rounded towards zero: what is left is less than the divisor.
LEMMA QuoFacts ==
  ASSUME NEW x \in Int, NEW y \in Int
  PROVE  /\ Quo(x, y) \in Int
         /\ y # 0 => \E r \in Int : x = Quo(x, y) * y + r /\ AbsOf(r) < AbsOf(y)
<1> DEFINE a == AbsOf(x)
           b == AbsOf(y)
           q == a \div b
           m == a % b
<1>1. CASE y = 0
  BY <1>1 DEF Quo
<1>2. CASE y # 0
  <2>1. a \in Nat /\ b \in Nat \ {0}
    BY <1>2, AbsFacts
  <2> HIDE DEF a, b
  <2>2. m \in 0 .. b - 1 /\ q \in Int /\ a = b * q + m
    BY <2>1, DivMod
  <2>3. Quo(x, y) = (IF (x < 0) = (y < 0) THEN q ELSE -q)
    BY <1>2 DEF Quo, a, b, q
  <2> HIDE DEF q, m
  <2> DEFINE s == IF x < 0 THEN -m ELSE m
  <2>4. x = (IF x < 0 THEN -a ELSE a) /\ y = (IF y < 0 THEN -b ELSE b)
    BY DEF AbsOf, a, b
  <2>5. s \in Int /\ AbsOf(s) = m
    BY <2>1, <2>2 DEF AbsOf
  <2>6. x = Quo(x, y) * y + s
    <3>1. CASE x < 0 /\ y < 0
      <4>1. Quo(x, y) = q /\ s = -m /\ x = -a /\ y = -b
        BY <2>3, <2>4, <3>1
      <4>2. -(b * q + m) = q * (-b) + (-m)
        BY <2>1, <2>2
      <4> HIDE DEF s
      <4> QED
        BY <2>2, <4>1, <4>2
    <3>2. CASE x < 0 /\ ~(y < 0)
      <4>1. Quo(x, y) = -q /\ s = -m /\ x = -a /\ y = b
        BY <2>3, <2>4, <3>2
      <4>2. -(b * q + m) = (-q) * b + (-m)
        BY <2>1, <2>2
      <4> HIDE DEF s
      <4> QED
        BY <2>2, <4>1, <4>2
    <3>3. CASE ~(x < 0) /\ y < 0
      <4>1. Quo(x, y) = -q /\ s = m /\ x = a /\ y = -b
        BY <2>3, <2>4, <3>3
      <4>2. b * q + m = (-q) * (-b) + m
        BY <2>1, <2>2
      <4> HIDE DEF s
      <4> QED
        BY <2>2, <4>1, <4>2
    <3>4. CASE ~(x < 0) /\ ~(y < 0)
      <4>1. Quo(x, y) = q /\ s = m /\ x = a /\ y = b
        BY <2>3, <2>4, <3>4
      <4>2. b * q + m = q * b + m
        BY <2>1, <2>2
      <4> HIDE DEF s
      <4> QED
        BY <2>2, <4>1, <4>2
    <3> QED
      BY <3>1, <3>2, <3>3, <3>4
  <2>7. Quo(x, y) \in Int
    BY <2>2, <2>3
  <2>8. AbsOf(s) < AbsOf(y)
    BY <2>1, <2>2, <2>5 DEF b
  <2> HIDE DEF s
  <2> QED
    BY <2>5, <2>6, <2>7, <2>8
<1> QED
  BY <1>1, <1>2

\* A multiple of d that is nearer to zero than d is zero.
LEMMA OnlyMultiple ==
  ASSUME NEW M \in Nat, NEW k \in Int, AbsOf(k * M) < M
  PROVE  k = 0
<1>1. k >= 1 => k * M >= M
  OBVIOUS
<1>2. k <= -1 => k * M <= -M
  OBVIOUS
<1> QED
  BY <1>1, <1>2 DEF AbsOf

LEMMA QuoOfProduct ==
  ASSUME NEW x \in Int, NEW y \in Int, x # 0
  PROVE  Quo(x * y, x) = y
<1> DEFINE q == Quo(x * y, x)
           M == AbsOf(x)
<1>1. x * y \in Int
  OBVIOUS
<1>2. q \in Int
  BY <1>1, QuoFacts
<1>3. PICK r \in Int : x * y = q * x + r /\ AbsOf(r) < M
  BY <1>1, QuoFacts
<1>4. M \in Nat /\ (x = M \/ x = -M)
  BY AbsFacts
<1> HIDE DEF q, M
<1>5. r = (y - q) * x
  BY <1>2, <1>3
<1>6. y - q = 0
  <2>1. CASE x = M
    <3>1. r = (y - q) * M /\ y - q \in Int
      BY <1>2, <1>5, <2>1
    <3> QED
      BY <1>3, <1>4, <3>1, OnlyMultiple
  <2>2. CASE x = -M
    <3>1. r = (q - y) * M /\ q - y \in Int
      BY <1>2, <1>4, <1>5, <2>2
    <3>2. q - y = 0
      BY <1>3, <1>4, <3>1, OnlyMultiple
    <3> QED
      BY <1>2, <3>2
  <2> QED
    BY <1>4, <2>1, <2>2
<1> QED
  BY <1>2, <1>6 DEF q

LEMMA ExactlyType ==
  ASSUME NEW op \in Ops, NEW x \in Int, NEW y \in Int
  PROVE  Exactly(op, x, y) \in Int
<1>1. Quo(x, y) \in Int
  BY QuoFacts
<1>2. x + y \in Int /\ x - y \in Int /\ x * y \in Int /\ x - y * Quo(x, y) \in Int
  BY <1>1
<1> QED
  BY <1>1, <1>2 DEF Exactly, Ops

LEMMA CelDomFacts ==
  ASSUME NEW u \in BOOLEAN
  PROVE  LET H == Half(CelDom(FALSE))
         IN  /\ CelDom(u) \in Domain /\ H \in Nat \ {0} /\ All(CelDom(u)) = 2 * H
             /\ CelDom(u).unsigned = u /\ CelDom(u).bits = Wide
             /\ MinInt(CelDom(u)) = (IF u THEN 0 ELSE -H)
             /\ MaxInt(CelDom(u)) = (IF u THEN 2 * H - 1 ELSE H - 1)
<1> DEFINE e == CelDom(u)
           H == Half(CelDom(FALSE))
<1>1. e \in Domain /\ e.unsigned = u /\ e.bits = Wide /\ CelDom(FALSE) \in Domain
  BY CelDomIsDomain
<1>2. Half(e) = H /\ H \in Nat \ {0}
  BY <1>1, CelDomIsDomain, DomainFacts DEF Half
<1> HIDE DEF e, H
<1>3. /\ MinInt(e) = (IF e.unsigned THEN 0 ELSE -Half(e))
      /\ MaxInt(e) = (IF e.unsigned THEN 2 * Half(e) - 1 ELSE Half(e) - 1)
      /\ All(e) = 2 * Half(e)
  BY <1>1, DomainFacts
<1>4. /\ MinInt(e) = (IF u THEN 0 ELSE -H)
      /\ MaxInt(e) = (IF u THEN 2 * H - 1 ELSE H - 1)
      /\ All(e) = 2 * H
  BY <1>1, <1>2, <1>3
<1> QED
  BY <1>1, <1>2, <1>4 DEF e, H

\* foldConstArith accepts a constant exactly when CEL computes it.
THEOREM FoldIsExact ==
  ASSUME NEW u \in BOOLEAN, NEW op \in Guarded,
         NEW x \in ValuesOf(CelDom(u)), NEW y \in ValuesOf(CelDom(u))
  PROVE  FoldOk(op, u, x, y) <=> InRange(CelDom(u), Exactly(op, x, y))
<1> DEFINE e == CelDom(u)
           H == Half(CelDom(FALSE))
           z == Exactly(op, x, y)
           v == Wrap(e, z)
<1>1. /\ e \in Domain /\ H \in Nat \ {0} /\ All(e) = 2 * H
      /\ MinInt(e) = (IF u THEN 0 ELSE -H)
      /\ MaxInt(e) = (IF u THEN 2 * H - 1 ELSE H - 1)
  BY CelDomFacts
<1> HIDE DEF e, H
<1> SUFFICES FoldOk(op, u, x, y) <=> InRange(e, z)
  BY DEF e
<1>2. /\ x \in Int /\ y \in Int
      /\ MinInt(e) <= x /\ x <= MaxInt(e) /\ MinInt(e) <= y /\ y <= MaxInt(e)
  BY <1>1 DEF ValuesOf, e
<1>3. z \in Int /\ op \in Ops
  BY <1>2, ExactlyType DEF Guarded, Ops
<1>4. v \in Int /\ MinInt(e) <= v /\ v <= MaxInt(e)
  BY <1>1, <1>3, WrapFacts DEF InRange
<1>5. /\ InRange(e, z) => v = z
      /\ MaxInt(e) < z /\ z <= MaxInt(e) + 2 * H => v = z - 2 * H
      /\ z < MinInt(e) /\ MinInt(e) - 2 * H <= z => v = z + 2 * H
  <2>1. InRange(e, z) => v = z
    BY <1>1, <1>3, WrapKeeps
  <2>2. ASSUME NEW k \in Int, MinInt(e) <= z + k * (2 * H), z + k * (2 * H) <= MaxInt(e)
        PROVE  v = z + k * (2 * H)
    <3>1. z + k * (2 * H) \in Int
      BY <1>1, <1>3
    <3>2. InRange(e, z + k * (2 * H))
      BY <2>2 DEF InRange
    <3> QED
      BY <1>1, <1>3, <3>1, <3>2, WrapIsUnique
  <2>3. ASSUME MaxInt(e) < z, z <= MaxInt(e) + 2 * H
        PROVE  v = z - 2 * H
    <3>1. /\ -1 \in Int /\ z + (-1) * (2 * H) = z - 2 * H
          /\ MinInt(e) <= z + (-1) * (2 * H) /\ z + (-1) * (2 * H) <= MaxInt(e)
      BY <1>1, <1>3, <2>3
    <3> QED
      BY <2>2, <3>1
  <2>4. ASSUME z < MinInt(e), MinInt(e) - 2 * H <= z
        PROVE  v = z + 2 * H
    <3>1. /\ 1 \in Int /\ z + 1 * (2 * H) = z + 2 * H
          /\ MinInt(e) <= z + 1 * (2 * H) /\ z + 1 * (2 * H) <= MaxInt(e)
      BY <1>1, <1>3, <2>4
    <3> QED
      BY <2>2, <3>1
  <2> QED
    BY <2>1, <2>3, <2>4
<1> HIDE DEF v
<1>6. InRange(e, z) <=> MinInt(e) <= z /\ z <= MaxInt(e)
  BY DEF InRange
<1> DEFINE lo == MinInt(e)
           hi == MaxInt(e)
<1>10. /\ H \in Nat \ {0} /\ x \in Int /\ y \in Int /\ v \in Int
       /\ lo = (IF u THEN 0 ELSE -H) /\ hi = (IF u THEN 2 * H - 1 ELSE H - 1)
       /\ lo <= x /\ x <= hi /\ lo <= y /\ y <= hi
       /\ (lo <= z /\ z <= hi => v = z)
       /\ (hi < z /\ z <= hi + 2 * H => v = z - 2 * H)
       /\ (z < lo /\ lo - 2 * H <= z => v = z + 2 * H)
       /\ (InRange(e, z) <=> lo <= z /\ z <= hi)
  BY <1>1, <1>2, <1>4, <1>5, <1>6
<1> HIDE DEF lo, hi
<1>7. CASE op = "+"
  <2>1. z = x + y
    BY <1>7 DEF Exactly
  <2>2. FoldOk(op, u, x, y) <=> IF u THEN v >= x ELSE (y >= 0 <=> v >= x)
    <3>1. CASE u
      BY <1>7, <3>1 DEF FoldOk, e, v, z
    <3>2. CASE ~u
      <4>1. FoldOk(op, u, x, y) <=> (y >= 0) = (v >= x)
        BY <1>7, <3>2 DEF FoldOk, e, v, z
      <4>2. (y >= 0) = (v >= x) <=> (y >= 0 <=> v >= x)
        OBVIOUS
      <4> QED
        BY <3>2, <4>1, <4>2
    <3> QED
      BY <3>1, <3>2
  <2> HIDE DEF z
  <2>3. CASE u
    <3>1. v >= x <=> lo <= z /\ z <= hi
      BY <1>10, <2>1, <2>3
    <3> QED
      BY <1>10, <2>2, <2>3, <3>1
  <2>4. CASE ~u
    <3>1. (y >= 0 <=> v >= x) <=> lo <= z /\ z <= hi
      BY <1>10, <2>1, <2>4
    <3> QED
      BY <1>10, <2>2, <2>4, <3>1
  <2> QED
    BY <2>3, <2>4
<1>8. CASE op = "-"
  <2>1. z = x - y
    BY <1>8 DEF Exactly
  <2>2. FoldOk(op, u, x, y) <=> IF u THEN y <= x ELSE (y >= 0 <=> v <= x)
    <3>1. CASE u
      BY <1>8, <3>1 DEF FoldOk, e, v, z
    <3>2. CASE ~u
      <4>1. FoldOk(op, u, x, y) <=> (y >= 0) = (v <= x)
        BY <1>8, <3>2 DEF FoldOk, e, v, z
      <4>2. (y >= 0) = (v <= x) <=> (y >= 0 <=> v <= x)
        OBVIOUS
      <4> QED
        BY <3>2, <4>1, <4>2
    <3> QED
      BY <3>1, <3>2
  <2> HIDE DEF z
  <2>3. CASE u
    <3>1. y <= x <=> lo <= z /\ z <= hi
      BY <1>10, <2>1, <2>3
    <3> QED
      BY <1>10, <2>2, <2>3, <3>1
  <2>4. CASE ~u
    <3>1. (y >= 0 <=> v <= x) <=> lo <= z /\ z <= hi
      BY <1>10, <2>1, <2>4
    <3> QED
      BY <1>10, <2>2, <2>4, <3>1
  <2> QED
    BY <2>3, <2>4
<1>9. CASE op = "*"
  <2>1. z = x * y
    BY <1>9 DEF Exactly
  <2>2. FoldOk(op, u, x, y) <=>
          \/ x = 0
          \/ /\ ~u => (x # -1 \/ y # MinInt(e)) /\ (y # -1 \/ x # MinInt(e))
             /\ Quo(v, x) = y
    <3>1. CASE u
      BY <1>9, <3>1 DEF FoldOk, e, v, z
    <3>2. CASE ~u
      BY <1>9, <3>2 DEF FoldOk, e, v, z
    <3> QED
      BY <3>1, <3>2
  <2> HIDE DEF z
  <2>3. CASE x = 0
    <3>1. z = 0
      BY <1>2, <2>1, <2>3
    <3>2. lo <= z /\ z <= hi
      BY <1>10, <3>1
    <3> QED
      BY <1>10, <2>2, <2>3, <3>2
  <2>4. CASE x # 0 /\ InRange(e, z)
    <3>1. Quo(v, x) = y
      BY <1>2, <1>5, <2>1, <2>4, QuoOfProduct
    <3>2. ASSUME ~u
          PROVE  (x # -1 \/ y # MinInt(e)) /\ (y # -1 \/ x # MinInt(e))
      BY <1>1, <1>2, <1>6, <2>1, <2>4, <3>2
    <3> QED
      BY <2>2, <2>4, <3>1, <3>2
  <2>5. CASE x # 0 /\ Quo(v, x) = y
    <3>1. PICK k \in Int : v = z + k * (2 * H)
      BY <1>1, <1>3, WrapFacts DEF v
    <3>2. PICK r \in Int : v = y * x + r /\ AbsOf(r) < AbsOf(x)
      BY <1>2, <1>4, <2>5, QuoFacts
    <3>3. AbsOf(x) < 2 * H
      BY <1>1, <1>2 DEF AbsOf
    <3>4. r = k * (2 * H)
      BY <1>1, <1>2, <1>4, <2>1, <3>1, <3>2
    <3>5. AbsOf(r) \in Nat /\ AbsOf(x) \in Nat /\ 2 * H \in Nat
      BY <1>1, <1>2, AbsFacts
    <3>6. AbsOf(k * (2 * H)) < 2 * H
      BY <3>2, <3>3, <3>4, <3>5
    <3>7. k = 0
      BY <3>5, <3>6, OnlyMultiple
    <3>8. v = z
      BY <1>1, <1>3, <3>1, <3>7
    <3> QED
      BY <1>4, <1>6, <2>2, <2>4, <2>5, <3>8
  <2> QED
    BY <2>2, <2>3, <2>4, <2>5
<1> QED
  BY <1>7, <1>8, <1>9 DEF Guarded

-----------------------------------------------------------------------------
(* Pieces.                                                                 *)

\* What every piece of a translation satisfies.  A field's text elaborates at
\* its own domain only; a constant's at every domain, and needs no guard.  A
\* folded constant is the CEL value and fits the CEL type.
PieceInv(p) ==
  /\ p \in Piece
  /\ p.dom # None =>
       /\ p.dom.unsigned = p.unsigned
       /\ DOMAIN p.lean = {p.dom}
       /\ p.num = None
       /\ ~p.trapped /\ p.ok => p.lean[p.dom] = p.cel
  /\ p.dom = None =>
       /\ DOMAIN p.lean = Domain
       /\ p.ok
       /\ ~p.trapped => p.lean[CelDom(p.unsigned)] = p.cel
  /\ p.num # None =>
       /\ p.num \in ValuesOf(CelDom(p.unsigned))
       /\ p.cel = p.num
       /\ ~p.trapped
       /\ \A d \in Domain : p.lean[d] = Wrap(d, p.num)
  /\ ~p.trapped => (p.ok <=> p.cel # Error)

LEMMA NumberFacts ==
  /\ Number \subseteq Int /\ None \notin Number /\ Error \notin Number
  /\ \A d \in Domain : ValuesOf(d) \subseteq Number
  /\ \A d \in Domain : \A v \in Int : InRange(d, v) <=> v \in ValuesOf(d)
<1>1. Number \subseteq Int
  <2>1. MinInt(CelDom(FALSE)) \in Int /\ MaxInt(CelDom(TRUE)) \in Int
    <3>1. CelDom(FALSE) \in Domain /\ CelDom(TRUE) \in Domain
      BY CelDomIsDomain
    <3> QED
      BY <3>1, DomainFacts
  <2>2. \A a, b \in Int : a .. b \subseteq Int
    OBVIOUS
  <2> QED
    BY <2>1, <2>2, Zenon DEF Number
<1>2. \A d \in Domain : ValuesOf(d) \subseteq Number
  BY WideFacts
<1>3. \A d \in Domain : \A v \in Int : InRange(d, v) <=> v \in ValuesOf(d)
  BY DomainFacts DEF InRange, ValuesOf
<1> QED
  BY <1>1, <1>2, <1>3, MarkAssumption

LEMMA PieceFacts ==
  ASSUME NEW p \in Piece
  PROVE  /\ p.unsigned \in BOOLEAN /\ p.trapped \in BOOLEAN /\ p.ok \in BOOLEAN
         /\ p.cel \in Number \cup {Error}
         /\ p.dom \in Domain \cup {None}
         /\ p.num \in Number \cup {None}
         /\ DOMAIN p.lean \subseteq Domain
         /\ \A d \in DOMAIN p.lean : p.lean[d] \in Number
<1>1. p.lean \in UNION {[D -> Number] : D \in SUBSET Domain}
  BY DEF Piece
<1>2. DOMAIN p.lean \subseteq Domain /\ \A d \in DOMAIN p.lean : p.lean[d] \in Number
  BY <1>1
<1> QED
  BY <1>2 DEF Piece

LEMMA MakePiece ==
  ASSUME NEW u \in BOOLEAN, NEW cel \in Number \cup {Error}, NEW trapped \in BOOLEAN,
         NEW dom \in Domain \cup {None}, NEW num \in Number \cup {None},
         NEW D \in SUBSET Domain, NEW lean \in [D -> Number], NEW ok \in BOOLEAN
  PROVE  [unsigned |-> u, cel |-> cel, trapped |-> trapped, dom |-> dom, num |-> num,
          lean |-> lean, ok |-> ok] \in Piece
<1>1. lean \in UNION {[E -> Number] : E \in SUBSET Domain}
  OBVIOUS
<1> QED
  BY <1>1 DEF Piece

LEMMA LeafInv ==
  ASSUME NEW p \in Leaves
  PROVE  PieceInv(p)
<1>1. ASSUME NEW d \in Domain, NEW v \in ValuesOf(d), p = FieldPiece(d, v)
      PROVE  PieceInv(p)
  <2>1. v \in Number /\ d.unsigned \in BOOLEAN /\ v # Error /\ d # None
    BY NumberFacts, DomainFacts, MarkAssumption
  <2>2. [e \in {d} |-> v] \in [{d} -> Number] /\ {d} \in SUBSET Domain
    BY <2>1
  <2>3. p \in Piece
    BY <1>1, <2>1, <2>2, MakePiece DEF FieldPiece
  <2>4. /\ p.unsigned = d.unsigned /\ p.cel = v /\ p.trapped = FALSE /\ p.dom = d
        /\ p.num = None /\ p.lean = [e \in {d} |-> v] /\ p.ok = TRUE
    BY <1>1 DEF FieldPiece
  <2> QED
    BY <2>1, <2>3, <2>4 DEF PieceInv
<1>2. ASSUME NEW u \in BOOLEAN, NEW v \in ValuesOf(CelDom(u)), p = LiteralPiece(u, v)
      PROVE  PieceInv(p)
  <2>1. CelDom(u) \in Domain
    BY CelDomIsDomain
  <2>2. v \in Number /\ v \in Int /\ v # Error /\ v # None /\ InRange(CelDom(u), v)
    BY <2>1, NumberFacts
  <2> DEFINE lean == [d \in Domain |-> Wrap(d, v)]
  <2>3. lean \in [Domain -> Number]
    BY <2>2, WrapFacts, NumberFacts
  <2>4. /\ p.unsigned = u /\ p.cel = v /\ p.trapped = FALSE /\ p.dom = None
        /\ p.num = v /\ p.lean = lean /\ p.ok = TRUE
    BY <1>2 DEF LiteralPiece
  <2>5. p \in Piece
    <3> HIDE DEF lean
    <3>1. p = [unsigned |-> u, cel |-> v, trapped |-> FALSE, dom |-> None, num |-> v,
               lean |-> lean, ok |-> TRUE]
      BY <1>2 DEF LiteralPiece, lean
    <3> QED
      BY <2>2, <2>3, <3>1, MakePiece
  <2>6. lean[CelDom(u)] = v
    BY <2>1, <2>2, WrapKeeps
  <2> QED
    BY <2>2, <2>4, <2>5, <2>6 DEF PieceInv
<1>3. \/ \E d \in Domain : \E v \in ValuesOf(d) : p = FieldPiece(d, v)
      \/ \E u \in BOOLEAN : \E v \in ValuesOf(CelDom(u)) : p = LiteralPiece(u, v)
  <2>1. CASE p \in UNION {{FieldPiece(d, v) : v \in ValuesOf(d)} : d \in Domain}
    BY <2>1
  <2>2. CASE p \in UNION {{LiteralPiece(u, v) : v \in ValuesOf(CelDom(u))} : u \in BOOLEAN}
    <3> DEFINE L(u) == {LiteralPiece(u, v) : v \in ValuesOf(CelDom(u))}
    <3>1. \E u \in BOOLEAN : p \in L(u)
      <4> HIDE DEF L
      <4>1. p \in UNION {L(u) : u \in BOOLEAN}
        BY <2>2 DEF L
      <4> QED
        BY <4>1, Zenon
    <3> QED
      BY <3>1, Zenon
  <2> QED
    BY <2>1, <2>2, Zenon DEF Leaves
<1> QED
  BY <1>1, <1>2, <1>3

\* widen changes where a field's text elaborates, and nothing else.
LEMMA WidenInv ==
  ASSUME NEW p, PieceInv(p)
  PROVE  LET w == widen(p)
         IN  /\ PieceInv(w)
             /\ w.unsigned = p.unsigned /\ w.cel = p.cel /\ w.trapped = p.trapped
             /\ w.num = p.num /\ w.ok = p.ok
             /\ p.dom = None => w = p
             /\ p.dom # None => w.dom = CelDom(p.unsigned) /\ w.lean[w.dom] = p.lean[p.dom]
<1> DEFINE w == widen(p)
           e == CelDom(p.unsigned)
<1>1. /\ p \in Piece /\ p.unsigned \in BOOLEAN /\ p.trapped \in BOOLEAN /\ p.ok \in BOOLEAN
      /\ p.cel \in Number \cup {Error} /\ p.dom \in Domain \cup {None}
      /\ p.num \in Number \cup {None}
      /\ \A d \in DOMAIN p.lean : p.lean[d] \in Number
  BY PieceFacts DEF PieceInv
<1>2. e \in Domain /\ e # None
  BY <1>1, CelDomIsDomain, MarkAssumption
<1>3. CASE p.dom = None
  <2>1. w = p
    BY <1>3 DEF widen
  <2> HIDE DEF w
  <2> QED
    BY <1>3, <2>1 DEF w
<1>4. CASE p.dom # None /\ p.dom.bits = Wide
  <2>1. w = p
    BY <1>4 DEF widen
  <2>2. p.dom = e
    BY <1>1, <1>4 DEF PieceInv, Domain, CelDom
  <2> QED
    BY <1>4, <2>1, <2>2
<1>5. CASE p.dom # None /\ p.dom.bits # Wide
  <2> DEFINE x == p.lean[p.dom]
             lean == [d \in {e} |-> x]
  <2>1. p.dom.unsigned = p.unsigned /\ DOMAIN p.lean = {p.dom} /\ p.num = None
    BY <1>5 DEF PieceInv
  <2>2. x \in Number
    BY <1>1, <2>1
  <2>3. w = [p EXCEPT !.dom = e, !.lean = lean]
    BY <1>5, <2>1 DEF widen
  <2> HIDE DEF w, e
  <2>4. lean \in [{e} -> Number] /\ DOMAIN lean = {e} /\ lean[e] = x
    BY <2>2
  <2> HIDE DEF lean
  <2>5. /\ w.unsigned = p.unsigned /\ w.cel = p.cel /\ w.trapped = p.trapped
        /\ w.num = p.num /\ w.ok = p.ok /\ w.dom = e /\ w.lean = lean
    BY <1>1, <2>3 DEF Piece
  <2>6. w = [unsigned |-> p.unsigned, cel |-> p.cel, trapped |-> p.trapped,
             dom |-> e, num |-> p.num, lean |-> lean, ok |-> p.ok]
    BY <1>1, <2>3 DEF Piece
  <2>7. w \in Piece
    BY <1>1, <1>2, <2>4, <2>6, MakePiece
  <2>8. e.unsigned = p.unsigned
    BY <1>1, CelDomIsDomain DEF e
  <2>9. ~w.trapped /\ w.ok => x = p.cel
    BY <1>5, <2>5 DEF PieceInv
  <2>10. ~w.trapped => (w.ok <=> w.cel # Error)
    BY <2>5 DEF PieceInv
  <2>11. PieceInv(w)
    BY <1>2, <2>1, <2>4, <2>5, <2>7, <2>8, <2>9, <2>10 DEF PieceInv
  <2> QED
    BY <1>5, <2>4, <2>5, <2>11 DEF w, e
<1> QED
  BY <1>3, <1>4, <1>5

\* A piece of the CEL type denotes the CEL value at CEL's width.
LEMMA WideText ==
  ASSUME NEW p, PieceInv(p), NEW u \in BOOLEAN, p.unsigned = u, p.dom \in {None, CelDom(u)}
  PROVE  /\ CelDom(u) \in DOMAIN p.lean
         /\ p.lean[CelDom(u)] \in Number
         /\ ~p.trapped /\ p.ok => p.lean[CelDom(u)] = p.cel
<1>1. p \in Piece /\ CelDom(u) \in Domain
  BY CelDomIsDomain DEF PieceInv
<1>2. \A d \in DOMAIN p.lean : p.lean[d] \in Number
  BY <1>1, PieceFacts
<1>3. CelDom(u) \in DOMAIN p.lean
  BY <1>1 DEF PieceInv
<1>4. ~p.trapped /\ p.ok => p.lean[CelDom(u)] = p.cel
  BY <1>1, MarkAssumption DEF PieceInv
<1> QED
  BY <1>2, <1>3, <1>4

\* The CEL value of an operation.
LEMMA CelOpFacts ==
  ASSUME NEW op \in Ops, NEW u \in BOOLEAN, NEW x \in Number \cup {Error},
         NEW y \in Number \cup {Error}
  PROVE  /\ CelOp(op, u, x, y) \in Number \cup {Error}
         /\ x = Error \/ y = Error => CelOp(op, u, x, y) = Error
         /\ x # Error /\ y # Error =>
              /\ x \in Int /\ y \in Int /\ Exactly(op, x, y) \in Int
              /\ CelOp(op, u, x, y) = Error <=> CelErrs(op, u, x, y)
              /\ ~CelErrs(op, u, x, y) =>
                   /\ CelOp(op, u, x, y) = Exactly(op, x, y)
                   /\ InRange(CelDom(u), Exactly(op, x, y))
              /\ op \in Guarded =>
                   (CelErrs(op, u, x, y) <=> ~InRange(CelDom(u), Exactly(op, x, y)))
<1>1. CASE x = Error \/ y = Error
  BY <1>1 DEF CelOp
<1>2. CASE x # Error /\ y # Error
  <2>1. x \in Int /\ y \in Int /\ Exactly(op, x, y) \in Int
    BY <1>2, NumberFacts, ExactlyType
  <2> DEFINE z == Exactly(op, x, y)
  <2>2. z # Error
    BY <2>1, MarkAssumption
  <2>3. CelOp(op, u, x, y) = (IF CelErrs(op, u, x, y) THEN Error ELSE z)
    BY <1>2 DEF CelOp
  <2>4. ~CelErrs(op, u, x, y) => InRange(CelDom(u), z)
    BY DEF CelErrs
  <2>5. op \in Guarded => (CelErrs(op, u, x, y) <=> ~InRange(CelDom(u), z))
    BY DEF CelErrs, Guarded
  <2>6. InRange(CelDom(u), z) => z \in Number
    BY <2>1, NumberFacts, CelDomIsDomain
  <2> HIDE DEF z
  <2>7. CelOp(op, u, x, y) \in Number \cup {Error}
    BY <2>3, <2>4, <2>6
  <2> QED
    BY <1>2, <2>1, <2>2, <2>3, <2>4, <2>5, <2>7 DEF z
<1> QED
  BY <1>1, <1>2

\* What arith makes of two pieces of a CEL type, at CEL's width.
LEMMA ComputedInv ==
  ASSUME NEW l, PieceInv(l), NEW r, PieceInv(r), NEW op \in Ops, NEW u \in BOOLEAN,
         l.unsigned = u, r.unsigned = u,
         l.dom \in {None, CelDom(u)}, r.dom \in {None, CelDom(u)},
         Anchored(op, l, r), Folds(op, l, r) => FoldOk(op, u, l.num, r.num)
  PROVE  PieceInv(Computed(op, l, r))
<1> DEFINE c == Computed(op, l, r)
           e == CelDom(u)
           D == Shared(l, r)
           lean == [d \in D |-> Wrap(d, Exactly(op, l.lean[d], r.lean[d]))]
           cel == CelOp(op, u, l.cel, r.cel)
           num == IF Folds(op, l, r) THEN Exactly(op, l.num, r.num) ELSE None
           trapped == \/ l.trapped
                      \/ r.trapped
                      \/ /\ op \in {"/", "%"} /\ Error \notin {l.cel, r.cel}
                         /\ CelErrs(op, u, l.cel, r.cel)
           ok == l.ok /\ r.ok /\ (op \in Guarded /\ ~Folds(op, l, r) => ArithOk(op, l, r))
           dom == arithDom(l, r)
<1>1. e \in Domain /\ e # None /\ e.unsigned = u
  BY CelDomIsDomain, MarkAssumption
<1>2. /\ l \in Piece /\ l.cel \in Number \cup {Error} /\ l.num \in Number \cup {None}
      /\ l.trapped \in BOOLEAN /\ l.ok \in BOOLEAN
      /\ DOMAIN l.lean \subseteq Domain /\ \A d \in DOMAIN l.lean : l.lean[d] \in Number
  BY PieceFacts DEF PieceInv
<1>3. /\ r \in Piece /\ r.cel \in Number \cup {Error} /\ r.num \in Number \cup {None}
      /\ r.trapped \in BOOLEAN /\ r.ok \in BOOLEAN
      /\ DOMAIN r.lean \subseteq Domain /\ \A d \in DOMAIN r.lean : r.lean[d] \in Number
  BY PieceFacts DEF PieceInv
<1>4. /\ c.unsigned = u /\ c.cel = cel /\ c.trapped = trapped /\ c.dom = dom
      /\ c.num = num /\ c.lean = lean /\ c.ok = ok
      /\ c = [unsigned |-> u, cel |-> cel, trapped |-> trapped, dom |-> dom,
              num |-> num, lean |-> lean, ok |-> ok]
  BY DEF Computed
<1>5. /\ e \in DOMAIN l.lean /\ (~l.trapped /\ l.ok => l.lean[e] = l.cel)
      /\ e \in DOMAIN r.lean /\ (~r.trapped /\ r.ok => r.lean[e] = r.cel)
  BY WideText
<1>6. D \subseteq Domain /\ e \in D
  BY <1>2, <1>5 DEF Shared
<1>7. \A d \in D : /\ Exactly(op, l.lean[d], r.lean[d]) \in Int
                   /\ lean[d] \in Number
  <2> TAKE d \in D
  <2>1. l.lean[d] \in Int /\ r.lean[d] \in Int
    BY <1>2, <1>3, NumberFacts DEF Shared
  <2>2. Exactly(op, l.lean[d], r.lean[d]) \in Int
    BY <2>1, ExactlyType
  <2> QED
    BY <1>6, <2>2, WrapFacts, NumberFacts
<1>8. dom \in {None, e} /\ (dom = None <=> l.dom = None /\ r.dom = None)
  BY <1>1 DEF arithDom
<1>9. Folds(op, l, r) =>
        /\ op \in Guarded /\ l.num \in ValuesOf(e) /\ r.num \in ValuesOf(e)
        /\ l.dom = None /\ r.dom = None /\ l.cel = l.num /\ r.cel = r.num
        /\ ~l.trapped /\ ~r.trapped /\ l.ok /\ r.ok
        /\ num \in Int /\ InRange(e, num) /\ num # None /\ cel = num
        /\ ~trapped /\ \A d \in Domain : lean[d] = Wrap(d, num)
  <2> HAVE Folds(op, l, r)
  <2>1. /\ op \in Guarded /\ l.num # None /\ r.num # None /\ FoldOk(op, u, l.num, r.num)
        /\ num = Exactly(op, l.num, r.num)
    BY DEF Folds
  <2>2. /\ l.num \in ValuesOf(e) /\ r.num \in ValuesOf(e)
        /\ l.dom = None /\ r.dom = None /\ l.cel = l.num /\ r.cel = r.num
        /\ ~l.trapped /\ ~r.trapped /\ l.ok /\ r.ok
        /\ DOMAIN l.lean = Domain /\ DOMAIN r.lean = Domain
        /\ \A d \in Domain : l.lean[d] = Wrap(d, l.num) /\ r.lean[d] = Wrap(d, r.num)
    BY <2>1 DEF PieceInv
  <2>3. l.num \in Int /\ r.num \in Int /\ l.num # Error /\ r.num # Error
    BY <1>1, <2>2, NumberFacts
  <2>4. num \in Int /\ num # None
    BY <2>1, <2>3, ExactlyType, MarkAssumption
  <2>5. InRange(e, num)
    BY <2>1, <2>2, FoldIsExact
  <2>6. cel = num
    <3>1. ~CelErrs(op, u, l.cel, r.cel)
      BY <1>2, <1>3, <2>1, <2>2, <2>3, <2>5, CelOpFacts
    <3> QED
      BY <1>2, <1>3, <2>1, <2>2, <2>3, <3>1, CelOpFacts
  <2>7. ~trapped
    BY <2>1, <2>2 DEF Guarded
  <2>8. ASSUME NEW d \in Domain
        PROVE  lean[d] = Wrap(d, num)
    <3>1. D = Domain
      BY <2>2 DEF Shared
    <3>2. lean[d] = Wrap(d, Exactly(op, Wrap(d, l.num), Wrap(d, r.num)))
      BY <2>2, <3>1
    <3>3. CASE op = "+"
      BY <2>1, <2>3, <3>2, <3>3, WrapCongruence DEF Exactly
    <3>4. CASE op = "-"
      BY <2>1, <2>3, <3>2, <3>4, WrapCongruence DEF Exactly
    <3>5. CASE op = "*"
      BY <2>1, <2>3, <3>2, <3>5, WrapCongruence DEF Exactly
    <3> QED
      BY <2>1, <3>3, <3>4, <3>5 DEF Guarded
  <2> QED
    BY <2>1, <2>2, <2>4, <2>5, <2>6, <2>7, <2>8
<1>10. l.dom = None /\ r.dom = None => op \notin Guarded \/ Folds(op, l, r)
  BY DEF Anchored, IsQuotient, Folds
<1> HIDE DEF c, lean, num, dom
<1>11. cel \in Number \cup {Error} /\ trapped \in BOOLEAN /\ ok \in BOOLEAN
  BY <1>2, <1>3, CelOpFacts
<1>12. lean \in [D -> Number] /\ DOMAIN lean = D
  BY <1>7 DEF lean
<1>13. num \in Number \cup {None}
  <2>1. CASE Folds(op, l, r)
    BY <1>1, <1>9, <2>1, NumberFacts
  <2>2. CASE ~Folds(op, l, r)
    BY <2>2 DEF num
  <2> QED
    BY <2>1, <2>2
<1>14. c \in Piece
  <2> HIDE DEF cel, trapped, ok, D, e
  <2>1. D \in SUBSET Domain /\ dom \in Domain \cup {None}
    BY <1>1, <1>6, <1>8
  <2>2. c = [unsigned |-> u, cel |-> cel, trapped |-> trapped, dom |-> dom,
             num |-> num, lean |-> lean, ok |-> ok]
    BY <1>4
  <2> QED
    BY <1>11, <1>12, <1>13, <2>1, <2>2, MakePiece
\* Without a trap, the values at CEL's width are the CEL values.
<1>15. ASSUME ~trapped
       PROVE  /\ ok <=> cel # Error
              /\ ok => lean[e] = cel
  <2>1. /\ ~l.trapped /\ ~r.trapped
        /\ op \in {"/", "%"} /\ Error \notin {l.cel, r.cel} => ~CelErrs(op, u, l.cel, r.cel)
    BY <1>15
  <2>2. /\ l.ok <=> l.cel # Error
        /\ r.ok <=> r.cel # Error
    BY <2>1 DEF PieceInv
  <2>3. CASE l.cel = Error \/ r.cel = Error
    BY <1>2, <1>3, <2>2, <2>3, CelOpFacts
  <2>4. CASE l.cel # Error /\ r.cel # Error
    <3> DEFINE z == Exactly(op, l.cel, r.cel)
    <3>1. /\ z \in Int
          /\ cel = Error <=> CelErrs(op, u, l.cel, r.cel)
          /\ ~CelErrs(op, u, l.cel, r.cel) => cel = z /\ InRange(e, z)
          /\ op \in Guarded => (CelErrs(op, u, l.cel, r.cel) <=> ~InRange(e, z))
      BY <1>2, <1>3, <2>4, CelOpFacts
    <3>2. l.ok /\ r.ok /\ l.lean[e] = l.cel /\ r.lean[e] = r.cel
      BY <1>5, <2>1, <2>2, <2>4
    <3>3. lean[e] = Wrap(e, z)
      BY <1>6, <3>2 DEF lean
    <3>4. ~CelErrs(op, u, l.cel, r.cel) => lean[e] = cel
      BY <1>1, <3>1, <3>3, WrapKeeps
    <3>5. ok <=> ~CelErrs(op, u, l.cel, r.cel)
      <4>1. CASE op \in Guarded /\ Folds(op, l, r)
        <5>1. ok /\ cel # Error
          BY <1>9, <4>1, MarkAssumption
        <5> QED
          BY <3>1, <5>1
      <4>2. CASE op \in Guarded /\ ~Folds(op, l, r)
        <5>1. l.dom # None \/ r.dom # None
          BY <1>10, <4>2
        <5>2. D = {e}
          BY <1>5, <5>1 DEF PieceInv, Shared
        <5>3. ArithOk(op, l, r) <=> InRange(e, z)
          BY <3>2, <5>2 DEF ArithOk
        <5> QED
          BY <3>1, <3>2, <4>2, <5>3
      <4>3. CASE op \notin Guarded
        <5>1. ok
          BY <3>2, <4>3
        <5>2. op \in {"/", "%"}
          BY <4>3 DEF Ops, Guarded
        <5> QED
          BY <2>1, <2>4, <5>1, <5>2
      <4> QED
        BY <4>1, <4>2, <4>3
    <3> QED
      BY <3>1, <3>4, <3>5
  <2> QED
    BY <2>3, <2>4
<1> HIDE DEF cel, trapped, ok
<1>16. ASSUME dom # None
       PROVE  dom = e /\ D = {e} /\ num = None
  <2>1. dom = e /\ (l.dom # None \/ r.dom # None)
    BY <1>8, <1>16
  <2>2. D = {e}
    BY <1>5, <2>1 DEF PieceInv, Shared
  <2>3. ~Folds(op, l, r)
    BY <1>9, <2>1
  <2> QED
    BY <2>1, <2>2, <2>3 DEF num
<1>17. ASSUME dom = None
       PROVE  D = Domain /\ ok
  <2>1. l.dom = None /\ r.dom = None
    BY <1>8, <1>17
  <2>2. DOMAIN l.lean = Domain /\ DOMAIN r.lean = Domain /\ l.ok /\ r.ok
    BY <2>1 DEF PieceInv
  <2> QED
    BY <1>10, <2>1, <2>2 DEF Shared, ok
<1>18. ASSUME num # None
       PROVE  /\ num \in ValuesOf(e) /\ cel = num /\ ~trapped
              /\ \A d \in Domain : lean[d] = Wrap(d, num)
  <2>1. Folds(op, l, r)
    BY <1>18 DEF num
  <2> QED
    BY <1>1, <1>9, <2>1, NumberFacts
<1>19. PieceInv(c)
  BY <1>1, <1>4, <1>12, <1>14, <1>15, <1>16, <1>17, <1>18 DEF PieceInv
<1> QED
  BY <1>19 DEF c

LEMMA NegatedInv ==
  ASSUME NEW p, PieceInv(p), NEW u \in BOOLEAN, p.unsigned = u, ~u,
         p.dom \in {None, CelDom(u)}, ~IsQuotient(p), p.num # MinInt(CelDom(u))
  PROVE  PieceInv(Negated(p))
<1> DEFINE n == Negated(p)
           e == CelDom(u)
           D == DOMAIN p.lean
           lean == [d \in D |-> Wrap(d, -p.lean[d])]
           cel == CelOp("-", u, 0, p.cel)
           num == IF p.num = None THEN None ELSE -p.num
           ok == p.ok /\ (p.num = None => \A d \in D : InRange(d, -p.lean[d]))
<1>1. e \in Domain /\ e # None /\ e.unsigned = u
  BY CelDomIsDomain, MarkAssumption
<1>2. /\ p \in Piece /\ p.cel \in Number \cup {Error} /\ p.num \in Number \cup {None}
      /\ p.trapped \in BOOLEAN /\ p.ok \in BOOLEAN
      /\ D \subseteq Domain /\ \A d \in D : p.lean[d] \in Number
  BY PieceFacts DEF PieceInv
<1>3. /\ n.unsigned = u /\ n.cel = cel /\ n.trapped = p.trapped /\ n.dom = p.dom
      /\ n.num = num /\ n.lean = lean /\ n.ok = ok
      /\ n = [unsigned |-> u, cel |-> cel, trapped |-> p.trapped, dom |-> p.dom,
              num |-> num, lean |-> lean, ok |-> ok]
  <2>1. n = [p EXCEPT !.cel = cel, !.num = num, !.lean = lean, !.ok = ok]
    BY DEF Negated
  <2> HIDE DEF n, cel, num, lean, ok
  <2> QED
    BY <1>2, <2>1 DEF Piece
<1>4. e \in D /\ (~p.trapped /\ p.ok => p.lean[e] = p.cel)
  BY WideText
<1>5. \A d \in D : -p.lean[d] \in Int /\ lean[d] \in Number
  <2> TAKE d \in D
  <2>1. p.lean[d] \in Int /\ d \in Domain
    BY <1>2, NumberFacts
  <2>2. -p.lean[d] \in Int
    BY <2>1
  <2>3. Wrap(d, -p.lean[d]) \in Number
    BY <2>1, <2>2, WrapFacts, NumberFacts
  <2> QED
    BY <2>2, <2>3
<1>6. /\ cel \in Number \cup {Error}
      /\ p.cel = Error => cel = Error
      /\ p.cel # Error => /\ p.cel \in Int
                          /\ cel = Error <=> ~InRange(e, -p.cel)
                          /\ InRange(e, -p.cel) => cel = -p.cel
  <2>1. 0 \in Number /\ 0 # Error
    <3> DEFINE H == Half(CelDom(FALSE))
    <3>1. H \in Nat \ {0} /\ MinInt(e) = -H /\ MaxInt(e) = H - 1
      BY CelDomFacts
    <3> HIDE DEF H
    <3>2. 0 \in ValuesOf(e)
      BY <3>1 DEF ValuesOf
    <3> QED
      BY <1>1, <3>2, NumberFacts
  <2>2. "-" \in Ops /\ "-" \in Guarded
    BY DEF Ops, Guarded
  <2>3. Exactly("-", 0, p.cel) = 0 - p.cel
    BY DEF Exactly
  <2>5. /\ cel \in Number \cup {Error}
        /\ p.cel = Error => cel = Error
        /\ p.cel # Error =>
             /\ cel = Error <=> CelErrs("-", u, 0, p.cel)
             /\ ~CelErrs("-", u, 0, p.cel) => cel = 0 - p.cel
             /\ CelErrs("-", u, 0, p.cel) <=> ~InRange(e, 0 - p.cel)
    BY <1>2, <2>1, <2>2, <2>3, CelOpFacts
  <2> HIDE DEF cel, e
  <2>4. p.cel # Error => p.cel \in Int /\ 0 - p.cel = -p.cel
    <3>1. p.cel # Error => p.cel \in Int
      BY <1>2, NumberFacts
    <3>2. \A x \in Int : 0 - x = -x
      OBVIOUS
    <3> QED
      BY <3>1, <3>2
  <2> QED
    BY <2>4, <2>5
<1>7. ASSUME p.num # None
      PROVE  /\ p.dom = None /\ p.ok /\ ~p.trapped /\ D = Domain
             /\ num \in Int /\ num # None /\ InRange(e, num) /\ cel = num
             /\ \A d \in Domain : lean[d] = Wrap(d, num)
  <2>1. /\ p.dom = None /\ p.ok /\ ~p.trapped /\ D = Domain /\ p.cel = p.num
        /\ p.num \in ValuesOf(e) /\ \A d \in Domain : p.lean[d] = Wrap(d, p.num)
    BY <1>7 DEF PieceInv
  <2>2. p.num \in Int /\ num = -p.num /\ num \in Int /\ num # None /\ p.num # Error
    <3>1. p.num \in Int
      BY <1>1, <2>1, NumberFacts
    <3>2. num = -p.num
      BY <1>7
    <3>3. -p.num \in Int
      BY <3>1
    <3> HIDE DEF num
    <3> QED
      BY <3>1, <3>2, <3>3, MarkAssumption
  <2>3. InRange(e, num)
    <3> DEFINE H == Half(CelDom(FALSE))
    <3>1. H \in Nat \ {0} /\ MinInt(e) = -H /\ MaxInt(e) = H - 1
      BY CelDomFacts
    <3>2. p.num \in (-H) .. (H - 1) /\ p.num # -H
      BY <2>1, <3>1 DEF ValuesOf
    <3> HIDE DEF H, num
    <3>3. -H <= num /\ num <= H - 1
      BY <2>2, <3>1, <3>2
    <3> QED
      BY <3>1, <3>3 DEF InRange
  <2>4. ASSUME NEW d \in Domain
        PROVE  lean[d] = Wrap(d, num)
    <3>1. lean[d] = Wrap(d, -Wrap(d, p.num))
      BY <2>1
    <3>2. Wrap(d, -Wrap(d, p.num)) = Wrap(d, -p.num)
      BY <2>2, WrapCongruence
    <3> QED
      BY <2>2, <3>1, <3>2
  <2> QED
    BY <1>6, <2>1, <2>2, <2>3, <2>4
<1> HIDE DEF n, lean, num, cel
<1>8. lean \in [D -> Number] /\ DOMAIN lean = D
  BY <1>5 DEF lean
<1>9. ok \in BOOLEAN
  BY <1>2
<1>10. num \in Number \cup {None}
  <2>1. CASE p.num = None
    BY <2>1 DEF num
  <2>2. CASE p.num # None
    BY <1>1, <1>7, <2>2, NumberFacts
  <2> QED
    BY <2>1, <2>2
<1>11. n \in Piece
  <2>1. p.dom \in Domain \cup {None} /\ D \in SUBSET Domain /\ p.trapped \in BOOLEAN
    BY <1>2, PieceFacts
  <2>2. /\ n = [unsigned |-> u, cel |-> cel, trapped |-> p.trapped, dom |-> p.dom,
                num |-> num, lean |-> lean, ok |-> ok]
        /\ cel \in Number \cup {Error}
    BY <1>3, <1>6
  <2> HIDE DEF ok, D, e
  <2> QED
    BY <1>8, <1>9, <1>10, <2>1, <2>2, MakePiece
<1>12. ASSUME ~p.trapped
       PROVE  (ok <=> cel # Error) /\ (ok => lean[e] = cel)
  <2>1. p.ok <=> p.cel # Error
    BY <1>12 DEF PieceInv
  <2>2. CASE p.cel = Error
    BY <1>6, <2>1, <2>2
  <2>3. CASE p.cel # Error
    <3>1. p.ok /\ p.lean[e] = p.cel /\ lean[e] = Wrap(e, -p.cel) /\ -p.cel \in Int
      BY <1>4, <1>6, <1>12, <2>1, <2>3 DEF lean
    <3>2. InRange(e, -p.cel) => lean[e] = cel
      BY <1>1, <1>6, <2>3, <3>1, WrapKeeps
    <3>3. ok <=> InRange(e, -p.cel)
      <4>1. CASE p.num = None
        <5>1. D = {e}
          BY <4>1 DEF IsQuotient, PieceInv
        <5> QED
          BY <3>1, <4>1, <5>1
      <4>2. CASE p.num # None
        <5>1. cel # Error
          BY <1>7, <4>2, MarkAssumption
        <5> QED
          BY <1>6, <2>3, <3>1, <4>2, <5>1
      <4> QED
        BY <4>1, <4>2
    <3> QED
      BY <1>6, <2>3, <3>2, <3>3
  <2> QED
    BY <2>2, <2>3
<1>13. p.dom # None => p.dom = e /\ D = {e} /\ num = None
  BY DEF PieceInv, num
<1>14. p.dom = None => D = Domain /\ ok
  BY DEF PieceInv, IsQuotient
<1>15. num # None => /\ num \in ValuesOf(e) /\ cel = num /\ ~p.trapped
                     /\ \A d \in Domain : lean[d] = Wrap(d, num)
  BY <1>1, <1>7, NumberFacts DEF num
<1> HIDE DEF ok
<1>16. PieceInv(n)
  BY <1>1, <1>3, <1>8, <1>11, <1>12, <1>13, <1>14, <1>15 DEF PieceInv
<1> QED
  BY <1>16 DEF n

-----------------------------------------------------------------------------
(* The inductive invariant.                                                *)

Good(s) ==
  /\ s \in Seq(Piece) /\ Len(s) \in {1, 2}
  /\ \A i \in 1 .. Len(s) : PieceInv(s[i])

Kinds == {"open", "literal", "folding", "proposition"}

IInv ==
  /\ Good(operands)
  /\ outcome.kind \in Kinds
  /\ ComparisonIsExact
  /\ RejectedFoldsErr

LEMMA GoodOne ==
  ASSUME NEW p, PieceInv(p)
  PROVE  Good(<<p>>)
<1>1. p \in Piece
  BY DEF PieceInv
<1>2. <<p>> \in Seq(Piece) /\ Len(<<p>>) = 1 /\ \A i \in 1 .. 1 : <<p>>[i] = p
  BY <1>1
<1> QED
  BY <1>2 DEF Good

LEMMA GoodTwo ==
  ASSUME NEW p, PieceInv(p), NEW q, PieceInv(q)
  PROVE  Good(<<p, q>>)
<1>1. p \in Piece /\ q \in Piece
  BY DEF PieceInv
<1>2. /\ <<p, q>> \in Seq(Piece) /\ Len(<<p, q>>) = 2
      /\ <<p, q>>[1] = p /\ <<p, q>>[2] = q /\ \A i \in 1 .. 2 : i = 1 \/ i = 2
  BY <1>1
<1> QED
  BY <1>2 DEF Good

\* The operands are one piece or two.
LEMMA GoodFacts ==
  ASSUME Good(operands)
  PROVE  /\ operands \in Seq(Piece) /\ DOMAIN operands = 1 .. Len(operands)
         /\ 1 \in DOMAIN operands /\ PieceInv(operands[1])
         /\ Len(operands) = 1 => operands = <<operands[1]>> /\ DOMAIN operands = {1}
         /\ Len(operands) = 2 => PieceInv(operands[2]) /\ DOMAIN operands = {1, 2}
         /\ \A p \in Pieces : PieceInv(p)
<1>1. operands \in Seq(Piece) /\ Len(operands) \in {1, 2}
  BY DEF Good
<1>2. DOMAIN operands = 1 .. Len(operands)
  BY <1>1
<1>3. 1 .. 1 = {1} /\ 1 .. 2 = {1, 2}
  OBVIOUS
<1>4. Len(operands) = 1 => operands = <<operands[1]>>
  BY <1>1
<1>5. \A i \in DOMAIN operands : PieceInv(operands[i])
  BY <1>2 DEF Good
<1> QED
  BY <1>1, <1>2, <1>3, <1>4, <1>5 DEF Pieces

\* A step that leaves the translation open keeps the invariant if it leaves
\* good operands.
LEMMA OpenKeepsInv ==
  ASSUME IInv, outcome = Open, outcome' = outcome, Good(operands')
  PROVE  IInv'
<1>1. outcome'.kind = "open"
  BY DEF Open
<1>2. Good(operands)'
  BY DEF Good
<1> QED
  BY <1>1, <1>2 DEF IInv, Kinds, ComparisonIsExact, RejectedFoldsErr

\* So does one that rejects, if CEL errs on what was folded.
LEMMA RejectKeepsInv ==
  ASSUME IInv, NEW kind \in {"literal", "folding"}, NEW cel, Reject(kind, cel),
         kind = "folding" => cel = Error
  PROVE  IInv'
<1>1. /\ outcome' = [kind |-> kind, cel |-> cel, lean |-> FALSE]
      /\ operands' = operands
  BY DEF Reject
<1>2. outcome'.kind = kind /\ outcome'.cel = cel
  BY <1>1
<1> QED
  BY <1>1, <1>2 DEF IInv, Good, Kinds, ComparisonIsExact, RejectedFoldsErr

LEMMA InitInv ==
  Init => IInv
<1> SUFFICES ASSUME Init PROVE IInv
  OBVIOUS
<1>1. PICK p \in Leaves : operands = <<p>>
  BY DEF Init
<1>2. Good(operands)
  BY <1>1, LeafInv, GoodOne
<1>3. outcome.kind = "open"
  BY DEF Init, Open
<1> QED
  BY <1>2, <1>3 DEF IInv, Kinds, ComparisonIsExact, RejectedFoldsErr

LEMMA OperandKeepsInv ==
  ASSUME IInv, NEW p \in Leaves, Operand(p)
  PROVE  IInv'
<1> DEFINE q == operands[1]
<1>1. /\ outcome = Open /\ Len(operands) = 1 /\ outcome' = outcome
      /\ operands' \in {Append(operands, p), <<p>> \o operands}
  BY DEF Operand
<1>2. operands = <<q>> /\ PieceInv(q) /\ PieceInv(p)
  BY <1>1, GoodFacts, LeafInv DEF IInv
<1> HIDE DEF q
<1>3. operands' \in {<<q, p>>, <<p, q>>}
  BY <1>1, <1>2
<1>4. Good(operands')
  BY <1>2, <1>3, GoodTwo
<1> QED
  BY <1>1, <1>4, OpenKeepsInv

LEMMA ArithKeepsInv ==
  ASSUME IInv, NEW op \in Ops, Arith(op)
  PROVE  IInv'
<1> DEFINE a == operands[1]
           b == operands[2]
           l == widen(a)
           r == widen(b)
           u == a.unsigned
<1>1. /\ outcome = Open /\ Len(operands) = 2 /\ a.unsigned = b.unsigned /\ Anchored(op, a, b)
      /\ IF ~checkLiterals(l, r) THEN Reject("literal", Error)
         ELSE IF Folds(op, l, r) /\ ~FoldOk(op, l.unsigned, l.num, r.num)
         THEN Reject("folding", CelOp(op, l.unsigned, l.cel, r.cel))
         ELSE operands' = <<Computed(op, l, r)>> /\ UNCHANGED outcome
  BY DEF Arith
<1>2. PieceInv(a) /\ PieceInv(b)
  BY <1>1, GoodFacts DEF IInv
<1> HIDE DEF a, b
<1>3. u \in BOOLEAN
  BY <1>2, PieceFacts DEF PieceInv
<1>4. /\ PieceInv(l) /\ l.unsigned = u /\ l.dom \in {None, CelDom(u)}
      /\ l.num = a.num /\ (a.dom = None <=> l.dom = None)
  BY <1>2, <1>3, WidenInv, CelDomIsDomain, MarkAssumption
<1>5. /\ PieceInv(r) /\ r.unsigned = u /\ r.dom \in {None, CelDom(u)}
      /\ r.num = b.num /\ (b.dom = None <=> r.dom = None)
  BY <1>1, <1>2, <1>3, WidenInv, CelDomIsDomain, MarkAssumption
<1> HIDE DEF l, r, u
<1>6. Anchored(op, l, r)
  BY <1>1, <1>4, <1>5 DEF Anchored, IsQuotient
<1>7. CASE Reject("literal", Error)
  BY <1>7, RejectKeepsInv
<1>8. CASE /\ Folds(op, l, r) /\ ~FoldOk(op, l.unsigned, l.num, r.num)
           /\ Reject("folding", CelOp(op, l.unsigned, l.cel, r.cel))
  <2>1. /\ op \in Guarded /\ l.num \in ValuesOf(CelDom(u)) /\ r.num \in ValuesOf(CelDom(u))
        /\ l.cel = l.num /\ r.cel = r.num
    BY <1>4, <1>5, <1>8 DEF Folds, PieceInv
  <2>2. l.cel \in Number /\ r.cel \in Number /\ l.cel # Error /\ r.cel # Error
    BY <1>3, <2>1, CelDomIsDomain, NumberFacts
  <2>3. ~InRange(CelDom(u), Exactly(op, l.num, r.num))
    BY <1>3, <1>4, <1>8, <2>1, FoldIsExact
  <2>4. CelOp(op, u, l.cel, r.cel) = Error
    BY <1>3, <2>1, <2>2, <2>3, CelOpFacts
  <2> QED
    BY <1>4, <1>8, <2>4, RejectKeepsInv
<1>9. CASE /\ ~(Folds(op, l, r) /\ ~FoldOk(op, l.unsigned, l.num, r.num))
           /\ operands' = <<Computed(op, l, r)>> /\ UNCHANGED outcome
  <2>1. PieceInv(Computed(op, l, r))
    BY <1>3, <1>4, <1>5, <1>6, <1>9, ComputedInv
  <2> QED
    BY <1>1, <1>9, <2>1, GoodOne, OpenKeepsInv
<1> QED
  BY <1>1, <1>7, <1>8, <1>9

LEMMA NegateKeepsInv ==
  ASSUME IInv, Negate
  PROVE  IInv'
<1> DEFINE a == operands[1]
           p == widen(a)
           u == a.unsigned
<1>1. /\ outcome = Open /\ ~p.unsigned /\ ~IsQuotient(p)
      /\ IF p.num = MinInt(CelDom(p.unsigned))
         THEN Reject("folding", CelOp("-", p.unsigned, 0, p.cel))
         ELSE operands' = <<Negated(p)>> /\ UNCHANGED outcome
  BY DEF Negate
<1>2. PieceInv(a)
  BY GoodFacts DEF IInv
<1> HIDE DEF a
<1>3. u \in BOOLEAN
  BY <1>2, PieceFacts DEF PieceInv
<1>4. PieceInv(p) /\ p.unsigned = u /\ p.dom \in {None, CelDom(u)}
  BY <1>2, <1>3, WidenInv
<1> HIDE DEF p, u
<1>5. CASE p.num = MinInt(CelDom(u)) /\ Reject("folding", CelOp("-", u, 0, p.cel))
  <2> DEFINE H == Half(CelDom(FALSE))
             z == Exactly("-", 0, p.cel)
  <2>0. ~u
    BY <1>1, <1>4
  <2>1. /\ H \in Nat \ {0} /\ CelDom(u) \in Domain
        /\ MinInt(CelDom(u)) = -H /\ MaxInt(CelDom(u)) = H - 1
    BY <1>3, <2>0, CelDomFacts
  <2> HIDE DEF H
  <2>2. p.num # None
    BY <1>5, <2>1, MarkAssumption
  <2>3. p.cel = -H /\ p.cel \in Number /\ p.cel # Error
    <3>1. p.cel = p.num /\ p.num \in ValuesOf(CelDom(u))
      BY <1>4, <2>2 DEF PieceInv
    <3> QED
      BY <1>5, <2>1, <3>1, NumberFacts
  <2>4. z = H
    BY <2>1, <2>3 DEF Exactly
  <2>5. 0 \in Number /\ 0 # Error
    <3>1. 0 \in ValuesOf(CelDom(u))
      BY <2>1 DEF ValuesOf
    <3> QED
      BY <2>1, <3>1, NumberFacts
  <2>6. ~InRange(CelDom(u), z)
    BY <2>1, <2>4 DEF InRange
  <2>7. "-" \in Ops /\ "-" \in Guarded
    BY DEF Ops, Guarded
  <2>8. CelOp("-", u, 0, p.cel) = Error
    BY <1>3, <2>3, <2>5, <2>6, <2>7, CelOpFacts
  <2> QED
    BY <1>5, <2>8, RejectKeepsInv
<1>6. CASE p.num # MinInt(CelDom(u)) /\ operands' = <<Negated(p)>> /\ UNCHANGED outcome
  <2>1. PieceInv(Negated(p))
    BY <1>1, <1>3, <1>4, <1>6, NegatedInv
  <2> QED
    BY <1>1, <1>6, <2>1, GoodOne, OpenKeepsInv
<1> QED
  BY <1>1, <1>4, <1>5, <1>6

-----------------------------------------------------------------------------
(* Comparisons.                                                            *)

\* The text of a piece at the domain of the other operand.
LEMMA TextIsValue ==
  ASSUME NEW p, PieceInv(p), NEW d \in DOMAIN p.lean, ~p.trapped, p.ok,
         p.dom = None => accepts(d, p) /\ (p.num = None => d = CelDom(p.unsigned))
  PROVE  p.lean[d] = p.cel
<1>1. CASE p.dom # None
  BY <1>1 DEF PieceInv
<1>2. CASE p.dom = None /\ p.num = None
  BY <1>2 DEF PieceInv
<1>3. CASE p.dom = None /\ p.num # None
  <2>1. /\ d \in Domain /\ p.lean[d] = Wrap(d, p.num) /\ p.cel = p.num
        /\ p.num \in ValuesOf(CelDom(p.unsigned)) /\ p.unsigned \in BOOLEAN
    BY <1>3, PieceFacts DEF PieceInv
  <2>2. p.num \in Int
    BY <2>1, CelDomIsDomain, NumberFacts
  <2>3. InRange(d, p.num)
    BY <1>3 DEF accepts
  <2> QED
    BY <2>1, <2>2, <2>3, WrapKeeps
<1> QED
  BY <1>1, <1>2, <1>3

LEMMA UnifyInv ==
  ASSUME NEW p, PieceInv(p), NEW other
  PROVE  LET w == unifyWidth(p, other)
         IN  /\ PieceInv(w)
             /\ w.unsigned = p.unsigned /\ w.cel = p.cel /\ w.trapped = p.trapped
             /\ w.num = p.num /\ w.ok = p.ok
             /\ p.dom = None => w = p
             /\ other.dom = None => w = p
             /\ p.dom # None => w.dom # None
<1> DEFINE w == unifyWidth(p, other)
<1>1. CASE w = p
  <2> HIDE DEF w
  <2>1. /\ PieceInv(w)
        /\ w.unsigned = p.unsigned /\ w.cel = p.cel /\ w.trapped = p.trapped
        /\ w.num = p.num /\ w.ok = p.ok /\ (p.dom # None => w.dom # None)
    BY <1>1
  <2> QED
    BY <1>1, <2>1 DEF w
<1>2. CASE w = widen(p) /\ p.dom # None /\ other.dom # None
  <2>1. p.unsigned \in BOOLEAN
    BY PieceFacts DEF PieceInv
  <2>2. CelDom(p.unsigned) # None
    BY <2>1, CelDomIsDomain, MarkAssumption
  <2>3. /\ PieceInv(w)
        /\ w.unsigned = p.unsigned /\ w.cel = p.cel /\ w.trapped = p.trapped
        /\ w.num = p.num /\ w.ok = p.ok /\ w.dom # None
    <3> HIDE DEF w
    <3> QED
      BY <1>2, <2>2, WidenInv
  <2> HIDE DEF w
  <2>4. p.dom # None /\ other.dom # None
    BY <1>2
  <2> QED
    BY <2>3, <2>4 DEF w
<1> QED
  BY <1>1, <1>2 DEF unifyWidth

LEMMA CompareKeepsInv ==
  ASSUME IInv, NEW op \in {"<", "<=", "=", "#"}, Compare(op)
  PROVE  IInv'
<1> DEFINE a == operands[1]
           b == operands[2]
           l == unifyWidth(a, b)
           r == unifyWidth(b, a)
           D == Shared(l, r)
           cel == IF Error \in {l.cel, r.cel} THEN Error ELSE Holds(op, l.cel, r.cel)
           lean == /\ l.ok
                   /\ r.ok
                   /\ \A d \in D : Holds(op, l.lean[d], r.lean[d])
<1>1. /\ outcome = Open /\ Len(operands) = 2
      /\ l.dom # None \/ r.dom # None
      /\ D # {}
      /\ IF ~checkLiterals(a, b) THEN Reject("literal", Error)
         ELSE /\ outcome' = [kind |-> "proposition", cel |-> cel, lean |-> lean]
              /\ operands' = operands
  BY DEF Compare
<1>2. PieceInv(a) /\ PieceInv(b) /\ DOMAIN operands = {1, 2} /\ Pieces = {a, b}
  BY <1>1, GoodFacts DEF IInv, Pieces
<1>3. CASE Reject("literal", Error)
  BY <1>3, RejectKeepsInv
<1>4. CASE /\ checkLiterals(a, b)
           /\ outcome' = [kind |-> "proposition", cel |-> cel, lean |-> lean]
           /\ operands' = operands
  <2>1. /\ PieceInv(l) /\ l.unsigned = a.unsigned /\ l.cel = a.cel /\ l.trapped = a.trapped
        /\ l.num = a.num /\ l.ok = a.ok /\ (a.dom = None => l = a) /\ (b.dom = None => l = a)
        /\ (a.dom # None => l.dom # None)
    BY <1>2, UnifyInv
  <2>2. /\ PieceInv(r) /\ r.unsigned = b.unsigned /\ r.cel = b.cel /\ r.trapped = b.trapped
        /\ r.num = b.num /\ r.ok = b.ok /\ (b.dom = None => r = b) /\ (a.dom = None => r = b)
        /\ (b.dom # None => r.dom # None)
    BY <1>2, UnifyInv
  <2>3. outcome'.kind = "proposition" /\ outcome'.cel = cel /\ outcome'.lean = lean
    BY <1>4
  <2>4. Good(operands)' /\ RejectedFoldsErr' /\ outcome'.kind \in Kinds /\ Pieces' = Pieces
    BY <1>4, <2>3 DEF IInv, Good, RejectedFoldsErr, Kinds, Pieces
  <2>5. ASSUME ~Unchecked, ~a.trapped, ~b.trapped
        PROVE  lean <=> cel = TRUE
    <3>1. /\ ~IsQuotient(a) \/ b.dom = CelDom(a.unsigned)
          /\ ~IsQuotient(b) \/ a.dom = CelDom(b.unsigned)
      BY <1>2, <2>5 DEF Unchecked
    <3>2. /\ l.ok \in BOOLEAN /\ r.ok \in BOOLEAN
          /\ (l.ok <=> l.cel # Error) /\ (r.ok <=> r.cel # Error)
      BY <2>1, <2>2, <2>5, PieceFacts DEF PieceInv
    <3>3. ASSUME NEW d \in D, l.ok, r.ok
          PROVE  l.lean[d] = l.cel /\ r.lean[d] = r.cel
      <4>1. d \in DOMAIN l.lean /\ d \in DOMAIN r.lean
        BY DEF Shared
      <4>2. l.dom = None => a.dom = None /\ b.dom = d /\ l = a /\ r = b
        BY <1>1, <2>1, <2>2, <4>1 DEF PieceInv
      <4>3. r.dom = None => b.dom = None /\ a.dom = d /\ l = a /\ r = b
        BY <1>1, <2>1, <2>2, <4>1 DEF PieceInv
      <4>4. d # None
        BY <2>1, <4>1, PieceFacts, MarkAssumption DEF PieceInv
      <4>5. l.dom = None => accepts(d, l) /\ (l.num = None => d = CelDom(l.unsigned))
        BY <1>4, <3>1, <4>2, <4>4 DEF checkLiterals, IsQuotient
      <4>6. r.dom = None => accepts(d, r) /\ (r.num = None => d = CelDom(r.unsigned))
        BY <1>4, <3>1, <4>3, <4>4 DEF checkLiterals, IsQuotient
      <4> HIDE DEF l, r, D
      <4>7. l.lean[d] = l.cel
        BY <2>1, <2>5, <3>3, <4>1, <4>5, TextIsValue
      <4>8. r.lean[d] = r.cel
        BY <2>2, <2>5, <3>3, <4>1, <4>6, TextIsValue
      <4> QED
        BY <4>7, <4>8
    <3> HIDE DEF l, r, D
    <3>4. CASE l.cel = Error \/ r.cel = Error
      <4>1. ~lean
        BY <3>2, <3>4
      <4>2. cel = Error
        BY <3>4
      <4> HIDE DEF lean, cel
      <4> QED
        BY <4>1, <4>2, MarkAssumption
    <3>5. CASE l.cel # Error /\ r.cel # Error
      <4>1. l.ok /\ r.ok
        BY <3>2, <3>5
      <4>2. lean <=> Holds(op, l.cel, r.cel)
        BY <1>1, <3>3, <4>1
      <4>3. cel = Holds(op, l.cel, r.cel)
        BY <3>5
      <4>4. Holds(op, l.cel, r.cel) \in BOOLEAN
        <5>1. CASE op = "<"
          BY <5>1 DEF Holds
        <5>2. CASE op = "<="
          BY <5>2 DEF Holds
        <5>3. CASE op = "="
          BY <5>3 DEF Holds
        <5>4. CASE op = "#"
          BY <5>4 DEF Holds
        <5> QED
          BY <5>1, <5>2, <5>3, <5>4
      <4> HIDE DEF lean, cel
      <4> QED
        BY <4>2, <4>3, <4>4
    <3> QED
      BY <3>4, <3>5
  <2>6. ComparisonIsExact'
    <3>1. Unchecked' = Unchecked
      BY <1>4 DEF Unchecked
    <3>2. (\E p \in Pieces : p.trapped) <=> a.trapped \/ b.trapped
      BY <1>2
    <3> HIDE DEF a, b, l, r, lean, cel
    <3> QED
      BY <2>3, <2>4, <2>5, <3>1, <3>2 DEF ComparisonIsExact
  <2> QED
    BY <2>4, <2>6 DEF IInv
<1> QED
  BY <1>1, <1>3, <1>4

LEMMA Invariance ==
  Spec => []IInv
<1>1. IInv /\ [Next]_vars => IInv'
  <2> SUFFICES ASSUME IInv, [Next]_vars PROVE IInv'
    OBVIOUS
  <2>1. CASE \E p \in Leaves : Operand(p)
    BY <2>1, OperandKeepsInv
  <2>2. CASE \E op \in {"+", "-", "*", "/", "%"} : Arith(op)
    BY <2>2, ArithKeepsInv DEF Ops
  <2>3. CASE Negate
    BY <2>3, NegateKeepsInv
  <2>4. CASE \E op \in {"<", "<=", "=", "#"} : Compare(op)
    BY <2>4, CompareKeepsInv
  <2>5. CASE UNCHANGED vars
    BY <2>5 DEF vars, IInv, Good, ComparisonIsExact, RejectedFoldsErr, Pieces, Unchecked
  <2> QED
    BY <2>1, <2>2, <2>3, <2>4, <2>5 DEF Next
<1> QED
  BY <1>1, InitInv, PTL DEF Spec

-----------------------------------------------------------------------------
(* The theorems.                                                           *)

\* A value is always one of CEL's integers or an error, and a text elaborates
\* at domains of fields, at values of those domains.
THEOREM TypeCorrect ==
  Spec => []TypeOK
<1>1. IInv => TypeOK
  BY DEF IInv, Good, TypeOK, Kinds
<1> QED
  BY <1>1, Invariance, PTL

\* Division aside, the guards of a term hold exactly when CEL evaluates it
\* without overflow, and then its wrapped text is the CEL value: for 32 and 64
\* bits as for the small widths of the run, and for terms of every size.
THEOREM GuardsExact ==
  Spec => []GuardsAreExact
<1>1. ASSUME NEW p, PieceInv(p), ~p.trapped
      PROVE  /\ p.ok <=> p.cel # Error
             /\ p.ok => \A d \in Faithful(p) : p.lean[d] = p.cel
  <2>1. p.ok <=> p.cel # Error
    BY <1>1 DEF PieceInv
  <2>2. ASSUME p.ok, NEW d \in Faithful(p)
        PROVE  p.lean[d] = p.cel
    <3>1. /\ d \in DOMAIN p.lean
          /\ d = p.dom \/ d = CelDom(p.unsigned) \/ (p.num # None /\ InRange(d, p.num))
      BY DEF Faithful
    <3>2. d # None
      BY <1>1, <3>1, PieceFacts, MarkAssumption DEF PieceInv
    <3>3. CASE p.num = None
      BY <1>1, <2>2, <3>1, <3>2, <3>3, TextIsValue DEF accepts
    <3>4. CASE p.num # None
      <4>1. /\ p.num \in ValuesOf(CelDom(p.unsigned)) /\ p.unsigned \in BOOLEAN
            /\ p.dom = None
        BY <1>1, <3>4, PieceFacts DEF PieceInv
      <4>2. InRange(d, p.num)
        BY <3>1, <3>2, <4>1, CelDomIsDomain, NumberFacts
      <4> QED
        BY <1>1, <2>2, <3>1, <3>4, <4>2, TextIsValue DEF accepts
    <3> QED
      BY <3>3, <3>4
  <2> QED
    BY <2>1, <2>2
<1>2. IInv => GuardsAreExact
  <2> SUFFICES ASSUME IInv, NEW p \in Pieces, ~p.trapped
               PROVE  /\ p.ok <=> p.cel # Error
                      /\ p.ok => \A d \in Faithful(p) : p.lean[d] = p.cel
    BY DEF GuardsAreExact
  <2>1. PieceInv(p)
    BY GoodFacts DEF IInv
  <2> QED
    BY <1>1, <2>1
<1> QED
  BY <1>2, Invariance, PTL

\* A comparison of fields of any width, of terms over them and of constants is
\* satisfied in Lean exactly when it is true in CEL.
THEOREM ComparisonsExact ==
  Spec => []ComparisonIsExact
<1>1. IInv => ComparisonIsExact
  BY DEF IInv
<1> QED
  BY <1>1, Invariance, PTL

\* foldConstArith: a rule is rejected only when CEL errs on its constant,
\* whatever the width; with FoldIsExact, exactly then.
THEOREM FoldsRejectErrors ==
  Spec => []RejectedFoldsErr
<1>1. IInv => RejectedFoldsErr
  BY DEF IInv
<1> QED
  BY <1>1, Invariance, PTL
=============================================================================
