------------------------- MODULE RegexCompilerProofs -------------------------
(***************************************************************************)
(* Proofs about RegexCompiler: the compiler leaves no dangling index, and  *)
(* the program of a pattern accepts exactly what the pattern's language    *)
(* holds, so that the search answers by the language, for every pattern    *)
(* and every input.                                                        *)
(***************************************************************************)
EXTENDS RegexCompiler, PikeVMProofs, WellFoundedInduction

-----------------------------------------------------------------------------
(* Induction and recursion on the naturals, with sets and functions in the *)
(* place of predicates and operators.                                      *)

LEMMA Induction ==
  ASSUME NEW T, 0 \in T, \A n \in Nat : n \in T => n + 1 \in T
  PROVE  Nat \subseteq T
<1>. DEFINE Below == {ss \in Nat \X Nat : ss[1] < ss[2]}
<1>. SUFFICES ASSUME Nat \ T # {} PROVE FALSE
  OBVIOUS
<1>1. IsWellFoundedOn(Below, Nat)
  BY NatLessThanWellFounded DEF OpToRel
<1>2. \A x, y \in Nat : <<y, x>> \in Below <=> y < x
  OBVIOUS
<1>. HIDE DEF Below
<1>3. PICK x \in Nat \ T : \A y \in Nat \ T : ~(<<y, x>> \in Below)
  BY <1>1, WFMin, Nat \ T \subseteq Nat
<1>4. \A y \in Nat \ T : ~(y < x)
  BY <1>2, <1>3
<1>5. x # 0 /\ x - 1 \in Nat /\ x - 1 < x /\ (x - 1) + 1 = x
  BY <1>3
<1>6. x - 1 \in T
  BY <1>4, <1>5
<1>. QED  BY <1>5, <1>6, <1>3

\* A recursion is followed by the function that takes from each of its finite
\* stretches the last value.
Recurses(f, s0, step) == f = [n \in Nat |-> IF n = 0 THEN s0 ELSE step[<<n, f[n - 1]>>]]

LEMMA Recursion ==
  ASSUME NEW s0, NEW step
  PROVE  \E f : Recurses(f, s0, step)
<1>. DEFINE Follows(g, n) == g[0] = s0 /\ \A k \in 1 .. n : g[k] = step[<<k, g[k - 1]>>]
            Last(n) == CHOOSE g : Follows(g, n)
            f == [n \in Nat |-> Last(n)[n]]
<1>1. ASSUME NEW n \in Nat PROVE Follows(Last(n), n)
  <2>. DEFINE T == {k \in Nat : \E g : Follows(g, k)}
  <2>1. 0 \in T
    <3>. DEFINE g == [k \in {0} |-> s0]
    <3>1. Follows(g, 0)
      OBVIOUS
    <3>. HIDE DEF Follows
    <3>. QED  BY <3>1
  <2>2. ASSUME NEW k \in Nat, k \in T PROVE k + 1 \in T
    <3>1. PICK g : Follows(g, k)
      BY <2>2
    <3>. DEFINE h == [i \in 0 .. k + 1 |-> IF i = k + 1 THEN step[<<k + 1, g[k]>>] ELSE g[i]]
    <3>2. h[0] = s0
      BY <3>1
    <3>3. ASSUME NEW i \in 1 .. k + 1 PROVE h[i] = step[<<i, h[i - 1]>>]
      <4>1. i \in 0 .. k + 1 /\ i - 1 \in 0 .. k + 1 /\ i - 1 # k + 1
        OBVIOUS
      <4>2. CASE i = k + 1
        <5>1. i - 1 = k
          BY <4>2
        <5>. QED  BY <4>1, <4>2, <5>1
      <4>3. CASE i # k + 1
        <5>1. i \in 1 .. k
          BY <4>3
        <5>2. g[i] = step[<<i, g[i - 1]>>]
          BY <3>1, <5>1
        <5>. QED  BY <4>1, <4>3, <5>2
      <4>. QED  BY <4>2, <4>3
    <3>4. Follows(h, k + 1)
      BY <3>2, <3>3
    <3>. HIDE DEF Follows, h
    <3>. QED  BY <3>4
  <2>. HIDE DEF T, Follows
  <2>3. Nat \subseteq T
    BY <2>1, <2>2, Induction
  <2>. QED  BY <2>3 DEF T
<1>2. ASSUME NEW n \in Nat PROVE Last(n + 1)[n] = Last(n)[n]
  <2>. DEFINE g == Last(n)
              h == Last(n + 1)
              T == {k \in Nat : k <= n => h[k] = g[k]}
  <2>1. Follows(g, n) /\ Follows(h, n + 1)
    <3>1. n + 1 \in Nat
      OBVIOUS
    <3>. HIDE DEF Follows, Last
    <3>. QED  BY <1>1, <3>1
  <2>. HIDE DEF g, h
  <2>2. 0 \in T
    BY <2>1
  <2>3. ASSUME NEW k \in Nat, k \in T PROVE k + 1 \in T
    <3>. SUFFICES ASSUME k + 1 <= n PROVE h[k + 1] = g[k + 1]
      OBVIOUS
    <3>1. h[k] = g[k] /\ k + 1 \in 1 .. n /\ k + 1 \in 1 .. n + 1 /\ (k + 1) - 1 = k
      BY <2>3
    <3>. QED  BY <2>1, <3>1
  <2>. HIDE DEF T
  <2>4. Nat \subseteq T
    BY <2>2, <2>3, Induction
  <2>. QED  BY <2>4 DEF T, g, h
<1>. DEFINE value(n) == IF n = 0 THEN s0 ELSE step[<<n, f[n - 1]>>]
<1>3. ASSUME NEW n \in Nat PROVE f[n] = value(n)
  <2>1. Follows(Last(n), n)
    BY <1>1
  <2>. HIDE DEF Last
  <2>2. CASE n = 0
    BY <2>1, <2>2
  <2>3. CASE n # 0
    <3>1. n - 1 \in Nat /\ (n - 1) + 1 = n /\ n \in 1 .. n
      BY <2>3
    <3>2. Last(n)[n - 1] = Last(n - 1)[n - 1]
      BY <1>2, <3>1
    <3>3. Last(n)[n] = step[<<n, Last(n)[n - 1]>>]
      BY <2>1, <3>1
    <3>. QED  BY <2>3, <3>1, <3>2, <3>3
  <2>. QED  BY <2>2, <2>3
<1>4. f = [n \in Nat |-> f[n]]
  OBVIOUS
<1>. HIDE DEF f
<1>5. f = [n \in Nat |-> value(n)]
  BY <1>3, <1>4
<1>. QED  BY <1>5 DEF Recurses

\* The levels of trees, likewise; they are in no set known beforehand.
LEMMA TreeLevels ==
  ASSUME NEW kind
  PROVE  /\ Trees(kind)[0] = Leaves
         /\ \A d \in Nat : Trees(kind)[d + 1] = Grown(kind, Trees(kind)[d])
<1>. DEFINE Follows(g, n) == g[0] = Leaves /\ \A k \in 0 .. n - 1 : g[k + 1] = Grown(kind, g[k])
            Last(n) == CHOOSE g : Follows(g, n)
            Body(f) == [d \in Nat |-> IF d = 0 THEN Leaves ELSE Grown(kind, f[d - 1])]
            upTo == CHOOSE f : f = Body(f)
            f == [n \in Nat |-> Last(n)[n]]
<1>1. ASSUME NEW n \in Nat PROVE Follows(Last(n), n)
  <2>. DEFINE T == {k \in Nat : \E g : Follows(g, k)}
  <2>1. 0 \in T
    <3>. DEFINE g == [k \in {0} |-> Leaves]
    <3>1. Follows(g, 0)
      BY DEF Grown
    <3>. HIDE DEF Follows
    <3>. QED  BY <3>1
  <2>2. ASSUME NEW k \in Nat, k \in T PROVE k + 1 \in T
    <3>1. PICK g : Follows(g, k)
      BY <2>2
    <3>. DEFINE h == [i \in 0 .. k + 1 |-> IF i = k + 1 THEN Grown(kind, g[k]) ELSE g[i]]
    <3>2. h[0] = Leaves
      BY <3>1
    <3>3. ASSUME NEW i \in 0 .. (k + 1) - 1 PROVE h[i + 1] = Grown(kind, h[i])
      <4>1. i \in 0 .. k + 1 /\ i + 1 \in 0 .. k + 1 /\ i # k + 1
        OBVIOUS
      <4>2. CASE i = k
        BY <4>1, <4>2
      <4>3. CASE i # k
        <5>1. i \in 0 .. k - 1 /\ i + 1 # k + 1
          BY <4>3
        <5>2. g[i + 1] = Grown(kind, g[i])
          BY <3>1, <5>1
        <5>. QED  BY <4>1, <5>1, <5>2
      <4>. QED  BY <4>2, <4>3
    <3>4. Follows(h, k + 1)
      BY <3>2, <3>3
    <3>. HIDE DEF Follows, h
    <3>. QED  BY <3>4
  <2>. HIDE DEF T, Follows
  <2>3. Nat \subseteq T
    BY <2>1, <2>2, Induction
  <2>. QED  BY <2>3 DEF T
<1>2. ASSUME NEW n \in Nat PROVE Last(n + 1)[n] = Last(n)[n]
  <2>. DEFINE g == Last(n)
              h == Last(n + 1)
              T == {k \in Nat : k <= n => h[k] = g[k]}
  <2>1. Follows(g, n) /\ Follows(h, n + 1)
    BY <1>1
  <2>. HIDE DEF g, h
  <2>2. 0 \in T
    BY <2>1
  <2>3. ASSUME NEW k \in Nat, k \in T PROVE k + 1 \in T
    <3>. SUFFICES ASSUME k + 1 <= n PROVE h[k + 1] = g[k + 1]
      OBVIOUS
    <3>1. h[k] = g[k] /\ k \in 0 .. n - 1 /\ k \in 0 .. (n + 1) - 1
      BY <2>3
    <3>. QED  BY <2>1, <3>1
  <2>. HIDE DEF T
  <2>4. Nat \subseteq T
    BY <2>2, <2>3, Induction
  <2>. QED  BY <2>4 DEF T, g, h
<1>3. f[0] = Leaves
  <2>1. Last(0)[0] = Leaves
    BY <1>1
  <2>. HIDE DEF Last
  <2>. QED  BY <2>1
<1>4. ASSUME NEW n \in Nat PROVE f[n + 1] = Grown(kind, f[n])
  <2>1. Last(n + 1)[n + 1] = Grown(kind, Last(n + 1)[n])
    <3>1. n \in 0 .. (n + 1) - 1 /\ n + 1 \in Nat
      OBVIOUS
    <3>2. Follows(Last(n + 1), n + 1)
      BY <1>1, <3>1
    <3>. HIDE DEF Last
    <3>. QED  BY <3>1, <3>2
  <2>. HIDE DEF Last
  <2>2. f[n + 1] = Last(n + 1)[n + 1] /\ f[n] = Last(n)[n]
    OBVIOUS
  <2>. QED  BY <1>2, <2>1, <2>2
<1>5. f = Body(f)
  <2>. DEFINE value(d) == IF d = 0 THEN Leaves ELSE Grown(kind, f[d - 1])
  <2>1. ASSUME NEW d \in Nat PROVE f[d] = value(d)
    <3>1. CASE d = 0
      BY <1>3, <3>1
    <3>2. CASE d # 0
      <4>1. d - 1 \in Nat /\ (d - 1) + 1 = d
        BY <3>2
      <4>2. f[(d - 1) + 1] = Grown(kind, f[d - 1])
        BY <1>4, <4>1
      <4>. HIDE DEF f
      <4>. QED  BY <3>2, <4>1, <4>2
    <3>. QED  BY <3>1, <3>2
  <2>2. f = [d \in Nat |-> f[d]]
    OBVIOUS
  <2>. HIDE DEF f
  <2>. QED  BY <2>1, <2>2
<1>. HIDE DEF f
<1>6. upTo = Body(upTo)
  <2>. HIDE DEF Body
  <2>. QED  BY <1>5
<1>7. Trees(kind) = upTo
  BY DEF Trees
<1>. HIDE DEF upTo
<1>8. upTo[0] = Leaves
  BY <1>6
<1>9. ASSUME NEW d \in Nat PROVE upTo[d + 1] = Grown(kind, upTo[d])
  <2>1. d + 1 \in Nat /\ d + 1 # 0 /\ (d + 1) - 1 = d
    OBVIOUS
  <2>2. upTo[d + 1] = Body(upTo)[d + 1]
    BY <1>6
  <2>. QED  BY <2>1, <2>2
<1>. QED  BY <1>7, <1>8, <1>9

-----------------------------------------------------------------------------
(* Trees.                                                                  *)

LEMMA GrownIsMonotone ==
  ASSUME NEW kind, NEW T, NEW V, T \subseteq V
  PROVE  Grown(kind, T) \subseteq Grown(kind, V)
<1>1. Joins(T) \subseteq Joins(V)
  BY DEF Joins
<1>2. Loops(kind, T) \subseteq Loops(kind, V)
  BY DEF Loops
<1>. QED  BY <1>1, <1>2 DEF Grown

LEMMA TreesGrow ==
  ASSUME NEW kind, NEW d \in Nat
  PROVE  /\ Trees(kind)[d] \subseteq Trees(kind)[d + 1]
         /\ Trees(kind)[d] \subseteq Grown(kind, Trees(kind)[d])
<1>. DEFINE T == {k \in Nat : Trees(kind)[k] \subseteq Trees(kind)[k + 1]}
<1>1. 0 \in T
  <2>1. Trees(kind)[0 + 1] = Grown(kind, Trees(kind)[0]) /\ Trees(kind)[0] = Leaves
    BY TreeLevels
  <2>. QED  BY <2>1 DEF Grown
<1>2. ASSUME NEW k \in Nat, k \in T PROVE k + 1 \in T
  <2>1. k + 1 \in Nat
    OBVIOUS
  <2>2. Trees(kind)[(k + 1) + 1] = Grown(kind, Trees(kind)[k + 1]) /\ Trees(kind)[k + 1] = Grown(kind, Trees(kind)[k])
    BY <2>1, TreeLevels
  <2>3. Trees(kind)[k] \subseteq Trees(kind)[k + 1]
    BY <1>2
  <2>. QED  BY <2>1, <2>2, <2>3, GrownIsMonotone
<1>. HIDE DEF T
<1>3. Nat \subseteq T
  BY <1>1, <1>2, Induction
<1>4. Trees(kind)[d] \subseteq Trees(kind)[d + 1]
  BY <1>3 DEF T
<1>. QED  BY <1>4, TreeLevels

LEMMA TreesNest ==
  ASSUME NEW kind, NEW d \in Nat, NEW e \in Nat, d <= e
  PROVE  Trees(kind)[d] \subseteq Trees(kind)[e]
<1>. DEFINE T == {k \in Nat : Trees(kind)[d] \subseteq Trees(kind)[d + k]}
<1>1. 0 \in T
  OBVIOUS
<1>2. ASSUME NEW k \in Nat, k \in T PROVE k + 1 \in T
  <2>1. d + (k + 1) = (d + k) + 1 /\ d + k \in Nat
    OBVIOUS
  <2>2. Trees(kind)[d + k] \subseteq Trees(kind)[(d + k) + 1]
    BY <2>1, TreesGrow
  <2>. QED  BY <1>2, <2>1, <2>2
<1>. HIDE DEF T
<1>3. Nat \subseteq T
  BY <1>1, <1>2, Induction
<1>4. e - d \in Nat /\ d + (e - d) = e
  OBVIOUS
<1>. QED  BY <1>3, <1>4 DEF T

\* The trees considered, with every subtree of theirs.
Tree(kind) == Trees(kind)[Depth]

LEMMA Subtrees ==
  ASSUME NEW kind
  PROVE  Tree(kind) \subseteq Grown(kind, Tree(kind))
<1>. QED  BY CompilerAssumption, TreesGrow DEF Tree

\* What holds of the leaves and passes from subtrees to trees holds of all.
LEMMA TreeInduction ==
  ASSUME NEW kind, NEW P, Leaves \subseteq P,
         \A p \in Tree(kind) : \/ p \in Joins(Tree(kind)) /\ p.a \in P /\ p.b \in P
                               \/ p \in Loops(kind, Tree(kind)) /\ p.a \in P
                               => p \in P
  PROVE  Tree(kind) \subseteq P
<1>. DEFINE T == {d \in Nat : d <= Depth => Trees(kind)[d] \subseteq P}
<1>1. 0 \in T
  BY TreeLevels
<1>2. ASSUME NEW d \in Nat, d \in T PROVE d + 1 \in T
  <2>. SUFFICES ASSUME d + 1 <= Depth, NEW p \in Trees(kind)[d + 1] PROVE p \in P
    OBVIOUS
  <2>1. Trees(kind)[d] \subseteq P /\ d + 1 \in Nat
    BY <1>2, CompilerAssumption
  <2>2. Trees(kind)[d + 1] \subseteq Tree(kind) /\ Trees(kind)[d] \subseteq Tree(kind)
    BY <2>1, CompilerAssumption, TreesNest DEF Tree
  <2>3. p \in Grown(kind, Trees(kind)[d])
    BY TreeLevels
  <2>4. Joins(Trees(kind)[d]) \subseteq Joins(Tree(kind))
        /\ Loops(kind, Trees(kind)[d]) \subseteq Loops(kind, Tree(kind))
    BY <2>2 DEF Joins, Loops
  <2>5. CASE p \in Leaves
    BY <2>5
  <2>6. CASE p \in Joins(Trees(kind)[d])
    <3>1. p.a \in P /\ p.b \in P
      BY <2>1, <2>6 DEF Joins
    <3>. QED  BY <2>2, <2>4, <2>6, <3>1
  <2>7. CASE p \in Loops(kind, Trees(kind)[d])
    <3>1. p.a \in P
      BY <2>1, <2>7 DEF Loops
    <3>. QED  BY <2>2, <2>4, <2>7, <3>1
  <2>. QED  BY <2>3, <2>5, <2>6, <2>7 DEF Grown
<1>. HIDE DEF T
<1>3. Nat \subseteq T
  BY <1>1, <1>2, Induction
<1>. QED  BY <1>3, CompilerAssumption DEF T, Tree

\* The three sorts of trees are told apart by their operator.
LEMMA SortsDiffer ==
  ASSUME NEW kind, NEW T, NEW p, kind \in {"star", "repeat"}
  PROVE  /\ p \in Leaves => p.op \in {"epsilon", "assertStart", "assertEnd", "char"}
         /\ p \in Joins(T) => p.op \in {"concat", "alt"} /\ p.a \in T /\ p.b \in T
         /\ p \in Loops(kind, T) => p.op = kind /\ p.a \in T
<1>1. p \in Leaves => p.op \in {"epsilon", "assertStart", "assertEnd", "char"}
  BY DEF Leaves
<1>2. p \in Joins(T) => p.op \in {"concat", "alt"} /\ p.a \in T /\ p.b \in T
  BY DEF Joins
<1>3. p \in Loops(kind, T) => p.op = kind /\ p.a \in T
  BY DEF Loops
<1>. QED  BY <1>1, <1>2, <1>3

\* Functions that follow a recursion over the trees of a set.
Folds(f, kind, V, S, leaf, join, loop) ==
  /\ f \in [V -> S]
  /\ \A p \in V : f[p] = IF p \in Leaves THEN leaf[p]
                         ELSE IF p.op \in {"concat", "alt"} THEN join[<<p, f[p.a], f[p.b]>>]
                         ELSE loop[<<p, f[p.a]>>]

LEMMA TreeRecursion ==
  ASSUME NEW kind \in {"star", "repeat"}, NEW S, NEW leaf \in [Leaves -> S],
         NEW join \in [Joins(Tree(kind)) \X S \X S -> S],
         NEW loop \in [Loops(kind, Tree(kind)) \X S -> S]
  PROVE  \E f : Folds(f, kind, Tree(kind), S, leaf, join, loop)
<1>. DEFINE F(f, V) == Folds(f, kind, V, S, leaf, join, loop)
            T == {d \in Nat : d <= Depth => \E f : F(f, Trees(kind)[d])}
            value(f, p) == IF p \in Leaves THEN leaf[p]
                           ELSE IF p.op \in {"concat", "alt"} THEN join[<<p, f[p.a], f[p.b]>>]
                           ELSE loop[<<p, f[p.a]>>]
<1>1. 0 \in T
  <2>1. F(leaf, Leaves)
    BY DEF Folds
  <2>2. F(leaf, Trees(kind)[0])
    BY <2>1, TreeLevels
  <2>. HIDE DEF F
  <2>. QED  BY <2>2
<1>2. ASSUME NEW d \in Nat, d \in T PROVE d + 1 \in T
  <2>. SUFFICES ASSUME d + 1 <= Depth PROVE \E g : F(g, Trees(kind)[d + 1])
    OBVIOUS
  <2>. DEFINE V == Trees(kind)[d]
              W == Trees(kind)[d + 1]
  <2>1. PICK f : F(f, V)
    <3>. HIDE DEF F
    <3>. QED  BY <1>2, CompilerAssumption
  <2>2. W = Grown(kind, V) /\ V \subseteq W
    BY TreeLevels, TreesGrow
  <2>3. V \subseteq Tree(kind)
    BY CompilerAssumption, TreesNest DEF Tree
  <2>4. f \in [V -> S] /\ \A p \in V : f[p] = value(f, p)
    BY <2>1 DEF Folds
  <2>. DEFINE g == [p \in W |-> value(f, p)]
  <2>. HIDE DEF V, W
  <2>5. ASSUME NEW p \in W
        PROVE  /\ p \in Leaves => value(f, p) = leaf[p]
               /\ p \notin Leaves => \/ p \in Joins(V) /\ p.op \in {"concat", "alt"} /\ p.a \in V /\ p.b \in V
                                     \/ p \in Loops(kind, V) /\ p.op \notin {"concat", "alt"} /\ p.a \in V
    <3>1. /\ p \in Leaves => p.op \in {"epsilon", "assertStart", "assertEnd", "char"}
          /\ p \in Joins(V) => p.op \in {"concat", "alt"} /\ p.a \in V /\ p.b \in V
          /\ p \in Loops(kind, V) => p.op = kind /\ p.a \in V
      BY SortsDiffer
    <3>2. p \in Leaves \/ p \in Joins(V) \/ p \in Loops(kind, V)
      BY <2>2 DEF Grown
    <3>. QED  BY <3>1, <3>2
  <2>6. Joins(V) \subseteq Joins(Tree(kind)) /\ Loops(kind, V) \subseteq Loops(kind, Tree(kind))
    <3>1. \A X : V \subseteq X => Joins(V) \subseteq Joins(X)
      BY DEF Joins
    <3>2. \A X : V \subseteq X => Loops(kind, V) \subseteq Loops(kind, X)
      BY DEF Loops
    <3>. QED  BY <2>3, <3>1, <3>2
  <2>7. ASSUME NEW p \in W PROVE value(f, p) \in S
    <3>1. CASE p \in Leaves
      BY <2>5, <3>1
    <3>2. CASE p \notin Leaves /\ p \in Joins(V) /\ p.op \in {"concat", "alt"} /\ p.a \in V /\ p.b \in V
      <4>1. f[p.a] \in S /\ f[p.b] \in S /\ p \in Joins(Tree(kind))
        BY <2>4, <2>6, <3>2
      <4>2. join[<<p, f[p.a], f[p.b]>>] \in S
        BY <4>1
      <4>. QED  BY <3>2, <4>2
    <3>3. CASE p \notin Leaves /\ p \in Loops(kind, V) /\ p.op \notin {"concat", "alt"} /\ p.a \in V
      <4>1. f[p.a] \in S /\ p \in Loops(kind, Tree(kind))
        BY <2>4, <2>6, <3>3
      <4>2. loop[<<p, f[p.a]>>] \in S
        BY <4>1
      <4>. QED  BY <3>3, <4>2
    <3>. QED  BY <2>5, <3>1, <3>2, <3>3
  <2>8. \A p \in V : g[p] = f[p]
    BY <2>2, <2>4
  <2>9. g \in [W -> S]
    BY <2>7
  <2>10. ASSUME NEW p \in W PROVE g[p] = value(g, p)
    <3>1. g[p] = value(f, p)
      OBVIOUS
    <3>. HIDE DEF g
    <3>2. p \notin Leaves => f[p.a] = g[p.a]
      BY <2>5, <2>8
    <3>3. p \notin Leaves /\ p.op \in {"concat", "alt"} => f[p.b] = g[p.b]
      BY <2>5, <2>8
    <3>. QED  BY <3>1, <3>2, <3>3
  <2>11. F(g, W)
    <3>. HIDE DEF g
    <3>. QED  BY <2>9, <2>10 DEF Folds
  <2>. HIDE DEF F, g
  <2>. QED  BY <2>11 DEF W
<1>. HIDE DEF T
<1>3. Nat \subseteq T
  BY <1>1, <1>2, Induction
<1>4. \E f : F(f, Trees(kind)[Depth])
  <2>. HIDE DEF F
  <2>. QED  BY <1>3, CompilerAssumption DEF T
<1>. QED  BY <1>4 DEF Tree

-----------------------------------------------------------------------------
(* The recursive definitions of the model, as equations.                   *)

\* The trees that the compiler could be given, of any depth.
AnyAst == UNION {Trees("star")[d] : d \in Nat}

LEMMA AstsClosed ==
  ASSUME NEW a \in AnyAst, NEW b \in AnyAst
  PROVE  /\ Leaves \subseteq AnyAst /\ Ast \subseteq AnyAst
         /\ {Concat(a, b), Alt(a, b), Star(a), Epsilon} \subseteq AnyAst
<1>1. Leaves \subseteq AnyAst
  BY TreeLevels DEF AnyAst
<1>2. Ast \subseteq AnyAst
  BY CompilerAssumption DEF Ast, AnyAst
<1>3. PICK d \in Nat : a \in Trees("star")[d]
  BY DEF AnyAst
<1>4. PICK e \in Nat : b \in Trees("star")[e]
  BY DEF AnyAst
<1>5. PICK n \in Nat : a \in Trees("star")[n] /\ b \in Trees("star")[n]
  <2>1. CASE d <= e
    BY <1>3, <1>4, <2>1, TreesNest
  <2>2. CASE e <= d
    BY <1>3, <1>4, <2>2, TreesNest
  <2>. QED  BY <2>1, <2>2
<1>6. {Concat(a, b), Alt(a, b)} \subseteq Joins(Trees("star")[n])
  BY <1>5 DEF Joins, Concat, Alt
<1>7. Star(a) \in Loops("star", Trees("star")[n])
  BY <1>5 DEF Loops, Star
<1>8. {Concat(a, b), Alt(a, b), Star(a)} \subseteq Trees("star")[n + 1]
  BY <1>6, <1>7, TreeLevels DEF Grown
<1>9. Epsilon \in Leaves
  BY DEF Epsilon, Leaves
<1>. QED  BY <1>1, <1>2, <1>8, <1>9 DEF AnyAst

\* repeatN
LEMMA RepeatNIs ==
  ASSUME NEW a \in AnyAst
  PROVE  /\ RepeatN(a, 0) = Epsilon /\ RepeatN(a, 1) = a
         /\ \A n \in Nat \ {0, 1} : RepeatN(a, n) = Concat(a, RepeatN(a, n - 1))
         /\ \A n \in Nat : RepeatN(a, n) \in AnyAst
<1>. DEFINE Body(f) == [k \in Nat |-> IF k = 0 THEN Epsilon ELSE IF k = 1 THEN a ELSE Concat(a, f[k - 1])]
            step == [x \in Nat \X AnyAst |-> IF x[1] = 1 THEN a ELSE Concat(a, x[2])]
            chain == CHOOSE f : f = Body(f)
<1>1. PICK f : f = [n \in Nat |-> IF n = 0 THEN Epsilon ELSE step[<<n, f[n - 1]>>]]
  <2>. HIDE DEF step
  <2>1. PICK f : Recurses(f, Epsilon, step)
    BY Recursion
  <2>. QED  BY <2>1 DEF Recurses
<1>2. Epsilon \in AnyAst /\ \A x \in AnyAst : Concat(a, x) \in AnyAst
  BY AstsClosed
<1>3. \A x \in AnyAst, n \in Nat : step[<<n, x>>] = IF n = 1 THEN a ELSE Concat(a, x)
  OBVIOUS
<1>. HIDE DEF step
<1>4. ASSUME NEW n \in Nat PROVE f[n] \in AnyAst
  <2>. DEFINE T == {k \in Nat : f[k] \in AnyAst}
  <2>1. 0 \in T
    BY <1>1, <1>2
  <2>2. ASSUME NEW k \in Nat, k \in T PROVE k + 1 \in T
    <3>1. f[k + 1] = step[<<k + 1, f[(k + 1) - 1]>>] /\ (k + 1) - 1 = k
      BY <1>1
    <3>2. f[k + 1] \in AnyAst
      BY <1>2, <1>3, <2>2, <3>1
    <3>. QED  BY <3>2
  <2>. HIDE DEF T
  <2>3. Nat \subseteq T
    BY <2>1, <2>2, Induction
  <2>. QED  BY <2>3 DEF T
<1>. DEFINE value(k) == IF k = 0 THEN Epsilon ELSE IF k = 1 THEN a ELSE Concat(a, f[k - 1])
<1>5. ASSUME NEW k \in Nat PROVE f[k] = value(k)
  <2>1. CASE k = 0
    BY <1>1, <2>1
  <2>2. CASE k # 0
    <3>1. f[k] = step[<<k, f[k - 1]>>] /\ k - 1 \in Nat
      BY <1>1, <2>2
    <3>. QED  BY <1>3, <1>4, <2>2, <3>1
  <2>. QED  BY <2>1, <2>2
<1>6. f = [k \in Nat |-> value(k)]
  <2>1. f = [k \in Nat |-> f[k]]
    BY <1>1
  <2>. QED  BY <1>5, <2>1
<1>7. f = Body(f)
  BY <1>6
<1>8. chain = Body(chain)
  <2>. HIDE DEF Body
  <2>. QED  BY <1>7
<1>9. \A n : RepeatN(a, n) = chain[n]
  BY DEF RepeatN
<1>. HIDE DEF chain
<1>10. /\ chain[0] = Epsilon /\ chain[1] = a
       /\ \A n \in Nat \ {0, 1} : chain[n] = Concat(a, chain[n - 1])
  BY <1>8
<1>11. ASSUME NEW n \in Nat PROVE chain[n] \in AnyAst
  <2>. DEFINE T == {k \in Nat : chain[k] \in AnyAst}
  <2>1. 0 \in T
    BY <1>2, <1>10
  <2>2. ASSUME NEW k \in Nat, k \in T PROVE k + 1 \in T
    <3>1. CASE k = 0
      BY <1>10, <3>1
    <3>2. CASE k # 0
      <4>1. k + 1 \in Nat \ {0, 1} /\ (k + 1) - 1 = k
        BY <3>2
      <4>2. chain[k + 1] = Concat(a, chain[k])
        BY <1>10, <4>1
      <4>. QED  BY <1>2, <2>2, <4>2
    <3>. QED  BY <3>1, <3>2
  <2>. HIDE DEF T
  <2>3. Nat \subseteq T
    BY <2>1, <2>2, Induction
  <2>. QED  BY <2>3 DEF T
<1>. QED  BY <1>9, <1>10, <1>11

\* optChain
LEMMA OptChainIs ==
  ASSUME NEW a \in AnyAst
  PROVE  /\ OptChain(a, 0) = Epsilon
         /\ \A n \in Nat : OptChain(a, n + 1) = Alt(Concat(a, OptChain(a, n)), Epsilon)
         /\ \A n \in Nat : OptChain(a, n) \in AnyAst
<1>. DEFINE Body(f) == [k \in Nat |-> IF k = 0 THEN Epsilon ELSE Alt(Concat(a, f[k - 1]), Epsilon)]
            step == [x \in Nat \X AnyAst |-> Alt(Concat(a, x[2]), Epsilon)]
            chain == CHOOSE f : f = Body(f)
<1>1. PICK f : f = [n \in Nat |-> IF n = 0 THEN Epsilon ELSE step[<<n, f[n - 1]>>]]
  <2>. HIDE DEF step
  <2>1. PICK f : Recurses(f, Epsilon, step)
    BY Recursion
  <2>. QED  BY <2>1 DEF Recurses
<1>2. Epsilon \in AnyAst /\ \A x \in AnyAst : Alt(Concat(a, x), Epsilon) \in AnyAst
  BY AstsClosed
<1>3. \A x \in AnyAst, n \in Nat : step[<<n, x>>] = Alt(Concat(a, x), Epsilon)
  OBVIOUS
<1>. HIDE DEF step
<1>4. ASSUME NEW n \in Nat PROVE f[n] \in AnyAst
  <2>. DEFINE T == {k \in Nat : f[k] \in AnyAst}
  <2>1. 0 \in T
    BY <1>1, <1>2
  <2>2. ASSUME NEW k \in Nat, k \in T PROVE k + 1 \in T
    <3>1. f[k + 1] = step[<<k + 1, f[(k + 1) - 1]>>] /\ (k + 1) - 1 = k
      BY <1>1
    <3>2. f[k + 1] \in AnyAst
      BY <1>2, <1>3, <2>2, <3>1
    <3>. QED  BY <3>2
  <2>. HIDE DEF T
  <2>3. Nat \subseteq T
    BY <2>1, <2>2, Induction
  <2>. QED  BY <2>3 DEF T
<1>. DEFINE value(k) == IF k = 0 THEN Epsilon ELSE Alt(Concat(a, f[k - 1]), Epsilon)
<1>5. ASSUME NEW k \in Nat PROVE f[k] = value(k)
  <2>1. CASE k = 0
    BY <1>1, <2>1
  <2>2. CASE k # 0
    <3>1. f[k] = step[<<k, f[k - 1]>>] /\ k - 1 \in Nat
      BY <1>1, <2>2
    <3>. QED  BY <1>3, <1>4, <2>2, <3>1
  <2>. QED  BY <2>1, <2>2
<1>6. f = [k \in Nat |-> value(k)]
  <2>1. f = [k \in Nat |-> f[k]]
    BY <1>1
  <2>. QED  BY <1>5, <2>1
<1>7. f = Body(f)
  BY <1>6
<1>8. chain = Body(chain)
  <2>. HIDE DEF Body
  <2>. QED  BY <1>7
<1>9. \A n : OptChain(a, n) = chain[n]
  BY DEF OptChain
<1>. HIDE DEF chain
<1>10. chain[0] = Epsilon /\ \A n \in Nat : chain[n + 1] = Alt(Concat(a, chain[n]), Epsilon)
  <2>1. \A n \in Nat : n + 1 \in Nat /\ n + 1 # 0 /\ (n + 1) - 1 = n
    OBVIOUS
  <2>. QED  BY <1>8, <2>1
<1>11. ASSUME NEW n \in Nat PROVE chain[n] \in AnyAst
  <2>. DEFINE T == {k \in Nat : chain[k] \in AnyAst}
  <2>1. 0 \in T
    BY <1>2, <1>10
  <2>2. ASSUME NEW k \in Nat, k \in T PROVE k + 1 \in T
    BY <1>2, <1>10, <2>2
  <2>. HIDE DEF T
  <2>3. Nat \subseteq T
    BY <2>1, <2>2, Induction
  <2>. QED  BY <2>3 DEF T
<1>. QED  BY <1>9, <1>10, <1>11

\* The stretches of a string, from a position to a later one.
Stretches(s) == {x \in (0 .. Len(s)) \X (0 .. Len(s)) : x[1] <= x[2]}

LEMMA ComposeIs ==
  ASSUME NEW s \in Seq(Char), NEW R \in SUBSET Stretches(s), NEW S \in SUBSET Stretches(s)
  PROVE  /\ Compose(R, S) \in SUBSET Stretches(s)
         /\ \A i, k : <<i, k>> \in Compose(R, S) <=> \E j \in 0 .. Len(s) : <<i, j>> \in R /\ <<j, k>> \in S
<1>1. \A x \in R \cup S : x = <<x[1], x[2]>> /\ x[1] \in 0 .. Len(s) /\ x[2] \in 0 .. Len(s) /\ x[1] <= x[2]
  BY DEF Stretches
<1>2. ASSUME NEW i, NEW k, <<i, k>> \in Compose(R, S)
      PROVE  \E j \in 0 .. Len(s) : <<i, j>> \in R /\ <<j, k>> \in S
  <2>1. PICK x \in R, y \in S : x[2] = y[1] /\ i = x[1] /\ k = y[2]
    <3>1. PICK z \in {y \in R \X S : y[1][2] = y[2][1]} : <<i, k>> = <<z[1][1], z[2][2]>>
      BY <1>2 DEF Compose
    <3>. QED  BY <3>1
  <2>2. x = <<i, x[2]>> /\ y = <<x[2], k>> /\ x[2] \in 0 .. Len(s)
    BY <1>1, <2>1
  <2>. QED  BY <2>1, <2>2
<1>3. ASSUME NEW i, NEW k, NEW j, <<i, j>> \in R, <<j, k>> \in S
      PROVE  <<i, k>> \in Compose(R, S)
  <2>. DEFINE z == <<<<i, j>>, <<j, k>>>>
  <2>1. z \in {y \in R \X S : y[1][2] = y[2][1]} /\ <<z[1][1], z[2][2]>> = <<i, k>>
    BY <1>3
  <2>. QED  BY <2>1 DEF Compose
<1>4. ASSUME NEW x \in Compose(R, S) PROVE x \in Stretches(s)
  <2>1. PICK z \in R \X S : x = <<z[1][1], z[2][2]>> /\ z[1][2] = z[2][1]
    BY DEF Compose
  <2>2. z[1] \in R /\ z[2] \in S /\ Len(s) \in Nat
    BY <2>1
  <2>3. /\ z[1][1] \in 0 .. Len(s) /\ z[1][2] \in 0 .. Len(s) /\ z[1][1] <= z[1][2]
        /\ z[2][1] \in 0 .. Len(s) /\ z[2][2] \in 0 .. Len(s) /\ z[2][1] <= z[2][2]
    BY <1>1, <2>2
  <2>4. x[1] = z[1][1] /\ x[2] = z[2][2] /\ x[1] <= x[2]
    BY <2>1, <2>2, <2>3
  <2>. QED  BY <2>1, <2>3, <2>4 DEF Stretches
<1>. QED  BY <1>2, <1>3, <1>4

LEMMA DiagonalIs ==
  ASSUME NEW s \in Seq(Char)
  PROVE  /\ Diagonal(s) \in SUBSET Stretches(s)
         /\ \A i, j : <<i, j>> \in Diagonal(s) <=> i \in 0 .. Len(s) /\ j = i
<1>1. Len(s) \in Nat
  OBVIOUS
<1>2. \A i, j : <<i, j>> \in Diagonal(s) <=> i \in 0 .. Len(s) /\ j = i
  BY DEF Diagonal
<1>3. Diagonal(s) \in SUBSET Stretches(s)
  BY <1>1 DEF Diagonal, Stretches
<1>. QED  BY <1>2, <1>3

LEMMA PowerIs ==
  ASSUME NEW s \in Seq(Char), NEW R \in SUBSET Stretches(s)
  PROVE  /\ Power(R, 0, s) = Diagonal(s)
         /\ \A n \in Nat : Power(R, n + 1, s) = Compose(R, Power(R, n, s))
         /\ \A n \in Nat : Power(R, n, s) \in SUBSET Stretches(s)
<1>. DEFINE U == SUBSET Stretches(s)
            Body(f) == [k \in Nat |-> IF k = 0 THEN Diagonal(s) ELSE Compose(R, f[k - 1])]
            step == [x \in Nat \X U |-> Compose(R, x[2])]
            power == CHOOSE f : f = Body(f)
<1>1. PICK f : f = [n \in Nat |-> IF n = 0 THEN Diagonal(s) ELSE step[<<n, f[n - 1]>>]]
  <2>. HIDE DEF step
  <2>1. PICK f : Recurses(f, Diagonal(s), step)
    BY Recursion
  <2>. QED  BY <2>1 DEF Recurses
<1>2. Diagonal(s) \in U /\ \A x \in U : Compose(R, x) \in U
  BY ComposeIs, DiagonalIs
<1>. HIDE DEF U
<1>3. \A x \in U, n \in Nat : step[<<n, x>>] = Compose(R, x)
  OBVIOUS
<1>. HIDE DEF step
<1>4. ASSUME NEW n \in Nat PROVE f[n] \in U
  <2>. DEFINE T == {k \in Nat : f[k] \in U}
  <2>1. 0 \in T
    BY <1>1, <1>2
  <2>2. ASSUME NEW k \in Nat, k \in T PROVE k + 1 \in T
    <3>1. f[k + 1] = step[<<k + 1, f[(k + 1) - 1]>>] /\ (k + 1) - 1 = k
      BY <1>1
    <3>2. f[k + 1] \in U
      BY <1>2, <1>3, <2>2, <3>1
    <3>. QED  BY <3>2
  <2>. HIDE DEF T
  <2>3. Nat \subseteq T
    BY <2>1, <2>2, Induction
  <2>. QED  BY <2>3 DEF T
<1>. DEFINE value(k) == IF k = 0 THEN Diagonal(s) ELSE Compose(R, f[k - 1])
<1>5. ASSUME NEW k \in Nat PROVE f[k] = value(k)
  <2>1. CASE k = 0
    BY <1>1, <2>1
  <2>2. CASE k # 0
    <3>1. k - 1 \in Nat
      BY <2>2
    <3>2. f[k] = step[<<k, f[k - 1]>>]
      BY <1>1, <2>2
    <3>. QED  BY <1>3, <1>4, <2>2, <3>1, <3>2
  <2>. QED  BY <2>1, <2>2
<1>6. f = [k \in Nat |-> value(k)]
  <2>1. f = [k \in Nat |-> f[k]]
    BY <1>1
  <2>. QED  BY <1>5, <2>1
<1>7. f = Body(f)
  BY <1>6
<1>8. power = Body(power)
  <2>. HIDE DEF Body
  <2>. QED  BY <1>7
<1>9. \A n : Power(R, n, s) = power[n]
  BY DEF Power
<1>. HIDE DEF power
<1>10. power[0] = Diagonal(s) /\ \A n \in Nat : power[n + 1] = Compose(R, power[n])
  <2>1. \A n \in Nat : n + 1 \in Nat /\ n + 1 # 0 /\ (n + 1) - 1 = n
    OBVIOUS
  <2>. QED  BY <1>8, <2>1
<1>11. ASSUME NEW n \in Nat PROVE power[n] \in U
  <2>. DEFINE T == {k \in Nat : power[k] \in U}
  <2>1. 0 \in T
    BY <1>2, <1>10
  <2>2. ASSUME NEW k \in Nat, k \in T PROVE k + 1 \in T
    <3>1. power[k] \in U
      BY <2>2
    <3>2. power[k + 1] \in U
      BY <1>2, <1>10, <3>1
    <3>. QED  BY <3>2
  <2>. HIDE DEF T
  <2>3. Nat \subseteq T
    BY <2>1, <2>2, Induction
  <2>. QED  BY <2>3 DEF T
<1>. QED  BY <1>9, <1>10, <1>11 DEF U

LEMMA RepetitionBounds ==
  ASSUME NEW T, NEW p \in Loops("repeat", T)
  PROVE  p.lo \in Nat /\ (p.hi = Unbounded \/ (p.hi \in Nat /\ p.lo <= p.hi))
<1>1. p \in {r \in [op : {"repeat"}, a : T, lo : Nat, hi : Nat \cup {Unbounded}] : r.hi # Unbounded => r.lo <= r.hi}
  BY DEF Loops
<1>2. p \in [op : {"repeat"}, a : T, lo : Nat, hi : Nat \cup {Unbounded}] /\ (p.hi # Unbounded => p.lo <= p.hi)
  BY <1>1
<1>3. p.lo \in Nat /\ p.hi \in Nat \cup {Unbounded}
  BY <1>2
<1>4. p.hi = Unbounded \/ (p.hi \in Nat /\ p.lo <= p.hi)
  <2>1. CASE p.hi = Unbounded
    BY <2>1
  <2>2. CASE p.hi # Unbounded
    <3>1. p.hi \in Nat
      BY <1>3, <2>2
    <3>2. p.lo <= p.hi
      BY <1>2, <2>2
    <3>. QED  BY <3>1, <3>2
  <2>. QED  BY <2>1, <2>2
<1>. QED  BY <1>3, <1>4

LEMMA WrittenSorts ==
  ASSUME NEW p \in Written
  PROVE  \/ p \in Leaves /\ p.op \in {"epsilon", "assertStart", "assertEnd", "char"}
         \/ p \in Joins(Written) /\ p \notin Leaves /\ p.op \in {"concat", "alt"} /\ p.a \in Written /\ p.b \in Written
         \/ /\ p \in Loops("repeat", Written) /\ p \notin Leaves
            /\ p.op = "repeat" /\ p.a \in Written /\ p.lo \in Nat
            /\ p.hi = Unbounded \/ (p.hi \in Nat /\ p.lo <= p.hi)
<1>1. Written = Tree("repeat")
  BY DEF Written, Tree
<1>2. p \in Leaves \/ p \in Joins(Written) \/ p \in Loops("repeat", Written)
  BY <1>1, Subtrees DEF Grown
<1>3. /\ p \in Leaves => p.op \in {"epsilon", "assertStart", "assertEnd", "char"}
      /\ p \in Joins(Written) => p.op \in {"concat", "alt"} /\ p.a \in Written /\ p.b \in Written
      /\ p \in Loops("repeat", Written) => p.op = "repeat" /\ p.a \in Written
  BY SortsDiffer
<1>4. p \in Loops("repeat", Written) => p.lo \in Nat /\ (p.hi = Unbounded \/ (p.hi \in Nat /\ p.lo <= p.hi))
  BY RepetitionBounds
<1>. QED  BY <1>2, <1>3, <1>4

LEMMA AstSorts ==
  ASSUME NEW a \in Ast
  PROVE  \/ a \in Leaves /\ a.op \in {"epsilon", "assertStart", "assertEnd", "char"}
         \/ a \in Joins(Ast) /\ a \notin Leaves /\ a.op \in {"concat", "alt"} /\ a.a \in Ast /\ a.b \in Ast
         \/ a \in Loops("star", Ast) /\ a \notin Leaves /\ a.op = "star" /\ a.a \in Ast
<1>1. Ast = Tree("star")
  BY DEF Ast, Tree
<1>2. a \in Leaves \/ a \in Joins(Ast) \/ a \in Loops("star", Ast)
  BY <1>1, Subtrees DEF Grown
<1>3. /\ a \in Leaves => a.op \in {"epsilon", "assertStart", "assertEnd", "char"}
      /\ a \in Joins(Ast) => a.op \in {"concat", "alt"} /\ a.a \in Ast /\ a.b \in Ast
      /\ a \in Loops("star", Ast) => a.op = "star" /\ a.a \in Ast
  BY SortsDiffer
<1>. QED  BY <1>2, <1>3

LEMMA LeavesAreTrees ==
  Leaves \subseteq Written /\ Leaves \subseteq Ast
<1>1. 0 \in Nat /\ 0 <= Depth /\ Depth \in Nat
  BY CompilerAssumption
<1>2. \A kind : Trees(kind)[0] \subseteq Trees(kind)[Depth]
  BY <1>1, TreesNest
<1>. QED  BY <1>2, TreeLevels DEF Written, Ast

LEMMA WrittenInduction ==
  ASSUME NEW P, Leaves \subseteq P,
         \A p \in Written : p.op \in {"concat", "alt"} /\ p.a \in P /\ p.b \in P => p \in P,
         \A p \in Written : p.op = "repeat" /\ p.a \in P => p \in P
  PROVE  Written \subseteq P
<1>1. Written = Tree("repeat")
  BY DEF Written, Tree
<1>2. \A p \in Written : p \in Joins(Written) => p.op \in {"concat", "alt"}
  BY DEF Joins
<1>3. \A p \in Written : p \in Loops("repeat", Written) => p.op = "repeat"
  BY DEF Loops
<1>. QED  BY <1>1, <1>2, <1>3, TreeInduction

LEMMA QuantifyIs ==
  ASSUME NEW a \in AnyAst, NEW lo \in Nat, NEW hi, hi = Unbounded \/ (hi \in Nat /\ lo <= hi)
  PROVE  Quantify(a, lo, hi) \in AnyAst
<1>1. /\ \A x, y \in AnyAst : Concat(x, y) \in AnyAst /\ Alt(x, y) \in AnyAst
      /\ Star(a) \in AnyAst /\ Epsilon \in AnyAst
  BY AstsClosed
<1>2. RepeatN(a, lo) \in AnyAst
  BY RepeatNIs
<1>3. hi # Unbounded => OptChain(a, hi - lo) \in AnyAst
  BY OptChainIs
<1>. QED  BY <1>1, <1>2, <1>3 DEF Quantify

\* One level of the parser's desugaring, given that of the subtrees.
DesugarOnce(f, p) ==
  CASE p \in Leaves -> p
    [] p.op = "concat" -> IF f[p.b] = Epsilon THEN f[p.a] ELSE Concat(f[p.a], f[p.b])
    [] p.op = "alt" -> Alt(f[p.a], f[p.b])
    [] OTHER -> Quantify(f[p.a], p.lo, p.hi)

LEMMA DesugarIs ==
  \A p \in Written : Desugar[p] = DesugarOnce(Desugar, p) /\ Desugar[p] \in AnyAst
<1>. DEFINE Body(f) == [p \in Written |-> DesugarOnce(f, p)]
            leaf == [p \in Leaves |-> p]
            join == [x \in Joins(Written) \X AnyAst \X AnyAst |->
                       IF x[1].op = "alt" THEN Alt(x[2], x[3])
                       ELSE IF x[3] = Epsilon THEN x[2] ELSE Concat(x[2], x[3])]
            loop == [x \in Loops("repeat", Written) \X AnyAst |-> Quantify(x[2], x[1].lo, x[1].hi)]
<1>1. Leaves \subseteq AnyAst /\ \A x, y \in AnyAst : Concat(x, y) \in AnyAst /\ Alt(x, y) \in AnyAst
  <2>1. Epsilon \in Leaves
    BY DEF Epsilon, Leaves
  <2>2. Leaves \subseteq AnyAst
    BY TreeLevels DEF AnyAst
  <2>. QED  BY <2>2, AstsClosed
<1>2. Written = Tree("repeat")
  BY DEF Written, Tree
<1>3. leaf \in [Leaves -> AnyAst] /\ join \in [Joins(Written) \X AnyAst \X AnyAst -> AnyAst]
  BY <1>1
<1>4. loop \in [Loops("repeat", Written) \X AnyAst -> AnyAst]
  <2>1. ASSUME NEW q \in Loops("repeat", Written), NEW a \in AnyAst PROVE Quantify(a, q.lo, q.hi) \in AnyAst
    <3>1. q.lo \in Nat /\ (q.hi = Unbounded \/ (q.hi \in Nat /\ q.lo <= q.hi))
      BY RepetitionBounds
    <3>. QED  BY <3>1, QuantifyIs
  <2>. QED  BY <2>1
<1>5. \A q \in Leaves : leaf[q] = q
  OBVIOUS
<1>6. \A q \in Joins(Written), a, b \in AnyAst :
        join[<<q, a, b>>] = IF q.op = "alt" THEN Alt(a, b) ELSE IF b = Epsilon THEN a ELSE Concat(a, b)
  OBVIOUS
<1>7. \A q \in Loops("repeat", Written), a \in AnyAst : loop[<<q, a>>] = Quantify(a, q.lo, q.hi)
  OBVIOUS
<1>. HIDE DEF leaf, join, loop
<1>8. PICK f : Folds(f, "repeat", Written, AnyAst, leaf, join, loop)
  BY <1>2, <1>3, <1>4, TreeRecursion
<1>9. ASSUME NEW p \in Written PROVE f[p] = DesugarOnce(f, p)
  <2>1. f[p] = IF p \in Leaves THEN leaf[p]
               ELSE IF p.op \in {"concat", "alt"} THEN join[<<p, f[p.a], f[p.b]>>]
               ELSE loop[<<p, f[p.a]>>]
    BY <1>8 DEF Folds
  <2>2. \A q \in Written : f[q] \in AnyAst
    BY <1>8 DEF Folds
  <2>. QED  BY <1>5, <1>6, <1>7, <2>1, <2>2, WrittenSorts DEF DesugarOnce
<1>10. f = Body(f)
  <2>1. f = [p \in Written |-> f[p]]
    BY <1>8 DEF Folds
  <2>. QED  BY <1>9, <2>1
<1>11. Desugar = CHOOSE g : g = Body(g)
  BY DEF Desugar, DesugarOnce
<1>12. Desugar = Body(Desugar)
  <2>. HIDE DEF Body
  <2>. QED  BY <1>10, <1>11
<1>13. \A p \in Written : Desugar[p] = DesugarOnce(Desugar, p)
  BY <1>12
<1>14. Written \subseteq {p \in Written : Desugar[p] \in AnyAst}
  <2>. DEFINE P == {p \in Written : Desugar[p] \in AnyAst}
  <2>1. Leaves \subseteq P
    <3>1. Leaves \subseteq Written
      BY LeavesAreTrees
    <3>2. ASSUME NEW p \in Leaves PROVE Desugar[p] = p
      <4>1. p.op \in {"epsilon", "assertStart", "assertEnd", "char"}
        BY DEF Leaves
      <4>. QED  BY <1>13, <3>1, <4>1 DEF DesugarOnce
    <3>. QED  BY <1>1, <3>1, <3>2
  <2>2. ASSUME NEW p \in Written, p.op \in {"concat", "alt"}, p.a \in P, p.b \in P PROVE p \in P
    <3>1. DesugarOnce(Desugar, p) \in AnyAst
      BY <1>1, <2>2 DEF DesugarOnce
    <3>. QED  BY <1>13, <3>1
  <2>3. ASSUME NEW p \in Written, p.op = "repeat", p.a \in P PROVE p \in P
    <3>1. p.lo \in Nat /\ (p.hi = Unbounded \/ (p.hi \in Nat /\ p.lo <= p.hi))
      BY <2>3, WrittenSorts
    <3>2. Quantify(Desugar[p.a], p.lo, p.hi) \in AnyAst
      BY <2>3, <3>1, QuantifyIs
    <3>3. DesugarOnce(Desugar, p) \in AnyAst
      BY <1>1, <2>3, <3>2 DEF DesugarOnce
    <3>. QED  BY <1>13, <3>3
  <2>. HIDE DEF P
  <2>. QED  BY <2>1, <2>2, <2>3, WrittenInduction DEF P
<1>. QED  BY <1>13, <1>14

\* One level of the language of a pattern, given that of the subtrees.
LanguageOnce(f, q, s) ==
  CASE q.op = "epsilon" -> Diagonal(s)
    [] q.op = "char" -> Letters(q.cs, s)
    [] q.op = "assertStart" -> {<<0, 0>>}
    [] q.op = "assertEnd" -> {<<Len(s), Len(s)>>}
    [] q.op = "concat" -> Compose(f[q.a], f[q.b])
    [] q.op = "alt" -> f[q.a] \cup f[q.b]
    [] OTHER -> Powers(f[q.a], q.lo, IF q.hi = Unbounded THEN q.lo + Len(s) ELSE q.hi, s)

LEMMA LeavesMean ==
  ASSUME NEW s \in Seq(Char)
  PROVE  /\ \A cs : Letters(cs, s) \in SUBSET Stretches(s)
         /\ {<<0, 0>>} \in SUBSET Stretches(s) /\ {<<Len(s), Len(s)>>} \in SUBSET Stretches(s)
         /\ Diagonal(s) \in SUBSET Stretches(s)
<1>1. Len(s) \in Nat /\ DOMAIN s = 1 .. Len(s)
  OBVIOUS
<1>2. ASSUME NEW cs, NEW x \in Letters(cs, s) PROVE x \in Stretches(s)
  <2>1. PICK i \in 1 .. Len(s) : x = <<i - 1, i>>
    BY <1>1 DEF Letters
  <2>. QED  BY <1>1, <2>1 DEF Stretches
<1>3. <<0, 0>> \in Stretches(s) /\ <<Len(s), Len(s)>> \in Stretches(s)
  BY <1>1 DEF Stretches
<1>. QED  BY <1>2, <1>3, DiagonalIs

LEMMA PowersAre ==
  ASSUME NEW s \in Seq(Char), NEW R \in SUBSET Stretches(s), NEW lo \in Nat, NEW hi \in Nat
  PROVE  /\ Powers(R, lo, hi, s) \in SUBSET Stretches(s)
         /\ \A x : x \in Powers(R, lo, hi, s) <=> \E n \in lo .. hi : x \in Power(R, n, s)
<1>1. \A n \in lo .. hi : n \in Nat
  OBVIOUS
<1>2. \A x : x \in Powers(R, lo, hi, s) <=> \E n \in lo .. hi : x \in Power(R, n, s)
  BY DEF Powers
<1>3. \A n \in lo .. hi : Power(R, n, s) \in SUBSET Stretches(s)
  BY <1>1, PowerIs
<1>. QED  BY <1>2, <1>3

LEMMA LanguageIs ==
  ASSUME NEW s \in Seq(Char)
  PROVE  \E f \in [Written -> SUBSET Stretches(s)] :
           \A p \in Written : Language(p, s) = f[p] /\ f[p] = LanguageOnce(f, p, s)
<1>. DEFINE U == SUBSET Stretches(s)
            Body(f) == [p \in Written |-> LanguageOnce(f, p, s)]
            spans == CHOOSE f : f = Body(f)
            leaf == [p \in Leaves |-> IF p.op = "epsilon" THEN Diagonal(s)
                                      ELSE IF p.op = "char" THEN Letters(p.cs, s)
                                      ELSE IF p.op = "assertStart" THEN {<<0, 0>>} ELSE {<<Len(s), Len(s)>>}]
            join == [x \in Joins(Written) \X U \X U |->
                       IF x[1].op = "alt" THEN x[2] \cup x[3] ELSE Compose(x[2], x[3])]
            Upper(p) == IF p.hi = Unbounded THEN p.lo + Len(s) ELSE p.hi
            loop == [x \in Loops("repeat", Written) \X U |-> Powers(x[2], x[1].lo, Upper(x[1]), s)]
<1>1. \A x, y \in U : x \cup y \in U /\ Compose(x, y) \in U
  BY ComposeIs
<1>2. Written = Tree("repeat")
  BY DEF Written, Tree
<1>3. \A p : p.op = "char" => Letters(p.cs, s) \in U
  BY LeavesMean
<1>4. leaf \in [Leaves -> U]
  BY <1>3, LeavesMean
<1>5. join \in [Joins(Written) \X U \X U -> U]
  BY <1>1
<1>6. ASSUME NEW q \in Loops("repeat", Written), NEW a \in U PROVE Powers(a, q.lo, Upper(q), s) \in U
  <2>1. q.lo \in Nat /\ (q.hi = Unbounded \/ (q.hi \in Nat /\ q.lo <= q.hi)) /\ Len(s) \in Nat
    BY RepetitionBounds
  <2>2. Upper(q) \in Nat
    BY <2>1
  <2>. QED  BY <2>1, <2>2, PowersAre
<1>7. loop \in [Loops("repeat", Written) \X U -> U]
  BY <1>6
<1>8. \A p \in Leaves : leaf[p] = IF p.op = "epsilon" THEN Diagonal(s)
                                  ELSE IF p.op = "char" THEN Letters(p.cs, s)
                                  ELSE IF p.op = "assertStart" THEN {<<0, 0>>} ELSE {<<Len(s), Len(s)>>}
  OBVIOUS
<1>9. \A q \in Joins(Written), a, b \in U :
        join[<<q, a, b>>] = IF q.op = "alt" THEN a \cup b ELSE Compose(a, b)
  OBVIOUS
<1>10. \A q \in Loops("repeat", Written), a \in U : loop[<<q, a>>] = Powers(a, q.lo, Upper(q), s)
  OBVIOUS
<1>. HIDE DEF leaf, join, loop, U
<1>11. PICK f : Folds(f, "repeat", Written, U, leaf, join, loop)
  BY <1>2, <1>4, <1>5, <1>7, TreeRecursion
<1>12. ASSUME NEW p \in Written PROVE f[p] = LanguageOnce(f, p, s)
  <2>1. f[p] = IF p \in Leaves THEN leaf[p]
               ELSE IF p.op \in {"concat", "alt"} THEN join[<<p, f[p.a], f[p.b]>>]
               ELSE loop[<<p, f[p.a]>>]
    BY <1>11 DEF Folds
  <2>2. \A q \in Written : f[q] \in U
    BY <1>11 DEF Folds
  <2>3. CASE p \in Leaves /\ p.op \in {"epsilon", "assertStart", "assertEnd", "char"}
    BY <1>8, <2>1, <2>3 DEF LanguageOnce
  <2>4. CASE p \in Joins(Written) /\ p \notin Leaves /\ p.op \in {"concat", "alt"} /\ p.a \in Written /\ p.b \in Written
    BY <1>9, <2>1, <2>2, <2>4 DEF LanguageOnce
  <2>5. CASE p \in Loops("repeat", Written) /\ p \notin Leaves /\ p.op = "repeat" /\ p.a \in Written
    <3>1. f[p] = Powers(f[p.a], p.lo, Upper(p), s)
      BY <1>10, <2>1, <2>2, <2>5
    <3>. QED  BY <2>5, <3>1 DEF LanguageOnce
  <2>. QED  BY <2>3, <2>4, <2>5, WrittenSorts
<1>13. f = Body(f)
  <2>1. f = [p \in Written |-> f[p]]
    BY <1>11 DEF Folds
  <2>. QED  BY <1>12, <2>1
<1>14. spans = Body(spans)
  <2>. HIDE DEF Body
  <2>. QED  BY <1>13
<1>15. \A p : Language(p, s) = spans[p]
  BY DEF Language, LanguageOnce
<1>. HIDE DEF spans
<1>16. \A p \in Written : spans[p] = LanguageOnce(spans, p, s)
  BY <1>14
<1>17. Written \subseteq {p \in Written : spans[p] \in U}
  <2>. DEFINE P == {p \in Written : spans[p] \in U}
  <2>1. Leaves \subseteq P
    <3>1. Leaves \subseteq Written
      BY LeavesAreTrees
    <3>2. ASSUME NEW p \in Leaves PROVE spans[p] \in U
      <4>1. p.op \in {"epsilon", "assertStart", "assertEnd", "char"}
        BY DEF Leaves
      <4>2. LanguageOnce(spans, p, s) \in U
        BY <1>3, <4>1, LeavesMean DEF LanguageOnce, U
      <4>. QED  BY <1>16, <3>1, <4>2
    <3>. QED  BY <3>1, <3>2
  <2>2. ASSUME NEW p \in Written, p.op \in {"concat", "alt"}, p.a \in P, p.b \in P PROVE p \in P
    <3>1. LanguageOnce(spans, p, s) \in U
      BY <1>1, <2>2 DEF LanguageOnce
    <3>. QED  BY <1>16, <3>1
  <2>3. ASSUME NEW p \in Written, p.op = "repeat", p.a \in P PROVE p \in P
    <3>1. p \in Loops("repeat", Written)
      BY <2>3, WrittenSorts
    <3>2. spans[p.a] \in U
      BY <2>3
    <3>3. Powers(spans[p.a], p.lo, Upper(p), s) \in U
      BY <1>6, <3>1, <3>2
    <3>4. LanguageOnce(spans, p, s) \in U
      BY <2>3, <3>3 DEF LanguageOnce
    <3>. QED  BY <1>16, <3>4
  <2>. HIDE DEF P
  <2>. QED  BY <2>1, <2>2, <2>3, WrittenInduction DEF P
<1>18. spans \in [Written -> U]
  <2>1. spans = [p \in Written |-> LanguageOnce(spans, p, s)]
    BY <1>14
  <2>. QED  BY <1>16, <1>17, <2>1
<1>. QED  BY <1>15, <1>16, <1>18 DEF U

-----------------------------------------------------------------------------
(* What the compiler appends.                                              *)

LEMMA InstructionsAre ==
  ASSUME NEW n \in Nat, NEW m \in Nat, NEW cs \in SUBSET Char
  PROVE  /\ \A op \in {"char", "assertStart", "assertEnd"} : MkInst(op, cs, <<n>>) \in Inst
         /\ MkInst("split", {}, <<n, m>>) \in Inst
         /\ MkInst("done", {}, <<>>) \in Inst
<1>1. <<n>> \in Seq(Nat) /\ <<n, m>> \in Seq(Nat) /\ <<>> \in Seq(Nat)
  OBVIOUS
<1>. QED  BY <1>1 DEF MkInst, Inst

LEMMA CodeIs ==
  ASSUME NEW c \in Code
  PROVE  c.prog \in Seq(Inst) /\ c.entry \in Nat /\ Len(c.prog) \in Nat
<1>1. c.prog \in Seq(Inst) /\ c.entry \in Nat
  BY DEF Code
<1>. QED  BY <1>1

\* The compiler keeps what is already there.
Extends(r, prog) == Len(prog) <= Len(r.prog) /\ \A k \in 1 .. Len(prog) : r.prog[k] = prog[k]

LEMMA EmitIs ==
  ASSUME NEW prog \in Seq(Inst), NEW inst \in Inst
  PROVE  /\ Emit(prog, inst) \in Code
         /\ Emit(prog, inst).entry = Len(prog) + 1
         /\ Len(Emit(prog, inst).prog) = Len(prog) + 1
         /\ Emit(prog, inst).prog[Len(prog) + 1] = inst
         /\ Extends(Emit(prog, inst), prog)
<1>1. /\ Append(prog, inst) \in Seq(Inst) /\ Len(Append(prog, inst)) = Len(prog) + 1
      /\ Append(prog, inst)[Len(prog) + 1] = inst
      /\ \A k \in 1 .. Len(prog) : Append(prog, inst)[k] = prog[k]
  OBVIOUS
<1>2. Len(prog) \in Nat
  OBVIOUS
<1>. QED  BY <1>1, <1>2 DEF Emit, Code, Extends

LEMMA PatchIs ==
  ASSUME NEW prog \in Seq(Inst), NEW inst \in Inst, NEW pc \in 1 .. Len(prog)
  PROVE  /\ Patch(prog, pc, inst) \in Seq(Inst)
         /\ Len(Patch(prog, pc, inst)) = Len(prog)
         /\ Patch(prog, pc, inst)[pc] = inst
         /\ \A k \in 1 .. Len(prog) : k # pc => Patch(prog, pc, inst)[k] = prog[k]
<1>. QED  BY DEF Patch

LEMMA ExtendsTwice ==
  ASSUME NEW b \in Code, NEW c \in Code, NEW d \in Code, Extends(c, b.prog), Extends(d, c.prog)
  PROVE  Extends(d, b.prog)
<1>1. Len(b.prog) \in Nat /\ Len(c.prog) \in Nat /\ Len(d.prog) \in Nat
  BY CodeIs
<1>2. Len(b.prog) <= Len(c.prog) /\ Len(c.prog) <= Len(d.prog)
  BY DEF Extends
<1>3. ASSUME NEW k \in 1 .. Len(b.prog) PROVE d.prog[k] = b.prog[k]
  <2>1. k \in 1 .. Len(c.prog)
    BY <1>1, <1>2
  <2>. QED  BY <2>1 DEF Extends
<1>. QED  BY <1>1, <1>2, <1>3 DEF Extends

\* One level of the compiler, given what it makes of the subtrees.
CompileOnce(g, h, a, c) ==
  CASE a.op = "epsilon" -> c
    [] a.op = "char" -> Emit(c.prog, MkInst("char", a.cs, <<c.entry>>))
    [] a.op = "concat" -> g[h[c]]
    [] a.op = "alt" ->
         LET l == g[c]
             r == h[[prog |-> l.prog, entry |-> c.entry]]
         IN  Emit(r.prog, MkInst("split", {}, <<l.entry, r.entry>>))
    [] a.op \in {"assertStart", "assertEnd"} -> Emit(c.prog, MkInst(a.op, {}, <<c.entry>>))
    [] OTHER ->
         LET s == Emit(c.prog, MkInst("split", {}, <<1, 1>>))
             r == g[s]
         IN  [prog |-> Patch(r.prog, s.entry, MkInst("split", {}, <<r.entry, c.entry>>)), entry |-> s.entry]

Compiled(r, c) == r \in Code /\ Extends(r, c.prog)

\* It keeps what is there at every level if it does so for the subtrees.
LEMMA CompileOnceIs ==
  ASSUME NEW g, NEW h, NEW a \in Grown("star", Ast), NEW c \in Code,
         a.op \in {"concat", "alt"} => \A d \in Code : Compiled(g[d], d) /\ Compiled(h[d], d),
         a.op = "star" => \A d \in Code : Compiled(g[d], d)
  PROVE  Compiled(CompileOnce(g, h, a, c), c)
<1>1. c.prog \in Seq(Inst) /\ c.entry \in Nat /\ Len(c.prog) \in Nat
  BY CodeIs
<1>8. \/ a \in Leaves /\ a.op \in {"epsilon", "assertStart", "assertEnd", "char"}
      \/ a.op \in {"concat", "alt"}
      \/ a.op = "star"
  BY SortsDiffer DEF Grown
<1>2. CASE a.op = "epsilon"
  <2>1. Extends(c, c.prog)
    BY <1>1 DEF Extends
  <2>. QED  BY <1>2, <2>1 DEF CompileOnce, Compiled
<1>3. CASE a.op = "char"
  <2>1. a \in Leaves
    BY <1>3, <1>8
  <2>2. a.cs \in SUBSET Char
    BY <1>3, <2>1 DEF Leaves
  <2>3. MkInst("char", a.cs, <<c.entry>>) \in Inst
    BY <1>1, <2>2, InstructionsAre
  <2>. QED  BY <1>1, <1>3, <2>3, EmitIs DEF CompileOnce, Compiled
<1>4. CASE a.op \in {"assertStart", "assertEnd"}
  <2>1. MkInst(a.op, {}, <<c.entry>>) \in Inst
    BY <1>1, <1>4, InstructionsAre
  <2>. QED  BY <1>1, <1>4, <2>1, EmitIs DEF CompileOnce, Compiled
<1>5. CASE a.op = "concat"
  <2>. DEFINE r == h[c]
  <2>1. r \in Code /\ Extends(r, c.prog)
    BY <1>5 DEF Compiled
  <2>2. CompileOnce(g, h, a, c) = g[r]
    BY <1>5 DEF CompileOnce
  <2>. HIDE DEF r
  <2>3. g[r] \in Code /\ Extends(g[r], r.prog)
    BY <1>5, <2>1 DEF Compiled
  <2>. QED  BY <2>1, <2>2, <2>3, ExtendsTwice DEF Compiled
<1>6. CASE a.op = "alt"
  <2>. DEFINE l == g[c]
              d == [prog |-> l.prog, entry |-> c.entry]
              r == h[d]
              inst == MkInst("split", {}, <<l.entry, r.entry>>)
  <2>1. l \in Code /\ Extends(l, c.prog)
    BY <1>6 DEF Compiled
  <2>2. CompileOnce(g, h, a, c) = Emit(r.prog, inst)
    BY <1>6 DEF CompileOnce
  <2>. HIDE DEF l
  <2>3. d \in Code /\ Extends(d, c.prog)
    BY <1>1, <2>1, CodeIs DEF Code, Extends
  <2>. HIDE DEF d
  <2>4. r \in Code /\ Extends(r, d.prog)
    BY <1>6, <2>3 DEF Compiled
  <2>. HIDE DEF r
  <2>5. l.entry \in Nat /\ r.entry \in Nat /\ r.prog \in Seq(Inst)
    BY <2>1, <2>4, CodeIs
  <2>6. inst \in Inst
    BY <2>5, InstructionsAre
  <2>. HIDE DEF inst
  <2>7. Emit(r.prog, inst) \in Code /\ Extends(Emit(r.prog, inst), r.prog)
    BY <2>5, <2>6, EmitIs
  <2>8. Extends(r, c.prog)
    BY <2>3, <2>4, ExtendsTwice
  <2>. QED  BY <2>2, <2>4, <2>7, <2>8, ExtendsTwice DEF Compiled
<1>7. CASE a.op = "star"
  <2>. DEFINE s == Emit(c.prog, MkInst("split", {}, <<1, 1>>))
              r == g[s]
              inst == MkInst("split", {}, <<r.entry, c.entry>>)
              e == [prog |-> Patch(r.prog, s.entry, inst), entry |-> s.entry]
  <2>1. /\ s \in Code /\ s.entry = Len(c.prog) + 1 /\ Len(s.prog) = Len(c.prog) + 1
        /\ Extends(s, c.prog)
    <3>1. MkInst("split", {}, <<1, 1>>) \in Inst
      BY InstructionsAre
    <3>. QED  BY <1>1, <3>1, EmitIs
  <2>2. CompileOnce(g, h, a, c) = e
    BY <1>7 DEF CompileOnce
  <2>. HIDE DEF s
  <2>3. r \in Code /\ Extends(r, s.prog)
    BY <1>7, <2>1 DEF Compiled
  <2>. HIDE DEF r
  <2>4. /\ r.entry \in Nat /\ r.prog \in Seq(Inst) /\ Len(r.prog) \in Nat
        /\ s.entry \in Nat /\ Extends(r, c.prog)
    BY <2>1, <2>3, CodeIs, ExtendsTwice
  <2>5. inst \in Inst
    BY <1>1, <2>4, InstructionsAre
  <2>. HIDE DEF inst
  <2>6. s.entry \in 1 .. Len(r.prog)
    BY <1>1, <2>1, <2>3, <2>4 DEF Extends
  <2>7. /\ Patch(r.prog, s.entry, inst) \in Seq(Inst)
        /\ Len(Patch(r.prog, s.entry, inst)) = Len(r.prog)
        /\ \A k \in 1 .. Len(r.prog) : k # s.entry => Patch(r.prog, s.entry, inst)[k] = r.prog[k]
    BY <2>4, <2>5, <2>6, PatchIs
  <2>8. e \in Code
    BY <2>4, <2>7 DEF Code
  <2>9. Extends(e, c.prog)
    <3>1. Len(c.prog) <= Len(r.prog) /\ \A k \in 1 .. Len(c.prog) : r.prog[k] = c.prog[k]
      BY <2>4 DEF Extends
    <3>2. \A k \in 1 .. Len(c.prog) : k \in 1 .. Len(r.prog) /\ k # s.entry
      BY <1>1, <2>1, <2>4, <3>1
    <3>. QED  BY <2>7, <3>1, <3>2 DEF Extends
  <2>. QED  BY <2>2, <2>8, <2>9 DEF Compiled
<1>. QED  BY <1>2, <1>3, <1>4, <1>5, <1>6, <1>7, <1>8

LEMMA AstInduction ==
  ASSUME NEW P, Leaves \subseteq P,
         \A a \in Ast : a.op \in {"concat", "alt"} /\ a.a \in P /\ a.b \in P => a \in P,
         \A a \in Ast : a.op = "star" /\ a.a \in P => a \in P
  PROVE  Ast \subseteq P
<1>1. Ast = Tree("star")
  BY DEF Ast, Tree
<1>2. \A a \in Ast : a \in Joins(Ast) => a.op \in {"concat", "alt"}
  BY DEF Joins
<1>3. \A a \in Ast : a \in Loops("star", Ast) => a.op = "star"
  BY DEF Loops
<1>. QED  BY <1>1, <1>2, <1>3, TreeInduction

\* The compiler follows its recursion, and appends.
LEMMA CompilerIs ==
  ASSUME NEW a \in Ast, NEW c \in Code
  PROVE  /\ CompileNode[a][c] = CompileOnce(CompileNode[a.a], CompileNode[a.b], a, c)
         /\ Compiled(CompileNode[a][c], c)
<1>. DEFINE S == {g \in [Code -> Code] : \A d \in Code : Compiled(g[d], d)}
            Body(f) == [b \in Ast |-> [d \in Code |-> CompileOnce(f[b.a], f[b.b], b, d)]]
            leaf == [b \in Leaves |-> [d \in Code |-> CompileOnce(<<>>, <<>>, b, d)]]
            join == [x \in Joins(Ast) \X S \X S |-> [d \in Code |-> CompileOnce(x[2], x[3], x[1], d)]]
            loop == [x \in Loops("star", Ast) \X S |-> [d \in Code |-> CompileOnce(x[2], <<>>, x[1], d)]]
<1>1. ASSUME NEW b \in Grown("star", Ast), NEW g, NEW h,
             b.op \in {"concat", "alt"} => g \in S /\ h \in S, b.op = "star" => g \in S
      PROVE  [d \in Code |-> CompileOnce(g, h, b, d)] \in S
  <2>1. \A d \in Code : Compiled(CompileOnce(g, h, b, d), d)
    BY <1>1, CompileOnceIs
  <2>2. \A d \in Code : CompileOnce(g, h, b, d) \in Code
    BY <2>1 DEF Compiled
  <2>. QED  BY <2>1, <2>2
<1>2. Ast = Tree("star")
  BY DEF Ast, Tree
<1>3. /\ \A b \in Leaves : b \in Grown("star", Ast) /\ b.op \notin {"concat", "alt", "star"}
      /\ \A b \in Joins(Ast) : b \in Grown("star", Ast) /\ b.op \in {"concat", "alt"}
      /\ \A b \in Loops("star", Ast) : b \in Grown("star", Ast) /\ b.op = "star"
  BY SortsDiffer DEF Grown
<1>. HIDE DEF S
<1>4. leaf \in [Leaves -> S]
  BY <1>1, <1>3
<1>5. join \in [Joins(Ast) \X S \X S -> S]
  BY <1>1, <1>3
<1>6. loop \in [Loops("star", Ast) \X S -> S]
  BY <1>1, <1>3
<1>7. \A b \in Leaves : leaf[b] = [d \in Code |-> CompileOnce(<<>>, <<>>, b, d)]
  OBVIOUS
<1>8. \A b \in Joins(Ast), g, h \in S : join[<<b, g, h>>] = [d \in Code |-> CompileOnce(g, h, b, d)]
  OBVIOUS
<1>9. \A b \in Loops("star", Ast), g \in S : loop[<<b, g>>] = [d \in Code |-> CompileOnce(g, <<>>, b, d)]
  OBVIOUS
<1>. HIDE DEF leaf, join, loop
<1>10. PICK f : Folds(f, "star", Ast, S, leaf, join, loop)
  BY <1>2, <1>4, <1>5, <1>6, TreeRecursion
<1>11. ASSUME NEW b \in Ast PROVE f[b] = [d \in Code |-> CompileOnce(f[b.a], f[b.b], b, d)]
  <2>1. f[b] = IF b \in Leaves THEN leaf[b]
               ELSE IF b.op \in {"concat", "alt"} THEN join[<<b, f[b.a], f[b.b]>>]
               ELSE loop[<<b, f[b.a]>>]
    BY <1>10 DEF Folds
  <2>2. \A q \in Ast : f[q] \in S
    BY <1>10 DEF Folds
  <2>3. CASE b \in Leaves /\ b.op \in {"epsilon", "assertStart", "assertEnd", "char"}
    <3>1. \A d \in Code : CompileOnce(<<>>, <<>>, b, d) = CompileOnce(f[b.a], f[b.b], b, d)
      BY <2>3 DEF CompileOnce
    <3>. QED  BY <1>7, <2>1, <2>3, <3>1
  <2>4. CASE b \in Joins(Ast) /\ b \notin Leaves /\ b.op \in {"concat", "alt"} /\ b.a \in Ast /\ b.b \in Ast
    BY <1>8, <2>1, <2>2, <2>4
  <2>5. CASE b \in Loops("star", Ast) /\ b \notin Leaves /\ b.op = "star" /\ b.a \in Ast
    <3>1. \A d \in Code : CompileOnce(f[b.a], <<>>, b, d) = CompileOnce(f[b.a], f[b.b], b, d)
      BY <2>5 DEF CompileOnce
    <3>2. f[b] = [d \in Code |-> CompileOnce(f[b.a], <<>>, b, d)]
      BY <1>9, <2>1, <2>2, <2>5
    <3>. QED  BY <3>1, <3>2
  <2>. QED  BY <2>3, <2>4, <2>5, AstSorts
<1>12. f = Body(f)
  <2>1. f = [b \in Ast |-> f[b]]
    BY <1>10 DEF Folds
  <2>. QED  BY <1>11, <2>1
<1>13. CompileNode = CHOOSE f_ : f_ = Body(f_)
  BY DEF CompileNode, CompileOnce
<1>14. CompileNode = Body(CompileNode)
  <2>. HIDE DEF Body
  <2>. QED  BY <1>12, <1>13
<1>15. \A b \in Ast : CompileNode[b] = [d \in Code |-> CompileOnce(CompileNode[b.a], CompileNode[b.b], b, d)]
  BY <1>14
<1>16. Ast \subseteq {b \in Ast : CompileNode[b] \in S}
  <2>. DEFINE P == {b \in Ast : CompileNode[b] \in S}
  <2>1. ASSUME NEW b \in Ast, b.op \in {"concat", "alt"} => b.a \in P /\ b.b \in P, b.op = "star" => b.a \in P
        PROVE  b \in P
    <3>1. b \in Grown("star", Ast)
      BY <1>2, Subtrees
    <3>2. b.op \in {"concat", "alt"} => CompileNode[b.a] \in S /\ CompileNode[b.b] \in S
      BY <2>1
    <3>4. b.op = "star" => CompileNode[b.a] \in S
      BY <2>1
    <3>3. [d \in Code |-> CompileOnce(CompileNode[b.a], CompileNode[b.b], b, d)] \in S
      BY <1>1, <3>1, <3>2, <3>4
    <3>5. CompileNode[b] \in S
      BY <1>15, <3>3
    <3>. QED  BY <3>5
  <2>2. Leaves \subseteq P
    BY <1>3, <2>1, LeavesAreTrees
  <2>3. \A b \in Ast : b.op \in {"concat", "alt"} /\ b.a \in P /\ b.b \in P => b \in P
    BY <2>1
  <2>4. \A b \in Ast : b.op = "star" /\ b.a \in P => b \in P
    BY <2>1
  <2>. HIDE DEF P
  <2>. QED  BY <2>2, <2>3, <2>4, AstInduction DEF P
<1>17. Compiled(CompileNode[a][c], c)
  BY <1>16 DEF S
<1>. QED  BY <1>15, <1>17

-----------------------------------------------------------------------------
(* What compiled code does.                                                *)

\* Where an attempt at an instruction and a position can be next.
Moves(P, s, pc, p) ==
  LET i == P[pc]
  IN  IF i.op = "split" THEN {<<i.to[1], p>>, <<i.to[2], p>>}
      ELSE IF \/ i.op = "assertStart" /\ p = 0
              \/ i.op = "assertEnd" /\ p = Len(s) THEN {<<i.to[1], p>>}
      ELSE IF i.op = "char" /\ p < Len(s) /\ s[p + 1] \in i.accepts THEN {<<i.to[1], p + 1>>}
      ELSE {}

\* P has, where r was appended to c, what r has.
Holds(P, r, c) ==
  Len(r.prog) <= Len(P) /\ \A k \in Len(c.prog) + 1 .. Len(r.prog) : P[k] = r.prog[k]

Closed(P, s, S) ==
  \A pc \in 1 .. Len(P), p \in 0 .. Len(s) : <<pc, p>> \in S => Moves(P, s, pc, p) \subseteq S

\* An attempt that enters at i leaves at j, for the stretches <<i, j>> of R.
Delivers(R, enter, leave, S) == \A i, j : <<i, j>> \in R /\ <<enter, i>> \in S => <<leave, j>> \in S

\* Attempts that enter at a position of I stay in the code appended, where
\* none succeeds, until they leave at the end of a stretch of R.
Image(R, I) == {x[2] : x \in {y \in R : y[1] \in I}}
Leaving(R, I, leave) == {<<leave, j>> : j \in Image(R, I)}
Entering(I, enter) == {<<enter, i>> : i \in I}
New(r, c, s) == (Len(c.prog) + 1 .. Len(r.prog)) \X (0 .. Len(s))
Confines(P, s, F, G) == \A x \in F : P[x[1]].op # "done" /\ Moves(P, s, x[1], x[2]) \subseteq G
Kept(P, s, r, c, R, I) ==
  \E F \in SUBSET New(r, c, s) :
    /\ Entering(I, r.entry) \subseteq F \cup Leaving(R, I, c.entry)
    /\ Confines(P, s, F, F \cup Leaving(R, I, c.entry))

\* The code of a tree runs through the stretches of R, and through no others.
Runs(a, R, s, c, P) ==
  /\ \A S : Closed(P, s, S) => Delivers(R, CompileNode[a][c].entry, c.entry, S)
  /\ \A I \in SUBSET (0 .. Len(s)) : Kept(P, s, CompileNode[a][c], c, R, I)
Implements(a, R, s) ==
  \A c \in Code, P \in Seq(Inst) : Holds(P, CompileNode[a][c], c) => Runs(a, R, s, c, P)

LEMMA HoldsInParts ==
  ASSUME NEW b \in Code, NEW c \in Code, NEW d \in Code, NEW P \in Seq(Inst),
         Extends(c, b.prog), Extends(d, c.prog), Holds(P, d, b)
  PROVE  Holds(P, c, b) /\ Holds(P, d, c)
<1>1. Len(b.prog) \in Nat /\ Len(c.prog) \in Nat /\ Len(d.prog) \in Nat /\ Len(P) \in Nat
  BY CodeIs
<1>2. Len(b.prog) <= Len(c.prog) /\ Len(c.prog) <= Len(d.prog) /\ Len(d.prog) <= Len(P)
  BY DEF Extends, Holds
<1>3. ASSUME NEW k \in Len(b.prog) + 1 .. Len(c.prog) PROVE P[k] = c.prog[k]
  <2>1. k \in 1 .. Len(c.prog) /\ k \in Len(b.prog) + 1 .. Len(d.prog)
    BY <1>1, <1>2
  <2>. QED  BY <2>1 DEF Extends, Holds
<1>4. ASSUME NEW k \in Len(c.prog) + 1 .. Len(d.prog) PROVE P[k] = d.prog[k]
  <2>1. k \in Len(b.prog) + 1 .. Len(d.prog)
    BY <1>1, <1>2
  <2>. QED  BY <2>1 DEF Holds
<1>. QED  BY <1>1, <1>2, <1>3, <1>4 DEF Holds

LEMMA ImageIs ==
  ASSUME NEW s \in Seq(Char), NEW R \in SUBSET Stretches(s), NEW I \in SUBSET (0 .. Len(s))
  PROVE  /\ Image(R, I) \in SUBSET (0 .. Len(s))
         /\ \A j : j \in Image(R, I) <=> \E i \in I : <<i, j>> \in R
<1>1. \A x \in R : x = <<x[1], x[2]>> /\ x[1] \in 0 .. Len(s) /\ x[2] \in 0 .. Len(s)
  BY DEF Stretches
<1>2. ASSUME NEW j, j \in Image(R, I) PROVE j \in 0 .. Len(s) /\ \E i \in I : <<i, j>> \in R
  <2>1. PICK x \in R : x[1] \in I /\ j = x[2]
    BY <1>2 DEF Image
  <2>. QED  BY <1>1, <2>1
<1>3. ASSUME NEW j, NEW i \in I, <<i, j>> \in R PROVE j \in Image(R, I)
  <2>. DEFINE x == <<i, j>>
  <2>1. x \in {y \in R : y[1] \in I} /\ j = x[2]
    BY <1>3
  <2>. QED  BY <2>1 DEF Image
<1>. QED  BY <1>2, <1>3

LEMMA LeavingIs ==
  ASSUME NEW s \in Seq(Char), NEW R \in SUBSET Stretches(s), NEW I \in SUBSET (0 .. Len(s)), NEW n
  PROVE  \A pc, j : <<pc, j>> \in Leaving(R, I, n) <=> pc = n /\ \E i \in I : <<i, j>> \in R
<1>. QED  BY ImageIs DEF Leaving

LEMMA EpsilonRuns ==
  ASSUME NEW s \in Seq(Char)
  PROVE  Implements(Epsilon, Diagonal(s), s)
<1>. SUFFICES ASSUME NEW c \in Code, NEW P \in Seq(Inst)
              PROVE  Runs(Epsilon, Diagonal(s), s, c, P)
  BY DEF Implements
<1>1. Epsilon \in Leaves /\ Epsilon.op = "epsilon"
  BY DEF Epsilon, Leaves
<1>2. CompileNode[Epsilon][c] = c
  BY <1>1, LeavesAreTrees, CompilerIs DEF CompileOnce
<1>3. ASSUME NEW S PROVE Delivers(Diagonal(s), c.entry, c.entry, S)
  BY DiagonalIs DEF Delivers
<1>4. ASSUME NEW I \in SUBSET (0 .. Len(s)) PROVE Kept(P, s, c, c, Diagonal(s), I)
  <2>1. Entering(I, c.entry) \subseteq Leaving(Diagonal(s), I, c.entry)
    BY DiagonalIs, LeavingIs DEF Entering
  <2>2. {} \in SUBSET New(c, c, s) /\ Confines(P, s, {}, {} \cup Leaving(Diagonal(s), I, c.entry))
    BY DEF Confines
  <2>. QED  BY <2>1, <2>2 DEF Kept
<1>. QED  BY <1>2, <1>3, <1>4 DEF Runs

\* The code of a leaf other than epsilon is one instruction.
LEMMA InstructionRuns ==
  ASSUME NEW s \in Seq(Char), NEW R \in SUBSET Stretches(s), NEW a \in Leaves, NEW c \in Code, NEW P \in Seq(Inst),
         NEW inst \in Inst, CompileNode[a][c] = Emit(c.prog, inst), Holds(P, CompileNode[a][c], c),
         inst.op # "done",
         \A pc \in 1 .. Len(P) : P[pc] = inst =>
           \A i \in 0 .. Len(s) : \A x : x \in Moves(P, s, pc, i) <=> \E j : <<i, j>> \in R /\ x = <<c.entry, j>>
  PROVE  Runs(a, R, s, c, P)
<1>. DEFINE r == CompileNode[a][c]
            pc == Len(c.prog) + 1
<1>1. c.prog \in Seq(Inst) /\ c.entry \in Nat /\ Len(c.prog) \in Nat /\ Len(P) \in Nat
  BY CodeIs
<1>2. r.entry = pc /\ Len(r.prog) = pc /\ r.prog[pc] = inst
  BY <1>1, EmitIs
<1>3. P[pc] = inst /\ pc \in 1 .. Len(P)
  BY <1>1, <1>2 DEF Holds
<1>. HIDE DEF r
<1>4. \A i \in 0 .. Len(s) : \A x : x \in Moves(P, s, pc, i) <=> \E j : <<i, j>> \in R /\ x = <<c.entry, j>>
  BY <1>3
<1>5. \A i, j : <<i, j>> \in R => i \in 0 .. Len(s)
  BY DEF Stretches
<1>6. ASSUME NEW S, Closed(P, s, S) PROVE Delivers(R, r.entry, c.entry, S)
  <2>. SUFFICES ASSUME NEW i, NEW j, <<i, j>> \in R, <<pc, i>> \in S PROVE <<c.entry, j>> \in S
    BY <1>2 DEF Delivers
  <2>1. i \in 0 .. Len(s)
    BY <1>5
  <2>2. Moves(P, s, pc, i) \subseteq S
    BY <1>3, <1>6, <2>1 DEF Closed
  <2>. QED  BY <1>4, <2>1, <2>2
<1>7. ASSUME NEW I \in SUBSET (0 .. Len(s)) PROVE Kept(P, s, r, c, R, I)
  <2>. DEFINE F == Entering(I, pc)
  <2>1. F \in SUBSET New(r, c, s)
    BY <1>1, <1>2 DEF New, Entering
  <2>2. ASSUME NEW x \in F PROVE P[x[1]].op # "done" /\ Moves(P, s, x[1], x[2]) \subseteq Leaving(R, I, c.entry)
    <3>1. PICK i \in I : x = <<pc, i>>
      BY DEF Entering
    <3>. HIDE DEF pc
    <3>2. ASSUME NEW y \in Moves(P, s, pc, i) PROVE y \in Leaving(R, I, c.entry)
      <4>1. i \in 0 .. Len(s)
        OBVIOUS
      <4>2. \A z : z \in Moves(P, s, pc, i) <=> \E j : <<i, j>> \in R /\ z = <<c.entry, j>>
        BY <1>4, <4>1
      <4>3. \E j : <<i, j>> \in R /\ y = <<c.entry, j>>
        BY <4>2
      <4>4. PICK j : <<i, j>> \in R /\ y = <<c.entry, j>>
        BY <4>3
      <4>. QED  BY <4>4, LeavingIs
    <3>. QED  BY <1>3, <3>1, <3>2
  <2>. HIDE DEF F
  <2>3. Confines(P, s, F, F \cup Leaving(R, I, c.entry))
    BY <2>2 DEF Confines
  <2>4. Entering(I, r.entry) \subseteq F
    BY <1>2 DEF F
  <2>. QED  BY <2>1, <2>3, <2>4 DEF Kept
<1>. QED  BY <1>6, <1>7 DEF Runs, r

LEMMA LetterRuns ==
  ASSUME NEW s \in Seq(Char), NEW a \in Ast, a.op = "char"
  PROVE  Implements(a, Letters(a.cs, s), s)
<1>. DEFINE R == Letters(a.cs, s)
<1>1. a \in Leaves
  BY AstSorts
<1>2. a.cs \in SUBSET Char
  BY <1>1 DEF Leaves
<1>3. R \in SUBSET Stretches(s)
  BY LeavesMean
<1>4. \A i, j : <<i, j>> \in R <=> i \in 0 .. Len(s) /\ i < Len(s) /\ s[i + 1] \in a.cs /\ j = i + 1
  <2>1. ASSUME NEW i, NEW j, <<i, j>> \in R
        PROVE  i \in 0 .. Len(s) /\ i < Len(s) /\ s[i + 1] \in a.cs /\ j = i + 1
    <3>1. PICK k \in DOMAIN s : s[k] \in a.cs /\ i = k - 1 /\ j = k
      BY <2>1 DEF Letters
    <3>2. k \in 1 .. Len(s) /\ Len(s) \in Nat
      OBVIOUS
    <3>3. i + 1 = k
      BY <3>1, <3>2
    <3>. QED  BY <3>1, <3>2, <3>3
  <2>2. ASSUME NEW i \in 0 .. Len(s), i < Len(s), s[i + 1] \in a.cs
        PROVE  <<i, i + 1>> \in R
    <3>. DEFINE k == i + 1
    <3>1. k \in DOMAIN s /\ i = k - 1
      BY <2>2
    <3>2. k \in {j \in DOMAIN s : s[j] \in a.cs}
      BY <2>2, <3>1
    <3>. HIDE DEF k
    <3>3. <<k - 1, k>> \in R
      BY <3>2 DEF Letters
    <3>. QED  BY <3>1, <3>3 DEF k
  <2>. QED  BY <2>1, <2>2
<1>. HIDE DEF R
<1>. SUFFICES ASSUME NEW c \in Code, NEW P \in Seq(Inst), Holds(P, CompileNode[a][c], c)
              PROVE  Runs(a, R, s, c, P)
  BY DEF Implements, R
<1>. DEFINE inst == MkInst("char", a.cs, <<c.entry>>)
<1>5. c.entry \in Nat
  BY CodeIs
<1>6. inst \in Inst
  BY <1>2, <1>5, InstructionsAre
<1>7. CompileNode[a][c] = Emit(c.prog, inst)
  BY CompilerIs DEF CompileOnce
<1>8. inst.op = "char" /\ inst.accepts = a.cs /\ inst.to[1] = c.entry
  BY DEF MkInst
<1>. HIDE DEF inst
<1>9. ASSUME NEW pc \in 1 .. Len(P), P[pc] = inst, NEW i \in 0 .. Len(s), NEW x
      PROVE  x \in Moves(P, s, pc, i) <=> \E j : <<i, j>> \in R /\ x = <<c.entry, j>>
  <2>1. Moves(P, s, pc, i) = IF i < Len(s) /\ s[i + 1] \in a.cs THEN {<<c.entry, i + 1>>} ELSE {}
    BY <1>8, <1>9 DEF Moves
  <2>. QED  BY <1>4, <2>1
<1>10. inst.op # "done"
  BY <1>8
<1>. QED  BY <1>1, <1>3, <1>6, <1>7, <1>9, <1>10, InstructionRuns

LEMMA AssertRuns ==
  ASSUME NEW s \in Seq(Char), NEW a \in Ast, a.op \in {"assertStart", "assertEnd"}
  PROVE  Implements(a, IF a.op = "assertStart" THEN {<<0, 0>>} ELSE {<<Len(s), Len(s)>>}, s)
<1>. DEFINE at == IF a.op = "assertStart" THEN 0 ELSE Len(s)
            R == {<<at, at>>}
<1>1. a \in Leaves
  BY AstSorts
<1>2. R \in SUBSET Stretches(s)
  BY LeavesMean
<1>3. at \in 0 .. Len(s)
  OBVIOUS
<1>. SUFFICES ASSUME NEW c \in Code, NEW P \in Seq(Inst), Holds(P, CompileNode[a][c], c)
              PROVE  Runs(a, R, s, c, P)
  BY DEF Implements
<1>. DEFINE inst == MkInst(a.op, {}, <<c.entry>>)
<1>4. c.entry \in Nat
  BY CodeIs
<1>5. inst \in Inst
  BY <1>4, InstructionsAre
<1>6. CompileNode[a][c] = Emit(c.prog, inst)
  BY CompilerIs DEF CompileOnce
<1>7. inst.op = a.op /\ inst.to[1] = c.entry
  BY DEF MkInst
<1>. HIDE DEF inst
<1>8. ASSUME NEW pc \in 1 .. Len(P), P[pc] = inst, NEW i \in 0 .. Len(s), NEW x
      PROVE  x \in Moves(P, s, pc, i) <=> \E j : <<i, j>> \in R /\ x = <<c.entry, j>>
  <2>1. Moves(P, s, pc, i) = IF i = at THEN {<<c.entry, i>>} ELSE {}
    BY <1>7, <1>8 DEF Moves
  <2>. QED  BY <2>1
<1>9. inst.op # "done"
  BY <1>7
<1>. HIDE DEF R
<1>. QED  BY <1>1, <1>2, <1>5, <1>6, <1>8, <1>9, InstructionRuns

LEMMA ConcatRuns ==
  ASSUME NEW s \in Seq(Char), NEW R \in SUBSET Stretches(s), NEW T \in SUBSET Stretches(s),
         NEW a \in Ast, a.op = "concat", Implements(a.a, R, s), Implements(a.b, T, s)
  PROVE  Implements(a, Compose(R, T), s)
<1>. SUFFICES ASSUME NEW c \in Code, NEW P \in Seq(Inst), Holds(P, CompileNode[a][c], c)
              PROVE  Runs(a, Compose(R, T), s, c, P)
  BY DEF Implements
<1>. DEFINE d == CompileNode[a.b][c]
            e == CompileNode[a.a][d]
            V == Compose(R, T)
<1>1. a.a \in Ast /\ a.b \in Ast
  BY AstSorts
<1>2. d \in Code /\ Extends(d, c.prog)
  BY <1>1, CompilerIs DEF Compiled
<1>3. e \in Code /\ Extends(e, d.prog)
  BY <1>1, <1>2, CompilerIs DEF Compiled
<1>4. CompileNode[a][c] = e
  BY CompilerIs DEF CompileOnce
<1>5. Holds(P, d, c) /\ Holds(P, e, d)
  BY <1>2, <1>3, <1>4, HoldsInParts
<1>6. Runs(a.b, T, s, c, P) /\ Runs(a.a, R, s, d, P)
  BY <1>2, <1>5 DEF Implements
<1>7. /\ \A S : Closed(P, s, S) => Delivers(T, d.entry, c.entry, S) /\ Delivers(R, e.entry, d.entry, S)
      /\ \A I \in SUBSET (0 .. Len(s)) : Kept(P, s, d, c, T, I) /\ Kept(P, s, e, d, R, I)
  BY <1>6 DEF Runs
<1>8. /\ V \in SUBSET Stretches(s)
      /\ \A i, k : <<i, k>> \in V <=> \E j \in 0 .. Len(s) : <<i, j>> \in R /\ <<j, k>> \in T
  BY ComposeIs
<1>. HIDE DEF d, e, V
<1>9. ASSUME NEW S, Closed(P, s, S) PROVE Delivers(V, e.entry, c.entry, S)
  <2>1. Delivers(T, d.entry, c.entry, S) /\ Delivers(R, e.entry, d.entry, S)
    BY <1>7, <1>9
  <2>. QED  BY <1>8, <2>1 DEF Delivers
<1>10. ASSUME NEW I \in SUBSET (0 .. Len(s)) PROVE Kept(P, s, e, c, V, I)
  <2>. DEFINE J == Image(R, I)
  <2>1. J \in SUBSET (0 .. Len(s)) /\ \A j : j \in J <=> \E i \in I : <<i, j>> \in R
    BY ImageIs
  <2>. DEFINE X == Leaving(R, I, d.entry)
              Y == Leaving(T, J, c.entry)
              Z == Leaving(V, I, c.entry)
  <2>2. X = Entering(J, d.entry)
    BY DEF Leaving, Entering
  <2>3. Y = Z
    <3>1. Image(T, J) = Image(V, I)
      <4>1. \A k : k \in Image(T, J) <=> \E j \in J : <<j, k>> \in T
        BY <2>1, ImageIs
      <4>2. \A k : k \in Image(V, I) <=> \E i \in I : <<i, k>> \in V
        BY <1>8, ImageIs
      <4>3. \A k : (\E j \in J : <<j, k>> \in T) <=> \E i \in I : <<i, k>> \in V
        BY <1>8, <2>1
      <4>. HIDE DEF J
      <4>. QED  BY <4>1, <4>2, <4>3
    <3>. QED  BY <3>1 DEF Leaving
  <2>. HIDE DEF J, X, Y, Z
  <2>4. PICK F \in SUBSET New(e, d, s) : Entering(I, e.entry) \subseteq F \cup X /\ Confines(P, s, F, F \cup X)
    BY <1>7 DEF Kept, X
  <2>5. PICK G \in SUBSET New(d, c, s) : Entering(J, d.entry) \subseteq G \cup Y /\ Confines(P, s, G, G \cup Y)
    BY <1>7, <2>1 DEF Kept, Y
  <2>6. X \subseteq G \cup Z
    BY <2>2, <2>3, <2>5
  <2>7. F \cup G \in SUBSET New(e, c, s)
    <3>1. Len(c.prog) \in Nat /\ Len(d.prog) \in Nat /\ Len(e.prog) \in Nat
      BY <1>2, <1>3, CodeIs
    <3>2. Len(c.prog) <= Len(d.prog) /\ Len(d.prog) <= Len(e.prog)
      BY <1>2, <1>3 DEF Extends
    <3>3. New(e, d, s) \subseteq New(e, c, s) /\ New(d, c, s) \subseteq New(e, c, s)
      <4>. DEFINE l == Len(c.prog) m == Len(d.prog) n == Len(e.prog)
      <4>1. (m + 1 .. n) \subseteq (l + 1 .. n) /\ (l + 1 .. m) \subseteq (l + 1 .. n)
        BY <3>1, <3>2
      <4>. HIDE DEF l, m, n
      <4>. QED  BY <4>1 DEF New, l, m, n
    <3>. QED  BY <2>4, <2>5, <3>3
  <2>8. Confines(P, s, F \cup G, (F \cup G) \cup Z)
    BY <2>3, <2>4, <2>5, <2>6 DEF Confines
  <2>9. Entering(I, e.entry) \subseteq (F \cup G) \cup Z
    BY <2>4, <2>6
  <2>. QED  BY <2>7, <2>8, <2>9 DEF Kept, Z
<1>. QED  BY <1>4, <1>9, <1>10 DEF Runs, V

\* More positions are new to longer code.
LEMMA NewGrows ==
  ASSUME NEW s, NEW b \in Code, NEW c \in Code, NEW d \in Code, NEW e \in Code,
         Len(b.prog) <= Len(c.prog), Len(d.prog) <= Len(e.prog)
  PROVE  New(d, c, s) \subseteq New(e, b, s)
<1>. DEFINE j == Len(b.prog)
            k == Len(c.prog)
            m == Len(d.prog)
            n == Len(e.prog)
<1>1. j \in Nat /\ k \in Nat /\ m \in Nat /\ n \in Nat
  BY CodeIs
<1>2. (k + 1 .. m) \subseteq (j + 1 .. n)
  BY <1>1
<1>. HIDE DEF j, k, m, n
<1>. QED  BY <1>2 DEF New, j, k, m, n

LEMMA AltRuns ==
  ASSUME NEW s \in Seq(Char), NEW R \in SUBSET Stretches(s), NEW T \in SUBSET Stretches(s),
         NEW a \in Ast, a.op = "alt", Implements(a.a, R, s), Implements(a.b, T, s)
  PROVE  Implements(a, R \cup T, s)
<1>. SUFFICES ASSUME NEW c \in Code, NEW P \in Seq(Inst), Holds(P, CompileNode[a][c], c)
              PROVE  Runs(a, R \cup T, s, c, P)
  BY DEF Implements
<1>. DEFINE l == CompileNode[a.a][c]
            d == [prog |-> l.prog, entry |-> c.entry]
            r == CompileNode[a.b][d]
            inst == MkInst("split", {}, <<l.entry, r.entry>>)
            e == Emit(r.prog, inst)
            pc == Len(r.prog) + 1
            V == R \cup T
<1>1. a.a \in Ast /\ a.b \in Ast
  BY AstSorts
<1>2. l \in Code /\ Extends(l, c.prog)
  BY <1>1, CompilerIs DEF Compiled
<1>3. CompileNode[a][c] = e
  BY CompilerIs DEF CompileOnce
<1>. HIDE DEF l
<1>4. d \in Code /\ d.prog = l.prog /\ d.entry = c.entry
  BY <1>2, CodeIs DEF Code
<1>. HIDE DEF d
<1>5. r \in Code /\ Extends(r, d.prog)
  BY <1>1, <1>4, CompilerIs DEF Compiled
<1>. HIDE DEF r
<1>6. inst \in Inst
  BY <1>2, <1>5, CodeIs, InstructionsAre
<1>7. /\ e \in Code /\ e.entry = pc /\ Len(e.prog) = pc /\ e.prog[pc] = inst
      /\ Extends(e, r.prog)
  BY <1>5, <1>6, CodeIs, EmitIs
<1>8. Extends(d, c.prog) /\ Extends(e, d.prog)
  BY <1>2, <1>4, <1>5, <1>7, ExtendsTwice DEF Extends
<1>9. Holds(P, d, c) /\ Holds(P, e, d)
  BY <1>3, <1>4, <1>7, <1>8, HoldsInParts
<1>10. Holds(P, r, d) /\ Holds(P, l, c)
  <2>1. Holds(P, r, d)
    BY <1>4, <1>5, <1>7, <1>9, HoldsInParts
  <2>. QED  BY <1>4, <1>9, <2>1 DEF Holds
<1>11. Runs(a.a, R, s, c, P) /\ Runs(a.b, T, s, d, P)
  BY <1>4, <1>10 DEF Implements, l, r
<1>12. /\ \A S : Closed(P, s, S) => Delivers(R, l.entry, c.entry, S) /\ Delivers(T, r.entry, c.entry, S)
       /\ \A I \in SUBSET (0 .. Len(s)) : Kept(P, s, l, c, R, I) /\ Kept(P, s, r, d, T, I)
  BY <1>4, <1>11 DEF Runs, l, r
<1>13. /\ Len(c.prog) \in Nat /\ Len(l.prog) \in Nat /\ Len(r.prog) \in Nat /\ Len(P) \in Nat
       /\ Len(c.prog) <= Len(l.prog) /\ Len(l.prog) <= Len(r.prog) /\ pc <= Len(P)
  BY <1>2, <1>3, <1>4, <1>5, <1>7, CodeIs DEF Extends, Holds
<1>14. pc \in 1 .. Len(P) /\ pc \in Len(c.prog) + 1 .. Len(e.prog)
  BY <1>7, <1>13
<1>15. P[pc] = inst
  BY <1>3, <1>7, <1>14 DEF Holds
<1>16. inst.op = "split" /\ inst.to[1] = l.entry /\ inst.to[2] = r.entry
  BY DEF MkInst
<1>. HIDE DEF inst, e
<1>17. \A i : Moves(P, s, pc, i) = {<<l.entry, i>>, <<r.entry, i>>}
  BY <1>15, <1>16 DEF Moves
<1>. HIDE DEF pc
<1>18. V \in SUBSET Stretches(s) /\ \A i, j : <<i, j>> \in V <=> <<i, j>> \in R \/ <<i, j>> \in T
  OBVIOUS
<1>19. \A i, j : <<i, j>> \in V => i \in 0 .. Len(s)
  BY <1>18 DEF Stretches
<1>. HIDE DEF V
<1>20. ASSUME NEW S, Closed(P, s, S) PROVE Delivers(V, e.entry, c.entry, S)
  <2>1. Delivers(R, l.entry, c.entry, S) /\ Delivers(T, r.entry, c.entry, S)
    BY <1>12, <1>20
  <2>. SUFFICES ASSUME NEW i, NEW j, <<i, j>> \in V, <<pc, i>> \in S PROVE <<c.entry, j>> \in S
    BY <1>7 DEF Delivers
  <2>2. i \in 0 .. Len(s)
    BY <1>19
  <2>3. Moves(P, s, pc, i) \subseteq S
    BY <1>14, <1>20, <2>2 DEF Closed
  <2>4. <<l.entry, i>> \in S /\ <<r.entry, i>> \in S
    BY <1>17, <2>3
  <2>. QED  BY <1>18, <2>1, <2>4 DEF Delivers
<1>21. ASSUME NEW I \in SUBSET (0 .. Len(s)) PROVE Kept(P, s, e, c, V, I)
  <2>. DEFINE X == Leaving(R, I, c.entry)
              Y == Leaving(T, I, c.entry)
              Z == Leaving(V, I, c.entry)
              E == Entering(I, pc)
  <2>1. X \subseteq Z /\ Y \subseteq Z
    <3>1. R \subseteq V /\ T \subseteq V
      BY DEF V
    <3>2. Image(R, I) \subseteq Image(V, I) /\ Image(T, I) \subseteq Image(V, I)
      BY <3>1 DEF Image
    <3>. QED  BY <3>2 DEF Leaving
  <2>. HIDE DEF X, Y, Z
  <2>2. PICK F \in SUBSET New(l, c, s) : Entering(I, l.entry) \subseteq F \cup X /\ Confines(P, s, F, F \cup X)
    BY <1>12 DEF Kept, X
  <2>3. PICK G \in SUBSET New(r, d, s) : Entering(I, r.entry) \subseteq G \cup Y /\ Confines(P, s, G, G \cup Y)
    BY <1>4, <1>12 DEF Kept, Y
  <2>. DEFINE H == (F \cup G) \cup E
  <2>4. H \in SUBSET New(e, c, s)
    <3>1. F \subseteq New(e, c, s) /\ G \subseteq New(e, c, s)
      <4>1. Len(d.prog) \in Nat /\ Len(e.prog) \in Nat /\ Len(e.prog) = Len(r.prog) + 1
        BY <1>4, <1>7, CodeIs DEF pc
      <4>2. New(l, c, s) \subseteq New(e, c, s) /\ New(r, d, s) \subseteq New(e, c, s)
        BY <1>2, <1>4, <1>5, <1>7, <1>13, <4>1, NewGrows
      <4>. QED  BY <2>2, <2>3, <4>2
    <3>2. E \subseteq New(e, c, s)
      BY <1>14 DEF New, Entering
    <3>. QED  BY <3>1, <3>2
  <2>5. ASSUME NEW x \in E PROVE P[x[1]].op # "done" /\ Moves(P, s, x[1], x[2]) \subseteq H \cup Z
    <3>1. PICK i \in I : x = <<pc, i>>
      BY DEF Entering
    <3>2. <<l.entry, i>> \in F \cup X /\ <<r.entry, i>> \in G \cup Y
      BY <2>2, <2>3 DEF Entering
    <3>3. Moves(P, s, pc, i) \subseteq H \cup Z
      BY <1>17, <2>1, <3>2
    <3>. QED  BY <1>15, <1>16, <3>1, <3>3
  <2>6. \A x \in F \cup G : P[x[1]].op # "done" /\ Moves(P, s, x[1], x[2]) \subseteq H \cup Z
    BY <2>1, <2>2, <2>3 DEF Confines
  <2>7. Confines(P, s, H, H \cup Z)
    BY <2>5, <2>6 DEF Confines
  <2>8. Entering(I, e.entry) \subseteq H
    BY <1>7
  <2>. QED  BY <2>4, <2>7, <2>8 DEF Kept, Z
<1>22. Runs(a, V, s, c, P)
  BY <1>3, <1>20, <1>21 DEF Runs
<1>. QED  BY <1>22 DEF V

-----------------------------------------------------------------------------
(* Repetition.                                                             *)

LEMMA SameStretches ==
  ASSUME NEW s, NEW A \in SUBSET Stretches(s), NEW B \in SUBSET Stretches(s),
         \A i, k : <<i, k>> \in A <=> <<i, k>> \in B
  PROVE  A = B
<1>1. \A x \in Stretches(s) : x = <<x[1], x[2]>>
  BY DEF Stretches
<1>2. \A x \in A : x \in B
  BY <1>1
<1>3. \A x \in B : x \in A
  BY <1>1
<1>. QED  BY <1>2, <1>3

LEMMA ComposeAssociates ==
  ASSUME NEW s \in Seq(Char), NEW A \in SUBSET Stretches(s), NEW B \in SUBSET Stretches(s), NEW C \in SUBSET Stretches(s)
  PROVE  Compose(A, Compose(B, C)) = Compose(Compose(A, B), C)
<1>. DEFINE D == Compose(B, C)
            E == Compose(A, B)
            F == Compose(A, D)
            G == Compose(E, C)
<1>1. /\ D \in SUBSET Stretches(s)
      /\ \A i, k : <<i, k>> \in D <=> \E j \in 0 .. Len(s) : <<i, j>> \in B /\ <<j, k>> \in C
  BY ComposeIs
<1>2. /\ E \in SUBSET Stretches(s)
      /\ \A i, k : <<i, k>> \in E <=> \E j \in 0 .. Len(s) : <<i, j>> \in A /\ <<j, k>> \in B
  BY ComposeIs
<1>. HIDE DEF D, E
<1>3. /\ F \in SUBSET Stretches(s)
      /\ \A i, k : <<i, k>> \in F <=> \E j \in 0 .. Len(s) : <<i, j>> \in A /\ <<j, k>> \in D
  BY <1>1, ComposeIs
<1>4. /\ G \in SUBSET Stretches(s)
      /\ \A i, k : <<i, k>> \in G <=> \E j \in 0 .. Len(s) : <<i, j>> \in E /\ <<j, k>> \in C
  BY <1>2, ComposeIs
<1>. HIDE DEF F, G
<1>5. \A i, k : <<i, k>> \in F <=> <<i, k>> \in G
  BY <1>1, <1>2, <1>3, <1>4
<1>6. F = G
  BY <1>3, <1>4, <1>5, SameStretches
<1>. QED  BY <1>6 DEF D, E, F, G

LEMMA DiagonalComposes ==
  ASSUME NEW s \in Seq(Char), NEW A \in SUBSET Stretches(s)
  PROVE  Compose(Diagonal(s), A) = A /\ Compose(A, Diagonal(s)) = A
<1>. DEFINE D == Diagonal(s)
            F == Compose(D, A)
            G == Compose(A, D)
<1>1. D \in SUBSET Stretches(s) /\ \A i, j : <<i, j>> \in D <=> i \in 0 .. Len(s) /\ j = i
  BY DiagonalIs
<1>. HIDE DEF D
<1>2. /\ F \in SUBSET Stretches(s)
      /\ \A i, k : <<i, k>> \in F <=> \E j \in 0 .. Len(s) : <<i, j>> \in D /\ <<j, k>> \in A
  BY <1>1, ComposeIs
<1>3. /\ G \in SUBSET Stretches(s)
      /\ \A i, k : <<i, k>> \in G <=> \E j \in 0 .. Len(s) : <<i, j>> \in A /\ <<j, k>> \in D
  BY <1>1, ComposeIs
<1>4. \A i, j : <<i, j>> \in A => i \in 0 .. Len(s) /\ j \in 0 .. Len(s)
  BY DEF Stretches
<1>. HIDE DEF F, G
<1>5. ASSUME NEW i, NEW k PROVE (<<i, k>> \in F <=> <<i, k>> \in A) /\ (<<i, k>> \in G <=> <<i, k>> \in A)
  <2>1. ASSUME <<i, k>> \in F PROVE <<i, k>> \in A
    <3>1. PICK j \in 0 .. Len(s) : <<i, j>> \in D /\ <<j, k>> \in A
      BY <1>2, <2>1
    <3>2. j = i
      BY <1>1, <3>1
    <3>. QED  BY <3>1, <3>2
  <2>2. <<i, k>> \in A => i \in 0 .. Len(s) /\ k \in 0 .. Len(s)
    BY <1>4
  <2>3. <<i, k>> \in A => <<i, i>> \in D /\ <<k, k>> \in D
    BY <1>1, <2>2
  <2>4. <<i, k>> \in A => <<i, k>> \in F /\ <<i, k>> \in G
    BY <1>2, <1>3, <2>2, <2>3
  <2>5. ASSUME <<i, k>> \in G PROVE <<i, k>> \in A
    <3>1. PICK j \in 0 .. Len(s) : <<i, j>> \in A /\ <<j, k>> \in D
      BY <1>3, <2>5
    <3>2. k = j
      BY <1>1, <3>1
    <3>. QED  BY <3>1, <3>2
  <2>. QED  BY <2>1, <2>4, <2>5
<1>7. F = A /\ G = A
  BY <1>2, <1>3, <1>5, SameStretches
<1>. QED  BY <1>7 DEF D, F, G

LEMMA PowersAdd ==
  ASSUME NEW s \in Seq(Char), NEW R \in SUBSET Stretches(s), NEW m \in Nat, NEW n \in Nat
  PROVE  Power(R, m + n, s) = Compose(Power(R, m, s), Power(R, n, s))
<1>. DEFINE U == SUBSET Stretches(s)
            T == {k \in Nat : Power(R, k + n, s) = Compose(Power(R, k, s), Power(R, n, s))}
<1>1. /\ Power(R, 0, s) = Diagonal(s) /\ \A k \in Nat : Power(R, k, s) \in U
      /\ \A k \in Nat : Power(R, k + 1, s) = Compose(R, Power(R, k, s))
  BY PowerIs
<1>2. \A A, B, C \in U : Compose(A, Compose(B, C)) = Compose(Compose(A, B), C)
  BY ComposeAssociates
<1>3. \A A \in U : Compose(Diagonal(s), A) = A
  BY DiagonalComposes
<1>4. R \in U
  OBVIOUS
<1>. HIDE DEF U
<1>5. 0 \in T
  BY <1>1, <1>3
<1>6. ASSUME NEW k \in Nat, k \in T PROVE k + 1 \in T
  <2>. DEFINE m1 == k + n
              m2 == k + 1
  <2>1. m1 \in Nat /\ m2 \in Nat /\ m1 + 1 = m2 + n
    OBVIOUS
  <2>2. Power(R, m1, s) = Compose(Power(R, k, s), Power(R, n, s))
    BY <1>6
  <2>3. Power(R, m2, s) = Compose(R, Power(R, k, s))
    BY <1>1
  <2>. HIDE DEF m1, m2
  <2>4. Power(R, m1 + 1, s) = Compose(R, Power(R, m1, s))
    BY <1>1, <2>1
  <2>5. Power(R, k, s) \in U /\ Power(R, n, s) \in U
    BY <1>1
  <2>6. Power(R, m1 + 1, s) = Compose(Power(R, m2, s), Power(R, n, s))
    BY <1>2, <1>4, <2>2, <2>3, <2>4, <2>5
  <2>. QED  BY <2>1, <2>6 DEF m2
<1>. HIDE DEF T
<1>7. Nat \subseteq T
  BY <1>5, <1>6, Induction
<1>. QED  BY <1>7 DEF T

\* A stretch needs no more repetitions than it has characters.
LEMMA PowersShorten ==
  ASSUME NEW s \in Seq(Char), NEW R \in SUBSET Stretches(s)
  PROVE  \A n \in Nat : \A i, k : <<i, k>> \in Power(R, n, s) => \E m \in 0 .. n : m <= k - i /\ <<i, k>> \in Power(R, m, s)
<1>. DEFINE Short(n) == \A i, k : <<i, k>> \in Power(R, n, s) => \E m \in 0 .. n : m <= k - i /\ <<i, k>> \in Power(R, m, s)
            T == {n \in Nat : Short(n)}
<1>1. Power(R, 0, s) = Diagonal(s) /\ \A n \in Nat : Power(R, n, s) \in SUBSET Stretches(s)
  BY PowerIs
<1>2. \A i, j, n : /\ <<i, j>> \in R \/ (n \in Nat /\ <<i, j>> \in Power(R, n, s))
                   => i \in 0 .. Len(s) /\ j \in 0 .. Len(s) /\ i <= j
  BY <1>1 DEF Stretches
<1>3. Short(0)
  BY <1>1, DiagonalIs
<1>4. ASSUME NEW n \in Nat, Short(n) PROVE Short(n + 1)
  <2>. SUFFICES ASSUME NEW i, NEW k, <<i, k>> \in Power(R, n + 1, s)
                PROVE  \E m \in 0 .. n + 1 : m <= k - i /\ <<i, k>> \in Power(R, m, s)
    OBVIOUS
  <2>1. Power(R, n + 1, s) = Compose(R, Power(R, n, s)) /\ Power(R, n, s) \in SUBSET Stretches(s)
    BY PowerIs
  <2>2. <<i, k>> \in Compose(R, Power(R, n, s))
    BY <2>1
  <2>3. PICK j \in 0 .. Len(s) : <<i, j>> \in R /\ <<j, k>> \in Power(R, n, s)
    BY <2>1, <2>2, ComposeIs
  <2>4. PICK m \in 0 .. n : m <= k - j /\ <<j, k>> \in Power(R, m, s)
    BY <1>4, <2>3
  <2>5. i \in 0 .. Len(s) /\ j \in 0 .. Len(s) /\ k \in 0 .. Len(s) /\ i <= j /\ j <= k
    BY <1>2, <2>3
  <2>6. CASE i = j
    <3>1. m \in 0 .. n + 1 /\ m <= k - i
      BY <2>4, <2>6
    <3>. QED  BY <2>4, <2>6, <3>1
  <2>7. CASE i # j
    <3>1. <<i, k>> \in Power(R, m + 1, s)
      <4>1. m \in Nat
        OBVIOUS
      <4>2. Power(R, m + 1, s) = Compose(R, Power(R, m, s)) /\ Power(R, m, s) \in SUBSET Stretches(s)
        BY <4>1, PowerIs
      <4>3. <<i, k>> \in Compose(R, Power(R, m, s))
        BY <2>3, <2>4, <4>2, ComposeIs
      <4>. QED  BY <4>2, <4>3
    <3>2. m + 1 \in 0 .. n + 1 /\ m + 1 <= k - i
      BY <2>4, <2>5, <2>7
    <3>. QED  BY <3>1, <3>2
  <2>. QED  BY <2>6, <2>7
<1>5. 0 \in T /\ \A n \in Nat : n \in T => n + 1 \in T
  BY <1>3, <1>4
<1>. HIDE DEF T
<1>6. Nat \subseteq T
  BY <1>5, Induction
<1>. QED  BY <1>6 DEF T

\* As many repetitions as there are characters are as many as one likes.
LEMMA PowersClosed ==
  ASSUME NEW s \in Seq(Char), NEW R \in SUBSET Stretches(s)
  PROVE  /\ Powers(R, 0, Len(s), s) \in SUBSET Stretches(s)
         /\ \A i \in 0 .. Len(s) : <<i, i>> \in Powers(R, 0, Len(s), s)
         /\ \A n \in Nat : Power(R, n, s) \subseteq Powers(R, 0, Len(s), s)
         /\ \A i, j, k : <<i, j>> \in Powers(R, 0, Len(s), s) /\ <<j, k>> \in R => <<i, k>> \in Powers(R, 0, Len(s), s)
<1>. DEFINE V == Powers(R, 0, Len(s), s)
<1>0. 0 \in Nat /\ Len(s) \in Nat
  OBVIOUS
<1>1. V \in SUBSET Stretches(s) /\ \A x : x \in V <=> \E n \in 0 .. Len(s) : x \in Power(R, n, s)
  BY <1>0, PowersAre
<1>. HIDE DEF V
<1>2. ASSUME NEW n \in Nat, NEW x \in Power(R, n, s) PROVE x \in V
  <2>1. Power(R, n, s) \in SUBSET Stretches(s)
    BY PowerIs
  <2>2. PICK i \in 0 .. Len(s), k \in 0 .. Len(s) : x = <<i, k>> /\ i <= k
    BY <2>1 DEF Stretches
  <2>3. PICK m \in 0 .. n : m <= k - i /\ <<i, k>> \in Power(R, m, s)
    BY <2>2, PowersShorten
  <2>4. m \in 0 .. Len(s)
    BY <1>0, <2>2, <2>3
  <2>. QED  BY <1>1, <2>2, <2>3, <2>4
<1>3. \A i \in 0 .. Len(s) : <<i, i>> \in V
  BY <1>2, PowerIs, DiagonalIs
<1>4. ASSUME NEW i, NEW j, NEW k, <<i, j>> \in V, <<j, k>> \in R PROVE <<i, k>> \in V
  <2>1. PICK n \in 0 .. Len(s) : <<i, j>> \in Power(R, n, s)
    BY <1>1, <1>4
  <2>2. n \in Nat
    BY <1>0
  <2>3. j \in 0 .. Len(s)
    BY <1>4 DEF Stretches
  <2>4. Power(R, 1, s) = R
    <3>1. Power(R, 0 + 1, s) = Compose(R, Power(R, 0, s)) /\ Power(R, 0, s) = Diagonal(s)
      BY <1>0, PowerIs
    <3>. QED  BY <3>1, DiagonalComposes
  <2>5. Power(R, n + 1, s) = Compose(Power(R, n, s), R) /\ Power(R, n, s) \in SUBSET Stretches(s)
    BY <2>2, <2>4, PowersAdd, PowerIs
  <2>6. <<i, k>> \in Compose(Power(R, n, s), R)
    BY <1>4, <2>1, <2>3, <2>5, ComposeIs
  <2>7. n + 1 \in Nat
    BY <2>2
  <2>. QED  BY <1>2, <2>5, <2>6, <2>7
<1>. QED  BY <1>1, <1>2, <1>3, <1>4 DEF V

LEMMA StarRuns ==
  ASSUME NEW s \in Seq(Char), NEW R \in SUBSET Stretches(s),
         NEW a \in Ast, a.op = "star", Implements(a.a, R, s)
  PROVE  Implements(a, Powers(R, 0, Len(s), s), s)
<1>. SUFFICES ASSUME NEW c \in Code, NEW P \in Seq(Inst), Holds(P, CompileNode[a][c], c)
              PROVE  Runs(a, Powers(R, 0, Len(s), s), s, c, P)
  BY DEF Implements
<1>. DEFINE d == Emit(c.prog, MkInst("split", {}, <<1, 1>>))
            r == CompileNode[a.a][d]
            inst == MkInst("split", {}, <<r.entry, c.entry>>)
            e == [prog |-> Patch(r.prog, d.entry, inst), entry |-> d.entry]
            pc == Len(c.prog) + 1
            V == Powers(R, 0, Len(s), s)
<1>1. a.a \in Ast
  BY AstSorts
<1>2. CompileNode[a][c] = e
  BY CompilerIs DEF CompileOnce
<1>3. d \in Code /\ d.entry = pc /\ Len(d.prog) = pc /\ Extends(d, c.prog)
  BY CodeIs, InstructionsAre, EmitIs
<1>. HIDE DEF d
<1>4. r \in Code /\ Extends(r, d.prog)
  BY <1>1, <1>3, CompilerIs DEF Compiled
<1>. HIDE DEF r
<1>5. inst \in Inst
  BY <1>3, <1>4, CodeIs, InstructionsAre
<1>6. inst.op = "split" /\ inst.to[1] = r.entry /\ inst.to[2] = c.entry
  BY DEF MkInst
<1>. HIDE DEF inst
<1>7. /\ c.prog \in Seq(Inst) /\ r.prog \in Seq(Inst)
      /\ Len(c.prog) \in Nat /\ Len(r.prog) \in Nat /\ Len(P) \in Nat /\ pc <= Len(r.prog)
  BY <1>3, <1>4, CodeIs DEF Extends
<1>8. pc \in 1 .. Len(r.prog) /\ pc \in Len(c.prog) + 1 .. Len(r.prog)
  BY <1>7
<1>. HIDE DEF pc
<1>9. /\ e.entry = pc /\ Len(e.prog) = Len(r.prog) /\ e.prog[pc] = inst
      /\ \A k \in 1 .. Len(r.prog) : k # pc => e.prog[k] = r.prog[k]
  BY <1>3, <1>5, <1>7, <1>8, PatchIs
<1>. HIDE DEF e
<1>10. Len(r.prog) <= Len(P) /\ \A k \in Len(c.prog) + 1 .. Len(r.prog) : P[k] = e.prog[k]
  BY <1>2, <1>9 DEF Holds
<1>11. P[pc] = inst /\ pc \in 1 .. Len(P)
  BY <1>7, <1>8, <1>9, <1>10
<1>12. Holds(P, r, d)
  <2>1. \A k \in Len(d.prog) + 1 .. Len(r.prog) : k \in Len(c.prog) + 1 .. Len(r.prog) /\ k \in 1 .. Len(r.prog) /\ k # pc
    BY <1>3, <1>7 DEF pc
  <2>. QED  BY <1>9, <1>10, <2>1 DEF Holds
<1>13. Runs(a.a, R, s, d, P)
  BY <1>3, <1>12 DEF Implements, r
<1>14. /\ \A S : Closed(P, s, S) => Delivers(R, r.entry, pc, S)
       /\ \A I \in SUBSET (0 .. Len(s)) : Kept(P, s, r, d, R, I)
  BY <1>3, <1>13 DEF Runs, r
<1>15. \A i : Moves(P, s, pc, i) = {<<r.entry, i>>, <<c.entry, i>>}
  BY <1>6, <1>11 DEF Moves
<1>16. /\ V \in SUBSET Stretches(s)
       /\ \A i \in 0 .. Len(s) : <<i, i>> \in V
       /\ \A i, j, k : <<i, j>> \in V /\ <<j, k>> \in R => <<i, k>> \in V
  BY PowersClosed
<1>17. ASSUME NEW S, Closed(P, s, S) PROVE Delivers(V, e.entry, c.entry, S)
  <2>. DEFINE Circles(n) == \A i, j : <<i, j>> \in Power(R, n, s) /\ <<pc, i>> \in S => <<pc, j>> \in S
              T == {n \in Nat : Circles(n)}
  <2>1. Circles(0)
    <3>1. Power(R, 0, s) = Diagonal(s)
      BY PowerIs
    <3>2. \A i, j : <<i, j>> \in Power(R, 0, s) => j = i
      BY <3>1, DiagonalIs
    <3>. QED  BY <3>2
  <2>2. ASSUME NEW i \in 0 .. Len(s), <<pc, i>> \in S PROVE <<r.entry, i>> \in S /\ <<c.entry, i>> \in S
    <3>1. Moves(P, s, pc, i) \subseteq S
      BY <1>11, <1>17, <2>2 DEF Closed
    <3>. QED  BY <1>15, <3>1
  <2>3. Delivers(R, r.entry, pc, S)
    BY <1>14, <1>17
  <2>4. ASSUME NEW n \in Nat, Circles(n) PROVE Circles(n + 1)
    <3>. SUFFICES ASSUME NEW i, NEW k, <<i, k>> \in Power(R, n + 1, s), <<pc, i>> \in S PROVE <<pc, k>> \in S
      OBVIOUS
    <3>1. Power(R, n + 1, s) = Compose(R, Power(R, n, s)) /\ Power(R, n, s) \in SUBSET Stretches(s)
      BY PowerIs
    <3>2. <<i, k>> \in Compose(R, Power(R, n, s))
      BY <3>1
    <3>3. PICK j \in 0 .. Len(s) : <<i, j>> \in R /\ <<j, k>> \in Power(R, n, s)
      BY <3>1, <3>2, ComposeIs
    <3>4. i \in 0 .. Len(s)
      BY <3>3 DEF Stretches
    <3>5. <<r.entry, i>> \in S
      BY <2>2, <3>4
    <3>6. <<pc, j>> \in S
      BY <2>3, <3>3, <3>5 DEF Delivers
    <3>. QED  BY <2>4, <3>3, <3>6
  <2>5. 0 \in T /\ \A n \in Nat : n \in T => n + 1 \in T
    BY <2>1, <2>4
  <2>. HIDE DEF T
  <2>6. Nat \subseteq T
    BY <2>5, Induction
  <2>. SUFFICES ASSUME NEW i, NEW j, <<i, j>> \in V, <<pc, i>> \in S PROVE <<c.entry, j>> \in S
    BY <1>9 DEF Delivers
  <2>7. PICK n \in 0 .. Len(s) : <<i, j>> \in Power(R, n, s)
    BY PowersAre
  <2>8. n \in T
    BY <2>6
  <2>9. <<pc, j>> \in S
    BY <2>7, <2>8 DEF T
  <2>10. j \in 0 .. Len(s)
    BY <1>16 DEF Stretches
  <2>. QED  BY <2>2, <2>9, <2>10
<1>18. ASSUME NEW I \in SUBSET (0 .. Len(s)) PROVE Kept(P, s, e, c, V, I)
  <2>. DEFINE J == Image(V, I)
              X == Leaving(R, J, pc)
              Z == Leaving(V, I, c.entry)
              E == Entering(J, pc)
  <2>. HIDE DEF V
  <2>1. J \in SUBSET (0 .. Len(s)) /\ \A j : j \in J <=> \E i \in I : <<i, j>> \in V
    BY <1>16, ImageIs
  <2>2. Z = Entering(J, c.entry)
    BY DEF Leaving, Entering
  <2>3. I \subseteq J
    BY <1>16, <2>1
  <2>. HIDE DEF J
  <2>4. ASSUME NEW k \in Image(R, J) PROVE k \in J
    <3>1. PICK j \in J : <<j, k>> \in R
      BY <2>1, ImageIs
    <3>2. PICK i \in I : <<i, j>> \in V
      BY <2>1
    <3>3. <<i, k>> \in V
      BY <1>16, <3>1, <3>2
    <3>. QED  BY <2>1, <3>3
  <2>5. X \subseteq E
    BY <2>4 DEF Leaving, Entering
  <2>. HIDE DEF X, Z
  <2>6. PICK F \in SUBSET New(r, d, s) : Entering(J, r.entry) \subseteq F \cup X /\ Confines(P, s, F, F \cup X)
    BY <1>3, <1>14, <2>1 DEF Kept, X
  <2>. DEFINE H == F \cup E
  <2>7. H \in SUBSET New(e, c, s)
    <3>1. New(r, d, s) \subseteq New(r, c, s) /\ New(r, c, s) = New(e, c, s)
      <4>1. Len(c.prog) <= Len(d.prog)
        BY <1>3 DEF Extends
      <4>. QED  BY <1>3, <1>4, <1>7, <1>9, <4>1, NewGrows DEF New
    <3>2. E \subseteq New(r, c, s)
      BY <1>8, <2>1 DEF New, Entering
    <3>. QED  BY <2>6, <3>1, <3>2
  <2>8. ASSUME NEW x \in E PROVE P[x[1]].op # "done" /\ Moves(P, s, x[1], x[2]) \subseteq H \cup Z
    <3>1. PICK i \in J : x = <<pc, i>>
      BY DEF Entering
    <3>2. <<r.entry, i>> \in F \cup X /\ <<c.entry, i>> \in Z
      BY <2>2, <2>6 DEF Entering
    <3>3. Moves(P, s, pc, i) \subseteq H \cup Z
      BY <1>15, <2>5, <3>2
    <3>. QED  BY <1>6, <1>11, <3>1, <3>3
  <2>9. \A x \in F : P[x[1]].op # "done" /\ Moves(P, s, x[1], x[2]) \subseteq H \cup Z
    BY <2>5, <2>6 DEF Confines
  <2>10. Confines(P, s, H, H \cup Z)
    BY <2>8, <2>9 DEF Confines
  <2>11. Entering(I, e.entry) \subseteq H
    BY <1>9, <2>3 DEF Entering
  <2>. QED  BY <2>7, <2>10, <2>11 DEF Kept, Z
<1>19. Runs(a, V, s, c, P)
  <2>. HIDE DEF V
  <2>. QED  BY <1>2, <1>17, <1>18 DEF Runs
<1>. QED  BY <1>19 DEF V

\* A tree whose code runs through what epsilon's does means what epsilon does.
LEMMA EpsilonOnly ==
  ASSUME NEW s \in Seq(Char), NEW R \in SUBSET Stretches(s), Implements(Epsilon, R, s)
  PROVE  R = Diagonal(s)
<1>. DEFINE P == <<MkInst("done", {}, <<>>)>>
            c == [prog |-> P, entry |-> 1]
<1>1. MkInst("done", {}, <<>>) \in Inst /\ MkInst("done", {}, <<>>).op = "done"
  BY InstructionsAre DEF MkInst
<1>2. P \in Seq(Inst) /\ Len(P) = 1 /\ P[1].op = "done"
  BY <1>1
<1>. HIDE DEF P
<1>3. c \in Code /\ c.prog = P /\ c.entry = 1
  BY <1>2 DEF Code
<1>. HIDE DEF c
<1>4. Epsilon \in Leaves /\ Epsilon.op = "epsilon"
  BY DEF Epsilon, Leaves
<1>5. CompileNode[Epsilon][c] = c
  BY <1>3, <1>4, LeavesAreTrees, CompilerIs DEF CompileOnce
<1>6. Holds(P, c, c)
  <2>1. c.prog = P /\ Len(c.prog) = 1 /\ Len(P) = 1
    BY <1>2, <1>3
  <2>3. 1 <= 1
    OBVIOUS
  <2>2. \A k : P[k] = c.prog[k]
    BY <2>1
  <2>. QED  BY <2>1, <2>2, <2>3 DEF Holds
<1>7. Runs(Epsilon, R, s, c, P)
  BY <1>2, <1>3, <1>5, <1>6 DEF Implements
<1>8. /\ \A S : Closed(P, s, S) => Delivers(R, 1, 1, S)
      /\ \A I \in SUBSET (0 .. Len(s)) : Kept(P, s, c, c, R, I)
  BY <1>3, <1>5, <1>7 DEF Runs
<1>9. \A S : Closed(P, s, S)
  <2>1. \A pc \in 1 .. Len(P) : \A p : Moves(P, s, pc, p) = {}
    BY <1>2 DEF Moves
  <2>. QED  BY <2>1 DEF Closed
<1>10. ASSUME NEW i, NEW j, <<i, j>> \in R PROVE i \in 0 .. Len(s) /\ j = i
  <2>1. Delivers(R, 1, 1, {<<1, i>>})
    BY <1>8, <1>9
  <2>2. <<1, j>> \in {<<1, i>>}
    BY <1>10, <2>1 DEF Delivers
  <2>3. i \in 0 .. Len(s)
    BY <1>10 DEF Stretches
  <2>. QED  BY <2>2, <2>3
<1>11. ASSUME NEW i \in 0 .. Len(s) PROVE <<i, i>> \in R
  <2>. DEFINE I == {i}
  <2>1. PICK F \in SUBSET New(c, c, s) : Entering(I, c.entry) \subseteq F \cup Leaving(R, I, c.entry)
    BY <1>8 DEF Kept
  <2>2. New(c, c, s) = {}
    BY <1>2, <1>3 DEF New
  <2>3. <<1, i>> \in Leaving(R, I, 1)
    BY <1>3, <2>1, <2>2 DEF Entering
  <2>4. I \in SUBSET (0 .. Len(s))
    OBVIOUS
  <2>. HIDE DEF I
  <2>5. \A pc, j : <<pc, j>> \in Leaving(R, I, 1) <=> pc = 1 /\ \E h \in I : <<h, j>> \in R
    BY <2>4, LeavingIs
  <2>6. \E h \in I : <<h, i>> \in R
    BY <2>3, <2>5
  <2>. QED  BY <2>6 DEF I
<1>12. \A i, j : <<i, j>> \in R <=> <<i, j>> \in Diagonal(s)
  <2>1. \A i, j : <<i, j>> \in Diagonal(s) <=> i \in 0 .. Len(s) /\ j = i
    BY DiagonalIs
  <2>2. ASSUME NEW i, NEW j, <<i, j>> \in R PROVE <<i, j>> \in Diagonal(s)
    BY <1>10, <2>1, <2>2
  <2>3. ASSUME NEW i, NEW j, <<i, j>> \in Diagonal(s) PROVE <<i, j>> \in R
    BY <1>11, <2>1, <2>3
  <2>. QED  BY <2>2, <2>3
<1>. QED  BY <1>12, DiagonalIs, SameStretches

LEMMA PartsAreTrees ==
  ASSUME NEW x, NEW y
  PROVE  /\ Concat(x, y) \in Ast => x \in Ast /\ y \in Ast
         /\ Alt(x, y) \in Ast => x \in Ast /\ y \in Ast
         /\ Star(x) \in Ast => x \in Ast
         /\ Epsilon \in Ast
<1>1. /\ Concat(x, y).op = "concat" /\ Concat(x, y).a = x /\ Concat(x, y).b = y
      /\ Alt(x, y).op = "alt" /\ Alt(x, y).a = x /\ Alt(x, y).b = y
      /\ Star(x).op = "star" /\ Star(x).a = x
  BY DEF Concat, Alt, Star
<1>2. Epsilon \in Ast
  BY LeavesAreTrees DEF Epsilon, Leaves
<1>3. ASSUME Concat(x, y) \in Ast PROVE x \in Ast /\ y \in Ast
  BY <1>1, <1>3, AstSorts
<1>4. ASSUME Alt(x, y) \in Ast PROVE x \in Ast /\ y \in Ast
  BY <1>1, <1>4, AstSorts
<1>5. ASSUME Star(x) \in Ast PROVE x \in Ast
  BY <1>1, <1>5, AstSorts
<1>. QED  BY <1>2, <1>3, <1>4, <1>5

LEMMA ConstructorsRun ==
  ASSUME NEW s \in Seq(Char), NEW R \in SUBSET Stretches(s), NEW T \in SUBSET Stretches(s), NEW x, NEW y,
         x \in Ast => Implements(x, R, s), y \in Ast => Implements(y, T, s)
  PROVE  /\ Concat(x, y) \in Ast => Implements(Concat(x, y), Compose(R, T), s)
         /\ Alt(x, y) \in Ast => Implements(Alt(x, y), R \cup T, s)
         /\ Star(x) \in Ast => Implements(Star(x), Powers(R, 0, Len(s), s), s)
<1>1. /\ Concat(x, y).op = "concat" /\ Concat(x, y).a = x /\ Concat(x, y).b = y
      /\ Alt(x, y).op = "alt" /\ Alt(x, y).a = x /\ Alt(x, y).b = y
      /\ Star(x).op = "star" /\ Star(x).a = x
  BY DEF Concat, Alt, Star
<1>2. ASSUME Concat(x, y) \in Ast PROVE Implements(Concat(x, y), Compose(R, T), s)
  BY <1>1, <1>2, PartsAreTrees, ConcatRuns
<1>3. ASSUME Alt(x, y) \in Ast PROVE Implements(Alt(x, y), R \cup T, s)
  BY <1>1, <1>3, PartsAreTrees, AltRuns
<1>4. ASSUME Star(x) \in Ast PROVE Implements(Star(x), Powers(R, 0, Len(s), s), s)
  BY <1>1, <1>4, PartsAreTrees, StarRuns
<1>. QED  BY <1>2, <1>3, <1>4

\* The powers from lo on are those from 0 on after lo of them.
LEMMA PowersFrom ==
  ASSUME NEW s \in Seq(Char), NEW R \in SUBSET Stretches(s), NEW lo \in Nat, NEW m \in Nat
  PROVE  Powers(R, lo, lo + m, s) = Compose(Power(R, lo, s), Powers(R, 0, m, s))
<1>. DEFINE A == Power(R, lo, s)
            B == Powers(R, 0, m, s)
            C == Powers(R, lo, lo + m, s)
            D == Compose(A, B)
<1>1. A \in SUBSET Stretches(s)
  BY PowerIs
<1>2. B \in SUBSET Stretches(s) /\ \A x : x \in B <=> \E n \in 0 .. m : x \in Power(R, n, s)
  BY PowersAre
<1>3. C \in SUBSET Stretches(s) /\ \A x : x \in C <=> \E n \in lo .. lo + m : x \in Power(R, n, s)
  <2>1. lo + m \in Nat
    OBVIOUS
  <2>. QED  BY <2>1, PowersAre
<1>4. /\ D \in SUBSET Stretches(s)
      /\ \A i, k : <<i, k>> \in D <=> \E j \in 0 .. Len(s) : <<i, j>> \in A /\ <<j, k>> \in B
  BY <1>1, <1>2, ComposeIs
<1>5. ASSUME NEW n \in Nat
      PROVE  \A i, k : <<i, k>> \in Power(R, lo + n, s) <=> \E j \in 0 .. Len(s) : <<i, j>> \in A /\ <<j, k>> \in Power(R, n, s)
  <2>1. Power(R, lo + n, s) = Compose(A, Power(R, n, s)) /\ Power(R, n, s) \in SUBSET Stretches(s)
    BY PowersAdd, PowerIs
  <2>. HIDE DEF A
  <2>2. \A i, k : <<i, k>> \in Compose(A, Power(R, n, s)) <=> \E j \in 0 .. Len(s) : <<i, j>> \in A /\ <<j, k>> \in Power(R, n, s)
    BY <1>1, <2>1, ComposeIs
  <2>. QED  BY <2>1, <2>2
<1>. HIDE DEF A, B, C, D
<1>6. ASSUME NEW i, NEW k, <<i, k>> \in C PROVE <<i, k>> \in D
  <2>1. PICK h \in lo .. lo + m : <<i, k>> \in Power(R, h, s)
    BY <1>3, <1>6
  <2>. DEFINE n == h - lo
  <2>2. n \in 0 .. m /\ n \in Nat /\ lo + n = h
    OBVIOUS
  <2>. HIDE DEF n
  <2>3. <<i, k>> \in Power(R, lo + n, s)
    BY <2>1, <2>2
  <2>4. PICK j \in 0 .. Len(s) : <<i, j>> \in A /\ <<j, k>> \in Power(R, n, s)
    BY <1>5, <2>2, <2>3
  <2>5. <<j, k>> \in B
    BY <1>2, <2>2, <2>4
  <2>. QED  BY <1>4, <2>4, <2>5
<1>7. ASSUME NEW i, NEW k, <<i, k>> \in D PROVE <<i, k>> \in C
  <2>1. PICK j \in 0 .. Len(s) : <<i, j>> \in A /\ <<j, k>> \in B
    BY <1>4, <1>7
  <2>2. PICK n \in 0 .. m : <<j, k>> \in Power(R, n, s)
    BY <1>2, <2>1
  <2>3. n \in Nat /\ lo + n \in lo .. lo + m
    OBVIOUS
  <2>4. <<i, k>> \in Power(R, lo + n, s)
    BY <1>5, <2>1, <2>2, <2>3
  <2>. QED  BY <1>3, <2>3, <2>4
<1>8. C = D
  BY <1>3, <1>4, <1>6, <1>7, SameStretches
<1>. QED  BY <1>8 DEF A, B, C, D

LEMMA FewPowers ==
  ASSUME NEW s \in Seq(Char), NEW R \in SUBSET Stretches(s)
  PROVE  /\ \A n \in Nat : Powers(R, n, n, s) = Power(R, n, s)
         /\ Power(R, 1, s) = R
         /\ \A n \in Nat : Powers(R, 0, n + 1, s) = Compose(R, Powers(R, 0, n, s)) \cup Diagonal(s)
<1>1. ASSUME NEW n \in Nat PROVE Powers(R, n, n, s) = Power(R, n, s)
  <2>1. n .. n = {n}
    OBVIOUS
  <2>. QED  BY <2>1 DEF Powers
<1>2. Power(R, 1, s) = R
  <2>1. Power(R, 0 + 1, s) = Compose(R, Power(R, 0, s)) /\ Power(R, 0, s) = Diagonal(s)
    BY PowerIs
  <2>. QED  BY <2>1, DiagonalComposes
<1>3. ASSUME NEW n \in Nat PROVE Powers(R, 0, n + 1, s) = Compose(R, Powers(R, 0, n, s)) \cup Diagonal(s)
  <2>1. Powers(R, 1, 1 + n, s) = Compose(R, Powers(R, 0, n, s))
    BY <1>2, PowersFrom
  <2>2. 0 .. n + 1 = {0} \cup (1 .. 1 + n)
    OBVIOUS
  <2>3. Powers(R, 0, n + 1, s) = Power(R, 0, s) \cup Powers(R, 1, 1 + n, s)
    BY <2>2 DEF Powers
  <2>. QED  BY <2>1, <2>3, PowerIs
<1>. QED  BY <1>1, <1>2, <1>3

LEMMA RepeatNRuns ==
  ASSUME NEW s \in Seq(Char), NEW R \in SUBSET Stretches(s), NEW a \in AnyAst, a \in Ast => Implements(a, R, s)
  PROVE  \A n \in Nat : RepeatN(a, n) \in Ast => Implements(RepeatN(a, n), Power(R, n, s), s)
<1>. DEFINE T == {n \in Nat : RepeatN(a, n) \in Ast => Implements(RepeatN(a, n), Power(R, n, s), s)}
<1>1. 0 \in T
  BY RepeatNIs, PowerIs, EpsilonRuns
<1>2. ASSUME NEW n \in Nat, n \in T PROVE n + 1 \in T
  <2>1. CASE n = 0
    <3>1. RepeatN(a, 1) = a /\ Power(R, 1, s) = R
      BY RepeatNIs, FewPowers
    <3>. QED  BY <2>1, <3>1
  <2>2. CASE n # 0
    <3>. DEFINE m == n + 1
    <3>1. m \in Nat \ {0, 1} /\ m - 1 = n
      BY <2>2
    <3>2. Power(R, m, s) = Compose(R, Power(R, n, s)) /\ Power(R, n, s) \in SUBSET Stretches(s)
      BY PowerIs
    <3>. HIDE DEF m
    <3>3. RepeatN(a, m) = Concat(a, RepeatN(a, n))
      BY <3>1, RepeatNIs
    <3>4. RepeatN(a, n) \in Ast => Implements(RepeatN(a, n), Power(R, n, s), s)
      BY <1>2
    <3>5. RepeatN(a, m) \in Ast => Implements(RepeatN(a, m), Power(R, m, s), s)
      BY <3>2, <3>3, <3>4, ConstructorsRun
    <3>. QED  BY <3>5 DEF m
  <2>. QED  BY <2>1, <2>2
<1>. HIDE DEF T
<1>3. Nat \subseteq T
  BY <1>1, <1>2, Induction
<1>. QED  BY <1>3 DEF T

LEMMA OptChainRuns ==
  ASSUME NEW s \in Seq(Char), NEW R \in SUBSET Stretches(s), NEW a \in AnyAst, a \in Ast => Implements(a, R, s)
  PROVE  \A n \in Nat : OptChain(a, n) \in Ast => Implements(OptChain(a, n), Powers(R, 0, n, s), s)
<1>. DEFINE T == {n \in Nat : OptChain(a, n) \in Ast => Implements(OptChain(a, n), Powers(R, 0, n, s), s)}
<1>1. 0 \in T
  BY OptChainIs, FewPowers, PowerIs, EpsilonRuns
<1>2. ASSUME NEW n \in Nat, n \in T PROVE n + 1 \in T
  <2>. DEFINE m == n + 1
              V == Powers(R, 0, n, s)
              x == Concat(a, OptChain(a, n))
  <2>1. m \in Nat /\ OptChain(a, m) = Alt(x, Epsilon)
    BY OptChainIs
  <2>2. V \in SUBSET Stretches(s)
    BY PowersAre
  <2>3. Powers(R, 0, m, s) = Compose(R, V) \cup Diagonal(s)
    BY FewPowers
  <2>4. OptChain(a, n) \in Ast => Implements(OptChain(a, n), V, s)
    BY <1>2
  <2>. HIDE DEF V
  <2>5. x \in Ast => Implements(x, Compose(R, V), s)
    BY <2>2, <2>4, ConstructorsRun
  <2>6. Compose(R, V) \in SUBSET Stretches(s) /\ Diagonal(s) \in SUBSET Stretches(s)
    BY <2>2, ComposeIs, DiagonalIs
  <2>7. Implements(Epsilon, Diagonal(s), s)
    BY EpsilonRuns
  <2>. HIDE DEF x, m
  <2>8. OptChain(a, m) \in Ast => Implements(OptChain(a, m), Powers(R, 0, m, s), s)
    BY <2>1, <2>3, <2>5, <2>6, <2>7, ConstructorsRun
  <2>. QED  BY <2>8 DEF m
<1>. HIDE DEF T
<1>3. Nat \subseteq T
  BY <1>1, <1>2, Induction
<1>. QED  BY <1>3 DEF T

LEMMA QuantifyRuns ==
  ASSUME NEW s \in Seq(Char), NEW R \in SUBSET Stretches(s), NEW a \in AnyAst, a \in Ast => Implements(a, R, s),
         NEW lo \in Nat, NEW hi, hi = Unbounded \/ (hi \in Nat /\ lo <= hi), Quantify(a, lo, hi) \in Ast
  PROVE  Implements(Quantify(a, lo, hi), Powers(R, lo, IF hi = Unbounded THEN lo + Len(s) ELSE hi, s), s)
<1>. DEFINE q == Quantify(a, lo, hi)
            x == RepeatN(a, lo)
            A == Power(R, lo, s)
<1>1. x \in Ast => Implements(x, A, s)
  BY RepeatNRuns
<1>2. A \in SUBSET Stretches(s) /\ Diagonal(s) \in SUBSET Stretches(s)
  BY PowerIs, DiagonalIs
<1>3. \A m \in Nat : Powers(R, lo, lo + m, s) = Compose(A, Powers(R, 0, m, s)) /\ Powers(R, 0, m, s) \in SUBSET Stretches(s)
  BY PowersFrom, PowersAre
<1>4. Len(s) \in Nat
  OBVIOUS
<1>. HIDE DEF x, A
<1>5. CASE hi = Unbounded /\ lo = 0
  <2>1. q = Star(a)
    BY <1>5 DEF Quantify
  <2>2. Powers(R, 0, 0 + Len(s), s) = Powers(R, 0, Len(s), s)
    BY <1>4
  <2>3. Implements(q, Powers(R, 0, Len(s), s), s)
    BY <2>1, ConstructorsRun
  <2>. QED  BY <1>5, <2>2, <2>3
<1>6. CASE hi = Unbounded /\ lo # 0
  <2>1. q = Concat(x, Star(a))
    BY <1>6 DEF Quantify, x
  <2>2. Star(a) \in Ast => Implements(Star(a), Powers(R, 0, Len(s), s), s)
    BY ConstructorsRun
  <2>3. Implements(q, Compose(A, Powers(R, 0, Len(s), s)), s)
    <3>. DEFINE B == Powers(R, 0, Len(s), s)
                y == Star(a)
    <3>1. B \in SUBSET Stretches(s)
      BY <1>3, <1>4
    <3>. HIDE DEF B, y
    <3>2. Concat(x, y) \in Ast => Implements(Concat(x, y), Compose(A, B), s)
      BY <1>1, <1>2, <2>2, <3>1, ConstructorsRun DEF B, y
    <3>. QED  BY <2>1, <3>2 DEF B, y
  <2>. QED  BY <1>3, <1>4, <1>6, <2>3
<1>7. CASE hi # Unbounded /\ lo = 0 /\ hi = 1
  <2>1. q = Alt(a, Epsilon)
    BY <1>7 DEF Quantify
  <2>2. Implements(q, R \cup Diagonal(s), s)
    BY <1>2, <2>1, EpsilonRuns, ConstructorsRun
  <2>0. 0 \in Nat
    OBVIOUS
  <2>3. Powers(R, 0, 0, s) = Diagonal(s)
    <3>1. Powers(R, 0, 0, s) = Power(R, 0, s)
      BY <2>0, FewPowers
    <3>. QED  BY <3>1, PowerIs
  <2>4. Powers(R, 0, 0 + 1, s) = Compose(R, Diagonal(s)) \cup Diagonal(s)
    <3>1. Powers(R, 0, 0 + 1, s) = Compose(R, Powers(R, 0, 0, s)) \cup Diagonal(s)
      BY <2>0, FewPowers
    <3>. QED  BY <2>3, <3>1
  <2>5. Powers(R, 0, 1, s) = R \cup Diagonal(s)
    BY <2>4, DiagonalComposes
  <2>. QED  BY <1>7, <2>2, <2>5
<1>8. CASE hi # Unbounded /\ ~ (lo = 0 /\ hi = 1) /\ lo = hi
  <2>1. q = x
    BY <1>8 DEF Quantify, x
  <2>2. Powers(R, lo, hi, s) = A
    BY <1>8, FewPowers DEF A
  <2>. QED  BY <1>1, <1>8, <2>1, <2>2
<1>9. CASE hi # Unbounded /\ ~ (lo = 0 /\ hi = 1) /\ lo # hi
  <2>. DEFINE m == hi - lo
              y == OptChain(a, m)
  <2>1. q = Concat(x, y)
    BY <1>9 DEF Quantify, x
  <2>2. m \in Nat /\ lo + m = hi
    BY <1>9
  <2>. HIDE DEF m
  <2>3. y \in Ast => Implements(y, Powers(R, 0, m, s), s)
    BY <2>2, OptChainRuns
  <2>. HIDE DEF y
  <2>4. Implements(q, Compose(A, Powers(R, 0, m, s)), s)
    BY <1>1, <1>2, <1>3, <2>1, <2>2, <2>3, ConstructorsRun
  <2>. QED  BY <1>3, <1>9, <2>2, <2>4
<1>. QED  BY <1>5, <1>6, <1>7, <1>8, <1>9

\* What a pattern is compiled to runs through its language.
LEMMA PatternRuns ==
  ASSUME NEW s \in Seq(Char), NEW q \in Written, Desugar[q] \in Ast
  PROVE  Implements(Desugar[q], Language(q, s), s)
<1>. DEFINE U == SUBSET Stretches(s)
<1>1. PICK f \in [Written -> U] : \A p \in Written : Language(p, s) = f[p] /\ f[p] = LanguageOnce(f, p, s)
  BY LanguageIs
<1>. DEFINE P == {p \in Written : Desugar[p] \in Ast => Implements(Desugar[p], f[p], s)}
<1>2. Leaves \subseteq P
  <2>. SUFFICES ASSUME NEW p \in Leaves PROVE p \in P
    OBVIOUS
  <2>1. p \in Written /\ p \in Ast
    BY LeavesAreTrees
  <2>2. Desugar[p] = p
    <3>1. p.op \in {"epsilon", "assertStart", "assertEnd", "char"}
      BY <2>1, WrittenSorts
    <3>. QED  BY <2>1, <3>1, DesugarIs DEF DesugarOnce
  <2>3. f[p] = LanguageOnce(f, p, s)
    BY <1>1, <2>1
  <2>4. CASE p.op = "epsilon"
    <3>1. p = Epsilon
      BY <2>4 DEF Leaves, Epsilon
    <3>2. f[p] = Diagonal(s)
      BY <2>3, <2>4 DEF LanguageOnce
    <3>. QED  BY <2>1, <2>2, <3>1, <3>2, EpsilonRuns
  <2>5. CASE p.op = "char"
    <3>1. f[p] = Letters(p.cs, s)
      BY <2>3, <2>5 DEF LanguageOnce
    <3>. QED  BY <2>1, <2>2, <2>5, <3>1, LetterRuns
  <2>6. CASE p.op \in {"assertStart", "assertEnd"}
    <3>1. f[p] = IF p.op = "assertStart" THEN {<<0, 0>>} ELSE {<<Len(s), Len(s)>>}
      BY <2>3, <2>6 DEF LanguageOnce
    <3>. QED  BY <2>1, <2>2, <2>6, <3>1, AssertRuns
  <2>. QED  BY <2>4, <2>5, <2>6, SortsDiffer
<1>3. ASSUME NEW p \in Written, p.op \in {"concat", "alt"}, p.a \in P, p.b \in P PROVE p \in P
  <2>1. p.a \in Written /\ p.b \in Written /\ p \notin Leaves
    BY <1>3, WrittenSorts
  <2>. DEFINE x == Desugar[p.a]
              y == Desugar[p.b]
              A == f[p.a]
              B == f[p.b]
  <2>2. (x \in Ast => Implements(x, A, s)) /\ (y \in Ast => Implements(y, B, s))
    BY <1>3
  <2>3. A \in SUBSET Stretches(s) /\ B \in SUBSET Stretches(s) /\ f[p] = LanguageOnce(f, p, s)
    BY <1>1, <2>1
  <2>4. Desugar[p] = DesugarOnce(Desugar, p)
    BY DesugarIs
  <2>. HIDE DEF U
  <2>5. CASE p.op = "alt"
    <3>1. Desugar[p] = Alt(x, y)
      BY <2>1, <2>4, <2>5 DEF DesugarOnce
    <3>2. f[p] = A \cup B
      BY <2>3, <2>5 DEF LanguageOnce
    <3>3. Desugar[p] \in Ast => Implements(Desugar[p], f[p], s)
      <4>. HIDE DEF x, y, A, B
      <4>1. Alt(x, y) \in Ast => Implements(Alt(x, y), A \cup B, s)
        BY <2>2, <2>3, ConstructorsRun
      <4>. QED  BY <3>1, <3>2, <4>1
    <3>. QED  BY <3>3
  <2>6. CASE p.op = "concat"
    <3>1. Desugar[p] = IF y = Epsilon THEN x ELSE Concat(x, y)
      BY <2>1, <2>4, <2>6 DEF DesugarOnce
    <3>2. f[p] = Compose(A, B)
      BY <2>3, <2>6 DEF LanguageOnce
    <3>3. Desugar[p] \in Ast => Implements(Desugar[p], f[p], s)
      <4>. HIDE DEF x, y, A, B
      <4>1. CASE y = Epsilon
        <5>1. Implements(Epsilon, B, s)
          BY <2>2, <4>1, PartsAreTrees
        <5>2. B = Diagonal(s)
          BY <2>3, <5>1, EpsilonOnly
        <5>3. f[p] = A
          BY <2>3, <3>2, <5>2, DiagonalComposes
        <5>. QED  BY <2>2, <3>1, <4>1, <5>3
      <4>2. CASE y # Epsilon
        <5>1. Concat(x, y) \in Ast => Implements(Concat(x, y), Compose(A, B), s)
          BY <2>2, <2>3, ConstructorsRun
        <5>. QED  BY <3>1, <3>2, <4>2, <5>1
      <4>. QED  BY <4>1, <4>2
    <3>. QED  BY <3>3
  <2>. QED  BY <1>3, <2>5, <2>6
<1>4. ASSUME NEW p \in Written, p.op = "repeat", p.a \in P PROVE p \in P
  <2>1. /\ p.a \in Written /\ p \notin Leaves /\ p.lo \in Nat
        /\ p.hi = Unbounded \/ (p.hi \in Nat /\ p.lo <= p.hi)
    BY <1>4, WrittenSorts
  <2>. DEFINE x == Desugar[p.a]
  <2>2. (x \in Ast => Implements(x, f[p.a], s)) /\ x \in AnyAst
    BY <1>4, <2>1, DesugarIs
  <2>3. f[p.a] \in SUBSET Stretches(s) /\ f[p] = LanguageOnce(f, p, s)
    BY <1>1, <2>1
  <2>4. Desugar[p] = Quantify(x, p.lo, p.hi)
    BY <1>4, <2>1, DesugarIs DEF DesugarOnce
  <2>5. f[p] = Powers(f[p.a], p.lo, IF p.hi = Unbounded THEN p.lo + Len(s) ELSE p.hi, s)
    BY <1>4, <2>3 DEF LanguageOnce
  <2>6. Desugar[p] \in Ast => Implements(Desugar[p], f[p], s)
    <3>. HIDE DEF x
    <3>. QED  BY <2>1, <2>2, <2>3, <2>4, <2>5, QuantifyRuns
  <2>. QED  BY <2>6
<1>. HIDE DEF P
<1>5. Written \subseteq P
  BY <1>2, <1>3, <1>4, WrittenInduction
<1>. QED  BY <1>1, <1>5 DEF P

-----------------------------------------------------------------------------
(* The program of a pattern, and the search.                               *)

Start == Emit(<<>>, MkInst("done", {}, <<>>))
CompiledPattern == CompileNode[Desugar[pattern]][Start]

LEMMA StartIs ==
  /\ Start \in Code /\ Start.entry = 1 /\ Len(Start.prog) = 1
  /\ Start.prog[1] = MkInst("done", {}, <<>>)
<1>1. <<>> \in Seq(Inst) /\ Len(<<>>) = 0 /\ 0 + 1 = 1
  OBVIOUS
<1>2. MkInst("done", {}, <<>>) \in Inst
  BY InstructionsAre
<1>. QED  BY <1>1, <1>2, EmitIs DEF Start

LEMMA CompiledProgramIs ==
  ASSUME TypeOK
  PROVE  /\ pattern \in Written /\ Desugar[pattern] \in Ast /\ input \in Seq(Char)
         /\ CompiledPattern \in Code /\ Extends(CompiledPattern, Start.prog)
         /\ Prog = CompiledPattern.prog /\ Entry = CompiledPattern.entry
         /\ Size >= 1 /\ At(1).op = "done"
<1>1. pattern \in Written /\ Desugar[pattern] \in Ast /\ input \in Seq(Char) /\ ProgOf[pattern] = Compile(pattern)
  BY CompilerAssumption, ProgramAssumption DEF TypeOK
<1>2. CompiledPattern \in Code /\ Extends(CompiledPattern, Start.prog)
  BY <1>1, StartIs, CompilerIs DEF CompiledPattern, Compiled
<1>3. Prog = CompiledPattern.prog /\ Entry = CompiledPattern.entry
  BY <1>1 DEF Prog, Entry, Compile, CompileAst, CompiledPattern, Start
<1>4. Len(CompiledPattern.prog) \in Nat /\ 1 <= Len(CompiledPattern.prog) /\ CompiledPattern.prog[1] = MkInst("done", {}, <<>>)
  BY <1>2, StartIs, CodeIs DEF Extends
<1>5. Size >= 1 /\ At(1).op = "done"
  BY <1>3, <1>4 DEF Size, At, MkInst
<1>. QED  BY <1>1, <1>2, <1>3, <1>5

LEMMA MovesAre ==
  ASSUME TypeOK, NEW pc \in Pcs, NEW p \in 0 .. Len(input)
  PROVE  /\ \A k \in DOMAIN Eps(pc, p) : <<Eps(pc, p)[k], p>> \in Moves(Prog, input, pc, p)
         /\ p < Len(input) /\ Takes(pc, p + 1) => <<At(pc).to[1], p + 1>> \in Moves(Prog, input, pc, p)
         /\ \A y \in Moves(Prog, input, pc, p) :
              \/ \E k \in DOMAIN Eps(pc, p) : y = <<Eps(pc, p)[k], p>>
              \/ p < Len(input) /\ Takes(pc, p + 1) /\ y = <<At(pc).to[1], p + 1>>
<1>. DEFINE i == At(pc)
            M == Moves(Prog, input, pc, p)
<1>1. i \in Inst /\ Len(i.to) = Arity(i.op)
  BY ProgramAssumption DEF TypeOK, WellFormed, At, Prog, Pcs, Pc
<1>2. i.to \in Seq(Nat) /\ DOMAIN i.to = 1 .. Len(i.to)
  BY <1>1 DEF Inst
<1>3. i = Prog[pc]
  BY DEF At
<1>4. Eps(pc, p) = IF i.op = "split" \/ (i.op = "assertStart" /\ p = 0) \/ (i.op = "assertEnd" /\ p = Len(input)) THEN i.to ELSE <<>>
  BY DEF Eps
<1>5. Takes(pc, p + 1) <=> i.op = "char" /\ input[p + 1] \in i.accepts
  BY DEF Takes
<1>6. M = IF i.op = "split" THEN {<<i.to[1], p>>, <<i.to[2], p>>}
          ELSE IF (i.op = "assertStart" /\ p = 0) \/ (i.op = "assertEnd" /\ p = Len(input)) THEN {<<i.to[1], p>>}
          ELSE IF i.op = "char" /\ p < Len(input) /\ input[p + 1] \in i.accepts THEN {<<i.to[1], p + 1>>}
          ELSE {}
  BY <1>3 DEF Moves
<1>. HIDE DEF i, M
<1>7. CASE i.op = "split"
  <2>1. Eps(pc, p) = i.to /\ DOMAIN i.to = {1, 2}
    BY <1>1, <1>2, <1>4, <1>7 DEF Arity
  <2>2. M = {<<i.to[1], p>>, <<i.to[2], p>>} /\ ~ Takes(pc, p + 1)
    BY <1>5, <1>6, <1>7
  <2>. QED  BY <2>1, <2>2 DEF i, M
<1>8. CASE (i.op = "assertStart" /\ p = 0) \/ (i.op = "assertEnd" /\ p = Len(input))
  <2>1. Eps(pc, p) = i.to /\ DOMAIN i.to = {1}
    BY <1>1, <1>2, <1>4, <1>8 DEF Arity
  <2>2. M = {<<i.to[1], p>>} /\ ~ Takes(pc, p + 1)
    BY <1>5, <1>6, <1>8
  <2>. QED  BY <2>1, <2>2 DEF i, M
<1>9. CASE i.op # "split" /\ ~ ((i.op = "assertStart" /\ p = 0) \/ (i.op = "assertEnd" /\ p = Len(input)))
  <2>1. Eps(pc, p) = <<>> /\ DOMAIN <<>> = {}
    BY <1>4, <1>9
  <2>2. M = IF p < Len(input) /\ Takes(pc, p + 1) THEN {<<i.to[1], p + 1>>} ELSE {}
    BY <1>5, <1>6, <1>9
  <2>. QED  BY <2>1, <2>2 DEF i, M
<1>. QED  BY <1>7, <1>8, <1>9

LEMMA AcceptsLanguage ==
  ASSUME TypeOK
  PROVE  Accepts <=> Language(pattern, input) # {}
<1>. DEFINE L == Language(pattern, input)
            s == input
<1>1. /\ pattern \in Written /\ Desugar[pattern] \in Ast /\ s \in Seq(Char)
      /\ CompiledPattern \in Code /\ Extends(CompiledPattern, Start.prog)
      /\ Prog = CompiledPattern.prog /\ Entry = CompiledPattern.entry /\ At(1).op = "done"
  BY CompiledProgramIs
<1>2. /\ Size \in Nat /\ Pcs = 1 .. Size /\ Entry \in Pcs /\ Len(s) \in Nat /\ Size = Len(Prog) /\ 1 \in Pcs
      /\ State = Pcs \X (0 .. Len(s))
  BY ProgramFacts, CompiledProgramIs DEF Size, State, Pcs
<1>3. L \in SUBSET Stretches(s)
  BY <1>1, LanguageIs
<1>4. Holds(Prog, CompiledPattern, Start) /\ Prog \in Seq(Inst)
  BY <1>1, <1>2, CodeIs DEF Holds
<1>5. Runs(Desugar[pattern], L, s, Start, Prog)
  BY <1>1, <1>4, StartIs, PatternRuns DEF Implements, CompiledPattern
<1>6. /\ \A S : Closed(Prog, s, S) => Delivers(L, Entry, 1, S)
      /\ \A I \in SUBSET (0 .. Len(s)) : Kept(Prog, s, CompiledPattern, Start, L, I)
  BY <1>1, <1>5, StartIs DEF Runs, CompiledPattern
<1>. HIDE DEF L
<1>7. ASSUME NEW x \in L PROVE Accepts
  <2>1. PICK i \in 0 .. Len(s), j \in 0 .. Len(s) : x = <<i, j>>
    BY <1>3 DEF Stretches
  <2>2. ASSUME NEW S \in SUBSET State, Run(S) PROVE <<1, j>> \in S
    <3>1. Closed(Prog, s, S)
      <4>. SUFFICES ASSUME NEW pc \in 1 .. Len(Prog), NEW p \in 0 .. Len(s), <<pc, p>> \in S,
                           NEW y \in Moves(Prog, s, pc, p)
                    PROVE  y \in S
        BY DEF Closed
      <4>1. pc \in Pcs
        BY <1>2
      <4>2. /\ \A k \in DOMAIN Eps(pc, p) : <<Eps(pc, p)[k], p>> \in S
            /\ p < Len(s) /\ Takes(pc, p + 1) => <<At(pc).to[1], p + 1>> \in S
        BY <2>2 DEF Run
      <4>3. \/ \E k \in DOMAIN Eps(pc, p) : y = <<Eps(pc, p)[k], p>>
            \/ p < Len(s) /\ Takes(pc, p + 1) /\ y = <<At(pc).to[1], p + 1>>
        BY <4>1, MovesAre
      <4>. QED  BY <4>2, <4>3
    <3>2. <<Entry, i>> \in S
      BY <2>2 DEF Run
    <3>. QED  BY <1>6, <2>1, <3>1, <3>2 DEF Delivers
  <2>3. <<1, j>> \in State
    BY <1>2
  <2>4. <<1, j>> \in Reachable
    BY <2>2, <2>3 DEF Reachable
  <2>. QED  BY <1>1, <2>4 DEF Accepts
<1>8. ASSUME L = {} PROVE ~ Accepts
  <2>. DEFINE I == 0 .. Len(s)
              X == Leaving(L, I, Start.entry)
  <2>1. X = {}
    BY <1>8 DEF Leaving, Image
  <2>6. \E F \in SUBSET New(CompiledPattern, Start, s) :
          Entering(I, CompiledPattern.entry) \subseteq F \cup X /\ Confines(Prog, s, F, F \cup X)
    BY <1>6 DEF Kept
  <2>. HIDE DEF X
  <2>2. PICK F \in SUBSET New(CompiledPattern, Start, s) : Entering(I, Entry) \subseteq F /\ Confines(Prog, s, F, F)
    <3>1. \A F : F \cup X = F
      BY <2>1
    <3>. QED  BY <1>1, <2>6, <3>1
  <2>3. F \subseteq State
    <3>1. New(CompiledPattern, Start, s) \subseteq State
      BY <1>1, <1>2, StartIs DEF New
    <3>. QED  BY <2>2, <3>1
  <2>4. Run(F)
    <3>1. \A p \in 0 .. Len(s) : <<Entry, p>> \in F
      BY <2>2 DEF Entering
    <3>2. ASSUME NEW x \in F
          PROVE  /\ \A k \in DOMAIN Eps(x[1], x[2]) : <<Eps(x[1], x[2])[k], x[2]>> \in F
                 /\ x[2] < Len(s) /\ Takes(x[1], x[2] + 1) => <<At(x[1]).to[1], x[2] + 1>> \in F
      <4>1. x[1] \in Pcs /\ x[2] \in 0 .. Len(s)
        BY <1>2, <2>3
      <4>2. Moves(Prog, s, x[1], x[2]) \subseteq F
        BY <2>2 DEF Confines
      <4>. QED  BY <4>1, <4>2, MovesAre
    <3>. QED  BY <3>1, <3>2 DEF Run
  <2>5. Reachable \subseteq F
    BY <2>3, <2>4 DEF Reachable
  <2>. QED  BY <2>2, <2>5 DEF Accepts, Confines, At
<1>. QED  BY <1>7, <1>8 DEF L

\* The search answers "match" exactly when some stretch of the input is in the
\* language of the pattern: what the parser desugars, the compiler emits and
\* the machine runs (Regex.lean, from quantifyCore to search) agrees, for every
\* pattern and every string, with what the pattern means.
THEOREM SearchMatchesLanguage ==
  Spec => []MatchesLanguage
<1>1. TypeOK /\ AnswersAcceptance => MatchesLanguage
  <2>. SUFFICES ASSUME TypeOK, AnswersAcceptance, answer # "searching"
                PROVE  answer = "match" <=> Language(pattern, input) # {}
    BY DEF MatchesLanguage
  <2>1. answer \in {"match", "none"}
    BY DEF TypeOK
  <2>. QED  BY <2>1, AcceptsLanguage DEF AnswersAcceptance
<1>. QED  BY <1>1, TypeCorrect, SearchIsExact, PTL

-----------------------------------------------------------------------------
(* The compiler leaves no dangling index.                                  *)

Sound(i, n) == Len(i.to) = Arity(i.op) /\ \A j \in DOMAIN i.to : i.to[j] \in 1 .. n
Wired(c) ==
  /\ c \in Code /\ c.entry \in 1 .. Len(c.prog)
  /\ \A k \in 1 .. Len(c.prog) : Sound(c.prog[k], Len(c.prog))

LEMMA InstructionsAreSound ==
  ASSUME NEW N \in Nat, NEW n \in 1 .. N, NEW m \in 1 .. N, NEW cs
  PROVE  /\ \A op \in {"char", "assertStart", "assertEnd"} : Sound(MkInst(op, cs, <<n>>), N)
         /\ Sound(MkInst("split", cs, <<n, m>>), N)
         /\ Sound(MkInst("done", cs, <<>>), N)
<1>1. DOMAIN <<>> = {} /\ Len(<<>>) = 0 /\ DOMAIN <<n>> = {1} /\ Len(<<n>>) = 1
  OBVIOUS
<1>2. DOMAIN <<n, m>> = {1, 2} /\ Len(<<n, m>>) = 2
  OBVIOUS
<1>. QED  BY <1>1, <1>2 DEF Sound, MkInst, Arity

LEMMA SoundStays ==
  ASSUME NEW i, NEW m \in Nat, NEW n \in Nat, m <= n, Sound(i, m)
  PROVE  Sound(i, n)
<1>1. 1 .. m \subseteq 1 .. n
  OBVIOUS
<1>. QED  BY <1>1 DEF Sound

LEMMA EmitWires ==
  ASSUME NEW c, Wired(c), NEW inst \in Inst, Sound(inst, Len(c.prog))
  PROVE  Wired(Emit(c.prog, inst))
<1>. DEFINE e == Emit(c.prog, inst)
            n == Len(c.prog)
<1>1. c.prog \in Seq(Inst) /\ n \in Nat /\ \A k \in 1 .. n : Sound(c.prog[k], n)
  BY CodeIs DEF Wired
<1>2. /\ e \in Code /\ e.entry = n + 1 /\ Len(e.prog) = n + 1 /\ e.prog[n + 1] = inst
      /\ \A k \in 1 .. n : e.prog[k] = c.prog[k]
  BY <1>1, EmitIs DEF Extends
<1>3. n + 1 \in Nat /\ n <= n + 1 /\ e.entry \in 1 .. Len(e.prog)
  BY <1>1, <1>2
<1>. HIDE DEF e
<1>4. ASSUME NEW k \in 1 .. n + 1 PROVE Sound(e.prog[k], n + 1)
  <2>1. CASE k = n + 1
    BY <1>1, <1>2, <1>3, <2>1, SoundStays DEF n
  <2>2. CASE k \in 1 .. n
    BY <1>1, <1>2, <1>3, <2>2, SoundStays
  <2>. QED  BY <1>1, <2>1, <2>2
<1>5. Wired(e)
  BY <1>2, <1>3, <1>4 DEF Wired
<1>. QED  BY <1>5 DEF e

LEMMA CompilerWires ==
  ASSUME NEW a \in Ast
  PROVE  \A c : Wired(c) => Wired(CompileNode[a][c])
<1>. DEFINE P == {b \in Ast : \A c : Wired(c) => Wired(CompileNode[b][c])}
<1>1. ASSUME NEW b \in Ast, b.op \in {"concat", "alt"} => b.a \in P /\ b.b \in P, b.op = "star" => b.a \in P,
             NEW c, Wired(c)
      PROVE  Wired(CompileNode[b][c])
  <2>. DEFINE r == CompileNode[b][c]
  <2>1. c \in Code /\ c.entry \in 1 .. Len(c.prog) /\ Len(c.prog) \in Nat /\ c.prog \in Seq(Inst) /\ c.entry \in Nat
    BY <1>1, CodeIs DEF Wired
  <2>2. r = CompileOnce(CompileNode[b.a], CompileNode[b.b], b, c)
    BY <2>1, CompilerIs
  <2>. HIDE DEF r
  <2>3. CASE b.op = "epsilon"
    <3>1. r = c
      BY <2>2, <2>3 DEF CompileOnce
    <3>. QED  BY <1>1, <3>1 DEF r
  <2>4. CASE b.op = "char" \/ b.op \in {"assertStart", "assertEnd"}
    <3>. DEFINE cs == IF b.op = "char" THEN b.cs ELSE {}
                inst == MkInst(b.op, cs, <<c.entry>>)
    <3>1. r = Emit(c.prog, inst)
      BY <2>2, <2>4 DEF CompileOnce
    <3>2. cs \in SUBSET Char
      BY <2>4, AstSorts DEF Leaves
    <3>. HIDE DEF cs
    <3>3. inst \in Inst
      BY <2>1, <2>4, <3>2, InstructionsAre
    <3>4. Sound(inst, Len(c.prog))
      BY <2>1, <2>4, InstructionsAreSound
    <3>. HIDE DEF inst
    <3>. QED  BY <1>1, <3>1, <3>3, <3>4, EmitWires DEF r
  <2>5. CASE b.op = "concat"
    <3>1. r = CompileNode[b.a][CompileNode[b.b][c]]
      BY <2>2, <2>5 DEF CompileOnce
    <3>2. Wired(CompileNode[b.b][c])
      BY <1>1, <2>5
    <3>3. Wired(r)
      BY <1>1, <2>5, <3>1, <3>2
    <3>. QED  BY <3>3 DEF r
  <2>6. CASE b.op = "alt"
    <3>. DEFINE l == CompileNode[b.a][c]
                d == [prog |-> l.prog, entry |-> c.entry]
                t == CompileNode[b.b][d]
                inst == MkInst("split", {}, <<l.entry, t.entry>>)
    <3>1. r = Emit(t.prog, inst)
      BY <2>2, <2>6 DEF CompileOnce
    <3>2. Wired(l) /\ b.a \in Ast /\ b.b \in Ast
      BY <1>1, <2>6
    <3>3. Extends(l, c.prog)
      BY <2>1, <3>2, CompilerIs DEF Compiled
    <3>. HIDE DEF l
    <3>4. l.prog \in Seq(Inst) /\ Len(l.prog) \in Nat /\ l.entry \in 1 .. Len(l.prog)
      BY <3>2, CodeIs DEF Wired
    <3>5. Wired(d) /\ d.prog = l.prog
      <4>1. d \in Code /\ d.prog = l.prog /\ d.entry = c.entry
        BY <2>1, <3>4 DEF Code
      <4>. HIDE DEF d
      <4>2. c.entry \in 1 .. Len(l.prog)
        BY <2>1, <3>3, <3>4 DEF Extends
      <4>. QED  BY <3>2, <4>1, <4>2 DEF Wired
    <3>. HIDE DEF d
    <3>6. d \in Code /\ Wired(t)
      BY <1>1, <2>6, <3>5 DEF Wired
    <3>7. Extends(t, d.prog)
      BY <3>2, <3>6, CompilerIs DEF Compiled
    <3>. HIDE DEF t
    <3>8. /\ t.prog \in Seq(Inst) /\ Len(t.prog) \in Nat /\ t.entry \in 1 .. Len(t.prog)
          /\ t.entry \in Nat /\ l.entry \in Nat
      BY <3>2, <3>6, CodeIs DEF Wired
    <3>9. l.entry \in 1 .. Len(t.prog)
      BY <3>4, <3>5, <3>7, <3>8 DEF Extends
    <3>10. inst \in Inst
      BY <3>8, InstructionsAre
    <3>11. Sound(inst, Len(t.prog))
      BY <3>8, <3>9, InstructionsAreSound
    <3>. HIDE DEF inst
    <3>. QED  BY <3>1, <3>6, <3>10, <3>11, EmitWires DEF r
  <2>7. CASE b.op = "star"
    <3>. DEFINE one == MkInst("split", {}, <<1, 1>>)
                s == Emit(c.prog, one)
                t == CompileNode[b.a][s]
                inst == MkInst("split", {}, <<t.entry, c.entry>>)
                e == [prog |-> Patch(t.prog, s.entry, inst), entry |-> s.entry]
    <3>1. r = e
      BY <2>2, <2>7 DEF CompileOnce
    <3>2. one \in Inst /\ Sound(one, Len(c.prog)) /\ 1 \in 1 .. Len(c.prog)
      <4>1. 1 \in 1 .. Len(c.prog) /\ 1 \in Nat
        BY <2>1
      <4>2. one \in Inst
        BY <4>1, InstructionsAre
      <4>. QED  BY <2>1, <4>1, <4>2, InstructionsAreSound
    <3>. HIDE DEF one
    <3>3. Wired(s) /\ s \in Code /\ s.entry = Len(c.prog) + 1 /\ Extends(s, c.prog)
      BY <1>1, <2>1, <3>2, EmitWires, EmitIs
    <3>. HIDE DEF s
    <3>4. Wired(t) /\ b.a \in Ast
      BY <1>1, <2>7, <3>3
    <3>5. Extends(t, s.prog)
      BY <3>3, <3>4, CompilerIs DEF Compiled
    <3>. HIDE DEF t
    <3>6. /\ t.prog \in Seq(Inst) /\ Len(t.prog) \in Nat /\ t.entry \in 1 .. Len(t.prog)
          /\ t.entry \in Nat /\ t \in Code /\ \A k \in 1 .. Len(t.prog) : Sound(t.prog[k], Len(t.prog))
      BY <3>4, CodeIs DEF Wired
    <3>7. s.entry \in 1 .. Len(t.prog) /\ c.entry \in 1 .. Len(t.prog)
      <4>1. s.entry \in 1 .. Len(s.prog) /\ Len(s.prog) \in Nat /\ Len(c.prog) <= Len(s.prog) /\ Len(s.prog) <= Len(t.prog)
        BY <3>3, <3>5, CodeIs DEF Wired, Extends
      <4>. QED  BY <2>1, <3>6, <4>1
    <3>8. inst \in Inst
      BY <2>1, <3>6, InstructionsAre
    <3>9. Sound(inst, Len(t.prog))
      BY <3>6, <3>7, InstructionsAreSound
    <3>. HIDE DEF inst
    <3>10. /\ Patch(t.prog, s.entry, inst) \in Seq(Inst) /\ Len(Patch(t.prog, s.entry, inst)) = Len(t.prog)
           /\ Patch(t.prog, s.entry, inst)[s.entry] = inst
           /\ \A k \in 1 .. Len(t.prog) : k # s.entry => Patch(t.prog, s.entry, inst)[k] = t.prog[k]
      BY <3>6, <3>7, <3>8, PatchIs
    <3>11. e \in Code /\ e.prog = Patch(t.prog, s.entry, inst) /\ e.entry = s.entry
      BY <3>6, <3>7, <3>10 DEF Code
    <3>. HIDE DEF e
    <3>12. Len(e.prog) = Len(t.prog) /\ \A k \in 1 .. Len(t.prog) : Sound(e.prog[k], Len(t.prog))
      BY <3>6, <3>9, <3>10, <3>11
    <3>13. Wired(e)
      BY <3>7, <3>11, <3>12 DEF Wired
    <3>. QED  BY <3>1, <3>13 DEF r
  <2>. QED  BY <2>3, <2>4, <2>5, <2>6, <2>7, AstSorts
<1>2. Leaves \subseteq P
  <2>1. \A b \in Leaves : b \in Ast /\ b.op \notin {"concat", "alt", "star"}
    BY LeavesAreTrees, AstSorts
  <2>. QED  BY <1>1, <2>1
<1>3. \A b \in Ast : b.op \in {"concat", "alt"} /\ b.a \in P /\ b.b \in P => b \in P
  <2>. SUFFICES ASSUME NEW b \in Ast, b.op \in {"concat", "alt"}, b.a \in P, b.b \in P,
                       NEW c, Wired(c)
                PROVE  Wired(CompileNode[b][c])
    OBVIOUS
  <2>. HIDE DEF P
  <2>. QED  BY <1>1
<1>4. \A b \in Ast : b.op = "star" /\ b.a \in P => b \in P
  <2>. SUFFICES ASSUME NEW b \in Ast, b.op = "star", b.a \in P, NEW c, Wired(c)
                PROVE  Wired(CompileNode[b][c])
    OBVIOUS
  <2>. HIDE DEF P
  <2>. QED  BY <1>1
<1>. HIDE DEF P
<1>5. Ast \subseteq P
  BY <1>2, <1>3, <1>4, AstInduction
<1>. QED  BY <1>5 DEF P

\* Every program the compiler makes has its entry and all its targets inside
\* it, and as many targets for an instruction as its kind has (compileAst):
\* what the machine is given is well formed, as ProgramAssumption says.
THEOREM CompiledProgramsAreWellFormed ==
  \A p \in Written : Desugar[p] \in Ast => WellFormed(Compile(p))
<1>. SUFFICES ASSUME NEW p \in Written, Desugar[p] \in Ast PROVE WellFormed(Compile(p))
  OBVIOUS
<1>. DEFINE r == CompileNode[Desugar[p]][Start]
<1>1. Wired(Start)
  <2>1. 1 \in Nat /\ 1 \in 1 .. 1
    OBVIOUS
  <2>2. Sound(MkInst("done", {}, <<>>), 1)
    BY <2>1, InstructionsAreSound
  <2>3. \A k \in 1 .. 1 : k = 1
    OBVIOUS
  <2>. QED  BY <2>1, <2>2, <2>3, StartIs DEF Wired
<1>2. Wired(r)
  BY <1>1, CompilerWires
<1>3. Compile(p) = [insts |-> r.prog, entry |-> r.entry]
  BY DEF Compile, CompileAst, Start
<1>. HIDE DEF r
<1>4. r.prog \in Seq(Inst) /\ DOMAIN r.prog = 1 .. Len(r.prog) /\ r.entry \in 1 .. Len(r.prog)
  BY <1>2, CodeIs DEF Wired
<1>5. Compile(p).insts = r.prog /\ Compile(p).entry = r.entry /\ Pc(Compile(p)) = 1 .. Len(r.prog)
  BY <1>3, <1>4 DEF Pc
<1>6. \A k \in 1 .. Len(r.prog) : Sound(r.prog[k], Len(r.prog))
  BY <1>2 DEF Wired
<1>. QED  BY <1>4, <1>5, <1>6 DEF WellFormed, Sound
=============================================================================
