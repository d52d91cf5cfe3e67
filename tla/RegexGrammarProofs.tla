------------------------- MODULE RegexGrammarProofs -------------------------
(***************************************************************************)
(* Proofs about RegexGrammar: what the parser of the plugin accepts the    *)
(* parser of the runtime accepts, and the converse but for the forms that  *)
(* the plugin refuses on purpose.                                          *)
(***************************************************************************)
EXTENDS RegexGrammar, TLAPS, WellFoundedInduction

-----------------------------------------------------------------------------
(* Induction and recursion on the naturals, with sets and functions in the *)
(* place of predicates and operators.                                      *)

LEMMA LeastNumber ==
  ASSUME NEW T, T \subseteq Nat, T # {}
  PROVE  \E x \in T : \A y \in T : x <= y
<1>. DEFINE Below == {ss \in Nat \X Nat : ss[1] < ss[2]}
<1>1. IsWellFoundedOn(Below, Nat)
  BY NatLessThanWellFounded DEF OpToRel
<1>2. \A x, y \in Nat : <<y, x>> \in Below <=> y < x
  OBVIOUS
<1>. HIDE DEF Below
<1>3. PICK x \in T : \A y \in T : ~(<<y, x>> \in Below)
  BY <1>1, WFMin
<1>4. \A y \in T : ~(y < x)
  BY <1>2, <1>3
<1>5. \A y \in T : x <= y
  BY <1>4
<1>. QED  BY <1>5

LEMMA Induction ==
  ASSUME NEW T, 0 \in T, \A n \in Nat : n \in T => n + 1 \in T
  PROVE  Nat \subseteq T
<1>. SUFFICES ASSUME Nat \ T # {} PROVE FALSE
  OBVIOUS
<1>1. PICK x \in Nat \ T : \A y \in Nat \ T : x <= y
  BY LeastNumber
<1>2. x # 0 /\ x - 1 \in Nat
  BY <1>1
<1>3. x - 1 \in T
  BY <1>1, <1>2
<1>4. (x - 1) + 1 \in T
  BY <1>2, <1>3
<1>. QED  BY <1>1, <1>4

\* The functions that follow a recursion up to n.
Segment(n, S, s0, step) ==
  {g \in [0 .. n -> S] : g[0] = s0 /\ \A i \in 0 .. n - 1 : g[i + 1] = step[<<i, g[i]>>]}

LEMMA SegmentsExist ==
  ASSUME NEW S, NEW s0 \in S, NEW step \in [Nat \X S -> S], NEW n \in Nat
  PROVE  Segment(n, S, s0, step) # {}
<1>. DEFINE T == {k \in Nat : Segment(k, S, s0, step) # {}}
<1>1. 0 \in T
  <2>. DEFINE g == [k \in 0 .. 0 |-> s0]
  <2>1. g \in [0 .. 0 -> S] /\ g[0] = s0
    OBVIOUS
  <2>2. \A i \in 0 .. 0 - 1 : FALSE
    OBVIOUS
  <2>3. g \in Segment(0, S, s0, step)
    BY <2>1, <2>2 DEF Segment
  <2>. QED  BY <2>3
<1>2. ASSUME NEW k \in Nat, k \in T PROVE k + 1 \in T
  <2>1. PICK g : g \in Segment(k, S, s0, step)
    BY <1>2
  <2>. DEFINE h == [i \in 0 .. k + 1 |-> IF i = k + 1 THEN step[<<k, g[k]>>] ELSE g[i]]
  <2>2. g \in [0 .. k -> S] /\ g[0] = s0 /\ \A i \in 0 .. k - 1 : g[i + 1] = step[<<i, g[i]>>]
    BY <2>1 DEF Segment
  <2>3. g[k] \in S /\ step[<<k, g[k]>>] \in S
    BY <2>2
  <2>4. h \in [0 .. k + 1 -> S]
    BY <2>2, <2>3
  <2>5. h[0] = s0
    BY <2>2
  <2>6. ASSUME NEW i \in 0 .. (k + 1) - 1 PROVE h[i + 1] = step[<<i, h[i]>>]
    <3>1. CASE i = k
      <4>1. k + 1 \in 0 .. k + 1 /\ k \in 0 .. k + 1 /\ k # k + 1
        OBVIOUS
      <4>2. h[k + 1] = step[<<k, g[k]>>] /\ h[k] = g[k]
        BY <4>1
      <4>. QED  BY <3>1, <4>2
    <3>2. CASE i # k
      <4>1. i \in 0 .. k - 1 /\ i + 1 # k + 1 /\ i # k + 1 /\ i + 1 \in 0 .. k + 1
        BY <3>2
      <4>. QED  BY <2>2, <4>1
    <3>. QED  BY <3>1, <3>2
  <2>7. h \in Segment(k + 1, S, s0, step)
    BY <2>4, <2>5, <2>6 DEF Segment
  <2>. QED  BY <2>7
<1>. HIDE DEF T
<1>3. Nat \subseteq T
  BY <1>1, <1>2, Induction
<1>. QED  BY <1>3 DEF T

LEMMA SegmentsAgree ==
  ASSUME NEW S, NEW s0 \in S, NEW step \in [Nat \X S -> S], NEW n \in Nat,
         NEW g, g \in Segment(n, S, s0, step), NEW h, h \in Segment(n + 1, S, s0, step)
  PROVE  h[n] = g[n]
<1>. DEFINE T == {k \in Nat : k <= n => h[k] = g[k]}
<1>1. 0 \in T
  BY DEF Segment
<1>2. ASSUME NEW k \in Nat, k \in T PROVE k + 1 \in T
  <2>. SUFFICES ASSUME k + 1 <= n PROVE h[k + 1] = g[k + 1]
    OBVIOUS
  <2>1. h[k] = g[k]
    BY <1>2
  <2>2. k \in 0 .. n - 1 /\ k \in 0 .. (n + 1) - 1
    OBVIOUS
  <2>. QED  BY <2>1, <2>2 DEF Segment
<1>. HIDE DEF T
<1>3. Nat \subseteq T
  BY <1>1, <1>2, Induction
<1>. QED  BY <1>3 DEF T

Recurses(f, S, s0, step) ==
  f \in [Nat -> S] /\ f[0] = s0 /\ \A n \in Nat : f[n + 1] = step[<<n, f[n]>>]

LEMMA Recursion ==
  ASSUME NEW S, NEW s0 \in S, NEW step \in [Nat \X S -> S]
  PROVE  \E f : Recurses(f, S, s0, step)
<1>. DEFINE g(n) == CHOOSE x : x \in Segment(n, S, s0, step)
            f == [n \in Nat |-> g(n)[n]]
<1>1. ASSUME NEW n \in Nat PROVE g(n) \in Segment(n, S, s0, step)
  BY SegmentsExist
<1>2. ASSUME NEW n \in Nat PROVE f[n + 1] = step[<<n, f[n]>>]
  <2>1. g(n) \in Segment(n, S, s0, step) /\ g(n + 1) \in Segment(n + 1, S, s0, step)
    BY <1>1
  <2>. HIDE DEF g
  <2>2. \A a, b : a \in Segment(n, S, s0, step) /\ b \in Segment(n + 1, S, s0, step) => b[n] = a[n]
    BY SegmentsAgree
  <2>5. g(n + 1)[n] = g(n)[n]
    BY <2>1, <2>2
  <2>3. n \in 0 .. (n + 1) - 1
    OBVIOUS
  <2>4. g(n + 1)[n + 1] = step[<<n, g(n + 1)[n]>>]
    BY <2>1, <2>3 DEF Segment
  <2>. QED  BY <2>4, <2>5
<1>3. g(0)[0] = s0
  BY <1>1 DEF Segment
<1>4. \A n \in Nat : g(n)[n] \in S
  BY <1>1 DEF Segment
<1>. HIDE DEF g
<1>5. f \in [Nat -> S] /\ f[0] = s0
  BY <1>3, <1>4
<1>. QED  BY <1>2, <1>5 DEF Recurses

-----------------------------------------------------------------------------
(* Characters, runs of characters and the numbers they spell.              *)

LEMMA Characters ==
  /\ Digits = {"0", "1", "2", "3", "4", "5", "6", "7", "8", "9"}
  /\ HexDigits = Digits \cup {"a", "b", "c", "d", "e", "f"}
<1>1. 1 .. 10 = {1, 2, 3, 4, 5, 6, 7, 8, 9, 10}
  OBVIOUS
<1>2. 1 .. 16 = {1, 2, 3, 4, 5, 6, 7, 8, 9, 10, 11, 12, 13, 14, 15, 16}
  OBVIOUS
<1>3. Digits = {"0", "1", "2", "3", "4", "5", "6", "7", "8", "9"}
  BY <1>1 DEF Digits, Hex
<1>4. HexDigits = {"0", "1", "2", "3", "4", "5", "6", "7", "8", "9", "a", "b", "c", "d", "e", "f"}
  BY <1>2 DEF HexDigits, Hex
<1>. QED  BY <1>3, <1>4

LEMMA NoDigits ==
  {End, LBrace, RBrace, Comma} \cap HexDigits = {} /\ {End, LBrace, RBrace, Comma} \cap Digits = {}
BY Characters DEF End, LBrace, RBrace, Comma

LEMMA AtIs ==
  ASSUME NEW p \in Seq(STRING)
  PROVE  /\ Len(p) \in Nat
         /\ \A i \in 1 .. Len(p) : At(p, i) = p[i]
         /\ At(p, Len(p) + 1) = End
         /\ \A i \in Nat : At(p, i) # End => i <= Len(p)
<1>1. Len(p) \in Nat
  OBVIOUS
<1>. QED  BY <1>1 DEF At

\* A run of characters of S from i on, and the character after it.
IsRun(p, i, j, S) == j \in i .. Len(p) + 1 /\ At(p, j) \notin S /\ \A k \in i .. j - 1 : p[k] \in S

LEMMA RunsExist ==
  ASSUME NEW p \in Seq(STRING), NEW i \in 1 .. Len(p) + 1, NEW S, End \notin S
  PROVE  \E j \in i .. Len(p) + 1 : IsRun(p, i, j, S)
<1>1. Len(p) \in Nat
  OBVIOUS
<1>. DEFINE T == {j \in i .. Len(p) + 1 : At(p, j) \notin S}
<1>2. Len(p) + 1 \in T
  BY AtIs
<1>3. T \subseteq Nat
  OBVIOUS
<1>. HIDE DEF T
<1>4. PICK j \in T : \A k \in T : j <= k
  BY <1>2, <1>3, LeastNumber
<1>5. j \in i .. Len(p) + 1 /\ At(p, j) \notin S
  BY <1>4 DEF T
<1>6. ASSUME NEW k \in i .. j - 1 PROVE p[k] \in S
  <2>1. k \notin T /\ k \in i .. Len(p) + 1 /\ k \in 1 .. Len(p)
    BY <1>1, <1>4, <1>5
  <2>. QED  BY <2>1, AtIs DEF T
<1>. QED  BY <1>5, <1>6 DEF IsRun

LEMMA RunsAgree ==
  ASSUME NEW p \in Seq(STRING), NEW i \in 1 .. Len(p) + 1, NEW S,
         NEW j, IsRun(p, i, j, S), NEW k, IsRun(p, i, k, S)
  PROVE  j = k
<1>1. Len(p) \in Nat /\ j \in i .. Len(p) + 1 /\ k \in i .. Len(p) + 1
  BY DEF IsRun
<1>2. ~(j < k)
  <2>. SUFFICES ASSUME j < k PROVE FALSE
    OBVIOUS
  <2>1. j \in i .. k - 1 /\ j \in 1 .. Len(p)
    BY <1>1
  <2>. QED  BY <2>1, AtIs DEF IsRun
<1>3. ~(k < j)
  <2>. SUFFICES ASSUME k < j PROVE FALSE
    OBVIOUS
  <2>1. k \in i .. j - 1 /\ k \in 1 .. Len(p)
    BY <1>1
  <2>. QED  BY <2>1, AtIs DEF IsRun
<1>. QED  BY <1>1, <1>2, <1>3

LEMMA SpanIsRun ==
  ASSUME NEW p \in Seq(STRING), NEW i \in 1 .. Len(p) + 1, NEW S, End \notin S
  PROVE  IsRun(p, i, Span(p, i, S), S)
<1>1. PICK j \in i .. Len(p) + 1 : IsRun(p, i, j, S)
  BY RunsExist
<1>2. \E x \in i .. (Len(p) + 1) : At(p, x) \notin S /\ \A k \in i .. (x - 1) : p[k] \in S
  BY <1>1 DEF IsRun
<1>. QED  BY <1>2 DEF Span, IsRun

\* The recursion that spells a number does compute one.
Spells(value, p, i, j, base) ==
  /\ value \in [0 .. j - i -> Nat]
  /\ NatOf(p, i, j, base) = value[j - i]
  /\ value[0] = 0
  /\ \A k \in 0 .. j - i - 1 : value[k + 1] = value[k] * base + Digit(p[i + k])

LEMMA DigitValue ==
  ASSUME NEW c \in HexDigits
  PROVE  Digit(c) \in Nat /\ Digit(c) <= 15
<1>. DEFINE d == CHOOSE k \in 1 .. 16 : Hex[k] = c
<1>1. d \in 1 .. 16
  BY DEF HexDigits
<1>2. Digit(c) = d - 1
  BY DEF Digit
<1>. HIDE DEF d
<1>. QED  BY <1>1, <1>2

LEMMA Spelled ==
  ASSUME NEW p \in Seq(STRING), NEW i \in Nat, NEW j \in Nat, i <= j, NEW base \in Nat,
         \A k \in i .. j - 1 : p[k] \in HexDigits
  PROVE  \E value : Spells(value, p, i, j, base)
<1>1. \A c \in HexDigits : Digit(c) \in Nat /\ Digit(c) <= 15
  BY DigitValue
<1>. DEFINE step == [x \in Nat \X Nat |-> IF x[1] < j - i THEN x[2] * base + Digit(p[i + x[1]]) ELSE 0]
<1>2. step \in [Nat \X Nat -> Nat]
  <2>1. ASSUME NEW k \in Nat, NEW v \in Nat, k < j - i PROVE v * base + Digit(p[i + k]) \in Nat
    <3>1. i + k \in i .. j - 1
      BY <2>1
    <3>2. Digit(p[i + k]) \in Nat
      BY <3>1, <1>1
    <3>. QED  BY <3>2
  <2>. HIDE DEF Digit
  <2>. QED  BY <2>1
<1>3. PICK f \in [Nat -> Nat] : f[0] = 0 /\ \A n \in Nat : f[n + 1] = step[<<n, f[n]>>]
  <2>. HIDE DEF step
  <2>1. 0 \in Nat
    OBVIOUS
  <2>2. \E f : Recurses(f, Nat, 0, step)
    BY <1>2, <2>1, Recursion
  <2>. QED  BY <2>2 DEF Recurses
<1>. DEFINE Solves(v) == v = [k \in 0 .. j - i |-> IF k = 0 THEN 0 ELSE v[k - 1] * base + Digit(p[i + k - 1])]
            g == [k \in 0 .. j - i |-> f[k]]
<1>4. Solves(g)
  <2>1. ASSUME NEW k \in 0 .. j - i, k # 0 PROVE f[k] = f[k - 1] * base + Digit(p[i + k - 1])
    <3>1. k - 1 \in Nat /\ k - 1 < j - i /\ (k - 1) + 1 = k /\ i + (k - 1) = i + k - 1
      BY <2>1
    <3>2. f[k] = step[<<k - 1, f[k - 1]>>]
      BY <1>3, <3>1
    <3>. QED  BY <3>1, <3>2
  <2>2. \A k \in 0 .. j - i : k # 0 => g[k - 1] = f[k - 1]
    OBVIOUS
  <2>. QED  BY <1>3, <2>1, <2>2
<1>. DEFINE value == CHOOSE v : Solves(v)
<1>5. Solves(value)
  <2>. HIDE DEF Solves, g
  <2>. QED  BY <1>4
<1>6. NatOf(p, i, j, base) = value[j - i]
  BY DEF NatOf
<1>. HIDE DEF value
<1>7. value = [k \in 0 .. j - i |-> IF k = 0 THEN 0 ELSE value[k - 1] * base + Digit(p[i + k - 1])]
  BY <1>5
<1>8. value[0] = 0 /\ \A k \in 0 .. j - i - 1 : value[k + 1] = value[k] * base + Digit(p[i + k])
  <2>1. 0 \in 0 .. j - i
    OBVIOUS
  <2>2. ASSUME NEW k \in 0 .. j - i - 1 PROVE value[k + 1] = value[k] * base + Digit(p[i + k])
    <3>1. k + 1 \in 0 .. j - i /\ k + 1 # 0 /\ (k + 1) - 1 = k /\ i + (k + 1) - 1 = i + k
      OBVIOUS
    <3>. QED  BY <1>7, <3>1
  <2>. QED  BY <1>7, <2>1, <2>2
<1>9. value \in [0 .. j - i -> Nat]
  <2>. DEFINE T == {k \in Nat : k <= j - i => value[k] \in Nat}
  <2>1. 0 \in T
    BY <1>8
  <2>2. ASSUME NEW k \in Nat, k \in T PROVE k + 1 \in T
    <3>. SUFFICES ASSUME k + 1 <= j - i PROVE value[k + 1] \in Nat
      OBVIOUS
    <3>1. k \in 0 .. j - i - 1 /\ i + k \in i .. j - 1 /\ value[k] \in Nat
      BY <2>2
    <3>2. p[i + k] \in HexDigits
      BY <3>1
    <3>3. Digit(p[i + k]) \in Nat
      BY <3>2, <1>1
    <3>4. \A a, b, c \in Nat : a * b + c \in Nat
      OBVIOUS
    <3>5. value[k] * base + Digit(p[i + k]) \in Nat
      BY <3>1, <3>3, <3>4
    <3>6. value[k + 1] = value[k] * base + Digit(p[i + k])
      BY <1>8, <3>1
    <3>. QED  BY <3>5, <3>6
  <2>. HIDE DEF T
  <2>3. Nat \subseteq T
    BY <2>1, <2>2, Induction
  <2>4. \A k \in 0 .. j - i : value[k] \in Nat
    BY <2>3 DEF T
  <2>. QED  BY <1>7, <2>4
<1>. QED  BY <1>6, <1>8, <1>9 DEF Spells

LEMMA NatOfIsNat ==
  ASSUME NEW p \in Seq(STRING), NEW i \in Nat, NEW j \in Nat, i <= j, NEW base \in Nat,
         \A k \in i .. j - 1 : p[k] \in HexDigits
  PROVE  NatOf(p, i, j, base) \in Nat
<1>1. j - i \in 0 .. j - i
  OBVIOUS
<1>2. PICK value : Spells(value, p, i, j, base)
  BY Spelled
<1>. QED  BY <1>1, <1>2 DEF Spells

LEMMA TwoDigits ==
  ASSUME NEW p \in Seq(STRING), NEW i \in Nat, p[i] \in HexDigits, p[i + 1] \in HexDigits
  PROVE  IsValidChar(NatOf(p, i, i + 2, 16))
<1>1. \A c \in HexDigits : Digit(c) \in Nat /\ Digit(c) <= 15
  BY DigitValue
<1>2. \A k \in i .. (i + 2) - 1 : p[k] \in HexDigits
  OBVIOUS
<1>3. (i + 2) - i = 2 /\ i + 2 \in Nat /\ i <= i + 2 /\ 16 \in Nat
  OBVIOUS
<1>4. PICK value : Spells(value, p, i, i + 2, 16)
  BY <1>2, <1>3, Spelled
<1>5. /\ NatOf(p, i, i + 2, 16) = value[2] /\ value[0] = 0 /\ value[1] \in Nat
      /\ value[0 + 1] = value[0] * 16 + Digit(p[i + 0]) /\ value[1 + 1] = value[1] * 16 + Digit(p[i + 1])
  <2>1. 0 \in 0 .. 2 - 1 /\ 1 \in 0 .. 2 - 1 /\ 1 \in 0 .. 2
    OBVIOUS
  <2>. QED  BY <1>3, <1>4, <2>1 DEF Spells
<1>6. /\ Digit(p[i]) \in Nat /\ Digit(p[i]) <= 15
      /\ Digit(p[i + 1]) \in Nat /\ Digit(p[i + 1]) <= 15
  BY <1>1
<1>7. value[1] = Digit(p[i]) /\ value[2] = value[1] * 16 + Digit(p[i + 1])
  BY <1>5, <1>6
<1>8. value[2] \in 0 .. 255
  <2>1. \A a, b \in Nat : a <= 15 /\ b <= 15 => a * 16 + b \in 0 .. 255
    OBVIOUS
  <2>. QED  BY <1>6, <1>7, <2>1
<1>10. \A n \in 0 .. 255 : IsValidChar(n)
  BY GrammarAssumption
<1>. QED  BY <1>5, <1>8, <1>10

-----------------------------------------------------------------------------
(* Escapes.                                                                *)

\* A call that starts at i fails or ends at a later position, or the same.
Reaches(p, i, j) == j = Fail \/ j \in i .. Len(p) + 1

LEMMA Marks ==
  /\ LBrace # End /\ RBrace # End /\ Comma # End /\ "]" # End /\ "[" # End /\ "-" # End /\ "^" # End /\ "(" # End
  /\ ")" # End /\ "|" # End /\ "?" # End /\ ":" # End /\ "*" # End /\ "+" # End /\ "\\" # End
BY DEF End, LBrace, RBrace, Comma

LEMMA Inside ==
  ASSUME NEW p \in Seq(STRING), NEW i \in Nat \ {0}, At(p, i) # End
  PROVE  /\ i \in 1 .. Len(p) /\ i + 1 \in 1 .. Len(p) + 1
         /\ At(p, i) = p[i] /\ p[i] \in STRING
         /\ At(p, i + 1) # End => i + 2 \in 1 .. Len(p) + 1
         /\ At(p, i + 1) # End /\ At(p, i + 2) # End => i + 3 \in 1 .. Len(p) + 1
<1>1. Len(p) \in Nat /\ i <= Len(p)
  BY AtIs
<1>2. At(p, i + 1) # End => i + 1 <= Len(p)
  BY AtIs
<1>3. At(p, i + 2) # End => i + 2 <= Len(p)
  BY AtIs
<1>4. i \in 1 .. Len(p)
  BY <1>1
<1>5. At(p, i) = p[i] /\ p[i] \in STRING
  BY <1>4, AtIs
<1>. QED  BY <1>1, <1>2, <1>3, <1>4, <1>5

\* The digits and the brace of \x{...}, as the plugin and the runtime find them.
IsBrace(p, i, j) == j \in i .. Len(p) + 1 /\ At(p, j) \in {End, RBrace} /\ \A k \in i .. j - 1 : p[k] # RBrace
Brace(p, i) == CHOOSE j \in i .. (Len(p) + 1) : At(p, j) \in {End, RBrace} /\ \A k \in i .. (j - 1) : p[k] # RBrace

LEMMA BraceIs ==
  ASSUME NEW p \in Seq(STRING), NEW i \in 1 .. Len(p) + 1
  PROVE  IsBrace(p, i, Brace(p, i))
<1>. DEFINE S == STRING \ {End, RBrace}
<1>1. PICK j \in i .. Len(p) + 1 : IsRun(p, i, j, S)
  BY RunsExist
<1>2. At(p, j) \in STRING \cup {End}
  <2>1. j \in Nat \ {0}
    OBVIOUS
  <2>. QED  BY <2>1, Inside
<1>3. At(p, j) \in {End, RBrace} /\ \A k \in i .. (j - 1) : p[k] # RBrace
  BY <1>1, <1>2 DEF IsRun
<1>. QED  BY <1>3 DEF IsBrace, Brace

\* Both find the same brace after hexadecimal digits.
LEMMA BracesAgree ==
  ASSUME NEW p \in Seq(STRING), NEW i \in 1 .. Len(p) + 1
  PROVE  /\ Span(p, i, HexDigits) \in i .. Len(p) + 1 /\ Brace(p, i) \in i .. Len(p) + 1
         /\ \A k \in i .. Span(p, i, HexDigits) - 1 : p[k] \in HexDigits
         /\ At(p, Span(p, i, HexDigits)) = RBrace => Brace(p, i) = Span(p, i, HexDigits)
         /\ At(p, Brace(p, i)) = RBrace /\ (\A k \in i .. Brace(p, i) - 1 : p[k] \in HexDigits) =>
              Brace(p, i) = Span(p, i, HexDigits)
<1>. DEFINE d == Span(p, i, HexDigits)
            b == Brace(p, i)
<1>1. IsRun(p, i, d, HexDigits)
  BY SpanIsRun, NoDigits
<1>2. IsBrace(p, i, b)
  BY BraceIs
<1>. HIDE DEF d, b
<1>3. RBrace \notin HexDigits
  BY NoDigits
<1>8. Len(p) \in Nat
  OBVIOUS
<1>4. d \in i .. Len(p) + 1 /\ b \in i .. Len(p) + 1 /\ \A k \in i .. d - 1 : p[k] \in HexDigits
  BY <1>1, <1>2 DEF IsRun, IsBrace
<1>5. ASSUME At(p, d) = RBrace PROVE b = d
  <2>1. ~(b < d)
    <3>. SUFFICES ASSUME b < d PROVE FALSE
      OBVIOUS
    <3>1. b \in i .. d - 1 /\ b \in 1 .. Len(p)
      BY <1>4, <1>8
    <3>2. At(p, b) \in HexDigits
      BY <1>4, <3>1, AtIs
    <3>. QED  BY <1>2, <1>3, <3>2, NoDigits DEF IsBrace
  <2>2. ~(d < b)
    <3>. SUFFICES ASSUME d < b PROVE FALSE
      OBVIOUS
    <3>1. d \in i .. b - 1 /\ d \in 1 .. Len(p)
      BY <1>4, <1>8
    <3>. QED  BY <1>2, <1>5, <3>1, AtIs DEF IsBrace
  <2>. QED  BY <1>4, <2>1, <2>2
<1>6. ASSUME At(p, b) = RBrace, \A k \in i .. b - 1 : p[k] \in HexDigits PROVE b = d
  <2>1. IsRun(p, i, b, HexDigits)
    BY <1>3, <1>4, <1>6 DEF IsRun
  <2>. QED  BY <1>1, <2>1, RunsAgree
<1>7. /\ d \in i .. Len(p) + 1 /\ b \in i .. Len(p) + 1
      /\ \A k \in i .. d - 1 : p[k] \in HexDigits
      /\ At(p, d) = RBrace => b = d
      /\ At(p, b) = RBrace /\ (\A k \in i .. b - 1 : p[k] \in HexDigits) => b = d
  BY <1>4, <1>5, <1>6
<1>. QED  BY <1>7 DEF d, b

\* An escape by its first character; \x has lemmas of its own.
LEMMA PlainEscapes ==
  ASSUME NEW p \in Seq(STRING), NEW i \in 1 .. Len(p) + 1, At(p, i) # "x"
  PROVE  /\ GoEscape(p, i) =
              IF At(p, i) \in Perl THEN Esc(i + 1, TRUE)
              ELSE IF \/ At(p, i) \in Controls
                      \/ At(p, i) = "0" /\ At(p, i + 1) \notin Digits
                      \/ At(p, i) \notin Letters \cup Digits \cup ForeignAlnum \cup {End}
              THEN Esc(i + 1, FALSE) ELSE NoEsc
         /\ LeanEscape(p, i) =
              IF At(p, i) \in Perl THEN Esc(i + 1, TRUE)
              ELSE IF \/ At(p, i) \in Controls \cup {"0"}
                      \/ At(p, i) \notin Letters \cup Digits \cup {End}
              THEN Esc(i + 1, FALSE) ELSE NoEsc
<1>. DEFINE c == At(p, i)
<1>1. /\ Perl \cap (Controls \cup {"0"}) = {}
      /\ Perl \subseteq Letters /\ Controls \subseteq Letters /\ "0" \in Digits
  BY Characters DEF Perl, Controls, Letters
<1>. HIDE DEF c
<1>2. GoEscape(p, i) =
        CASE c \in Perl -> Esc(i + 1, TRUE)
          [] c \in Controls \/ (c = "0" /\ At(p, i + 1) \notin Digits) -> Esc(i + 1, FALSE)
          [] c \notin Letters \cup Digits \cup ForeignAlnum \cup {End} -> Esc(i + 1, FALSE)
          [] OTHER -> NoEsc
  BY DEF GoEscape, c
<1>. QED  BY <1>1, <1>2 DEF LeanEscape, c

LEMMA GoHexEscape ==
  ASSUME NEW p \in Seq(STRING), NEW i \in 1 .. Len(p) + 1, At(p, i) = "x"
  PROVE  LET d == Span(p, i + 2, HexDigits)
         IN  GoEscape(p, i) =
               IF At(p, i + 1) = LBrace /\ At(p, d) = RBrace /\ IsValidChar(NatOf(p, i + 2, d, 16)) THEN Esc(d + 1, FALSE)
               ELSE IF At(p, i + 1) \in HexDigits /\ At(p, i + 2) \in HexDigits THEN Esc(i + 3, FALSE) ELSE NoEsc
<1>. DEFINE d == Span(p, i + 2, HexDigits)
            inBraces == At(p, i + 1) = LBrace /\ At(p, d) = RBrace /\ IsValidChar(NatOf(p, i + 2, d, 16))
            byPairs == At(p, i + 1) \in HexDigits /\ At(p, i + 2) \in HexDigits
<1>1. "x" \notin Perl /\ "x" \notin Controls /\ "x" # "0" /\ "x" \in Letters
  BY DEF Perl, Controls, Letters
<1>2. LBrace \notin HexDigits
  BY NoDigits
<1>3. ~(inBraces /\ byPairs)
  BY <1>2
<1>4. GoEscape(p, i) =
        CASE At(p, i) \in Perl -> Esc(i + 1, TRUE)
          [] At(p, i) \in Controls \/ (At(p, i) = "0" /\ At(p, i + 1) \notin Digits) -> Esc(i + 1, FALSE)
          [] At(p, i) = "x" /\ At(p, i + 1) = LBrace /\ At(p, d) = RBrace /\ IsValidChar(NatOf(p, i + 2, d, 16)) ->
               Esc(d + 1, FALSE)
          [] At(p, i) = "x" /\ {At(p, i + 1), At(p, i + 2)} \subseteq HexDigits -> Esc(i + 3, FALSE)
          [] At(p, i) \notin Letters \cup Digits \cup ForeignAlnum \cup {End} -> Esc(i + 1, FALSE)
          [] OTHER -> NoEsc
  BY DEF GoEscape
<1>5. GoEscape(p, i) = IF inBraces THEN Esc(d + 1, FALSE) ELSE IF byPairs THEN Esc(i + 3, FALSE) ELSE NoEsc
  <2>. HIDE DEF d
  <2>. QED  BY <1>1, <1>3, <1>4
<1>. QED  BY <1>5

LEMMA LeanHexEscape ==
  ASSUME NEW p \in Seq(STRING), NEW i \in 1 .. Len(p) + 1, At(p, i) = "x"
  PROVE  LET b == Brace(p, i + 2)
         IN  LeanEscape(p, i) =
               IF At(p, i + 1) = LBrace /\ At(p, b) = RBrace /\ HexChar(p, i + 2, b) THEN Esc(b + 1, FALSE)
               ELSE IF i + 2 <= Len(p) /\ HexChar(p, i + 1, i + 3) THEN Esc(i + 3, FALSE) ELSE NoEsc
<1>. DEFINE b == Brace(p, i + 2)
            inBraces == At(p, i + 1) = LBrace /\ At(p, b) = RBrace /\ HexChar(p, i + 2, b)
            byPairs == i + 2 <= Len(p) /\ HexChar(p, i + 1, i + 3)
<1>1. "x" \notin Perl /\ "x" \notin Controls \cup {"0"} /\ "x" \in Letters
  BY DEF Perl, Controls, Letters
<1>2. ~(inBraces /\ byPairs)
  <2>. SUFFICES ASSUME At(p, i + 1) = LBrace, i + 2 <= Len(p), HexChar(p, i + 1, i + 3) PROVE FALSE
    OBVIOUS
  <2>1. i + 1 \in (i + 1) .. (i + 3) - 1 /\ i + 1 \in 1 .. Len(p)
    <3>1. Len(p) \in Nat
      OBVIOUS
    <3>. QED  BY <3>1
  <2>2. At(p, i + 1) \in HexDigits
    BY <2>1, AtIs DEF HexChar
  <2>. QED  BY <2>2, NoDigits
<1>3. LeanEscape(p, i) =
        CASE At(p, i) \in Perl -> Esc(i + 1, TRUE)
          [] At(p, i) \in Controls \cup {"0"} -> Esc(i + 1, FALSE)
          [] At(p, i) = "x" /\ At(p, i + 1) = LBrace /\ At(p, b) = RBrace /\ HexChar(p, i + 2, b) -> Esc(b + 1, FALSE)
          [] At(p, i) = "x" /\ i + 2 <= Len(p) /\ HexChar(p, i + 1, i + 3) -> Esc(i + 3, FALSE)
          [] At(p, i) \notin Letters \cup Digits \cup {End} -> Esc(i + 1, FALSE)
          [] OTHER -> NoEsc
  BY DEF LeanEscape, Brace
<1>4. LeanEscape(p, i) = IF inBraces THEN Esc(b + 1, FALSE) ELSE IF byPairs THEN Esc(i + 3, FALSE) ELSE NoEsc
  <2>. HIDE DEF b
  <2>. QED  BY <1>1, <1>2, <1>3
<1>. QED  BY <1>4

\* The hexadecimal escapes agree.
LEMMA HexEscapesAgree ==
  ASSUME NEW p \in Seq(STRING), NEW i \in 1 .. Len(p) + 1, At(p, i) = "x"
  PROVE  /\ LeanEscape(p, i) = GoEscape(p, i)
         /\ \/ GoEscape(p, i) = NoEsc
            \/ \E j \in i + 1 .. Len(p) + 1 : GoEscape(p, i) = Esc(j, FALSE)
<1>. DEFINE d == Span(p, i + 2, HexDigits)
            b == Brace(p, i + 2)
<1>1. GoEscape(p, i) =
        IF At(p, i + 1) = LBrace /\ At(p, d) = RBrace /\ IsValidChar(NatOf(p, i + 2, d, 16)) THEN Esc(d + 1, FALSE)
        ELSE IF At(p, i + 1) \in HexDigits /\ At(p, i + 2) \in HexDigits THEN Esc(i + 3, FALSE) ELSE NoEsc
  BY GoHexEscape
<1>2. LeanEscape(p, i) =
        IF At(p, i + 1) = LBrace /\ At(p, b) = RBrace /\ HexChar(p, i + 2, b) THEN Esc(b + 1, FALSE)
        ELSE IF i + 2 <= Len(p) /\ HexChar(p, i + 1, i + 3) THEN Esc(i + 3, FALSE) ELSE NoEsc
  BY LeanHexEscape
<1>3. Len(p) \in Nat
  OBVIOUS
<1>4. At(p, i + 1) = LBrace => i + 2 \in 1 .. Len(p) + 1
  <2>. SUFFICES ASSUME At(p, i + 1) = LBrace PROVE i + 2 \in 1 .. Len(p) + 1
    OBVIOUS
  <2>1. i + 1 \in Nat \ {0}
    OBVIOUS
  <2>2. i + 1 \in 1 .. Len(p)
    BY <2>1, Inside, Marks
  <2>. QED  BY <1>3, <2>2
<1>5. ASSUME At(p, i + 1) = LBrace
      PROVE  /\ (At(p, b) = RBrace /\ HexChar(p, i + 2, b)) <=> (At(p, d) = RBrace /\ IsValidChar(NatOf(p, i + 2, d, 16)))
             /\ At(p, b) = RBrace /\ HexChar(p, i + 2, b) => b = d
             /\ At(p, d) = RBrace => d + 1 \in i + 1 .. Len(p) + 1
  <2>1. /\ d \in i + 2 .. Len(p) + 1 /\ b \in i + 2 .. Len(p) + 1
        /\ \A k \in i + 2 .. d - 1 : p[k] \in HexDigits
        /\ At(p, d) = RBrace => b = d
        /\ At(p, b) = RBrace /\ (\A k \in i + 2 .. b - 1 : p[k] \in HexDigits) => b = d
    BY <1>4, <1>5, BracesAgree
  <2>. HIDE DEF b, d
  <2>2. ASSUME At(p, d) = RBrace PROVE d + 1 \in i + 1 .. Len(p) + 1
    <3>1. d \in Nat \ {0}
      BY <2>1
    <3>2. d + 1 \in 1 .. Len(p) + 1
      BY <2>2, <3>1, Inside, Marks
    <3>. QED  BY <1>3, <2>1, <3>2
  <2>. QED  BY <2>1, <2>2 DEF HexChar
<1>6. (At(p, i + 1) \in HexDigits /\ At(p, i + 2) \in HexDigits) <=> (i + 2 <= Len(p) /\ HexChar(p, i + 1, i + 3))
  <2>1. ASSUME At(p, i + 1) \in HexDigits, At(p, i + 2) \in HexDigits PROVE i + 2 <= Len(p) /\ HexChar(p, i + 1, i + 3)
    <3>1. i + 2 \in 1 .. Len(p) /\ i + 1 \in 1 .. Len(p)
      <4>1. At(p, i + 2) # End /\ i + 2 \in Nat
        BY <2>1, NoDigits
      <4>. QED  BY <4>1, AtIs
    <3>2. p[i + 1] \in HexDigits /\ p[(i + 1) + 1] \in HexDigits
      BY <2>1, <3>1, AtIs
    <3>3. IsValidChar(NatOf(p, i + 1, (i + 1) + 2, 16))
      BY <3>2, TwoDigits
    <3>4. (i + 1) + 2 = i + 3 /\ \A k \in (i + 1) .. (i + 3) - 1 : k = i + 1 \/ k = (i + 1) + 1
      OBVIOUS
    <3>. QED  BY <3>1, <3>2, <3>3, <3>4 DEF HexChar
  <2>2. ASSUME i + 2 <= Len(p), HexChar(p, i + 1, i + 3) PROVE At(p, i + 1) \in HexDigits /\ At(p, i + 2) \in HexDigits
    <3>1. /\ i + 1 \in (i + 1) .. (i + 3) - 1 /\ i + 1 \in 1 .. Len(p)
          /\ i + 2 \in (i + 1) .. (i + 3) - 1 /\ i + 2 \in 1 .. Len(p)
      BY <2>2
    <3>. QED  BY <2>2, <3>1, AtIs DEF HexChar
  <2>. QED  BY <2>1, <2>2
<1>7. i + 2 <= Len(p) => i + 3 \in i + 1 .. Len(p) + 1
  BY <1>3
<1>. HIDE DEF b, d
<1>8. CASE At(p, i + 1) = LBrace /\ At(p, d) = RBrace /\ IsValidChar(NatOf(p, i + 2, d, 16))
  BY <1>1, <1>2, <1>5, <1>8
<1>9. CASE ~(At(p, i + 1) = LBrace /\ At(p, d) = RBrace /\ IsValidChar(NatOf(p, i + 2, d, 16)))
  <2>1. ~(At(p, i + 1) = LBrace /\ At(p, b) = RBrace /\ HexChar(p, i + 2, b))
    BY <1>5, <1>9
  <2>. QED  BY <1>1, <1>2, <1>6, <1>7, <1>9, <2>1
<1>. QED  BY <1>8, <1>9

LEMMA EscapesReach ==
  ASSUME NEW p \in Seq(STRING), NEW i \in 1 .. Len(p) + 1
  PROVE  /\ Reaches(p, i + 1, GoEscape(p, i).to)
         /\ Reaches(p, i + 1, LeanEscape(p, i).to)
         /\ GoEscape(p, i).to # Fail => LeanEscape(p, i) = GoEscape(p, i)
         /\ ~(i <= Len(p) /\ p[i] \in ForeignAlnum) /\ ~(At(p, i) = "0" /\ At(p, i + 1) \in Digits) =>
              LeanEscape(p, i) = GoEscape(p, i)
<1>1. CASE At(p, i) = "x"
  <2>1. CASE GoEscape(p, i) = NoEsc
    <3>1. GoEscape(p, i).to = Fail
      BY <2>1 DEF Esc, NoEsc
    <3>. QED  BY <1>1, <3>1, HexEscapesAgree DEF Reaches
  <2>2. CASE GoEscape(p, i) # NoEsc
    <3>1. PICK j \in i + 1 .. Len(p) + 1 : GoEscape(p, i) = Esc(j, FALSE)
      BY <1>1, <2>2, HexEscapesAgree
    <3>2. GoEscape(p, i).to = j
      BY <3>1 DEF Esc
    <3>. QED  BY <1>1, <3>2, HexEscapesAgree DEF Reaches
  <2>. QED  BY <2>1, <2>2
<1>2. CASE At(p, i) # "x"
  <2>. DEFINE predicate == Esc(i + 1, TRUE)
              character == Esc(i + 1, FALSE)
  <2>1. predicate.to = i + 1 /\ character.to = i + 1 /\ NoEsc.to = Fail
    BY DEF Esc, NoEsc
  <2>2. /\ GoEscape(p, i) =
              IF At(p, i) \in Perl THEN predicate
              ELSE IF \/ At(p, i) \in Controls
                      \/ At(p, i) = "0" /\ At(p, i + 1) \notin Digits
                      \/ At(p, i) \notin Letters \cup Digits \cup ForeignAlnum \cup {End}
              THEN character ELSE NoEsc
        /\ LeanEscape(p, i) =
              IF At(p, i) \in Perl THEN predicate
              ELSE IF \/ At(p, i) \in Controls \cup {"0"}
                      \/ At(p, i) \notin Letters \cup Digits \cup {End}
              THEN character ELSE NoEsc
    BY <1>2, PlainEscapes
  <2>. HIDE DEF predicate, character
  <2>3. CASE At(p, i) = End
    <3>1. End \notin Perl /\ End \notin Controls /\ End # "0"
      BY DEF End, Perl, Controls
    <3>2. GoEscape(p, i) = NoEsc /\ LeanEscape(p, i) = NoEsc
      BY <2>2, <2>3, <3>1
    <3>. QED  BY <2>1, <3>2 DEF Reaches
  <2>4. CASE At(p, i) # End
    <3>1. i + 1 \in i + 1 .. Len(p) + 1
      BY <2>4, Inside
    <3>2. /\ GoEscape(p, i) \in {predicate, character, NoEsc}
          /\ LeanEscape(p, i) \in {predicate, character, NoEsc}
      BY <2>2
    <3>3. Reaches(p, i + 1, GoEscape(p, i).to) /\ Reaches(p, i + 1, LeanEscape(p, i).to)
      BY <2>1, <3>1, <3>2 DEF Reaches
    <3>4. GoEscape(p, i) # NoEsc => LeanEscape(p, i) = GoEscape(p, i)
      BY <2>2
    <3>5. "0" \in Digits
      BY Characters
    <3>6. i <= Len(p) /\ At(p, i) = p[i]
      BY <2>4, Inside
    <3>7. At(p, i) \notin ForeignAlnum /\ ~(At(p, i) = "0" /\ At(p, i + 1) \in Digits) =>
              LeanEscape(p, i) = GoEscape(p, i)
      BY <2>2, <2>4, <3>5
    <3>. QED  BY <2>1, <3>3, <3>4, <3>6, <3>7
  <2>. QED  BY <2>3, <2>4
<1>. QED  BY <1>1, <1>2

-----------------------------------------------------------------------------
(* The nested calls all start later and end no earlier than they start.    *)

Answers(p) == {r \in [Calls(p) -> Nat] : \A c \in Calls(p) : Reaches(p, c[2], r[c])}

LEMMA Answered ==
  ASSUME NEW p \in Seq(STRING), NEW r \in Answers(p), NEW i \in Nat, NEW j \in Nat \ {0}, i <= j, j <= Len(p) + 1,
         NEW f \in {"alt", "concat", "quantify", "items"}
  PROVE  /\ Reaches(p, i, r[<<f, j>>])
         /\ <<f, j>> \in Calls(p)
         /\ r[<<f, j>>] # Fail => r[<<f, j>>] \in i .. Len(p) + 1 /\ r[<<f, j>>] \in Nat \ {0}
<1>1. Len(p) \in Nat
  OBVIOUS
<1>2. <<f, j>> \in Calls(p)
  BY <1>1 DEF Calls
<1>3. <<f, j>>[2] = j
  OBVIOUS
<1>4. Reaches(p, j, r[<<f, j>>])
  BY <1>2, <1>3 DEF Answers
<1>. QED  BY <1>1, <1>2, <1>4 DEF Reaches, Fail

LEMMA FromLater ==
  ASSUME NEW p \in Seq(STRING), NEW i \in Nat, NEW j \in Nat, i <= j, NEW x, Reaches(p, j, x)
  PROVE  Reaches(p, i, x)
<1>1. Len(p) \in Nat
  OBVIOUS
<1>. QED  BY <1>1 DEF Reaches

\* What follows the low end of a range of a class, or a lone character.
GoRest(p, r, j) == IF GoClassRange(p, j) = Fail THEN Fail ELSE r[<<"items", GoClassRange(p, j)>>]
LeanRest(p, r, j) ==
  LET hi == LeanEscape(p, j + 2)
  IN IF At(p, j) # "-" \/ At(p, j + 1) = End THEN r[<<"items", j>>]
     ELSE IF At(p, j + 1) = "]" THEN r[<<"items", j + 1>>]
     ELSE IF At(p, j + 1) # "\\" THEN r[<<"items", j + 2>>]
     ELSE IF hi.to = Fail \/ hi.pred THEN Fail ELSE r[<<"items", hi.to>>]

LEMMA GoRangeReaches ==
  ASSUME NEW p \in Seq(STRING), NEW j \in 1 .. Len(p) + 1
  PROVE  Reaches(p, j, GoClassRange(p, j))
<1>1. Len(p) \in Nat /\ j \in Nat \ {0} /\ j + 2 \in Nat
  OBVIOUS
<1>2. CASE At(p, j) # "-" \/ At(p, j + 1) \in {End, "]"}
  <2>1. GoClassRange(p, j) = j
    BY <1>2 DEF GoClassRange
  <2>. QED  BY <1>1, <2>1 DEF Reaches
<1>3. CASE At(p, j) = "-" /\ At(p, j + 1) \notin {End, "]"}
  <2>1. At(p, j) # End /\ At(p, j + 1) # End
    BY <1>3, Marks
  <2>2. j + 2 \in 1 .. Len(p) + 1 /\ j \in 1 .. Len(p)
    BY <1>1, <2>1, Inside
  <2>3. GoClassRange(p, j) \in {j + 2, Fail, GoEscape(p, j + 2).to}
    BY <1>3 DEF GoClassRange
  <2>4. Reaches(p, (j + 2) + 1, GoEscape(p, j + 2).to)
    BY <2>2, EscapesReach
  <2>5. Reaches(p, j, GoEscape(p, j + 2).to)
    BY <1>1, <2>4, FromLater
  <2>. QED  BY <1>1, <2>2, <2>3, <2>5 DEF Reaches
<1>. QED  BY <1>2, <1>3

LEMMA RestsReach ==
  ASSUME NEW p \in Seq(STRING), NEW r \in Answers(p), NEW j \in 1 .. Len(p) + 1
  PROVE  Reaches(p, j, GoRest(p, r, j)) /\ Reaches(p, j, LeanRest(p, r, j))
<1>1. Len(p) \in Nat /\ j \in Nat \ {0}
  OBVIOUS
<1>2. ASSUME NEW x \in Nat \ {0}, j <= x, x <= Len(p) + 1 PROVE Reaches(p, j, r[<<"items", x>>])
  BY <1>1, <1>2, Answered
<1>3. Reaches(p, j, Fail)
  BY DEF Reaches
<1>4. Reaches(p, j, GoRest(p, r, j))
  <2>1. Reaches(p, j, GoClassRange(p, j))
    BY GoRangeReaches
  <2>2. CASE GoClassRange(p, j) = Fail
    BY <1>3, <2>2 DEF GoRest
  <2>3. CASE GoClassRange(p, j) # Fail
    <3>. DEFINE x == GoClassRange(p, j)
    <3>1. x \in j .. Len(p) + 1
      BY <2>1, <2>3 DEF Reaches
    <3>2. GoRest(p, r, j) = r[<<"items", x>>]
      BY <2>3 DEF GoRest
    <3>. HIDE DEF x
    <3>3. x \in Nat \ {0} /\ j <= x /\ x <= Len(p) + 1
      BY <1>1, <3>1
    <3>. QED  BY <1>2, <3>2, <3>3
  <2>. QED  BY <2>2, <2>3
<1>5. Reaches(p, j, LeanRest(p, r, j))
  <2>1. CASE At(p, j) # "-" \/ At(p, j + 1) = End
    <3>1. LeanRest(p, r, j) = r[<<"items", j>>]
      BY <2>1 DEF LeanRest
    <3>. QED  BY <1>1, <1>2, <3>1
  <2>2. CASE At(p, j) = "-" /\ At(p, j + 1) # End
    <3>1. At(p, j) # End /\ At(p, j + 1) # End
      BY <2>2, Marks
    <3>2. j + 2 \in 1 .. Len(p) + 1 /\ j + 1 \in Nat \ {0} /\ j + 1 <= Len(p) + 1
      BY <1>1, <3>1, Inside
    <3>. DEFINE hi == LeanEscape(p, j + 2).to
    <3>3. Reaches(p, (j + 2) + 1, hi)
      BY <3>2, EscapesReach
    <3>4. LeanRest(p, r, j) \in {r[<<"items", j + 1>>], r[<<"items", j + 2>>], Fail}
            \/ (hi # Fail /\ LeanRest(p, r, j) = r[<<"items", hi>>])
      BY <2>2 DEF LeanRest
    <3>5. hi # Fail => hi \in Nat \ {0} /\ j <= hi /\ hi <= Len(p) + 1
      <4>. HIDE DEF hi
      <4>. QED  BY <1>1, <3>3 DEF Reaches
    <3>. HIDE DEF hi
    <3>6. Reaches(p, j, r[<<"items", j + 1>>]) /\ Reaches(p, j, r[<<"items", j + 2>>])
      <4>1. j + 2 \in Nat \ {0} /\ j + 2 <= Len(p) + 1 /\ j <= j + 2 /\ j <= j + 1
        BY <1>1, <3>2
      <4>. QED  BY <1>2, <3>2, <4>1
    <3>7. hi # Fail => Reaches(p, j, r[<<"items", hi>>])
      BY <1>2, <3>5
    <3>. QED  BY <1>3, <3>4, <3>6, <3>7
  <2>. QED  BY <2>1, <2>2
<1>. QED  BY <1>4, <1>5

LEMMA ItemsReach ==
  ASSUME NEW p \in Seq(STRING), NEW r \in Answers(p), NEW i \in 1 .. Len(p) + 1, NEW item
  PROVE  /\ Reaches(p, i + 1, GoClassItems(p, r, i, item))
         /\ Reaches(p, i + 1, LeanClassItems(p, r, i, item))
<1>1. Len(p) \in Nat /\ i \in Nat \ {0} /\ i + 1 \in Nat \ {0}
  OBVIOUS
<1>2. Reaches(p, i + 1, Fail)
  BY DEF Reaches
<1>3. CASE At(p, i) = End
  <2>1. GoClassItems(p, r, i, item) = Fail
    BY <1>3, Marks DEF GoClassItems
  <2>2. LeanClassItems(p, r, i, item) = Fail
    BY <1>3, Marks DEF LeanClassItems
  <2>. QED  BY <1>2, <2>1, <2>2
<1>4. CASE At(p, i) # End
  <2>1. i + 1 \in 1 .. Len(p) + 1 /\ i + 1 <= Len(p) + 1 /\ i + 1 <= i + 1
    BY <1>1, <1>4, Inside
  <2>2. CASE At(p, i) = "]"
    <3>1. GoClassItems(p, r, i, item) \in {i + 1, Fail, r[<<"items", i + 1>>]}
      BY <1>1, <2>2, Marks DEF GoClassItems, Fail
    <3>4. LeanClassItems(p, r, i, item) \in {i + 1, r[<<"items", i + 1>>]}
      BY <2>2, Marks DEF LeanClassItems
    <3>2. Reaches(p, i + 1, r[<<"items", i + 1>>])
      BY <1>1, <2>1, Answered
    <3>3. Reaches(p, i + 1, i + 1)
      BY <1>1, <2>1 DEF Reaches
    <3>. QED  BY <1>2, <3>1, <3>2, <3>3, <3>4
  <2>3. CASE At(p, i) = "\\"
    <3>1. ASSUME NEW x, x # Fail, Reaches(p, (i + 1) + 1, x)
          PROVE  /\ Reaches(p, i + 1, r[<<"items", x>>])
                 /\ Reaches(p, i + 1, GoRest(p, r, x)) /\ Reaches(p, i + 1, LeanRest(p, r, x))
      <4>1. x \in Nat \ {0} /\ i + 1 <= x /\ x <= Len(p) + 1 /\ x \in 1 .. Len(p) + 1
        BY <1>1, <3>1 DEF Reaches
      <4>2. Reaches(p, x, GoRest(p, r, x)) /\ Reaches(p, x, LeanRest(p, r, x))
        BY <4>1, RestsReach
      <4>3. Reaches(p, i + 1, r[<<"items", x>>])
        BY <1>1, <4>1, Answered
      <4>. QED  BY <1>1, <4>1, <4>2, <4>3, FromLater
    <3>. DEFINE x == GoEscape(p, i + 1)
                y == LeanEscape(p, i + 1)
    <3>2. Reaches(p, (i + 1) + 1, x.to) /\ Reaches(p, (i + 1) + 1, y.to)
      BY <2>1, EscapesReach
    <3>3. \/ GoClassItems(p, r, i, item) = Fail
          \/ x.to # Fail /\ GoClassItems(p, r, i, item) \in {r[<<"items", x.to>>], GoRest(p, r, x.to)}
      BY <2>3, Marks DEF GoClassItems, GoRest
    <3>4. \/ LeanClassItems(p, r, i, item) = Fail
          \/ y.to # Fail /\ LeanClassItems(p, r, i, item) \in {r[<<"items", y.to>>], LeanRest(p, r, y.to)}
      BY <2>3, Marks DEF LeanClassItems, LeanRest
    <3>. HIDE DEF x, y
    <3>5. x.to # Fail => Reaches(p, i + 1, r[<<"items", x.to>>]) /\ Reaches(p, i + 1, GoRest(p, r, x.to))
      BY <3>1, <3>2
    <3>6. y.to # Fail => Reaches(p, i + 1, r[<<"items", y.to>>]) /\ Reaches(p, i + 1, LeanRest(p, r, y.to))
      BY <3>1, <3>2
    <3>. QED  BY <1>2, <3>3, <3>4, <3>5, <3>6
  <2>4. CASE At(p, i) \notin {End, "]", "\\"}
    <3>1. GoClassItems(p, r, i, item) \in {Fail, GoRest(p, r, i + 1)}
      BY <1>1, <2>4, Marks DEF GoClassItems, GoRest, Fail
    <3>3. LeanClassItems(p, r, i, item) = LeanRest(p, r, i + 1)
      BY <2>4, Marks DEF LeanClassItems, LeanRest
    <3>2. Reaches(p, i + 1, GoRest(p, r, i + 1)) /\ Reaches(p, i + 1, LeanRest(p, r, i + 1))
      BY <2>1, RestsReach
    <3>. QED  BY <1>2, <3>1, <3>2, <3>3
  <2>. QED  BY <1>4, <2>2, <2>3, <2>4
<1>. QED  BY <1>3, <1>4

\* Where the items of a class start.
ItemsAt(p, i) == IF At(p, i) = "^" THEN i + 1 ELSE i

LEMMA ClassesReach ==
  ASSUME NEW p \in Seq(STRING), NEW r \in Answers(p), NEW i \in 1 .. Len(p) + 1
  PROVE  /\ ItemsAt(p, i) \in i .. Len(p) + 1
         /\ GoClass(p, r, i) = GoClassItems(p, r, ItemsAt(p, i), "first")
         /\ LeanClass(p, r, i) = LeanClassItems(p, r, ItemsAt(p, i), "first")
         /\ Reaches(p, i + 1, GoClass(p, r, i)) /\ Reaches(p, i + 1, LeanClass(p, r, i))
<1>. DEFINE k == ItemsAt(p, i)
            item == "first"
<1>1. Len(p) \in Nat /\ i \in Nat \ {0}
  OBVIOUS
<1>2. k \in i .. Len(p) + 1
  <2>1. At(p, i) = "^" => i + 1 \in i .. Len(p) + 1
    BY <1>1, Inside, Marks
  <2>. QED  BY <1>1, <2>1 DEF ItemsAt
<1>3. GoClass(p, r, i) = GoClassItems(p, r, k, item) /\ LeanClass(p, r, i) = LeanClassItems(p, r, k, item)
  BY DEF GoClass, LeanClass, ItemsAt
<1>. HIDE DEF k, item
<1>5. k \in 1 .. Len(p) + 1 /\ k + 1 \in Nat /\ i + 1 \in Nat /\ i + 1 <= k + 1
  BY <1>1, <1>2
<1>6. Reaches(p, k + 1, GoClassItems(p, r, k, item)) /\ Reaches(p, k + 1, LeanClassItems(p, r, k, item))
  BY <1>5, ItemsReach
<1>7. Reaches(p, i + 1, GoClass(p, r, i)) /\ Reaches(p, i + 1, LeanClass(p, r, i))
  BY <1>3, <1>5, <1>6, FromLater
<1>. QED  BY <1>2, <1>3, <1>7 DEF k, item

LEMMA Counted ==
  ASSUME NEW p \in Seq(STRING), NEW i \in 1 .. Len(p) + 1, At(p, i) = LBrace
  PROVE  LET lo == Span(p, i + 1, Digits)
             hi == Span(p, lo + 1, Digits)
         IN  /\ lo \in i + 1 .. Len(p) + 1 /\ NatOf(p, i + 1, lo, 10) \in Nat
             /\ At(p, lo) \in {RBrace, Comma} => lo + 1 \in i + 1 .. Len(p) + 1
             /\ At(p, lo) = Comma /\ At(p, lo + 1) = RBrace => lo + 2 \in i + 1 .. Len(p) + 1
             /\ At(p, lo) = Comma /\ At(p, hi) = RBrace =>
                  hi + 1 \in i + 1 .. Len(p) + 1 /\ NatOf(p, lo + 1, hi, 10) \in Nat
<1>. DEFINE lo == Span(p, i + 1, Digits)
            hi == Span(p, lo + 1, Digits)
<1>1. Len(p) \in Nat /\ i \in Nat \ {0}
  OBVIOUS
<1>2. i + 1 \in 1 .. Len(p) + 1
  BY <1>1, Inside, Marks
<1>3. \A c \in Digits : c \in HexDigits
  BY Characters
<1>4. ASSUME NEW k \in 1 .. Len(p) + 1
      PROVE  /\ Span(p, k, Digits) \in k .. Len(p) + 1
             /\ NatOf(p, k, Span(p, k, Digits), 10) \in Nat
  <2>. DEFINE j == Span(p, k, Digits)
  <2>1. IsRun(p, k, j, Digits)
    BY SpanIsRun, NoDigits
  <2>. HIDE DEF j
  <2>2. j \in k .. Len(p) + 1 /\ \A x \in k .. j - 1 : p[x] \in HexDigits
    BY <1>3, <2>1 DEF IsRun
  <2>3. k \in Nat /\ j \in Nat /\ k <= j /\ 10 \in Nat
    BY <1>1, <2>2
  <2>4. NatOf(p, k, j, 10) \in Nat
    BY <2>2, <2>3, NatOfIsNat
  <2>. QED  BY <2>2, <2>4 DEF j
<1>5. lo \in i + 1 .. Len(p) + 1 /\ NatOf(p, i + 1, lo, 10) \in Nat
  BY <1>2, <1>4
<1>. HIDE DEF lo
<1>6. lo \in Nat \ {0}
  BY <1>1, <1>5
<1>7. At(p, lo) \in {RBrace, Comma} => lo + 1 \in 1 .. Len(p) + 1
  BY <1>6, Inside, Marks
<1>8. At(p, lo) = Comma /\ At(p, lo + 1) = RBrace => lo + 2 \in 1 .. Len(p) + 1
  BY <1>6, Inside, Marks
<1>9. At(p, lo) = Comma => hi \in lo + 1 .. Len(p) + 1 /\ NatOf(p, lo + 1, hi, 10) \in Nat
  BY <1>4, <1>7
<1>. HIDE DEF hi
<1>10. At(p, lo) = Comma /\ At(p, hi) = RBrace => hi + 1 \in 1 .. Len(p) + 1
  <2>1. At(p, lo) = Comma => hi \in Nat \ {0}
    BY <1>6, <1>9
  <2>. QED  BY <2>1, Inside, Marks
<1>11. /\ At(p, lo) \in {RBrace, Comma} => lo + 1 \in i + 1 .. Len(p) + 1
       /\ At(p, lo) = Comma /\ At(p, lo + 1) = RBrace => lo + 2 \in i + 1 .. Len(p) + 1
       /\ At(p, lo) = Comma /\ At(p, hi) = RBrace => hi + 1 \in i + 1 .. Len(p) + 1
  BY <1>1, <1>5, <1>7, <1>8, <1>9, <1>10
<1>. QED  BY <1>5, <1>9, <1>11 DEF lo, hi

\* Quantifiers are read alike: not at all, or not well, or up to the next one.
LEMMA QuantifiersAgree ==
  ASSUME NEW p \in Seq(STRING), NEW i \in 1 .. Len(p) + 1
  PROVE  \/ \A r : GoQuantify(p, r, i) = i /\ LeanQuantify(p, r, i) = i
         \/ \A r : GoQuantify(p, r, i) = Fail /\ LeanQuantify(p, r, i) = Fail
         \/ \E y \in i + 1 .. Len(p) + 1 : \A r :
              GoQuantify(p, r, i) = r[<<"quantify", y>>] /\ LeanQuantify(p, r, i) = r[<<"quantify", y>>]
<1>. DEFINE lo == Span(p, i + 1, Digits)
            hi == Span(p, lo + 1, Digits)
            n == NatOf(p, i + 1, lo, 10)
            m == NatOf(p, lo + 1, hi, 10)
            y(j) == GoNonGreedy(p, j)
            plain == At(p, i) \in {"*", "+", "?"}
            counted == At(p, i) = LBrace /\ lo # i + 1
            last == At(p, lo) = Comma /\ At(p, lo + 1) # RBrace /\ At(p, hi) = RBrace
<1>1. Len(p) \in Nat /\ i \in Nat \ {0}
  OBVIOUS
<1>2. "*" # LBrace /\ "+" # LBrace /\ "?" # LBrace /\ Comma # RBrace
  BY DEF LBrace, RBrace, Comma
<1>3. ~(plain /\ counted)
  BY <1>2
<1>4. ASSUME NEW j \in i + 1 .. Len(p) + 1 PROVE y(j) \in i + 1 .. Len(p) + 1
  <2>1. j \in Nat \ {0}
    BY <1>1
  <2>2. At(p, j) = "?" => j + 1 \in 1 .. Len(p) + 1
    BY <2>1, Inside, Marks
  <2>. QED  BY <1>1, <2>2 DEF GoNonGreedy
<1>5. ASSUME NEW r
      PROVE  /\ GoQuantify(p, r, i) =
                  CASE plain -> IF TRUE THEN r[<<"quantify", y(i + 1)>>] ELSE Fail
                    [] counted /\ At(p, lo) = RBrace -> IF GoBounds(n, n) THEN r[<<"quantify", y(lo + 1)>>] ELSE Fail
                    [] counted /\ At(p, lo) = Comma /\ At(p, lo + 1) = RBrace ->
                         IF GoBounds(n, n) THEN r[<<"quantify", y(lo + 1 + 1)>>] ELSE Fail
                    [] counted /\ last -> IF GoBounds(n, m) THEN r[<<"quantify", y(hi + 1)>>] ELSE Fail
                    [] ~plain /\ ~counted -> i
                    [] OTHER -> Fail
             /\ LeanQuantify(p, r, i) =
                  CASE plain -> r[<<"quantify", y(i + 1)>>]
                    [] counted /\ At(p, lo) = RBrace /\ n <= MaxBound -> r[<<"quantify", y(lo + 1)>>]
                    [] counted /\ At(p, lo) = Comma /\ At(p, lo + 1) = RBrace /\ n <= MaxBound -> r[<<"quantify", y(lo + 2)>>]
                    [] counted /\ last /\ m <= MaxBound /\ m >= n -> r[<<"quantify", y(hi + 1)>>]
                    [] ~plain /\ ~counted -> i
                    [] OTHER -> Fail
  BY DEF GoQuantify, LeanQuantify, GoNonGreedy
<1>6. CASE plain
  <2>1. i + 1 \in i + 1 .. Len(p) + 1
    <3>1. At(p, i) # End
      BY <1>6, Marks
    <3>. QED  BY <1>1, <3>1, Inside
  <2>2. y(i + 1) \in i + 1 .. Len(p) + 1
    BY <1>4, <2>1
  <2>. HIDE DEF plain, counted, last, lo, hi, n, m, y
  <2>3. \A r : GoQuantify(p, r, i) = r[<<"quantify", y(i + 1)>>] /\ LeanQuantify(p, r, i) = r[<<"quantify", y(i + 1)>>]
    BY <1>3, <1>5, <1>6
  <2>. QED  BY <2>2, <2>3
<1>7. CASE ~plain /\ ~counted
  <2>. HIDE DEF plain, counted, last, lo, hi, n, m, y
  <2>. QED  BY <1>5, <1>7
<1>8. CASE counted
  <2>1. /\ lo \in i + 1 .. Len(p) + 1 /\ n \in Nat
        /\ At(p, lo) \in {RBrace, Comma} => lo + 1 \in i + 1 .. Len(p) + 1
        /\ At(p, lo) = Comma /\ At(p, lo + 1) = RBrace => lo + 2 \in i + 1 .. Len(p) + 1
        /\ At(p, lo) = Comma /\ At(p, hi) = RBrace => hi + 1 \in i + 1 .. Len(p) + 1 /\ m \in Nat
    BY <1>8, Counted
  <2>. HIDE DEF plain, counted, lo, hi, n, m, y
  <2>2. MaxBound \in Nat
    BY GrammarAssumption
  <2>3. lo + 1 + 1 = lo + 2 /\ (GoBounds(n, n) <=> n <= MaxBound)
    BY <1>1, <2>1, <2>2 DEF GoBounds
  <2>4. CASE At(p, lo) = RBrace
    <3>1. \A r : LeanQuantify(p, r, i) = IF n <= MaxBound THEN r[<<"quantify", y(lo + 1)>>] ELSE Fail
      BY <1>2, <1>3, <1>5, <1>8, <2>4
    <3>2. \A r : GoQuantify(p, r, i) = IF n <= MaxBound THEN r[<<"quantify", y(lo + 1)>>] ELSE Fail
      BY <1>2, <1>3, <1>5, <1>8, <2>3, <2>4
    <3>3. y(lo + 1) \in i + 1 .. Len(p) + 1
      BY <1>4, <2>1, <2>4
    <3>. QED  BY <3>1, <3>2, <3>3
  <2>5. CASE At(p, lo) = Comma /\ At(p, lo + 1) = RBrace
    <3>1. \A r : LeanQuantify(p, r, i) = IF n <= MaxBound THEN r[<<"quantify", y(lo + 2)>>] ELSE Fail
      BY <1>2, <1>3, <1>5, <1>8, <2>5
    <3>2. \A r : GoQuantify(p, r, i) = IF n <= MaxBound THEN r[<<"quantify", y(lo + 2)>>] ELSE Fail
      BY <1>2, <1>3, <1>5, <1>8, <2>3, <2>5
    <3>3. y(lo + 2) \in i + 1 .. Len(p) + 1
      BY <1>4, <2>1, <2>5
    <3>. QED  BY <3>1, <3>2, <3>3
  <2>6. CASE last
    <3>1. m \in Nat /\ hi + 1 \in i + 1 .. Len(p) + 1
      BY <2>1, <2>6
    <3>2. GoBounds(n, m) <=> m <= MaxBound /\ m >= n
      BY <2>1, <2>2, <3>1 DEF GoBounds
    <3>3. last /\ ~(At(p, lo) = RBrace) /\ ~(At(p, lo) = Comma /\ At(p, lo + 1) = RBrace)
      BY <1>2, <2>6
    <3>. HIDE DEF last
    <3>4. \A r : LeanQuantify(p, r, i) = IF m <= MaxBound /\ m >= n THEN r[<<"quantify", y(hi + 1)>>] ELSE Fail
      BY <1>3, <1>5, <1>8, <3>3
    <3>5. \A r : GoQuantify(p, r, i) = IF m <= MaxBound /\ m >= n THEN r[<<"quantify", y(hi + 1)>>] ELSE Fail
      BY <1>3, <1>5, <1>8, <3>2, <3>3
    <3>6. y(hi + 1) \in i + 1 .. Len(p) + 1
      BY <1>4, <3>1
    <3>. QED  BY <3>4, <3>5, <3>6
  <2>7. CASE ~(At(p, lo) = RBrace) /\ ~(At(p, lo) = Comma /\ At(p, lo + 1) = RBrace) /\ ~last
    <3>. HIDE DEF last
    <3>. QED  BY <1>3, <1>5, <1>8, <2>7
  <2>. QED  BY <2>4, <2>5, <2>6, <2>7
<1>. QED  BY <1>6, <1>7, <1>8

-----------------------------------------------------------------------------
(* How the two parsers read a class.                                       *)

\* Nothing in p that the plugin refuses on purpose.
Alike(p) ==
  \A i \in 1 .. Len(p) :
    /\ At(p, i) = "\\" => LeanEscape(p, i + 1) = GoEscape(p, i + 1)
    /\ At(p, i) = "[" => At(p, i + 1) # ":"
    /\ At(p, i) = "]" => At(p, i + 1) # "-"

LEMMA RestsAgree ==
  ASSUME NEW p \in Seq(STRING), NEW j \in 1 .. Len(p) + 1
  PROVE  \/ \E y \in j .. Len(p) + 1 : \A r : GoRest(p, r, j) = r[<<"items", y>>] /\ LeanRest(p, r, j) = r[<<"items", y>>]
         \/ /\ At(p, j) = "-" /\ At(p, j + 1) = "]"
            /\ \A r : GoRest(p, r, j) = r[<<"items", j>>] /\ LeanRest(p, r, j) = r[<<"items", j + 1>>]
         \/ \A r : GoRest(p, r, j) = Fail /\ LeanRest(p, r, j) = Fail
         \/ ~Alike(p) /\ \A r : GoRest(p, r, j) = Fail
<1>1. Len(p) \in Nat /\ j \in Nat \ {0} /\ j # Fail /\ j + 2 # Fail
  BY DEF Fail
<1>2. "]" # End /\ "\\" # End /\ "]" # "\\"
  BY Marks
<1>3. CASE At(p, j) # "-" \/ At(p, j + 1) = End
  <2>1. GoClassRange(p, j) = j
    BY <1>3 DEF GoClassRange
  <2>2. \A r : GoRest(p, r, j) = r[<<"items", j>>] /\ LeanRest(p, r, j) = r[<<"items", j>>]
    BY <1>1, <1>3, <2>1 DEF GoRest, LeanRest
  <2>3. j \in j .. Len(p) + 1
    BY <1>1
  <2>. QED  BY <2>2, <2>3
<1>4. CASE At(p, j) = "-" /\ At(p, j + 1) = "]"
  <2>1. GoClassRange(p, j) = j
    BY <1>4 DEF GoClassRange
  <2>2. \A r : GoRest(p, r, j) = r[<<"items", j>>] /\ LeanRest(p, r, j) = r[<<"items", j + 1>>]
    BY <1>1, <1>2, <1>4, <2>1 DEF GoRest, LeanRest
  <2>. QED  BY <1>4, <2>2
<1>5. CASE At(p, j) = "-" /\ At(p, j + 1) \notin {End, "]", "\\"}
  <2>1. GoClassRange(p, j) = j + 2
    BY <1>5 DEF GoClassRange
  <2>2. \A r : GoRest(p, r, j) = r[<<"items", j + 2>>] /\ LeanRest(p, r, j) = r[<<"items", j + 2>>]
    BY <1>1, <1>5, <2>1 DEF GoRest, LeanRest
  <2>3. At(p, j) # End /\ At(p, j + 1) # End
    BY <1>5, Marks
  <2>4. j + 2 \in j .. Len(p) + 1
    BY <1>1, <2>3, Inside
  <2>. QED  BY <2>2, <2>4
<1>6. CASE At(p, j) = "-" /\ At(p, j + 1) = "\\"
  <2>. DEFINE e == GoEscape(p, j + 2)
              h == LeanEscape(p, j + 2)
  <2>1. GoClassRange(p, j) = IF e.pred THEN Fail ELSE e.to
    BY <1>2, <1>6 DEF GoClassRange
  <2>2. At(p, j) # End /\ At(p, j + 1) # End
    BY <1>6, Marks
  <2>3. j + 2 \in 1 .. Len(p) + 1 /\ j + 1 \in 1 .. Len(p) /\ (j + 1) + 1 = j + 2
    BY <1>1, <2>2, Inside
  <2>4. Reaches(p, (j + 2) + 1, e.to) /\ (e.to # Fail => h = e)
    BY <2>3, EscapesReach
  <2>5. Alike(p) => h = e
    BY <1>6, <2>3 DEF Alike
  <2>. HIDE DEF e
  <2>6. \A r : GoRest(p, r, j) = IF e.pred \/ e.to = Fail THEN Fail ELSE r[<<"items", e.to>>]
    BY <2>1 DEF GoRest
  <2>7. \A r : LeanRest(p, r, j) = IF h.to = Fail \/ h.pred THEN Fail ELSE r[<<"items", h.to>>]
    BY <1>2, <1>6 DEF LeanRest
  <2>. HIDE DEF h
  <2>8. CASE e.to # Fail /\ ~e.pred
    <3>1. \A r : GoRest(p, r, j) = r[<<"items", e.to>>] /\ LeanRest(p, r, j) = r[<<"items", e.to>>]
      BY <2>4, <2>6, <2>7, <2>8
    <3>2. e.to \in j .. Len(p) + 1
      BY <1>1, <2>4, <2>8 DEF Reaches
    <3>. QED  BY <3>1, <3>2
  <2>9. CASE e.to = Fail \/ e.pred
    <3>1. \A r : GoRest(p, r, j) = Fail
      BY <2>6, <2>9
    <3>2. h = e => \A r : LeanRest(p, r, j) = Fail
      BY <2>7, <2>9
    <3>. QED  BY <2>5, <3>1, <3>2
  <2>. QED  BY <2>8, <2>9
<1>. QED  BY <1>3, <1>4, <1>5, <1>6

\* Where the items of a class lead, whatever the nested calls answer.
Same(p, i, a, b) == \A r : GoClassItems(p, r, i, a) = b /\ LeanClassItems(p, r, i, a) = b
Alone(p, i, a) == \E y \in i + 1 .. Len(p) + 1 : \A r :
  GoClassItems(p, r, i, a) = r[<<"items", y>>] /\ LeanClassItems(p, r, i, a) = r[<<"items", y>>]
Dash(p, i, a) == \E j \in i + 1 .. Len(p) + 1 : At(p, j) = "-" /\ At(p, j + 1) = "]" /\ \A r :
  GoClassItems(p, r, i, a) = r[<<"items", j>>] /\ LeanClassItems(p, r, i, a) = r[<<"items", j + 1>>]
Refused(p, i, a) == ~Alike(p) /\ \A r : GoClassItems(p, r, i, a) = Fail

LEMMA ItemsRest ==
  ASSUME NEW p \in Seq(STRING), NEW i \in 1 .. Len(p) + 1, NEW item, NEW j \in i + 1 .. Len(p) + 1,
         \A r : GoClassItems(p, r, i, item) = GoRest(p, r, j) /\ LeanClassItems(p, r, i, item) = LeanRest(p, r, j)
  PROVE  Alone(p, i, item) \/ Dash(p, i, item) \/ Same(p, i, item, Fail) \/ Refused(p, i, item)
<1>1. Len(p) \in Nat /\ j \in 1 .. Len(p) + 1
  OBVIOUS
<1>2. \/ \E y \in j .. Len(p) + 1 : \A r : GoRest(p, r, j) = r[<<"items", y>>] /\ LeanRest(p, r, j) = r[<<"items", y>>]
      \/ /\ At(p, j) = "-" /\ At(p, j + 1) = "]"
         /\ \A r : GoRest(p, r, j) = r[<<"items", j>>] /\ LeanRest(p, r, j) = r[<<"items", j + 1>>]
      \/ \A r : GoRest(p, r, j) = Fail /\ LeanRest(p, r, j) = Fail
      \/ ~Alike(p) /\ \A r : GoRest(p, r, j) = Fail
  BY <1>1, RestsAgree
<1>3. ASSUME NEW y \in j .. Len(p) + 1,
             \A r : GoRest(p, r, j) = r[<<"items", y>>] /\ LeanRest(p, r, j) = r[<<"items", y>>]
      PROVE  Alone(p, i, item)
  <2>1. y \in i + 1 .. Len(p) + 1
    BY <1>1
  <2>. QED  BY <1>3, <2>1 DEF Alone
<1>4. ASSUME At(p, j) = "-", At(p, j + 1) = "]",
             \A r : GoRest(p, r, j) = r[<<"items", j>>] /\ LeanRest(p, r, j) = r[<<"items", j + 1>>]
      PROVE  Dash(p, i, item)
  BY <1>4 DEF Dash
<1>5. ASSUME \A r : GoRest(p, r, j) = Fail /\ LeanRest(p, r, j) = Fail PROVE Same(p, i, item, Fail)
  BY <1>5 DEF Same
<1>6. ASSUME ~Alike(p), \A r : GoRest(p, r, j) = Fail PROVE Refused(p, i, item)
  BY <1>6 DEF Refused
<1>. QED  BY <1>2, <1>3, <1>4, <1>5, <1>6

LEMMA ItemsAgree ==
  ASSUME NEW p \in Seq(STRING), NEW i \in 1 .. Len(p) + 1, NEW item
  PROVE  \/ Alone(p, i, item)
         \/ Dash(p, i, item)
         \/ Refused(p, i, item)
         \/ Same(p, i, item, Fail)
         \/ At(p, i) = "]" /\ item # "first" /\ Same(p, i, item, i + 1)
<1>1. Len(p) \in Nat /\ i \in Nat \ {0} /\ i \in Nat
  OBVIOUS
<1>2. CASE At(p, i) = End
  <2>1. \A r : GoClassItems(p, r, i, item) = Fail /\ LeanClassItems(p, r, i, item) = Fail
    BY <1>2, Marks DEF GoClassItems, LeanClassItems
  <2>2. Same(p, i, item, Fail)
    BY <2>1 DEF Same
  <2>. QED  BY <2>2
<1>3. CASE At(p, i) # End
  <2>1. i \in 1 .. Len(p) /\ i + 1 \in 1 .. Len(p) + 1 /\ i + 1 \in i + 1 .. Len(p) + 1
    BY <1>1, <1>3, Inside
  <2>2. CASE At(p, i) = "]" /\ item # "first"
    <3>1. \A r : GoClassItems(p, r, i, item) = i + 1
      BY <1>1, <2>2, Marks DEF GoClassItems, GoRest, Fail
    <3>2. \A r : LeanClassItems(p, r, i, item) = i + 1
      BY <1>1, <2>2, Marks DEF LeanClassItems, LeanRest, Fail
    <3>. QED  BY <2>2, <3>1, <3>2 DEF Same
  <2>3. CASE At(p, i) = "]" /\ item = "first"
    <3>1. \A r : LeanClassItems(p, r, i, item) = r[<<"items", i + 1>>]
      BY <1>1, <2>3, Marks DEF LeanClassItems, LeanRest, Fail
    <3>2. CASE At(p, i + 1) # "-"
      <4>1. \A r : GoClassItems(p, r, i, item) = r[<<"items", i + 1>>]
        BY <1>1, <2>3, <3>2, Marks DEF GoClassItems, GoRest, Fail
      <4>. QED  BY <2>1, <3>1, <4>1 DEF Alone
    <3>3. CASE At(p, i + 1) = "-"
      <4>2. ~Alike(p)
        BY <2>1, <2>3, <3>3 DEF Alike
      <4>3. (\A r : GoClassItems(p, r, i, item) = r[<<"items", i + 1>>]) \/ (\A r : GoClassItems(p, r, i, item) = Fail)
        BY <2>3, <3>3, Marks DEF GoClassItems
      <4>. QED  BY <2>1, <3>1, <4>2, <4>3 DEF Alone, Refused
    <3>. QED  BY <3>2, <3>3
  <2>4. CASE At(p, i) = "\\"
    <3>. DEFINE e == GoEscape(p, i + 1)
                h == LeanEscape(p, i + 1)
    <3>1. Reaches(p, (i + 1) + 1, e.to) /\ (e.to # Fail => h = e) /\ (Alike(p) => h = e)
      BY <2>1, <2>4, EscapesReach DEF Alike
    <3>2. \A r : /\ e.to = Fail => GoClassItems(p, r, i, item) = Fail
                 /\ e.to # Fail /\ e.pred => GoClassItems(p, r, i, item) = r[<<"items", e.to>>]
                 /\ e.to # Fail /\ ~e.pred => GoClassItems(p, r, i, item) = GoRest(p, r, e.to)
      BY <1>1, <2>4, Marks DEF GoClassItems, GoRest, Fail
    <3>3. \A r : /\ h.to = Fail => LeanClassItems(p, r, i, item) = Fail
                 /\ h.to # Fail /\ h.pred => LeanClassItems(p, r, i, item) = r[<<"items", h.to>>]
                 /\ h.to # Fail /\ ~h.pred => LeanClassItems(p, r, i, item) = LeanRest(p, r, h.to)
      BY <1>1, <2>4, Marks DEF LeanClassItems, LeanRest, Fail
    <3>. HIDE DEF e, h
    <3>4. e.to # Fail => e.to \in i + 1 .. Len(p) + 1
      BY <1>1, <3>1 DEF Reaches
    <3>5. CASE e.to = Fail
      <4>1. \A r : GoClassItems(p, r, i, item) = Fail
        BY <3>2, <3>5
      <4>2. h = e => \A r : LeanClassItems(p, r, i, item) = Fail
        BY <3>3, <3>5
      <4>3. h = e => Same(p, i, item, Fail)
        BY <4>1, <4>2 DEF Same
      <4>4. h # e => Refused(p, i, item)
        BY <3>1, <4>1 DEF Refused
      <4>. QED  BY <4>3, <4>4
    <3>6. CASE e.to # Fail /\ e.pred
      <4>1. \A r : GoClassItems(p, r, i, item) = r[<<"items", e.to>>] /\ LeanClassItems(p, r, i, item) = r[<<"items", e.to>>]
        BY <3>1, <3>2, <3>3, <3>6
      <4>. QED  BY <3>4, <3>6, <4>1 DEF Alone
    <3>7. CASE e.to # Fail /\ ~e.pred
      <4>1. \A r : GoClassItems(p, r, i, item) = GoRest(p, r, e.to) /\ LeanClassItems(p, r, i, item) = LeanRest(p, r, e.to)
        BY <3>1, <3>2, <3>3, <3>7
      <4>2. e.to \in i + 1 .. Len(p) + 1
        BY <3>4, <3>7
      <4>. QED  BY <4>1, <4>2, ItemsRest
    <3>. QED  BY <3>5, <3>6, <3>7
  <2>5. CASE At(p, i) \notin {End, "]", "\\"}
    <3>1. \A r : LeanClassItems(p, r, i, item) = LeanRest(p, r, i + 1)
      BY <1>1, <2>5, Marks DEF LeanClassItems, LeanRest, Fail
    <3>2. CASE At(p, i) = "[" => At(p, i + 1) # ":"
      <4>1. \A r : GoClassItems(p, r, i, item) = GoRest(p, r, i + 1)
        BY <1>1, <2>5, <3>2, Marks DEF GoClassItems, GoRest, Fail
      <4>. QED  BY <2>1, <3>1, <4>1, ItemsRest
    <3>3. CASE At(p, i) = "[" /\ At(p, i + 1) = ":"
      <4>1. ~Alike(p)
        BY <2>1, <3>3 DEF Alike
      <4>2. \A r : GoClassItems(p, r, i, item) = Fail
        BY <2>5, <3>3 DEF GoClassItems
      <4>. QED  BY <4>1, <4>2 DEF Refused
    <3>. QED  BY <3>2, <3>3
  <2>. QED  BY <1>3, <2>2, <2>3, <2>4, <2>5
<1>. QED  BY <1>2, <1>3

-----------------------------------------------------------------------------
(* From the nested calls to a call.                                        *)

Improves(x, y) == x # Fail => y = x
Below(p, i, r, s) == \A c \in Calls(p) : c[2] >= i => Improves(r[c], s[c])

\* From the answers r of the plugin to those of the runtime, s, and back.  A
\* "-" before the "]" of a class is one more item only for the plugin.
Forward(p, i, r, s) ==
  /\ Below(p, i, r, s)
  /\ \A j \in i .. Len(p) : At(p, j) = "-" /\ At(p, j + 1) = "]" => Improves(r[<<"items", j>>], s[<<"items", j + 1>>])
Backward(p, i, r, s) ==
  /\ Alike(p)
  /\ Below(p, i, s, r)
  /\ \A j \in i .. Len(p) : At(p, j) = "-" /\ At(p, j + 1) = "]" => Improves(s[<<"items", j + 1>>], r[<<"items", j>>])

\* x is the plugin's and y is the runtime's, when they agree from i on.
Related(p, i, r, s, x, y) ==
  /\ Forward(p, i, r, s) => Improves(x, y)
  /\ Backward(p, i, r, s) => Improves(y, x)

LEMMA LaterRelated ==
  ASSUME NEW p \in Seq(STRING), NEW i \in Nat, NEW k \in Nat, i <= k, NEW r, NEW s
  PROVE  /\ Forward(p, i, r, s) => Forward(p, k, r, s)
         /\ Backward(p, i, r, s) => Backward(p, k, r, s)
         /\ \A x, y : Related(p, k, r, s, x, y) => Related(p, i, r, s, x, y)
<1>1. Len(p) \in Nat
  OBVIOUS
<1>2. \A c \in Calls(p) : c[2] >= k => c[2] >= i
  BY <1>1 DEF Calls
<1>3. \A j \in k .. Len(p) : j \in i .. Len(p)
  BY <1>1
<1>4. Forward(p, i, r, s) => Forward(p, k, r, s)
  BY <1>2, <1>3 DEF Forward, Below
<1>5. Backward(p, i, r, s) => Backward(p, k, r, s)
  BY <1>2, <1>3 DEF Backward, Below
<1>. QED  BY <1>4, <1>5 DEF Related

LEMMA CallRelated ==
  ASSUME NEW p \in Seq(STRING), NEW i \in Nat, NEW r, NEW s, NEW j \in Nat \ {0}, i <= j, j <= Len(p) + 1,
         NEW f \in {"alt", "concat", "quantify", "items"}
  PROVE  Related(p, i, r, s, r[<<f, j>>], s[<<f, j>>])
<1>1. Len(p) \in Nat
  OBVIOUS
<1>2. <<f, j>> \in Calls(p) /\ <<f, j>>[2] >= i
  BY <1>1 DEF Calls
<1>. QED  BY <1>2 DEF Related, Forward, Backward, Below

LEMMA EqualRelated ==
  ASSUME NEW p, NEW i, NEW r, NEW s, NEW x
  PROVE  Related(p, i, r, s, x, x)
BY DEF Related, Improves

LEMMA ItemsRelated ==
  ASSUME NEW p \in Seq(STRING), NEW i \in 1 .. Len(p) + 1, NEW r \in Answers(p), NEW s \in Answers(p), NEW item
  PROVE  Related(p, i + 1, r, s, GoClassItems(p, r, i, item), LeanClassItems(p, s, i, item))
<1>1. Len(p) \in Nat /\ i \in Nat \ {0} /\ i + 1 \in Nat
  OBVIOUS
<1>2. CASE Alone(p, i, item)
  <2>1. PICK y \in i + 1 .. Len(p) + 1 : \A t :
          GoClassItems(p, t, i, item) = t[<<"items", y>>] /\ LeanClassItems(p, t, i, item) = t[<<"items", y>>]
    BY <1>2 DEF Alone
  <2>2. y \in Nat \ {0} /\ i + 1 <= y /\ y <= Len(p) + 1
    BY <1>1
  <2>3. Related(p, i + 1, r, s, r[<<"items", y>>], s[<<"items", y>>])
    BY <1>1, <2>2, CallRelated
  <2>. QED  BY <2>1, <2>3
<1>3. CASE Dash(p, i, item)
  <2>1. PICK j \in i + 1 .. Len(p) + 1 :
          /\ At(p, j) = "-" /\ At(p, j + 1) = "]"
          /\ \A t : GoClassItems(p, t, i, item) = t[<<"items", j>>] /\ LeanClassItems(p, t, i, item) = t[<<"items", j + 1>>]
    BY <1>3 DEF Dash
  <2>2. j \in i + 1 .. Len(p)
    <3>1. At(p, j) # End /\ j \in Nat \ {0}
      BY <1>1, <2>1, Marks
    <3>. QED  BY <1>1, <3>1, Inside
  <2>3. Related(p, i + 1, r, s, r[<<"items", j>>], s[<<"items", j + 1>>])
    BY <2>1, <2>2 DEF Related, Forward, Backward
  <2>. QED  BY <2>1, <2>3
<1>4. CASE Refused(p, i, item)
  BY <1>4 DEF Refused, Related, Backward, Improves
<1>5. CASE Same(p, i, item, Fail)
  BY <1>5, EqualRelated DEF Same
<1>6. CASE Same(p, i, item, i + 1)
  BY <1>6, EqualRelated DEF Same
<1>. QED  BY <1>2, <1>3, <1>4, <1>5, <1>6, ItemsAgree

LEMMA ClassesRelated ==
  ASSUME NEW p \in Seq(STRING), NEW i \in 1 .. Len(p) + 1, NEW r \in Answers(p), NEW s \in Answers(p)
  PROVE  Related(p, i + 1, r, s, GoClass(p, r, i), LeanClass(p, s, i))
<1>. DEFINE k == ItemsAt(p, i)
<1>1. /\ k \in i .. Len(p) + 1
      /\ GoClass(p, r, i) = GoClassItems(p, r, k, "first")
      /\ LeanClass(p, s, i) = LeanClassItems(p, s, k, "first")
  BY ClassesReach
<1>. HIDE DEF k
<1>2. Len(p) \in Nat /\ k \in 1 .. Len(p) + 1 /\ k + 1 \in Nat /\ i + 1 \in Nat /\ i + 1 <= k + 1
  BY <1>1
<1>3. Related(p, k + 1, r, s, GoClassItems(p, r, k, "first"), LeanClassItems(p, s, k, "first"))
  BY <1>2, ItemsRelated
<1>. QED  BY <1>1, <1>2, <1>3, LaterRelated

LEMMA QuantifyRelated ==
  ASSUME NEW p \in Seq(STRING), NEW i \in 1 .. Len(p) + 1, NEW r \in Answers(p), NEW s \in Answers(p)
  PROVE  /\ Reaches(p, i, GoQuantify(p, r, i)) /\ Reaches(p, i, LeanQuantify(p, s, i))
         /\ Related(p, i + 1, r, s, GoQuantify(p, r, i), LeanQuantify(p, s, i))
<1>1. Len(p) \in Nat /\ i \in Nat \ {0} /\ i \in Nat /\ i + 1 \in Nat
  OBVIOUS
<1>2. CASE \A t : GoQuantify(p, t, i) = i /\ LeanQuantify(p, t, i) = i
  <2>1. Reaches(p, i, i)
    BY <1>1 DEF Reaches
  <2>. QED  BY <1>2, <2>1, EqualRelated
<1>3. CASE \A t : GoQuantify(p, t, i) = Fail /\ LeanQuantify(p, t, i) = Fail
  <2>1. Reaches(p, i, Fail)
    BY DEF Reaches
  <2>. QED  BY <1>3, <2>1, EqualRelated
<1>4. ASSUME NEW y \in i + 1 .. Len(p) + 1,
             \A t : GoQuantify(p, t, i) = t[<<"quantify", y>>] /\ LeanQuantify(p, t, i) = t[<<"quantify", y>>]
      PROVE  /\ Reaches(p, i, GoQuantify(p, r, i)) /\ Reaches(p, i, LeanQuantify(p, s, i))
             /\ Related(p, i + 1, r, s, GoQuantify(p, r, i), LeanQuantify(p, s, i))
  <2>1. y \in Nat \ {0} /\ i + 1 <= y /\ i <= y /\ y <= Len(p) + 1
    BY <1>1
  <2>2. Related(p, i + 1, r, s, r[<<"quantify", y>>], s[<<"quantify", y>>])
    BY <1>1, <2>1, CallRelated
  <2>3. Reaches(p, i, r[<<"quantify", y>>]) /\ Reaches(p, i, s[<<"quantify", y>>])
    BY <1>1, <2>1, Answered
  <2>. QED  BY <1>4, <2>2, <2>3
<1>. QED  BY <1>2, <1>3, <1>4, QuantifiersAgree

\* A group whose alternatives start at j.
Group(p, r, j) == IF r[<<"alt", j>>] # Fail /\ At(p, r[<<"alt", j>>]) = ")" THEN r[<<"alt", j>>] + 1 ELSE Fail

LEMMA GroupsRelated ==
  ASSUME NEW p \in Seq(STRING), NEW i \in Nat, NEW j \in Nat \ {0}, i <= j, j <= Len(p) + 1,
         NEW r \in Answers(p), NEW s \in Answers(p)
  PROVE  /\ Reaches(p, i, Group(p, r, j)) /\ Reaches(p, i, Group(p, s, j))
         /\ Related(p, i, r, s, Group(p, r, j), Group(p, s, j))
<1>1. Len(p) \in Nat
  OBVIOUS
<1>2. ASSUME NEW t \in Answers(p)
      PROVE  Reaches(p, i, Group(p, t, j)) /\ (Group(p, t, j) # Fail => t[<<"alt", j>>] # Fail)
  <2>. DEFINE x == t[<<"alt", j>>]
  <2>1. x # Fail => x \in i .. Len(p) + 1 /\ x \in Nat \ {0}
    BY Answered
  <2>. HIDE DEF x
  <2>2. x # Fail /\ At(p, x) = ")" => x + 1 \in i .. Len(p) + 1
    <3>1. x # Fail /\ At(p, x) = ")" => x + 1 \in 1 .. Len(p) + 1
      BY <2>1, Inside, Marks
    <3>. QED  BY <1>1, <2>1, <3>1
  <2>3. Group(p, t, j) = IF x # Fail /\ At(p, x) = ")" THEN x + 1 ELSE Fail
    BY DEF Group, x
  <2>4. Reaches(p, i, Group(p, t, j)) /\ (Group(p, t, j) # Fail => x # Fail)
    BY <2>2, <2>3 DEF Reaches
  <2>. QED  BY <2>4 DEF x
<1>3. Related(p, i, r, s, r[<<"alt", j>>], s[<<"alt", j>>])
  BY CallRelated
<1>4. r[<<"alt", j>>] = s[<<"alt", j>>] => Group(p, r, j) = Group(p, s, j)
  BY DEF Group
<1>. QED  BY <1>2, <1>3, <1>4 DEF Related, Improves

LEMMA AtomRelated ==
  ASSUME NEW p \in Seq(STRING), NEW i \in 1 .. Len(p) + 1, NEW r \in Answers(p), NEW s \in Answers(p)
  PROVE  /\ Reaches(p, i + 1, GoAtom(p, r, i)) /\ Reaches(p, i + 1, LeanAtom(p, s, i))
         /\ Related(p, i + 1, r, s, GoAtom(p, r, i), LeanAtom(p, s, i))
<1>1. Len(p) \in Nat /\ i \in Nat \ {0} /\ i + 1 \in Nat
  OBVIOUS
<1>2. Reaches(p, i + 1, Fail)
  BY DEF Reaches
<1>3. CASE At(p, i) \in {End, "*", "+", "?"}
  <2>1. GoAtom(p, r, i) = Fail
    BY <1>3, Marks DEF GoAtom
  <2>2. LeanAtom(p, s, i) = Fail
    BY <1>3, Marks DEF LeanAtom
  <2>. QED  BY <1>2, <2>1, <2>2, EqualRelated
<1>4. CASE At(p, i) # End
  <2>1. i \in 1 .. Len(p) /\ i + 1 \in 1 .. Len(p) + 1 /\ i + 1 \in Nat \ {0} /\ i + 1 <= Len(p) + 1 /\ i + 1 <= i + 1
    BY <1>1, <1>4, Inside
  <2>2. CASE At(p, i) = "(" /\ At(p, i + 1) # "?"
    <3>1. GoAtom(p, r, i) = Group(p, r, i + 1)
      BY <2>2, Marks DEF GoAtom, Group
    <3>2. LeanAtom(p, s, i) = Group(p, s, i + 1)
      BY <2>2, Marks DEF LeanAtom, Group
    <3>. QED  BY <1>1, <2>1, <3>1, <3>2, GroupsRelated
  <2>3. CASE At(p, i) = "(" /\ At(p, i + 1) = "?" /\ At(p, i + 2) = ":"
    <3>1. GoAtom(p, r, i) = Group(p, r, i + 3)
      BY <2>3, Marks DEF GoAtom, Group
    <3>2. LeanAtom(p, s, i) = Group(p, s, i + 3)
      BY <2>3, Marks DEF LeanAtom, Group
    <3>3. At(p, i + 1) # End /\ At(p, i + 2) # End
      BY <2>3, Marks
    <3>4. i + 3 \in 1 .. Len(p) + 1
      BY <1>1, <1>4, <3>3, Inside
    <3>5. i + 3 \in Nat \ {0} /\ i + 1 <= i + 3 /\ i + 3 <= Len(p) + 1
      BY <1>1, <3>4
    <3>. QED  BY <1>1, <3>1, <3>2, <3>5, GroupsRelated
  <2>4. CASE At(p, i) = "(" /\ At(p, i + 1) = "?" /\ At(p, i + 2) # ":"
    <3>1. GoAtom(p, r, i) = Fail
      BY <2>4, Marks DEF GoAtom
    <3>2. LeanAtom(p, s, i) = Fail
      BY <2>4, Marks DEF LeanAtom
    <3>. QED  BY <1>2, <3>1, <3>2, EqualRelated
  <2>5. CASE At(p, i) = "["
    <3>1. GoAtom(p, r, i) = GoClass(p, r, i + 1)
      BY <2>5, Marks DEF GoAtom
    <3>2. LeanAtom(p, s, i) = LeanClass(p, s, i + 1)
      BY <2>5, Marks DEF LeanAtom
    <3>3. Reaches(p, (i + 1) + 1, GoClass(p, r, i + 1)) /\ Reaches(p, (i + 1) + 1, LeanClass(p, s, i + 1))
      BY <2>1, ClassesReach
    <3>4. Related(p, (i + 1) + 1, r, s, GoClass(p, r, i + 1), LeanClass(p, s, i + 1))
      BY <2>1, ClassesRelated
    <3>5. (i + 1) + 1 \in Nat /\ i + 1 <= (i + 1) + 1
      BY <1>1
    <3>6. Reaches(p, i + 1, GoClass(p, r, i + 1)) /\ Reaches(p, i + 1, LeanClass(p, s, i + 1))
      BY <1>1, <3>3, <3>5, FromLater
    <3>7. Related(p, i + 1, r, s, GoClass(p, r, i + 1), LeanClass(p, s, i + 1))
      BY <1>1, <3>4, <3>5, LaterRelated
    <3>. QED  BY <3>1, <3>2, <3>6, <3>7
  <2>6. CASE At(p, i) = "\\"
    <3>. DEFINE x == GoEscape(p, i + 1).to
                y == LeanEscape(p, i + 1).to
    <3>1. GoAtom(p, r, i) = x
      BY <2>6, Marks DEF GoAtom
    <3>2. LeanAtom(p, s, i) = y
      BY <2>6, Marks DEF LeanAtom
    <3>3. Reaches(p, (i + 1) + 1, x) /\ Reaches(p, (i + 1) + 1, y) /\ (x # Fail => y = x)
      BY <2>1, EscapesReach
    <3>4. Alike(p) => y = x
      BY <2>1, <2>6 DEF Alike
    <3>. HIDE DEF x, y
    <3>5. Reaches(p, i + 1, x) /\ Reaches(p, i + 1, y)
      <4>1. (i + 1) + 1 \in Nat /\ i + 1 <= (i + 1) + 1
        BY <1>1
      <4>. QED  BY <1>1, <3>3, <4>1, FromLater
    <3>6. Related(p, i + 1, r, s, x, y)
      BY <3>3, <3>4 DEF Related, Backward, Improves
    <3>. QED  BY <3>1, <3>2, <3>5, <3>6
  <2>7. CASE At(p, i) \notin {End, "*", "+", "?", "(", "[", "\\"}
    <3>1. GoAtom(p, r, i) = i + 1
      BY <2>7 DEF GoAtom
    <3>2. LeanAtom(p, s, i) = i + 1
      BY <2>7 DEF LeanAtom
    <3>3. Reaches(p, i + 1, i + 1)
      BY <1>1, <2>1 DEF Reaches
    <3>. QED  BY <3>1, <3>2, <3>3, EqualRelated
  <2>. QED  BY <1>3, <1>4, <2>2, <2>3, <2>4, <2>5, <2>6, <2>7
<1>. QED  BY <1>3, <1>4

LEMMA RepeatRelated ==
  ASSUME NEW p \in Seq(STRING), NEW i \in 1 .. Len(p) + 1, NEW r \in Answers(p), NEW s \in Answers(p)
  PROVE  /\ Reaches(p, i + 1, GoRepeat(p, r, i)) /\ Reaches(p, i + 1, LeanRepeat(p, s, i))
         /\ Related(p, i + 1, r, s, GoRepeat(p, r, i), LeanRepeat(p, s, i))
<1>. DEFINE x == GoAtom(p, r, i)
            y == LeanAtom(p, s, i)
<1>1. Len(p) \in Nat /\ i + 1 \in Nat
  OBVIOUS
<1>2. Reaches(p, i + 1, x) /\ Reaches(p, i + 1, y) /\ Related(p, i + 1, r, s, x, y)
  BY AtomRelated
<1>3. /\ GoRepeat(p, r, i) = IF x = Fail THEN Fail ELSE GoQuantify(p, r, x)
      /\ LeanRepeat(p, s, i) = IF y = Fail THEN Fail ELSE LeanQuantify(p, s, y)
  BY DEF GoRepeat, LeanRepeat
<1>. HIDE DEF x, y
<1>4. Reaches(p, i + 1, Fail)
  BY DEF Reaches
<1>5. ASSUME NEW z, z # Fail, Reaches(p, i + 1, z)
      PROVE  /\ Reaches(p, i + 1, GoQuantify(p, r, z)) /\ Reaches(p, i + 1, LeanQuantify(p, s, z))
             /\ Related(p, i + 1, r, s, GoQuantify(p, r, z), LeanQuantify(p, s, z))
  <2>1. z \in 1 .. Len(p) + 1 /\ z \in Nat /\ z + 1 \in Nat /\ i + 1 <= z /\ i + 1 <= z + 1
    BY <1>1, <1>5 DEF Reaches
  <2>2. /\ Reaches(p, z, GoQuantify(p, r, z)) /\ Reaches(p, z, LeanQuantify(p, s, z))
        /\ Related(p, z + 1, r, s, GoQuantify(p, r, z), LeanQuantify(p, s, z))
    BY <2>1, QuantifyRelated
  <2>3. Reaches(p, i + 1, GoQuantify(p, r, z)) /\ Reaches(p, i + 1, LeanQuantify(p, s, z))
    BY <1>1, <2>1, <2>2, FromLater
  <2>4. Related(p, i + 1, r, s, GoQuantify(p, r, z), LeanQuantify(p, s, z))
    BY <1>1, <2>1, <2>2, LaterRelated
  <2>. QED  BY <2>3, <2>4
<1>6. Reaches(p, i + 1, GoRepeat(p, r, i)) /\ Reaches(p, i + 1, LeanRepeat(p, s, i))
  BY <1>2, <1>3, <1>4, <1>5
<1>7. ASSUME Forward(p, i + 1, r, s) PROVE Improves(GoRepeat(p, r, i), LeanRepeat(p, s, i))
  BY <1>2, <1>3, <1>5, <1>7 DEF Related, Improves
<1>8. ASSUME Backward(p, i + 1, r, s) PROVE Improves(LeanRepeat(p, s, i), GoRepeat(p, r, i))
  BY <1>2, <1>3, <1>5, <1>8 DEF Related, Improves
<1>. QED  BY <1>6, <1>7, <1>8 DEF Related

LEMMA ConcatRelated ==
  ASSUME NEW p \in Seq(STRING), NEW i \in 1 .. Len(p) + 1, NEW r \in Answers(p), NEW s \in Answers(p)
  PROVE  /\ Reaches(p, i, GoConcat(p, r, i)) /\ Reaches(p, i, LeanConcat(p, s, i))
         /\ Related(p, i + 1, r, s, GoConcat(p, r, i), LeanConcat(p, s, i))
<1>. DEFINE x == GoRepeat(p, r, i)
            y == LeanRepeat(p, s, i)
<1>1. Len(p) \in Nat /\ i \in Nat /\ i + 1 \in Nat
  OBVIOUS
<1>2. CASE At(p, i) \in {End, "|", ")"}
  <2>1. GoConcat(p, r, i) = i /\ LeanConcat(p, s, i) = i
    BY <1>2 DEF GoConcat, LeanConcat
  <2>2. Reaches(p, i, i)
    BY <1>1 DEF Reaches
  <2>. QED  BY <2>1, <2>2, EqualRelated
<1>3. CASE At(p, i) \notin {End, "|", ")"}
  <2>1. Reaches(p, i + 1, x) /\ Reaches(p, i + 1, y) /\ Related(p, i + 1, r, s, x, y)
    BY RepeatRelated
  <2>2. /\ GoConcat(p, r, i) = IF x = Fail THEN Fail ELSE r[<<"concat", x>>]
        /\ LeanConcat(p, s, i) = IF y = Fail THEN Fail ELSE s[<<"concat", y>>]
    BY <1>3 DEF GoConcat, LeanConcat
  <2>. HIDE DEF x, y
  <2>3. Reaches(p, i, Fail)
    BY DEF Reaches
  <2>4. ASSUME NEW z, z # Fail, Reaches(p, i + 1, z)
        PROVE  /\ Reaches(p, i, r[<<"concat", z>>]) /\ Reaches(p, i, s[<<"concat", z>>])
               /\ Related(p, i + 1, r, s, r[<<"concat", z>>], s[<<"concat", z>>])
    <3>1. z \in Nat \ {0} /\ z <= Len(p) + 1 /\ i + 1 <= z /\ i <= z
      BY <1>1, <2>4 DEF Reaches
    <3>2. Reaches(p, i, r[<<"concat", z>>]) /\ Reaches(p, i, s[<<"concat", z>>])
      BY <1>1, <3>1, Answered
    <3>3. Related(p, i + 1, r, s, r[<<"concat", z>>], s[<<"concat", z>>])
      BY <1>1, <3>1, CallRelated
    <3>. QED  BY <3>2, <3>3
  <2>5. Reaches(p, i, GoConcat(p, r, i)) /\ Reaches(p, i, LeanConcat(p, s, i))
    BY <2>1, <2>2, <2>3, <2>4
  <2>6. ASSUME Forward(p, i + 1, r, s) PROVE Improves(GoConcat(p, r, i), LeanConcat(p, s, i))
    BY <2>1, <2>2, <2>4, <2>6 DEF Related, Improves
  <2>7. ASSUME Backward(p, i + 1, r, s) PROVE Improves(LeanConcat(p, s, i), GoConcat(p, r, i))
    BY <2>1, <2>2, <2>4, <2>7 DEF Related, Improves
  <2>. QED  BY <2>5, <2>6, <2>7 DEF Related
<1>. QED  BY <1>2, <1>3

LEMMA AltRelated ==
  ASSUME NEW p \in Seq(STRING), NEW i \in 1 .. Len(p) + 1, NEW r \in Answers(p), NEW s \in Answers(p)
  PROVE  /\ Reaches(p, i, GoAlt(p, r, i)) /\ Reaches(p, i, LeanAlt(p, s, i))
         /\ Related(p, i + 1, r, s, GoAlt(p, r, i), LeanAlt(p, s, i))
<1>. DEFINE x == GoConcat(p, r, i)
            y == LeanConcat(p, s, i)
<1>1. Len(p) \in Nat /\ i \in Nat /\ i \in Nat \ {0} /\ i + 1 \in Nat
  OBVIOUS
<1>2. Reaches(p, i, x) /\ Reaches(p, i, y) /\ Related(p, i + 1, r, s, x, y)
  BY ConcatRelated
<1>3. /\ GoAlt(p, r, i) = IF x # Fail /\ At(p, x) = "|" THEN r[<<"alt", x + 1>>] ELSE x
      /\ LeanAlt(p, s, i) = IF y # Fail /\ At(p, y) = "|" THEN s[<<"alt", y + 1>>] ELSE y
  BY DEF GoAlt, LeanAlt
<1>. HIDE DEF x, y
<1>4. ASSUME NEW z, z # Fail, At(p, z) = "|", Reaches(p, i, z)
      PROVE  /\ Reaches(p, i, r[<<"alt", z + 1>>]) /\ Reaches(p, i, s[<<"alt", z + 1>>])
             /\ Related(p, i + 1, r, s, r[<<"alt", z + 1>>], s[<<"alt", z + 1>>])
  <2>1. z \in i .. Len(p) + 1 /\ z \in Nat \ {0}
    BY <1>1, <1>4 DEF Reaches
  <2>2. z + 1 \in 1 .. Len(p) + 1
    BY <1>4, <2>1, Inside, Marks
  <2>3. z + 1 \in Nat \ {0} /\ z + 1 <= Len(p) + 1 /\ i + 1 <= z + 1 /\ i <= z + 1
    BY <1>1, <2>1, <2>2
  <2>4. Reaches(p, i, r[<<"alt", z + 1>>]) /\ Reaches(p, i, s[<<"alt", z + 1>>])
    BY <1>1, <2>3, Answered
  <2>5. Related(p, i + 1, r, s, r[<<"alt", z + 1>>], s[<<"alt", z + 1>>])
    BY <1>1, <2>3, CallRelated
  <2>. QED  BY <2>4, <2>5
<1>5. Reaches(p, i, GoAlt(p, r, i)) /\ Reaches(p, i, LeanAlt(p, s, i))
  BY <1>2, <1>3, <1>4
<1>6. ASSUME Forward(p, i + 1, r, s) PROVE Improves(GoAlt(p, r, i), LeanAlt(p, s, i))
  BY <1>2, <1>3, <1>4, <1>6 DEF Related, Improves
<1>7. ASSUME Backward(p, i + 1, r, s) PROVE Improves(LeanAlt(p, s, i), GoAlt(p, r, i))
  BY <1>2, <1>3, <1>4, <1>7 DEF Related, Improves
<1>. QED  BY <1>5, <1>6, <1>7 DEF Related

LEMMA CallsRelated ==
  ASSUME NEW p \in Seq(STRING), NEW c \in Calls(p), NEW r \in Answers(p), NEW s \in Answers(p)
  PROVE  /\ Reaches(p, c[2], GoCall(p, r, c[1], c[2])) /\ Reaches(p, c[2], LeanCall(p, s, c[1], c[2]))
         /\ Related(p, c[2] + 1, r, s, GoCall(p, r, c[1], c[2]), LeanCall(p, s, c[1], c[2]))
<1>. DEFINE i == c[2]
<1>1. Len(p) \in Nat
  OBVIOUS
<1>2. i \in 1 .. Len(p) + 1 /\ i \in Nat /\ i + 1 \in Nat /\ i <= i + 1
  BY <1>1 DEF Calls
<1>. HIDE DEF i
<1>3. CASE c[1] = "alt"
  <2>1. GoCall(p, r, c[1], i) = GoAlt(p, r, i) /\ LeanCall(p, s, c[1], i) = LeanAlt(p, s, i)
    BY <1>3 DEF GoCall, LeanCall
  <2>. QED  BY <1>2, <2>1, AltRelated DEF i
<1>4. CASE c[1] = "concat"
  <2>1. GoCall(p, r, c[1], i) = GoConcat(p, r, i) /\ LeanCall(p, s, c[1], i) = LeanConcat(p, s, i)
    BY <1>4 DEF GoCall, LeanCall
  <2>. QED  BY <1>2, <2>1, ConcatRelated DEF i
<1>5. CASE c[1] = "quantify"
  <2>1. GoCall(p, r, c[1], i) = GoQuantify(p, r, i) /\ LeanCall(p, s, c[1], i) = LeanQuantify(p, s, i)
    BY <1>5 DEF GoCall, LeanCall
  <2>. QED  BY <1>2, <2>1, QuantifyRelated DEF i
<1>6. CASE c[1] = "items"
  <2>1. GoCall(p, r, c[1], i) = GoClassItems(p, r, i, "next") /\ LeanCall(p, s, c[1], i) = LeanClassItems(p, s, i, "next")
    BY <1>6 DEF GoCall, LeanCall
  <2>2. /\ Reaches(p, i + 1, GoClassItems(p, r, i, "next"))
        /\ Reaches(p, i + 1, LeanClassItems(p, s, i, "next"))
    BY <1>2, ItemsReach
  <2>3. Related(p, i + 1, r, s, GoClassItems(p, r, i, "next"), LeanClassItems(p, s, i, "next"))
    BY <1>2, ItemsRelated
  <2>4. Reaches(p, i, GoCall(p, r, c[1], i)) /\ Reaches(p, i, LeanCall(p, s, c[1], i))
    BY <1>2, <2>1, <2>2, FromLater
  <2>. QED  BY <2>1, <2>3, <2>4 DEF i
<1>7. c[1] \in {"alt", "concat", "quantify", "items"}
  BY DEF Calls
<1>. QED  BY <1>3, <1>4, <1>5, <1>6, <1>7

-----------------------------------------------------------------------------
(* All levels of nesting.                                                  *)

LEMMA AnswersAre ==
  ASSUME NEW p \in Seq(STRING), NEW r, r \in [Calls(p) -> {r[c] : c \in Calls(p)}],
         \A c \in Calls(p) : Reaches(p, c[2], r[c])
  PROVE  r \in Answers(p)
<1>1. Len(p) \in Nat
  OBVIOUS
<1>2. \A c \in Calls(p) : r[c] \in Nat
  BY <1>1 DEF Calls, Reaches, Fail
<1>. QED  BY <1>2 DEF Answers

LEMMA EmptyAnswers ==
  ASSUME NEW p \in Seq(STRING)
  PROVE  Unanswered(p) \in Answers(p)
BY DEF Unanswered, Answers, Reaches, Fail

LEMMA GoLevels ==
  ASSUME NEW p \in Seq(STRING)
  PROVE  /\ GoAnswers(p)[0] = Unanswered(p)
         /\ \A n \in Nat : /\ GoAnswers(p)[n] \in Answers(p)
                           /\ GoAnswers(p)[n + 1] = [c \in Calls(p) |-> GoCall(p, GoAnswers(p)[n], c[1], c[2])]
<1>. DEFINE Next(r) == [c \in Calls(p) |-> GoCall(p, r, c[1], c[2])]
            Solves(v) == v = [n \in Nat |-> IF n = 0 THEN Unanswered(p) ELSE Next(v[n - 1])]
            step == [x \in Nat \X Answers(p) |-> Next(x[2])]
<1>1. Unanswered(p) \in Answers(p)
  BY EmptyAnswers
<1>2. ASSUME NEW r \in Answers(p) PROVE Next(r) \in Answers(p)
  <2>1. \A c \in Calls(p) : Reaches(p, c[2], GoCall(p, r, c[1], c[2]))
    BY CallsRelated
  <2>2. \A c \in Calls(p) : Next(r)[c] = GoCall(p, r, c[1], c[2])
    OBVIOUS
  <2>3. Next(r) \in [Calls(p) -> {Next(r)[c] : c \in Calls(p)}]
    OBVIOUS
  <2>. HIDE DEF Next
  <2>. QED  BY <2>1, <2>2, <2>3, AnswersAre
<1>. HIDE DEF Next
<1>3. step \in [Nat \X Answers(p) -> Answers(p)]
  BY <1>2
<1>4. PICK f \in [Nat -> Answers(p)] : f[0] = Unanswered(p) /\ \A n \in Nat : f[n + 1] = Next(f[n])
  <2>1. \A n \in Nat, r \in Answers(p) : step[<<n, r>>] = Next(r)
    OBVIOUS
  <2>. HIDE DEF step
  <2>2. PICK f : Recurses(f, Answers(p), Unanswered(p), step)
    BY <1>1, <1>3, Recursion
  <2>. QED  BY <2>1, <2>2 DEF Recurses
<1>5. Solves(f)
  <2>1. ASSUME NEW n \in Nat, n # 0 PROVE f[n] = Next(f[n - 1])
    <3>1. n - 1 \in Nat /\ (n - 1) + 1 = n
      BY <2>1
    <3>. QED  BY <1>4, <3>1
  <2>. QED  BY <1>4, <2>1
<1>. DEFINE level == CHOOSE v : Solves(v)
<1>6. Solves(level)
  <2>. HIDE DEF Solves
  <2>. QED  BY <1>5
<1>7. GoAnswers(p) = level
  BY DEF GoAnswers, Next
<1>. HIDE DEF level
<1>8. level[0] = Unanswered(p) /\ \A n \in Nat : level[n + 1] = Next(level[n])
  <2>1. \A n \in Nat : n + 1 \in Nat /\ n + 1 # 0 /\ (n + 1) - 1 = n
    OBVIOUS
  <2>. QED  BY <1>6, <2>1
<1>9. \A n \in Nat : level[n] \in Answers(p)
  <2>. DEFINE T == {n \in Nat : level[n] \in Answers(p)}
  <2>1. 0 \in T
    BY <1>1, <1>8
  <2>2. ASSUME NEW n \in Nat, n \in T PROVE n + 1 \in T
    <3>1. level[n] \in Answers(p)
      BY <2>2
    <3>2. Next(level[n]) \in Answers(p)
      BY <1>2, <3>1
    <3>3. level[n + 1] \in Answers(p)
      BY <1>8, <3>2
    <3>4. n + 1 \in Nat
      OBVIOUS
    <3>. QED  BY <3>3, <3>4
  <2>. HIDE DEF T
  <2>3. Nat \subseteq T
    BY <2>1, <2>2, Induction
  <2>. QED  BY <2>3 DEF T
<1>. QED  BY <1>7, <1>8, <1>9 DEF Next

LEMMA LeanLevels ==
  ASSUME NEW p \in Seq(STRING)
  PROVE  /\ LeanAnswers(p)[0] = Unanswered(p)
         /\ \A n \in Nat : /\ LeanAnswers(p)[n] \in Answers(p)
                           /\ LeanAnswers(p)[n + 1] = [c \in Calls(p) |-> LeanCall(p, LeanAnswers(p)[n], c[1], c[2])]
<1>. DEFINE Next(r) == [c \in Calls(p) |-> LeanCall(p, r, c[1], c[2])]
            Solves(v) == v = [n \in Nat |-> IF n = 0 THEN Unanswered(p) ELSE Next(v[n - 1])]
            step == [x \in Nat \X Answers(p) |-> Next(x[2])]
<1>1. Unanswered(p) \in Answers(p)
  BY EmptyAnswers
<1>2. ASSUME NEW r \in Answers(p) PROVE Next(r) \in Answers(p)
  <2>1. \A c \in Calls(p) : Reaches(p, c[2], LeanCall(p, r, c[1], c[2]))
    BY CallsRelated
  <2>2. \A c \in Calls(p) : Next(r)[c] = LeanCall(p, r, c[1], c[2])
    OBVIOUS
  <2>3. Next(r) \in [Calls(p) -> {Next(r)[c] : c \in Calls(p)}]
    OBVIOUS
  <2>. HIDE DEF Next
  <2>. QED  BY <2>1, <2>2, <2>3, AnswersAre
<1>. HIDE DEF Next
<1>3. step \in [Nat \X Answers(p) -> Answers(p)]
  BY <1>2
<1>4. PICK f \in [Nat -> Answers(p)] : f[0] = Unanswered(p) /\ \A n \in Nat : f[n + 1] = Next(f[n])
  <2>1. \A n \in Nat, r \in Answers(p) : step[<<n, r>>] = Next(r)
    OBVIOUS
  <2>. HIDE DEF step
  <2>2. PICK f : Recurses(f, Answers(p), Unanswered(p), step)
    BY <1>1, <1>3, Recursion
  <2>. QED  BY <2>1, <2>2 DEF Recurses
<1>5. Solves(f)
  <2>1. ASSUME NEW n \in Nat, n # 0 PROVE f[n] = Next(f[n - 1])
    <3>1. n - 1 \in Nat /\ (n - 1) + 1 = n
      BY <2>1
    <3>. QED  BY <1>4, <3>1
  <2>. QED  BY <1>4, <2>1
<1>. DEFINE level == CHOOSE v : Solves(v)
<1>6. Solves(level)
  <2>. HIDE DEF Solves
  <2>. QED  BY <1>5
<1>7. LeanAnswers(p) = level
  BY DEF LeanAnswers, Next
<1>. HIDE DEF level
<1>8. level[0] = Unanswered(p) /\ \A n \in Nat : level[n + 1] = Next(level[n])
  <2>1. \A n \in Nat : n + 1 \in Nat /\ n + 1 # 0 /\ (n + 1) - 1 = n
    OBVIOUS
  <2>. QED  BY <1>6, <2>1
<1>9. \A n \in Nat : level[n] \in Answers(p)
  <2>. DEFINE T == {n \in Nat : level[n] \in Answers(p)}
  <2>1. 0 \in T
    BY <1>1, <1>8
  <2>2. ASSUME NEW n \in Nat, n \in T PROVE n + 1 \in T
    <3>1. level[n] \in Answers(p)
      BY <2>2
    <3>2. Next(level[n]) \in Answers(p)
      BY <1>2, <3>1
    <3>3. level[n + 1] \in Answers(p)
      BY <1>8, <3>2
    <3>4. n + 1 \in Nat
      OBVIOUS
    <3>. QED  BY <3>3, <3>4
  <2>. HIDE DEF T
  <2>3. Nat \subseteq T
    BY <2>1, <2>2, Induction
  <2>. QED  BY <2>3 DEF T
<1>. QED  BY <1>7, <1>8, <1>9 DEF Next

\* A "-" before the closing "]" and the "]" itself.
LEMMA Closing ==
  ASSUME NEW p \in Seq(STRING), NEW j \in 1 .. Len(p)
  PROVE  /\ At(p, j) = "]" => \A r : GoClassItems(p, r, j, "next") = j + 1 /\ LeanClassItems(p, r, j, "next") = j + 1
         /\ At(p, j) = "-" /\ At(p, j + 1) = "]" => \A r : GoClassItems(p, r, j, "next") = r[<<"items", j + 1>>]
<1>1. j + 1 \in Nat /\ j + 1 # Fail
  BY DEF Fail
<1>2. ASSUME At(p, j) = "-", At(p, j + 1) = "]", NEW r PROVE GoClassItems(p, r, j, "next") = r[<<"items", j + 1>>]
  <2>1. GoClassRange(p, j + 1) = j + 1
    BY <1>2 DEF GoClassRange
  <2>. QED  BY <1>1, <1>2, <2>1, Marks DEF GoClassItems
<1>3. ASSUME At(p, j) = "]", NEW r PROVE GoClassItems(p, r, j, "next") = j + 1
  BY <1>3, Marks DEF GoClassItems
<1>4. ASSUME At(p, j) = "]", NEW r PROVE LeanClassItems(p, r, j, "next") = j + 1
  BY <1>4, Marks DEF LeanClassItems
<1>. QED  BY <1>2, <1>3, <1>4

LEMMA ItemsAnswers ==
  ASSUME NEW p \in Seq(STRING), NEW j \in 1 .. Len(p) + 1, NEW n \in Nat
  PROVE  /\ GoAnswers(p)[n + 1][<<"items", j>>] = GoClassItems(p, GoAnswers(p)[n], j, "next")
         /\ LeanAnswers(p)[n + 1][<<"items", j>>] = LeanClassItems(p, LeanAnswers(p)[n], j, "next")
<1>1. Len(p) \in Nat
  OBVIOUS
<1>2. <<"items", j>> \in Calls(p) /\ <<"items", j>>[1] = "items" /\ <<"items", j>>[2] = j
  BY <1>1 DEF Calls
<1>3. \A r : /\ GoCall(p, r, "items", j) = GoClassItems(p, r, j, "next")
             /\ LeanCall(p, r, "items", j) = LeanClassItems(p, r, j, "next")
  BY DEF GoCall, LeanCall
<1>4. GoAnswers(p)[n + 1] = [c \in Calls(p) |-> GoCall(p, GoAnswers(p)[n], c[1], c[2])]
  BY GoLevels
<1>5. LeanAnswers(p)[n + 1] = [c \in Calls(p) |-> LeanCall(p, LeanAnswers(p)[n], c[1], c[2])]
  BY LeanLevels
<1>. QED  BY <1>2, <1>3, <1>4, <1>5

\* What the plugin reads at some level of nesting, the runtime reads there too.
LEMMA LevelsForward ==
  ASSUME NEW p \in Seq(STRING), NEW n \in Nat
  PROVE  Forward(p, 1, GoAnswers(p)[n], LeanAnswers(p)[n])
<1>. DEFINE G == GoAnswers(p)
            L == LeanAnswers(p)
            closed(k) == \A j \in 1 .. Len(p) : At(p, j) = "]" => G[k][<<"items", j>>] \in {Fail, j + 1}
            T == {k \in Nat : Forward(p, 1, G[k], L[k]) /\ closed(k)}
<1>1. Len(p) \in Nat
  OBVIOUS
<1>2. \A j \in 1 .. Len(p) : j \in 1 .. Len(p) + 1 /\ <<"items", j>> \in Calls(p)
  BY <1>1 DEF Calls
<1>3. /\ G[0] = Unanswered(p)
      /\ \A k \in Nat : G[k] \in Answers(p) /\ G[k + 1] = [c \in Calls(p) |-> GoCall(p, G[k], c[1], c[2])]
  BY GoLevels
<1>4. \A k \in Nat : L[k] \in Answers(p) /\ L[k + 1] = [c \in Calls(p) |-> LeanCall(p, L[k], c[1], c[2])]
  BY LeanLevels
<1>5. \A j \in 1 .. Len(p) + 1, k \in Nat :
        /\ G[k + 1][<<"items", j>>] = GoClassItems(p, G[k], j, "next")
        /\ L[k + 1][<<"items", j>>] = LeanClassItems(p, L[k], j, "next")
  BY ItemsAnswers
<1>. HIDE DEF G, L
<1>6. 0 \in T
  <2>1. \A c \in Calls(p) : G[0][c] = Fail
    BY <1>3 DEF Unanswered
  <2>2. \A j \in 1 .. Len(p) : G[0][<<"items", j>>] = Fail
    BY <1>2, <2>1
  <2>. QED  BY <2>1, <2>2 DEF Forward, Below, Improves
<1>7. ASSUME NEW k \in Nat, k \in T PROVE k + 1 \in T
  <2>1. Forward(p, 1, G[k], L[k]) /\ closed(k) /\ k + 1 \in Nat
    BY <1>7
  <2>2. ASSUME NEW c \in Calls(p) PROVE Improves(G[k + 1][c], L[k + 1][c])
    <3>1. c[2] + 1 \in Nat /\ 1 <= c[2] + 1
      BY <1>1 DEF Calls
    <3>2. Forward(p, c[2] + 1, G[k], L[k])
      BY <2>1, <3>1, LaterRelated
    <3>3. Improves(GoCall(p, G[k], c[1], c[2]), LeanCall(p, L[k], c[1], c[2]))
      BY <1>3, <1>4, <3>2, CallsRelated DEF Related
    <3>. QED  BY <1>3, <1>4, <3>3
  <2>3. ASSUME NEW j \in 1 .. Len(p), At(p, j) = "]"
        PROVE  G[k + 1][<<"items", j>>] = j + 1 /\ L[k + 1][<<"items", j>>] = j + 1
    <3>1. /\ G[k + 1][<<"items", j>>] = GoClassItems(p, G[k], j, "next")
          /\ L[k + 1][<<"items", j>>] = LeanClassItems(p, L[k], j, "next")
      BY <1>2, <1>5
    <3>2. \A r : GoClassItems(p, r, j, "next") = j + 1 /\ LeanClassItems(p, r, j, "next") = j + 1
      BY <2>3, Closing
    <3>. QED  BY <3>1, <3>2
  <2>4. ASSUME NEW j \in 1 .. Len(p), At(p, j) = "-", At(p, j + 1) = "]"
        PROVE  Improves(G[k + 1][<<"items", j>>], L[k + 1][<<"items", j + 1>>])
    <3>1. j + 1 \in 1 .. Len(p)
      <4>1. j + 1 \in Nat \ {0} /\ At(p, j + 1) # End
        BY <2>4, Marks
      <4>. QED  BY <4>1, Inside
    <3>2. G[k + 1][<<"items", j>>] = G[k][<<"items", j + 1>>]
      BY <1>2, <1>5, <2>4, Closing
    <3>3. G[k][<<"items", j + 1>>] \in {Fail, (j + 1) + 1}
      BY <2>1, <2>4, <3>1
    <3>4. L[k + 1][<<"items", j + 1>>] = (j + 1) + 1
      BY <2>3, <2>4, <3>1
    <3>. QED  BY <3>2, <3>3, <3>4 DEF Improves
  <2>5. Forward(p, 1, G[k + 1], L[k + 1])
    BY <2>2, <2>4 DEF Forward, Below
  <2>6. closed(k + 1)
    BY <2>3
  <2>. QED  BY <2>1, <2>5, <2>6
<1>. HIDE DEF T
<1>8. Nat \subseteq T
  BY <1>6, <1>7, Induction
<1>. QED  BY <1>8 DEF T, G, L

\* What the runtime reads in a pattern that has none of those forms, the
\* plugin reads too, with a level for every character that is left.
LEMMA LevelsBackward ==
  ASSUME NEW p \in Seq(STRING), Alike(p), NEW n \in Nat
  PROVE  \A i \in 1 .. Len(p) + 2 : n >= Len(p) + 2 - i => Backward(p, i, GoAnswers(p)[n], LeanAnswers(p)[n])
<1>. DEFINE G == GoAnswers(p)
            L == LeanAnswers(p)
            closed(k) == \A j \in 1 .. Len(p) : At(p, j) = "]" /\ k >= 1 =>
                           G[k][<<"items", j>>] = j + 1 /\ L[k][<<"items", j>>] = j + 1
            back(k) == \A i \in 1 .. Len(p) + 2 : k >= Len(p) + 2 - i => Backward(p, i, G[k], L[k])
            T == {k \in Nat : back(k) /\ closed(k)}
<1>1. Len(p) \in Nat
  OBVIOUS
<1>2. \A j \in 1 .. Len(p) : j \in 1 .. Len(p) + 1
  BY <1>1
<1>3. \A k \in Nat : G[k] \in Answers(p) /\ G[k + 1] = [c \in Calls(p) |-> GoCall(p, G[k], c[1], c[2])]
  BY GoLevels
<1>4. \A k \in Nat : L[k] \in Answers(p) /\ L[k + 1] = [c \in Calls(p) |-> LeanCall(p, L[k], c[1], c[2])]
  BY LeanLevels
<1>5. \A j \in 1 .. Len(p) + 1, k \in Nat :
        /\ G[k + 1][<<"items", j>>] = GoClassItems(p, G[k], j, "next")
        /\ L[k + 1][<<"items", j>>] = LeanClassItems(p, L[k], j, "next")
  BY ItemsAnswers
<1>. HIDE DEF G, L
<1>6. 0 \in T
  <2>1. ASSUME NEW i \in 1 .. Len(p) + 2, 0 >= Len(p) + 2 - i PROVE Backward(p, i, G[0], L[0])
    <3>1. \A c \in Calls(p) : ~(c[2] >= i)
      BY <1>1, <2>1 DEF Calls
    <3>2. \A j \in i .. Len(p) : FALSE
      BY <1>1, <2>1
    <3>. QED  BY <3>1, <3>2 DEF Backward, Below
  <2>. QED  BY <2>1
<1>7. ASSUME NEW k \in Nat, k \in T PROVE k + 1 \in T
  <2>1. back(k) /\ closed(k) /\ k + 1 \in Nat
    BY <1>7
  <2>2. ASSUME NEW j \in 1 .. Len(p), At(p, j) = "]"
        PROVE  G[k + 1][<<"items", j>>] = j + 1 /\ L[k + 1][<<"items", j>>] = j + 1
    <3>1. /\ G[k + 1][<<"items", j>>] = GoClassItems(p, G[k], j, "next")
          /\ L[k + 1][<<"items", j>>] = LeanClassItems(p, L[k], j, "next")
      BY <1>2, <1>5
    <3>2. \A r : GoClassItems(p, r, j, "next") = j + 1 /\ LeanClassItems(p, r, j, "next") = j + 1
      BY <2>2, Closing
    <3>. QED  BY <3>1, <3>2
  <2>3. ASSUME NEW i \in 1 .. Len(p) + 2, k + 1 >= Len(p) + 2 - i PROVE Backward(p, i, G[k + 1], L[k + 1])
    <3>1. ASSUME NEW c \in Calls(p), c[2] >= i PROVE Improves(L[k + 1][c], G[k + 1][c])
      <4>1. c[2] + 1 \in 1 .. Len(p) + 2 /\ k >= Len(p) + 2 - (c[2] + 1)
        BY <1>1, <2>3, <3>1 DEF Calls
      <4>2. Backward(p, c[2] + 1, G[k], L[k])
        BY <2>1, <4>1
      <4>3. Improves(LeanCall(p, L[k], c[1], c[2]), GoCall(p, G[k], c[1], c[2]))
        BY <1>3, <1>4, <4>2, CallsRelated DEF Related
      <4>. QED  BY <1>3, <1>4, <4>3
    <3>2. ASSUME NEW j \in i .. Len(p), At(p, j) = "-", At(p, j + 1) = "]"
          PROVE  Improves(L[k + 1][<<"items", j + 1>>], G[k + 1][<<"items", j>>])
      <4>1. j \in 1 .. Len(p) /\ j + 1 \in Nat \ {0}
        BY <1>1
      <4>2. j + 1 \in 1 .. Len(p)
        <5>1. At(p, j + 1) # End
          BY <3>2, Marks
        <5>. QED  BY <4>1, <5>1, Inside
      <4>3. k >= 1
        BY <1>1, <2>3, <4>2
      <4>4. G[k + 1][<<"items", j>>] = G[k][<<"items", j + 1>>]
        BY <1>2, <1>5, <3>2, <4>1, Closing
      <4>5. G[k][<<"items", j + 1>>] = (j + 1) + 1
        BY <2>1, <3>2, <4>2, <4>3
      <4>6. L[k + 1][<<"items", j + 1>>] = (j + 1) + 1
        BY <2>2, <3>2, <4>2
      <4>. QED  BY <4>4, <4>5, <4>6 DEF Improves
    <3>. QED  BY <3>1, <3>2 DEF Backward, Below
  <2>4. back(k + 1)
    BY <2>3
  <2>5. closed(k + 1)
    BY <2>2
  <2>. QED  BY <2>1, <2>4, <2>5
<1>. HIDE DEF T
<1>8. Nat \subseteq T
  BY <1>6, <1>7, Induction
<1>. QED  BY <1>8 DEF T, G, L

LEMMA NoneReadDifferently ==
  ASSUME NEW p \in Seq(STRING), ~ReadDifferently(p)
  PROVE  Alike(p)
<1>1. Len(p) \in Nat
  OBVIOUS
<1>2. ASSUME NEW a, NEW b, NEW i \in 1 .. Len(p), At(p, i) = a, At(p, i + 1) = b, b # End PROVE Occurs(p, <<a, b>>)
  <2>1. i + 1 \in 1 .. Len(p) /\ i + 1 \in Nat /\ i \in 1 .. Len(p) - 2 + 1
    <3>1. i + 1 \in Nat
      OBVIOUS
    <3>2. i + 1 <= Len(p)
      BY <1>2, <3>1, AtIs
    <3>. QED  BY <1>1, <3>1, <3>2
  <2>2. p[i] = a /\ p[i + 1] = b
    BY <1>2, <2>1, AtIs
  <2>3. \A k \in 1 .. 2 : (k = 1 /\ i + k - 1 = i) \/ (k = 2 /\ i + k - 1 = i + 1)
    OBVIOUS
  <2>4. \A k \in 1 .. 2 : p[i + k - 1] = <<a, b>>[k]
    BY <2>2, <2>3
  <2>. QED  BY <2>1, <2>4 DEF Occurs
<1>3. ASSUME NEW a, NEW b, NEW c, NEW i \in 1 .. Len(p), At(p, i) = a, At(p, i + 1) = b, At(p, i + 2) = c, c # End
      PROVE  Occurs(p, <<a, b, c>>)
  <2>1. i + 1 \in 1 .. Len(p) /\ i + 2 \in 1 .. Len(p) /\ i \in 1 .. Len(p) - 3 + 1
    <3>1. i + 2 \in Nat
      OBVIOUS
    <3>2. i + 2 <= Len(p)
      BY <1>3, <3>1, AtIs
    <3>. QED  BY <1>1, <3>1, <3>2
  <2>2. p[i] = a /\ p[i + 1] = b /\ p[i + 2] = c
    BY <1>3, <2>1, AtIs
  <2>3. \A k \in 1 .. 3 : (k = 1 /\ i + k - 1 = i) \/ (k = 2 /\ i + k - 1 = i + 1) \/ (k = 3 /\ i + k - 1 = i + 2)
    OBVIOUS
  <2>4. \A k \in 1 .. 3 : p[i + k - 1] = <<a, b, c>>[k]
    BY <2>2, <2>3
  <2>. QED  BY <2>1, <2>4 DEF Occurs
<1>4. ASSUME NEW i \in 1 .. Len(p)
      PROVE  (At(p, i) = "[" => At(p, i + 1) # ":") /\ (At(p, i) = "]" => At(p, i + 1) # "-")
  BY <1>2, Marks DEF ReadDifferently
<1>5. ASSUME NEW i \in 1 .. Len(p), At(p, i) = "\\" PROVE LeanEscape(p, i + 1) = GoEscape(p, i + 1)
  <2>1. i + 1 \in 1 .. Len(p) + 1 /\ (i + 1) + 1 = i + 2
    BY <1>1
  <2>2. ~(At(p, i + 1) = "0" /\ At(p, i + 2) \in Digits)
    BY <1>3, <1>5, NoDigits DEF ReadDifferently
  <2>3. ~(i + 1 <= Len(p) /\ p[i + 1] \in ForeignAlnum)
    <3>. SUFFICES ASSUME i + 1 <= Len(p), p[i + 1] \in ForeignAlnum PROVE FALSE
      OBVIOUS
    <3>1. i + 1 \in 1 .. Len(p) /\ i \in 1 .. Len(p) - 2 + 1
      BY <1>1, <2>1
    <3>2. p[i] = "\\"
      BY <1>5, AtIs
    <3>3. \A k \in 1 .. 2 : (k = 1 /\ i + k - 1 = i) \/ (k = 2 /\ i + k - 1 = i + 1)
      OBVIOUS
    <3>4. \A k \in 1 .. 2 : p[i + k - 1] = <<"\\", p[i + 1]>>[k]
      BY <3>2, <3>3
    <3>5. Occurs(p, <<"\\", p[i + 1]>>)
      BY <3>1, <3>4 DEF Occurs
    <3>. QED  BY <3>5 DEF ReadDifferently
  <2>4. LeanEscape(p, i + 1) = GoEscape(p, i + 1)
    BY <2>1, <2>2, <2>3, EscapesReach
  <2>. QED  BY <2>4
<1>. QED  BY <1>4, <1>5 DEF Alike

-----------------------------------------------------------------------------
(* One level more than there are positions answers everything.             *)

\* r and s answer alike from position i on.
Alongside(p, i, r, s) ==
  \A f \in {"alt", "concat", "quantify", "items"}, j \in i .. Len(p) + 1 : r[<<f, j>>] = s[<<f, j>>]

LEMMA LaterStable ==
  ASSUME NEW p \in Seq(STRING), NEW i \in Nat, NEW k \in Nat, i <= k, NEW r, NEW s, Alongside(p, i, r, s)
  PROVE  Alongside(p, k, r, s)
<1>1. \A j \in k .. Len(p) + 1 : j \in i .. Len(p) + 1
  OBVIOUS
<1>. QED  BY <1>1 DEF Alongside

LEMMA RestsStable ==
  ASSUME NEW p \in Seq(STRING), NEW i \in Nat, NEW j \in 1 .. Len(p) + 1, i <= j,
         NEW r, NEW s, Alongside(p, i, r, s)
  PROVE  GoRest(p, r, j) = GoRest(p, s, j) /\ LeanRest(p, r, j) = LeanRest(p, s, j)
<1>1. Len(p) \in Nat /\ j \in Nat \ {0}
  OBVIOUS
<1>2. ASSUME NEW x \in Nat \ {0}, j <= x, x <= Len(p) + 1 PROVE r[<<"items", x>>] = s[<<"items", x>>]
  <2>1. i <= x
    BY <1>1, <1>2
  <2>. QED  BY <1>2, <2>1 DEF Alongside
<1>3. GoRest(p, r, j) = GoRest(p, s, j)
  <2>. DEFINE x == GoClassRange(p, j)
  <2>1. Reaches(p, j, x)
    BY GoRangeReaches
  <2>2. /\ GoRest(p, r, j) = IF x = Fail THEN Fail ELSE r[<<"items", x>>]
        /\ GoRest(p, s, j) = IF x = Fail THEN Fail ELSE s[<<"items", x>>]
    BY DEF GoRest
  <2>. HIDE DEF x
  <2>3. x # Fail => x \in Nat \ {0} /\ j <= x /\ x <= Len(p) + 1
    BY <1>1, <2>1 DEF Reaches
  <2>. QED  BY <1>2, <2>2, <2>3
<1>4. LeanRest(p, r, j) = LeanRest(p, s, j)
  <2>1. CASE At(p, j) # "-" \/ At(p, j + 1) = End
    <3>1. LeanRest(p, r, j) = r[<<"items", j>>] /\ LeanRest(p, s, j) = s[<<"items", j>>]
      BY <2>1 DEF LeanRest
    <3>. QED  BY <1>1, <1>2, <3>1
  <2>2. CASE At(p, j) = "-" /\ At(p, j + 1) # End
    <3>1. At(p, j) # End /\ At(p, j + 1) # End
      BY <2>2, Marks
    <3>2. j + 2 \in 1 .. Len(p) + 1 /\ j + 1 \in Nat \ {0} /\ j + 1 <= Len(p) + 1
      BY <1>1, <3>1, Inside
    <3>3. r[<<"items", j + 1>>] = s[<<"items", j + 1>>] /\ r[<<"items", j + 2>>] = s[<<"items", j + 2>>]
      <4>1. j + 2 \in Nat \ {0} /\ j + 2 <= Len(p) + 1 /\ j <= j + 2 /\ j <= j + 1
        BY <1>1, <3>2
      <4>. QED  BY <1>2, <3>2, <4>1
    <3>. DEFINE hi == LeanEscape(p, j + 2).to
    <3>4. Reaches(p, (j + 2) + 1, hi)
      BY <3>2, EscapesReach
    <3>. HIDE DEF hi
    <3>5. hi # Fail => hi \in Nat \ {0} /\ j <= hi /\ hi <= Len(p) + 1
      BY <1>1, <3>4 DEF Reaches
    <3>6. hi # Fail => r[<<"items", hi>>] = s[<<"items", hi>>]
      BY <1>2, <3>5
    <3>. QED  BY <2>2, <3>3, <3>6 DEF LeanRest, hi
  <2>. QED  BY <2>1, <2>2
<1>. QED  BY <1>3, <1>4

LEMMA ItemsStable ==
  ASSUME NEW p \in Seq(STRING), NEW i \in 1 .. Len(p) + 1, NEW item, NEW r, NEW s, Alongside(p, i + 1, r, s)
  PROVE  /\ GoClassItems(p, r, i, item) = GoClassItems(p, s, i, item)
         /\ LeanClassItems(p, r, i, item) = LeanClassItems(p, s, i, item)
<1>1. Len(p) \in Nat /\ i \in Nat \ {0} /\ i + 1 \in Nat \ {0} /\ i + 1 \in Nat
  OBVIOUS
<1>2. CASE At(p, i) = End
  <2>1. \A t : GoClassItems(p, t, i, item) = Fail
    BY <1>2, Marks DEF GoClassItems
  <2>2. \A t : LeanClassItems(p, t, i, item) = Fail
    BY <1>2, Marks DEF LeanClassItems
  <2>. QED  BY <2>1, <2>2
<1>3. CASE At(p, i) # End
  <2>1. i + 1 \in 1 .. Len(p) + 1 /\ i + 1 <= Len(p) + 1 /\ i + 1 <= i + 1
    BY <1>1, <1>3, Inside
  <2>2. CASE At(p, i) = "]"
    <3>1. r[<<"items", i + 1>>] = s[<<"items", i + 1>>]
      BY <1>1, <2>1 DEF Alongside
    <3>2. GoClassItems(p, r, i, item) = GoClassItems(p, s, i, item)
      BY <1>1, <2>2, <3>1, Marks DEF GoClassItems, Fail
    <3>3. LeanClassItems(p, r, i, item) = LeanClassItems(p, s, i, item)
      BY <2>2, <3>1, Marks DEF LeanClassItems
    <3>. QED  BY <3>2, <3>3
  <2>3. CASE At(p, i) = "\\"
    <3>1. ASSUME NEW x, x # Fail, Reaches(p, (i + 1) + 1, x)
          PROVE  /\ r[<<"items", x>>] = s[<<"items", x>>]
                 /\ GoRest(p, r, x) = GoRest(p, s, x) /\ LeanRest(p, r, x) = LeanRest(p, s, x)
      <4>1. x \in Nat \ {0} /\ i + 1 <= x /\ x <= Len(p) + 1 /\ x \in 1 .. Len(p) + 1
        BY <1>1, <3>1 DEF Reaches
      <4>2. GoRest(p, r, x) = GoRest(p, s, x) /\ LeanRest(p, r, x) = LeanRest(p, s, x)
        BY <1>1, <4>1, RestsStable
      <4>3. r[<<"items", x>>] = s[<<"items", x>>]
        BY <1>1, <4>1 DEF Alongside
      <4>. QED  BY <4>2, <4>3
    <3>. DEFINE x == GoEscape(p, i + 1)
                y == LeanEscape(p, i + 1)
    <3>2. Reaches(p, (i + 1) + 1, x.to) /\ Reaches(p, (i + 1) + 1, y.to)
      BY <2>1, EscapesReach
    <3>3. \A t : GoClassItems(p, t, i, item) =
            IF x.to = Fail THEN Fail ELSE IF x.pred THEN t[<<"items", x.to>>] ELSE GoRest(p, t, x.to)
      BY <2>3, Marks DEF GoClassItems, GoRest
    <3>4. \A t : LeanClassItems(p, t, i, item) =
            IF y.to = Fail THEN Fail ELSE IF y.pred THEN t[<<"items", y.to>>] ELSE LeanRest(p, t, y.to)
      BY <2>3, Marks DEF LeanClassItems, LeanRest
    <3>. HIDE DEF x, y
    <3>. QED  BY <3>1, <3>2, <3>3, <3>4
  <2>4. CASE At(p, i) \notin {End, "]", "\\"}
    <3>1. \A t : GoClassItems(p, t, i, item) =
            IF At(p, i) = "[" => At(p, i + 1) # ":" THEN GoRest(p, t, i + 1) ELSE Fail
      BY <1>1, <2>4, Marks DEF GoClassItems, GoRest, Fail
    <3>2. \A t : LeanClassItems(p, t, i, item) = LeanRest(p, t, i + 1)
      BY <2>4, Marks DEF LeanClassItems, LeanRest
    <3>3. GoRest(p, r, i + 1) = GoRest(p, s, i + 1) /\ LeanRest(p, r, i + 1) = LeanRest(p, s, i + 1)
      BY <1>1, <2>1, RestsStable
    <3>. QED  BY <3>1, <3>2, <3>3
  <2>. QED  BY <1>3, <2>2, <2>3, <2>4
<1>. QED  BY <1>2, <1>3

LEMMA ClassesStable ==
  ASSUME NEW p \in Seq(STRING), NEW i \in 1 .. Len(p) + 1, NEW r, NEW s, Alongside(p, i, r, s)
  PROVE  GoClass(p, r, i) = GoClass(p, s, i) /\ LeanClass(p, r, i) = LeanClass(p, s, i)
<1>. DEFINE k == ItemsAt(p, i)
<1>1. Len(p) \in Nat /\ i \in Nat \ {0}
  OBVIOUS
<1>2. k \in i .. Len(p) + 1
  <2>1. At(p, i) = "^" => i + 1 \in i .. Len(p) + 1
    BY <1>1, Inside, Marks
  <2>. QED  BY <1>1, <2>1 DEF ItemsAt
<1>3. \A t : /\ GoClass(p, t, i) = GoClassItems(p, t, k, "first")
             /\ LeanClass(p, t, i) = LeanClassItems(p, t, k, "first")
  BY DEF GoClass, LeanClass, ItemsAt
<1>. HIDE DEF k
<1>4. k \in 1 .. Len(p) + 1 /\ k + 1 \in Nat /\ i <= k + 1
  BY <1>1, <1>2
<1>5. Alongside(p, k + 1, r, s)
  BY <1>1, <1>4, LaterStable
<1>. QED  BY <1>3, <1>4, <1>5, ItemsStable

LEMMA QuantifyStable ==
  ASSUME NEW p \in Seq(STRING), NEW i \in 1 .. Len(p) + 1, NEW r, NEW s, Alongside(p, i + 1, r, s)
  PROVE  GoQuantify(p, r, i) = GoQuantify(p, s, i) /\ LeanQuantify(p, r, i) = LeanQuantify(p, s, i)
<1>1. Len(p) \in Nat /\ i + 1 \in Nat
  OBVIOUS
<1>2. ASSUME NEW y \in i + 1 .. Len(p) + 1 PROVE r[<<"quantify", y>>] = s[<<"quantify", y>>]
  <2>1. y \in Nat \ {0} /\ i + 1 <= y /\ y <= Len(p) + 1
    BY <1>1
  <2>. QED  BY <1>1, <2>1 DEF Alongside
<1>3. CASE \A t : GoQuantify(p, t, i) = i /\ LeanQuantify(p, t, i) = i
  BY <1>3
<1>4. CASE \A t : GoQuantify(p, t, i) = Fail /\ LeanQuantify(p, t, i) = Fail
  BY <1>4
<1>5. CASE \E y \in i + 1 .. Len(p) + 1 : \A t :
             GoQuantify(p, t, i) = t[<<"quantify", y>>] /\ LeanQuantify(p, t, i) = t[<<"quantify", y>>]
  BY <1>2, <1>5
<1>. QED  BY <1>3, <1>4, <1>5, QuantifiersAgree

LEMMA AtomStable ==
  ASSUME NEW p \in Seq(STRING), NEW i \in 1 .. Len(p) + 1, NEW r, NEW s, Alongside(p, i + 1, r, s)
  PROVE  GoAtom(p, r, i) = GoAtom(p, s, i) /\ LeanAtom(p, r, i) = LeanAtom(p, s, i)
<1>1. Len(p) \in Nat /\ i \in Nat \ {0} /\ i + 1 \in Nat
  OBVIOUS
<1>2. CASE At(p, i) \in {End, "*", "+", "?"}
  <2>1. \A t : GoAtom(p, t, i) = Fail
    BY <1>2, Marks DEF GoAtom
  <2>2. \A t : LeanAtom(p, t, i) = Fail
    BY <1>2, Marks DEF LeanAtom
  <2>. QED  BY <2>1, <2>2
<1>3. CASE At(p, i) # End
  <2>1. i + 1 \in 1 .. Len(p) + 1 /\ i + 1 \in Nat \ {0}
    BY <1>1, <1>3, Inside
  <2>2. ASSUME NEW j \in Nat \ {0}, i + 1 <= j, j <= Len(p) + 1 PROVE Group(p, r, j) = Group(p, s, j)
    <3>1. r[<<"alt", j>>] = s[<<"alt", j>>]
      BY <1>1, <2>2 DEF Alongside
    <3>. QED  BY <3>1 DEF Group
  <2>3. CASE At(p, i) = "(" /\ At(p, i + 1) # "?"
    <3>1. \A t : GoAtom(p, t, i) = Group(p, t, i + 1)
      BY <2>3, Marks DEF GoAtom, Group
    <3>2. \A t : LeanAtom(p, t, i) = Group(p, t, i + 1)
      BY <2>3, Marks DEF LeanAtom, Group
    <3>3. i + 1 <= i + 1 /\ i + 1 <= Len(p) + 1
      BY <1>1, <2>1
    <3>. QED  BY <2>1, <2>2, <3>1, <3>2, <3>3
  <2>4. CASE At(p, i) = "(" /\ At(p, i + 1) = "?" /\ At(p, i + 2) = ":"
    <3>1. \A t : GoAtom(p, t, i) = Group(p, t, i + 3)
      BY <2>4, Marks DEF GoAtom, Group
    <3>2. \A t : LeanAtom(p, t, i) = Group(p, t, i + 3)
      BY <2>4, Marks DEF LeanAtom, Group
    <3>3. At(p, i + 1) # End /\ At(p, i + 2) # End
      BY <2>4, Marks
    <3>4. i + 3 \in 1 .. Len(p) + 1
      BY <1>1, <1>3, <3>3, Inside
    <3>5. i + 3 \in Nat \ {0} /\ i + 1 <= i + 3 /\ i + 3 <= Len(p) + 1
      BY <1>1, <3>4
    <3>. QED  BY <2>2, <3>1, <3>2, <3>5
  <2>5. CASE At(p, i) = "(" /\ At(p, i + 1) = "?" /\ At(p, i + 2) # ":"
    <3>1. \A t : GoAtom(p, t, i) = Fail
      BY <2>5, Marks DEF GoAtom
    <3>2. \A t : LeanAtom(p, t, i) = Fail
      BY <2>5, Marks DEF LeanAtom
    <3>. QED  BY <3>1, <3>2
  <2>6. CASE At(p, i) = "["
    <3>1. \A t : GoAtom(p, t, i) = GoClass(p, t, i + 1)
      BY <2>6, Marks DEF GoAtom
    <3>2. \A t : LeanAtom(p, t, i) = LeanClass(p, t, i + 1)
      BY <2>6, Marks DEF LeanAtom
    <3>. QED  BY <2>1, <3>1, <3>2, ClassesStable
  <2>7. CASE At(p, i) = "\\"
    <3>1. \A t : GoAtom(p, t, i) = GoEscape(p, i + 1).to
      BY <2>7, Marks DEF GoAtom
    <3>2. \A t : LeanAtom(p, t, i) = LeanEscape(p, i + 1).to
      BY <2>7, Marks DEF LeanAtom
    <3>. QED  BY <3>1, <3>2
  <2>8. CASE At(p, i) \notin {End, "*", "+", "?", "(", "[", "\\"}
    <3>1. \A t : GoAtom(p, t, i) = i + 1
      BY <2>8 DEF GoAtom
    <3>2. \A t : LeanAtom(p, t, i) = i + 1
      BY <2>8 DEF LeanAtom
    <3>. QED  BY <3>1, <3>2
  <2>. QED  BY <1>2, <1>3, <2>3, <2>4, <2>5, <2>6, <2>7, <2>8
<1>. QED  BY <1>2, <1>3

LEMMA RepeatStable ==
  ASSUME NEW p \in Seq(STRING), NEW i \in 1 .. Len(p) + 1, NEW r \in Answers(p), NEW s \in Answers(p),
         Alongside(p, i + 1, r, s)
  PROVE  GoRepeat(p, r, i) = GoRepeat(p, s, i) /\ LeanRepeat(p, r, i) = LeanRepeat(p, s, i)
<1>. DEFINE x == GoAtom(p, r, i)
            y == LeanAtom(p, r, i)
<1>1. Len(p) \in Nat /\ i + 1 \in Nat
  OBVIOUS
<1>2. Reaches(p, i + 1, x) /\ Reaches(p, i + 1, y)
  BY AtomRelated
<1>3. x = GoAtom(p, s, i) /\ y = LeanAtom(p, s, i)
  BY AtomStable
<1>4. /\ GoRepeat(p, r, i) = IF x = Fail THEN Fail ELSE GoQuantify(p, r, x)
      /\ GoRepeat(p, s, i) = IF x = Fail THEN Fail ELSE GoQuantify(p, s, x)
      /\ LeanRepeat(p, r, i) = IF y = Fail THEN Fail ELSE LeanQuantify(p, r, y)
      /\ LeanRepeat(p, s, i) = IF y = Fail THEN Fail ELSE LeanQuantify(p, s, y)
  BY <1>3 DEF GoRepeat, LeanRepeat
<1>. HIDE DEF x, y
<1>5. ASSUME NEW z, z # Fail, Reaches(p, i + 1, z)
      PROVE  GoQuantify(p, r, z) = GoQuantify(p, s, z) /\ LeanQuantify(p, r, z) = LeanQuantify(p, s, z)
  <2>1. z \in 1 .. Len(p) + 1 /\ z + 1 \in Nat /\ i + 1 <= z + 1
    BY <1>1, <1>5 DEF Reaches
  <2>2. Alongside(p, z + 1, r, s)
    BY <1>1, <2>1, LaterStable
  <2>. QED  BY <2>1, <2>2, QuantifyStable
<1>. QED  BY <1>2, <1>4, <1>5

LEMMA ConcatStable ==
  ASSUME NEW p \in Seq(STRING), NEW i \in 1 .. Len(p) + 1, NEW r \in Answers(p), NEW s \in Answers(p),
         Alongside(p, i + 1, r, s)
  PROVE  GoConcat(p, r, i) = GoConcat(p, s, i) /\ LeanConcat(p, r, i) = LeanConcat(p, s, i)
<1>. DEFINE x == GoRepeat(p, r, i)
            y == LeanRepeat(p, r, i)
<1>1. Len(p) \in Nat /\ i + 1 \in Nat
  OBVIOUS
<1>2. Reaches(p, i + 1, x) /\ Reaches(p, i + 1, y)
  BY RepeatRelated
<1>3. x = GoRepeat(p, s, i) /\ y = LeanRepeat(p, s, i)
  BY RepeatStable
<1>. HIDE DEF x, y
<1>4. ASSUME NEW z, z # Fail, Reaches(p, i + 1, z) PROVE r[<<"concat", z>>] = s[<<"concat", z>>]
  <2>1. z \in Nat \ {0} /\ i + 1 <= z /\ z <= Len(p) + 1
    BY <1>1, <1>4 DEF Reaches
  <2>. QED  BY <1>1, <2>1 DEF Alongside
<1>5. GoConcat(p, r, i) = GoConcat(p, s, i)
  BY <1>2, <1>3, <1>4 DEF GoConcat, x
<1>6. LeanConcat(p, r, i) = LeanConcat(p, s, i)
  BY <1>2, <1>3, <1>4 DEF LeanConcat, y
<1>. QED  BY <1>5, <1>6

LEMMA AltStable ==
  ASSUME NEW p \in Seq(STRING), NEW i \in 1 .. Len(p) + 1, NEW r \in Answers(p), NEW s \in Answers(p),
         Alongside(p, i + 1, r, s)
  PROVE  GoAlt(p, r, i) = GoAlt(p, s, i) /\ LeanAlt(p, r, i) = LeanAlt(p, s, i)
<1>. DEFINE x == GoConcat(p, r, i)
            y == LeanConcat(p, r, i)
<1>1. Len(p) \in Nat /\ i \in Nat \ {0} /\ i + 1 \in Nat
  OBVIOUS
<1>2. Reaches(p, i, x) /\ Reaches(p, i, y)
  BY ConcatRelated
<1>3. x = GoConcat(p, s, i) /\ y = LeanConcat(p, s, i)
  BY ConcatStable
<1>. HIDE DEF x, y
<1>4. ASSUME NEW z, z # Fail, At(p, z) = "|", Reaches(p, i, z) PROVE r[<<"alt", z + 1>>] = s[<<"alt", z + 1>>]
  <2>1. z \in i .. Len(p) + 1 /\ z \in Nat \ {0}
    BY <1>1, <1>4 DEF Reaches
  <2>2. z + 1 \in 1 .. Len(p) + 1
    BY <1>4, <2>1, Inside, Marks
  <2>3. z + 1 \in Nat \ {0} /\ i + 1 <= z + 1 /\ z + 1 <= Len(p) + 1
    BY <1>1, <2>1, <2>2
  <2>. QED  BY <1>1, <2>3 DEF Alongside
<1>5. GoAlt(p, r, i) = GoAlt(p, s, i)
  BY <1>2, <1>3, <1>4 DEF GoAlt, x
<1>6. LeanAlt(p, r, i) = LeanAlt(p, s, i)
  BY <1>2, <1>3, <1>4 DEF LeanAlt, y
<1>. QED  BY <1>5, <1>6

LEMMA CallsStable ==
  ASSUME NEW p \in Seq(STRING), NEW c \in Calls(p), NEW r \in Answers(p), NEW s \in Answers(p),
         Alongside(p, c[2] + 1, r, s)
  PROVE  /\ GoCall(p, r, c[1], c[2]) = GoCall(p, s, c[1], c[2])
         /\ LeanCall(p, r, c[1], c[2]) = LeanCall(p, s, c[1], c[2])
<1>. DEFINE i == c[2]
<1>1. i \in 1 .. Len(p) + 1 /\ Alongside(p, i + 1, r, s)
  BY DEF Calls
<1>. HIDE DEF i
<1>2. CASE c[1] = "alt"
  <2>1. \A t : GoCall(p, t, c[1], i) = GoAlt(p, t, i) /\ LeanCall(p, t, c[1], i) = LeanAlt(p, t, i)
    BY <1>2 DEF GoCall, LeanCall
  <2>. QED  BY <1>1, <2>1, AltStable DEF i
<1>3. CASE c[1] = "concat"
  <2>1. \A t : GoCall(p, t, c[1], i) = GoConcat(p, t, i) /\ LeanCall(p, t, c[1], i) = LeanConcat(p, t, i)
    BY <1>3 DEF GoCall, LeanCall
  <2>. QED  BY <1>1, <2>1, ConcatStable DEF i
<1>4. CASE c[1] = "quantify"
  <2>1. \A t : GoCall(p, t, c[1], i) = GoQuantify(p, t, i) /\ LeanCall(p, t, c[1], i) = LeanQuantify(p, t, i)
    BY <1>4 DEF GoCall, LeanCall
  <2>. QED  BY <1>1, <2>1, QuantifyStable DEF i
<1>5. CASE c[1] = "items"
  <2>1. \A t : /\ GoCall(p, t, c[1], i) = GoClassItems(p, t, i, "next")
               /\ LeanCall(p, t, c[1], i) = LeanClassItems(p, t, i, "next")
    BY <1>5 DEF GoCall, LeanCall
  <2>. QED  BY <1>1, <2>1, ItemsStable DEF i
<1>6. c[1] \in {"alt", "concat", "quantify", "items"}
  BY DEF Calls
<1>. QED  BY <1>2, <1>3, <1>4, <1>5, <1>6

LEMMA LevelsStable ==
  ASSUME NEW p \in Seq(STRING), NEW n \in Nat, NEW c \in Calls(p), c[2] + n >= Len(p) + 2
  PROVE  GoAnswers(p)[n + 1][c] = GoAnswers(p)[n][c] /\ LeanAnswers(p)[n + 1][c] = LeanAnswers(p)[n][c]
<1>. DEFINE G == GoAnswers(p)
            L == LeanAnswers(p)
            T == {k \in Nat : \A d \in Calls(p) : d[2] + k >= Len(p) + 2 =>
                    G[k + 1][d] = G[k][d] /\ L[k + 1][d] = L[k][d]}
<1>1. Len(p) \in Nat
  OBVIOUS
<1>2. \A k \in Nat : G[k] \in Answers(p) /\ G[k + 1] = [d \in Calls(p) |-> GoCall(p, G[k], d[1], d[2])]
  BY GoLevels
<1>3. \A k \in Nat : L[k] \in Answers(p) /\ L[k + 1] = [d \in Calls(p) |-> LeanCall(p, L[k], d[1], d[2])]
  BY LeanLevels
<1>. HIDE DEF G, L
<1>4. 0 \in T
  <2>1. \A d \in Calls(p) : ~(d[2] + 0 >= Len(p) + 2)
    BY <1>1 DEF Calls
  <2>. QED  BY <2>1
<1>5. ASSUME NEW k \in Nat, k \in T PROVE k + 1 \in T
  <2>1. k + 1 \in Nat
    OBVIOUS
  <2>2. ASSUME NEW d \in Calls(p), d[2] + (k + 1) >= Len(p) + 2
        PROVE  G[(k + 1) + 1][d] = G[k + 1][d] /\ L[(k + 1) + 1][d] = L[k + 1][d]
    <3>1. ASSUME NEW f \in {"alt", "concat", "quantify", "items"}, NEW j \in d[2] + 1 .. Len(p) + 1
          PROVE  <<f, j>> \in Calls(p) /\ <<f, j>>[2] + k >= Len(p) + 2
      BY <1>1, <2>2 DEF Calls
    <3>2. Alongside(p, d[2] + 1, G[k + 1], G[k]) /\ Alongside(p, d[2] + 1, L[k + 1], L[k])
      BY <1>5, <3>1 DEF Alongside
    <3>3. /\ GoCall(p, G[k + 1], d[1], d[2]) = GoCall(p, G[k], d[1], d[2])
          /\ LeanCall(p, L[k + 1], d[1], d[2]) = LeanCall(p, L[k], d[1], d[2])
      <4>1. /\ G[k + 1] \in Answers(p) /\ G[k] \in Answers(p)
            /\ L[k + 1] \in Answers(p) /\ L[k] \in Answers(p)
        BY <1>2, <1>3, <2>1
      <4>2. GoCall(p, G[k + 1], d[1], d[2]) = GoCall(p, G[k], d[1], d[2])
        BY <3>2, <4>1, CallsStable
      <4>3. LeanCall(p, L[k + 1], d[1], d[2]) = LeanCall(p, L[k], d[1], d[2])
        BY <3>2, <4>1, CallsStable
      <4>. QED  BY <4>2, <4>3
    <3>4. G[k + 1][d] = GoCall(p, G[k], d[1], d[2]) /\ L[k + 1][d] = LeanCall(p, L[k], d[1], d[2])
      BY <1>2, <1>3
    <3>5. G[(k + 1) + 1] = [e \in Calls(p) |-> GoCall(p, G[k + 1], e[1], e[2])]
      BY <1>2, <2>1
    <3>6. L[(k + 1) + 1] = [e \in Calls(p) |-> LeanCall(p, L[k + 1], e[1], e[2])]
      BY <1>3, <2>1
    <3>7. /\ G[(k + 1) + 1][d] = GoCall(p, G[k + 1], d[1], d[2])
          /\ L[(k + 1) + 1][d] = LeanCall(p, L[k + 1], d[1], d[2])
      BY <3>5, <3>6
    <3>. QED  BY <3>3, <3>4, <3>7
  <2>. QED  BY <2>1, <2>2
<1>. HIDE DEF T
<1>6. n \in T
  BY <1>4, <1>5, Induction
<1>. QED  BY <1>6 DEF T, G, L

\* The levels that RegexAccepted and ParserAccepts look at answer every call
\* as the parsers do: by the handler of the call, from the answers that the
\* same level gives its nested calls.
THEOREM NestingIsAnswered ==
  ASSUME NEW p \in Seq(STRING), NEW c \in Calls(p)
  PROVE  LET go == GoAnswers(p)[Len(p) + 1]
             lean == LeanAnswers(p)[Len(p) + 1]
         IN  go[c] = GoCall(p, go, c[1], c[2]) /\ lean[c] = LeanCall(p, lean, c[1], c[2])
<1>. DEFINE n == Len(p) + 1
<1>1. n \in Nat /\ c[2] + n >= Len(p) + 2
  <2>1. Len(p) \in Nat
    OBVIOUS
  <2>. QED  BY <2>1 DEF Calls
<1>. HIDE DEF n
<1>2. GoAnswers(p)[n + 1][c] = GoAnswers(p)[n][c] /\ LeanAnswers(p)[n + 1][c] = LeanAnswers(p)[n][c]
  BY <1>1, LevelsStable
<1>3. GoAnswers(p)[n + 1] = [d \in Calls(p) |-> GoCall(p, GoAnswers(p)[n], d[1], d[2])]
  BY <1>1, GoLevels
<1>4. LeanAnswers(p)[n + 1] = [d \in Calls(p) |-> LeanCall(p, LeanAnswers(p)[n], d[1], d[2])]
  BY <1>1, LeanLevels
<1>. QED  BY <1>2, <1>3, <1>4 DEF n

-----------------------------------------------------------------------------
(* The two parsers.                                                        *)

\* What the plugin lets through, the `#guard` of the generated file accepts.
THEOREM AcceptedIsParsed ==
  ASSUME NEW p \in Seq(STRING), RegexAccepted(p)
  PROVE  ParserAccepts(p)
<1>1. Len(p) + 1 \in Nat /\ 1 \in 1 .. Len(p) + 1 /\ Len(p) + 1 # Fail /\ 1 >= 1
  <2>1. Len(p) \in Nat
    OBVIOUS
  <2>. QED  BY <2>1 DEF Fail
<1>2. <<"alt", 1>> \in Calls(p) /\ <<"alt", 1>>[2] = 1
  BY <1>1 DEF Calls
<1>3. Forward(p, 1, GoAnswers(p)[Len(p) + 1], LeanAnswers(p)[Len(p) + 1])
  BY <1>1, LevelsForward
<1>4. Improves(GoAnswers(p)[Len(p) + 1][<<"alt", 1>>], LeanAnswers(p)[Len(p) + 1][<<"alt", 1>>])
  BY <1>1, <1>2, <1>3 DEF Forward, Below
<1>. QED  BY <1>1, <1>4 DEF Improves, RegexAccepted, ParserAccepts

\* The plugin refuses only what the runtime refuses too, or one of the forms
\* that RE2 and the runtime read differently.
THEOREM ParsedIsAccepted ==
  ASSUME NEW p \in Seq(STRING), ParserAccepts(p), ~ReadDifferently(p)
  PROVE  RegexAccepted(p)
<1>1. Len(p) + 1 \in Nat /\ 1 \in 1 .. Len(p) + 2 /\ Len(p) + 1 # Fail /\ 1 >= 1 /\ Len(p) + 1 >= Len(p) + 2 - 1
  <2>1. Len(p) \in Nat
    OBVIOUS
  <2>. QED  BY <2>1 DEF Fail
<1>2. <<"alt", 1>> \in Calls(p) /\ <<"alt", 1>>[2] = 1
  <2>1. 1 \in 1 .. Len(p) + 1
    BY <1>1
  <2>. QED  BY <2>1 DEF Calls
<1>3. Alike(p)
  BY NoneReadDifferently
<1>4. Backward(p, 1, GoAnswers(p)[Len(p) + 1], LeanAnswers(p)[Len(p) + 1])
  BY <1>1, <1>3, LevelsBackward
<1>5. Improves(LeanAnswers(p)[Len(p) + 1][<<"alt", 1>>], GoAnswers(p)[Len(p) + 1][<<"alt", 1>>])
  BY <1>1, <1>2, <1>4 DEF Backward, Below
<1>. QED  BY <1>1, <1>5 DEF Improves, RegexAccepted, ParserAccepts
=============================================================================
