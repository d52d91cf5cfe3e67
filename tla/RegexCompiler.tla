---------------------------- MODULE RegexCompiler ----------------------------
(***************************************************************************)
(* From a pattern to a program: the desugaring of quantifiers that         *)
(* quantifyCore and parseConcatCore perform while parsing, and compileAst  *)
(* (lean/Protovalidate/Cel/Regex.lean); and the language of a pattern, to  *)
(* compare with.  Patterns come as trees: the grammar is in RegexGrammar.  *)
(* All recursion is over trees nested at most Depth deep.                  *)
(***************************************************************************)
EXTENDS PikeVM

CONSTANTS
  Unbounded,  \* the upper bound of `*`, `+` and `{n,}`
  Depth       \* how deep patterns, and the syntax trees they become, are nested

\* Syntax trees, and the repetitions the parser desugars.
Epsilon == [op |-> "epsilon"]
Chr(cs) == [op |-> "char", cs |-> cs]
AssertStart == [op |-> "assertStart"]
AssertEnd == [op |-> "assertEnd"]
Concat(a, b) == [op |-> "concat", a |-> a, b |-> b]
Alt(a, b) == [op |-> "alt", a |-> a, b |-> b]
Star(a) == [op |-> "star", a |-> a]
Repeat(a, lo, hi) == [op |-> "repeat", a |-> a, lo |-> lo, hi |-> hi]

\* The trees over a set of subtrees; what the parser returns has stars where
\* what it reads has repetitions.
Leaves == [op : {"epsilon", "assertStart", "assertEnd"}] \cup [op : {"char"}, cs : SUBSET Char]
Joins(T) == [op : {"concat", "alt"}, a : T, b : T]
Loops(kind, T) ==
  IF kind = "star" THEN [op : {"star"}, a : T]
  ELSE {r \in [op : {"repeat"}, a : T, lo : Nat, hi : Nat \cup {Unbounded}] : r.hi # Unbounded => r.lo <= r.hi}
Grown(kind, T) == Leaves \cup Joins(T) \cup Loops(kind, T)

Trees(kind) ==
  LET upTo[d \in Nat] == IF d = 0 THEN Leaves ELSE LET T == upTo[d - 1] IN Grown(kind, T)
  IN  upTo

Ast == Trees("star")[Depth]
Written == Trees("repeat")[Depth]

-----------------------------------------------------------------------------
(* The parser's desugaring.                                                *)

RepeatN(a, n) ==
  LET chain[k \in Nat] == IF k = 0 THEN Epsilon ELSE IF k = 1 THEN a ELSE Concat(a, chain[k - 1])
  IN  chain[n]

OptChain(a, n) ==
  LET chain[k \in Nat] == IF k = 0 THEN Epsilon ELSE Alt(Concat(a, chain[k - 1]), Epsilon)
  IN  chain[n]

\* Mutant: {n,m} repeats m times after the first n.
QuantifyMore(a, lo, hi) ==
  IF hi = Unbounded THEN (IF lo = 0 THEN Star(a) ELSE Concat(RepeatN(a, lo), Star(a)))
  ELSE IF lo = 0 /\ hi = 1 THEN Alt(a, Epsilon)
  ELSE Concat(RepeatN(a, lo), OptChain(a, hi))

\* `*`, `+`, `?`, `{n}`, `{n,}` and `{n,m}`; forms that differ by an epsilon
\* in a concatenation compile alike and are merged.
Quantify(a, lo, hi) ==
  IF hi = Unbounded THEN (IF lo = 0 THEN Star(a) ELSE Concat(RepeatN(a, lo), Star(a)))
  ELSE IF lo = 0 /\ hi = 1 THEN Alt(a, Epsilon)
  ELSE IF lo = hi THEN RepeatN(a, lo)
  ELSE Concat(RepeatN(a, lo), OptChain(a, hi - lo))

Desugar[p \in Written] ==
  CASE p \in Leaves -> p
    [] p.op = "concat" ->
         IF Desugar[p.b] = Epsilon THEN Desugar[p.a] ELSE Concat(Desugar[p.a], Desugar[p.b])
    [] p.op = "alt" -> Alt(Desugar[p.a], Desugar[p.b])
    [] OTHER -> Quantify(Desugar[p.a], p.lo, p.hi)

-----------------------------------------------------------------------------
(* The compiler: emit appends an instruction and patch replaces one.  The  *)
(* program so far comes with the place to go on at, which is the entry of  *)
(* what has just been appended.                                            *)

Code == [prog : Seq(Inst), entry : Nat]

MkInst(op, cs, to) == [op |-> op, accepts |-> cs, to |-> to]
Emit(prog, inst) == [prog |-> Append(prog, inst), entry |-> Len(prog) + 1]
Patch(prog, pc, inst) == [prog EXCEPT ![pc] = inst]

CompileNode[a \in Ast] ==
  [c \in Code |->
     CASE a.op = "epsilon" -> c
       [] a.op = "char" -> Emit(c.prog, MkInst("char", a.cs, <<c.entry>>))
       [] a.op = "concat" -> CompileNode[a.a][CompileNode[a.b][c]]
       [] a.op = "alt" ->
            LET l == CompileNode[a.a][c]
                r == CompileNode[a.b][[prog |-> l.prog, entry |-> c.entry]]
            IN  Emit(r.prog, MkInst("split", {}, <<l.entry, r.entry>>))
       [] a.op \in {"assertStart", "assertEnd"} -> Emit(c.prog, MkInst(a.op, {}, <<c.entry>>))
       [] OTHER ->
            LET s == Emit(c.prog, MkInst("split", {}, <<1, 1>>))
                r == CompileNode[a.a][s]
            IN  [prog |-> Patch(r.prog, s.entry, MkInst("split", {}, <<r.entry, c.entry>>)), entry |-> s.entry]]

CompileAst(a) ==
  LET c == CompileNode[a][Emit(<<>>, MkInst("done", {}, <<>>))]
  IN  [insts |-> c.prog, entry |-> c.entry]

Compile(p) == CompileAst(Desugar[p])

ASSUME CompilerAssumption ==
  /\ Depth \in Nat
  /\ Unbounded \notin Nat
  /\ \A p \in Pattern : p \in Written /\ Desugar[p] \in Ast /\ ProgOf[p] = Compile(p)

-----------------------------------------------------------------------------
(* The language of a pattern: the stretches of s it matches.               *)

Compose(R, S) == {<<z[1][1], z[2][2]>> : z \in {y \in R \X S : y[1][2] = y[2][1]}}
Diagonal(s) == {<<i, i>> : i \in 0 .. Len(s)}
Letters(cs, s) == {<<i - 1, i>> : i \in {j \in DOMAIN s : s[j] \in cs}}

Power(R, n, s) ==
  LET power[k \in Nat] == IF k = 0 THEN Diagonal(s) ELSE Compose(R, power[k - 1])
  IN  power[n]

\* Repeating more often than there are characters adds nothing new.
Powers(R, lo, hi, s) == UNION {Power(R, n, s) : n \in lo .. hi}

Language(p, s) ==
  LET spans[q \in Written] ==
        CASE q.op = "epsilon" -> Diagonal(s)
          [] q.op = "char" -> Letters(q.cs, s)
          [] q.op = "assertStart" -> {<<0, 0>>}
          [] q.op = "assertEnd" -> {<<Len(s), Len(s)>>}
          [] q.op = "concat" -> Compose(spans[q.a], spans[q.b])
          [] q.op = "alt" -> spans[q.a] \cup spans[q.b]
          [] OTHER ->
               Powers(spans[q.a], q.lo, IF q.hi = Unbounded THEN q.lo + Len(s) ELSE q.hi, s)
  IN  spans[p]

\* Patterns match anywhere in the string: the answer is "match" exactly when
\* the language of the pattern holds a stretch of it.
MatchesLanguage ==
  answer # "searching" => (answer = "match" <=> Language(pattern, input) # {})
=============================================================================
