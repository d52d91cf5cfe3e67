--------------------------- MODULE CelTranslator ---------------------------
(***************************************************************************)
(* The CEL to Lean translator: celtolean/translate.go and functions.go.    *)
(*                                                                         *)
(* `translator.expr` walks an expression depth first; the handler of a     *)
(* node translates its operands, in order, and combines the fragments they *)
(* return.  What a fragment prints is left out.  What it means is kept:    *)
(* the environments in which its text holds (val) and those in which its   *)
(* pending guards all hold (def).  Outside def the text still denotes      *)
(* something, a wrapped sum or an element nobody proved to exist, and      *)
(* nothing is assumed of it.                                               *)
(*                                                                         *)
(* `stack` is the Go call stack: one frame per active call of `expr`, with *)
(* the fragments its handler has collected so far.  `floated` and          *)
(* `absorbed` are history variables that only the properties read.         *)
(***************************************************************************)
EXTENDS CelEval, FiniteSets

CONSTANTS
  Root,  \* the expressions handed to Translate
  Res    \* Res[n], the kind of fragment the strict operation n produces

Kinds == {"term", "bool", "prop"}

ASSUME RootAssumption == Root \subseteq Node /\ Res \in [Node -> Kinds]

VARIABLES
  stack,     \* active calls of expr, outermost first
  negDepth,  \* translator.negDepth
  status,    \* "walking", "rejected" (an error was returned) or "done"
  root,      \* the expression being translated
  result,    \* the fragment Translate returns
  floated,   \* a guard left the operand that CEL might not have evaluated
  absorbed   \* a discharged guard ended up under a lambda or a strict operator

vars == <<stack, negDepth, status, root, result, floated, absorbed>>

Piece == [kind : Kinds, val : SUBSET Env, def : SUBSET Env,
          open : BOOLEAN,    \* guards are pending
          dep : BOOLEAN,     \* one of them is a proof the text refers to
          closed : BOOLEAN]  \* the text holds discharged guards

Frame == [node : Node, args : Seq(Piece)]

TypeOK ==
  /\ stack \in Seq(Frame)
  /\ negDepth \in Nat
  /\ status \in {"walking", "rejected", "done"}
  /\ root \in Root
  /\ result \in Piece
  /\ floated \in BOOLEAN
  /\ absorbed \in BOOLEAN

-----------------------------------------------------------------------------
(* Fragments.                                                              *)

\* mergeGuards: a fragment whose pending guards are those of its parts.
DefAll(ps) == {e \in Env : \A k \in DOMAIN ps : e \in ps[k].def}
AnyOpen(ps) == \E k \in DOMAIN ps : ps[k].open
AnyDep(ps) == \E k \in DOMAIN ps : ps[k].dep
AnyClosed(ps) == \E k \in DOMAIN ps : ps[k].closed

Merge(kind, val, ps) ==
  [kind |-> kind, val |-> val, def |-> DefAll(ps),
   open |-> AnyOpen(ps), dep |-> AnyDep(ps), closed |-> AnyClosed(ps)]

\* closeGuards: `if h : guard then P else False`, nested.
CloseGuards(p) ==
  IF p.open
  THEN [kind |-> "prop", val |-> p.val \cap p.def, def |-> Env,
        open |-> FALSE, dep |-> FALSE, closed |-> TRUE]
  ELSE p

CloseGuardsPositive(p) == IF negDepth > 0 THEN p ELSE CloseGuards(p)

\* The operands of ps that hold in e.
HoldsAt(ps, e) == {k \in DOMAIN ps : e \in ps[k].val}

-----------------------------------------------------------------------------
(* The walk.                                                               *)

\* The operands handed to expr: conditional skips a literal branch.
Visit(n) ==
  IF Op[n] # "conditional" THEN [k \in DOMAIN Kids[n] |-> k]
  ELSE IF Op[Kid(n, 3)] \in Literals THEN <<1, 2>>
  ELSE IF Op[Kid(n, 2)] = "true" THEN <<1, 3>>
  ELSE <<1, 2, 3>>

Operand(n, k) == Kid(n, Visit(n)[k])

\* Mutant: the condition of a ternary is taken for monotone.
RaisesNoCondition(n, k) == Op[n] \in {"not", "equal"}

\* The operands translated between negDepth++ and negDepth--.
Raises(n, k) ==
  \/ Op[n] \in {"not", "equal"}
  \/ Op[n] = "conditional" /\ k = 1

Raise(n, k) == IF Raises(n, k) THEN 1 ELSE 0

Top == stack[Len(stack)]
Args == Top.args
Call(n) == [node |-> n, args |-> <<>>]

NoPiece == Merge("prop", {}, <<>>)

Init ==
  /\ root \in Root
  /\ stack = <<Call(root)>>
  /\ negDepth = 0
  /\ status = "walking"
  /\ result = NoPiece
  /\ floated = FALSE
  /\ absorbed = FALSE

\* Mutant: the negDepth++ is forgotten.
DescendUnraised ==
  /\ status = "walking"
  /\ Len(Args) < Len(Visit(Top.node))
  /\ stack' = Append(stack, Call(Operand(Top.node, Len(Args) + 1)))
  /\ UNCHANGED <<negDepth, status, root, result, floated, absorbed>>

\* A handler calls expr on its next operand.
Descend ==
  /\ status = "walking"
  /\ LET n == Top.node
         k == Len(Args) + 1
     IN  /\ k <= Len(Visit(n))
         /\ stack' = Append(stack, Call(Operand(n, k)))
         /\ negDepth' = negDepth + Raise(n, k)
  /\ UNCHANGED <<status, root, result, floated, absorbed>>

\* The handler of an operation in ops has all its operands.
Handles(ops) ==
  /\ status = "walking"
  /\ Op[Top.node] \in ops
  /\ Len(Args) = Len(Visit(Top.node))

Reject ==
  /\ status' = "rejected"
  /\ stack' = <<>>
  /\ UNCHANGED <<negDepth, root, result, floated, absorbed>>

\* Back in Translate: guards still pending close at the root, unless the
\* expression is not boolean-valued.
Finish(p) ==
  /\ stack' = <<>>
  /\ status' = IF p.open /\ p.kind = "term" THEN "rejected" ELSE "done"
  /\ result' = CloseGuards(p)
  /\ UNCHANGED negDepth

\* Mutant: the negDepth-- is forgotten.
ReturnToRaised(caller, p) ==
  /\ stack' = Append(SubSeq(stack, 1, Len(stack) - 2),
                     [caller EXCEPT !.args = Append(@, p)])
  /\ UNCHANGED <<negDepth, status, result>>

\* Back in the handler that asked for the operand.
ReturnTo(caller, p) ==
  /\ stack' = [i \in 1 .. Len(stack) - 1 |->
                 IF i = Len(stack) - 1
                 THEN [caller EXCEPT !.args = Append(@, p)]
                 ELSE stack[i]]
  /\ negDepth' = negDepth - Raise(caller.node, Len(caller.args) + 1)
  /\ UNCHANGED <<status, result>>

Return(p) ==
  /\ IF Len(stack) = 1 THEN Finish(p) ELSE ReturnTo(stack[Len(stack) - 1], p)
  /\ UNCHANGED root

-----------------------------------------------------------------------------
(* The handlers, one action each.                                          *)

Literal ==
  /\ Handles(Literals)
  /\ Return(Merge("bool", IF Op[Top.node] = "true" THEN Env ELSE {}, Args))
  /\ UNCHANGED <<floated, absorbed>>

\* Identifiers, selections, comparisons, arithmetic, indexing, functions:
\* the operands' guards, then the operation's own.
StrictPiece(n, ps) ==
  [kind |-> Res[n],
   val |-> {e \in Env : Apply(n, e, HoldsAt(ps, e))},
   def |-> {e \in DefAll(ps) : Own[n] = "none" \/ ~Fails(n, e, HoldsAt(ps, e))},
   open |-> AnyOpen(ps) \/ Own[n] # "none",
   dep |-> AnyDep(ps) \/ Own[n] = "dependent",
   closed |-> AnyClosed(ps)]

Strict ==
  /\ Handles({"strict"})
  /\ Return(StrictPiece(Top.node, Args))
  /\ absorbed' = (absorbed \/ AnyClosed(Args))
  /\ UNCHANGED floated

Not ==
  /\ Handles({"not"})
  /\ Return(Merge("prop", Env \ Args[1].val, Args))
  /\ UNCHANGED <<floated, absorbed>>

\* ==, and != up to a negation: `=` on values, `iff` on propositions.
Equality ==
  /\ Handles({"equal"})
  /\ Return(Merge("prop", {e \in Env : HoldsAt(Args, e) \in {{}, {1, 2}}}, Args))
  /\ UNCHANGED <<floated, absorbed>>

\* && and ||: every operand's guards close inside its own con/disjunct.
ChainVal(o, ps) ==
  {e \in Env : IF o = "and" THEN HoldsAt(ps, e) = DOMAIN ps ELSE HoldsAt(ps, e) # {}}

LogicalChain ==
  /\ Handles(Chains)
  /\ LET ps == [k \in DOMAIN Args |-> CloseGuardsPositive(Args[k])]
     IN  /\ Return(Merge("prop", ChainVal(Op[Top.node], ps), ps))
         /\ floated' = (floated \/ AnyOpen(ps))
  /\ UNCHANGED absorbed

\* Mutant: the branch that is `true` is taken for `false`.
IdiomValConj(n, c, p) ==
  IF Op[Kid(n, 2)] = "true" THEN c.val \cup p.val ELSE c.val \cap p.val

\* The ternary with a literal branch: c -> p, c and p, c or p.
IdiomVal(n, c, p) ==
  IF Op[Kid(n, 3)] = "true" THEN (Env \ c.val) \cup p.val
  ELSE IF Op[Kid(n, 3)] = "false" THEN c.val \cap p.val
  ELSE c.val \cup p.val

ConditionalIdiom ==
  /\ Handles({"conditional"})
  /\ Len(Args) = 2
  /\ LET p == CloseGuardsPositive(Args[2])
     IN  /\ Return(Merge("prop", IdiomVal(Top.node, Args[1], p), <<Args[1], p>>))
         /\ floated' = (floated \/ p.open)
  /\ UNCHANGED absorbed

IteVal(c, a, b) == (c.val \cap a.val) \cup (b.val \ c.val)

\* The ternary of propositions closes the guards of each branch.
ConditionalProp ==
  /\ Handles({"conditional"})
  /\ Len(Args) = 3
  /\ "prop" \in {Args[2].kind, Args[3].kind}
  /\ LET a == CloseGuardsPositive(Args[2])
         b == CloseGuardsPositive(Args[3])
     IN  /\ Return(Merge("prop", IteVal(Args[1], a, b), <<Args[1], a, b>>))
         /\ floated' = (floated \/ a.open \/ b.open)
  /\ UNCHANGED absorbed

\* The ternary of values lets them float.
ConditionalValue ==
  /\ Handles({"conditional"})
  /\ Len(Args) = 3
  /\ "prop" \notin {Args[2].kind, Args[3].kind}
  /\ Return(Merge(IF Args[2].kind = "bool" /\ Args[3].kind = "bool" THEN "bool" ELSE "term",
                  IteVal(Args[1], Args[2], Args[3]), Args))
  /\ floated' = (floated \/ Args[2].open \/ Args[3].open)
  /\ UNCHANGED absorbed

-----------------------------------------------------------------------------
(* Comprehensions.                                                         *)

Satisfying(n, e, p) == {x \in Elem(n, e) : x[2] \in p.val}

\* hoistBodyGuards: the bodies' pending guards, demanded of every element,
\* follow the receiver's.  A proof cannot leave its binder.
Hoistable(bodies) == \A k \in DOMAIN bodies : bodies[k].open => ~bodies[k].dep

\* Mutant: only the receiver's guards survive.
HoistReceiver(n, kind, val, recv, bodies) == Merge(kind, val, <<recv>>)

Hoist(n, kind, val, recv, bodies) ==
  [kind |-> kind, val |-> val,
   def |-> {e \in recv.def : \A k \in DOMAIN bodies :
                               \A x \in Elem(n, e) : x[2] \in bodies[k].def},
   open |-> recv.open \/ AnyOpen(bodies),
   dep |-> recv.dep,
   closed |-> recv.closed \/ AnyClosed(bodies)]

\* Mutant: all and exists swapped.
QuantifierValSwapped(n, body) ==
  {e \in Env : IF Op[n] = "exists" THEN Satisfying(n, e, body) = Elem(n, e)
                                   ELSE Satisfying(n, e, body) # {}}

QuantifierVal(n, body) ==
  {e \in Env : IF Op[n] = "all" THEN Satisfying(n, e, body) = Elem(n, e)
                                ELSE Satisfying(n, e, body) # {}}

Quantifier ==
  /\ Handles(Quantifiers)
  /\ LET n == Top.node
         body == CloseGuardsPositive(Args[2])
     IN  IF Hoistable(<<body>>)
         THEN /\ Return(Hoist(n, "prop", QuantifierVal(n, body), Args[1], <<body>>))
              /\ floated' = (floated \/ body.open)
              /\ absorbed' = (absorbed \/ Args[1].closed)
         ELSE Reject

\* countP = 1, filter, map, and filter-then-map; the last three are observed
\* through "some element".
LambdaVal(n, bodies) ==
  {e \in Env :
     LET xs == Satisfying(n, e, bodies[1])
     IN  IF Op[n] = "exists_one" THEN \E x \in Elem(n, e) : xs = {x}
         ELSE IF Op[n] = "mapIf" THEN xs \cap Satisfying(n, e, bodies[2]) # {}
         ELSE xs # {}}

Lambda ==
  /\ Handles(Lambdas)
  /\ LET n == Top.node
         bodies == Tail(Args)
     IN  IF Hoistable(bodies)
         THEN /\ Return(Hoist(n, IF Op[n] = "exists_one" THEN "prop" ELSE "term",
                              LambdaVal(n, bodies), Args[1], bodies))
              /\ floated' = (floated \/ (Op[n] = "mapIf" /\ bodies[2].open))
              /\ absorbed' = (absorbed \/ AnyClosed(Args))
         ELSE Reject

Next ==
  \/ Descend \/ Literal \/ Strict \/ Not \/ Equality \/ LogicalChain
  \/ ConditionalIdiom \/ ConditionalProp \/ ConditionalValue
  \/ Quantifier \/ Lambda

Spec == Init /\ [][Next]_vars

-----------------------------------------------------------------------------
(* Properties.                                                             *)

\* No proposition the generator emits can be proved of a value on which CEL
\* errors or answers false, as long as no discharged guard was wrapped in a
\* countP, filter or map body.
Sound == status = "done" /\ ~absorbed => result.val \subseteq Holds[root]

\* Conversely the emitted proposition holds wherever CEL answers true, unless
\* a guard floated out of an operand that CEL need not evaluate.
Complete ==
  status = "done" /\ ~absorbed /\ ~floated => Holds[root] \subseteq result.val

\* What README.md says of every rule, with no exception: "the kernel can never
\* prove a proposition whose CEL evaluation would have errored".
NeverProvesAnError == status = "done" => result.val \cap Errs[root] = {}

\* negDepth counts the enclosing non-monotone operands, through every
\* handler and at every moment of the walk, and is back at 0 at its end.
NegativeCalls == {i \in 1 .. Len(stack) - 1 :
                    Raises(stack[i].node, Len(stack[i].args) + 1)}
NegDepthBalanced ==
  status # "rejected" => negDepth = Cardinality(NegativeCalls)

\* A guard is never discharged underneath a negation, where `else False`
\* would turn an error into a success.
NoClosedGuardUnderNegation ==
  \A i \in DOMAIN stack : \A k \in DOMAIN stack[i].args :
    stack[i].args[k].closed =>
      /\ ~Raises(stack[i].node, k)
      /\ NegativeCalls \cap (1 .. i - 1) = {}
=============================================================================
