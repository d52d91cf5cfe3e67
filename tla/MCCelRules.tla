----------------------------- MODULE MCCelRules -----------------------------
(***************************************************************************)
(* Rules for CelTranslator.  Propositional ones: three atoms that may err, *)
(* every connective, two levels deep, and one further level of the non-    *)
(* monotone ones.  Comprehensions over lists of up to two elements, under  *)
(* and over the connectives, and nested once.                              *)
(***************************************************************************)
EXTENDS CelTranslator, MCCel, Functions, TLC

CONSTANT
  LambdaBodies  \* how far the bodies of exists_one, filter and map may go

A == Atom("a", "prop", "plain")       \* this.a + 1 > 0
B == Atom("b", "bool", "dependent")   \* this.flags[0]
S == Atom("s", "term", "dependent")   \* this.list[0]
T == Atom("a", "term", "none")        \* this.a
X == Atom("x", "prop", "plain")       \* x + 1 > 0
I == Atom("x", "bool", "dependent")   \* this.flags[x]
V == Atom("x", "term", "plain")       \* x + 1
List == Atom("l", "term", "none")     \* this.list
Inner == Atom("a", "term", "dependent")  \* this.lists[0], ranged over like List

MkNot(x) == MkOp("not", <<x>>)
AOr(x) == MkOp("or", <<x, A>>)

-----------------------------------------------------------------------------
(* Connectives.                                                            *)

Pairs(op, L, R) == {MkOp(op, <<x, y>>) : x \in L, y \in R}
Ternaries(C, L, R) == {MkOp("conditional", <<c, x, y>>) : c \in C, x \in L, y \in R}

Leaves == {A, B, True, False}
Terms == {S, T, Plus(S, T), MkOp("conditional", <<B, S, T>>), MkOp("conditional", <<A, T, S>>)}
Over(L) ==
  {MkNot(x) : x \in L}
    \cup UNION {Pairs(op, {A, B}, L) : op \in {"and", "or", "equal"}}
    \cup Ternaries({A, B}, L, L)
Level1 == Over(Leaves) \cup {Less(s, t) : s \in Terms, t \in {S, T}}

\* One level more, and a further one of negations.
Level2(L) ==
  {MkNot(x) : x \in L}
    \cup Pairs("and", {x \in L : x.op # "and"}, {B})
    \cup Pairs("or", {x \in L : x.op # "or"}, {A})
    \cup Pairs("equal", L, {A})
    \cup Ternaries(L, {A}, {True})
    \cup Ternaries({B}, L, {A})
    \cup Ternaries({A}, {True}, L)
Level3(L, M) ==
  {MkNot(x) : x \in {y \in M : y.op \in {"and", "or", "not"}}}
    \cup Pairs("and", {MkNot(x) : x \in L}, {MkOp("or", <<A, B>>)})
Levels(L) == L \cup Level2(L) \cup Level3(L, Level2(L))

-----------------------------------------------------------------------------
(* Comprehensions.                                                         *)

Comp(op, recv, body) == MkOp(op, <<recv, body>>)

SimpleBodies == {X, I, MkNot(X), MkOp("equal", <<X, A>>)}
ClosingBodies == {MkOp("and", <<X, A>>), MkOp("or", <<I, X>>),
                  MkOp("conditional", <<X, A, True>>), MkOp("conditional", <<A, True, X>>)}
Bodies == SimpleBodies \cup ClosingBodies
LambdaBody(b) == LambdaBodies = "any" \/ b \in SimpleBodies

Quantified(Bs) == {Comp(q, List, b) : q \in {"all", "exists"}, b \in Bs}
Counted(Bs) == {Comp("exists_one", List, b) : b \in {x \in Bs : LambdaBody(x)}}
Collected(Bs) ==
  {Comp(l, List, b) : l \in {"filter", "map"}, b \in {x \in Bs : LambdaBody(x)}}
    \cup {Comp("map", List, V)}
    \cup {MkOp("mapIf", <<List, b, V>>) : b \in {X, MkNot(X), I}}
Guarded == {Comp(q, Inner, X) : q \in {"all", "exists_one", "filter"}}
Comps(Bs) == Quantified(Bs) \cup Counted(Bs) \cup Guarded
Outer(C) ==
  {MkNot(x) : x \in C}
    \cup {MkOp("and", <<x, A>>) : x \in C}
    \cup {MkOp("equal", <<x, A>>) : x \in C}
    \cup {MkOp("conditional", <<x, A, True>>) : x \in C}
    \cup {Comp(q, List, x) : q \in {"all", "exists"}, x \in C}
    \cup {MkNot(Comp(q, List, AOr(X))) : q \in {"all", "exists"}}
Around(C, L) == C \cup Outer(C) \cup L \cup {Less(l, V) : l \in L}

Roots == Levels(Level1) \cup {S} \cup Around(Comps(Bodies), Collected(Bodies))
Parts ==
  Leaves \cup Terms \cup Bodies \cup {X, I, V, List, Inner, AOr(X), MkOp("or", <<A, B>>)}
    \cup {Comp(q, List, AOr(X)) : q \in {"all", "exists"}}

-----------------------------------------------------------------------------
(* Environments.  An error comes with either bit, for the text still       *)
(* denotes something.                                                      *)

Found == [ok |-> TRUE, bit |-> TRUE]
No == [ok |-> TRUE, bit |-> FALSE]
Bad(b) == [ok |-> FALSE, bit |-> b]

Lists == {<<>>} \cup [1 .. 1 -> Outcome] \cup {<<Found, Found>>, <<No, Found>>, <<No, Bad(TRUE)>>,
            <<No, Bad(FALSE)>>, <<Found, Bad(TRUE)>>, <<Found, Bad(FALSE)>>, <<Bad(FALSE), Bad(TRUE)>>}
E == [a : Outcome, b : {Found, No, Bad(FALSE)}, s : {Found, No, Bad(TRUE)}, x : {Found}, l : {Found}, list : {<<>>}]
       \cup {[a |-> o, b |-> Found, s |-> Found, x |-> y, l |-> Found, list |-> ys] :
              <<o, y, ys>> \in {z \in {Found, No, Bad(TRUE)} \X Outcome \X Lists : z[2] \in {Found} \cup Range(z[3])}}

P == Parsed(Roots \cup Parts)
MCNode == DOMAIN P
MCRoot == Texts(Roots)
MCOp == OpOf(P)
MCKids == KidsOf(P)
MCRes == ResOf(P)
MCOwn == OwnOf(P)
MCHolds == Where(P, E, "T")
MCErrs == Where(P, E, "E")
MCElem(n, e) == ElemOf({}, e)
MCApply(n, e, ts) == ApplyOf(P[n], e, ts)
MCFails(n, e, ts) == FailsOf(P[n], e, ts)
=============================================================================
