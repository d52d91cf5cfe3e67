------------------------------- MODULE MCRegex -------------------------------
(* Patterns two operators deep over {a, b}, every quantifier form, compiled  *)
(* and searched for in every string of up to three characters.               *)
EXTENDS RegexCompiler

CONSTANTS a, b

Atoms == {Chr({a}), Chr({a, b}), AssertStart, AssertEnd, Epsilon}
Bounds == {<<0, Unbounded>>, <<1, Unbounded>>, <<0, 1>>, <<2, 2>>, <<1, 2>>, <<2, Unbounded>>, <<0, 2>>}
Quantified(ps) == {Repeat(p, q[1], q[2]) : p \in ps, q \in Bounds}
Pairs(ps, qs) == {Concat(p, q) : p \in ps, q \in qs} \cup {Alt(p, q) : p \in ps, q \in qs}

Level1 == Pairs(Atoms, Atoms \cup {Chr({b})}) \cup Quantified(Atoms \ {Epsilon})
Level2 ==
  {Repeat(p, q[1], q[2]) : p \in Level1, q \in {<<0, Unbounded>>, <<2, 2>>, <<1, Unbounded>>}}
    \cup Pairs({p \in Level1 : p.op = "repeat"}, {Chr({b}), AssertEnd})
    \cup Pairs({Chr({b}), AssertStart}, {p \in Level1 : p.op = "repeat"})
\* ^(p)$ for a few p, as rules are usually written.
Whole == {Concat(AssertStart, Concat(p, AssertEnd)) : p \in Level1}

MCPattern == Level1 \cup Level2 \cup Whole
MCProgOf == [p \in MCPattern |-> Compile(p)]
MCInput == UNION {[1 .. n -> {a, b}] : n \in 0 .. 3}
=============================================================================
