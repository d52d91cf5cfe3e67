------------------------------- MODULE MCCel -------------------------------
(***************************************************************************)
(* Syntax trees and their evaluation for the model-checking instances of   *)
(* CelTranslator: a node is a record that holds its operands.              *)
(***************************************************************************)
EXTENDS Naturals, Sequences, FiniteSets

\* A term over one bit: evaluation succeeds or errs, and in either case the
\* translated text denotes some bit.
Outcome == [ok : BOOLEAN, bit : BOOLEAN]

\* Trees are told apart by their text, which is the node: TLC compares texts
\* much faster than trees.
RECURSIVE Text(_)
Text(ks) == IF ks = <<>> THEN ")" ELSE Head(ks).text \o "," \o Text(Tail(ks))
Tree(op, kids, id, res, own) ==
  [op |-> op, kids |-> kids, id |-> id, res |-> res, own |-> own,
   text |-> op \o id \o res \o own \o "(" \o Text(kids)]

MkOp(op, kids) == Tree(op, kids, "", "prop", "none")
True == MkOp("true", <<>>)
False == MkOp("false", <<>>)

\* An atomic operand whose outcome the environment gives.
Atom(id, res, own) == Tree("strict", <<>>, id, res, own)
\* `<` on bits, which cannot err, and `+`, which errs when it overflows.
Less(s, t) == Tree("strict", <<s, t>>, "<", "prop", "none")
Plus(s, t) == Tree("strict", <<s, t>>, "+", "term", "plain")

Texts(N) == {t.text : t \in N}
Parsed(N) == [x \in Texts(N) |-> CHOOSE t \in N : t.text = x]
OpOf(P) == [x \in DOMAIN P |-> P[x].op]
KidsOf(P) == [x \in DOMAIN P |-> [i \in DOMAIN P[x].kids |-> P[x].kids[i].text]]
ResOf(P) == [x \in DOMAIN P |-> P[x].res]
OwnOf(P) == [x \in DOMAIN P |-> P[x].own]

ApplyOf(n, e, ts) ==
  CASE n.id = "<" -> 1 \notin ts /\ 2 \in ts
    [] n.id = "+" -> Cardinality(ts) = 1
    [] OTHER -> e[n.id].bit

FailsOf(n, e, ts) ==
  CASE n.id = "<" -> FALSE
    [] n.id = "+" -> ts = {1, 2}
    [] OTHER -> ~e[n.id].ok

\* The elements of the list in the environment, bound to x.
ElemOf(n, e) == {<<i, [e EXCEPT !.x = e.list[i]]>> : i \in DOMAIN e.list}

\* Evaluation by recursion on the tree: "T", "F" or "E".
RECURSIVE Value(_, _)
Value(n, e) ==
  LET vs == [i \in DOMAIN n.kids |-> Value(n.kids[i], e)]
      has(v) == \E i \in DOMAIN vs : vs[i] = v
      bit(b) == IF b THEN "T" ELSE "F"
      ts == {i \in DOMAIN vs : vs[i] = "T"}
      elems(j) == [x \in ElemOf(n, e) |-> Value(n.kids[j], x[2])]
      at(w, v) == {x \in DOMAIN w : w[x] = v}
  IN CASE n.op \in {"true", "false"} -> bit(n.op = "true")
       [] n.op = "strict" ->
            IF has("E") \/ (n.own # "none" /\ FailsOf(n, e, ts)) THEN "E"
            ELSE bit(ApplyOf(n, e, ts))
       [] n.op = "not" -> IF has("E") THEN "E" ELSE bit(vs[1] = "F")
       [] n.op = "equal" -> IF has("E") THEN "E" ELSE bit(vs[1] = vs[2])
       [] n.op = "and" -> IF has("F") THEN "F" ELSE IF has("E") THEN "E" ELSE "T"
       [] n.op = "or" -> IF has("T") THEN "T" ELSE IF has("E") THEN "E" ELSE "F"
       [] n.op = "conditional" ->
            IF vs[1] = "E" THEN "E" ELSE IF vs[1] = "T" THEN vs[2] ELSE vs[3]
       [] OTHER ->
            LET w == elems(2) IN
            IF vs[1] = "E" THEN "E"
            ELSE CASE n.op = "all" -> IF at(w, "F") # {} THEN "F"
                                      ELSE IF at(w, "E") # {} THEN "E" ELSE "T"
                   [] n.op = "exists" -> IF at(w, "T") # {} THEN "T"
                                         ELSE IF at(w, "E") # {} THEN "E" ELSE "F"
                   [] OTHER ->
                        IF at(w, "E") # {} THEN "E"
                        ELSE CASE n.op = "exists_one" -> bit(Cardinality(at(w, "T")) = 1)
                               [] n.op = "mapIf" ->
                                    LET u == elems(3) \* only of elements that pass
                                    IN  IF at(u, "E") \cap at(w, "T") # {} THEN "E"
                                        ELSE bit(at(u, "T") \cap at(w, "T") # {})
                               [] OTHER -> bit(at(w, "T") # {})

Where(P, E, v) == [x \in DOMAIN P |-> LET t == P[x] IN {e \in E : Value(t, e) = v}]
=============================================================================
