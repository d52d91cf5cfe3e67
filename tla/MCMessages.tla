----------------------------- MODULE MCMessages -----------------------------
(* Three message types: Leaf with a plain field, a oneof and a message     *)
(* rule; Node with an embedded leaf, a leaf under rules of its own, a list *)
(* of leaves and a required scalar; Tree with a oneof over nodes.  Every   *)
(* combination of zero values, satisfied rules and unset units of a leaf,  *)
(* and the nodes over a sample of leaves.                                  *)
EXTENDS Integers, SequencesExt

CONSTANTS Leaf, Node, Tree, none, id, kind, a, b, child, base, items, count, pick,
          required, r1, r2, m1

Field(name, shape, req, rules, ignoreZero, nested) ==
  [name |-> name, shape |-> shape, required |-> req,
   members |-> <<[name |-> name, rules |-> rules, ignoreZero |-> ignoreZero,
                  nested |-> nested]>>]
Case(name, rules, nested) ==
  [name |-> name, rules |-> rules, ignoreZero |-> FALSE, nested |-> nested]

MCFieldUnits ==
  (Leaf :> <<Field(id, "plain", FALSE, <<r1, r2>>, TRUE, FALSE)>>
   @@ Node :> <<Field(child, "option", TRUE, <<>>, FALSE, TRUE),
                Field(base, "option", FALSE, <<r1>>, FALSE, TRUE),
                Field(items, "list", FALSE, <<r2>>, FALSE, TRUE),
                Field(count, "plain", TRUE, <<r1>>, TRUE, FALSE)>>
   @@ Tree :> <<>>)
MCOneofUnits ==
  (Leaf :> <<[name |-> kind, shape |-> "oneof", required |-> TRUE,
              members |-> <<Case(a, <<r1>>, FALSE), Case(b, <<>>, FALSE)>>]>>
   @@ Node :> <<>>
   @@ Tree :> <<[name |-> pick, shape |-> "oneof", required |-> FALSE,
                 members |-> <<Case(a, <<>>, TRUE), Case(b, <<r1>>, TRUE)>>]>>)
MCMessageRules == (Leaf :> <<m1>> @@ Node :> <<>> @@ Tree :> <<m1>>)

Has(set, member, zero, holds, parts) ==
  [set |-> set, member |-> member, zero |-> zero, parts |-> parts,
   holds |-> IF zero THEN holds ELSE holds \cup {required}]
Unset == Has(FALSE, 1, TRUE, {}, <<>>)
Given(member, holds, parts) == Has(TRUE, member, FALSE, holds, parts)

Msg(t, contents) == [type |-> t, contents |-> contents]
LeafMsg(u, o, holds) == Msg(Leaf, <<u, o, Given(1, holds, <<>>)>>)
Leaves ==
  {LeafMsg(Has(TRUE, 1, z, h, <<>>), o, mr) :
     z \in BOOLEAN, h \in SUBSET {r1, r2}, mr \in SUBSET {m1},
     o \in {Unset, Given(1, {}, <<>>), Given(1, {r1}, <<>>), Given(2, {}, <<>>)}}

Fine == LeafMsg(Has(TRUE, 1, TRUE, {}, <<>>), Given(2, {}, <<>>), {m1})
BadId == LeafMsg(Given(1, {r1}, <<>>), Given(1, {}, <<>>), {m1})
BadKind == LeafMsg(Has(TRUE, 1, TRUE, {}, <<>>), Unset, {})
Sample == {Fine, BadId, BadKind}

Lists == {<<>>} \cup {<<l>> : l \in Sample} \cup {<<l, k>> : l, k \in Sample}
Nodes ==
  {Msg(Node, <<c, d, Has(TRUE, 1, l = <<>>, h, l), n, Given(1, {}, <<>>)>>) :
     c \in {Unset} \cup {Given(1, {}, <<l>>) : l \in Sample},
     d \in {Unset} \cup {Given(1, h, <<BadKind>>) : h \in SUBSET {r1}},
     l \in Lists, h \in SUBSET {r2},
     n \in {Has(TRUE, 1, z, h, <<>>) : z \in BOOLEAN, h \in SUBSET {r1}}}
NodeOf(c) ==
  Msg(Node, <<Given(1, {}, <<c>>), Unset, Has(TRUE, 1, TRUE, {r2}, <<>>),
              Given(1, {r1}, <<>>), Given(1, {}, <<>>)>>)
Trees ==
  {Msg(Tree, <<o, Given(1, mr, <<>>)>>) :
     mr \in SUBSET {m1},
     o \in {Unset} \cup {Given(k, h, <<NodeOf(c)>>) :
             k \in {1, 2}, h \in SUBSET {r1}, c \in Sample}}

MCMessage == Leaves \cup {NodeOf(c) : c \in Sample} \cup Nodes \cup Trees
MCTypeOf == [m \in MCMessage |-> m.type]
MCContents == [m \in MCMessage |-> m.contents]

\* Where a message fails, as one number: 100 per unit, then an unset unit,
\* the parts from 1, the rules from 10.
UnitsOf(t) ==
  MCFieldUnits[t] \o MCOneofUnits[t]
    \o <<Field(none, "message", FALSE, MCMessageRules[t], FALSE, FALSE)>>
Fails(m, valid) ==
  UNION {LET unit == UnitsOf(m.type)[u]
             c == m.contents[u]
             case == unit.members[c.member]
             deep == case.nested /\ (unit.shape = "list" \/ case.rules = <<>>)
         IN IF ~c.set THEN {100 * u : x \in {TRUE} \cap {unit.required}}
            ELSE {100 * u + i : i \in {j \in DOMAIN c.parts : deep /\ c.parts[j] \notin valid}}
                   \cup {100 * u + 10 : x \in {z \in {unit.shape} \cap {"plain", "list"} :
                            unit.required /\ c.zero /\ ~case.ignoreZero}}
                   \cup {100 * u + 10 + i : i \in {j \in DOMAIN case.rules :
                            case.rules[j] \notin c.holds /\ ~(case.ignoreZero /\ c.zero)}} :
         u \in DOMAIN m.contents}

Fault(path, rule) == [verdict |-> "violation", path |-> path, rule |-> rule]
Report(m, valid, reports) ==
  LET at == Min(Fails(m, valid))
      unit == UnitsOf(m.type)[at \div 100]
      c == m.contents[at \div 100]
      case == unit.members[c.member]
      i == at % 100
  IN IF i = 0 THEN Fault(unit.name, required)
     ELSE IF i < 10 THEN reports[c.parts[i]]
     ELSE Fault(case.name, IF i = 10 THEN required ELSE case.rules[i - 10])

\* Leaves, then nodes, then trees.
Level0 == Leaves
Valid0 == {m \in Level0 : Fails(m, {}) = {}}
Report0 == [m \in Level0 \ Valid0 |-> Report(m, {}, <<>>)]
Level1 == Nodes \cup {NodeOf(c) : c \in Sample}
Valid1 == {m \in Level1 : Fails(m, Valid0) = {}}
Report1 == [m \in Level1 \ Valid1 |-> Report(m, Valid0, Report0)]
Valid2 == {m \in Trees : Fails(m, Valid1) = {}}
Report2 == [m \in Trees \ Valid2 |-> Report(m, Valid1, Report1)]

MCValid == Valid0 \cup Valid1 \cup Valid2
MCViolationOf == Report0 @@ Report1 @@ Report2
=============================================================================
