----------------------------- MODULE RuleViews -----------------------------
(***************************************************************************)
(* FieldRules with the path resolution of CelPaths in place: what the      *)
(* generated text of a lowered rule says about each of its values.         *)
(***************************************************************************)
EXTENDS FieldRules, CelPaths

\* The attributes of a rule, or an error.
Resolution(a) == [ok |-> \A x \in a : x[2] # SelectsThroughEnum, attrs |-> a]
FieldAttrs(d, n) == Resolution(PathAttrsForField(d.type, d.cel[n]))
MessageAttrs(d, n) == Resolution(PathAttrsForMessage(d.type, d.cel[n]))
ResolvedAttrs(d, n) == IF d.target = "message" THEN MessageAttrs(d, n) ELSE FieldAttrs(d, n)

\* Mutant: the name of the base value dodges the fields only.
BaseNameDodgesFields(d) == FreshName(<<"b", 0>>, {<<f, 0>> : f \in DOMAIN FieldsIn(d.type)})

\* The name of the base value dodges the fields of the message and every
\* name in its rules (and in those of its fields, which d does not hold).
BaseName(d) ==
  FreshName(<<"b", 0>>,
            {<<f, 0>> : f \in DOMAIN FieldsIn(d.type)} \cup UNION {Idents[d.cel[i]] : i \in 1 .. Len(d.cel)})

Context(d, n) ==
  [message |-> d.target = "message", fields |-> DOMAIN FieldsIn(d.type), base |-> BaseName(d),
   used |-> Idents[d.cel[n]], root |-> VarRoot(d.subject, d.cel[n])]

\* Rules are expressions, a message rule is on a message and has the default
\* subject, and FieldRules gets its attributes from here.
ASSUME RuleAssumption ==
  \A d \in Decls :
    /\ d.type \in Type /\ d.subject.name \in Name
    /\ d.target = "message" =>
         Kind(d.type) = "message" /\ d.subject = [dotted |-> FALSE, name |-> <<"x", 0>>]
    /\ \A n \in 1 .. Len(d.cel) : d.cel[n] \in Expr /\ PathAttrs(d, n) = ResolvedAttrs(d, n)

\* The text over the base message also names the hypotheses of a message's
\* other rules, as proofs.  A variable bound to data cannot stand for one, so
\* these names are left out.
ValuesIn(n) == Values(decl.type, Context(decl, n))[decl.cel[n]][<<>>]
LoweredValues == UNION {{<<n, x>> : x \in ValuesIn(n)} : n \in 1 .. next - 1}

-----------------------------------------------------------------------------
\* Every value the translator can place is looked up with the attribute of
\* its type: an enum gets its integer view, a map guarded indexing, a number
\* the domain its literals are checked against.  The walk that collected the
\* path and the walk that looks it up keep scopes of their own.
ViewsAsDeclared ==
  \A nx \in LoweredValues :
    nx[2].path # NoPath => AttrAt(attrs[nx[1]], nx[2].path) = AttrOf(nx[2].type)

\* Generation fails over a path only when the rule really selects through an
\* enum, whatever names its comprehensions reuse.
RejectsOnlyEnumSelects ==
  phase = "bad path" => \E t \in Opened(decl.type)[decl.cel[next]][<<>>] : Kind(t) = "enum"

\* In a field rule each value is bound in the Lean text where CEL binds it.
BindersDenote ==
  decl.target = "field" => \A nx \in LoweredValues : nx[2].lean = nx[2].cel

\* A message rule is decided and proved over the base message, and in that
\* text too every value is bound where CEL binds it.  (In its text over the
\* fields of the structure a comprehension may capture a field; the two then
\* differ, and the generated proof does not elaborate.)
BaseTextDenotes ==
  decl.target = "message" => \A nx \in LoweredValues : nx[2].base = nx[2].cel
=============================================================================
