------------------------------ MODULE CelPaths ------------------------------
(***************************************************************************)
(* What a custom rule says about descriptors: the plugin collects the      *)
(* paths of a rule (celtolean/exports.go), resolves them against the       *)
(* descriptors (leanvalidate/pathattrs.go), and the translator looks the   *)
(* answers up again when it meets the values (celtolean/translate.go,      *)
(* functions.go).  The two walks keep scopes of their own.  The names the  *)
(* translation is written with are followed too, to see what they denote.  *)
(*                                                                         *)
(* A path is the sequence of its components; the code spells it as a       *)
(* string, with `[]` for an iterated element (a map's key) and `[*]` for   *)
(* an indexed one (a map's value).  A name is <<"x", 0>> for x and         *)
(* <<"x", 1>> for x_1.                                                     *)
(***************************************************************************)
EXTENDS FieldTypes, FiniteSets, FiniteSetsExt

CONSTANTS
  FieldsOf,  \* FieldsOf[m], the fields of message m with their types
  Depth      \* how deep expressions are nested

Path == Seq(Words)
NoPath == <<Nowhere>>
Descents == {Iterated, Indexed}

\* The fields of a message are finitely many, and called by identifiers.
Field == STRING \ (Descents \cup {Nowhere})
ASSUME DescriptorAssumption ==
  /\ Depth \in Nat
  /\ \A m \in DOMAIN FieldsOf :
       /\ IsFiniteSet(DOMAIN FieldsOf[m]) /\ DOMAIN FieldsOf[m] \subseteq Field
       /\ \A f \in DOMAIN FieldsOf[m] : FieldsOf[m][f] \in Type
FieldsIn(t) ==
  IF Kind(t) = "message" /\ Word(t, 2) \in DOMAIN FieldsOf THEN FieldsOf[Word(t, 2)] ELSE <<>>

\* Expressions.  A test compares a value with a literal; a conditional
\* chooses between two values; all, filter and map bind a variable, which
\* is not called `this`.
Name == STRING \X Nat
ThisName == <<"this", 0>>
Ident(n) == [op |-> "ident", name |-> n]
This == Ident(ThisName)
Select(e, f) == [op |-> "select", of |-> e, field |-> f]
Index(e) == [op |-> "index", of |-> e]
Has(e, f) == [op |-> "has", of |-> Select(e, f)]
Test(e) == [op |-> "test", of |-> e]
Macro(fn, e, v, body) == [op |-> fn, of |-> e, var |-> v, body |-> body]
Pair(op, l, r) == [op |-> op, of |-> l, other |-> r]

Macros == {"all", "filter", "map"}
Pairs == {"and", "conditional"}

Variable == Name \ {ThisName}
Idle == [op : {"ident"}, name : Name]
Selects(T) == [op : {"select"}, of : T, field : Field]
Grown(T) ==
  Idle \cup Selects(T) \cup [op : {"index", "test"}, of : T] \cup [op : {"has"}, of : Selects(T)]
    \cup [op : Macros, of : T, var : Variable, body : T] \cup [op : Pairs, of : T, other : T]
Nested == LET upTo[d \in Nat] == IF d = 0 THEN Idle ELSE LET T == upTo[d - 1] IN Grown(T) IN upTo
Expr == Nested[Depth]

Idents[e \in Expr] ==
  CASE e.op = "ident" -> {e.name}
    [] e.op \in Macros -> {e.var} \cup Idents[e.of] \cup Idents[e.body]
    [] e.op \in Pairs -> Idents[e.of] \cup Idents[e.other]
    [] e.op = "has" -> Idents[e.of.of]
    [] OTHER -> Idents[e.of]

-----------------------------------------------------------------------------
(* Collecting paths.  An environment holds the variables whose path is     *)
(* known to it, each with its path.                                        *)

Extend(p, comp) == IF p = NoPath THEN NoPath ELSE Append(p, comp)
IterElem(p) == Extend(p, Iterated)
IndexElem(p) == Extend(p, Indexed)

Envs == SUBSET (Variable \X Path)
PathIn(env, n) ==
  IF \E b \in env : b[1] = n THEN (CHOOSE b \in env : b[1] = n)[2]
  ELSE IF n = ThisName THEN <<>> ELSE NoPath

CelPath(env) ==
  LET path[e \in Expr] ==
        CASE e.op = "ident" -> PathIn(env, e.name)
          [] e.op = "select" -> Extend(path[e.of], e.field)
          [] e.op = "index" -> IndexElem(path[e.of])
          [] OTHER -> NoPath
  IN  path

Others(env, v) == {b \in env : b[1] # v}

\* Mutant: a variable over a value without a path keeps its outer path.
InnerEnvKeeps(env, v, elem) == IF elem = NoPath THEN env ELSE Others(env, v) \cup {<<v, elem>>}

InnerEnv(env, v, elem) == Others(env, v) \cup (IF elem = NoPath THEN {} ELSE {<<v, elem>>})

SelectPaths[e \in Expr] ==
  [env \in Envs |->
     LET elem == IterElem(CelPath(env)[e.of])
     IN CASE e.op = "ident" -> {}
          [] e.op \in {"select", "index"} -> ({CelPath(env)[e]} \ {NoPath}) \cup SelectPaths[e.of][env]
          [] e.op \in Macros ->
               SelectPaths[e.of][env] \cup ({elem} \ {NoPath})
                 \cup SelectPaths[e.body][InnerEnv(env, e.var, elem)]
          [] e.op \in Pairs -> SelectPaths[e.of][env] \cup SelectPaths[e.other][env]
          [] e.op = "has" -> ({CelPath(env)[e.of]} \ {NoPath}) \cup SelectPaths[e.of.of][env]
          [] OTHER -> SelectPaths[e.of][env]]

-----------------------------------------------------------------------------
(* Resolving paths.  Attributes are given as a function on paths.          *)

AttrOf(t) ==
  CASE Kind(t) = "enum" -> "enumInt" [] Kind(t) = "map" -> "mapSelect"
    [] Kind(t) \in Numeric -> Kind(t) [] OTHER -> "none"

\* Mutant: iterating over a map gives its values.
StepToValue(node, comp) ==
  CASE Kind(node) = "list" /\ comp \in Descents -> ElemOf(node)
    [] Kind(node) = "map" -> ElemOf(node)
    [] comp \in DOMAIN FieldsIn(node) -> FieldsIn(node)[comp]
    [] OTHER -> NoType

\* The type of the value that component comp of a path denotes.  Below what
\* is not a container nothing has a type.
StepType(node, comp) ==
  CASE Kind(node) = "list" /\ comp \in Descents -> ElemOf(node)
    [] Kind(node) = "map" -> IF comp = Iterated THEN KeyOf(node) ELSE ElemOf(node)
    [] comp \in DOMAIN FieldsIn(node) -> FieldsIn(node)[comp]
    [] OTHER -> NoType

\* The types of the values on the way along a path.
TypesAlong(path, start) ==
  LET type[i \in Nat] == IF i = 0 THEN start ELSE StepType(type[i - 1], Word(path, i))
  IN  type

Marked(attr, last) == attr # "none" /\ (last \/ attr = "mapSelect")
SelectsThroughEnum == "selects through an enum"

WalkPath(path, start) ==
  LET type == TypesAlong(path, start)
      Opens(i) == Kind(type[i]) = "enum" /\ i < Len(path)
  IN {<<SubSeq(path, 1, i), IF Opens(i) THEN SelectsThroughEnum ELSE AttrOf(type[i])>> :
        i \in {j \in 1 .. Len(path) : Opens(j) \/ Marked(AttrOf(type[j]), j = Len(path))}}

ResolvePaths(paths, start) == UNION {WalkPath(p, start) : p \in paths}

PathAttrsForField(t, e) ==
  LET paths == SelectPaths[e][{}]
  IN CASE Kind(t) = "map" -> ResolvePaths(paths, t) \cup {<<<<>>, "mapSelect">>}
       [] Kind(t) \in {"list", "message"} -> ResolvePaths(paths, t)
       [] Kind(t) = "enum" -> {<<<<>>, IF paths # {} THEN SelectsThroughEnum ELSE "enumInt">>}
       [] Kind(t) \in Numeric -> {<<<<>>, Kind(t)>>}
       [] OTHER -> {}

PathAttrsForMessage(t, e) == ResolvePaths(SelectPaths[e][{}], t)

AttrAt(attrs, path) ==
  IF path # NoPath /\ \E a \in attrs : a[1] = path
  THEN (CHOOSE a \in attrs : a[1] = path)[2] ELSE "none"

-----------------------------------------------------------------------------
(* Translating.  scope lists the comprehensions around an expression: the  *)
(* CEL variable, the Lean name emitted for it, the path of the elements    *)
(* and, for reference, their type.                                         *)

Scopes == Seq([var : Variable, path : Path, type : Type, lean : Name])

Last(S) == IF S = {} THEN 0 ELSE Max(S)
BoundAt(scope, n) == Last({i \in DOMAIN scope : scope[i].var = n})
LeanAt(scope, n) == Last({i \in DOMAIN scope : scope[i].lean = n})

BindingPaths(scope) ==
  {<<scope[i].var, scope[i].path>> :
     i \in {j \in DOMAIN scope : BoundAt(scope, scope[j].var) = j /\ scope[j].path # NoPath}}
PathOf(e, scope) == CelPath(BindingPaths(scope))[e]

FreshName(base, used) ==
  IF base \notin used THEN base
  ELSE <<base[1], Min({i \in 1 .. Cardinality(used) + 1 : <<base[1], i>> \notin used})>>

\* A subject is a binder, renamed away from the names of the rule, or a
\* projection of one, whose name is kept.
VarRoot(subject, e) == IF subject.dotted THEN subject.name ELSE FreshName(subject.name, Idents[e])

\* Mutant: a comprehension may take the name that stands for `this`.
EmittedAsIs(v, root, used) == v

\* used gathers the names of the rule and of the comprehensions around (the
\* code keeps those of finished comprehensions too).
Emitted(v, root, used) == IF v = root THEN FreshName(v, used) ELSE v

\* The type CEL gives an expression, where `this` has the type this.
ElemType(t) == CASE Kind(t) = "list" -> ElemOf(t) [] Kind(t) = "map" -> KeyOf(t) [] OTHER -> NoType
Typed(scope, v, t) == Append(scope, [var |-> v, path |-> NoPath, type |-> ElemType(t), lean |-> v])

TypeOf(this) ==
  LET type[e \in Expr] ==
        [scope \in Scopes |->
           LET i == BoundAt(scope, e.name)
               t == type[e.of][scope]
           IN CASE e.op = "ident" -> IF i # 0 THEN scope[i].type ELSE IF e = This THEN this ELSE NoType
                [] e.op = "select" -> IF Kind(t) \in {"message", "map"} THEN StepType(t, e.field) ELSE NoType
                [] e.op = "index" -> IF Kind(t) \in {"list", "map"} THEN ElemOf(t) ELSE NoType
                [] e.op \in {"filter", "conditional"} -> t
                [] e.op = "map" -> List(type[e.body][Typed(scope, e.var, t)])
                [] OTHER -> Scalar("bool")]
  IN  type

Binding(e, scope, this, ctx) ==
  [var |-> e.var, path |-> IterElem(PathOf(e.of, scope)),
   type |-> ElemType(TypeOf(this)[e.of][scope]),
   lean |-> Emitted(e.var, ctx.root, ctx.used \cup {scope[i].lean : i \in DOMAIN scope})]

\* The types of what an expression selects from, indexes or iterates over.
Opened(this) ==
  LET opened[e \in Expr] ==
        [scope \in Scopes |->
           LET t == TypeOf(this)[e.of][scope]
           IN CASE e.op = "ident" -> {}
                [] e.op \in Pairs -> opened[e.of][scope] \cup opened[e.other][scope]
                [] e.op = "test" -> opened[e.of][scope]
                [] e.op = "has" -> {TypeOf(this)[e.of.of][scope]} \cup opened[e.of.of][scope]
                [] e.op \in Macros -> {t} \cup opened[e.of][scope] \cup opened[e.body][Typed(scope, e.var, t)]
                [] OTHER -> {t} \cup opened[e.of][scope]]
  IN  opened

\* The values in a rule: the path each is looked up at, its type, and the
\* comprehension that binds it in CEL, in the Lean text and in the text over
\* the base message (0 for `this`).  A message rule writes the fields of
\* `this` as the fields of the structure, or as projections of base, and is
\* refused when it selects what is no field.
Value(e, scope, this, cel, lean, base) ==
  [path |-> PathOf(e, scope), type |-> TypeOf(this)[e][scope], cel |-> cel, lean |-> lean, base |-> base]

IdentValues(e, scope, this, ctx) ==
  LET i == BoundAt(scope, e.name)
      bound == LeanAt(scope, IF i = 0 THEN e.name ELSE scope[i].lean)
      rooted == LeanAt(scope, ctx.root)
  IN IF e # This THEN {Value(e, scope, this, i, bound, bound)}
     ELSE IF ctx.message THEN {} ELSE {Value(e, scope, this, i, rooted, rooted)}

FieldValues(e, scope, this, ctx) ==
  IF e.field \in ctx.fields
  THEN {Value(e, scope, this, 0, LeanAt(scope, <<e.field, 0>>), LeanAt(scope, ctx.base))} ELSE {}

Values(this, ctx) ==
  LET values[e \in Expr] ==
        [scope \in Scopes |->
           CASE e.op = "ident" -> IdentValues(e, scope, this, ctx)
             [] e.op = "select" ->
                  IF e.of = This /\ ctx.message THEN FieldValues(e, scope, this, ctx)
                  ELSE {Value(e, scope, this, 0, 0, 0)} \cup values[e.of][scope]
             [] e.op \in Macros ->
                  values[e.of][scope] \cup values[e.body][Append(scope, Binding(e, scope, this, ctx))]
             [] e.op \in Pairs -> values[e.of][scope] \cup values[e.other][scope]
             [] e.op = "has" -> values[e.of.of][scope]
             [] e.op = "test" -> values[e.of][scope]
             [] OTHER -> {Value(e, scope, this, 0, 0, 0)} \cup values[e.of][scope]]
  IN  values
=============================================================================
