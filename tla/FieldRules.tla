----------------------------- MODULE FieldRules -----------------------------
(***************************************************************************)
(* From the declared rules of a field to the generated checks:             *)
(* lowerFieldRules lowers the standard rules and then one custom rule      *)
(* after another, the renderer passes every pattern through the gate, and  *)
(* the Lean build of the generated file checks the patterns again.  The    *)
(* rules of a message are custom rules only.                               *)
(*                                                                         *)
(* A declaration is the type of a field with its rules; re2 is what RE2    *)
(* says of its patterns.                                                   *)
(***************************************************************************)
EXTENDS StandardRules, RegexGrammar

CONSTANTS Decls,
          ValuesOf(_),      \* the values a declaration is tried on
          PathAttrs(_, _)   \* pathattrs.go: of a custom rule, [ok, attrs]

\* A message holds each rule at most once.
AtMostOne(S) == S = {} \/ \E x \in S : S = {x}

\* Protobuf's timestamps and durations: the nanoseconds stay below a second
\* and on the side of zero on which the seconds are.
ProperTime(t) ==
  /\ t \in Int \X Int
  /\ -Second < t[2] /\ t[2] < Second
  /\ t[1] > 0 => t[2] >= 0
  /\ t[1] < 0 => t[2] <= 0

ProperRange(r) == AtMostOne(r.lt) /\ AtMostOne(r.gt)
ProperLeaf(r) ==
  /\ r.kind = "numeric" => ProperRange(r) /\ \A l \in r.lt \cup r.gt : l[2] \in Numbers
  /\ r.kind \in {"timestamp", "duration"} => ProperRange(r) /\ \A l \in r.lt \cup r.gt : ProperTime(l[2])
  /\ r.kind = "string" => r.pattern \subseteq Seq(STRING)

Elements(r) == CASE r.kind = "list" -> r.items [] r.kind = "map" -> r.keys \cup r.values [] OTHER -> {}

ASSUME DeclAssumption ==
  \A d \in Decls :
    /\ Len(d.cel) \in Nat /\ d.required \in BOOLEAN
    /\ ProperLeaf(d.std)
    /\ \A e \in Elements(d.std) : ProperLeaf(e.std)

VARIABLES decl, phase,
          set,    \* fieldRuleSet
          next,   \* the custom rule to lower
          attrs   \* the attributes of the custom rules lowered so far
vars == <<decl, phase, set, next, attrs>>

Rejections == {"bad standard rule", "bad path", "bad pattern"}
Phases == {"standard", "custom", "rendering", "generated", "built", "refused"} \cup Rejections

TypeOK ==
  /\ phase \in Phases
  /\ next \in 1 .. Len(decl.cel) + 1
  /\ Len(attrs) = next - 1
  /\ set.required \in BOOLEAN /\ set.ignoreZero \in BOOLEAN
  /\ \A r \in set.rules : r.over \in {"this", "elems", "keys", "values"}

NoRules == [rules |-> {}, required |-> FALSE, ignoreZero |-> FALSE]

Init ==
  /\ decl \in Decls
  /\ phase = "standard"
  /\ set = NoRules
  /\ next = 1
  /\ attrs = <<>>

IgnoreField ==
  /\ phase = "standard" /\ decl.ignore = "always"
  /\ phase' = "rendering"
  /\ UNCHANGED <<decl, set, next, attrs>>

LowerStandardRules ==
  /\ phase = "standard" /\ decl.ignore # "always"
  /\ IF StandardFails(decl.std, decl.type, decl.re2)
     THEN phase' = "bad standard rule" /\ UNCHANGED set
     ELSE /\ phase' = "custom"
          /\ set' = [rules |-> LowerStandard(decl.std), required |-> decl.required,
                     ignoreZero |-> decl.ignore = "if zero"]
  /\ UNCHANGED <<decl, next, attrs>>

\* Mutant: a custom rule is lowered again and again.
LowerCustomRuleAgain ==
  /\ phase = "custom" /\ next <= Len(decl.cel)
  /\ LET a == PathAttrs(decl, next)
     IN IF a.ok
        THEN /\ set' = [set EXCEPT !.rules = @ \cup {Custom(next)}]
             /\ attrs' = Append(attrs, a.attrs)
             /\ UNCHANGED <<next, phase>>
        ELSE phase' = "bad path" /\ UNCHANGED <<set, next, attrs>>
  /\ UNCHANGED decl

LowerCustomRule ==
  /\ phase = "custom" /\ next <= Len(decl.cel)
  /\ LET a == PathAttrs(decl, next)
     IN IF a.ok
        THEN /\ set' = [set EXCEPT !.rules = @ \cup {Custom(next)}]
             /\ attrs' = Append(attrs, a.attrs)
             /\ next' = next + 1
             /\ UNCHANGED phase
        ELSE phase' = "bad path" /\ UNCHANGED <<set, next, attrs>>
  /\ UNCHANGED decl

CustomRulesDone ==
  /\ phase = "custom" /\ next > Len(decl.cel)
  /\ phase' = "rendering"
  /\ UNCHANGED <<decl, set, next, attrs>>

\* The patterns that a check puts into the Lean text.
Patterns(r) ==
  LET plain == IF r.over = "this" THEN {r} ELSE r.inner
  IN {a[3] : a \in {x \in UNION {c.atoms : c \in plain} : x[1] = "matches"}}
AllPatterns == UNION {Patterns(r) : r \in set.rules}

Render ==
  /\ phase = "rendering"
  /\ phase' = IF \A p \in AllPatterns : decl.re2 /\ RegexAccepted(p) THEN "generated" ELSE "bad pattern"
  /\ UNCHANGED <<decl, set, next, attrs>>

Build ==
  /\ phase = "generated"
  /\ phase' = IF \A p \in AllPatterns : ParserAccepts(p) THEN "built" ELSE "refused"
  /\ UNCHANGED <<decl, set, next, attrs>>

Next == IgnoreField \/ LowerStandardRules \/ LowerCustomRule \/ CustomRulesDone \/ Render \/ Build
Spec == Init /\ [][Next]_vars

-----------------------------------------------------------------------------
(* What the rules mean.                                                    *)

\* protovalidate's rule for two bounds: the value is between them, or outside
\* when the lower bound is above the upper one.  Equal bounds leave what is
\* between them (for <= and >=, that one value); the lowering differs there.
Meets(l, v) == \E x \in v.self : Compare(l[1], x, l[2])
MeansRange(lt, gt, v) ==
  /\ lt = {} \/ gt = {} => \A l \in lt \cup gt : Meets(l, v)
  /\ \A l \in lt, g \in gt :
       IF g[2] <= l[2] THEN Meets(l, v) /\ Meets(g, v) ELSE Meets(l, v) \/ Meets(g, v)
MeansConst(S, v) == S \subseteq v.self
MeansIn(in, v) == in = {} \/ in \cap v.self # {}
MeansNotIn(notIn, v) == notIn \cap v.self = {}

MeansNumeric(r, v) ==
  /\ MeansConst(r.const, v) /\ MeansIn(r.in, v) /\ MeansNotIn(r.notIn, v)
  /\ MeansRange(r.lt, r.gt, v)
  /\ r.finite => 1 \notin v.nan /\ 1 \notin v.inf
MeansTimeRange(r, v) ==
  MeansConst({Nanos(t) : t \in r.const}, v) /\ MeansRange(AtNanos(r.lt), AtNanos(r.gt), v)
MeansDuration(r, v) ==
  /\ MeansTimeRange(r, v)
  /\ MeansIn({Nanos(t) : t \in r.in}, v) /\ MeansNotIn({Nanos(t) : t \in r.notIn}, v)

MeansSizes(r, v) ==
  /\ \A n \in r.len : n \in v.size
  /\ \A n \in r.minLen : \E s \in v.size : s >= n
  /\ \A n \in r.maxLen : \E s \in v.size : s <= n
MeansParts(r, v) == r.prefix \subseteq v.prefix /\ r.suffix \subseteq v.suffix /\ r.contains \subseteq v.contains
MeansString(r, v) ==
  /\ MeansConst(r.const, v) /\ MeansIn(r.in, v) /\ MeansNotIn(r.notIn, v)
  /\ MeansSizes(r, v) /\ MeansParts(r, v)
  /\ \A n \in r.lenBytes : n \in v.bytes
  /\ \A n \in r.minBytes : \E s \in v.bytes : s >= n
  /\ \A n \in r.maxBytes : \E s \in v.bytes : s <= n
  /\ r.pattern \subseteq v.matches
  /\ r.notContains \cap v.contains = {}
  /\ \A n \in r.wellKnown :
       IF n = "address" THEN {"hostname", "ip"} \cap v.format # {} ELSE n \in v.format
MeansBytes(r, v) ==
  /\ MeansConst(r.const, v) /\ MeansIn(r.in, v) /\ MeansNotIn(r.notIn, v)
  /\ MeansSizes(r, v) /\ MeansParts(r, v)
MeansEnum(r, v) ==
  /\ MeansConst(r.const, v) /\ MeansIn(r.in, v) /\ MeansNotIn(r.notIn, v)
  /\ r.definedOnly => 1 \notin v.unknown

MeansLeaf(r, v) ==
  CASE r.kind = "numeric" -> MeansNumeric(r, v)
    [] r.kind = "timestamp" -> MeansTimeRange(r, v)
    [] r.kind = "duration" -> MeansDuration(r, v)
    [] r.kind = "string" -> MeansString(r, v)
    [] r.kind = "bytes" -> MeansBytes(r, v)
    [] r.kind = "bool" -> MeansConst(r.const, v)
    [] r.kind = "enum" -> MeansEnum(r, v)
    [] OTHER -> TRUE

Excused(x, v) == x.ignore = "always" \/ (x.ignore = "if zero" /\ 1 \in v.zero)
MeansElement(e, w) == Excused(e, w) \/ (MeansLeaf(e.std, w) /\ e.cel \subseteq w.cel)
MeansEach(E, W) == \A e \in E, w \in W : MeansElement(e, w)
MeansCount(least, most, v) ==
  /\ \A n \in least : \E s \in v.size : s >= n
  /\ \A n \in most : \E s \in v.size : s <= n
MeansStandard(r, v) ==
  CASE r.kind = "list" -> /\ MeansCount(r.minItems, r.maxItems, v) /\ MeansEach(r.items, v.elems)
                          /\ r.unique => 1 \in v.unique
    [] r.kind = "map" -> /\ MeansCount(r.minPairs, r.maxPairs, v)
                         /\ MeansEach(r.keys, v.keys) /\ MeansEach(r.values, v.values)
    [] OTHER -> MeansLeaf(r, v)

Declared(d, v) ==
  Excused(d, v) \/ (MeansStandard(d.std, v) /\ \A n \in 1 .. Len(d.cel) : n \in v.cel)

\* What the generated field accepts: renderProps with its zero escape.
Accepted(s, v) == (s.ignoreZero /\ 1 \in v.zero) \/ \A r \in s.rules : CheckHolds(r, v)

-----------------------------------------------------------------------------
(* Bounds that the lowering takes to be equal: those that are, and         *)
(* neighbouring 64-bit integers, which become equal as float64.            *)

LeafTouches(r) ==
  /\ r.kind \in {"numeric", "timestamp", "duration"}
  /\ \E l \in r.lt, g \in r.gt :
       \/ l[2] = g[2]
       \/ r.kind = "numeric" /\ r.rep = "int" /\ l[2] > g[2] /\ Round(l[2]) = Round(g[2])
Touches(r) == LeafTouches(r) \/ \E e \in Elements(r) : LeafTouches(e.std)
IgnoresElements(r) == \E e \in Elements(r) : e.ignore # "unspecified"

\* The generated type of a field has no value its declared rules refuse:
\* ranges, lists, elements and custom rules arrive with their meaning.  Two
\* bounds that the lowering takes to be equal are the exception.
AcceptsOnlyDeclared ==
  phase = "built" /\ ~Touches(decl.std) =>
    \A v \in ValuesOf(decl) : Accepted(set, v) => Declared(decl, v)

\* standard.go:601-602: bounds of a number exclude what lies between them
\* only when the upper one does not exceed the lower one.
OrderedBoundsEnclose ==
  phase = "built" /\ decl.std.kind = "numeric" =>
    \A v \in ValuesOf(decl), l \in decl.std.lt, g \in decl.std.gt :
      g[2] < l[2] /\ Accepted(set, v) => Meets(l, v) /\ Meets(g, v)

\* It has every value the declared rules accept, unless rules of elements
\* say what is to be ignored, which lowerItemRules does not look at.
AcceptsAllDeclared ==
  phase = "built" /\ ~IgnoresElements(decl.std) =>
    \A v \in ValuesOf(decl) : Declared(decl, v) => Accepted(set, v)

\* A pattern that passes the gate of the plugin is never refused by the
\* `#guard` of the generated file.
GateSound == phase # "refused"

\* Where the gate refuses what the runtime would accept, the pattern has one
\* of the forms the two engines are known to read differently.
GateExact ==
  phase = "bad pattern" =>
    ~decl.re2 \/ \E p \in AllPatterns : ReadDifferently(p) \/ ~ParserAccepts(p)
=============================================================================
