--------------------------- MODULE StandardRules ---------------------------
(***************************************************************************)
(* Lowering of the standard rules of a field (leanvalidate/standard.go)    *)
(* onto checks.                                                            *)
(*                                                                         *)
(* A value is seen through measures: v[m] is the set of what measure m     *)
(* observes in it (nothing, one thing as the size of a string does, or     *)
(* several, as its substrings).  NaN observes nothing under "self", so no  *)
(* comparison with it holds.  A lowered check is a possibly negated con-   *)
(* junction ("all") or disjunction ("any") of atoms, or such checks on     *)
(* every element, key or value.  Checks form a set: the order in which     *)
(* violations are reported is the subject of Validator.                    *)
(*                                                                         *)
(* A rule that may be absent is a set with at most one member.  A range    *)
(* bound is a pair of a symbol and a number, a time is a pair of seconds   *)
(* and nanoseconds.                                                        *)
(***************************************************************************)
EXTENDS FieldTypes, FiniteSets

CONSTANTS Numbers,       \* the numbers that rules name
          Round(_),      \* conversion of a 64-bit integer to float64
          Unprintable    \* float bounds whose text is no CEL literal

\* Rounding may identify numbers but keeps their order.
ASSUME RoundAssumption ==
  /\ Numbers \subseteq Int
  /\ \A x \in Numbers : Round(x) \in Int
  /\ \A x, y \in Numbers : x <= y => Round(x) <= Round(y)

Compare(op, x, b) ==
  \/ op = "=" /\ x = b
  \/ op = "<" /\ x < b
  \/ op = "<=" /\ x <= b
  \/ op = ">" /\ x > b
  \/ op = ">=" /\ x >= b

\* An atom is a measure, a comparison and a bound.
Atom(m, op, b) == <<m, op, b>>
AtomHolds(a, v) == \E x \in v[a[1]] : Compare(a[2], x, a[3])

Check(neg, join, atoms) == [over |-> "this", neg |-> neg, join |-> join, atoms |-> atoms]
PlainHolds(r, v) ==
  r.neg # (IF r.join = "all" THEN \A a \in r.atoms : AtomHolds(a, v)
                             ELSE \E a \in r.atoms : AtomHolds(a, v))

\* renderRule: a check on the value itself, or under a quantifier.
CheckHolds(r, v) ==
  IF r.over = "this" THEN PlainHolds(r, v)
  ELSE \A w \in v[r.over] : \A i \in r.inner : PlainHolds(i, w)

-----------------------------------------------------------------------------
(* Shapes the kinds of rules share.                                        *)

One(m, op, S) == {Check(FALSE, "all", {Atom(m, op, b)}) : b \in S}
Never(m) == Check(TRUE, "any", {Atom(m, "=", 1)})
ConstChecks(S) == One("self", "=", S)
InList(neg, S) == IF S = {} THEN {} ELSE {Check(neg, "any", {Atom("self", "=", b) : b \in S})}
InChecks(S) == InList(FALSE, S)
NotInChecks(S) == InList(TRUE, S)

\* Mutant: a range is always a conjunction.
RangeAlwaysInside(lt, gt, order) ==
  LET bounds == {Atom("self", l[1], l[2]) : l \in lt \cup gt}
  IN IF lt # {} /\ gt # {} THEN {Check(FALSE, "all", bounds)}
     ELSE {Check(FALSE, "all", {a}) : a \in bounds}

RangeChecks(lt, gt, order) ==
  LET bounds == {Atom("self", l[1], l[2]) : l \in lt \cup gt}
  IN IF lt # {} /\ gt # {} THEN {Check(FALSE, IF order > 0 THEN "all" ELSE "any", bounds)}
     ELSE {Check(FALSE, "all", {a}) : a \in bounds}

BoundIn(S) == (CHOOSE l \in S : TRUE)[2]
CmpFloat(l, g) == IF l > g THEN 1 ELSE IF l < g THEN -1 ELSE 0

-----------------------------------------------------------------------------
(* Numbers.  rep is "int", "uint" or "float".                              *)

NumericOrder(r) ==
  LET l == BoundIn(r.lt)
      g == BoundIn(r.gt)
  IN IF r.rep = "int" THEN CmpFloat(Round(l), Round(g)) ELSE CmpFloat(l, g)

LowerNumeric(r) ==
  ConstChecks(r.const) \cup RangeChecks(r.lt, r.gt, NumericOrder(r))
    \cup InChecks(r.in) \cup NotInChecks(r.notIn)
    \cup (IF r.finite THEN {Never("nan"), Never("inf")} ELSE {})

\* mustCelRules: the text of an infinite bound does not parse.
NumericFails(r) ==
  /\ r.rep = "float"
  /\ Unprintable \cap (r.const \cup r.in \cup r.notIn \cup {l[2] : l \in r.lt \cup r.gt}) # {}

-----------------------------------------------------------------------------
(* Timestamps and durations compare by their total nanoseconds in Lean;    *)
(* the order of a range is decided on the pairs.                           *)

Second == 1000000000
Nanos(t) == t[1] * Second + t[2]
AtNanos(S) == {<<l[1], Nanos(l[2])>> : l \in S}

\* Mutant: nanoseconds are not looked at.
CmpSeconds(s, t) == CmpFloat(s[1], t[1])

CmpSecNanos(s, t) ==
  IF s[1] < t[1] \/ (s[1] = t[1] /\ s[2] < t[2]) THEN -1
  ELSE IF s = t THEN 0 ELSE 1

LowerTimeCmp(r) ==
  ConstChecks({Nanos(t) : t \in r.const})
    \cup RangeChecks(AtNanos(r.lt), AtNanos(r.gt), CmpSecNanos(BoundIn(r.lt), BoundIn(r.gt)))

LowerTimestamp(r) == LowerTimeCmp(r)
TimestampFails(r) == r.ltNow \/ r.gtNow \/ r.within

LowerDuration(r) ==
  LowerTimeCmp(r) \cup InChecks({Nanos(t) : t \in r.in}) \cup NotInChecks({Nanos(t) : t \in r.notIn})

-----------------------------------------------------------------------------
(* Text, booleans and enums.                                               *)

StringSizes(r) ==
  One("size", "=", r.len) \cup One("size", ">=", r.minLen) \cup One("size", "<=", r.maxLen)
    \cup One("bytes", "=", r.lenBytes) \cup One("bytes", ">=", r.minBytes)
    \cup One("bytes", "<=", r.maxBytes)

Parts(r) == One("prefix", "=", r.prefix) \cup One("suffix", "=", r.suffix) \cup One("contains", "=", r.contains)

WellKnown(S) ==
  {Check(FALSE, "any", {Atom("format", "=", f) : f \in IF n = "address" THEN {"hostname", "ip"} ELSE {n}}) : n \in S}

KnownFormats ==
  {"email", "hostname", "ip", "ipv4", "ipv6", "uri", "uri_ref", "address", "uuid", "tuuid",
   "ip_with_prefixlen", "ipv4_with_prefixlen", "ipv6_with_prefixlen", "ip_prefix", "ipv4_prefix",
   "ipv6_prefix", "host_and_port"}
LowerString(r) ==
  ConstChecks(r.const) \cup StringSizes(r) \cup One("matches", "=", r.pattern) \cup Parts(r)
    \cup {Check(TRUE, "any", {Atom("contains", "=", b)}) : b \in r.notContains}
    \cup InChecks(r.in) \cup NotInChecks(r.notIn) \cup WellKnown(r.wellKnown)

LowerBytes(r) ==
  ConstChecks(r.const) \cup One("size", "=", r.len) \cup One("size", ">=", r.minLen)
    \cup One("size", "<=", r.maxLen) \cup Parts(r) \cup InChecks(r.in) \cup NotInChecks(r.notIn)
BytesFails(r) == r.pattern # {} \/ r.wellKnown # {}

LowerBool(r) == ConstChecks(r.const)

LowerEnum(r) ==
  ConstChecks(r.const) \cup (IF r.definedOnly THEN {Never("unknown")} ELSE {})
    \cup InChecks(r.in) \cup NotInChecks(r.notIn)

-----------------------------------------------------------------------------
(* lowerStandard.  fd is the type of the field, an element's field too.    *)

LeafChecks(r) ==
  CASE r.kind = "numeric" -> LowerNumeric(r)
    [] r.kind = "timestamp" -> LowerTimestamp(r)
    [] r.kind = "duration" -> LowerDuration(r)
    [] r.kind = "string" -> LowerString(r)
    [] r.kind = "bytes" -> LowerBytes(r)
    [] r.kind = "bool" -> LowerBool(r)
    [] r.kind = "enum" -> LowerEnum(r)
    [] OTHER -> {}

HasEnum(fd) == Kind(fd) = "enum" \/ (Kind(fd) = "list" /\ Kind(ElemOf(fd)) = "enum")

\* re2 is what RE2 says of a pattern.
LeafFails(r, fd, re2) ==
  \/ r.kind = "numeric" /\ NumericFails(r)
  \/ r.kind = "timestamp" /\ TimestampFails(r)
  \/ r.kind = "string" /\ r.pattern # {} /\ ~re2
  \/ r.kind = "string" /\ ~(r.wellKnown \subseteq KnownFormats)
  \/ r.kind = "bytes" /\ BytesFails(r)
  \/ r.kind = "enum" /\ ~HasEnum(fd)
  \/ r.kind \in {"any", "field_mask"}

\* A custom rule is a check on the verdict CEL gives it.
Custom(n) == Check(FALSE, "all", {Atom("cel", "=", n)})

\* lowerItemRules: what the rules of an element say of ignoring and of
\* being required is not looked at.
LowerItemRules(e) == LeafChecks(e.std) \cup {Custom(n) : n \in e.cel}
ItemRulesFail(e, fd, re2) == e.std.kind \in {"list", "map"} \/ LeafFails(e.std, fd, re2)

Quantified(over, E) ==
  {[over |-> over, inner |-> LowerItemRules(e)] : e \in {x \in E : LowerItemRules(x) # {}}}

LowerRepeated(r) ==
  One("size", ">=", r.minItems) \cup One("size", "<=", r.maxItems)
    \cup (IF r.unique THEN {Check(FALSE, "all", {Atom("unique", "=", 1)})} ELSE {})
    \cup Quantified("elems", r.items)
RepeatedFails(r, fd, re2) ==
  \E e \in r.items : Kind(ElemOf(fd)) = "message" \/ ItemRulesFail(e, fd, re2)

LowerMap(r) ==
  One("size", ">=", r.minPairs) \cup One("size", "<=", r.maxPairs)
    \cup Quantified("keys", r.keys) \cup Quantified("values", r.values)
MapFails(r, fd, re2) ==
  \/ \E e \in r.keys \cup r.values : ItemRulesFail(e, fd, re2)
  \/ r.values # {} /\ Kind(ElemOf(fd)) = "message"

LowerStandard(r) ==
  CASE r.kind = "list" -> LowerRepeated(r) [] r.kind = "map" -> LowerMap(r) [] OTHER -> LeafChecks(r)
StandardFails(r, fd, re2) ==
  CASE r.kind = "list" -> RepeatedFails(r, fd, re2)
    [] r.kind = "map" -> MapFails(r, fd, re2)
    [] OTHER -> LeafFails(r, fd, re2)
=============================================================================
