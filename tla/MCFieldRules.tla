---------------------------- MODULE MCFieldRules ----------------------------
(***************************************************************************)
(* Declarations for RuleViews: small families of rules for every kind of   *)
(* field, of patterns, and of custom rules over two messages.              *)
(***************************************************************************)
EXTENDS RuleViews

-----------------------------------------------------------------------------
(* Floats with three bits of mantissa: 5 and 7 are halfway cases.          *)

MCRound(n) == CASE n = 5 -> 4 [] n = 7 -> 8 [] n = -5 -> -4 [] n = -7 -> -8 [] OTHER -> n
Infinity == 100
MCNumbers == -8 .. 8 \cup {Infinity, -Infinity}
Infinite == {Infinity, -Infinity}

Seqs(S, n) == UNION {[1 .. k -> S] : k \in 0 .. n}
Optional(S) == {{}} \cup {{x} : x \in S}

NoNumeric == [kind |-> "numeric", rep |-> "int", const |-> {}, lt |-> {}, gt |-> {}, in |-> {}, notIn |-> {}, finite |-> FALSE]
NoTime == [kind |-> "timestamp", const |-> {}, lt |-> {}, gt |-> {}, ltNow |-> FALSE, gtNow |-> FALSE, within |-> FALSE]
NoDuration == [kind |-> "duration", const |-> {}, lt |-> {}, gt |-> {}, in |-> {}, notIn |-> {}]
NoBytes == [kind |-> "bytes", const |-> {}, len |-> {}, minLen |-> {}, maxLen |-> {}, pattern |-> {}, prefix |-> {},
            suffix |-> {}, contains |-> {}, in |-> {}, notIn |-> {}, wellKnown |-> {}]
NoString == [kind |-> "string", lenBytes |-> {}, minBytes |-> {}, maxBytes |-> {}, notContains |-> {}] @@ NoBytes
NoBool == [kind |-> "bool", const |-> {}]
NoEnum == [kind |-> "enum", const |-> {}, definedOnly |-> FALSE, in |-> {}, notIn |-> {}]
NoList == [kind |-> "list", minItems |-> {}, maxItems |-> {}, unique |-> FALSE, items |-> {}]
NoMap == [kind |-> "map", minPairs |-> {}, maxPairs |-> {}, keys |-> {}, values |-> {}]
NoStandard == [kind |-> "none"]

LtBounds(S) == {<<op, b>> : op \in {"<", "<="}, b \in S}
GtBounds(S) == {<<op, b>> : op \in {">", ">="}, b \in S}

\* At most two of the rules in options, each with one of its values.
AtMostTwo(none, options) ==
  {none} \cup {[none EXCEPT ![p[1]] = p[2], ![q[1]] = q[2]] : p, q \in options}

IntRanges ==
  {[NoNumeric EXCEPT !.lt = l, !.gt = g] : l \in Optional(LtBounds({0, 4, 5, 6, 7})), g \in Optional(GtBounds({0, 4, 5, 6, 7}))}
IntRules == IntRanges \cup {[r EXCEPT !.rep = "uint"] : r \in IntRanges} \cup
  AtMostTwo(NoNumeric, {<<"const", {1}>>, <<"in", {0, 5}>>, <<"in", {4}>>, <<"notIn", {1, 5}>>, <<"gt", {<<">", 1>>}>>})
FloatRules ==
  {[NoNumeric EXCEPT !.rep = "float", !.lt = l, !.gt = g, !.finite = f] :
     l \in Optional(LtBounds({0, 5, 7, Infinity})), g \in Optional(GtBounds({0, 5, 7})), f \in BOOLEAN}
  \cup {[NoNumeric EXCEPT !.rep = "float", !.notIn = n, !.const = c] : n \in {{}, {1}, {1, -Infinity}}, c \in Optional({5, Infinity})}

Times == {<<s, n>> : s \in {0, 1}, n \in {0, 1, 999999999}} \cup {<<-1, -1>>, <<-1, 0>>, <<0, -1>>}
TimeRules ==
  {[NoTime EXCEPT !.lt = l, !.gt = g] :
     l \in Optional({<<"<", t>> : t \in Times}), g \in Optional({<<">=", t>> : t \in Times})}
  \cup {[NoTime EXCEPT !.const = c, !.ltNow = n, !.within = w] : c \in Optional(Times), n, w \in BOOLEAN}
DurationRules ==
  AtMostTwo(NoDuration, {<<"const", {<<0, 1>>}>>, <<"in", {<<0, 1>>, <<1, 0>>}>>, <<"notIn", {<<0, -1>>}>>,
                         <<"lt", {<<"<=", <<0, -1>>>>}>>, <<"gt", {<<">", <<-1, -1>>>>}>>, <<"gt", {<<">", <<0, 1>>>>}>>})

Texts == {"a", "b"}
TextOptions ==
  {<<"const", {"ab"}>>, <<"len", {1}>>, <<"minLen", {1}>>, <<"maxLen", {1}>>, <<"prefix", {"a"}>>, <<"suffix", {"b"}>>,
   <<"contains", {"b"}>>, <<"in", {"a", "eacute"}>>, <<"notIn", {"ab"}>>, <<"notIn", {"", "a"}>>, <<"wellKnown", {"ip"}>>}
StringRules ==
  AtMostTwo(NoString, TextOptions \cup {<<"lenBytes", {2}>>, <<"minBytes", {2}>>, <<"maxBytes", {1}>>,
                                        <<"notContains", {"a"}>>, <<"wellKnown", {"address"}>>,
                                        <<"wellKnown", {"well_known_regex"}>>})
BytesRules == AtMostTwo(NoBytes, TextOptions \cup {<<"pattern", {<<"a">>}>>})
EnumRules ==
  AtMostTwo(NoEnum, {<<"const", {1}>>, <<"definedOnly", TRUE>>, <<"in", {0, 2}>>, <<"notIn", {1}>>})

-----------------------------------------------------------------------------
(* Containers.                                                             *)

Element(std, ignore, cel) == [std |-> std, ignore |-> ignore, required |-> FALSE, cel |-> cel]
AtLeastOne == [NoNumeric EXCEPT !.gt = {<<">=", 1>>}]
Collapsing == [NoNumeric EXCEPT !.lt = {<<"<=", 5>>}, !.gt = {<<">=", 4>>}]
ItemStds == {AtLeastOne, Collapsing, [NoNumeric EXCEPT !.in = {0, 2}], NoStandard, NoList}
ItemRules ==
  {Element(s, i, c) : s \in ItemStds, i \in {"unspecified", "if zero", "always"}, c \in {{}, {1}}}
ListRules ==
  {[NoList EXCEPT !.minItems = n, !.maxItems = x, !.unique = u, !.items = e] :
     n \in Optional({1}), x \in Optional({1}), u \in BOOLEAN, e \in Optional(ItemRules)}
KeyRules == {Element(s, "unspecified", {}) : s \in {AtLeastOne, NoMap}}
MapRules ==
  {[NoMap EXCEPT !.minPairs = n, !.keys = k, !.values = e] :
     n \in Optional({2}), k \in Optional(KeyRules), e \in Optional({x \in ItemRules : x.cel = {}})}

-----------------------------------------------------------------------------
(* Values, each with everything it shows under every measure.              *)

Blank == [self |-> {}, size |-> {}, bytes |-> {}, prefix |-> {}, suffix |-> {}, contains |-> {}, matches |-> {},
          format |-> {}, nan |-> {}, inf |-> {}, unknown |-> {}, unique |-> {}, zero |-> {}, cel |-> {},
          elems |-> {}, keys |-> {}, values |-> {}]
If(b) == IF b THEN {1} ELSE {}

Num(n) == [Blank EXCEPT !.self = {n}, !.zero = If(n = 0), !.unknown = If(n > 1)]
IntValues == {Num(n) : n \in -1 .. 8}
FloatValues ==
  IntValues \cup {[Blank EXCEPT !.self = {n}, !.inf = {1}] : n \in Infinite} \cup {[Blank EXCEPT !.nan = {1}]}
TimeValues == {Num(Nanos(t)) : t \in Times}

Text(s, size, bytes, prefixes, suffixes, parts, formats) ==
  [Blank EXCEPT !.self = {s}, !.zero = If(s = ""), !.size = {size}, !.bytes = {bytes}, !.prefix = prefixes,
                !.suffix = suffixes, !.contains = parts, !.format = formats]
TextValues ==
  {Text("", 0, 0, {}, {}, {}, {}), Text("a", 1, 1, {"a"}, {"a"}, {"a"}, {"hostname"}),
   Text("b", 1, 1, {"b"}, {"b"}, {"b"}, {"hostname"}), Text("ab", 2, 2, {"a"}, {"b"}, {"a", "b"}, {"hostname"}),
   Text("ba", 2, 2, {"b"}, {"a"}, {"a", "b"}, {}), Text("eacute", 1, 2, {}, {}, {}, {}),
   Text("::", 2, 2, {}, {}, {}, {"ip"})}
PatternValues(p) == {[Blank EXCEPT !.matches = m] : m \in Optional({p})}

\* Elements come with both verdicts of an element's custom rule.
ElementValues == {[v EXCEPT !.cel = c] : v \in {Num(0), Num(1), Num(2), Num(6)}, c \in Optional({1})}
Members == {e \in SUBSET ElementValues : Cardinality(e) <= 2}
ListValues ==
  {[Blank EXCEPT !.size = {n}, !.unique = If(n = Cardinality(e)), !.elems = e, !.zero = If(n = 0)] :
     e \in Members, n \in 0 .. 2} 
MapValues ==
  {[Blank EXCEPT !.size = {Cardinality(k)}, !.keys = k, !.values = e, !.zero = If(k = {})] :
     k \in {{}, {Num(0)}, {Num(1)}, {Num(0), Num(1)}}, e \in {m \in Members : \A v \in m : v.cel = {}}}

Verdicts(n) == {[Blank EXCEPT !.cel = c, !.zero = z] : c \in SUBSET (1 .. n), z \in Optional({1})}

MCValuesOf(d) ==
  CASE d.std.kind = "numeric" -> IF d.std.rep = "float" THEN FloatValues ELSE IntValues
    [] d.std.kind \in {"timestamp", "duration"} -> TimeValues
    [] d.std.kind = "string" /\ d.std.pattern # {} -> PatternValues(CHOOSE p \in d.std.pattern : TRUE)
    [] d.std.kind \in {"string", "bytes"} -> TextValues
    [] d.std.kind \in {"bool", "enum"} -> IntValues
    [] d.std.kind = "list" -> {v \in ListValues : \A n \in v.size : Cardinality(v.elems) \in {n, (n + 1) \div 2}}
    [] d.std.kind = "map" -> {v \in MapValues : \A n \in v.size : v.values # {} <=> n > 0}
    [] OTHER -> Verdicts(Len(d.cel))

-----------------------------------------------------------------------------
(* Messages and custom rules.                                              *)

Int32 == Scalar("int32")
String == Scalar("string")
Enum == Scalar("enum")
MCFieldsOf ==
  [M |-> [k |-> Int32, e |-> Enum, l |-> List(Enum), m |-> Map("string", Scalar("uint64")),
          s |-> Message("N"), r |-> List(Message("N")), b |-> Int32],
   N |-> [k |-> Scalar("double"), e |-> Enum, l |-> List(Int32)]]

\* Expressions are built with their types.
Steps(E) ==
  UNION {CASE Kind(e[2]) = "message" -> {<<Select(e[1], f), FieldsIn(e[2])[f]>> : f \in DOMAIN FieldsIn(e[2])}
           [] Kind(e[2]) = "list" -> {<<Index(e[1]), ElemOf(e[2])>>}
           [] Kind(e[2]) = "map" -> {<<Index(e[1]), ElemOf(e[2])>>, <<Select(e[1], "k"), ElemOf(e[2])>>}
           [] Kind(e[2]) = "enum" -> {<<Select(e[1], "k"), NoType>>}
           [] OTHER -> {} : e \in E}
Reach(E) == E \cup Steps(E) \cup Steps(Steps(E))

X == <<"x", 0>>
Y == <<"y", 0>>
B == <<"b", 0>>
K == <<"k", 0>>

Ranges(E) == {e \in E : Kind(e[2]) \in {"list", "map"}}
Tests(E) == {Test(e[1]) : e \in {x \in E : Kind(x[2]) \notin {"list", "map", "message"}}}
Var(v, e) == {<<Ident(v), ElemType(e[2])>>}

\* Lists made of lists.
Filtered(E, v) ==
  UNION {{<<Macro("filter", e[1], v, t), List(ElemType(e[2]))>> : t \in Tests(Reach(Var(v, e)))} : e \in Ranges(E)}
Mapped(E, v) ==
  UNION {{<<Macro("map", e[1], v, b[1]), List(b[2])>> : b \in Steps(Var(v, e)) \cup Var(v, e)} : e \in Ranges(E)}
Chosen(E) == {<<Pair("conditional", e[1], e[1]), e[2]>> : e \in Ranges(E)}

\* this.<range>.all(v, test of v or of this), and the same with another all
\* inside it, over a part of v or of this.
All(E, R, v) ==
  UNION {{Macro("all", e[1], v, t) : t \in Tests(E \cup Reach(Var(v, e)))} : e \in Ranges(R)}
Inner(E, v, w) ==
  UNION {{Macro("all", f[1], w, t) : t \in Tests(Steps(Var(w, f)) \cup Var(w, f) \cup (IF v = w THEN {} ELSE {<<Ident(v), String>>}))} :
           f \in Ranges(E) \cup {f \in Filtered(E, Y) : Kind(ElemOf(f[2])) = "message"}}
AllAll(E, v, w) ==
  UNION {{Macro("all", e[1], v, i) : i \in Inner(E \cup Reach(Var(v, e)), v, w)} : e \in Ranges(E)}

Rules(E, V) ==
  Tests(E) \cup {Has(e[1], "k") : e \in {x \in E : Kind(x[2]) \in {"message", "map"}}}
    \cup UNION {All(E, Ranges(E) \cup Filtered(E, Y) \cup Mapped(E, v) \cup Chosen(E), v) : v \in V}
    \cup UNION {AllAll(E, v, w) : v, w \in V}

Decl(target, type, std, cel) ==
  [target |-> target, type |-> type, ignore |-> "unspecified", required |-> FALSE, std |-> std, cel |-> cel,
   re2 |-> TRUE, subject |-> [dotted |-> FALSE, name |-> X]]

SubjectTypes == {Int32, Enum, List(Enum), Map("enum", Scalar("float")), Map("string", Message("N")), Message("M"), List(Message("N"))}
FieldCel(t) == Rules(Reach({<<This, t>>}), {X, B})
MessageCel(m) ==
  LET steps == Steps({<<This, Message(m)>>}) IN Rules(steps \cup Steps(steps), {X, B, K})

CustomDecls ==
  UNION {{[Decl("field", t, NoStandard, <<c>>) EXCEPT !.subject = s] :
            c \in FieldCel(t), s \in {[dotted |-> FALSE, name |-> X], [dotted |-> TRUE, name |-> B]}} : t \in SubjectTypes}
  \cup UNION {{Decl("message", Message(m), NoStandard, <<c>>) : c \in MessageCel(m)} : m \in {"M", "N"}}

\* Rules lowered one after another, on fields that may be ignored.
FirstRule == Macro("all", This, X, Test(Ident(X)))
SeveralDecls ==
  {[Decl("field", List(Enum), r, c) EXCEPT !.ignore = i, !.required = q] :
     r \in {NoStandard, [NoList EXCEPT !.minItems = {1}]}, i \in {"unspecified", "if zero", "always"}, q \in BOOLEAN,
     c \in Seqs({FirstRule, Test(Index(This)), Test(Select(Index(This), "k"))}, 3)}

StandardDecls ==
  {Decl("field", Scalar("int64"), r, <<>>) : r \in IntRules}
  \cup {Decl("field", Scalar("float"), r, <<>>) : r \in FloatRules}
  \cup {Decl("field", Message("N"), r, <<>>) : r \in TimeRules \cup DurationRules}
  \cup {Decl("field", String, r, <<>>) : r \in StringRules}
  \cup {Decl("field", Scalar("bytes"), r, <<>>) : r \in BytesRules}
  \cup {Decl("field", Scalar("bool"), [NoBool EXCEPT !.const = c], <<>>) : c \in Optional({0, 1})}
  \cup {Decl("field", t, r, <<>>) : t \in {Enum, Int32}, r \in EnumRules}
  \cup {Decl("field", List(t), r, <<>>) : t \in {Int32, Message("N")}, r \in ListRules}
  \cup {Decl("field", Map("int32", t), r, <<>>) : t \in {Int32, Message("N")}, r \in MapRules}

-----------------------------------------------------------------------------
(* Patterns: every text over a few characters, for each part of the        *)
(* grammar.  RE2 is outside the model and agrees to all of them, or        *)
(* refuses the short ones.                                                 *)

After(prefix, S) == {prefix \o s : s \in S}
MCPatterns ==
  Seqs({"a", "|", "(", ")", "?", ":", "*"}, 4)
  \cup After(<<"[">>, Seqs({"]", "[", "^", "-", "\\", "d", ":"}, 4))
  \cup After(<<"a", "{">>, Seqs({"0", "2", "3", ",", "}", "{", "?"}, 4))
  \cup After(<<"\\">>, Seqs({"d", "n", "x", "0", "1", "q", "eacute", ".", "{"}, 3))
  \cup After(<<"\\", "x", "{">>, Seqs({"0", "3", "1", "}", "q"}, 4))
  \cup After(<<"[", "\\">>, Seqs({"d", "0", "1", "-", "\\", "]"}, 4))
MCSurrogates == 768 .. 783

\* A set of records, which TLC need not list.
PatternDecls(P, re2) ==
  [target : {"field"}, type : {String}, ignore : {"unspecified"}, required : {FALSE}, cel : {<<>>}, re2 : {re2},
   subject : {[dotted |-> FALSE, name |-> X]},
   std : {[NoString EXCEPT !.pattern = {p}] : p \in P}]

MCDecls ==
  PatternDecls(MCPatterns, TRUE)
    \cup (PatternDecls(Seqs({"a", "("}, 2), FALSE) \cup (StandardDecls \cup CustomDecls \cup SeveralDecls))
=============================================================================
