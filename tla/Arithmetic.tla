----------------------------- MODULE Arithmetic -----------------------------
(***************************************************************************)
(* Integer arithmetic in a translated rule: celtolean/domain.go, the       *)
(* arithmetic of celtolean/translate.go, and the side conditions of        *)
(* lean/Protovalidate/Cel.lean, under one valuation of the rule's fields.  *)
(*                                                                         *)
(* CEL computes with 64-bit integers and errs on overflow.  Lean computes  *)
(* at the type of the field and wraps, and so does a literal, which takes  *)
(* the type of what it meets.  A piece is a translated term: its text, as  *)
(* the value it denotes at each type it can elaborate at, beside the value *)
(* CEL gives the term.  Terms are type-correct CEL; `float` and `double`   *)
(* are left out.                                                           *)
(***************************************************************************)
EXTENDS Integers, Sequences, FiniteSets

CONSTANTS
  Narrow, Wide,  \* the widths of int32 and uint32, and of int64 and uint64
  None,          \* no domain; no constant
  Error          \* CEL's evaluation error

ASSUME WidthAssumption ==
  /\ Narrow \in Nat \ {0}
  /\ Wide \in Nat
  /\ 2 * Narrow <= Wide

Domain == [bits : {Narrow, Wide}, unsigned : BOOLEAN]
CelDom(unsigned) == [bits |-> Wide, unsigned |-> unsigned]

\* The two marks are no values.
ASSUME MarkAssumption ==
  /\ None \notin Int /\ None \notin Domain
  /\ Error \notin Int /\ Error \notin BOOLEAN

\* numDom.minInt, and maxInt and maxUint.
MinInt(d) == IF d.unsigned THEN 0 ELSE -(2 ^ (d.bits - 1))
MaxInt(d) == MinInt(d) + 2 ^ d.bits - 1
InRange(d, v) == MinInt(d) <= v /\ v <= MaxInt(d)
\* Mutant: integers do not wrap.
WrapNot(d, v) == v

Wrap(d, v) == ((v - MinInt(d)) % (2 ^ d.bits)) + MinInt(d)
ValuesOf(d) == MinInt(d) .. MaxInt(d)

-----------------------------------------------------------------------------
(* The operators, truncating towards zero, with Lean's value for a zero    *)
(* divisor.                                                                *)

AbsOf(v) == IF v < 0 THEN -v ELSE v
Quo(x, y) ==
  LET q == AbsOf(x) \div AbsOf(y)
  IN  IF y = 0 THEN 0 ELSE IF (x < 0) = (y < 0) THEN q ELSE -q

Exactly(op, x, y) ==
  CASE op = "+" -> x + y
    [] op = "-" -> x - y
    [] op = "*" -> x * y
    [] op = "/" -> Quo(x, y)
    [] op = "%" -> x - y * Quo(x, y)

\* cel-go: a zero divisor errs, and so does dividing the least integer by -1.
CelErrs(op, u, x, y) ==
  \/ op \in {"/", "%"} /\ (y = 0 \/ ~InRange(CelDom(u), Quo(x, y)))
  \/ ~InRange(CelDom(u), Exactly(op, x, y))
CelOp(op, u, x, y) ==
  IF Error \in {x, y} \/ CelErrs(op, u, x, y) THEN Error ELSE Exactly(op, x, y)

\* Mutant: the sign test of the subtraction is taken from the addition.
FoldOkSwapped(op, u, x, y) ==
  LET v == Wrap(CelDom(u), Exactly(op, x, y))
  IN  CASE op \in {"+", "-"} /\ ~u -> (y >= 0) = (v >= x)
        [] op = "+" /\ u -> v >= x
        [] op = "-" /\ u -> y <= x
        [] OTHER -> x = 0 \/ Quo(v, x) = y

\* Go's checks that a folded constant did not overflow.
FoldOk(op, u, x, y) ==
  LET v == Wrap(CelDom(u), Exactly(op, x, y))
  IN  CASE op = "+" /\ ~u -> (y >= 0) = (v >= x)
        [] op = "-" /\ ~u -> (y >= 0) = (v <= x)
        [] op = "*" /\ ~u ->
             \/ x = 0
             \/ /\ x # -1 \/ y # MinInt(CelDom(u))
                /\ y # -1 \/ x # MinInt(CelDom(u))
                /\ Quo(v, x) = y
        [] op = "+" /\ u -> v >= x
        [] op = "-" /\ u -> y <= x
        [] op = "*" /\ u -> x = 0 \/ Quo(v, x) = y

-----------------------------------------------------------------------------
(* Pieces.                                                                 *)

Number == MinInt(CelDom(FALSE)) .. MaxInt(CelDom(TRUE))

\* unsigned: its CEL type.  cel: its CEL value.  trapped: an error came from
\* a division.  dom: its domain, if a field is in it.  num: its folded value,
\* if none is.  lean: its value at each type it can elaborate at.  ok: the
\* side conditions attached to it hold.
Piece == [unsigned : BOOLEAN, cel : Number \cup {Error}, trapped : BOOLEAN,
          dom : Domain \cup {None}, num : Number \cup {None},
          lean : UNION {[D -> Number] : D \in SUBSET Domain}, ok : BOOLEAN]

FieldPiece(d, v) ==
  [unsigned |-> d.unsigned, cel |-> v, trapped |-> FALSE, dom |-> d, num |-> None,
   lean |-> [e \in {d} |-> v], ok |-> TRUE]
LiteralPiece(u, v) ==
  [unsigned |-> u, cel |-> v, trapped |-> FALSE, dom |-> None, num |-> v,
   lean |-> [d \in Domain |-> Wrap(d, v)], ok |-> TRUE]

Leaves ==
  (UNION {{FieldPiece(d, v) : v \in ValuesOf(d)} : d \in Domain})
    \cup (UNION {{LiteralPiece(u, v) : v \in ValuesOf(CelDom(u))} : u \in BOOLEAN})

\* The quotient of two constants is a constant that is not folded.
IsQuotient(p) == p.dom = None /\ p.num = None

\* Mutant: a 32-bit field is not lifted to CEL's width.
WidenNot(p) == p

widen(p) ==
  IF p.dom = None \/ p.dom.bits = Wide THEN p
  ELSE [p EXCEPT !.dom = CelDom(p.dom.unsigned),
                 !.lean = [d \in {CelDom(p.dom.unsigned)} |-> p.lean[p.dom]]]

\* unifyWidth, of the left and of the right operand.
unifyWidth(p, other) ==
  IF p.dom # None /\ other.dom # None /\ p.dom.unsigned = other.dom.unsigned
       /\ p.dom.bits < other.dom.bits
  THEN widen(p) ELSE p

\* Mutant: a literal may be one above the greatest value of the domain.
AcceptsOneMore(d, p) == p.num = None \/ InRange(d, p.num) \/ p.num = MaxInt(d) + 1

accepts(d, p) == p.num = None \/ InRange(d, p.num)
checkLiterals(l, r) == (l.dom # None => accepts(l.dom, r)) /\ (r.dom # None => accepts(r.dom, l))

arithDom(l, r) ==
  IF l.dom = None THEN r.dom ELSE IF r.dom \in {None, l.dom} THEN l.dom ELSE None

Shared(l, r) == DOMAIN l.lean \cap DOMAIN r.lean

\* Cel.addOk, subOk and mulOk, at the type the guard elaborates at.
ArithOk(op, l, r) == \A d \in Shared(l, r) : InRange(d, Exactly(op, l.lean[d], r.lean[d]))

Guarded == {"+", "-", "*"}

Folds(op, l, r) == op \in Guarded /\ l.num # None /\ r.num # None
Computed(op, l, r) ==
  [unsigned |-> l.unsigned,
   cel |-> CelOp(op, l.unsigned, l.cel, r.cel),
   trapped |-> \/ l.trapped
               \/ r.trapped
               \/ op \in {"/", "%"} /\ Error \notin {l.cel, r.cel} /\ CelErrs(op, l.unsigned, l.cel, r.cel),
   dom |-> arithDom(l, r),
   num |-> IF Folds(op, l, r) THEN Exactly(op, l.num, r.num) ELSE None,
   lean |-> [d \in Shared(l, r) |-> Wrap(d, Exactly(op, l.lean[d], r.lean[d]))],
   ok |-> l.ok /\ r.ok /\ (op \in Guarded /\ ~Folds(op, l, r) => ArithOk(op, l, r))]

Negated(p) ==
  [p EXCEPT !.cel = CelOp("-", p.unsigned, 0, p.cel),
            !.num = IF p.num = None THEN None ELSE -p.num,
            !.lean = [d \in DOMAIN p.lean |-> Wrap(d, -p.lean[d])],
            !.ok = p.ok /\ (p.num = None => \A d \in DOMAIN p.lean : InRange(d, -p.lean[d]))]

-----------------------------------------------------------------------------
(* The translation, from the leaves up.                                    *)

VARIABLES
  operands,  \* the operands translated so far of the call under way
  outcome    \* of the translation: [kind, cel, lean]

vars == <<operands, outcome>>

Open == [kind |-> "open", cel |-> Error, lean |-> FALSE]

Init ==
  /\ operands \in {<<p>> : p \in Leaves}
  /\ outcome = Open

\* A call translates its other operand, which is a leaf.
Operand(p) ==
  /\ outcome = Open
  /\ Len(operands) = 1
  /\ operands' \in {Append(operands, p), <<p>> \o operands}
  /\ UNCHANGED outcome

Reject(kind, cel) ==
  /\ outcome' = [kind |-> kind, cel |-> cel, lean |-> FALSE]
  /\ UNCHANGED operands

\* Only / and % go on computing with a quotient of constants alone: the side
\* condition of any other operator would elaborate at Nat.
Anchored(op, l, r) ==
  (IsQuotient(l) \/ IsQuotient(r)) /\ l.dom = None /\ r.dom = None => op \notin Guarded

\* arith and foldConstArith.
Arith(op) ==
  /\ outcome = Open
  /\ Len(operands) = 2
  /\ operands[1].unsigned = operands[2].unsigned
  /\ Anchored(op, operands[1], operands[2])
  /\ LET l == widen(operands[1])
         r == widen(operands[2])
     IN  IF ~checkLiterals(l, r) THEN Reject("literal", Error)
         ELSE IF Folds(op, l, r) /\ ~FoldOk(op, l.unsigned, l.num, r.num)
         THEN Reject("folding", CelOp(op, l.unsigned, l.cel, r.cel))
         ELSE operands' = <<Computed(op, l, r)>> /\ UNCHANGED outcome

Negate ==
  /\ outcome = Open
  /\ Len(operands) = 1
  /\ LET p == widen(operands[1])
     IN  /\ ~p.unsigned
         /\ ~IsQuotient(p)
         /\ IF p.num = MinInt(CelDom(p.unsigned))
            THEN Reject("folding", CelOp("-", p.unsigned, 0, p.cel))
            ELSE operands' = <<Negated(p)>> /\ UNCHANGED outcome

Holds(op, x, y) ==
  CASE op = "<" -> x < y [] op = "<=" -> x <= y [] op = "=" -> x = y [] op = "#" -> x # y

\* binaryArgs, and equality of terms.  A comparison of constants alone is left
\* out, and so is one of fields of different signedness, which does not
\* elaborate.
Compare(op) ==
  /\ outcome = Open
  /\ Len(operands) = 2
  /\ LET l == unifyWidth(operands[1], operands[2])
         r == unifyWidth(operands[2], operands[1])
     IN  /\ l.dom # None \/ r.dom # None
         /\ Shared(l, r) # {}
         /\ IF ~checkLiterals(operands[1], operands[2]) THEN Reject("literal", Error)
            ELSE /\ outcome' =
                      [kind |-> "proposition",
                       cel |-> IF Error \in {l.cel, r.cel} THEN Error ELSE Holds(op, l.cel, r.cel),
                       lean |-> /\ l.ok
                                /\ r.ok
                                /\ \A d \in Shared(l, r) : Holds(op, l.lean[d], r.lean[d])]
                 /\ UNCHANGED operands

Next ==
  \/ \E p \in Leaves : Operand(p)
  \/ \E op \in {"+", "-", "*", "/", "%"} : Arith(op)
  \/ Negate
  \/ \E op \in {"<", "<=", "=", "#"} : Compare(op)

Spec == Init /\ [][Next]_vars

-----------------------------------------------------------------------------
(* Properties.                                                             *)

Pieces == {operands[i] : i \in DOMAIN operands}

TypeOK ==
  /\ operands \in Seq(Piece) /\ Len(operands) \in {1, 2}
  /\ outcome.kind \in {"open", "literal", "folding", "proposition"}

\* Division aside, the side conditions attached to a term hold exactly when
\* CEL evaluates it without error, and then the text of a term with a field
\* in it denotes the CEL value; the text of a constant does so at every type
\* whose range holds it, whichever types its own literals fit.
Faithful(p) == {d \in DOMAIN p.lean : d = p.dom \/ d = CelDom(p.unsigned) \/ (p.num # None /\ InRange(d, p.num))}
GuardsAreExact ==
  \A p \in Pieces : ~p.trapped =>
    /\ p.ok <=> p.cel # Error
    /\ p.ok => \A d \in Faithful(p) : p.lean[d] = p.cel

\* A comparison is satisfied in Lean exactly when it is true in CEL, fields
\* of different widths and constants included.  Not so when a division errs
\* in CEL, or when a quotient of constants, which is not folded and so not
\* checked, meets a field that is narrower or of the other signedness.
Unchecked ==
  \E i \in DOMAIN operands : IsQuotient(operands[i]) /\ operands[3 - i].dom # CelDom(operands[i].unsigned)
ComparisonIsExact ==
  outcome.kind = "proposition" /\ ~Unchecked /\ ~(\E p \in Pieces : p.trapped) =>
    (outcome.lean <=> outcome.cel = TRUE)

\* foldConstArith: a rule is rejected only when "CEL would error on every
\* evaluation".
RejectedFoldsErr == outcome.kind = "folding" => outcome.cel = Error

\* README.md: "Integer division/modulo agree exactly with CEL", under "the
\* kernel can never prove a proposition whose CEL evaluation would have
\* errored".
DivisionAgrees == outcome.kind = "proposition" /\ outcome.lean => outcome.cel # Error
=============================================================================
