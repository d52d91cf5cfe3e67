---------------------------- MODULE RegexGrammar ----------------------------
(***************************************************************************)
(* The two parsers a pattern passes.  The plugin's                         *)
(* (celtolean/regexcheck.go) decides at generation time; the runtime's     *)
(* (Cel/Regex.lean, namespace Parser) decides in the `#guard` of the       *)
(* generated file.  They were written by hand in two languages, one over   *)
(* an index and one over list suffixes, and are translated one by one.     *)
(*                                                                         *)
(* A pattern is a sequence of characters.  A parser maps the position it   *)
(* starts at to the position after what it consumed, or to Fail.  Numbers  *)
(* are not capped: both parsers refuse them long before Go's caps bite.    *)
(*                                                                         *)
(* A call that nests another one, or goes round its loop again, finds the  *)
(* answer in `rec`.  Every such call starts at a later position, so the    *)
(* answers of Len(p) + 1 levels of nesting are all there is.               *)
(***************************************************************************)
EXTENDS Integers, Sequences, TLC

CONSTANTS MaxBound,       \* the largest repetition bound (512 in the code)
          CharLimit,      \* one past the largest code point (0x110000)
          Surrogates,     \* code points that are no characters
          ForeignAlnum    \* letters and digits outside ASCII

Fail == 0
End == "end of pattern"
LBrace == "{"
RBrace == "}"
Comma == ","
At(p, i) == IF i <= Len(p) THEN p[i] ELSE End

Hex == <<"0", "1", "2", "3", "4", "5", "6", "7", "8", "9", "a", "b", "c", "d", "e", "f">>
Digits == {Hex[i] : i \in 1 .. 10}
HexDigits == {Hex[i] : i \in 1 .. 16}
\* The ASCII letters that may follow a backslash here.
Letters == {"d", "D", "w", "W", "s", "S", "n", "t", "r", "f", "v", "a", "x", "q"}
Perl == {"d", "D", "w", "W", "s", "S"}
Controls == {"n", "t", "r", "f", "v", "a"}
IsValidChar(n) == n < CharLimit /\ n \notin Surrogates

\* Two hexadecimal digits always spell a character.
ASSUME GrammarAssumption == MaxBound \in Nat /\ \A n \in 0 .. 255 : IsValidChar(n)

\* The number that the digits of p from i up to (not including) j spell.
Digit(c) == (CHOOSE k \in 1 .. 16 : Hex[k] = c) - 1
NatOf(p, i, j, base) ==
  LET value[k \in 0 .. j - i] == IF k = 0 THEN 0 ELSE value[k - 1] * base + Digit(p[i + k - 1])
  IN value[j - i]

\* The first position from i on whose character is not in S.
Span(p, i, S) == CHOOSE j \in i .. (Len(p) + 1) :
  At(p, j) \notin S /\ \A k \in i .. (j - 1) : p[k] \in S

\* What an escape stands for: a character or a predicate on characters.
Esc(to, pred) == [to |-> to, pred |-> pred]
NoEsc == Esc(Fail, FALSE)

\* The nested calls: alternatives, a concatenation, more quantifiers, more
\* items of a class.
Calls(p) == {"alt", "concat", "quantify", "items"} \X (1 .. Len(p) + 1)
Unanswered(p) == [c \in Calls(p) |-> Fail]

-----------------------------------------------------------------------------
(* The parser of the plugin.                                               *)

GoEscape(p, i) ==
  LET c == At(p, i)
      digits == Span(p, i + 2, HexDigits)
  IN CASE c \in Perl -> Esc(i + 1, TRUE)
       [] c \in Controls \/ (c = "0" /\ At(p, i + 1) \notin Digits) -> Esc(i + 1, FALSE)
       [] c = "x" /\ At(p, i + 1) = LBrace /\ At(p, digits) = RBrace /\ IsValidChar(NatOf(p, i + 2, digits, 16)) ->
            Esc(digits + 1, FALSE)
       [] c = "x" /\ {At(p, i + 1), At(p, i + 2)} \subseteq HexDigits -> Esc(i + 3, FALSE)
       [] c \notin Letters \cup Digits \cup ForeignAlnum \cup {End} -> Esc(i + 1, FALSE)
       [] OTHER -> NoEsc

\* After a character of a class: the high end of a range, or nothing.
GoClassRange(p, i) ==
  LET e == GoEscape(p, i + 2)
  IN IF At(p, i) # "-" \/ At(p, i + 1) \in {End, "]"} THEN i
     ELSE IF At(p, i + 1) # "\\" THEN i + 2
     ELSE IF e.pred THEN Fail ELSE e.to

GoClassItems(p, rec, i, item) ==
  LET e == GoEscape(p, i + 1)
      More(j) == IF j = Fail THEN Fail ELSE rec[<<"items", j>>]
  IN CASE At(p, i) = "]" /\ item # "first" -> i + 1
       [] At(p, i) = "]" /\ item = "first" /\ (At(p, i + 1) = "-" => At(p, i + 2) \in {End, "]"}) -> More(i + 1)
       [] At(p, i) = "\\" -> IF e.to = Fail \/ e.pred THEN More(e.to) ELSE More(GoClassRange(p, e.to))
       [] At(p, i) \notin {End, "]", "\\"} /\ (At(p, i) = "[" => At(p, i + 1) # ":") -> More(GoClassRange(p, i + 1))
       [] OTHER -> Fail

GoClass(p, rec, i) == GoClassItems(p, rec, IF At(p, i) = "^" THEN i + 1 ELSE i, "first")

GoNonGreedy(p, i) == IF At(p, i) = "?" THEN i + 1 ELSE i

\* Mutant: the maximum is left to RE2, whose own is larger.
GoBoundsUnchecked(n, m) == m >= n

\* Mutant: the maximum itself is refused.
GoBoundsStrict(n, m) == n < MaxBound /\ m < MaxBound /\ m >= n

\* Both bounds of {n,m}; {n} and {n,} have n twice.
GoBounds(n, m) == n <= MaxBound /\ m <= MaxBound /\ m >= n

GoQuantify(p, rec, i) ==
  LET next == Span(p, i + 1, Digits)
      next2 == Span(p, next + 1, Digits)
      n == NatOf(p, i + 1, next, 10)
      m == NatOf(p, next + 1, next2, 10)
      Then(ok, j) == IF ok THEN rec[<<"quantify", GoNonGreedy(p, j + 1)>>] ELSE Fail
      counted == At(p, i) = LBrace /\ next # i + 1
  IN CASE At(p, i) \in {"*", "+", "?"} -> Then(TRUE, i)
       [] counted /\ At(p, next) = RBrace -> Then(GoBounds(n, n), next)
       [] counted /\ At(p, next) = Comma /\ At(p, next + 1) = RBrace -> Then(GoBounds(n, n), next + 1)
       [] counted /\ At(p, next) = Comma /\ At(p, next + 1) # RBrace /\ At(p, next2) = RBrace -> Then(GoBounds(n, m), next2)
       [] At(p, i) \notin {"*", "+", "?"} /\ ~counted -> i
       [] OTHER -> Fail

GoAtom(p, rec, i) ==
  LET group == IF At(p, i + 1) = "?" THEN i + 3 ELSE i + 1
      close == rec[<<"alt", group>>]
  IN CASE At(p, i) = "(" ->
            IF \/ At(p, i + 1) = "?" /\ At(p, i + 2) # ":"
               \/ close = Fail \/ At(p, close) # ")"
            THEN Fail ELSE close + 1
       [] At(p, i) = "[" -> GoClass(p, rec, i + 1)
       [] At(p, i) = "\\" -> GoEscape(p, i + 1).to
       [] At(p, i) \in {End, "*", "+", "?"} -> Fail
       [] OTHER -> i + 1

GoRepeat(p, rec, i) ==
  LET j == GoAtom(p, rec, i) IN IF j = Fail THEN Fail ELSE GoQuantify(p, rec, j)

GoConcat(p, rec, i) ==
  LET j == GoRepeat(p, rec, i)
  IN IF At(p, i) \in {End, "|", ")"} THEN i
     ELSE IF j = Fail THEN Fail ELSE rec[<<"concat", j>>]

GoAlt(p, rec, i) ==
  LET j == GoConcat(p, rec, i)
  IN IF j # Fail /\ At(p, j) = "|" THEN rec[<<"alt", j + 1>>] ELSE j

GoCall(p, rec, f, i) ==
  CASE f = "alt" -> GoAlt(p, rec, i)
    [] f = "concat" -> GoConcat(p, rec, i)
    [] f = "quantify" -> GoQuantify(p, rec, i)
    [] f = "items" -> GoClassItems(p, rec, i, "next")
GoAnswers(p) ==
  LET level[n \in Nat] ==
        IF n = 0 THEN Unanswered(p) ELSE [c \in Calls(p) |-> GoCall(p, level[n - 1], c[1], c[2])]
  IN level

RegexAccepted(p) == GoAnswers(p)[Len(p) + 1][<<"alt", 1>>] = Len(p) + 1

-----------------------------------------------------------------------------
(* The parser of the runtime.                                              *)

HexChar(p, i, j) == (\A k \in i .. (j - 1) : p[k] \in HexDigits) /\ IsValidChar(NatOf(p, i, j, 16))

LeanEscape(p, i) ==
  LET c == At(p, i)
      brace == CHOOSE j \in (i + 2) .. (Len(p) + 1) :
                 At(p, j) \in {End, RBrace} /\ \A k \in (i + 2) .. (j - 1) : p[k] # RBrace
  IN CASE c \in Perl -> Esc(i + 1, TRUE)
       [] c \in Controls \cup {"0"} -> Esc(i + 1, FALSE)
       [] c = "x" /\ At(p, i + 1) = LBrace /\ At(p, brace) = RBrace /\ HexChar(p, i + 2, brace) -> Esc(brace + 1, FALSE)
       [] c = "x" /\ i + 2 <= Len(p) /\ HexChar(p, i + 1, i + 3) -> Esc(i + 3, FALSE)
       [] c \notin Letters \cup Digits \cup {End} -> Esc(i + 1, FALSE)
       [] OTHER -> NoEsc

LeanClassItems(p, rec, i, item) ==
  LET Literal(j) ==  \* the low end of a range or a lone character, ending before j
        LET hi == LeanEscape(p, j + 2)
        IN IF At(p, j) # "-" \/ At(p, j + 1) = End THEN rec[<<"items", j>>]
           ELSE IF At(p, j + 1) = "]" THEN rec[<<"items", j + 1>>]
           ELSE IF At(p, j + 1) # "\\" THEN rec[<<"items", j + 2>>]
           ELSE IF hi.to = Fail \/ hi.pred THEN Fail ELSE rec[<<"items", hi.to>>]
      e == LeanEscape(p, i + 1)
  IN CASE At(p, i) = "]" -> IF item = "first" THEN rec[<<"items", i + 1>>] ELSE i + 1
       [] At(p, i) = "\\" /\ e.to # Fail -> IF e.pred THEN rec[<<"items", e.to>>] ELSE Literal(e.to)
       [] At(p, i) \notin {End, "]", "\\"} -> Literal(i + 1)
       [] OTHER -> Fail

LeanClass(p, rec, i) == LeanClassItems(p, rec, IF At(p, i) = "^" THEN i + 1 ELSE i, "first")

LeanQuantify(p, rec, i) ==
  LET lo == Span(p, i + 1, Digits)
      hi == Span(p, lo + 1, Digits)
      n == NatOf(p, i + 1, lo, 10)
      m == NatOf(p, lo + 1, hi, 10)
      DropNonGreedy(j) == IF At(p, j) = "?" THEN j + 1 ELSE j
      Again(j) == rec[<<"quantify", DropNonGreedy(j)>>]
      braced == At(p, i) = LBrace /\ lo # i + 1
  IN CASE At(p, i) \in {"*", "+", "?"} -> Again(i + 1)
       [] braced /\ At(p, lo) = RBrace /\ n <= MaxBound -> Again(lo + 1)
       [] braced /\ At(p, lo) = Comma /\ At(p, lo + 1) = RBrace /\ n <= MaxBound -> Again(lo + 2)
       [] braced /\ At(p, lo) = Comma /\ At(p, lo + 1) # RBrace /\ At(p, hi) = RBrace /\ m <= MaxBound /\ m >= n ->
            Again(hi + 1)
       [] At(p, i) \notin {"*", "+", "?"} /\ ~braced -> i
       [] OTHER -> Fail

LeanAtom(p, rec, i) ==
  LET Group(j) == LET close == rec[<<"alt", j>>]
                  IN IF close # Fail /\ At(p, close) = ")" THEN close + 1 ELSE Fail
  IN CASE At(p, i) = "(" /\ At(p, i + 1) = "?" -> IF At(p, i + 2) = ":" THEN Group(i + 3) ELSE Fail
       [] At(p, i) = "(" /\ At(p, i + 1) # "?" -> Group(i + 1)
       [] At(p, i) = "[" -> LeanClass(p, rec, i + 1)
       [] At(p, i) = "\\" -> LeanEscape(p, i + 1).to
       [] At(p, i) \in {End, "*", "+", "?"} -> Fail
       [] OTHER -> i + 1

LeanRepeat(p, rec, i) ==
  LET j == LeanAtom(p, rec, i) IN IF j = Fail THEN Fail ELSE LeanQuantify(p, rec, j)

LeanConcat(p, rec, i) ==
  IF At(p, i) \in {End, "|", ")"} THEN i
  ELSE LET j == LeanRepeat(p, rec, i) IN IF j = Fail THEN Fail ELSE rec[<<"concat", j>>]

LeanAlt(p, rec, i) ==
  LET j == LeanConcat(p, rec, i)
  IN IF j # Fail /\ At(p, j) = "|" THEN rec[<<"alt", j + 1>>] ELSE j

LeanCall(p, rec, f, i) ==
  CASE f = "alt" -> LeanAlt(p, rec, i)
    [] f = "concat" -> LeanConcat(p, rec, i)
    [] f = "quantify" -> LeanQuantify(p, rec, i)
    [] f = "items" -> LeanClassItems(p, rec, i, "next")
LeanAnswers(p) ==
  LET level[n \in Nat] ==
        IF n = 0 THEN Unanswered(p) ELSE [c \in Calls(p) |-> LeanCall(p, level[n - 1], c[1], c[2])]
  IN level

ParserAccepts(p) == LeanAnswers(p)[Len(p) + 1][<<"alt", 1>>] = Len(p) + 1

-----------------------------------------------------------------------------
\* The forms that the plugin refuses on purpose, because RE2 and the runtime
\* read them differently: named classes, octal escapes, a dash after a first
\* "]", escaped letters outside ASCII.
Occurs(p, s) == \E i \in 1 .. Len(p) - Len(s) + 1 : \A k \in 1 .. Len(s) : p[i + k - 1] = s[k]
ReadDifferently(p) ==
  \/ Occurs(p, <<"[", ":">>)
  \/ \E c \in Digits : Occurs(p, <<"\\", "0", c>>)
  \/ Occurs(p, <<"]", "-">>)
  \/ \E c \in ForeignAlnum : Occurs(p, <<"\\", c>>)
=============================================================================
