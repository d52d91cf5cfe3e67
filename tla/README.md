# A TLA+ model of protovalidate-lean

protovalidate-lean turns the protovalidate annotations of `.proto` files into
Lean 4: for every message with rules it generates a *validated* structure, a
declarative predicate `ValidPred`, a decision procedure `checkPred`, and the
theorems that relate them. This directory holds TLA+ models of the parts of it
that carry its own logic, TLC configurations that check them on small
instances, and proofs, checked by TLAPS, that hold for every instance.

## 1. The system

Everything is sequential. A build starts one plugin process per
`lean_protovalidate_library` target; the processes share nothing but the files
they are given, and each decides for itself what the others have generated. The
nondeterminism the model has to face is Go's map iteration order, which files
each run sees, and the data: expressions, schemas, patterns, messages.

```
 .proto --(codegen.bzl)--> protoc-gen-lean-protovalidate   one run per library
                             | generator.go  which messages are validated, cycles
                             | standard.go   standard rules -> CEL or Lean text
                             | emit.go       order, plans, ValidPred, checkPred
                             v
                           celtolean         CEL -> Lean proposition, guards
                             v
 generated Lean ----------> lean/Protovalidate   Runtime, Cel, Regex, Format, Time
                             ^
 Conformance/Executor.lean --+   runs the generated validators on test cases
```

| component | state it keeps | operations | what makes it hard |
|---|---|---|---|
| CEL translator (`celtolean/translate.go`, `functions.go`, `lean.go`) | `negDepth`; the guards of each piece on the way up; the name scope | `expr` and one handler per CEL construct; `closeGuards` | a guard must reach the proposition that CEL's error semantics wants and no other: discharged neither under a negation nor outside its binder, and never lost |
| Numeric domains (`domain.go`, arithmetic of `translate.go`, `Cel.lean`) | domain and folded value of each piece | `arith`, `negate`, `binaryArgs`, `widen`, `checkLiterals`, `foldConstArith` | CEL computes at 64 bits, Lean at the type of the field; literals wrap; overflow tests by hand |
| Generator graph (`leanvalidate/generator.go`, order in `emit.go`) | `needsValid` marks, DFS colours, output order | `resolveNeedsValid`, `checkNoValidCycles`, `generateFile` | fixpoint in random order; two depth-first searches; several runs that must agree |
| Rule lowering (`standard.go`, `pathattrs.go`) | rule list of a field, attributes of the paths of a custom rule | `lowerFieldRules`, one function per rule family, `resolvePaths` | inverted ranges and bounds that a conversion makes equal, nesting into elements, two walks with scopes of their own |
| Generated validators (`emit.go`, `lean/Protovalidate/Runtime.lean`) | the pending `Decision.step`s of each nested call | `checkPred`, `checkArray`, `decodeThenValidate` | first violation through nesting; agreement with `ValidPred` |
| Regex engine (`lean/Protovalidate/Cel/Regex.lean`) | program, instruction set, fuel, position | parser, `quantifyCore`, `compileNode`, `add`, `step`, `search` | epsilon cycles, fuel, counted repetition |
| Regex gate (`regexcheck.go`; probes `regexprobe.go`, `formatprobe.go`) | parser position | accept or refuse a pattern | two parsers of one grammar, in two languages |
| Formats and time (`Cel/Format.lean`, `Cel/Time.lean`) | none | recognisers, arithmetic | boundaries |
| Conformance executor (`Conformance/Executor.lean`) | results so far | `runEntry`, `execute` | one bad case against all |
| Bazel rule, plugin main, tools (`protovalidate/codegen.bzl`, `cmd/`) | none | which files and `valid_deps` reach a run | transitivity |

`PROJECT.json` lists every component with its files, and under `hazards` each
place where the code could go wrong in a way a test would hardly reach.

## 2. Modules

### CEL translation: `CelEval`, `CelTranslator`, `CelTranslatorProofs`

`CelEval` states what evaluating a CEL expression means: a set of environments
in which it is true (`Holds`) and one in which it errs (`Errs`), constrained by
the equations of the operators (absorbing `&&` and `||`, strict `!` and `==`,
lazy `?:`, aggregating `all` and `exists`, non-absorbing `exists_one`,
`filter`, `map`). It is external: the repository has no evaluator and
states CEL only through the comments and README its translator follows.

`CelTranslator` is the recursive walk of `expr`, made explicit. A frame of
`stack` is an active call: its node and the operands already translated.
`Descend` is the recursive call, raising `negDepth` where the handler does;
`ReturnTo` lowers it again. One action
per handler builds the `Piece` the handler returns: its kind (`prop`, `bool`,
`term`), the environments where its text holds, and its *guards*, the
side conditions under which CEL evaluates it without error. Guards are open
(still to be discharged), closed (conjoined into the text), or dependent on a
comprehension variable. `closeGuardsPositive` discharges only when `negDepth`
is zero, as the code does.

| run | checks | instance |
|---|---|---|
| `cel_rules` | `TypeOK`, `Sound`, `Complete`, `NegDepthBalanced`, `NoClosedGuardUnderNegation` | propositional rules: two erring atoms, two data terms and the constants under every connective, two levels deep, with negations and chains one level further; comprehensions: every macro over lists of 0 to 2 elements, bodies that err per element, receivers that err, under and over connectives |
| `cel_lambda_absorbs` | refutes `NeverProvesAnError` | the same with connectives in the bodies of `exists_one`, `filter`, `map` |

`Sound`: a finished translation holds only where CEL evaluates to true,
provided no lambda body and no operand of a strict operator had discharged a
guard of its own (the variable `absorbed` records that one did). `Complete`: it
holds wherever CEL evaluates to true, unless a guard floated out of an operand
that CEL evaluates lazily (`floated`). Each erring atom has a usable and an
unusable value both when it errs and when it does not, so a lost guard, a guard
negated, and a guard demanded too often all change the set of environments. Two
levels are enough for every pair (operator above, operator below), which is
where guards cross a boundary; the third level is there for `negDepth` of two.

### Integer arithmetic: `Arithmetic`, `ArithmeticProofs`

A term over the fields of a rule is built from its leaves up, under one
valuation of the fields. `operands` are the operands that the call under way
has translated; `Arith`, `Negate` and `Compare` are the handlers `arith`,
`negate`, and `binaryArgs` with the term half of `equality`. A `Piece` has the
translator's `dom` and `num` (domain and folded constant) beside what its text
denotes: `lean` gives its value at each type it can elaborate at, since a
literal takes the type of what it meets and wraps, and `ok` says whether its
side conditions hold. `cel` is the value, or the error, that CEL gives the
term. `Shared` is Lean's unification of the two operand types. `foldConstArith` is
translated test by test.

| run | checks | instance |
|---|---|---|
| `arithmetic` | `TypeOK`, `GuardsAreExact`, `ComparisonIsExact`, `RejectedFoldsErr` | every value of two-bit and four-bit fields, signed and unsigned, every literal; terms of any depth in which one operand of each operator is a leaf |
| `arithmetic_division` | refutes `DivisionAgrees` | the same |

Two and four bits keep the ratio that matters: a product of two narrow values
fits the wide type. As a piece holds values and not text, there are finitely
many and no bound on the depth of a term is needed; what is not covered is an
operator with two compound operands. `GuardsAreExact` and `ComparisonIsExact`
leave out terms with a division that errs in CEL, which `arithmetic_division`
refutes, and `ComparisonIsExact` a quotient of constants that meets a field
narrower than 64 bits or of the other signedness. The latter is not folded
(`translate.go:861`), so `checkLiterals` has nothing to check, and its literals
wrap: `this < 4294967296 / 4` on an `int32` field compares with zero. Terms
are type-correct CEL (the translator leaves type errors to later stages); a
comparison of two constants and one of fields of different signedness, which
does not elaborate, are not taken.

### Validated messages: `ValidGraph`, `ValidGraphProofs`

One execution of `Generate`. `Load` takes the messages of the run's own files
and its direct `valid_deps`; `Sweep(m)` is one iteration of the map loop in
`resolveNeedsValid`, in any order, and `SweepAgain` the outer loop;
`VisitRoot`, `VisitField`, `VisitDone` are `checkNoValidCycles` with its
colours; `EmitRoot`, `EmitField`, `EmitDone` the second search, in
`generateFile`, that orders structures; `FileDone` and `FileFails` end a file.
Rules are kept as present, broken (they cannot be lowered), or untranslated
(no Lean form), since nothing else of them decides control here. The
rejection of files that are not proto3 comes before anything else and is left out.

| run | checks | instance |
|---|---|---|
| `valid_graph` | `TypeOK`, `NeedsValidIsLeast`, `NoCycleIsAccepted`, `OnlyCyclesAreRejected`, `DeclaredBeforeUse`, `RunsAgree`, `Terminates` | four libraries. `lib` has one file: all 512 embedding graphs on three messages, two choices of ruled messages, and a sample with lists, maps, field rules, `required`, broken and untranslated rules. `app` (two files) builds on `mid` and `base` and lists both: every way in which five messages in four files embed one another along the imports |
| `valid_chain` | refutes `CrossTargetFieldsValidated` | the same libraries when `app` lists only its direct dependency, `mid` |

`RunsAgree` compares a run with the least fixpoint over the messages of the
library that owns a message: a user of a library must make the decision the
library's own run made. Three messages give every shape of the search:
self-loops, two- and three-cycles, diamonds, cycles behind a finished node.

### Standard rules: `StandardRules`, `FieldRules`, `FieldRulesProofs`

`StandardRules` is `standard.go`: one operator per `lower*Rules` function, from
the record of declared rules to a set of checks. A value is seen through
*measures* (itself, its length, its bytes, its prefixes and so on); a check is a
conjunction or disjunction of atoms over measures, possibly negated, possibly
on every element, key or value. `Round`, the conversion of an integer to a
`float64`, is a constant that is only assumed monotone, since the order of two
integer bounds is decided after it. `FieldRules` is the life of a field's
rules: `IgnoreField`, `LowerStandardRules` and `LowerCustomRule` are the branches
and the loop of `lowerFieldRules`, `Render` is the text with the gate that every
pattern passes, `Build` the `#guard` of each pattern when Lean elaborates the
generated file. The `Means...` operators are the reference: what
protovalidate's rules say of a value, read off the README and the schema
comments and not off the lowering.

### Paths, binders and patterns: `FieldTypes`, `CelPaths`, `RegexGrammar`, `RegexGrammarProofs`, `RuleViews`

`CelPaths` has the two walks that must agree on the paths of a custom rule.
`SelectPaths` and `resolvePaths` collect and resolve them against the
descriptors; the translator computes them again with its own scopes when it
meets a value (`Values`), gives each comprehension variable its Lean name
(`Emitted`, `VarRoot`), and renders a message rule twice, over the structure
and over the base message. A type is the sequence of the words that spell it
(`FieldTypes`), so that a descent below any type is a type again. Expressions are
nested at most `Depth` deep, since a recursive function needs a set to be
defined on: 8 in the instance, which is deeper than any of its rules (TLC checks
`RuleAssumption`, that they are such expressions), and any number in the proofs.
`RegexGrammar` has the gate parser of
`regexcheck.go` and the parser of `Cel/Regex.lean`, each translated function by
function, as operators on a pattern and a position. A call that nests another
one finds its answer in `rec`, and `GoAnswers` and `LeanAnswers` iterate: what
every call answers when calls may nest `n` deep. A nested call starts at a later
position than the call it is in, so `Len(p) + 1` levels are all there is: by
`NestingIsAnswered` they satisfy the recursion of the source exactly.
`FieldRules` uses the two parsers as its gates; `RuleViews` puts the paths into
it and states what the result must satisfy.

| run | checks | instance |
|---|---|---|
| `field_rules` | `TypeOK`, `AcceptsOnlyDeclared`, `AcceptsAllDeclared`, `GateSound`, `GateExact`, `ViewsAsDeclared`, `RejectsOnlyEnumSelects`, `BindersDenote`, `BaseTextDenotes` | every rule family with any two of its rules and all pairs of bounds, on values around them; list and map rules with rules of elements; all patterns up to four characters from each part of the grammar; custom rules over two messages, with nested comprehensions whose variables reuse the names of fields, of the subject and of each other |
| `collapsed_range` | refutes `OrderedBoundsEnclose` | the standard rules of the same instance |

`AcceptsOnlyDeclared` and `AcceptsAllDeclared` are the two directions of "the
generated type has exactly the values the rules accept". What the rules mean
(`Declared` and the `Means...` operators) is protovalidate's, in which a range is
inverted only when its lower bound is greater than its upper one. The first
direction leaves out two bounds that the lowering takes to be equal (`Touches`),
for which it emits a disjunction: bounds that are equal (the theorem
`EqualBoundsRefuseNothing` says what that accepts), and
`int64` bounds that `float64` cannot tell apart (`collapsed_range`). The second
leaves out containers whose element rules say `ignore`, which `lowerItemRules`
does not look at. Numbers run from -8 to 8, with a mantissa of three bits for
`Round` (5 and 7 are halfway cases) and two infinities; times use both sides of
zero and of a second.

`GateSound`: no pattern passes the plugin and is refused by Lean. `GateExact`:
what the gate refuses and Lean would accept has one of four forms that RE2 and
the runtime read differently. `regexcheck.go:15-24` names one of them, POSIX
classes (and RE2's verdict, which is no form); the code also refuses octal `\0`
with a digit, `]` as the start of a range, and an escaped letter or digit
outside ASCII. `MaxBound`
is 2 in place of 512 and `CharLimit` 1024 in place of 1114112, so that a
pattern of four characters can pass either; RE2's own verdict is an input.

`ViewsAsDeclared` and `RejectsOnlyEnumSelects` say that the walk that collected
a path and the one that looks it up mean the same value, whatever names a rule
reuses; they are about values that have a path. What is reached through
`filter`, `map` or `?:` has none (`translate.go:461`), so an enum found there
keeps no view although README.md:311-318 names only free identifiers as the
exception. `BindersDenote` and `BaseTextDenotes`
follow names. In a field rule each name denotes what CEL means by it. A message
rule is written twice: over the base message, where it is decided and proved,
and over the fields of the structure. `BaseName` dodges the fields and every
name in the rules of the message (`emit.go:559-573`, `766-780`), so in the first
text no comprehension captures the base message. In the second one a
comprehension may capture a field; the two texts then differ and the generated
proof does not elaborate, which is a build error and not a wrong rule. A
comprehension variable called `this` is excluded throughout.

### Regex engine: `Program`, `ThreadSets`, `RegexCompiler`, `PikeVM`, `PikeVMProofs`, `RegexCompilerProofs`

`Program` has the instructions. `RegexCompiler` has the pattern trees, the
desugaring of `{n,m}`, `*`, `+`, `?` (`quantifyCore`, `repeatN`, `optChain`), and
the compiler, which emits instructions back to front and patches the split of a
star. `Desugar` and `CompileNode` are recursive functions over trees nested at
most `Depth` deep (`Written`: what the parser reads; `Ast`: what it returns), a
constant that bounds the domains and decides nothing else; the instance nests
less deep than its 10. `PikeVM` is `search`: a `stack` of calls of `add` with their fuel, the
visited set of the position, `Scan` through the instruction set in `step`, `Seed`
for a match that starts here, and `Advance` to the next character. `Language` in
`RegexCompiler` is the reference: the pairs of positions a pattern matches
between, by the usual equations. `ThreadSets` is the abstract search: one step
per character, from the set of instructions the attempts are at to the next
such set, with no recursion, fuel or order. `PikeVM` implements it with `live <-
set`: reading a position to the end is one abstract step, every `add` and
`Scan` a stutter.

| run | checks | instance |
|---|---|---|
| `regex` | `MatchesLanguage`, `FuelSuffices`, `LinearWork` | patterns two operators deep over two characters with anchors and seven quantifier forms, every text up to length 3 |
| `pike` | `TypeOK`, `SetIsReached`, `AnswersAcceptance`, refinement `ImplementsThreadSets` | every program of three instructions over a choice of last ones, loops of splits included, texts up to length 2 |

Length 3 is one more than the largest bound tried, so `{2}` and `{2,}` are told
apart from below and from above. `LinearWork` is the documented promise (module
header, lines 14-16): at most one expansion per instruction and position.

### Generated validators: `MessagePlan`, `Validation`, `Validator`, `ValidatorProofs`

`MessagePlan` has what `emit.go` plans: the *units* of a message type (fields,
oneofs, message rules, in that order), their shape, rule chain, zero escape and
nested parts, and from those `UnitHolds`, the conjuncts of `ValidPred`. A rule
is its id; a value is whether it is set, whether it is zero, the rules true of
it, and the messages in it. `Valid` and `ViolationOf` are constants that an
assumption ties to the conjuncts, one level of nesting at a time, so the
module needs no recursion. `Validation` is the abstract specification: one step from pending to
the verdict. `Validator` walks: `Decode`; for each unit `Absent`
(the `none` branch), `CheckPart` (a nested `checkPred`, for an element of a
list or an embedded message), `CheckRule` (one dependent `if`), `UnitDone`
(`Decision.step`'s `rest`); `Return` of an embedded call. A failing rule ends
everything, as `step`, `imp` and `checkList` pass `.fail` up unchanged.

| run | checks | instance |
|---|---|---|
| `validator` | `TypeOK`, `DecidesValidPred`, refinement `Promise`, liveness `Answers` | three message types, nested two deep: plain, optional, list and oneof units, required or not, rules with and without zero escape; every combination for leaves, all combinations over a sample of three leaves for nodes |
| `validator_required` | refutes `RequiredIsNonZero` | the same |

The expected `Valid` and `ViolationOf` of the instance are computed in
`MCMessages` by a definition of its own (ranks of failures, least first), and
TLC checks the assumption against it.

## 3. Fairness

`valid_graph` and `validator` use weak fairness of the whole next-state
relation and nothing stronger: the code is a sequential program, and a process
that is running takes its next step. Which step a map iteration takes is left
free, so `Terminates` holds for every iteration order. All other
runs check safety only. Every run sets `CHECK_DEADLOCK FALSE`, because a call
that has returned takes no further step.

## 4. Proofs

All proofs are for arbitrary values of the constants under the named
assumptions of the modules (`SyntaxAssumption`, `LayoutAssumption`,
`PlanAssumption`, `RoundAssumption`, `WidthAssumption`, `GrammarAssumption`, `DescriptorAssumption`, `RuleAssumption`, `MarkAssumption`, `CompilerAssumption` and so on), which
TLC evaluates in every run.

| module | theorems | inductive invariant |
|---|---|---|
| `CelTranslatorProofs` | `TypeCorrect`, `NegDepthIsBalanced`, `NothingClosedUnderNegation`, `TranslationSound`, `TranslationComplete` | `Structure` (types, and each frame's operands belong to its node) with `SoundStack` and `CompleteStack`: every piece already returned to a frame is faithful to CEL up to its open guards, where `Sound` and `Complete` speak only of the final result |
| `ValidGraphProofs` | `TypeCorrect`, `ResolutionIsLeastFixpoint`, `AcceptedIsAcyclic`, `RejectedIsCyclic` | `Marked` (every mark is forced; an unmarked message already swept has no marked embed unless `changed`), `Searching` (the gray messages are the stack, in a chain; a black one has only black successors) |
| the same, second half of `Generate` | `StructuresAreOrdered`, `TransitiveRunsAgree` | `DInv`: `Entered` (what the search entered is declared or active, once), `Ordered`, `Behind` (fields an active call is past lead to declared messages), `Linked`, `Handed`, `Unemitted` |
| `FieldRulesProofs`, values and patterns | `TypeCorrect`, `OnlyDeclaredAccepted`, `AllDeclaredAccepted`, `EqualBoundsRefuseNothing`, `GateIsSound`, `GateIsExact` | `StageInv`: after the standard rules, `set` is their lowering with the custom rules so far; `GateInv`: what the two gates have said of the patterns of the field |
| the same, paths and names | `ViewsAreAsDeclared`, `OnlyEnumSelectsRejected`, `FieldBindersDenote`, `BaseTextsDenote` | `ResolvedSoFar`: the attributes kept are those that the rules lowered so far resolve to, and a field fails over a path only at a rule that does not resolve |
| `RegexGrammarProofs` | `AcceptedIsParsed`, `ParsedIsAccepted`, `NestingIsAnswered` | none, the grammar has no state: `Forward` and `Backward` relate the answers of the two parsers at every level of nesting |
| `PikeVMProofs` | `TypeCorrect`, `FuelIsEnough`, `SetsAreClosures`, `SearchIsExact`, `WorkIsLinear`, `ImplementsSets` | `Nested` (fuel exceeds what is unvisited), `Followed` (a visited instruction's successors are visited or pending), `Seeded`, `Visited`, `Earlier` (no acceptance at an earlier position was missed), `Paid` (the calls made are at most the instructions scanned and the places followed) |
| `RegexCompilerProofs` | `SearchMatchesLanguage`, `CompiledProgramsAreWellFormed` | none beyond that of `PikeVMProofs`: `Implements` relates the code of a tree to a set of stretches, by induction over patterns |
| `ArithmeticProofs` | `TypeCorrect`, `GuardsExact`, `ComparisonsExact`, `FoldsRejectErrors`, and `FoldIsExact` about `foldConstArith` | `Good`: every operand satisfies `PieceInv`, which relates a piece's value at each type it can take to CEL's: equal or, for constants, congruent modulo the width; what it folds to; when it is trapped; which literals it was built from |
| `ValidatorProofs` | `TypeCorrect`, `ValidatorDecides`, `ImplementsPromise` | `StackOK`: before the unit, part and rule a frame is at, everything passed; the frame above is the part the frame below waits for; so a failure on top is the first failure of every message on the stack |

The lines of argument:

* *Translator.* A guard of a piece is exactly the difference between where its
  text holds and where CEL is true. Under a negation guards only accumulate,
  so they survive it; at depth zero, discharging them turns the difference into
  the equality that `Sound` and `Complete` need. `TranslationSound` keeps the
  proviso on lambda bodies, which `cel_lambda_absorbs` shows to be necessary.
* *Graph.* Each mark belongs to every set closed under embedding, so the marks
  are within the least one; when a sweep ends without a change they are closed.
  A run of colours without a gray hit leaves a set of black messages whose
  edges lead to messages blackened before them: no endless set.
* *Declarations.* When a message is declared, its call is past all of its
  fields, and each field that stays in the file led to a message declared
  before: `Behind` at the last field is `Ordered` for the new entry.
  `StructuresAreOrdered` needs that the run passed the cycle check.
  `TransitiveRunsAgree` is for libraries that list their `valid_deps`
  transitively (`TransitiveDeps`); `valid_chain` shows that it fails for others.
* *Field rules.* One lemma per rule family says that its checks hold of a
  value exactly when its rules are met, touching bounds aside; the range lemma
  is where `Round` and equal bounds matter. Quantification over elements follows from the lemmas on leaves.
* *Paths and names.* Both by induction on expressions. A scope `Tracks` types when
  each variable that has a path has the type found along that path; it is
  `Known` when those paths were collected; and the environment of the
  collecting walk is what the scope of the translating walk says of paths. A
  macro keeps all three for its body; there the two walks' rules for a variable
  over a value without a path must agree. Then a value's attribute is that of
  its type, and an enum that is not the end of a path is an enum selected from.
  For names a scope is `Hygienic`: an emitted name is never the name that stands
  for `this`, and two comprehensions have the same one only if they have the
  same variable, so the innermost binder of the name is the innermost binder of
  the variable. In a message rule `this` has a fresh name, so variables keep
  theirs, and the name of the base message, which dodges them, is bound nowhere.
* *Gate.* The two parsers are related function by function, from any position
  and for any answers of the nested calls that are related already. Escapes and
  quantifiers agree outright. In a class they differ in the number of calls: a
  "-" before "]" is an item of its own for the plugin, while the runtime jumps
  to the "]"; so the relation compares a call with what follows it. Induction
  on the level of nesting gives the two theorems on patterns, which `GateInv`
  carries to the life of a field. A handler asks only for calls at later
  positions, so one more level than there are positions changes no answer.
* *Search.* `add` terminates because every call marks a new instruction; the
  fuel of a call is at least one more than the unmarked ones. The set at a
  position is the closure of the seeds; acceptance is `done` in it. The set
  read to the end is the least one that `ThreadSets` asks for, which makes the
  step an abstract one.
* *Compiler.* A recursive definition means something only when a function with
  its equations exists: one is built level by level of nesting, and induction
  over trees follows. `Implements(a, R, s)` says of the code of a tree `a`, in any
  program that holds it, two things. A set of places closed under the moves of the
  machine that holds the entry at `i` holds the exit at `j`, for each stretch
  `<<i, j>>` of `R` (nothing is missed). And attempts that enter at the positions of a
  set can be confined to the code and to the exits at the ends of stretches of `R` that
  start in it (nothing is added). Each constructor composes these; star needs that as many
  repetitions as there are characters are as many as one likes, since repetitions
  that do not advance can be dropped. Repetition is then arithmetic of powers,
  and an epsilon that the parser drops means the diagonal. With the entry at
  every position the two halves are the two directions of `MatchesLanguage`,
  through the acceptance that `SearchIsExact` is about. `Wired` (all indices
  so far are inside the program) is kept by every handler of the compiler:
  `CompiledProgramsAreWellFormed`, so the assumption of `PikeVMProofs` on
  programs holds of all compiled ones.
* *Linear work.* Each call of `add` is paid by an instruction of the previous
  set that the scan has passed, by the fresh attempt at the position, or by one
  place (instruction and branch) that was followed behind the calls still
  active; an instruction is followed once, as it is marked before, and has at
  most two branches.
* *Arithmetic.* A width is any number of bits up to 64; a power of two is the
  number of subsets of the bits, so that its laws come from counting and not from
  an induction. Wrapping is characterised as the one number in range with the
  same residue, and commutes with sums, differences and products of residues.
  `FoldIsExact` goes through the overflow tests of `foldConstArith` one by one.
  A side condition then is CEL's range test, and a comparison at the shared
  type compares the CEL values because `checkLiterals` put them in its range.
* *Validator.* The abstract step happens exactly when `outcome` leaves pending;
  every other step leaves both variables of `Validation` alone, so the refinement
  mapping is the identity and the invariant gives the verdict.

Only model-checked: `Terminates` and `Answers`, which are liveness. All other
properties of the passing runs are theorems.

## 5. What the runs found

Five statements of the documentation and of comments do not hold of the code;
each is a run that is expected to be violated.

1. README.md:271-273 says that an erring rule is never provable. In
   `exists_one`, `filter` and `map` (`functions.go:388`) the body is translated
   in a positive context, so `x + 1 > 0 && p` discharges its guard inside the
   lambda; an element whose evaluation errs counts as not matching.
2. README.md:403-406 says cross-target references work through `valid_deps`.
   They do for direct ones. A message embedded from the target of a dependency
   is outside the covered files (`codegen.bzl:83`), and its validation
   is dropped without a word.
3. README.md:146-149 says `required` gives implicit-presence fields a non-zero
   rule. With `IGNORE_IF_ZERO_VALUE` the zero escape surrounds that rule too
   (`emit.go:462`), and zero is accepted.
4. README.md:271-275 says that integer division and modulo agree exactly with
   CEL. They agree in value, but `arith` (`translate.go:861`) attaches no side
   condition to them, and where CEL errs, on a zero divisor or on the least
   integer divided by -1, Lean has a value: `10 / this >= 0` is satisfied at zero.
5. The comment at `standard.go:601-602` promises the inverted-range disjunction
   when `lt <= gt`. `lowerIntRules` compares the bounds as `float64` (`standard.go:586`),
   so two `int64` bounds above 2^53 that differ by little count as equal and
   the field accepts values outside both. `lowerUintRules` compares exactly.

A sixth one is a theorem instead of a run. The same comment says that
`lowerNumeric` "implements protovalidate's shared numeric semantics". There,
equal bounds are a normal range: `gte: 5, lte: 5` means exactly 5. `lowerNumeric`
(`standard.go:615`) and `lowerTimeCmp` (`standard.go:276`) emit the disjunction
`this <= 5 || this >= 5`, which every value satisfies: `EqualBoundsRefuseNothing`.
It is why `AcceptsOnlyDeclared` leaves out bounds that touch.

## 6. Not modelled

Abstracted inside the modules: text layout and precedence; strict
operations (selection, arithmetic, relations, library functions) share one
action of `CelTranslator` that takes the errors of its operands and possibly
one of its own; rule contents in `ValidGraph`; violation messages.

| left out | why |
|---|---|
| `float` and `double` arithmetic, list and map literals, conditionals with literal branches in `Arithmetic` | floats do not wrap and their rounding is out of TLC's reach; the rest would be more of the same checks on literals |
| relations and `in` over the result of a connective (`translate.go:809`) | `Strict` records in `absorbed` that such an operand had discharged its guards, and `Sound` leaves it out; whether Lean accepts a proposition there is not settled by the repository |
| hypotheses of other rules in the base text of a message rule (`emit.go:905-971`) | they stand in proof positions, where a comprehension variable, which is data, does not elaborate; a captured one cannot change what the rule means |
| hypothesis names h0 to h63 of a rule chain (`emit.go:433`) | a rule is its id in `Validator`; a longer chain is refused |
| `pathAttrsForElement` | the walk of `resolvePaths` from an element's type; rules of elements are predicates without paths here |
| probes (`regexprobe.go`, `formatprobe.go`) | they print test vectors that Lean evaluates while it builds and decide nothing in the generator |
| RE2 | a library; its verdict on a pattern is an input |
| string formats (`Cel/Format.lean`) | pure recognisers; their reference is RFC text outside the repository, which tests them against cel-go |
| conversions and sums of times (`Cel/Time.lean`) | they concern the ends of 64-bit ranges; TLC's integers have 32 bits. Order and equality are in `StandardRules` |
| `toBase`, `encode`, view functions | no verdict depends on them |
| the tree that the Lean regex parser builds | `RegexGrammar` says which patterns it accepts, `RegexCompiler` starts from trees |
| conformance executor | one pass over independent cases with no state between them |
| `Cel/FormatLaws.lean` | theorems the Lean kernel already checks |
| `cmd/`, most of `codegen.bzl`, corpora, `third_party`, examples, vendored schemas | flag parsing, staging, file output, data |
