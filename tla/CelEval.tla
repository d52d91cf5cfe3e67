------------------------------ MODULE CelEval ------------------------------
(***************************************************************************)
(* CEL expressions and what their evaluation means: true, false, or an     *)
(* error.  The evaluator is not part of the repository, which translates   *)
(* expressions instead of running them; the equations below are the ones   *)
(* its comments and README state CEL by (error-absorbing && and ||,        *)
(* error-strict !, == and conditions, lazily evaluated branches,           *)
(* aggregating all/exists, non-absorbing exists_one/filter/map).           *)
(*                                                                         *)
(* An environment is a message value together with a value for each        *)
(* comprehension variable in scope.  Non-boolean data is seen through one  *)
(* boolean observation, so that the value of every expression is given by  *)
(* the set of environments in which it is true and the set in which its    *)
(* evaluation errors.                                                      *)
(***************************************************************************)
EXTENDS Naturals, Sequences

CONSTANTS
  Node,            \* the expressions, with all their subexpressions
  Op,              \* Op[n], which handler of `expr` and `call` n belongs to
  Kids,            \* Kids[n], its operands (the flattened spine of && and ||)
  Env,             \* evaluation environments
  Elem(_, _),      \* Elem(n, e), the pairs <<i, f>> where f is e with the
                   \* variable of comprehension n bound to its i-th element
  Own,             \* Own[n], the error a strict operation can add itself
  Apply(_, _, _),  \* Apply(n, e, ts), the value of a strict operation whose
                   \* operands numbered in ts are true
  Fails(_, _, _),  \* Fails(n, e, ts), it errors on such operands
  Holds,           \* Holds[n], the environments where n evaluates to true
  Errs             \* Errs[n], the environments where evaluating n errors

Literals == {"true", "false"}
Chains == {"and", "or"}
Quantifiers == {"all", "exists"}
Lambdas == {"exists_one", "filter", "map", "mapIf"}
Ops == {"strict", "not", "equal", "conditional"}
         \cup Literals \cup Chains \cup Quantifiers \cup Lambdas

ASSUME SyntaxAssumption ==
  /\ Op \in [Node -> Ops]
  /\ Kids \in [Node -> Seq(Node)]
  /\ Own \in [Node -> {"none", "plain", "dependent"}]
  /\ \A n \in Node :
       /\ Op[n] \in Literals => Len(Kids[n]) = 0
       /\ Op[n] = "not" => Len(Kids[n]) = 1
       /\ Op[n] \in {"equal", "exists_one", "filter", "map"} \cup Quantifiers => Len(Kids[n]) = 2
       /\ Op[n] \in {"conditional", "mapIf"} => Len(Kids[n]) = 3
       /\ Op[n] \in Chains => Len(Kids[n]) > 0

ASSUME EnvAssumption ==
  \A n \in Node, e \in Env : \A x \in Elem(n, e) : x[2] \in Env

-----------------------------------------------------------------------------
Kid(n, i) == Kids[n][i]
TrueKids(n, e) == {i \in DOMAIN Kids[n] : e \in Holds[Kid(n, i)]}
AnyKidErrs(n, e) == \E i \in DOMAIN Kids[n] : e \in Errs[Kid(n, i)]

\* Elements of a comprehension whose body (operand j) is true, or errors.
TrueElems(n, e, j) == {x \in Elem(n, e) : x[2] \in Holds[Kid(n, j)]}
ErrElems(n, e, j) == {x \in Elem(n, e) : x[2] \in Errs[Kid(n, j)]}

IsFalse(m, e) == e \notin Holds[m] /\ e \notin Errs[m]

\* A branch of a conditional is evaluated only when it is taken.
Branch(n, e) == IF e \in Holds[Kid(n, 1)] THEN Kid(n, 2) ELSE Kid(n, 3)

CelErrs(n, e) ==
  \/ /\ Op[n] = "strict"
     /\ \/ AnyKidErrs(n, e)
        \/ Own[n] # "none" /\ Fails(n, e, TrueKids(n, e))
  \/ /\ Op[n] \in {"not", "equal"}
     /\ AnyKidErrs(n, e)
  \/ /\ Op[n] = "and"
     /\ AnyKidErrs(n, e)
     /\ \A i \in DOMAIN Kids[n] : ~IsFalse(Kid(n, i), e)
  \/ /\ Op[n] = "or"
     /\ AnyKidErrs(n, e)
     /\ TrueKids(n, e) = {}
  \/ /\ Op[n] = "conditional"
     /\ e \in Errs[Kid(n, 1)] \/ e \in Errs[Branch(n, e)]
  \/ /\ Op[n] \in Quantifiers \cup Lambdas
     /\ e \in Errs[Kid(n, 1)]
  \/ /\ Op[n] = "all"
     /\ ErrElems(n, e, 2) # {}
     /\ \A x \in Elem(n, e) : ~IsFalse(Kid(n, 2), x[2])
  \/ /\ Op[n] = "exists"
     /\ ErrElems(n, e, 2) # {}
     /\ TrueElems(n, e, 2) = {}
  \/ /\ Op[n] \in Lambdas
     /\ ErrElems(n, e, 2) # {}
  \/ /\ Op[n] = "mapIf"
     /\ ErrElems(n, e, 3) \cap TrueElems(n, e, 2) # {}

CelHolds(n, e) ==
  /\ ~CelErrs(n, e)
  /\ \/ Op[n] = "true"
     \/ Op[n] = "strict" /\ Apply(n, e, TrueKids(n, e))
     \/ Op[n] = "not" /\ TrueKids(n, e) = {}
     \/ Op[n] = "equal" /\ TrueKids(n, e) \in {{}, {1, 2}}
     \/ Op[n] = "and" /\ TrueKids(n, e) = DOMAIN Kids[n]
     \/ Op[n] = "or" /\ TrueKids(n, e) # {}
     \/ Op[n] = "conditional" /\ e \in Holds[Branch(n, e)]
     \/ Op[n] = "all" /\ TrueElems(n, e, 2) = Elem(n, e)
     \/ Op[n] \in {"exists", "filter", "map"} /\ TrueElems(n, e, 2) # {}
     \/ Op[n] = "exists_one" /\ \E x \in Elem(n, e) : TrueElems(n, e, 2) = {x}
     \/ Op[n] = "mapIf" /\ TrueElems(n, e, 2) \cap TrueElems(n, e, 3) # {}

ASSUME EvalAssumption ==
  \A n \in Node :
    /\ Errs[n] = {e \in Env : CelErrs(n, e)}
    /\ Holds[n] = {e \in Env : CelHolds(n, e)}
=============================================================================
