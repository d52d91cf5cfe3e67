---------------------------- MODULE MessagePlan ----------------------------
(***************************************************************************)
(* What leanvalidate/emit.go plans for a message type, and what the        *)
(* generated `ValidPred` says of a message.                                *)
(*                                                                         *)
(* A unit is a field, a oneof, or the message-level rules.  A field has    *)
(* one member, itself.  Of the content a message has for a unit, the       *)
(* model keeps whether it is set, whether it is the protobuf zero value,   *)
(* which rules evaluate to true on it, and the messages it holds.          *)
(***************************************************************************)
EXTENDS Integers, Sequences

CONSTANTS
  Message,      \* message values, with all the messages they hold
  Type,
  TypeOf,       \* TypeOf[m], the type of message m
  FieldUnits,   \* FieldUnits[t], the fields of t outside oneofs,
  OneofUnits,   \*   its oneofs, both in declaration order,
  MessageRules, \*   and its message-level rules
  Contents,     \* Contents[m], what m has for each unit of its type
  Name,         \* names of fields and oneofs, and the empty path
  NoName,
  Rule,         \* rule ids
  Required,     \* the id "required"
  Valid,        \* the messages that satisfy their ValidPred
  ViolationOf,  \* ViolationOf[m], the first rule a message fails
  Malformed     \* bytes that do not decode

\* nested: the message type of the field has a validated variant.
Member == [name : Name, rules : Seq(Rule), ignoreZero : BOOLEAN, nested : BOOLEAN]
Unit == [name : Name, shape : {"plain", "option", "list", "oneof", "message"},
         required : BOOLEAN, members : Seq(Member)]
Content == [set : BOOLEAN, member : Nat, zero : BOOLEAN, holds : SUBSET Rule,
            parts : Seq(Message)]
Violation == [verdict : {"violation"}, path : Name, rule : Rule]
Refusal(path, rule) == [verdict |-> "violation", path |-> path, rule |-> rule]

\* Fields, then oneofs, then message-level rules.
MessageUnit(t) ==
  [name |-> NoName, shape |-> "message", required |-> FALSE,
   members |-> <<[name |-> NoName, rules |-> MessageRules[t], ignoreZero |-> FALSE,
                  nested |-> FALSE]>>]
Units(m) ==
  LET t == TypeOf[m] IN FieldUnits[t] \o OneofUnits[t] \o <<MessageUnit(t)>>

ASSUME PlanAssumption ==
  /\ NoName \in Name /\ Required \in Rule /\ Malformed \notin Message
  /\ TypeOf \in [Message -> Type]
  /\ FieldUnits \in [Type -> Seq(Unit)]
  /\ OneofUnits \in [Type -> Seq(Unit)]
  /\ MessageRules \in [Type -> Seq(Rule)]

ASSUME ContentAssumption ==
  /\ Contents \in [Message -> Seq(Content)]
  /\ \A m \in Message :
       /\ Len(Contents[m]) = Len(Units(m))
       /\ \A u \in DOMAIN Units(m) :
            LET c == Contents[m][u] IN
            /\ c.member \in DOMAIN Units(m)[u].members
            /\ Units(m)[u].shape \in {"plain", "list", "message"} => c.set
            /\ Required \in c.holds <=> ~c.zero

-----------------------------------------------------------------------------
(* The plan of a unit.                                                     *)

\* The field, or the member of the oneof that is set.
Active(m, u) == Units(m)[u].members[Contents[m][u].member]

\* `required` where absence cannot be told from zero is a rule of its own.
Chain(m, u) ==
  IF Units(m)[u].required /\ Units(m)[u].shape \in {"plain", "list"}
  THEN <<Required>> \o Active(m, u).rules
  ELSE Active(m, u).rules

\* The messages of a unit that their own validation decides: rules on a
\* singular field look at the base message instead.
Parts(m, u) ==
  IF Active(m, u).nested /\ (Units(m)[u].shape = "list" \/ Active(m, u).rules = <<>>)
  THEN Contents[m][u].parts
  ELSE <<>>

\* zeroEscape
Escapes(m, u) == Active(m, u).ignoreZero /\ Contents[m][u].zero

IsSet(m, u) == Contents[m][u].set
Satisfied(m, u) == Contents[m][u].holds

-----------------------------------------------------------------------------
(* ValidPred, and the first violation.                                     *)

First(S) == CHOOSE i \in S : \A j \in S : i <= j

BadParts(m, u) == {i \in DOMAIN Parts(m, u) : Parts(m, u)[i] \notin Valid}
BadRules(m, u) ==
  IF Escapes(m, u) THEN {} ELSE {i \in DOMAIN Chain(m, u) : Chain(m, u)[i] \notin Satisfied(m, u)}

\* The conjuncts of a unit hold.
UnitHolds(m, u) ==
  IF IsSet(m, u) THEN BadParts(m, u) = {} /\ BadRules(m, u) = {}
                 ELSE ~Units(m)[u].required
BadUnits(m) == {u \in DOMAIN Units(m) : ~UnitHolds(m, u)}

UnitViolation(m, u) ==
  IF ~IsSet(m, u) THEN Refusal(Units(m)[u].name, Required)
  ELSE IF BadParts(m, u) # {} THEN ViolationOf[Parts(m, u)[First(BadParts(m, u))]]
  ELSE Refusal(Active(m, u).name, Chain(m, u)[First(BadRules(m, u))])

ASSUME ValidAssumption ==
  /\ Valid = {m \in Message : BadUnits(m) = {}}
  /\ \A m \in Message \ Valid : ViolationOf[m] = UnitViolation(m, First(BadUnits(m)))
=============================================================================
