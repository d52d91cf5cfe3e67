------------------------------ MODULE Program ------------------------------
(***************************************************************************)
(* The programs that lean/Protovalidate/Cel/Regex.lean compiles a pattern  *)
(* to, and what one instruction does at a position of the input.           *)
(* Program indices start at 1.                                             *)
(***************************************************************************)
EXTENDS Naturals, Sequences, FiniteSets

CONSTANTS
  Char,
  Pattern,  \* what is matched,
  ProgOf,   \*   with the compiled program of each: [insts, entry]
  Input     \* the strings searched

Pc(prog) == DOMAIN prog.insts

\* accepts: the characters a char instruction takes.  to: where it leads.
Inst == [op : {"char", "split", "assertStart", "assertEnd", "done"},
         accepts : SUBSET Char, to : Seq(Nat)]

\* How many instructions an instruction names.
Arity(op) == CASE op = "split" -> 2 [] op = "done" -> 0 [] OTHER -> 1

\* The compiler leaves no dangling index.
WellFormed(prog) ==
  /\ prog.insts \in Seq(Inst)
  /\ prog.entry \in Pc(prog)
  /\ \A pc \in Pc(prog) :
       LET i == prog.insts[pc]
       IN  /\ \A k \in DOMAIN i.to : i.to[k] \in Pc(prog)
           /\ Len(i.to) = Arity(i.op)

ASSUME ProgramAssumption ==
  /\ Input \subseteq Seq(Char)
  /\ \A p \in Pattern : WellFormed(ProgOf[p])

VARIABLES pattern, input

Prog == ProgOf[pattern].insts
Entry == ProgOf[pattern].entry
Size == Len(Prog)
At(pc) == Prog[pc]

\* Where an instruction leads without consuming a character.
Eps(pc, p) ==
  IF \/ At(pc).op = "split"
     \/ At(pc).op = "assertStart" /\ p = 0
     \/ At(pc).op = "assertEnd" /\ p = Len(input)
  THEN At(pc).to
  ELSE <<>>

\* It takes the p-th character of the input.
Takes(pc, p) == At(pc).op = "char" /\ input[p] \in At(pc).accepts

\* hasDone
HasDone(S) == \E pc \in S : At(pc).op = "done"
=============================================================================
