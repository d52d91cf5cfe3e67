------------------------------- MODULE MCPike -------------------------------
(* Programs of three instructions, compiled from a pattern or not: loops of  *)
(* splits, assertions on loops, unreachable instructions.                    *)
EXTENDS PikeVM

CONSTANTS a, b

Pcs == 1 .. 3
Mk(op, cs, to) == [op |-> op, accepts |-> cs, to |-> to]
Insts ==
  {Mk("char", {a}, <<p>>) : p \in Pcs}
    \cup {Mk("split", {}, <<p, q>>) : p, q \in Pcs}
    \cup {Mk(op, {}, <<p>>) : op \in {"assertStart", "assertEnd"}, p \in Pcs}
    \cup {Mk("done", {}, <<>>)}

Last == {Mk("done", {}, <<>>), Mk("char", {a}, <<1>>), Mk("split", {}, <<2, 1>>)}

MCPattern == {[insts |-> <<i, j, k>>, entry |-> 1] : i \in Insts, j \in Insts, k \in Last}
MCProgOf == [p \in MCPattern |-> p]
MCInput == {<<>>, <<a>>, <<b>>, <<a, a>>}
=============================================================================
