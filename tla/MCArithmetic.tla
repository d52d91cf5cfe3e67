---------------------------- MODULE MCArithmetic ----------------------------
(* Every value of two- and four-bit fields, every literal.  A product of   *)
(* narrow fields fits a wide one, as it does with 32 and 64 bits.          *)
EXTENDS Arithmetic
=============================================================================
