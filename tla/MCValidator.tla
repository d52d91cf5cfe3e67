---------------------------- MODULE MCValidator ----------------------------
(* The validator of the message types of MCMessages.                       *)
EXTENDS MCMessages, Validator
=============================================================================
