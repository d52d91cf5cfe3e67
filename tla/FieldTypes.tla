----------------------------- MODULE FieldTypes -----------------------------
(***************************************************************************)
(* The types of fields and of CEL values, as the descriptors have them: a  *)
(* type is the sequence of the words that spell it.  <<"list", "enum">> is *)
(* a list of enums, <<"map", "string", "message", "M">> a map from strings *)
(* to messages M; the key of a map is one word.  What has no type spells   *)
(* nothing.                                                                *)
(***************************************************************************)
EXTENDS Integers, Sequences

\* The words that types and paths are spelled with.  (They all are strings,
\* which the provers do not know of a literal.)
Iterated == "[]"
Indexed == "[*]"
Nowhere == "no path"
Words == STRING \cup {"none", "list", "bool", Iterated, Indexed, Nowhere}

Type == Seq(Words)

Scalar(kind) == <<kind>>
Message(m) == <<"message", m>>
List(t) == <<"list">> \o t
Map(k, t) == <<"map", k>> \o t
NoType == <<>>

Word(t, i) == IF i \in 1 .. Len(t) THEN t[i] ELSE "none"
Kind(t) == Word(t, 1)
KeyOf(t) == Scalar(Word(t, 2))
ElemOf(t) == SubSeq(t, IF Kind(t) = "map" THEN 3 ELSE 2, Len(t))

Numeric == {"int32", "int64", "uint32", "uint64", "float", "double"}
=============================================================================
