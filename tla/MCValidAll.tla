----------------------------- MODULE MCValidAll -----------------------------
(***************************************************************************)
(* Four libraries, each generated by a run of its own.  lib has one file   *)
(* with three messages: every embedding graph between them, and a sample   *)
(* of the field kinds that embed nothing.  app (files f1, f2), mid and     *)
(* base are built on one another.                                          *)
(***************************************************************************)
EXTENDS ValidGraph, SequencesExt

CONSTANTS
  a, b, c, a1, a2, b1, b2, d, f, f1, f2, g, h, lib, app, mid, base,
  AppDeps,    \* the valid_deps of app
  AppImports  \* the messages that the protos of app can name besides a1, a2

MCMessage == {a, b, c, a1, a2, b1, b2, d}
Plain(t) == [kind |-> "singular", type |-> t, rules |-> FALSE, required |-> FALSE]
Row(ts) ==
  SelectSeq(<<Plain(a), Plain(b), Plain(c), Plain(a1), Plain(a2), Plain(b1), Plain(b2), Plain(d)>>,
            LAMBDA fd : fd.type \in ts)
MkSchema(fields, ruled, broken, untranslated) ==
  [fields |-> fields @@ [m \in MCMessage |-> <<>>],
   ruled |-> ruled, broken |-> broken, untranslated |-> untranslated]

Graphs == [{a, b, c} -> SUBSET {a, b, c}]
PlainSchemas ==
  {MkSchema([m \in {a, b, c} |-> Row(gr[m])], ruled, {}, {}) : gr \in Graphs, ruled \in {{a}, {a, c}}}

\* b embeds a back, and a holds b in one more way.
Odd == [kind : {"singular", "list", "map"}, type : {b, None}, rules : BOOLEAN, required : BOOLEAN]
OddSchemas ==
  {MkSchema([m \in {a, b, c} |-> CASE m = a -> <<fd>> [] m = b -> ts [] OTHER -> <<Plain(a)>>],
            ruled, broken, untranslated) :
     fd \in Odd, ts \in {<<>>, <<Plain(a)>>}, ruled \in {{}, {b}},
     <<broken, untranslated>> \in {<<{}, {}>>, <<{c}, {}>>, <<{}, {b}>>}}

\* f1 imports f2; b1 and b2 may embed each other.
LibrarySchemas ==
  {MkSchema(a1 :> Row(t1) @@ a2 :> Row(t2) @@ b1 :> Row(u1) @@ b2 :> Row(u2), ruled, {}, {}) :
     t1 \in SUBSET ({a2} \cup (AppImports \ {b2})), t2 \in {{}, {b2}},
     u1 \in {{}, {b2}, {d}}, u2 \in {{}, {b1}, {d}}, ruled \in {{b1}, {d}, {a1, d}}}

MCSchemas == PlainSchemas \cup OddSchemas \cup LibrarySchemas
MCFile == {f, f1, f2, g, h}
MCFileOf == (a :> f @@ b :> f @@ c :> f @@ a1 :> f1 @@ a2 :> f2 @@ b1 :> g @@ b2 :> g @@ d :> h)
MCDeclared == (f :> <<b, a, c>> @@ f1 :> <<a1>> @@ f2 :> <<a2>> @@ g :> <<b1, b2>> @@ h :> <<d>>)
MCFilesOf == (lib :> <<f>> @@ app :> <<f1, f2>> @@ mid :> <<g>> @@ base :> <<h>>)
MCValidDeps == (lib :> {} @@ app :> AppDeps @@ mid :> {base} @@ base :> {})
MCName == (a :> 2 @@ b :> 1 @@ c :> 3 @@ a1 :> 1 @@ a2 :> 2 @@ b1 :> 3 @@ b2 :> 4 @@ d :> 5)
=============================================================================
