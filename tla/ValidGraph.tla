----------------------------- MODULE ValidGraph -----------------------------
(***************************************************************************)
(* Which messages get a validated variant, and in which order they are     *)
(* declared: leanvalidate/generator.go (Generate) and the ordering half of *)
(* leanvalidate/emit.go (generateFile).                                    *)
(*                                                                         *)
(* A library is one lean_protovalidate_library target: one execution of    *)
(* the plugin, which sees the messages of its own files and of the files   *)
(* of its direct valid_deps and of nothing else.  Rules are abstracted to  *)
(* their presence.                                                         *)
(***************************************************************************)
EXTENDS Naturals, Sequences, FiniteSets, Functions

CONSTANTS
  Message,
  None,      \* the type of a field that is not a message
  File,
  Library,
  FileOf,    \* FileOf[m], the proto file that declares message m
  Declared,  \* Declared[f], the messages of file f in walkMessages order
  FilesOf,   \* FilesOf[l], the files of library l in request order
  ValidDeps, \* ValidDeps[l], the libraries l lists as valid_deps
  Name,      \* Name[m], the rank of m's full name in the sorted names
  Schemas    \* the message definitions explored

Field == [kind : {"singular", "list", "map"}, type : Message \cup {None},
          rules : BOOLEAN, required : BOOLEAN]

\* ruled: message-level rules, or a required oneof.  broken: a field whose
\* rules cannot be lowered.  untranslated: a rule that has no Lean form.
Schema == [fields : [Message -> Seq(Field)], ruled : SUBSET Message,
           broken : SUBSET Message, untranslated : SUBSET Message]

ASSUME LayoutAssumption ==
  /\ IsFiniteSet(Message)
  /\ None \notin Message
  /\ FileOf \in [Message -> File]
  /\ Declared \in [File -> Seq(Message)]
  /\ \A f \in File :
       /\ Range(Declared[f]) = {m \in Message : FileOf[m] = f}
       /\ \A i, j \in DOMAIN Declared[f] : Declared[f][i] = Declared[f][j] => i = j
  /\ FilesOf \in [Library -> Seq(File)]
  /\ \A l \in Library : \A i, j \in DOMAIN FilesOf[l] :
       FilesOf[l][i] = FilesOf[l][j] => i = j
  /\ ValidDeps \in [Library -> SUBSET Library]
  /\ Name \in [Message -> Nat]
  /\ Schemas \subseteq Schema

VARIABLES
  library,     \* the library this run generates
  schema,      \* the message definitions
  status,      \* where Generate is, or how it ended
  needsValid,  \* the messages marked msgInfo.needsValid
  unswept,     \* resolveNeedsValid: messages left in this sweep of the map
  changed,     \*   and its `changed` flag
  color,       \* checkNoValidCycles: white, gray or black
  stack,       \* active calls of visit, or of dfs: message and next field
  output,      \* the files generated, in order
  at,          \* generateFile: next message of the walk over the file
  seen,        \*   and the messages dfs has entered
  order        \*   and the messages it has finished

vars == <<library, schema, status, needsValid, unswept, changed, color, stack,
          output, at, seen, order>>

-----------------------------------------------------------------------------
(* The schema as a run sees it.                                            *)

Targets(l) == Range(FilesOf[l])
\* Mutant: the files of the valid_deps are not covered.
CoveredTargets(l) == Targets(l)

Covered(l) == Targets(l) \cup UNION {Targets(d) : d \in ValidDeps[l]}
Msgs(l) == LET files == Covered(l) IN {m \in Message : FileOf[m] \in files}

\* validFieldEdge: fd embeds the validated variant of its type.
Embeds(l, fd) ==
  /\ fd.type # None
  /\ fd.kind # "map"
  /\ fd.kind = "list" \/ ~fd.rules
  /\ FileOf[fd.type] \in Covered(l)

Fields(m) == schema.fields[m]
EdgeTo(l, m) == {Fields(m)[k].type : k \in {j \in DOMAIN Fields(m) : Embeds(l, Fields(m)[j])}}

\* newMsgInfo's hasOwn.
HasOwn == schema.ruled \cup
            {m \in Message : \E k \in DOMAIN Fields(m) : Fields(m)[k].rules \/ Fields(m)[k].required}

\* A set of messages that can be the needsValid ones, and the least of them.
ClosedUnderEdges(l, S) ==
  /\ HasOwn \cap Msgs(l) \subseteq S
  /\ \A m \in Msgs(l) : EdgeTo(l, m) \cap S # {} => m \in S
ValidIn(l) == {m \in Msgs(l) : \A S \in SUBSET Msgs(l) : ClosedUnderEdges(l, S) => m \in S}

Deps(m) == EdgeTo(library, m) \cap needsValid

Init ==
  /\ library \in Library
  /\ schema \in Schemas
  /\ status = "load"
  /\ needsValid = {}
  /\ unswept = {}
  /\ changed = FALSE
  /\ color = [m \in Message |-> "white"]
  /\ stack = <<>>
  /\ output = <<>>
  /\ at = 1
  /\ seen = {}
  /\ order = <<>>

-----------------------------------------------------------------------------
(* Generate: load every covered file, then resolveNeedsValid.              *)

Load ==
  /\ status = "load"
  /\ IF schema.broken \cap Msgs(library) # {}
     THEN /\ status' = "invalid"
          /\ UNCHANGED <<needsValid, unswept>>
     ELSE /\ status' = "resolve"
          /\ needsValid' = HasOwn \cap Msgs(library)
          /\ unswept' = Msgs(library)
  /\ UNCHANGED <<library, schema, changed, color, stack, output, at, seen, order>>

\* One iteration over the map, whose order Go leaves open.
Sweep(m) ==
  /\ status = "resolve"
  /\ m \in unswept
  /\ unswept' = unswept \ {m}
  /\ IF m \notin needsValid /\ Deps(m) # {}
     THEN needsValid' = needsValid \cup {m} /\ changed' = TRUE
     ELSE UNCHANGED <<needsValid, changed>>
  /\ UNCHANGED <<library, schema, status, color, stack, output, at, seen, order>>

\* Mutants: one sweep is thought enough; `changed` is never reset.
SweepOnce ==
  /\ status = "resolve"
  /\ unswept = {}
  /\ status' = "cycles"
  /\ changed' = FALSE
  /\ UNCHANGED <<library, schema, needsValid, unswept, color, stack, output, at, seen, order>>
SweepForever ==
  /\ status = "resolve"
  /\ unswept = {}
  /\ IF changed
     THEN unswept' = Msgs(library) /\ UNCHANGED status
     ELSE status' = "cycles" /\ UNCHANGED unswept
  /\ UNCHANGED <<library, schema, needsValid, changed, color, stack, output, at, seen, order>>

SweepAgain ==
  /\ status = "resolve"
  /\ unswept = {}
  /\ IF changed
     THEN unswept' = Msgs(library) /\ UNCHANGED status
     ELSE status' = "cycles" /\ UNCHANGED unswept
  /\ changed' = FALSE
  /\ UNCHANGED <<library, schema, needsValid, color, stack, output, at, seen, order>>

-----------------------------------------------------------------------------
(* checkNoValidCycles.                                                     *)

Top == stack[Len(stack)]
Started(m) == [msg |-> m, next |-> 1]
Advanced == [stack EXCEPT ![Len(stack)] = [msg |-> Top.msg, next |-> Top.next + 1]]

Enter(m) == stack' = Append(stack, Started(m))
Leave == stack' = SubSeq(stack, 1, Len(stack) - 1)
NextField == stack' = Advanced

\* The field the top call looks at, and whether it leads anywhere.
MoreFields == stack # <<>> /\ Top.next <= Len(Fields(Top.msg))
Here == Fields(Top.msg)[Top.next]
Follows == Embeds(library, Here) /\ Here.type \in needsValid
FollowField == stack' = Append(Advanced, Started(Here.type))

Unvisited == {m \in needsValid : color[m] = "white"}

\* The next root, by name; roots already black return at once.
VisitRoot(m) ==
  /\ status = "cycles"
  /\ stack = <<>>
  /\ m \in Unvisited
  /\ \A o \in Unvisited : Name[m] <= Name[o]
  /\ Enter(m)
  /\ color' = [color EXCEPT ![m] = "gray"]
  /\ UNCHANGED <<library, schema, status, needsValid, unswept, changed, output, at, seen, order>>

\* Mutant: a message that is being visited counts as visited.
VisitFieldGrayIsBlack ==
  /\ status = "cycles"
  /\ MoreFields
  /\ IF Follows /\ color[Here.type] = "white"
     THEN /\ FollowField
          /\ color' = [color EXCEPT ![Here.type] = "gray"]
     ELSE NextField /\ UNCHANGED color
  /\ UNCHANGED <<library, schema, status, needsValid, unswept, changed, output, at, seen, order>>

VisitField ==
  /\ status = "cycles"
  /\ MoreFields
  /\ IF Follows /\ color[Here.type] = "gray"
     THEN /\ status' = "recursive"
          /\ UNCHANGED <<stack, color>>
     ELSE /\ IF Follows /\ color[Here.type] = "white"
             THEN /\ FollowField
                  /\ color' = [color EXCEPT ![Here.type] = "gray"]
             ELSE NextField /\ UNCHANGED color
          /\ UNCHANGED status
  /\ UNCHANGED <<library, schema, needsValid, unswept, changed, output, at, seen, order>>

\* Mutant: a finished message stays gray.
VisitDoneGray ==
  /\ status = "cycles"
  /\ stack # <<>>
  /\ ~MoreFields
  /\ Leave
  /\ UNCHANGED <<library, schema, status, needsValid, unswept, changed, color, output, at, seen, order>>

VisitDone ==
  /\ status = "cycles"
  /\ stack # <<>>
  /\ ~MoreFields
  /\ Leave
  /\ color' = [color EXCEPT ![Top.msg] = "black"]
  /\ UNCHANGED <<library, schema, status, needsValid, unswept, changed, output, at, seen, order>>

CyclesChecked ==
  /\ status = "cycles"
  /\ stack = <<>>
  /\ Unvisited = {}
  /\ status' = "emit"
  /\ UNCHANGED <<library, schema, needsValid, unswept, changed, color, stack, output, at, seen, order>>

-----------------------------------------------------------------------------
(* generateFile, for each file of the request.                             *)

CurrentFile == FilesOf[library][Len(output) + 1]
MoreFiles == Len(output) < Len(FilesOf[library])

\* The walk hands every needsValid message to dfs, which returns at once if
\* it has seen it.
EmitRoot ==
  /\ status = "emit"
  /\ stack = <<>>
  /\ MoreFiles
  /\ at <= Len(Declared[CurrentFile])
  /\ at' = at + 1
  /\ LET m == Declared[CurrentFile][at]
     IN  IF m \in needsValid \ seen
         THEN Enter(m) /\ seen' = seen \cup {m}
         ELSE UNCHANGED <<stack, seen>>
  /\ UNCHANGED <<library, schema, status, needsValid, unswept, changed, color, output, order>>

\* Mutant: dfs leaves the file.
EmitFieldAnyFile ==
  /\ status = "emit"
  /\ MoreFields
  /\ IF Follows /\ Here.type \notin seen
     THEN /\ FollowField
          /\ seen' = seen \cup {Here.type}
     ELSE NextField /\ UNCHANGED seen
  /\ UNCHANGED <<library, schema, status, needsValid, unswept, changed, color, output, at, order>>

EmitField ==
  /\ status = "emit"
  /\ MoreFields
  /\ IF Follows /\ FileOf[Here.type] = CurrentFile /\ Here.type \notin seen
     THEN /\ FollowField
          /\ seen' = seen \cup {Here.type}
     ELSE NextField /\ UNCHANGED seen
  /\ UNCHANGED <<library, schema, status, needsValid, unswept, changed, color, output, at, order>>

\* Mutant: a message is declared before the ones it led to.
EmitDoneFront ==
  /\ status = "emit"
  /\ stack # <<>>
  /\ ~MoreFields
  /\ Leave
  /\ order' = <<Top.msg>> \o order
  /\ UNCHANGED <<library, schema, status, needsValid, unswept, changed, color, output, at, seen>>

EmitDone ==
  /\ status = "emit"
  /\ stack # <<>>
  /\ ~MoreFields
  /\ Leave
  /\ order' = Append(order, Top.msg)
  /\ UNCHANGED <<library, schema, status, needsValid, unswept, changed, color, output, at, seen>>

FileWalked ==
  /\ status = "emit"
  /\ stack = <<>>
  /\ MoreFiles
  /\ at > Len(Declared[CurrentFile])

\* Mutant: the walk of the next file starts before its first message.
FileDoneAtZero ==
  /\ FileWalked
  /\ Range(order) \cap schema.untranslated = {}
  /\ output' = Append(output, order)
  /\ at' = 0
  /\ seen' = {}
  /\ order' = <<>>
  /\ UNCHANGED <<library, schema, status, needsValid, unswept, changed, color, stack>>

\* emitMessage renders the rules of each message, in order.
FileDone ==
  /\ FileWalked
  /\ Range(order) \cap schema.untranslated = {}
  /\ output' = Append(output, order)
  /\ at' = 1
  /\ seen' = {}
  /\ order' = <<>>
  /\ UNCHANGED <<library, schema, status, needsValid, unswept, changed, color, stack>>

FileFails ==
  /\ FileWalked
  /\ Range(order) \cap schema.untranslated # {}
  /\ status' = "invalid"
  /\ UNCHANGED <<library, schema, needsValid, unswept, changed, color, stack, output, at, seen, order>>

Finish ==
  /\ status = "emit"
  /\ stack = <<>>
  /\ ~MoreFiles
  /\ status' = "done"
  /\ UNCHANGED <<library, schema, needsValid, unswept, changed, color, stack, output, at, seen, order>>

Next ==
  \/ Load
  \/ (\E m \in unswept : Sweep(m)) \/ SweepAgain
  \/ (\E m \in Unvisited : VisitRoot(m)) \/ VisitField \/ VisitDone \/ CyclesChecked
  \/ EmitRoot \/ EmitField \/ EmitDone \/ FileDone \/ FileFails \/ Finish

Spec == Init /\ [][Next]_vars

\* The plugin runs until Generate returns.
FairSpec == Spec /\ WF_vars(Next)

-----------------------------------------------------------------------------
(* Properties.                                                             *)

Statuses == {"load", "resolve", "cycles", "emit", "done", "recursive", "invalid"}
Call == [msg : Message, next : Nat \ {0}]

TypeOK ==
  /\ library \in Library
  /\ schema \in Schema
  /\ status \in Statuses
  /\ needsValid \subseteq Msgs(library)
  /\ unswept \subseteq Msgs(library)
  /\ changed \in BOOLEAN
  /\ color \in [Message -> {"white", "gray", "black"}]
  /\ stack \in Seq(Call)
  /\ output \in Seq(Seq(Message))
  /\ at \in Nat \ {0}
  /\ seen \subseteq Message
  /\ order \in Seq(Message)

Resolved == status \in {"cycles", "emit", "done", "recursive"}

\* Whatever order Go iterates the map in, and however many sweeps that takes,
\* resolveNeedsValid ends with the least closed set of messages.
NeedsValidIsLeast == Resolved => needsValid = ValidIn(library)

\* A set of messages in which one can walk for ever.
Endless(S) == S # {} /\ \A m \in S : Deps(m) \cap S # {}

\* checkNoValidCycles lets no recursive validated structure through...
NoCycleIsAccepted ==
  status \in {"emit", "done"} => \A S \in SUBSET needsValid : ~Endless(S)

\* ...and what it rejects as recursive is recursive.
OnlyCyclesAreRejected ==
  status = "recursive" => \E S \in SUBSET needsValid : Endless(S)

\* Lean has no forward references: in every generated file each validated
\* structure comes after those of the same file that it embeds, and each
\* message that needs one has exactly one.
WellOrdered(f, ms) ==
  /\ Range(ms) = {m \in needsValid : FileOf[m] = f}
  /\ \A i, j \in DOMAIN ms :
       /\ ms[i] = ms[j] => i = j
       /\ ms[j] \in Deps(ms[i]) => j < i
DeclaredBeforeUse ==
  \A k \in DOMAIN output : WellOrdered(FilesOf[library][k], output[k])

\* Two libraries are generated by separate runs, which see different sets of
\* files, and still agree on which messages of the imported one have a
\* validated variant: none is referred to that was not generated, and none
\* that was is left out.
RunsAgree ==
  Resolved =>
    \A d \in ValidDeps[library] :
      {m \in needsValid : FileOf[m] \in Targets(d)} = {m \in ValidIn(d) : FileOf[m] \in Targets(d)}

\* README.md on valid_deps: "message fields typed by another target's protos
\* use that target's validated variants, and violations surface through the
\* embed".
CrossTargetFieldsValidated ==
  Resolved =>
    \A d \in ValidDeps[library] : \A m \in needsValid :
      FileOf[m] \in Targets(library) =>
        EdgeTo(library, m) \cap {t \in ValidIn(d) : FileOf[t] \in Targets(d)} \subseteq Deps(m)

\* Generate returns: the fixpoint is reached, no cycle traps a search.
Terminates == <>(status \in {"done", "recursive", "invalid"})
=============================================================================
