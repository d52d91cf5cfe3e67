-------------------------- MODULE ValidGraphProofs --------------------------
(***************************************************************************)
(* Proofs about ValidGraph, for every layout of libraries and files and    *)
(* every schema.                                                           *)
(***************************************************************************)
EXTENDS ValidGraph, SequenceTheorems, TLAPS

LEMMA SchemaFacts ==
  ASSUME TypeOK
  PROVE  /\ schema.fields \in [Message -> Seq(Field)]
         /\ \A m \in Message :
              /\ Fields(m) \in Seq(Field)
              /\ Len(Fields(m)) \in Nat
              /\ DOMAIN Fields(m) = 1 .. Len(Fields(m))
              /\ EdgeTo(library, m) \subseteq Msgs(library)
<1>1. schema \in Schema
  BY DEF TypeOK
<1>2. schema.fields \in [Message -> Seq(Field)]
  BY <1>1 DEF Schema
<1>3. ASSUME NEW m \in Message
      PROVE  /\ Fields(m) \in Seq(Field)
             /\ Len(Fields(m)) \in Nat
             /\ DOMAIN Fields(m) = 1 .. Len(Fields(m))
  BY <1>2 DEF Fields
<1>4. ASSUME NEW m \in Message
      PROVE  EdgeTo(library, m) \subseteq Msgs(library)
  <2>1. ASSUME NEW k \in DOMAIN Fields(m), Embeds(library, Fields(m)[k])
        PROVE  Fields(m)[k].type \in Msgs(library)
    <3>1. Fields(m)[k] \in Field
      BY <1>3
    <3> QED
      BY <2>1, <3>1 DEF Embeds, Field, Msgs
  <2> QED
    BY <2>1 DEF EdgeTo
<1> QED
  BY <1>2, <1>3, <1>4

-----------------------------------------------------------------------------
(* resolveNeedsValid computes a least fixpoint, in any order.              *)

Settled == status \notin {"load", "invalid"}

\* Every mark is forced, a sweep without a change leaves nothing behind, and
\* the loop ends only after such a sweep.
Marked ==
  /\ Settled => /\ HasOwn \cap Msgs(library) \subseteq needsValid
                /\ needsValid \subseteq ValidIn(library)
  /\ status = "resolve" /\ ~changed =>
       \A m \in Msgs(library) \ unswept : Deps(m) # {} => m \in needsValid
  /\ Resolved => ClosedUnderEdges(library, needsValid)

LEMMA HasOwnIsForced ==
  HasOwn \cap Msgs(library) \subseteq ValidIn(library)
BY DEF ValidIn, ClosedUnderEdges

LEMMA MarkIsForced ==
  ASSUME NEW m \in Msgs(library), needsValid \subseteq ValidIn(library), Deps(m) # {}
  PROVE  m \in ValidIn(library)
BY DEF ValidIn, ClosedUnderEdges, Deps

-----------------------------------------------------------------------------
(* checkNoValidCycles.                                                     *)

Black == {m \in Message : color[m] = "black"}

\* What a finished search knows: nothing leads out of the black messages and
\* no walk among them goes on for ever.
Finished ==
  /\ Black \subseteq needsValid
  /\ \A m \in Black : Deps(m) \subseteq Black
  /\ \A S \in SUBSET Black : ~Endless(S)

\* The active calls are the gray messages; each has followed its fields up to
\* the one whose message the next call visits.
Calls ==
  /\ \A i \in 1 .. Len(stack) : stack[i].msg \in needsValid /\ color[stack[i].msg] = "gray"
  /\ \A m \in Message : color[m] = "gray" => \E i \in 1 .. Len(stack) : stack[i].msg = m
  /\ \A i, j \in 1 .. Len(stack) : stack[i].msg = stack[j].msg => i = j

\* The fields a call is past lead to finished messages.
Past ==
  \A i \in 1 .. Len(stack) : \A k \in DOMAIN Fields(stack[i].msg) :
    k < stack[i].next /\ Embeds(library, Fields(stack[i].msg)[k])
      /\ Fields(stack[i].msg)[k].type \in needsValid
      => \/ Fields(stack[i].msg)[k].type \in Black
         \/ i < Len(stack) /\ Fields(stack[i].msg)[k].type = stack[i + 1].msg

Linked ==
  \A i \in 1 .. Len(stack) - 1 : stack[i + 1].msg \in Deps(stack[i].msg)

Searching ==
  /\ status \in {"load", "resolve"} => stack = <<>> /\ \A m \in Message : color[m] = "white"
  /\ status \in {"cycles", "emit", "done"} => Finished
  /\ status = "cycles" => Calls /\ Past /\ Linked
  /\ status \in {"emit", "done"} => needsValid \subseteq Black

IInv == TypeOK /\ Marked /\ Searching /\ OnlyCyclesAreRejected

LEMMA InitInv ==
  Init => IInv
<1> SUFFICES ASSUME Init PROVE IInv
  OBVIOUS
<1>1. TypeOK
  <2>1. <<>> \in Seq(Call) /\ <<>> \in Seq(Seq(Message)) /\ <<>> \in Seq(Message)
    OBVIOUS
  <2>2. color \in [Message -> {"white", "gray", "black"}] /\ at \in Nat \ {0}
    BY DEF Init
  <2>3. schema \in Schema
    BY LayoutAssumption DEF Init
  <2> QED
    BY <2>1, <2>2, <2>3 DEF Init, TypeOK, Statuses
<1>2. Marked /\ Searching /\ OnlyCyclesAreRejected
  BY DEF Init, Marked, Searching, OnlyCyclesAreRejected, Settled, Resolved
<1> QED
  BY <1>1, <1>2 DEF IInv

LEMMA LoadKeepsInv ==
  ASSUME IInv, Load
  PROVE  IInv'
<1>1. /\ library' = library /\ schema' = schema /\ changed' = changed /\ color' = color
      /\ stack' = stack /\ output' = output /\ at' = at /\ seen' = seen /\ order' = order
      /\ status = "load"
  BY DEF Load
<1>2. HasOwn' = HasOwn /\ Msgs(library)' = Msgs(library)
      /\ ValidIn(library)' = ValidIn(library)
  BY <1>1 DEF HasOwn, Msgs, ValidIn, ClosedUnderEdges, EdgeTo, Embeds, Fields, Covered, Targets
<1>3. \/ status' = "invalid" /\ needsValid' = needsValid /\ unswept' = unswept
      \/ /\ status' = "resolve" /\ needsValid' = HasOwn \cap Msgs(library)
         /\ unswept' = Msgs(library)
  BY DEF Load
<1>4. TypeOK'
  BY <1>1, <1>2, <1>3 DEF IInv, TypeOK, Statuses
<1>5. Marked'
  BY <1>1, <1>2, <1>3, HasOwnIsForced DEF IInv, Marked, Settled, Resolved
<1>6. Searching' /\ OnlyCyclesAreRejected'
  BY <1>1, <1>3 DEF IInv, Searching, OnlyCyclesAreRejected
<1> QED
  BY <1>4, <1>5, <1>6 DEF IInv

\* The schema does not change under a run.
LEMMA SameSchema ==
  ASSUME library' = library, schema' = schema
  PROVE  /\ HasOwn' = HasOwn
         /\ Msgs(library)' = Msgs(library)
         /\ ValidIn(library)' = ValidIn(library)
         /\ \A m : EdgeTo(library, m)' = EdgeTo(library, m)
         /\ \A m : Fields(m)' = Fields(m)
         /\ \A fd : Embeds(library, fd)' = Embeds(library, fd)
         /\ \A S : ClosedUnderEdges(library, S)' = ClosedUnderEdges(library, S)
BY DEF HasOwn, Msgs, ValidIn, ClosedUnderEdges, EdgeTo, Embeds, Fields, Covered, Targets

LEMMA SweepKeepsInv ==
  ASSUME IInv, NEW m \in unswept, Sweep(m)
  PROVE  IInv'
<1>1. /\ library' = library /\ schema' = schema /\ color' = color /\ status' = status
      /\ stack' = stack /\ output' = output /\ at' = at /\ seen' = seen /\ order' = order
      /\ status = "resolve" /\ unswept' = unswept \ {m}
  BY DEF Sweep
<1>2. \/ /\ Deps(m) # {} /\ needsValid' = needsValid \cup {m} /\ changed' = TRUE
      \/ /\ m \in needsValid \/ Deps(m) = {}
         /\ needsValid' = needsValid /\ changed' = changed
  BY DEF Sweep
<1>3. m \in Msgs(library) /\ needsValid \subseteq ValidIn(library)
  BY <1>1 DEF IInv, TypeOK, Marked, Settled
<1>4. TypeOK'
  BY <1>1, <1>2, <1>3, SameSchema DEF IInv, TypeOK
<1>5. Marked'
  <2>1. CASE Deps(m) # {} /\ needsValid' = needsValid \cup {m} /\ changed' = TRUE
    <3>1. m \in ValidIn(library)
      BY <1>3, <2>1, MarkIsForced
    <3> QED
      BY <1>1, <2>1, <3>1, SameSchema DEF IInv, Marked, Settled, Resolved
  <2>2. CASE /\ m \in needsValid \/ Deps(m) = {}
             /\ needsValid' = needsValid /\ changed' = changed
    <3>1. \A o : Deps(o)' = Deps(o)
      BY <1>1, <2>2, SameSchema DEF Deps
    <3> QED
      BY <1>1, <2>2, <3>1, SameSchema DEF IInv, Marked, Settled, Resolved
  <2> QED
    BY <1>2, <2>1, <2>2
<1>6. Searching' /\ OnlyCyclesAreRejected'
  BY <1>1 DEF IInv, Searching, OnlyCyclesAreRejected
<1> QED
  BY <1>4, <1>5, <1>6 DEF IInv

LEMMA SweepAgainKeepsInv ==
  ASSUME IInv, SweepAgain
  PROVE  IInv'
<1>1. /\ library' = library /\ schema' = schema /\ color' = color /\ needsValid' = needsValid
      /\ stack' = stack /\ output' = output /\ at' = at /\ seen' = seen /\ order' = order
      /\ status = "resolve" /\ unswept = {} /\ changed' = FALSE
      /\ \/ changed /\ unswept' = Msgs(library) /\ status' = status
         \/ ~changed /\ status' = "cycles" /\ unswept' = unswept
  BY DEF SweepAgain, IInv, TypeOK
<1>2. TypeOK'
  BY <1>1, SameSchema DEF IInv, TypeOK, Statuses
<1>3. \A m : Deps(m)' = Deps(m)
  BY <1>1, SameSchema DEF Deps
<1>4. Marked'
  <2>1. ~changed => ClosedUnderEdges(library, needsValid)
    BY <1>1 DEF IInv, Marked, Settled, ClosedUnderEdges, Deps
  <2> QED
    BY <1>1, <1>3, <2>1, SameSchema DEF IInv, Marked, Settled, Resolved
<1>5. Searching'
  <2>1. Black' = {} /\ stack' = <<>>
    BY <1>1 DEF IInv, Searching, Black
  <2>2. Finished'
    BY <2>1 DEF Finished, Endless
  <2>3. Calls' /\ Past' /\ Linked'
    BY <1>1, <2>1 DEF Calls, Past, Linked, IInv, Searching
  <2> QED
    BY <1>1, <2>2, <2>3 DEF IInv, Searching
<1>6. OnlyCyclesAreRejected'
  BY <1>1 DEF OnlyCyclesAreRejected
<1> QED
  BY <1>2, <1>4, <1>5, <1>6 DEF IInv

-----------------------------------------------------------------------------
(* The depth-first search. *)

LEMMA StackFacts ==
  ASSUME TypeOK
  PROVE  /\ Len(stack) \in Nat
         /\ stack # <<>> => Len(stack) > 0 /\ Top \in Call /\ Len(stack) \in 1 .. Len(stack)
         /\ \A i \in 1 .. Len(stack) :
              /\ stack[i] \in Call
              /\ stack[i].msg \in Message
              /\ stack[i].next \in Nat \ {0}
<1>1. stack \in Seq(Call) /\ Len(stack) \in Nat
  BY DEF TypeOK
<1>2. \A i \in 1 .. Len(stack) : stack[i] \in Call
  BY <1>1
<1>3. stack # <<>> => Len(stack) > 0
  BY <1>1
<1> QED
  BY <1>1, <1>2, <1>3 DEF Call, Top

\* The unchanged half of the invariant while the search runs.
Steady == /\ library' = library /\ schema' = schema /\ needsValid' = needsValid
          /\ unswept' = unswept /\ changed' = changed /\ output' = output
          /\ at' = at /\ seen' = seen /\ order' = order

LEMMA SteadyFacts ==
  ASSUME IInv, Steady, status = "cycles", status' \in {"cycles", "emit", "recursive"}
  PROVE  /\ Marked'
         /\ \A m : Deps(m)' = Deps(m)
         /\ \A m : Fields(m)' = Fields(m)
         /\ \A fd : Embeds(library, fd)' = Embeds(library, fd)
<1>1. \A m : Deps(m)' = Deps(m)
  BY SameSchema DEF Steady, Deps
<1>2. Marked'
  BY SameSchema DEF IInv, Marked, Settled, Resolved, Steady
<1> QED
  BY <1>1, <1>2, SameSchema DEF Steady

\* Finished depends on color alone.
LEMMA SameBlack ==
  ASSUME Steady, Finished, Black' = Black, \A m : Deps(m)' = Deps(m)
  PROVE  Finished'
<1>1. \A S : Endless(S)' = Endless(S)
  BY DEF Endless
<1> QED
  BY <1>1 DEF Finished, Steady

LEMMA VisitRootKeepsInv ==
  ASSUME IInv, NEW m \in Unvisited, VisitRoot(m)
  PROVE  IInv'
<1>1. /\ Steady /\ status = "cycles" /\ status' = "cycles" /\ stack = <<>>
      /\ color' = [color EXCEPT ![m] = "gray"] /\ color[m] = "white"
      /\ m \in needsValid /\ m \in Message
      /\ stack' = Append(stack, Started(m))
  BY DEF VisitRoot, Steady, Enter, Unvisited, IInv, TypeOK, Msgs
<1>2. Started(m) \in Call
  BY <1>1 DEF Started, Call
<1>3. stack' = <<Started(m)>> /\ stack' \in Seq(Call)
  BY <1>1, <1>2
<1>4. color' \in [Message -> {"white", "gray", "black"}]
  BY <1>1 DEF IInv, TypeOK
<1>5. TypeOK'
  BY <1>1, <1>3, <1>4, SameSchema DEF IInv, TypeOK, Steady
<1>6. /\ Len(stack') = 1 /\ stack'[1].msg = m /\ stack'[1].next = 1
  BY <1>3 DEF Started
<1>7. Black' = Black /\ \A o \in Message : o # m => color'[o] = color[o]
  BY <1>1 DEF Black, IInv, TypeOK
<1>8. \A o \in Message : color[o] # "gray"
  BY <1>1 DEF IInv, Searching, Calls
<1>9. Calls' /\ Linked' /\ Past'
  <2>1. color'[m] = "gray"
    BY <1>1 DEF IInv, TypeOK
  <2>2. Calls'
    BY <1>1, <1>6, <1>7, <1>8, <2>1 DEF Calls, Steady
  <2>3. \A k \in DOMAIN Fields(m) : ~(k < 1)
    BY <1>1, SchemaFacts DEF IInv
  <2>4. schema' = schema
    BY <1>1 DEF Steady
  <2>5. \A i \in 1 .. Len(stack') : stack'[i].msg = m /\ stack'[i].next = 1
    BY <1>6
  <2>6. Past'
    BY <2>3, <2>4, <2>5 DEF Past, Fields
  <2>7. Linked'
    BY <1>6 DEF Linked
  <2> QED
    BY <2>2, <2>6, <2>7
<1>10. Searching' /\ OnlyCyclesAreRejected' /\ Marked'
  BY <1>1, <1>7, <1>9, SteadyFacts, SameBlack
     DEF IInv, Searching, OnlyCyclesAreRejected
<1> QED
  BY <1>5, <1>10 DEF IInv

\* The field the top call looks at.
LEMMA HereFacts ==
  ASSUME IInv, MoreFields
  PROVE  /\ stack # <<>> /\ Len(stack) \in 1 .. Len(stack) /\ Top = stack[Len(stack)]
         /\ Top.msg \in Message /\ Top.next \in Nat \ {0}
         /\ Top.next \in DOMAIN Fields(Top.msg)
         /\ Here \in Field
         /\ Follows => Here.type \in Deps(Top.msg) /\ Here.type \in Message
<1>1. /\ stack # <<>> /\ Len(stack) \in 1 .. Len(stack) /\ Top = stack[Len(stack)]
      /\ Top.msg \in Message /\ Top.next \in Nat \ {0}
  BY StackFacts DEF IInv, MoreFields, Top, Call
<1>2. Top.next \in DOMAIN Fields(Top.msg) /\ Here \in Field
  BY <1>1, SchemaFacts DEF IInv, MoreFields, Here
<1>3. Follows => Here.type \in Deps(Top.msg) /\ Here.type \in Message
  <2>1. Follows => Here.type \in EdgeTo(library, Top.msg)
    BY <1>2 DEF Follows, Here, EdgeTo
  <2> QED
    BY <2>1 DEF Follows, Deps, IInv, TypeOK, Msgs
<1> QED
  BY <1>1, <1>2, <1>3

LEMMA AdvancedFacts ==
  ASSUME IInv, MoreFields
  PROVE  /\ Advanced \in Seq(Call) /\ Len(Advanced) = Len(stack)
         /\ \A i \in 1 .. Len(stack) :
              /\ Advanced[i].msg = stack[i].msg
              /\ Advanced[i].next = IF i = Len(stack) THEN stack[i].next + 1 ELSE stack[i].next
<1> DEFINE L == Len(stack)
           r == [msg |-> Top.msg, next |-> Top.next + 1]
<1>1. stack \in Seq(Call) /\ L \in 1 .. L /\ L \in Nat /\ Top = stack[L]
      /\ Top.msg \in Message /\ Top.next \in Nat \ {0}
  BY HereFacts, StackFacts DEF IInv, TypeOK
<1>2. r \in Call /\ Advanced = [stack EXCEPT ![L] = r]
  BY <1>1 DEF Call, Advanced
<1>3. /\ Advanced \in Seq(Call) /\ Len(Advanced) = L
      /\ \A i \in 1 .. L : Advanced[i] = IF i = L THEN r ELSE stack[i]
  BY <1>1, <1>2
<1> QED
  BY <1>1, <1>3

\* The gray messages from one of them to the top are a cycle with the edge
\* that leads back to it.
LEMMA GrayClosesACycle ==
  ASSUME IInv, status = "cycles", MoreFields, Follows, color[Here.type] = "gray"
  PROVE  \E S \in SUBSET needsValid : Endless(S)
<1> DEFINE L == Len(stack)
<1>1. Calls /\ Linked
  BY DEF IInv, Searching
<1>2. /\ L \in Nat /\ L \in 1 .. L /\ Top = stack[L]
      /\ Here.type \in Deps(Top.msg) /\ Here.type \in Message
  BY HereFacts, StackFacts DEF IInv
<1>3. PICK i \in 1 .. L : stack[i].msg = Here.type
  BY <1>1, <1>2 DEF Calls
<1> DEFINE S == {stack[j].msg : j \in i .. L}
<1>4. S \subseteq needsValid
  BY <1>1, <1>2, <1>3 DEF Calls
<1>5. S # {}
  BY <1>2, <1>3
<1>6. ASSUME NEW j \in i .. L
      PROVE  Deps(stack[j].msg) \cap S # {}
  <2>1. CASE j = L
    <3>1. Here.type \in S
      BY <1>2, <1>3
    <3> QED
      BY <1>2, <2>1, <3>1
  <2>2. CASE j # L
    <3>1. j \in 1 .. L - 1 /\ j + 1 \in i .. L
      BY <1>2, <1>3, <2>2
    <3>2. stack[j + 1].msg \in Deps(stack[j].msg)
      BY <1>1, <3>1 DEF Linked
    <3>3. stack[j + 1].msg \in S
      BY <3>1
    <3> QED
      BY <3>2, <3>3
  <2> QED
    BY <2>1, <2>2
<1>7. Endless(S)
  BY <1>5, <1>6 DEF Endless
<1> QED
  BY <1>4, <1>7

LEMMA VisitFieldKeepsInv ==
  ASSUME IInv, VisitField
  PROVE  IInv'
<1> DEFINE L == Len(stack)
           t == Here.type
<1>1. /\ Steady /\ status = "cycles" /\ MoreFields
      /\ Calls /\ Past /\ Linked /\ Finished
  BY DEF VisitField, Steady, IInv, Searching
<1>2. /\ stack # <<>> /\ L \in Nat /\ L \in 1 .. L /\ Top = stack[L]
      /\ Top.msg \in Message /\ Top.next \in Nat \ {0}
      /\ Top.next \in DOMAIN Fields(Top.msg)
      /\ Follows => t \in Deps(Top.msg) /\ t \in Message
  BY <1>1, HereFacts, StackFacts DEF IInv
<1>3. color \in [Message -> {"white", "gray", "black"}] /\ Deps(Top.msg) \subseteq needsValid
  BY DEF IInv, TypeOK, Deps
<1>4. CASE Follows /\ color[t] = "gray"
  <2>1. status' = "recursive" /\ stack' = stack /\ color' = color
    BY <1>4 DEF VisitField
  <2>2. TypeOK'
    BY <1>1, <2>1, SameSchema DEF IInv, TypeOK, Steady, Statuses
  <2>3. \E S \in SUBSET needsValid : Endless(S)
    BY <1>1, <1>4, GrayClosesACycle
  <2>4. Marked' /\ \A m : Deps(m)' = Deps(m)
    BY <1>1, <2>1, SteadyFacts
  <2>5. OnlyCyclesAreRejected'
    BY <1>1, <2>3, <2>4 DEF OnlyCyclesAreRejected, Endless, Steady
  <2>6. Searching'
    BY <2>1 DEF Searching
  <2> QED
    BY <2>2, <2>4, <2>5, <2>6 DEF IInv
<1>5. CASE Follows /\ color[t] = "white"
  <2>1. /\ status' = "cycles" /\ color' = [color EXCEPT ![t] = "gray"]
        /\ stack' = Append(Advanced, Started(t))
    BY <1>1, <1>5 DEF VisitField, FollowField
  <2>2. t \in Deps(Top.msg) /\ t \in Message /\ t \in needsValid
    BY <1>2, <1>3, <1>5
  <2>3. Started(t) \in Call /\ Started(t).msg = t /\ Started(t).next = 1
    BY <2>2 DEF Started, Call
  <2>4. /\ Advanced \in Seq(Call) /\ Len(Advanced) = L
        /\ \A i \in 1 .. L : /\ Advanced[i].msg = stack[i].msg
                             /\ Advanced[i].next = IF i = L THEN stack[i].next + 1 ELSE stack[i].next
    BY <1>1, AdvancedFacts
  <2>5. stack' \in Seq(Call) /\ Len(stack') = L + 1 /\ stack'[L + 1] = Started(t)
        /\ \A i \in 1 .. L : stack'[i] = Advanced[i]
    BY <1>2, <2>1, <2>3, <2>4
  <2>6. color' \in [Message -> {"white", "gray", "black"}]
    BY <1>3, <2>1
  <2>7. TypeOK'
    BY <1>1, <2>1, <2>5, <2>6, SameSchema DEF IInv, TypeOK, Steady, Statuses
  <2>8. Black' = Black /\ color'[t] = "gray" /\ \A o \in Message : o # t => color'[o] = color[o]
    BY <1>3, <1>5, <2>1, <2>2 DEF Black
  <2>9. /\ \A i \in 1 .. L : stack'[i].msg = stack[i].msg
        /\ stack'[L + 1].msg = t /\ stack'[L + 1].next = 1
        /\ \A i \in 1 .. L : stack'[i].next = IF i = L THEN stack[i].next + 1 ELSE stack[i].next
    BY <2>3, <2>4, <2>5
  <2>10. \A i \in 1 .. L : stack[i].msg # t
    BY <1>1, <1>5 DEF Calls
  <2>11. Calls'
    <3>1. \A i \in 1 .. L + 1 : stack'[i].msg \in needsValid /\ color'[stack'[i].msg] = "gray"
      <4>1. ASSUME NEW i \in 1 .. L PROVE stack'[i].msg \in needsValid /\ color'[stack'[i].msg] = "gray"
        <5>1. stack[i].msg \in needsValid /\ color[stack[i].msg] = "gray" /\ stack[i].msg \in Message
          BY <1>1, StackFacts DEF Calls, IInv
        <5> QED
          BY <5>1, <2>8, <2>9, <2>10
      <4>2. ASSUME NEW i \in 1 .. L + 1, i \notin 1 .. L PROVE i = L + 1
        BY <1>2, <4>2
      <4> QED
        BY <2>2, <2>8, <2>9, <4>1, <4>2
    <3>2. \A m \in Message : color'[m] = "gray" => \E i \in 1 .. L + 1 : stack'[i].msg = m
      <4>1. ASSUME NEW m \in Message, color'[m] = "gray", m # t
            PROVE  \E i \in 1 .. L + 1 : stack'[i].msg = m
        <5>1. PICK i \in 1 .. L : stack[i].msg = m
          BY <1>1, <2>8, <4>1 DEF Calls
        <5>2. i \in 1 .. L + 1 /\ stack'[i].msg = m
          BY <1>2, <2>9, <5>1
        <5> QED
          BY <5>2
      <4>2. L + 1 \in 1 .. L + 1
        BY <1>2
      <4> QED
        BY <2>9, <4>1, <4>2
    <3>3. \A i, j \in 1 .. L + 1 : stack'[i].msg = stack'[j].msg => i = j
      <4>1. \A i, j \in 1 .. L : stack[i].msg = stack[j].msg => i = j
        BY <1>1 DEF Calls
      <4>2. \A i \in 1 .. L + 1 : i \in 1 .. L \/ i = L + 1
        BY <1>2
      <4> QED
        BY <2>9, <2>10, <4>1, <4>2
    <3>4. needsValid' = needsValid
      BY <1>1 DEF Steady
    <3> QED
      BY <2>5, <3>1, <3>2, <3>3, <3>4 DEF Calls
  <2>12. Linked'
    <3>1. \A m : Deps(m)' = Deps(m)
      BY <1>1, <2>1, SteadyFacts
    <3>2. ASSUME NEW i \in 1 .. L PROVE stack'[i + 1].msg \in Deps(stack[i].msg)
      <4>1. CASE i = L
        BY <1>2, <2>2, <2>9, <4>1
      <4>2. CASE i # L
        <5>1. i \in 1 .. L - 1 /\ i + 1 \in 1 .. L
          BY <1>2, <4>2
        <5> QED
          BY <1>1, <2>9, <5>1 DEF Linked
      <4> QED
        BY <4>1, <4>2
    <3>3. schema' = schema /\ library' = library /\ needsValid' = needsValid
      BY <1>1 DEF Steady
    <3>4. ASSUME NEW i \in 1 .. Len(stack') - 1
          PROVE  i \in 1 .. L /\ stack'[i].msg = stack[i].msg
      BY <1>2, <2>5, <2>9
    <3>5. \A i \in 1 .. Len(stack') - 1 : stack'[i + 1].msg \in Deps(stack'[i].msg)
      BY <3>2, <3>4
    <3>6. PICK st : st = stack'
      OBVIOUS
    <3>7. \A i \in 1 .. Len(st) - 1 : st[i + 1].msg \in Deps(st[i].msg)'
      BY <3>1, <3>5, <3>6
    <3> QED
      BY <3>6, <3>7 DEF Linked
  <2>13. Past'
    <3> DEFINE B == Black
    <3>1. schema' = schema /\ library' = library /\ needsValid' = needsValid /\ Black' = B
      BY <1>1, <2>8 DEF Steady
    <3>2. ASSUME NEW i \in 1 .. L, NEW k \in DOMAIN Fields(stack[i].msg),
                 k < stack'[i].next, Embeds(library, Fields(stack[i].msg)[k]),
                 Fields(stack[i].msg)[k].type \in needsValid
          PROVE  \/ Fields(stack[i].msg)[k].type \in B
                 \/ Fields(stack[i].msg)[k].type = stack'[i + 1].msg
      <4>0. stack[i].msg \in Message /\ stack[i].next \in Nat \ {0} /\ k \in Nat
        BY StackFacts, SchemaFacts DEF IInv
      <4>1. CASE k < stack[i].next
        <5>1. \/ Fields(stack[i].msg)[k].type \in Black
              \/ i < L /\ Fields(stack[i].msg)[k].type = stack[i + 1].msg
          BY <1>1, <3>2, <4>1 DEF Past
        <5>2. i < L => i + 1 \in 1 .. L
          BY <1>2
        <5> QED
          BY <5>1, <5>2, <2>9
      <4>2. CASE ~(k < stack[i].next)
        <5>1. i = L /\ k = stack[i].next
          BY <2>9, <3>2, <4>0, <4>2
        <5>2. Fields(stack[i].msg)[k] = Here
          BY <1>2, <5>1 DEF Here
        <5> QED
          BY <2>9, <5>1, <5>2
      <4> QED
        BY <4>1, <4>2
    <3>3. \A k \in DOMAIN Fields(t) : ~(k < 1)
      BY <2>2, SchemaFacts DEF IInv
    <3>4. \A i \in 1 .. Len(stack') : (i \in 1 .. L /\ i < Len(stack')) \/ i = L + 1
      BY <1>2, <2>5
    <3> HIDE DEF B
    <3>5. ASSUME NEW i \in 1 .. Len(stack'), NEW k \in DOMAIN Fields(stack'[i].msg),
                 k < stack'[i].next, Embeds(library, Fields(stack'[i].msg)[k]),
                 Fields(stack'[i].msg)[k].type \in needsValid
          PROVE  \/ Fields(stack'[i].msg)[k].type \in B
                 \/ i < Len(stack') /\ Fields(stack'[i].msg)[k].type = stack'[i + 1].msg
      <4>1. CASE i \in 1 .. L /\ i < Len(stack')
        BY <2>9, <3>2, <3>5, <4>1
      <4>2. CASE i = L + 1
        BY <2>9, <3>3, <3>5, <4>2
      <4> QED
        BY <3>4, <4>1, <4>2
    <3>6. Past' <=>
            \A i \in 1 .. Len(stack') : \A k \in DOMAIN Fields(stack'[i].msg) :
              k < stack'[i].next /\ Embeds(library, Fields(stack'[i].msg)[k])
                /\ Fields(stack'[i].msg)[k].type \in needsValid
                => \/ Fields(stack'[i].msg)[k].type \in B
                   \/ i < Len(stack') /\ Fields(stack'[i].msg)[k].type = stack'[i + 1].msg
      BY <3>1 DEF Past, Fields, Embeds, Covered, Targets
    <3> QED
      BY <3>5, <3>6
  <2>14. Marked' /\ Finished'
    BY <1>1, <2>1, <2>8, SteadyFacts, SameBlack
  <2>15. Searching' /\ OnlyCyclesAreRejected'
    BY <2>1, <2>11, <2>12, <2>13, <2>14 DEF Searching, OnlyCyclesAreRejected
  <2> QED
    BY <2>7, <2>14, <2>15 DEF IInv
<1>6. CASE ~Follows \/ (color[t] # "gray" /\ color[t] # "white")
  <2>1. status' = "cycles" /\ color' = color /\ stack' = Advanced
    BY <1>1, <1>6 DEF VisitField, NextField
  <2>2. /\ Advanced \in Seq(Call) /\ Len(Advanced) = L
        /\ \A i \in 1 .. L : /\ Advanced[i].msg = stack[i].msg
                             /\ Advanced[i].next = IF i = L THEN stack[i].next + 1 ELSE stack[i].next
    BY <1>1, AdvancedFacts
  <2>3. /\ stack' \in Seq(Call) /\ Len(stack') = L
        /\ \A i \in 1 .. L : /\ stack'[i].msg = stack[i].msg
                             /\ stack'[i].next = IF i = L THEN stack[i].next + 1 ELSE stack[i].next
    BY <2>1, <2>2
  <2>4. TypeOK'
    BY <1>1, <2>1, <2>3, SameSchema DEF IInv, TypeOK, Steady, Statuses
  <2>5. Follows => t \in Black
    BY <1>2, <1>3, <1>6 DEF Black
  <2>6. schema' = schema /\ library' = library /\ needsValid' = needsValid
    BY <1>1 DEF Steady
  <2>7. Calls'
    BY <1>1, <2>1, <2>3, <2>6 DEF Calls
  <2>8. Linked'
    <3>1. ASSUME NEW i \in 1 .. L - 1
          PROVE  stack'[i].msg = stack[i].msg /\ stack'[i + 1].msg \in Deps(stack[i].msg)
      <4>1. i \in 1 .. L /\ i + 1 \in 1 .. L
        BY <1>2
      <4> QED
        BY <1>1, <2>3, <4>1 DEF Linked
    <3>2. PICK st : st = stack'
      OBVIOUS
    <3>3. \A i \in 1 .. Len(st) - 1 : st[i + 1].msg \in Deps(st[i].msg)'
      BY <1>1, <2>1, <2>3, <3>1, <3>2, SteadyFacts
    <3> QED
      BY <3>2, <3>3 DEF Linked
  <2>9. Past'
    <3> DEFINE B == Black
    <3>1. Black' = B
      BY <2>1 DEF Black
    <3>2. ASSUME NEW i \in 1 .. L, NEW k \in DOMAIN Fields(stack[i].msg),
                 k < stack'[i].next, Embeds(library, Fields(stack[i].msg)[k]),
                 Fields(stack[i].msg)[k].type \in needsValid
          PROVE  \/ Fields(stack[i].msg)[k].type \in B
                 \/ i < L /\ Fields(stack[i].msg)[k].type = stack'[i + 1].msg
      <4>0. stack[i].msg \in Message /\ stack[i].next \in Nat \ {0} /\ k \in Nat
        BY StackFacts, SchemaFacts DEF IInv
      <4>1. CASE k < stack[i].next
        <5>1. \/ Fields(stack[i].msg)[k].type \in Black
              \/ i < L /\ Fields(stack[i].msg)[k].type = stack[i + 1].msg
          BY <1>1, <3>2, <4>1 DEF Past
        <5>2. i < L => i + 1 \in 1 .. L
          BY <1>2
        <5> QED
          BY <5>1, <5>2, <2>3
      <4>2. CASE ~(k < stack[i].next)
        <5>1. i = L /\ k = stack[i].next
          BY <2>3, <3>2, <4>0, <4>2
        <5>2. Fields(stack[i].msg)[k] = Here
          BY <1>2, <5>1 DEF Here
        <5>3. Follows
          BY <3>2, <5>2 DEF Follows
        <5> QED
          BY <2>5, <5>2, <5>3
      <4> QED
        BY <4>1, <4>2
    <3> HIDE DEF B
    <3>3. PICK st : st = stack'
      OBVIOUS
    <3>4. \A i \in 1 .. Len(st) : \A k \in DOMAIN Fields(st[i].msg) :
            k < st[i].next /\ Embeds(library, Fields(st[i].msg)[k])'
              /\ Fields(st[i].msg)[k].type \in needsValid
              => \/ Fields(st[i].msg)[k].type \in B
                 \/ i < Len(st) /\ Fields(st[i].msg)[k].type = st[i + 1].msg
      BY <1>1, <2>1, <2>3, <3>2, <3>3, SteadyFacts
    <3> QED
      BY <2>6, <3>1, <3>3, <3>4 DEF Past, Fields
  <2>10. Black' = Black
    BY <2>1 DEF Black
  <2>11. Marked' /\ Finished'
    BY <1>1, <2>1, <2>10, SteadyFacts, SameBlack
  <2>12. Searching' /\ OnlyCyclesAreRejected'
    BY <2>1, <2>7, <2>8, <2>9, <2>11 DEF Searching, OnlyCyclesAreRejected
  <2> QED
    BY <2>4, <2>11, <2>12 DEF IInv
<1> QED
  BY <1>4, <1>5, <1>6

LEMMA VisitDoneKeepsInv ==
  ASSUME IInv, VisitDone
  PROVE  IInv'
<1> DEFINE L == Len(stack)
           m == Top.msg
           B == Black
<1>1. /\ Steady /\ status = "cycles" /\ status' = "cycles" /\ stack # <<>> /\ ~MoreFields
      /\ stack' = SubSeq(stack, 1, L - 1) /\ color' = [color EXCEPT ![m] = "black"]
      /\ Calls /\ Past /\ Linked /\ Finished
  BY DEF VisitDone, Steady, IInv, Searching, Leave
<1>2. /\ stack \in Seq(Call) /\ L \in Nat /\ L \in 1 .. L /\ Top = stack[L]
      /\ m \in Message /\ Top.next \in Nat \ {0}
  BY <1>1, StackFacts DEF IInv, TypeOK, Top
<1>3. color \in [Message -> {"white", "gray", "black"}]
  BY DEF IInv, TypeOK
<1>4. m \in needsValid /\ color[m] = "gray" /\ \A i \in 1 .. L - 1 : stack[i].msg # m
  BY <1>1, <1>2 DEF Calls
<1>5. Black' = B \cup {m} /\ \A o \in Message : o # m => color'[o] = color[o]
  BY <1>1, <1>2, <1>3 DEF Black
<1>6. m \notin B
  BY <1>4 DEF Black
\* Every field of the call has been followed.
<1>7. Deps(m) \subseteq B
  <2>1. ASSUME NEW k \in DOMAIN Fields(m), Embeds(library, Fields(m)[k]),
               Fields(m)[k].type \in needsValid
        PROVE  Fields(m)[k].type \in B
    <3>1. k < Top.next
      <4>1. Len(Fields(m)) \in Nat /\ k \in 1 .. Len(Fields(m)) /\ ~(Top.next <= Len(Fields(m)))
        BY <1>1, <1>2, SchemaFacts DEF IInv, MoreFields
      <4> QED
        BY <1>2, <4>1
    <3> QED
      BY <1>1, <1>2, <2>1, <3>1 DEF Past
  <2> QED
    BY <2>1 DEF Deps, EdgeTo
<1>8. /\ stack' \in Seq(Call) /\ Len(stack') = L - 1
      /\ \A i \in 1 .. L - 1 : stack'[i] = stack[i]
  <2> DEFINE n == L - 1
  <2>1. 1 \in Int /\ n \in Int /\ n >= 0 /\ \A i \in 1 .. n : stack[i] \in Call
    BY <1>2
  <2> HIDE DEF n
  <2>2. /\ SubSeq(stack, 1, n) \in Seq(Call)
        /\ Len(SubSeq(stack, 1, n)) = IF 1 <= n THEN n - 1 + 1 ELSE 0
        /\ \A i \in 1 .. n - 1 + 1 : SubSeq(stack, 1, n)[i] = stack[1 + i - 1]
    BY <2>1, SubSeqProperties, SMTT(60)
  <2>3. \A i \in 1 .. n : i \in 1 .. n - 1 + 1 /\ 1 + i - 1 = i
    BY <2>1
  <2>4. Len(SubSeq(stack, 1, n)) = n
    BY <2>1, <2>2
  <2> QED
    BY <1>1, <2>2, <2>3, <2>4 DEF n
<1>9. TypeOK'
  <2>1. color' \in [Message -> {"white", "gray", "black"}]
    BY <1>1, <1>3
  <2> QED
    BY <1>1, <1>8, <2>1, SameSchema DEF IInv, TypeOK, Steady, Statuses
<1>10. /\ Marked' /\ \A o : Deps(o)' = Deps(o)
       /\ \A o : Fields(o)' = Fields(o)
       /\ \A fd : Embeds(library, fd)' = Embeds(library, fd)
  BY <1>1, SteadyFacts
<1>11. schema' = schema /\ library' = library /\ needsValid' = needsValid
  BY <1>1 DEF Steady
<1> HIDE DEF B
<1>12. Finished'
  <2>1. B \subseteq needsValid /\ \A o \in B : Deps(o) \subseteq B
    BY <1>1 DEF Finished, B
  <2>2. ASSUME NEW S \in SUBSET (B \cup {m})
        PROVE  ~Endless(S)
    <3>1. SUFFICES ASSUME Endless(S) PROVE FALSE
      OBVIOUS
    <3>2. PICK o \in S : o \in B
      BY <1>7, <3>1 DEF Endless
    <3>3. \A x \in S \ {m} : Deps(x) \cap (S \ {m}) # {}
      BY <1>6, <2>1, <3>1 DEF Endless
    <3>4. Endless(S \ {m})
      BY <1>6, <3>2, <3>3 DEF Endless
    <3> QED
      BY <1>1, <3>4 DEF Finished, B
  <2>3. \A S : Endless(S)' = Endless(S)
    BY <1>10 DEF Endless
  <2> QED
    BY <1>4, <1>5, <1>7, <1>10, <1>11, <2>1, <2>2, <2>3 DEF Finished
<1>13. PICK st : st = stack'
  OBVIOUS
<1>14. /\ Len(st) = L - 1
       /\ \A i \in 1 .. L - 1 : st[i] = stack[i] /\ stack[i].msg \in Message
                                /\ stack[i].next \in Nat
       /\ \A i \in 1 .. L - 1 : i \in 1 .. L /\ i < L
  BY <1>2, <1>8, <1>13, StackFacts DEF IInv
<1>15. Calls'
  <2>1. \A i \in 1 .. L - 1 : st[i].msg \in needsValid /\ color'[st[i].msg] = "gray"
    <3>1. ASSUME NEW i \in 1 .. L - 1
          PROVE  /\ stack[i].msg \in needsValid /\ color[stack[i].msg] = "gray"
                 /\ stack[i].msg \in Message /\ stack[i].msg # m /\ st[i] = stack[i]
      BY <1>1, <1>4, <1>14 DEF Calls
    <3> QED
      BY <1>5, <3>1
  <2>2. ASSUME NEW o \in Message, color'[o] = "gray"
        PROVE  \E i \in 1 .. L - 1 : st[i].msg = o
    <3>1. o # m /\ color[o] = "gray"
      BY <1>1, <1>2, <1>3, <1>5, <2>2
    <3>2. PICK i \in 1 .. L : stack[i].msg = o
      BY <1>1, <3>1 DEF Calls
    <3>3. i \in 1 .. L - 1
      BY <1>2, <3>1, <3>2
    <3> QED
      BY <1>14, <3>2, <3>3
  <2>3. \A i, j \in 1 .. L - 1 : st[i].msg = st[j].msg => i = j
    BY <1>1, <1>14 DEF Calls
  <2> QED
    BY <1>11, <1>13, <1>14, <2>1, <2>2, <2>3 DEF Calls
<1>16. Linked'
  <2>1. ASSUME NEW i \in 1 .. Len(st) - 1
        PROVE  st[i + 1].msg \in Deps(st[i].msg)'
    <3>1. i \in 1 .. L - 1 /\ i + 1 \in 1 .. L - 1
      BY <1>2, <1>14
    <3> QED
      BY <1>1, <1>10, <1>14, <3>1 DEF Linked
  <2> QED
    BY <1>13, <2>1 DEF Linked
<1>17. Past'
  <2>1. ASSUME NEW i \in 1 .. Len(st), NEW k \in DOMAIN Fields(st[i].msg),
               k < st[i].next, Embeds(library, Fields(st[i].msg)[k]),
               Fields(st[i].msg)[k].type \in needsValid
        PROVE  \/ Fields(st[i].msg)[k].type \in B \cup {m}
               \/ i < Len(st) /\ Fields(st[i].msg)[k].type = st[i + 1].msg
    <3>1. i \in 1 .. L - 1 /\ i \in 1 .. L /\ st[i] = stack[i]
      BY <1>14
    <3>2. \/ Fields(st[i].msg)[k].type \in B
          \/ Fields(st[i].msg)[k].type = stack[i + 1].msg
      BY <1>1, <2>1, <3>1 DEF Past, B
    <3>3. CASE i = L - 1
      BY <1>2, <3>2, <3>3
    <3>4. CASE i # L - 1
      <4>1. i < Len(st) /\ i + 1 \in 1 .. L - 1
        BY <1>2, <1>14, <3>1, <3>4
      <4> QED
        BY <1>14, <3>2, <4>1
    <3> QED
      BY <3>3, <3>4
  <2>2. ASSUME NEW i \in 1 .. Len(st), NEW k \in DOMAIN Fields(st[i].msg),
               k < st[i].next, Embeds(library, Fields(st[i].msg)[k])',
               Fields(st[i].msg)[k].type \in needsValid
        PROVE  \/ Fields(st[i].msg)[k].type \in B \cup {m}
               \/ i < Len(st) /\ Fields(st[i].msg)[k].type = st[i + 1].msg
    BY <1>10, <2>1, <2>2
  <2> QED
    BY <1>5, <1>11, <1>13, <2>2 DEF Past, Fields
<1> QED
  BY <1>1, <1>9, <1>10, <1>12, <1>15, <1>16, <1>17
     DEF IInv, Searching, OnlyCyclesAreRejected

LEMMA CyclesCheckedKeepsInv ==
  ASSUME IInv, CyclesChecked
  PROVE  IInv'
<1>1. /\ Steady /\ status = "cycles" /\ status' = "emit" /\ stack = <<>> /\ Unvisited = {}
      /\ stack' = stack /\ color' = color /\ Calls /\ Finished
  BY DEF CyclesChecked, Steady, IInv, Searching
<1>2. TypeOK'
  BY <1>1, SameSchema DEF IInv, TypeOK, Steady, Statuses
<1>3. Black' = Black
  BY <1>1 DEF Black
<1>4. Marked' /\ Finished'
  BY <1>1, <1>3, SteadyFacts, SameBlack
<1>5. needsValid \subseteq Black
  <2>1. ASSUME NEW m \in needsValid PROVE m \in Black
    <3>1. m \in Message /\ color[m] \in {"white", "gray", "black"}
      BY DEF IInv, TypeOK, Msgs
    <3>2. color[m] # "white"
      BY <1>1 DEF Unvisited
    <3>3. color[m] # "gray"
      BY <1>1, <3>1 DEF Calls
    <3> QED
      BY <3>1, <3>2, <3>3 DEF Black
  <2> QED
    BY <2>1
<1>6. Searching' /\ OnlyCyclesAreRejected'
  BY <1>1, <1>3, <1>4, <1>5 DEF Searching, OnlyCyclesAreRejected, Steady
<1> QED
  BY <1>2, <1>4, <1>6 DEF IInv

-----------------------------------------------------------------------------
(* generateFile changes nothing the search has established. *)

LEMMA EmitKeepsInv ==
  ASSUME IInv, status = "emit", status' \in {"emit", "done"}, TypeOK',
         library' = library, schema' = schema, needsValid' = needsValid, color' = color
  PROVE  IInv'
<1>1. \A m : Deps(m)' = Deps(m)
  BY SameSchema DEF Deps
<1>2. Marked'
  BY SameSchema DEF IInv, Marked, Settled, Resolved
<1>3. Black' = Black /\ \A S : Endless(S)' = Endless(S)
  BY <1>1 DEF Black, Endless
<1>4. Finished'
  BY <1>1, <1>3 DEF IInv, Searching, Finished
<1>5. Searching' /\ OnlyCyclesAreRejected'
  BY <1>3, <1>4 DEF IInv, Searching, OnlyCyclesAreRejected
<1> QED
  BY <1>2, <1>5 DEF IInv

LEMMA EmitRootKeepsInv ==
  ASSUME IInv, EmitRoot
  PROVE  IInv'
<1> DEFINE m == Declared[CurrentFile][at]
<1>1. /\ status = "emit" /\ status' = status /\ library' = library /\ schema' = schema
      /\ needsValid' = needsValid /\ unswept' = unswept /\ changed' = changed
      /\ color' = color /\ output' = output /\ order' = order /\ at' = at + 1
      /\ \/ m \in needsValid /\ stack' = Append(stack, Started(m)) /\ seen' = seen \cup {m}
         \/ stack' = stack /\ seen' = seen
  BY DEF EmitRoot, Enter
<1>2. TypeOK
  BY DEF IInv
<1>3. m \in needsValid => m \in Message /\ Started(m) \in Call
  BY <1>2 DEF TypeOK, Msgs, Started, Call
<1>4. stack \in Seq(Call) /\ at \in Nat \ {0} /\ seen \subseteq Message
  BY <1>2 DEF TypeOK
<1> HIDE DEF m
<1>5. stack' \in Seq(Call) /\ at' \in Nat \ {0} /\ seen' \subseteq Message
  BY <1>1, <1>3, <1>4
<1>6. TypeOK'
  BY <1>1, <1>2, <1>5, SameSchema DEF TypeOK
<1> QED
  BY <1>1, <1>6, EmitKeepsInv

LEMMA EmitFieldKeepsInv ==
  ASSUME IInv, EmitField
  PROVE  IInv'
<1>1. /\ status = "emit" /\ status' = status /\ library' = library /\ schema' = schema
      /\ needsValid' = needsValid /\ unswept' = unswept /\ changed' = changed
      /\ color' = color /\ output' = output /\ order' = order /\ at' = at /\ MoreFields
      /\ \/ Follows /\ stack' = Append(Advanced, Started(Here.type))
            /\ seen' = seen \cup {Here.type}
         \/ stack' = Advanced /\ seen' = seen
  BY DEF EmitField, FollowField, NextField
<1>2. TypeOK /\ seen \subseteq Message
  BY DEF IInv, TypeOK
<1>3. Advanced \in Seq(Call) /\ (Follows => Here.type \in Message)
  BY <1>1, AdvancedFacts, HereFacts
<1>4. Follows => Started(Here.type) \in Call
  BY <1>3 DEF Started, Call
<1>5. stack' \in Seq(Call) /\ seen' \subseteq Message
  BY <1>1, <1>2, <1>3, <1>4
<1>6. TypeOK'
  BY <1>1, <1>2, <1>5, SameSchema DEF TypeOK
<1> QED
  BY <1>1, <1>6, EmitKeepsInv

LEMMA EmitDoneKeepsInv ==
  ASSUME IInv, EmitDone
  PROVE  IInv'
<1>1. /\ status = "emit" /\ status' = status /\ library' = library /\ schema' = schema
      /\ needsValid' = needsValid /\ unswept' = unswept /\ changed' = changed
      /\ color' = color /\ output' = output /\ at' = at /\ seen' = seen /\ stack # <<>>
      /\ stack' = SubSeq(stack, 1, Len(stack) - 1) /\ order' = Append(order, Top.msg)
  BY DEF EmitDone, Leave
<1>2. /\ TypeOK /\ stack \in Seq(Call) /\ order \in Seq(Message)
      /\ Len(stack) \in Nat /\ Len(stack) > 0 /\ Top \in Call
  BY <1>1, StackFacts DEF IInv, TypeOK
<1>3. stack' \in Seq(Call)
  BY <1>1, <1>2
<1>4. order' \in Seq(Message)
  BY <1>1, <1>2 DEF Call
<1>5. TypeOK'
  BY <1>1, <1>2, <1>3, <1>4, SameSchema DEF TypeOK
<1> QED
  BY <1>1, <1>5, EmitKeepsInv

LEMMA FileDoneKeepsInv ==
  ASSUME IInv, FileDone \/ Finish
  PROVE  IInv'
<1>1. /\ status = "emit" /\ status' \in {"emit", "done"} /\ library' = library
      /\ schema' = schema /\ needsValid' = needsValid /\ unswept' = unswept
      /\ changed' = changed /\ color' = color /\ stack' = stack
      /\ \/ output' = Append(output, order) /\ at' = 1 /\ seen' = {} /\ order' = <<>>
         \/ output' = output /\ at' = at /\ seen' = seen /\ order' = order
  BY DEF FileDone, FileWalked, Finish
<1>2. TypeOK
  BY DEF IInv
<1>3. output \in Seq(Seq(Message)) /\ order \in Seq(Message) /\ at \in Nat \ {0}
      /\ seen \subseteq Message
  BY <1>2 DEF TypeOK
<1>4. /\ output' \in Seq(Seq(Message)) /\ order' \in Seq(Message) /\ at' \in Nat \ {0}
      /\ seen' \subseteq Message
  <2>1. ASSUME NEW S, NEW q \in Seq(S), NEW e \in S PROVE Append(q, e) \in Seq(S)
    OBVIOUS
  <2>2. Append(output, order) \in Seq(Seq(Message)) /\ <<>> \in Seq(Message)
    BY <1>3, <2>1
  <2>3. output' \in Seq(Seq(Message))
    BY <1>1, <1>3, <2>2, Zenon
  <2>4. order' \in Seq(Message)
    BY <1>1, <1>3, <2>2
  <2>5. at' \in Nat \ {0} /\ seen' \subseteq Message
    BY <1>1, <1>3
  <2> QED
    BY <2>3, <2>4, <2>5
<1>5. TypeOK'
  BY <1>1, <1>2, <1>4, SameSchema DEF TypeOK, Statuses
<1> QED
  BY <1>1, <1>5, EmitKeepsInv

LEMMA FileFailsKeepsInv ==
  ASSUME IInv, FileFails
  PROVE  IInv'
<1>1. /\ status' = "invalid" /\ library' = library /\ schema' = schema
      /\ needsValid' = needsValid /\ unswept' = unswept /\ changed' = changed
      /\ color' = color /\ stack' = stack /\ output' = output /\ at' = at
      /\ seen' = seen /\ order' = order
  BY DEF FileFails
<1>2. TypeOK'
  BY <1>1, SameSchema DEF IInv, TypeOK, Statuses
<1>3. Marked' /\ Searching' /\ OnlyCyclesAreRejected'
  BY <1>1 DEF Marked, Searching, OnlyCyclesAreRejected, Settled, Resolved
<1> QED
  BY <1>2, <1>3 DEF IInv

LEMMA StutterKeepsInv ==
  ASSUME IInv, UNCHANGED vars
  PROVE  IInv'
<1>1. /\ library' = library /\ schema' = schema /\ status' = status /\ color' = color
      /\ needsValid' = needsValid /\ unswept' = unswept /\ changed' = changed
      /\ stack' = stack /\ output' = output /\ at' = at /\ seen' = seen /\ order' = order
  BY DEF vars
<1>2. \A m : Deps(m)' = Deps(m)
  BY <1>1, SameSchema DEF Deps
<1>3. TypeOK' /\ Marked'
  BY <1>1, <1>2, SameSchema DEF IInv, TypeOK, Marked, Settled, Resolved
<1>4. Black' = Black /\ \A S : Endless(S)' = Endless(S)
  BY <1>1, <1>2 DEF Black, Endless
<1>5. Finished' = Finished
  BY <1>1, <1>2, <1>4 DEF Finished
<1>6. Calls' = Calls
  BY <1>1 DEF Calls
<1>7. Past' = Past
  BY <1>1 DEF Past, Black, Fields, Embeds, Covered, Targets
<1>8. Linked' = Linked
  BY <1>1 DEF Linked, Deps, EdgeTo, Fields, Embeds, Covered, Targets
<1>9. Searching' /\ OnlyCyclesAreRejected'
  BY <1>1, <1>4, <1>5, <1>6, <1>7, <1>8 DEF IInv, Searching, OnlyCyclesAreRejected
<1> QED
  BY <1>3, <1>9 DEF IInv

LEMMA Invariance ==
  Spec => []IInv
<1>1. Init => IInv
  BY InitInv
<1>2. IInv /\ [Next]_vars => IInv'
  <2> SUFFICES ASSUME IInv, [Next]_vars PROVE IInv'
    OBVIOUS
  <2>1. CASE Load
    BY <2>1, LoadKeepsInv
  <2>2. CASE \E m \in unswept : Sweep(m)
    BY <2>2, SweepKeepsInv
  <2>3. CASE SweepAgain
    BY <2>3, SweepAgainKeepsInv
  <2>4. CASE \E m \in Unvisited : VisitRoot(m)
    BY <2>4, VisitRootKeepsInv
  <2>5. CASE VisitField
    BY <2>5, VisitFieldKeepsInv
  <2>6. CASE VisitDone
    BY <2>6, VisitDoneKeepsInv
  <2>7. CASE CyclesChecked
    BY <2>7, CyclesCheckedKeepsInv
  <2>8. CASE EmitRoot
    BY <2>8, EmitRootKeepsInv
  <2>9. CASE EmitField
    BY <2>9, EmitFieldKeepsInv
  <2>10. CASE EmitDone
    BY <2>10, EmitDoneKeepsInv
  <2>11. CASE FileDone \/ Finish
    BY <2>11, FileDoneKeepsInv
  <2>12. CASE FileFails
    BY <2>12, FileFailsKeepsInv
  <2>13. CASE UNCHANGED vars
    BY <2>13, StutterKeepsInv
  <2> QED
    BY <2>1, <2>2, <2>3, <2>4, <2>5, <2>6, <2>7, <2>8, <2>9, <2>10, <2>11, <2>12, <2>13 DEF Next
<1> QED
  BY <1>1, <1>2, PTL DEF Spec

-----------------------------------------------------------------------------
(* What Generate promises. *)

\* Every variable stays in its type: generateFile never runs past the fields
\* or files it walks, needsValid never leaves the messages the run sees.
THEOREM TypeCorrect ==
  Spec => []TypeOK
BY Invariance, PTL DEF IInv

\* However Go orders its map, resolveNeedsValid stops at the least set of
\* messages closed under the embedding edges.
THEOREM ResolutionIsLeastFixpoint ==
  Spec => []NeedsValidIsLeast
<1>1. IInv => NeedsValidIsLeast
  <2> SUFFICES ASSUME IInv, Resolved PROVE needsValid = ValidIn(library)
    BY DEF NeedsValidIsLeast
  <2>1. needsValid \subseteq ValidIn(library) /\ ClosedUnderEdges(library, needsValid)
    BY DEF IInv, Marked, Settled, Resolved
  <2>2. needsValid \subseteq Msgs(library)
    BY DEF IInv, TypeOK
  <2> QED
    BY <2>1, <2>2 DEF ValidIn
<1> QED
  BY <1>1, Invariance, PTL

\* When checkNoValidCycles lets a schema through, no validated structure
\* contains itself, however long the way around.
THEOREM AcceptedIsAcyclic ==
  Spec => []NoCycleIsAccepted
<1>1. IInv => NoCycleIsAccepted
  BY DEF IInv, Searching, Finished, NoCycleIsAccepted
<1> QED
  BY <1>1, Invariance, PTL

\* checkNoValidCycles rejects recursive schemas only.
THEOREM RejectedIsCyclic ==
  Spec => []OnlyCyclesAreRejected
<1>1. IInv => OnlyCyclesAreRejected
  BY DEF IInv
<1> QED
  BY <1>1, Invariance, PTL

-----------------------------------------------------------------------------
(* The second half of Generate: the order in which generateFile declares   *)
(* the messages of a file, and the agreement of the runs of two libraries. *)
(* First what holds while a file is being walked.                          *)

IsDeclared(m) == \E j \in 1 .. Len(order) : order[j] = m
IsActive(m) == \E i \in 1 .. Len(stack) : stack[i].msg = m

\* What dfs has entered are the messages declared and those it is at, each
\* once, and all of them validated messages of the file.
Entered ==
  /\ \A m \in seen : m \in needsValid /\ FileOf[m] = CurrentFile
  /\ \A m \in Message : m \in seen <=> IsDeclared(m) \/ IsActive(m)
  /\ \A i, j \in 1 .. Len(order) : order[i] = order[j] => i = j
  /\ \A i, j \in 1 .. Len(stack) : stack[i].msg = stack[j].msg => i = j
  /\ \A i \in 1 .. Len(order), j \in 1 .. Len(stack) : order[i] # stack[j].msg

\* A declared message comes after what it embeds from the file.
Ordered ==
  \A i \in 1 .. Len(order) : \A t \in Deps(order[i]) :
    FileOf[t] = CurrentFile => \E j \in 1 .. i - 1 : order[j] = t

\* The fields an active call is past lead to declared messages.
Behind ==
  \A i \in 1 .. Len(stack) : \A k \in DOMAIN Fields(stack[i].msg) :
    LET fd == Fields(stack[i].msg)[k]
    IN  k < stack[i].next /\ Embeds(library, fd) /\ fd.type \in needsValid
          /\ FileOf[fd.type] = CurrentFile
        => IsDeclared(fd.type) \/ (i < Len(stack) /\ fd.type = stack[i + 1].msg)

\* The walk over the file has handed dfs every validated message it is past.
Handed ==
  MoreFiles => \A i \in DOMAIN Declared[CurrentFile] :
    i < at /\ Declared[CurrentFile][i] \in needsValid => Declared[CurrentFile][i] \in seen

Emitting == Entered /\ Ordered /\ Behind /\ Linked /\ Handed

Unemitted == output = <<>> /\ order = <<>> /\ seen = {} /\ at = 1

DInv ==
  /\ DeclaredBeforeUse
  /\ status = "emit" => Emitting
  /\ status \in {"load", "resolve", "cycles"} => Unemitted

-----------------------------------------------------------------------------
(* Frames.                                                                 *)

LEMMA SameDeps ==
  ASSUME library' = library, schema' = schema, needsValid' = needsValid
  PROVE  /\ \A m : Deps(m)' = Deps(m)
         /\ \A m : Fields(m)' = Fields(m)
         /\ \A fd : Embeds(library, fd)' = Embeds(library, fd)
BY SameSchema DEF Deps

LEMMA SameFile ==
  ASSUME library' = library, output' = output
  PROVE  CurrentFile' = CurrentFile /\ MoreFiles' = MoreFiles
BY DEF CurrentFile, MoreFiles

\* The files already generated stay as they are.
LEMMA KeepsDeclared ==
  ASSUME DeclaredBeforeUse, output' = output,
         library' = library, schema' = schema, needsValid' = needsValid
  PROVE  DeclaredBeforeUse'
<1>1. \A m : Deps(m)' = Deps(m)
  BY SameDeps
<1>2. \A f, ms : WellOrdered(f, ms)' = WellOrdered(f, ms)
  BY <1>1 DEF WellOrdered
<1> QED
  BY <1>2 DEF DeclaredBeforeUse

LEMMA NothingDeclared ==
  ASSUME output = <<>>
  PROVE  DeclaredBeforeUse
BY DEF DeclaredBeforeUse

LEMMA OrderFacts ==
  ASSUME IInv
  PROVE  /\ order \in Seq(Message) /\ Len(order) \in Nat
         /\ \A i \in 1 .. Len(order) : order[i] \in Message
         /\ Range(order) = {order[i] : i \in 1 .. Len(order)}
<1>1. order \in Seq(Message)
  BY DEF IInv, TypeOK
<1> QED
  BY <1>1 DEF Range

LEMMA EmitFacts ==
  ASSUME IInv, MoreFiles
  PROVE  /\ CurrentFile \in File
         /\ \A i \in DOMAIN Declared[CurrentFile] :
              Declared[CurrentFile][i] \in Message /\ FileOf[Declared[CurrentFile][i]] = CurrentFile
         /\ \A m \in Message : FileOf[m] = CurrentFile =>
              \E i \in DOMAIN Declared[CurrentFile] : Declared[CurrentFile][i] = m
         /\ DOMAIN Declared[CurrentFile] = 1 .. Len(Declared[CurrentFile])
         /\ Len(Declared[CurrentFile]) \in Nat
<1>1. FilesOf[library] \in Seq(File) /\ Len(output) \in Nat
  BY LayoutAssumption DEF IInv, TypeOK
<1>2. CurrentFile \in File
  BY <1>1 DEF MoreFiles, CurrentFile
<1>3. /\ Declared[CurrentFile] \in Seq(Message)
      /\ Range(Declared[CurrentFile]) = {m \in Message : FileOf[m] = CurrentFile}
  BY <1>2, LayoutAssumption
<1> QED
  BY <1>2, <1>3 DEF Range

-----------------------------------------------------------------------------
(* dfs.                                                                    *)

\* An accepted schema has no cycle, so no active call meets itself.
LEMMA NoActiveSuccessor ==
  ASSUME IInv, status = "emit", Emitting, MoreFields, Follows
  PROVE  ~IsActive(Here.type)
<1> SUFFICES ASSUME IsActive(Here.type) PROVE FALSE
  OBVIOUS
<1> DEFINE L == Len(stack)
<1>1. /\ L \in Nat /\ L \in 1 .. L /\ Top = stack[L]
      /\ Here.type \in Deps(Top.msg) /\ Here.type \in Message
  BY HereFacts, StackFacts DEF IInv
<1>2. PICK i \in 1 .. L : stack[i].msg = Here.type
  BY DEF IsActive
<1> DEFINE S == {stack[j].msg : j \in i .. L}
<1>3. S \subseteq needsValid
  <2>1. \A j \in 1 .. L : stack[j].msg \in seen
    BY StackFacts DEF IInv, Emitting, Entered, IsActive
  <2> QED
    BY <1>1, <1>2, <2>1 DEF Emitting, Entered
<1>4. S # {}
  BY <1>1, <1>2
<1>5. ASSUME NEW j \in i .. L
      PROVE  Deps(stack[j].msg) \cap S # {}
  <2>1. CASE j = L
    <3>1. Here.type \in S
      BY <1>1, <1>2
    <3> QED
      BY <1>1, <2>1, <3>1
  <2>2. CASE j # L
    <3>1. j \in 1 .. L - 1 /\ j + 1 \in i .. L
      BY <1>1, <1>2, <2>2
    <3>2. stack[j + 1].msg \in Deps(stack[j].msg)
      BY <3>1 DEF Emitting, Linked
    <3>3. stack[j + 1].msg \in S
      BY <3>1
    <3> QED
      BY <3>2, <3>3
  <2> QED
    BY <2>1, <2>2
<1>6. Endless(S)
  BY <1>4, <1>5 DEF Endless
<1>7. S \in SUBSET Black
  BY <1>3 DEF IInv, Searching
<1> QED
  BY <1>6, <1>7 DEF IInv, Searching, Finished

\* A new call on top of the active ones, for a message not entered before.
LEMMA EnterKeeps ==
  ASSUME IInv, status = "emit", Emitting,
         NEW m \in needsValid, m \in Message, m \notin seen, FileOf[m] = CurrentFile,
         NEW callers \in Seq(Call), Len(callers) = Len(stack),
         \A i \in 1 .. Len(stack) : callers[i].msg = stack[i].msg,
         stack # <<>> => m \in Deps(stack[Len(stack)].msg),
         stack' = Append(callers, Started(m)), seen' = seen \cup {m}, order' = order,
         library' = library, schema' = schema, needsValid' = needsValid, output' = output
  PROVE  Entered' /\ Ordered' /\ Linked'
<1> DEFINE L == Len(stack)
<1>1. /\ L \in Nat /\ Len(stack') = L + 1 /\ stack'[L + 1] = Started(m)
      /\ \A i \in 1 .. L : stack'[i] = callers[i]
      /\ (stack = <<>> <=> L = 0)
  <2>1. Started(m) \in Call
    BY DEF Started, Call
  <2>2. stack \in Seq(Call) /\ L \in Nat
    BY StackFacts DEF IInv, TypeOK
  <2> QED
    BY <2>1, <2>2
<1>2. stack'[L + 1].msg = m /\ \A i \in 1 .. L : stack'[i].msg = stack[i].msg
  BY <1>1 DEF Started
<1>3. /\ \A t : IsDeclared(t)' = IsDeclared(t)
      /\ \A t : IsActive(t)' <=> IsActive(t) \/ t = m
  BY <1>1, <1>2 DEF IsDeclared, IsActive
<1>4. CurrentFile' = CurrentFile /\ \A t : Deps(t)' = Deps(t)
  BY SameFile, SameDeps
<1>5. ~IsDeclared(m) /\ ~IsActive(m)
  BY DEF Emitting, Entered
<1>6. Entered'
  <2>1. \A t \in seen' : t \in needsValid' /\ FileOf[t] = CurrentFile'
    BY <1>4 DEF Emitting, Entered
  <2>2. \A t \in Message : t \in seen' <=> IsDeclared(t)' \/ IsActive(t)'
    BY <1>3 DEF Emitting, Entered
  <2>3. \A i, j \in 1 .. Len(order') : order'[i] = order'[j] => i = j
    BY DEF Emitting, Entered
  <2>4. ASSUME NEW i \in 1 .. Len(stack'), NEW j \in 1 .. Len(stack'), stack'[i].msg = stack'[j].msg
        PROVE  i = j
    <3>1. \A k \in 1 .. L : stack[k].msg # m
      BY <1>5 DEF IsActive
    <3> QED
      BY <1>1, <1>2, <2>4, <3>1 DEF Emitting, Entered
  <2>5. ASSUME NEW i \in 1 .. Len(order'), NEW j \in 1 .. Len(stack')
        PROVE  order'[i] # stack'[j].msg
    <3>1. order[i] # m
      BY <1>5 DEF IsDeclared
    <3> QED
      BY <1>1, <1>2, <3>1 DEF Emitting, Entered
  <2> QED
    BY <2>1, <2>2, <2>3, <2>4, <2>5 DEF Entered
<1>7. Ordered'
  BY <1>4 DEF Emitting, Ordered
<1>8. Linked'
  BY <1>1, <1>2, <1>4 DEF Emitting, Linked
<1> QED
  BY <1>6, <1>7, <1>8

LEMMA EmitRootKeeps ==
  ASSUME IInv, DInv, EmitRoot
  PROVE  DInv'
<1> DEFINE m == Declared[CurrentFile][at]
<1>1. /\ status = "emit" /\ status' = status /\ library' = library /\ schema' = schema
      /\ needsValid' = needsValid /\ output' = output /\ order' = order /\ at' = at + 1
      /\ stack = <<>> /\ MoreFiles /\ at <= Len(Declared[CurrentFile])
      /\ \/ m \in needsValid \ seen /\ stack' = Append(stack, Started(m)) /\ seen' = seen \cup {m}
         \/ m \notin needsValid \ seen /\ stack' = stack /\ seen' = seen
  BY DEF EmitRoot, Enter
<1>2. DeclaredBeforeUse' /\ Emitting
  BY <1>1, KeepsDeclared DEF DInv
<1>3. /\ at \in Nat \ {0} /\ at \in DOMAIN Declared[CurrentFile]
      /\ m \in Message /\ FileOf[m] = CurrentFile
  <2>1. at \in Nat \ {0}
    BY DEF IInv, TypeOK
  <2> QED
    BY <1>1, <2>1, EmitFacts
<1>4. CurrentFile' = CurrentFile /\ MoreFiles' = MoreFiles /\ Len(stack) = 0
  BY <1>1, SameFile
<1>5. Handed'
  <2>1. ASSUME NEW i \in DOMAIN Declared[CurrentFile], i < at', Declared[CurrentFile][i] \in needsValid
        PROVE  Declared[CurrentFile][i] \in seen'
    <3>1. i \in Nat
      BY <1>1, EmitFacts
    <3>2. CASE i = at
      BY <1>1, <2>1, <3>2
    <3>3. CASE i < at
      BY <1>1, <1>2, <2>1, <3>3 DEF Emitting, Handed
    <3> QED
      BY <1>1, <1>3, <2>1, <3>1, <3>2, <3>3
  <2> QED
    BY <1>1, <1>4, <2>1 DEF Handed
<1> HIDE DEF m
<1>6. Entered' /\ Ordered' /\ Linked' /\ Behind'
  <2>1. CASE m \in needsValid \ seen /\ stack' = Append(stack, Started(m)) /\ seen' = seen \cup {m}
    <3>1. stack \in Seq(Call)
      BY DEF IInv, TypeOK
    <3>2. Entered' /\ Ordered' /\ Linked'
      BY <1>1, <1>2, <1>3, <2>1, <3>1, EnterKeeps
    <3>3. Len(stack') = 1 /\ stack'[1] = Started(m)
      BY <1>1, <2>1
    <3>4. Behind'
      <4>1. stack'[1].msg = m /\ stack'[1].next = 1
        BY <3>3 DEF Started
      <4>2. \A k \in DOMAIN Fields(stack'[1].msg) : ~(k < stack'[1].next)
        BY <1>3, <4>1, SchemaFacts DEF IInv
      <4> SUFFICES ASSUME NEW k \in DOMAIN Fields(stack'[1].msg), k < stack'[1].next
                   PROVE  FALSE
        BY <1>1, <3>3, SameDeps DEF Behind
      <4> QED
        BY <4>2
    <3> QED
      BY <3>2, <3>4
  <2>2. CASE stack' = stack /\ seen' = seen
    <3>1. \A t : IsDeclared(t)' = IsDeclared(t) /\ IsActive(t)' = IsActive(t)
      BY <1>1, <2>2 DEF IsDeclared, IsActive
    <3>2. Entered'
      BY <1>1, <1>2, <1>4, <2>2, <3>1 DEF Emitting, Entered
    <3>3. Ordered'
      BY <1>1, <1>2, <1>4, SameDeps DEF Emitting, Ordered
    <3>4. Linked' /\ Behind'
      BY <1>1, <1>4, <2>2 DEF Linked, Behind
    <3> QED
      BY <3>2, <3>3, <3>4
  <2> QED
    BY <1>1, <2>1, <2>2
<1> QED
  BY <1>1, <1>2, <1>5, <1>6 DEF DInv, Emitting

LEMMA EmitFieldKeeps ==
  ASSUME IInv, DInv, EmitField
  PROVE  DInv'
<1> DEFINE L == Len(stack)
           Into == Follows /\ FileOf[Here.type] = CurrentFile /\ Here.type \notin seen
<1>1. /\ status = "emit" /\ status' = status /\ library' = library /\ schema' = schema
      /\ needsValid' = needsValid /\ output' = output /\ order' = order /\ at' = at
      /\ MoreFields
      /\ IF Into THEN stack' = Append(Advanced, Started(Here.type)) /\ seen' = seen \cup {Here.type}
         ELSE stack' = Advanced /\ seen' = seen
  BY DEF EmitField, FollowField, NextField
<1>2. DeclaredBeforeUse' /\ Emitting
  BY <1>1, KeepsDeclared DEF DInv
<1>3. /\ stack # <<>> /\ L \in Nat /\ L \in 1 .. L /\ Top = stack[L]
      /\ Top.next \in Nat \ {0} /\ Here = Fields(Top.msg)[Top.next]
      /\ Top.next \in DOMAIN Fields(Top.msg)
      /\ Follows => Here.type \in Deps(Top.msg) /\ Here.type \in Message
  BY <1>1, HereFacts, StackFacts DEF IInv, Here
<1>4. /\ Advanced \in Seq(Call) /\ Len(Advanced) = L
      /\ \A i \in 1 .. L :
           /\ Advanced[i].msg = stack[i].msg
           /\ Advanced[i].next = IF i = L THEN stack[i].next + 1 ELSE stack[i].next
  BY <1>1, AdvancedFacts
<1>5. /\ CurrentFile' = CurrentFile /\ MoreFiles' = MoreFiles
      /\ \A t : Deps(t)' = Deps(t) /\ Fields(t)' = Fields(t)
      /\ \A fd : Embeds(library, fd)' = Embeds(library, fd)
  BY <1>1, SameFile, SameDeps
<1>6. \A t : IsDeclared(t)' = IsDeclared(t)
  BY <1>1 DEF IsDeclared
<1>7. Handed'
  BY <1>1, <1>2, <1>5 DEF Emitting, Handed
<1>8. ASSUME NEW i \in 1 .. L, NEW k \in DOMAIN Fields(stack[i].msg), k < Advanced[i].next,
             Embeds(library, Fields(stack[i].msg)[k]), Fields(stack[i].msg)[k].type \in needsValid,
             FileOf[Fields(stack[i].msg)[k].type] = CurrentFile
      PROVE  \/ IsDeclared(Fields(stack[i].msg)[k].type)
             \/ i < L /\ Fields(stack[i].msg)[k].type = stack[i + 1].msg
             \/ i = L /\ Into /\ Fields(stack[i].msg)[k].type = Here.type
  <2>1. CASE k < stack[i].next
    BY <1>2, <1>8, <2>1 DEF Emitting, Behind
  <2>2. CASE ~(k < stack[i].next)
    <3>1. k \in Nat /\ stack[i].next \in Nat
      BY StackFacts, SchemaFacts DEF IInv
    <3>2. i = L /\ k = Top.next
      BY <1>3, <1>4, <1>8, <2>2, <3>1
    <3>3. Fields(stack[i].msg)[k] = Here /\ Follows
      BY <1>3, <1>8, <3>2 DEF Follows
    <3>4. CASE Into
      BY <3>2, <3>3, <3>4
    <3>5. CASE ~Into
      <4>1. Here.type \in seen
        BY <1>8, <3>3, <3>5
      <4>2. ~IsActive(Here.type)
        BY <1>1, <1>2, <3>3, NoActiveSuccessor
      <4>3. IsDeclared(Here.type)
        BY <1>2, <1>3, <3>3, <4>1, <4>2 DEF Emitting, Entered
      <4> QED
        BY <3>3, <4>3
    <3> QED
      BY <3>4, <3>5
  <2> QED
    BY <2>1, <2>2
<1>9. CASE Into
  <2>1. Here.type \in needsValid
    BY <1>9 DEF Follows
  <2>2. Entered' /\ Ordered' /\ Linked'
    <3>1. /\ stack' = Append(Advanced, Started(Here.type)) /\ seen' = seen \cup {Here.type}
          /\ Here.type \in Message /\ Here.type \notin seen /\ FileOf[Here.type] = CurrentFile
          /\ stack # <<>> => Here.type \in Deps(stack[Len(stack)].msg)
          /\ \A i \in 1 .. Len(stack) : Advanced[i].msg = stack[i].msg
      BY <1>1, <1>3, <1>4, <1>9
    <3> QED
      BY <1>1, <1>2, <1>4, <2>1, <3>1, EnterKeeps
  <2>3. /\ Len(stack') = L + 1 /\ stack'[L + 1].msg = Here.type /\ stack'[L + 1].next = 1
        /\ \A i \in 1 .. L : stack'[i].msg = stack[i].msg /\ stack'[i].next = Advanced[i].next
    <3>1. Started(Here.type) \in Call
      BY <1>3, <1>9 DEF Started, Call
    <3>2. stack'[L + 1] = Started(Here.type) /\ Len(stack') = L + 1
          /\ \A i \in 1 .. L : stack'[i] = Advanced[i]
      BY <1>1, <1>3, <1>4, <1>9, <3>1
    <3> QED
      BY <1>4, <3>2 DEF Started
  <2>4. Behind'
    <3> SUFFICES ASSUME NEW i \in 1 .. L + 1, NEW k \in DOMAIN Fields(stack'[i].msg), k < stack'[i].next,
                        Embeds(library, Fields(stack'[i].msg)[k]),
                        Fields(stack'[i].msg)[k].type \in needsValid,
                        FileOf[Fields(stack'[i].msg)[k].type] = CurrentFile
                 PROVE  \/ IsDeclared(Fields(stack'[i].msg)[k].type)
                        \/ i < L + 1 /\ Fields(stack'[i].msg)[k].type = stack'[i + 1].msg
      BY <1>1, <1>5, <1>6, <2>3 DEF Behind
    <3>1. CASE i = L + 1
      <4>1. k < 1
        BY <2>3, <3>1
      <4>2. k \in Nat \ {0}
        BY <1>3, <1>9, <2>3, <3>1, SchemaFacts DEF IInv
      <4> QED
        BY <4>1, <4>2
    <3>2. CASE i \in 1 .. L
      <4>1. stack'[i].msg = stack[i].msg /\ stack'[i].next = Advanced[i].next
        BY <2>3, <3>2
      <4>2. \/ IsDeclared(Fields(stack[i].msg)[k].type)
            \/ i < L /\ Fields(stack[i].msg)[k].type = stack[i + 1].msg
            \/ i = L /\ Fields(stack[i].msg)[k].type = Here.type
        BY <1>8, <3>2, <4>1
      <4> QED
        BY <1>3, <2>3, <3>2, <4>1, <4>2
    <3> QED
      BY <1>3, <3>1, <3>2
  <2> QED
    BY <1>1, <1>2, <1>7, <2>2, <2>4 DEF DInv, Emitting
<1>10. CASE ~Into
  <2>1. stack' = Advanced /\ seen' = seen /\ Len(stack') = L
        /\ \A i \in 1 .. L : stack'[i].msg = stack[i].msg /\ stack'[i].next = Advanced[i].next
    BY <1>1, <1>4, <1>10
  <2>2. \A t : IsActive(t)' = IsActive(t)
    BY <2>1 DEF IsActive
  <2>3. Entered'
    BY <1>1, <1>2, <1>5, <1>6, <2>1, <2>2 DEF Emitting, Entered
  <2>4. Ordered'
    BY <1>1, <1>2, <1>5 DEF Emitting, Ordered
  <2>5. Linked'
    BY <1>2, <1>3, <1>5, <2>1 DEF Emitting, Linked
  <2>6. Behind'
    <3> SUFFICES ASSUME NEW i \in 1 .. L, NEW k \in DOMAIN Fields(stack'[i].msg), k < stack'[i].next,
                        Embeds(library, Fields(stack'[i].msg)[k]),
                        Fields(stack'[i].msg)[k].type \in needsValid,
                        FileOf[Fields(stack'[i].msg)[k].type] = CurrentFile
                 PROVE  \/ IsDeclared(Fields(stack'[i].msg)[k].type)
                        \/ i < L /\ Fields(stack'[i].msg)[k].type = stack'[i + 1].msg
      BY <1>1, <1>5, <1>6, <2>1 DEF Behind
    <3>1. stack'[i].msg = stack[i].msg /\ stack'[i].next = Advanced[i].next
      BY <2>1
    <3>2. \/ IsDeclared(Fields(stack[i].msg)[k].type)
          \/ i < L /\ Fields(stack[i].msg)[k].type = stack[i + 1].msg
      BY <1>8, <1>10, <3>1
    <3> QED
      BY <1>3, <2>1, <3>1, <3>2
  <2> QED
    BY <1>1, <1>2, <1>7, <2>3, <2>4, <2>5, <2>6 DEF DInv, Emitting
<1> QED
  BY <1>9, <1>10

\* A finished call leads to declared messages only, and becomes one.
LEMMA EmitDoneKeeps ==
  ASSUME IInv, DInv, EmitDone
  PROVE  DInv'
<1> DEFINE L == Len(stack)
           N == Len(order)
<1>1. /\ status = "emit" /\ status' = status /\ library' = library /\ schema' = schema
      /\ needsValid' = needsValid /\ output' = output /\ at' = at /\ seen' = seen
      /\ stack # <<>> /\ ~MoreFields
      /\ stack' = SubSeq(stack, 1, L - 1) /\ order' = Append(order, Top.msg)
  BY DEF EmitDone, Leave
<1>2. DeclaredBeforeUse' /\ Emitting
  BY <1>1, KeepsDeclared DEF DInv
<1>3. /\ L \in Nat /\ L > 0 /\ Top = stack[L] /\ Top.msg \in Message /\ Top.next \in Nat
      /\ L \in 1 .. L /\ stack \in Seq(Call)
  BY <1>1, StackFacts DEF IInv, Top, TypeOK
<1>4. /\ N \in Nat /\ Len(order') = N + 1 /\ order'[N + 1] = stack[L].msg
      /\ \A i \in 1 .. N : order'[i] = order[i]
  BY <1>1, <1>3, OrderFacts
<1>5. Len(stack') = L - 1 /\ \A i \in 1 .. L - 1 : stack'[i] = stack[i]
  <2> DEFINE n == L - 1
  <2>1. 1 \in Int /\ n \in Int /\ n >= 0 /\ \A i \in 1 .. n : stack[i] \in Call
    BY <1>3, StackFacts DEF IInv
  <2> HIDE DEF n
  <2>2. Len(SubSeq(stack, 1, n)) = n /\ \A i \in 1 .. n : SubSeq(stack, 1, n)[i] = stack[i]
    BY <2>1, SubSeqProperties
  <2> QED
    BY <1>1, <2>2 DEF n
<1>6. /\ CurrentFile' = CurrentFile /\ MoreFiles' = MoreFiles
      /\ \A t : Deps(t)' = Deps(t) /\ Fields(t)' = Fields(t)
      /\ \A fd : Embeds(library, fd)' = Embeds(library, fd)
  BY <1>1, SameFile, SameDeps
<1>7. /\ \A t : IsDeclared(t)' <=> IsDeclared(t) \/ t = stack[L].msg
      /\ \A t : IsActive(t)' \/ t = stack[L].msg <=> IsActive(t)
  <2>1. \A t : IsDeclared(t)' <=> IsDeclared(t) \/ t = stack[L].msg
    BY <1>4 DEF IsDeclared
  <2>2. \A i \in 1 .. L : i \in 1 .. L - 1 \/ i = L
    BY <1>3
  <2>3. \A i \in 1 .. L - 1 : i \in 1 .. L
    BY <1>3
  <2>4. ASSUME NEW t
        PROVE  IsActive(t)' \/ t = stack[L].msg <=> IsActive(t)
    <3>1. IsActive(t)' <=> \E i \in 1 .. L - 1 : stack[i].msg = t
      BY <1>5 DEF IsActive
    <3> QED
      BY <1>3, <2>2, <2>3, <3>1 DEF IsActive
  <2> QED
    BY <2>1, <2>4
<1>8. Entered'
  <2>1. \A t \in seen' : t \in needsValid' /\ FileOf[t] = CurrentFile'
    BY <1>1, <1>2, <1>6 DEF Emitting, Entered
  <2>2. \A t \in Message : t \in seen' <=> IsDeclared(t)' \/ IsActive(t)'
    BY <1>1, <1>2, <1>7 DEF Emitting, Entered
  <2>3. ASSUME NEW i \in 1 .. Len(order'), NEW j \in 1 .. Len(order'), order'[i] = order'[j]
        PROVE  i = j
    <3>1. \A k \in 1 .. N : order[k] # stack[L].msg
      BY <1>2, <1>3 DEF Emitting, Entered
    <3> QED
      BY <1>2, <1>4, <2>3, <3>1 DEF Emitting, Entered
  <2>4. \A i, j \in 1 .. Len(stack') : stack'[i].msg = stack'[j].msg => i = j
    BY <1>2, <1>3, <1>5 DEF Emitting, Entered
  <2>5. ASSUME NEW i \in 1 .. Len(order'), NEW j \in 1 .. Len(stack')
        PROVE  order'[i] # stack'[j].msg
    <3>1. j \in 1 .. L /\ j # L /\ stack'[j] = stack[j]
      BY <1>3, <1>5
    <3>2. CASE i \in 1 .. N
      BY <1>2, <1>4, <3>1, <3>2 DEF Emitting, Entered
    <3>3. CASE i = N + 1
      BY <1>2, <1>3, <1>4, <3>1, <3>3 DEF Emitting, Entered
    <3> QED
      BY <1>4, <3>2, <3>3
  <2> QED
    BY <2>1, <2>2, <2>3, <2>4, <2>5 DEF Entered
<1>9. Ordered'
  <2>1. ASSUME NEW i \in 1 .. N + 1, NEW t \in Deps(order'[i]), FileOf[t] = CurrentFile
        PROVE  \E j \in 1 .. i - 1 : order'[j] = t
    <3>1. CASE i \in 1 .. N
      <4>1. PICK j \in 1 .. i - 1 : order[j] = t
        BY <1>2, <1>4, <2>1, <3>1 DEF Emitting, Ordered
      <4>2. j \in 1 .. N
        BY <1>4, <3>1
      <4> QED
        BY <1>4, <4>1, <4>2
    <3>2. CASE i = N + 1
      <4>1. PICK k \in DOMAIN Fields(Top.msg) :
              Embeds(library, Fields(Top.msg)[k]) /\ Fields(Top.msg)[k].type = t
        BY <1>3, <1>4, <2>1, <3>2 DEF Deps, EdgeTo
      <4>2. t \in needsValid
        BY <2>1 DEF Deps
      <4>3. k < Top.next
        <5>1. DOMAIN Fields(Top.msg) = 1 .. Len(Fields(Top.msg)) /\ Len(Fields(Top.msg)) \in Nat
          BY <1>3, SchemaFacts DEF IInv
        <5>2. ~(Top.next <= Len(Fields(Top.msg)))
          BY <1>1 DEF MoreFields
        <5> QED
          BY <1>3, <5>1, <5>2
      <4>4. IsDeclared(t)
        <5>1. ~(L < L)
          BY <1>3
        <5> QED
          BY <1>2, <1>3, <2>1, <4>1, <4>2, <4>3, <5>1 DEF Emitting, Behind
      <4>5. PICK j \in 1 .. N : order[j] = t
        BY <4>4 DEF IsDeclared
      <4> QED
        BY <1>4, <3>2, <4>5
    <3> QED
      BY <1>4, <3>1, <3>2
  <2> QED
    BY <1>4, <1>6, <2>1 DEF Ordered
<1>10. Linked'
  BY <1>2, <1>3, <1>5, <1>6 DEF Emitting, Linked
<1>11. Behind'
  <2> SUFFICES ASSUME NEW i \in 1 .. L - 1, NEW k \in DOMAIN Fields(stack'[i].msg), k < stack'[i].next,
                      Embeds(library, Fields(stack'[i].msg)[k]),
                      Fields(stack'[i].msg)[k].type \in needsValid,
                      FileOf[Fields(stack'[i].msg)[k].type] = CurrentFile
               PROVE  \/ \E j \in 1 .. Len(order') : order'[j] = Fields(stack'[i].msg)[k].type
                      \/ i < L - 1 /\ Fields(stack'[i].msg)[k].type = stack'[i + 1].msg
    BY <1>1, <1>5, <1>6 DEF Behind, IsDeclared
  <2>0. stack'[i] = stack[i]
    BY <1>5
  <2>1. i \in 1 .. L
    BY <1>3
  <2>2. \/ IsDeclared(Fields(stack[i].msg)[k].type)
        \/ i < L /\ Fields(stack[i].msg)[k].type = stack[i + 1].msg
    BY <1>2, <2>0, <2>1 DEF Emitting, Behind
  <2>3. CASE IsDeclared(Fields(stack[i].msg)[k].type)
    BY <1>4, <2>0, <2>3 DEF IsDeclared
  <2>4. CASE Fields(stack[i].msg)[k].type = stack[i + 1].msg
    <3>1. CASE i + 1 = L
      BY <1>3, <1>4, <2>0, <2>4, <3>1
    <3>2. CASE i + 1 # L
      <4>1. i < L - 1 /\ i + 1 \in 1 .. L - 1
        BY <1>3, <3>2
      <4> QED
        BY <1>5, <2>0, <2>4, <4>1
    <3> QED
      BY <3>1, <3>2
  <2> QED
    BY <2>2, <2>3, <2>4
<1>12. Handed'
  BY <1>1, <1>2, <1>6 DEF Emitting, Handed
<1> QED
  BY <1>1, <1>2, <1>8, <1>9, <1>10, <1>11, <1>12 DEF DInv, Emitting

\* A file that has been walked is in order and complete.
LEMMA WalkedIsOrdered ==
  ASSUME IInv, status = "emit", Emitting, FileWalked
  PROVE  WellOrdered(CurrentFile, order)
<1>1. stack = <<>> /\ Len(stack) = 0 /\ MoreFiles /\ at > Len(Declared[CurrentFile])
  BY DEF FileWalked
<1>2. \A m : ~IsActive(m)
  BY <1>1 DEF IsActive
<1>3. ASSUME NEW m \in needsValid, FileOf[m] = CurrentFile
      PROVE  m \in Range(order)
  <2>1. m \in Message
    BY DEF IInv, TypeOK, Msgs
  <2>2. PICK i \in DOMAIN Declared[CurrentFile] : Declared[CurrentFile][i] = m
    BY <1>1, <1>3, <2>1, EmitFacts
  <2>3. i < at
    BY <1>1, <2>2, EmitFacts DEF IInv, TypeOK
  <2>4. m \in seen
    BY <1>1, <2>2, <2>3 DEF Emitting, Handed
  <2>5. IsDeclared(m)
    BY <1>2, <2>1, <2>4 DEF Emitting, Entered
  <2> QED
    BY <2>5, OrderFacts DEF IsDeclared
<1>4. ASSUME NEW m \in Range(order)
      PROVE  m \in needsValid /\ FileOf[m] = CurrentFile
  <2>1. IsDeclared(m) /\ m \in Message
    BY OrderFacts DEF IsDeclared
  <2>2. m \in seen
    BY <2>1 DEF Emitting, Entered
  <2> QED
    BY <2>2 DEF Emitting, Entered
<1>5. DOMAIN order = 1 .. Len(order) /\ Len(order) \in Nat
  BY OrderFacts
<1>6. ASSUME NEW i \in DOMAIN order, NEW j \in DOMAIN order, order[j] \in Deps(order[i])
      PROVE  j < i
  <2>1. FileOf[order[j]] = CurrentFile
    BY <1>4, <1>5, <1>6, OrderFacts
  <2>2. PICK k \in 1 .. i - 1 : order[k] = order[j]
    BY <1>5, <1>6, <2>1 DEF Emitting, Ordered
  <2>3. k \in 1 .. Len(order) /\ k = j
    BY <1>5, <2>2 DEF Emitting, Entered
  <2> QED
    BY <1>5, <2>2, <2>3
<1>7. \A i, j \in DOMAIN order : order[i] = order[j] => i = j
  BY <1>5 DEF Emitting, Entered
<1>8. Range(order) = {m \in needsValid : FileOf[m] = CurrentFile}
  BY <1>3, <1>4
<1> QED
  BY <1>6, <1>7, <1>8 DEF WellOrdered

LEMMA FileDoneKeeps ==
  ASSUME IInv, DInv, FileDone
  PROVE  DInv'
<1>1. /\ status = "emit" /\ status' = status /\ library' = library /\ schema' = schema
      /\ needsValid' = needsValid /\ output' = Append(output, order) /\ at' = 1 /\ seen' = {}
      /\ order' = <<>> /\ stack' = stack /\ stack = <<>> /\ FileWalked /\ MoreFiles
  BY DEF FileDone, FileWalked
<1>2. Emitting /\ DeclaredBeforeUse
  BY <1>1 DEF DInv
<1>3. WellOrdered(FilesOf[library][Len(output) + 1], order)
  BY <1>1, <1>2, WalkedIsOrdered DEF CurrentFile
<1>4. /\ output \in Seq(Seq(Message)) /\ Len(output) \in Nat /\ Len(output') = Len(output) + 1
      /\ output'[Len(output) + 1] = order /\ \A k \in 1 .. Len(output) : output'[k] = output[k]
  <2>1. output \in Seq(Seq(Message))
    BY DEF IInv, TypeOK
  <2> QED
    BY <1>1, <2>1, AppendProperties, OrderFacts
<1>5. DOMAIN output = 1 .. Len(output) /\ DOMAIN output' = 1 .. Len(output) + 1
  <2>1. order \in Seq(Message)
    BY OrderFacts
  <2>2. output' \in Seq(Seq(Message))
    BY <1>1, <1>4, <2>1, AppendProperties
  <2> QED
    BY <1>4, <2>2
<1>6. ASSUME NEW k \in DOMAIN output'
      PROVE  WellOrdered(FilesOf[library][k], output'[k])
  <2>1. CASE k \in DOMAIN output
    BY <1>2, <1>4, <1>5, <2>1 DEF DeclaredBeforeUse
  <2>2. CASE k = Len(output) + 1
    BY <1>3, <1>4, <2>2
  <2> QED
    BY <1>4, <1>5, <2>1, <2>2
<1>7. DeclaredBeforeUse'
  <2>1. \A t : Deps(t)' = Deps(t)
    BY <1>1, SameDeps
  <2>2. \A g, ms : WellOrdered(g, ms)' = WellOrdered(g, ms)
    BY <1>1, <2>1 DEF WellOrdered
  <2> QED
    BY <1>1, <1>6, <2>2 DEF DeclaredBeforeUse
<1>8. Emitting'
  <2>1. Len(order') = 0 /\ Len(stack') = 0
    BY <1>1
  <2>2. Entered' /\ Ordered' /\ Behind' /\ Linked'
    BY <1>1, <2>1 DEF Entered, Ordered, Behind, Linked, IsDeclared, IsActive
  <2>3. Handed'
    <3> SUFFICES ASSUME MoreFiles', NEW i \in DOMAIN Declared[CurrentFile'] PROVE ~(i < at')
      BY DEF Handed
    <3>1. CurrentFile' \in File
      <4>1. FilesOf[library] \in Seq(File) /\ library' = library
        BY <1>1, LayoutAssumption DEF IInv, TypeOK
      <4>2. Len(output) + 2 \in 1 .. Len(FilesOf[library])
        BY <1>1, <1>4, <4>1 DEF MoreFiles
      <4>3. CurrentFile' = FilesOf[library][Len(output) + 2]
        BY <1>1, <1>4, <4>1 DEF CurrentFile
      <4> QED
        BY <4>1, <4>2, <4>3
    <3>2. Declared[CurrentFile'] \in Seq(Message)
      BY <3>1, LayoutAssumption
    <3> QED
      BY <1>1, <3>2
  <2> QED
    BY <2>2, <2>3 DEF Emitting
<1> QED
  BY <1>1, <1>7, <1>8 DEF DInv

\* Before generateFile nothing is declared, and no file walked.
LEMMA EarlierKeeps ==
  ASSUME IInv, DInv,
         Load \/ (\E m \in unswept : Sweep(m)) \/ SweepAgain
           \/ (\E m \in Unvisited : VisitRoot(m)) \/ VisitField \/ VisitDone
  PROVE  DInv'
<1>1. /\ status \in {"load", "resolve", "cycles"} /\ status' # "emit"
      /\ output' = output /\ order' = order /\ seen' = seen /\ at' = at
  BY DEF Load, Sweep, SweepAgain, VisitRoot, VisitField, VisitDone
<1>2. Unemitted /\ Unemitted'
  BY <1>1 DEF DInv, Unemitted
<1>3. DeclaredBeforeUse'
  BY <1>2 DEF DeclaredBeforeUse, Unemitted
<1> QED
  BY <1>1, <1>2, <1>3 DEF DInv

LEMMA CyclesCheckedKeeps ==
  ASSUME IInv, DInv, CyclesChecked
  PROVE  DInv'
<1>1. /\ status = "cycles" /\ status' = "emit" /\ stack' = <<>> /\ library' = library
      /\ output' = output /\ order' = order /\ seen' = seen /\ at' = at
  BY DEF CyclesChecked
<1>2. output' = <<>> /\ order' = <<>> /\ seen' = {} /\ at' = 1
  BY <1>1 DEF DInv, Unemitted
<1>3. DeclaredBeforeUse'
  BY <1>2 DEF DeclaredBeforeUse
<1>4. Len(order') = 0 /\ Len(stack') = 0
  BY <1>1, <1>2
<1>5. Entered' /\ Ordered' /\ Behind' /\ Linked'
  BY <1>1, <1>2, <1>4 DEF Entered, Ordered, Behind, Linked, IsDeclared, IsActive
<1>6. Handed'
  <2> SUFFICES ASSUME MoreFiles', NEW i \in DOMAIN Declared[CurrentFile'] PROVE ~(i < at')
    BY DEF Handed
  <2>1. CurrentFile' = CurrentFile /\ MoreFiles
    BY <1>1, SameFile
  <2>2. i \in Nat \ {0}
    BY <2>1, EmitFacts
  <2> QED
    BY <1>2, <2>2
<1> QED
  BY <1>1, <1>3, <1>5, <1>6 DEF DInv, Emitting

\* The end of a run, in success or not.
LEMMA EndKeeps ==
  ASSUME IInv, DInv, FileFails \/ Finish
  PROVE  DInv'
<1>1. /\ status' \in {"invalid", "done"} /\ library' = library /\ schema' = schema
      /\ needsValid' = needsValid /\ output' = output
  BY DEF FileFails, Finish
<1>2. DeclaredBeforeUse'
  BY <1>1, KeepsDeclared DEF DInv
<1> QED
  BY <1>1, <1>2 DEF DInv

LEMMA IdleKeeps ==
  ASSUME IInv, DInv, UNCHANGED vars
  PROVE  DInv'
<1>1. /\ library' = library /\ schema' = schema /\ status' = status
      /\ needsValid' = needsValid /\ stack' = stack /\ output' = output
      /\ at' = at /\ seen' = seen /\ order' = order
  BY DEF vars
<1>2. DeclaredBeforeUse'
  BY <1>1, KeepsDeclared DEF DInv
<1>3. /\ CurrentFile' = CurrentFile /\ MoreFiles' = MoreFiles
      /\ \A t : Deps(t)' = Deps(t) /\ Fields(t)' = Fields(t)
      /\ \A fd : Embeds(library, fd)' = Embeds(library, fd)
  BY <1>1, SameFile, SameDeps
<1>4. \A t : IsDeclared(t)' = IsDeclared(t) /\ IsActive(t)' = IsActive(t)
  BY <1>1 DEF IsDeclared, IsActive
<1>5. Entered' = Entered /\ Handed' = Handed
  BY <1>1, <1>3, <1>4 DEF Entered, Handed
<1>6. Ordered' = Ordered /\ Linked' = Linked
  BY <1>1, <1>3 DEF Ordered, Linked
<1>7. Behind' = Behind
  BY <1>1, <1>3, <1>4 DEF Behind
<1> QED
  BY <1>1, <1>2, <1>5, <1>6, <1>7 DEF DInv, Emitting, Unemitted

LEMMA DeclarationInvariance ==
  Spec => []DInv
<1>1. Init => DInv
  BY DEF Init, DInv, Unemitted, DeclaredBeforeUse
<1>2. IInv /\ DInv /\ [Next]_vars => DInv'
  <2> SUFFICES ASSUME IInv, DInv, [Next]_vars PROVE DInv'
    OBVIOUS
  <2>1. CASE \/ Load \/ (\E m \in unswept : Sweep(m)) \/ SweepAgain
             \/ (\E m \in Unvisited : VisitRoot(m)) \/ VisitField \/ VisitDone
    BY <2>1, EarlierKeeps
  <2>2. CASE CyclesChecked
    BY <2>2, CyclesCheckedKeeps
  <2>3. CASE EmitRoot
    BY <2>3, EmitRootKeeps
  <2>4. CASE EmitField
    BY <2>4, EmitFieldKeeps
  <2>5. CASE EmitDone
    BY <2>5, EmitDoneKeeps
  <2>6. CASE FileDone
    BY <2>6, FileDoneKeeps
  <2>7. CASE FileFails \/ Finish
    BY <2>7, EndKeeps
  <2>8. CASE UNCHANGED vars
    BY <2>8, IdleKeeps
  <2> QED
    BY <2>1, <2>2, <2>3, <2>4, <2>5, <2>6, <2>7, <2>8 DEF Next
<1> QED
  BY <1>1, <1>2, Invariance, PTL DEF Spec

-----------------------------------------------------------------------------
(* The runs of two libraries.                                              *)

\* d's protos name no covered message of l that d's own run does not cover,
\* and l covers whatever d does: its valid_deps are transitive.
SelfContained(l, d) ==
  /\ Covered(d) \subseteq Covered(l)
  /\ \A s \in Schemas : \A m \in Msgs(d) : \A k \in DOMAIN s.fields[m] :
       LET t == s.fields[m][k].type
       IN  t # None /\ FileOf[t] \in Covered(l) => FileOf[t] \in Covered(d)

TransitiveDeps == \A l \in Library : \A d \in ValidDeps[l] : SelfContained(l, d)

\* The larger run computes on the smaller one's messages what that computes.
LEMMA LeastSetsAgree ==
  ASSUME TypeOK, schema \in Schemas, NEW l, NEW d, SelfContained(l, d)
  PROVE  ValidIn(l) \cap Msgs(d) = ValidIn(d)
<1>1. Msgs(d) \subseteq Msgs(l)
  BY DEF SelfContained, Msgs
<1>2. ASSUME NEW m \in Msgs(d), NEW k \in DOMAIN Fields(m)
      PROVE  Embeds(l, Fields(m)[k]) <=> Embeds(d, Fields(m)[k])
  <2>1. Fields(m)[k].type # None /\ FileOf[Fields(m)[k].type] \in Covered(l)
          => FileOf[Fields(m)[k].type] \in Covered(d)
    BY <1>2 DEF SelfContained, Fields
  <2> QED
    BY <2>1 DEF Embeds, SelfContained
<1>3. \A m \in Msgs(d) : EdgeTo(l, m) = EdgeTo(d, m)
  BY <1>2 DEF EdgeTo
<1>4. \A m \in Msgs(d) : EdgeTo(d, m) \subseteq Msgs(d)
  <2>1. ASSUME NEW m \in Msgs(d), NEW k \in DOMAIN Fields(m), Embeds(d, Fields(m)[k])
        PROVE  Fields(m)[k].type \in Msgs(d)
    <3>1. m \in Message
      BY DEF Msgs
    <3>2. Fields(m)[k] \in Field
      BY <3>1, SchemaFacts
    <3> QED
      BY <2>1, <3>2 DEF Embeds, Field, Msgs
  <2> QED
    BY <2>1 DEF EdgeTo
<1>5. ValidIn(l) \cap Msgs(d) \subseteq ValidIn(d)
  <2> SUFFICES ASSUME NEW m \in ValidIn(l), m \in Msgs(d),
                      NEW S \in SUBSET Msgs(d), ClosedUnderEdges(d, S)
               PROVE  m \in S
    BY DEF ValidIn
  <2> DEFINE R == S \cup (Msgs(l) \ Msgs(d))
  <2>1. R \in SUBSET Msgs(l)
    BY <1>1
  <2>2. HasOwn \cap Msgs(l) \subseteq R
    BY DEF ClosedUnderEdges
  <2>3. ASSUME NEW o \in Msgs(l), EdgeTo(l, o) \cap R # {}
        PROVE  o \in R
    <3>1. CASE o \in Msgs(d)
      <4>1. EdgeTo(d, o) \cap S # {}
        BY <1>3, <1>4, <2>3, <3>1
      <4> QED
        BY <3>1, <4>1 DEF ClosedUnderEdges
    <3>2. CASE o \notin Msgs(d)
      BY <3>2
    <3> QED
      BY <3>1, <3>2
  <2>4. ClosedUnderEdges(l, R)
    BY <2>2, <2>3 DEF ClosedUnderEdges
  <2>5. m \in R
    BY <2>1, <2>4 DEF ValidIn
  <2> QED
    BY <2>5
<1>6. ValidIn(d) \subseteq ValidIn(l) \cap Msgs(d)
  <2> SUFFICES ASSUME NEW m \in ValidIn(d), NEW S \in SUBSET Msgs(l), ClosedUnderEdges(l, S)
               PROVE  m \in S /\ m \in Msgs(l)
    BY <1>1 DEF ValidIn
  <2>1. ClosedUnderEdges(d, S \cap Msgs(d))
    BY <1>1, <1>3 DEF ClosedUnderEdges
  <2> QED
    BY <1>1, <2>1 DEF ValidIn
<1> QED
  BY <1>5, <1>6

-----------------------------------------------------------------------------
(* The theorems.                                                           *)

\* In every file generateFile writes, each validated structure stands once
\* and after those it embeds, for every schema and layout the cycle check
\* lets through.
THEOREM StructuresAreOrdered ==
  Spec => []DeclaredBeforeUse
<1>1. DInv => DeclaredBeforeUse
  BY DEF DInv
<1> QED
  BY <1>1, DeclarationInvariance, PTL

\* If every library lists its valid_deps transitively, the runs of two
\* libraries decide alike which messages have a validated variant.
THEOREM TransitiveRunsAgree ==
  ASSUME TransitiveDeps
  PROVE  Spec => []RunsAgree
<1>1. Spec => [](schema \in Schemas)
  <2>1. Init => schema \in Schemas
    BY DEF Init
  <2>2. schema \in Schemas /\ [Next]_vars => (schema \in Schemas)'
    <3> SUFFICES ASSUME [Next]_vars PROVE schema' = schema
      OBVIOUS
    <3> QED
      BY DEF Next, vars, Load, Sweep, SweepAgain, VisitRoot, VisitField, VisitDone, CyclesChecked,
             EmitRoot, EmitField, EmitDone, FileDone, FileFails, Finish
  <2> QED
    BY <2>1, <2>2, PTL DEF Spec
<1>2. IInv /\ NeedsValidIsLeast /\ schema \in Schemas => RunsAgree
  <2> SUFFICES ASSUME IInv, NeedsValidIsLeast, schema \in Schemas, Resolved, NEW d \in ValidDeps[library]
               PROVE  {m \in needsValid : FileOf[m] \in Targets(d)}
                        = {m \in ValidIn(d) : FileOf[m] \in Targets(d)}
    BY DEF RunsAgree
  <2>1. library \in Library
    BY DEF IInv, TypeOK
  <2>2. ValidIn(library) \cap Msgs(d) = ValidIn(d)
    BY <2>1, TransitiveDeps, LeastSetsAgree DEF IInv, TransitiveDeps
  <2>3. needsValid = ValidIn(library) /\ needsValid \subseteq Message
    BY DEF NeedsValidIsLeast, IInv, TypeOK, Msgs
  <2>4. \A m \in Message : FileOf[m] \in Targets(d) => m \in Msgs(d)
    BY DEF Msgs, Covered
  <2> QED
    BY <2>2, <2>3, <2>4
<1> QED
  BY <1>1, <1>2, Invariance, ResolutionIsLeastFixpoint, PTL
=============================================================================
