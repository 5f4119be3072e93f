------------------------- MODULE SharedForwardProof -------------------------
(***************************************************************************)
(* OwnRows for every set of calls, however many of them share the model,   *)
(* and any number of messages.                                             *)
(*                                                                         *)
(* An answer is right because the logits it is written from are, these     *)
(* because a2 is, and so back to the rows the call read: OwnLayers says so *)
(* at every point of the forward pass.  It survives the steps of another   *)
(* call because that call works on another model, or, by Excluded, because *)
(* the two passes have been recorded as overlapping.                       *)
(***************************************************************************)
EXTENDS SharedForward, TLAPS

LEMMA ModelsOfCalls ==
  ASSUME NEW c \in Calls
  PROVE  /\ Model(c) \in Models /\ Model(c)' = Model(c)
         /\ \A d \in Calls : Model(c) = Model(d) /\ c # d
                               => c \notin Private /\ d \notin Private
BY CallsAssumption DEF Model, Models

LEMMA InitIInv == Init => IInv
BY CallsAssumption
   DEF Init, IInv, TypeOK, Excluded, OwnLayers, OwnRows, Forwarding, Models, Inputs

\* Every step of every call keeps its variables in their types; that there is
\* room for the answer in progress is in OwnLayers.
LEMMA TypeStep == ASSUME IInv, [Next]_vars PROVE TypeOK'
<1> USE CallsAssumption, ModelsOfCalls DEF IInv, TypeOK
<1>1. ASSUME NEW c \in Calls, Read(c) PROVE TypeOK'
  BY <1>1 DEF Read, Goto, layers, Inputs
<1>2. ASSUME NEW c \in Calls, ReadEmpty(c) PROVE TypeOK'
  BY <1>2 DEF ReadEmpty, layers
<1>3. ASSUME NEW c \in Calls, End(c) PROVE TypeOK'
  BY <1>3 DEF End, Goto, layers
<1>4. ASSUME NEW c \in Calls, Layer1(c) PROVE TypeOK'
  BY <1>4 DEF Layer1, Goto, Forwarding
<1>5. ASSUME NEW c \in Calls, Activate(c) PROVE TypeOK'
  BY <1>5 DEF Activate, Goto
<1>6. ASSUME NEW c \in Calls, Layer2(c) PROVE TypeOK'
  BY <1>6 DEF Layer2, Goto
<1>7. ASSUME NEW c \in Calls, Return(c) PROVE TypeOK'
  BY <1>7 DEF Return, Goto, layers
<1>8. ASSUME NEW c \in Calls, Write(c) PROVE TypeOK'
  <2>1. sent[c] < Messages[c]
    BY <1>8 DEF Write, OwnLayers
  <2>2. QED
    BY <1>8, <2>1 DEF Write, Goto, layers
<1>9. CASE UNCHANGED vars
  BY <1>9 DEF vars, layers
<1>10. QED
  BY <1>1, <1>2, <1>3, <1>4, <1>5, <1>6, <1>7, <1>8, <1>9 DEF Next, Step, Idle

\* Only Layer1 begins a forward pass, and it records those it overlaps.
LEMMA ExcludedStep == ASSUME IInv, [Next]_vars PROVE Excluded'
<1> USE DEF IInv, TypeOK, Excluded, Forwarding
<1>1. ASSUME NEW c \in Calls, Layer1(c) PROVE Excluded'
  BY <1>1 DEF Layer1, Goto
<1>2. ASSUME NEW c \in Calls, Read(c) \/ ReadEmpty(c) \/ End(c) \/ Activate(c)
                                \/ Layer2(c) \/ Return(c) \/ Write(c)
      PROVE  Excluded'
  BY <1>2 DEF Read, ReadEmpty, End, Activate, Layer2, Return, Write, Goto
<1>3. CASE UNCHANGED vars
  BY <1>3 DEF vars
<1>4. QED
  BY <1>1, <1>2, <1>3 DEF Next, Step, Idle

LEMMA LayersStep == ASSUME IInv, [Next]_vars PROVE OwnLayers'
<1> USE CallsAssumption, ModelsOfCalls DEF IInv, TypeOK
<1>1. ASSUME NEW c \in Calls, Read(c) PROVE OwnLayers'
  BY <1>1 DEF OwnLayers, Read, Goto, layers
<1>2. ASSUME NEW c \in Calls, ReadEmpty(c) PROVE OwnLayers'
  BY <1>2 DEF OwnLayers, ReadEmpty, layers
<1>3. ASSUME NEW c \in Calls, End(c) PROVE OwnLayers'
  BY <1>3 DEF OwnLayers, End, Goto, layers
<1>4. ASSUME NEW c \in Calls, Layer1(c) PROVE OwnLayers'
  BY <1>4 DEF OwnLayers, Layer1, Goto, Forwarding
<1>5. ASSUME NEW c \in Calls, Activate(c) PROVE OwnLayers'
  BY <1>5 DEF OwnLayers, Excluded, Forwarding, Activate, Goto
<1>6. ASSUME NEW c \in Calls, Layer2(c) PROVE OwnLayers'
  BY <1>6 DEF OwnLayers, Excluded, Forwarding, Layer2, Goto
<1>7. ASSUME NEW c \in Calls, Return(c) PROVE OwnLayers'
  BY <1>7 DEF OwnLayers, Return, Goto, layers
<1>8. ASSUME NEW c \in Calls, Write(c) PROVE OwnLayers'
  BY <1>8 DEF OwnLayers, Write, Goto, layers
<1>9. CASE UNCHANGED vars
  BY <1>9 DEF OwnLayers, vars, layers
<1>10. QED
  BY <1>1, <1>2, <1>3, <1>4, <1>5, <1>6, <1>7, <1>8, <1>9 DEF Next, Step, Idle

\* Only Write touches an answer, and what it writes is what the call read.
LEMMA RowsStep == ASSUME IInv, [Next]_vars PROVE OwnRows'
<1> USE DEF IInv
<1>1. ASSUME NEW c \in Calls, Write(c) PROVE OwnRows'
  <2>1. c \notin overlapped => logits[c] = <<c, sent[c] + 1>>
    BY <1>1 DEF Write, OwnLayers
  <2>2. SUFFICES ASSUME NEW d \in Calls \ overlapped, NEW i \in 1..Messages[d]
                 PROVE  answer'[d][i] \in {Nothing, <<d, i>>}
    BY <1>1 DEF Write, OwnRows
  <2>3. CASE d = c /\ i = sent[c] + 1
    <3>1. answer'[d][i] = logits[c]
      BY <1>1, <2>3 DEF Write, TypeOK
    <3>2. QED
      BY <3>1, <2>1, <2>3
  <2>4. CASE ~(d = c /\ i = sent[c] + 1)
    <3>1. answer'[d][i] = answer[d][i]
      BY <1>1, <2>4 DEF Write, TypeOK
    <3>2. QED
      BY <3>1 DEF OwnRows
  <2>5. QED
    BY <2>3, <2>4
<1>2. CASE UNCHANGED answer /\ overlapped \subseteq overlapped'
  BY <1>2 DEF OwnRows
<1>3. QED
  BY <1>1, <1>2 DEF Next, Step, Idle, vars, Read, ReadEmpty, End, Layer1,
                    Activate, Layer2, Return

\* A call on a copy of the model, and a call that has the shared model for
\* itself while it runs forward, gets answers to its own rows, in the order it
\* sent them, for any number of calls and messages.
THEOREM CallsGetTheirOwnRows == Spec => []OwnRows
<1>1. IInv /\ [Next]_vars => IInv'
  BY TypeStep, ExcludedStep, LayersStep, RowsStep DEF IInv
<1>2. Spec => []IInv
  BY InitIInv, <1>1, PTL DEF Spec
<1> QED
  BY <1>2, PTL DEF IInv
=============================================================================
