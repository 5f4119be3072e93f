------------------------------ MODULE Counting ------------------------------
(***************************************************************************)
(* The counts behind the metrics: the class a row of probabilities         *)
(* predicts, the confusion matrix, precision and recall, the F1 scores and *)
(* accuracy.                                                               *)
(*                                                                         *)
(* Classes are numbered from 0 to C - 1, C being both the classes of the   *)
(* labels and of the model.  A probability is a small number or NaN, of    *)
(* which no comparison holds.  The quotients of the counts are left out.   *)
(***************************************************************************)
EXTENDS Integers, Sequences, SequencesExt

NaN == -1

Greater(p, q) == p # NaN /\ q # NaN /\ p > q

\* pred of a row: the scan keeps the first maximum, and p[0] if that is NaN.
Predicted(p) ==
  LET Best[j \in DOMAIN p] ==
        IF j = 0 THEN 0
        ELSE IF Greater(p[j], p[Best[j - 1]]) THEN j ELSE Best[j - 1]
  IN  Best[Cardinality(DOMAIN p) - 1]

\* The rows that satisfy P are counted.
Count(probs, P(_)) == Cardinality({i \in DOMAIN probs : P(i)})

\* confusion_matrix, and cm of nwx_confusion
confusion(probs, y) ==
  [a \in DOMAIN probs[1] |-> [b \in DOMAIN probs[1] |->
     Count(probs, LAMBDA i : y[i] = a /\ Predicted(probs[i]) = b)]]

\* precision_recall: tp, fp and fn of a class.
precision_recall(probs, y, c) ==
  [tp |-> Count(probs, LAMBDA i : Predicted(probs[i]) = c /\ y[i] = c),
   fp |-> Count(probs, LAMBDA i : Predicted(probs[i]) = c /\ y[i] # c),
   fn |-> Count(probs, LAMBDA i : Predicted(probs[i]) # c /\ y[i] = c)]

Zero == [tp |-> 0, fp |-> 0, fn |-> 0]

\* Slip for f1_counts: a wrong row is charged to its label only.
f1_counts_label_only(probs, y) ==
  LET Charge(t, i) ==
        IF Predicted(probs[i]) = y[i] THEN [t EXCEPT ![y[i]].tp = @ + 1]
        ELSE [t EXCEPT ![y[i]].fp = @ + 1, ![y[i]].fn = @ + 1]
  IN  FoldLeftDomain(Charge, [c \in DOMAIN probs[1] |-> Zero], probs)

\* f1_macro_micro: a wrong row is charged to its prediction and to its label.
f1_counts(probs, y) ==
  LET Charge(t, i) ==
        IF Predicted(probs[i]) = y[i] THEN [t EXCEPT ![y[i]].tp = @ + 1]
        ELSE [t EXCEPT ![Predicted(probs[i])].fp = @ + 1, ![y[i]].fn = @ + 1]
  IN  FoldLeftDomain(Charge, [c \in DOMAIN probs[1] |-> Zero], probs)

\* accuracy: the rows predicted right, of all.
correct(probs, y) == Count(probs, LAMBDA i : Predicted(probs[i]) = y[i])

-----------------------------------------------------------------------------
\* The three ways of counting agree, whatever is tied or NaN: the metrics of one
\* data set cannot contradict each other, and the micro F1 is the accuracy.
SameCounts(probs, y) ==
  LET C == DOMAIN probs[1]
      cm == confusion(probs, y)
      f1 == f1_counts(probs, y)
  IN  /\ \A c \in C :
           /\ f1[c] = precision_recall(probs, y, c)
           /\ f1[c].tp = cm[c][c]
           /\ f1[c].tp + f1[c].fp = SumFunction([a \in C |-> cm[a][c]])
           /\ f1[c].tp + f1[c].fn = SumFunction([b \in C |-> cm[c][b]])
      /\ SumFunction([c \in C |-> f1[c].tp]) = correct(probs, y)
      /\ SumFunction([c \in C |-> f1[c].tp + f1[c].fp]) = Len(probs)
=============================================================================
