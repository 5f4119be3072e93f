------------------------------- MODULE Training -------------------------------
(***************************************************************************)
(* train_xent: the stratified split, the epochs of shuffled mini-batches,  *)
(* the validation after each epoch, early stopping and the snapshot of the *)
(* best weights.                                                           *)
(*                                                                         *)
(* Weights are abstracted to the number of updates that made them, 0 for   *)
(* the model train_xent is given, and a validation loss to a number of     *)
(* units of 1e-12, the margin an improvement must exceed, or NaN.          *)
(***************************************************************************)
EXTENDS Integers, FiniteSets, Functions

CONSTANTS
  Labels,           \* the label of each row: y
  ValNum, ValDen,   \* cfg.val_split, as a fraction
  Batch,            \* cfg.batch
  Epochs,           \* cfg.epochs
  Patience,         \* cfg.patience
  Losses,           \* the validation losses that may occur
  NaN,              \* the loss of a model that diverged
  Inf               \* the initial best_val

Rows == DOMAIN Labels

ASSUME RowsAssumption == IsFiniteSet(Rows) /\ Rows # {}
ASSUME ConfigAssumption == /\ ValNum \in Nat /\ ValDen \in Nat \ {0}
                           /\ Batch \in Int /\ Epochs \in Nat \ {0} /\ Patience \in Nat
ASSUME LossAssumption == /\ NaN \notin Int
                         /\ Inf \in Nat
                         /\ \A l \in Losses \ {NaN} : l \in Nat /\ l + 1 < Inf

VARIABLES
  va,          \* the validation rows, va_idx
  order,       \* tr_idx as last shuffled
  pc,
  epoch, off,
  used,        \* history: how often each row was trained on in this epoch
  model, best, \* weights
  best_val, bad_epochs,
  early,       \* history: the loop was left by early stopping
  loss,        \* history: val_loss of each epoch
  weights,     \* history: the weights at the end of each epoch
  bestAt       \* history: the epoch of the last improvement, 0 if none

data    == <<va, order, used>>
stopper == <<best, best_val, bad_epochs, early>>
history == <<loss, weights, bestAt>>
vars == <<va, order, pc, epoch, off, used, model, best, best_val, bad_epochs,
          early, loss, weights, bestAt>>

-----------------------------------------------------------------------------
\* stratified_split: how many of the n rows of a class are set aside.  val_ratio*n is
\* a product of doubles: one that is a whole number may come out just below it.
Held(n) ==
  LET k == (n * ValNum) \div ValDen
      outcomes == IF k * ValDen = n * ValNum THEN {k - 1, k} ELSE {k}
  IN  {IF h > n THEN n ELSE h : h \in outcomes \cap Nat}

Class(c) == {r \in Rows : Labels[r] = c}

\* What the shuffles of each class may set aside, as many of each as Held says.
Splits == {v \in SUBSET Rows :
             \A c \in Range(Labels) :
               Cardinality(v \cap Class(c)) \in Held(Cardinality(Class(c)))}

\* The shuffles of the rows that are not held out.
Orders(v) == LET tr == Rows \ v IN Bijection(1..Cardinality(tr), tr)

Trained == Cardinality(DOMAIN order)

\* cfg.batch, or all the training rows when it is not positive.
BatchSize == IF Batch <= 0 THEN Trained ELSE Batch

Init ==
  /\ va \in Splits
  /\ order \in Orders(va)
  /\ pc = "shuffle"
  /\ epoch = 1 /\ off = 0
  /\ used = [r \in Rows |-> 0]
  /\ model = 0 /\ best = 0
  /\ best_val = Inf /\ bad_epochs = 0
  /\ early = FALSE
  /\ loss = [e \in 1..Epochs |-> Inf]
  /\ weights = [e \in 0..Epochs |-> 0]
  /\ bestAt = 0

\* std::shuffle(tr_idx)
Shuffle ==
  /\ pc = "shuffle"
  /\ order' \in Orders(va)
  /\ off' = 0
  /\ used' = [r \in Rows |-> 0]
  /\ pc' = "batch"
  /\ UNCHANGED <<va, epoch, model, stopper, history>>

\* One mini-batch: rows [off, end) of tr_idx, and one update of the weights.
Update ==
  LET end == IF off + BatchSize < Trained THEN off + BatchSize ELSE Trained
  IN  /\ pc = "batch" /\ off < Trained
      /\ used' = [r \in Rows |->
                    used[r] + Cardinality({i \in (off + 1)..end : order[i] = r})]
      /\ model' = model + 1
      /\ off' = off + BatchSize
      /\ UNCHANGED <<va, order, pc, epoch, stopper, history>>

\* Slip for EpochEnd: the last batch may be left out.
EpochEndEarly ==
  /\ pc = "batch" /\ off + BatchSize > Trained
  /\ pc' = IF va = {} THEN "next" ELSE "validate"
  /\ UNCHANGED <<data, epoch, off, model, stopper, history>>

EpochEnd ==
  /\ pc = "batch" /\ off >= Trained
  /\ pc' = IF va = {} THEN "next" ELSE "validate"
  /\ UNCHANGED <<data, epoch, off, model, stopper, history>>

\* val_loss + 1e-12 < best_val, false of NaN
Improves(l) == l # NaN /\ l + 1 < best_val

\* Slip: a better epoch is noticed, but its loss is not kept.
BetterForgotten(l) ==
  /\ bad_epochs' = 0 /\ best' = model
  /\ bestAt' = epoch
  /\ pc' = "next"
  /\ UNCHANGED <<model, best_val, early>>

\* Slip: bad_epochs counts all the bad epochs of the run.
BetterKeepsCount(l) ==
  /\ best_val' = l /\ best' = model
  /\ bestAt' = epoch
  /\ pc' = "next"
  /\ UNCHANGED <<model, bad_epochs, early>>

Better(l) ==
  /\ best_val' = l /\ bad_epochs' = 0 /\ best' = model
  /\ bestAt' = epoch
  /\ pc' = "next"
  /\ UNCHANGED <<model, early>>

\* Slip: > for >=.
WorseOneMore ==
  /\ bad_epochs' = IF Patience > 0 THEN bad_epochs + 1 ELSE bad_epochs
  /\ IF Patience > 0 /\ bad_epochs' > Patience
     THEN early' = TRUE /\ model' = best /\ pc' = "done"
     ELSE pc' = "next" /\ UNCHANGED <<early, model>>
  /\ UNCHANGED <<best, best_val, bestAt>>

\* ++bad_epochs >= cfg.patience stops the training with the best weights;
\* without patience nothing is counted.
Worse ==
  /\ bad_epochs' = IF Patience > 0 THEN bad_epochs + 1 ELSE bad_epochs
  /\ IF Patience > 0 /\ bad_epochs' >= Patience
     THEN early' = TRUE /\ model' = best /\ pc' = "done"
     ELSE pc' = "next" /\ UNCHANGED <<early, model>>
  /\ UNCHANGED <<best, best_val, bestAt>>

Validate ==
  /\ pc = "validate"
  /\ \E l \in Losses :
       /\ loss' = [loss EXCEPT ![epoch] = l]
       /\ weights' = [weights EXCEPT ![epoch] = model]
       /\ IF Improves(l) THEN Better(l) ELSE Worse
  /\ UNCHANGED <<data, epoch, off>>

\* Slip: epoch runs from 1 and stops after cfg.epochs.
NextEpochOneMore ==
  /\ pc = "next"
  /\ IF epoch <= Epochs
     THEN epoch' = epoch + 1 /\ pc' = "shuffle"
     ELSE pc' = "done" /\ UNCHANGED epoch
  /\ UNCHANGED <<data, off, model, stopper, history>>

\* ++epoch
NextEpoch ==
  /\ pc = "next"
  /\ IF epoch < Epochs
     THEN epoch' = epoch + 1 /\ pc' = "shuffle"
     ELSE pc' = "done" /\ UNCHANGED epoch
  /\ UNCHANGED <<data, off, model, stopper, history>>

\* train_xent has returned.
Returned == pc = "done" /\ UNCHANGED vars

Next == Shuffle \/ Update \/ EpochEnd \/ Validate \/ NextEpoch \/ Returned

Spec == Init /\ [][Next]_vars

-----------------------------------------------------------------------------
TypeOK ==
  /\ va \subseteq Rows
  /\ order \in Orders(va)
  /\ pc \in {"shuffle", "batch", "validate", "next", "done"}
  /\ epoch \in 1..Epochs /\ off \in Nat
  /\ used \in [Rows -> Nat]
  /\ model \in Nat /\ best \in Nat
  /\ best_val \in Nat /\ bad_epochs \in Nat
  /\ early \in BOOLEAN
  /\ loss \in [1..Epochs -> Losses \cup {Inf}]
  /\ weights \in [0..Epochs -> Nat]
  /\ bestAt \in 0..Epochs

\* An epoch trains once on every row that is not held out and never on one that
\* is: no mini-batch is lost, repeated or taken from the validation rows.
EpochCovers ==
  pc \in {"validate", "next"} =>
    \A r \in Rows : used[r] = IF r \in va THEN 0 ELSE 1

\* How many epochs have been validated, and which.
Evals == IF pc \in {"next", "done"} THEN epoch ELSE epoch - 1
Validated == 1..Evals

\* No loss that was ever seen beats best_val by more than the margin, although
\* each improvement is judged against the last one only (trainer.cpp 140).
NearBest ==
  va # {} => \A e \in Validated : loss[e] # NaN => best_val <= loss[e] + 1

\* Training that stops early returns the weights of exactly cfg.patience epochs
\* ago, and those are the weights best_val was measured on (trainer.cpp 140-145).
StopReturnsBest ==
  early => /\ model = weights[epoch - Patience]
           /\ epoch > Patience => loss[epoch - Patience] = best_val

\* cfg.patience epochs without an improvement end the training; 0 disables that
\* (trainer.hpp:18).
PatienceHonoured ==
  Patience > 0 /\ ValNum > 0 /\ pc = "done" /\ ~early =>
    epoch < Patience + bestAt

-----------------------------------------------------------------------------
(* The invariant the proofs need.                                          *)

\* best is the model of the epoch bestAt, whose loss was compared.
BestInv == /\ bestAt \in 0..Evals
           /\ best = weights[bestAt] /\ weights[0] = 0
           /\ best_val = IF bestAt = 0 THEN Inf ELSE loss[bestAt]

\* bad_epochs counts the epochs since then, and stays below the patience until
\* it ends the training.
CountInv ==
  Patience > 0 => /\ bad_epochs = Evals - bestAt
                  /\ ~early => bad_epochs < Patience

EarlyInv == early => /\ pc = "done" /\ Patience > 0
                     /\ bad_epochs = Patience /\ model = best

StopInv == /\ va = {} => ~early /\ bestAt = 0 /\ pc # "validate"
           /\ va # {} => BestInv /\ CountInv /\ EarlyInv /\ NearBest
=============================================================================
