---------------------------- MODULE TrainingProof ----------------------------
(***************************************************************************)
(* For every data set, configuration and course of losses: early stopping  *)
(* (the best loss kept, the weights returned and the epoch of the stop),   *)
(* the rows an epoch trains on, and the types.                             *)
(***************************************************************************)
EXTENDS Training, FiniteSetTheorems, TLAPS

\* What StopInv needs of the types.
StopTypes ==
  /\ pc \in {"shuffle", "batch", "validate", "next", "done"}
  /\ epoch \in 1..Epochs
  /\ model \in Nat /\ best \in Nat
  /\ best_val \in Nat /\ bad_epochs \in Nat
  /\ early \in BOOLEAN
  /\ loss \in [1..Epochs -> Losses \cup {Inf}]
  /\ weights \in [0..Epochs -> Nat]
  /\ bestAt \in 0..Epochs

TInv == StopTypes /\ StopInv

\* The constants as the arithmetic of the proofs uses them.
LEMMA Constants ==
  /\ Epochs \in Nat /\ 1 <= Epochs /\ Patience \in Nat /\ Inf \in Nat
  /\ NaN \notin Int
  /\ \A l \in Losses \ {NaN} : l \in Nat /\ l + 1 < Inf
BY ConfigAssumption, LossAssumption

\* train_xent starts with nothing validated and its own model as the best.
LEMMA StopInit == Init => TInv
<1> SUFFICES ASSUME Init PROVE TInv
  OBVIOUS
<1>1. /\ pc = "shuffle" /\ epoch = 1 /\ model = 0 /\ best = 0 /\ best_val = Inf
      /\ bad_epochs = 0 /\ early = FALSE /\ bestAt = 0
      /\ loss = [e \in 1..Epochs |-> Inf] /\ weights = [e \in 0..Epochs |-> 0]
  BY DEF Init
<1>2. StopTypes
  <2>1. epoch \in 1..Epochs /\ bestAt \in 0..Epochs
    BY <1>1, Constants
  <2>2. model \in Nat /\ best \in Nat /\ best_val \in Nat /\ bad_epochs \in Nat
    BY <1>1, Constants
  <2>3. loss \in [1..Epochs -> Losses \cup {Inf}] /\ weights \in [0..Epochs -> Nat]
    BY <1>1
  <2> QED
    BY <1>1, <2>1, <2>2, <2>3 DEF StopTypes
<1>3. Evals = 0 /\ Validated = {}
  BY <1>1 DEF Evals, Validated
<1>4. BestInv /\ CountInv /\ EarlyInv /\ NearBest
  BY <1>1, <1>3, Constants DEF BestInv, CountInv, EarlyInv, NearBest
<1> QED
  BY <1>1, <1>2, <1>4 DEF TInv, StopInv

\* A step that neither validates nor counts an epoch leaves the stopper alone.
LEMMA QuietStep ==
  ASSUME TInv,
         UNCHANGED <<va, epoch, stopper, history>>,
         model' \in Nat, pc' \in {"shuffle", "batch", "validate", "next", "done"},
         Evals' = Evals, ~early, va = {} => pc' # "validate"
  PROVE  TInv'
<1>1. /\ va' = va /\ epoch' = epoch /\ best' = best /\ best_val' = best_val
      /\ bad_epochs' = bad_epochs /\ early' = early /\ loss' = loss
      /\ weights' = weights /\ bestAt' = bestAt
  BY DEF stopper, history
<1>2. StopTypes'
  BY <1>1 DEF TInv, StopTypes
<1>3. ASSUME va # {} PROVE (BestInv /\ CountInv /\ EarlyInv /\ NearBest)'
  <2>1. BestInv /\ CountInv /\ NearBest
    BY <1>3 DEF TInv, StopInv
  <2>2. BestInv'
    BY <1>1, <2>1 DEF BestInv
  <2>3. CountInv'
    BY <1>1, <2>1 DEF CountInv
  <2>4. EarlyInv'
    BY <1>1 DEF EarlyInv
  <2>5. NearBest'
    BY <1>1, <2>1 DEF NearBest, Validated
  <2> QED
    BY <2>2, <2>3, <2>4, <2>5
<1>4. va = {} => ~early' /\ bestAt' = 0 /\ pc' # "validate"
  BY <1>1 DEF TInv, StopInv
<1> QED
  BY <1>1, <1>2, <1>3, <1>4 DEF TInv, StopInv

\* While epochs are still run, no early stop has happened.
LEMMA NotStopped ==
  ASSUME TInv, pc # "done"
  PROVE  ~early
BY DEF TInv, StopInv, EarlyInv

\* The validation of an epoch, and the branch it takes (trainer.cpp 133-145).
LEMMA ValidateStep ==
  ASSUME TInv, Validate
  PROVE  TInv'
<1> PICK l \in Losses :
      /\ loss' = [loss EXCEPT ![epoch] = l]
      /\ weights' = [weights EXCEPT ![epoch] = model]
      /\ IF Improves(l) THEN Better(l) ELSE Worse
  BY DEF Validate
<1>1. /\ pc = "validate" /\ va' = va /\ epoch' = epoch /\ va # {}
      /\ ~early /\ StopTypes /\ BestInv /\ CountInv /\ NearBest
  BY NotStopped DEF Validate, data, TInv, StopInv
<1>2. /\ epoch \in Nat /\ 1 <= epoch /\ epoch <= Epochs /\ Evals = epoch - 1
      /\ Evals' = epoch \/ pc' \notin {"next", "done"}
      /\ Validated = 1..(epoch - 1)
  BY <1>1, Constants DEF StopTypes, Evals, Validated
<1>3. /\ loss' \in [1..Epochs -> Losses \cup {Inf}] /\ loss'[epoch] = l
      /\ \A e \in 1..(epoch - 1) : loss'[e] = loss[e]
      /\ weights' \in [0..Epochs -> Nat] /\ weights'[epoch] = model
      /\ \A e \in 0..(epoch - 1) : weights'[e] = weights[e]
  BY <1>1, <1>2, Constants DEF StopTypes
<1>4. bestAt \in 0..(epoch - 1)
  BY <1>1, <1>2 DEF BestInv
<1>5. /\ model \in Nat /\ best \in Nat /\ best_val \in Nat /\ bad_epochs \in Nat
      /\ early \in BOOLEAN
  BY <1>1 DEF StopTypes
<1>6. l # NaN => l \in Nat /\ l + 1 < Inf
  BY Constants
<1>7. CASE Improves(l)
  <2>1. /\ best_val' = l /\ bad_epochs' = 0 /\ best' = model /\ bestAt' = epoch
        /\ pc' = "next" /\ model' = model /\ early' = early
    BY <1>7 DEF Better
  <2>2. l # NaN /\ l \in Nat /\ l + 1 < best_val
    BY <1>6, <1>7 DEF Improves
  <2>3. StopTypes'
    BY <1>1, <1>2, <1>3, <1>5, <2>1, <2>2 DEF StopTypes
  <2>4. Evals' = epoch /\ Validated' = 1..epoch
    BY <1>1, <2>1 DEF Evals, Validated
  <2>5. BestInv'
    BY <1>2, <1>3, <1>1, <2>1, <2>4 DEF BestInv
  <2>6. CountInv'
    BY <1>1, <1>2, <2>1, <2>4, Constants DEF CountInv
  <2>7. NearBest'
    <3> SUFFICES ASSUME NEW e \in 1..epoch, loss'[e] # NaN PROVE l <= loss'[e] + 1
      BY <2>1, <2>4 DEF NearBest
    <3>1. CASE e = epoch
      BY <3>1, <1>3, <2>2
    <3>2. CASE e # epoch
      <4>1. e \in 1..(epoch - 1) /\ loss'[e] = loss[e]
        BY <3>2, <1>2, <1>3
      <4>2. best_val <= loss[e] + 1
        BY <1>1, <1>2, <4>1 DEF NearBest
      <4>3. loss[e] \in Nat
        BY <1>1, <1>2, <4>1, Constants DEF StopTypes
      <4> QED
        BY <1>5, <2>2, <4>1, <4>2, <4>3
    <3> QED
      BY <3>1, <3>2
  <2> QED
    BY <1>1, <2>1, <2>3, <2>5, <2>6, <2>7 DEF TInv, StopInv, EarlyInv
<1>8. CASE ~Improves(l)
  <2>1. /\ bad_epochs' = IF Patience > 0 THEN bad_epochs + 1 ELSE bad_epochs
        /\ best' = best /\ best_val' = best_val /\ bestAt' = bestAt
        /\ \/ /\ Patience > 0 /\ bad_epochs' >= Patience
              /\ early' = TRUE /\ model' = best /\ pc' = "done"
           \/ /\ ~(Patience > 0 /\ bad_epochs' >= Patience)
              /\ early' = early /\ model' = model /\ pc' = "next"
    BY <1>8 DEF Worse
  <2>2. l # NaN => best_val <= l + 1
    BY <1>5, <1>6, <1>8 DEF Improves
  <2>3. Evals' = epoch /\ Validated' = 1..epoch
    BY <1>1, <2>1 DEF Evals, Validated
  <2>4. bad_epochs' \in Nat /\ model' \in Nat /\ early' \in BOOLEAN
    <3>1. bad_epochs' \in Nat
      BY <1>5, <2>1
    <3>2. model' \in Nat /\ early' \in BOOLEAN
      BY <1>5, <2>1, Zenon
    <3> QED
      BY <3>1, <3>2
  <2>5. StopTypes'
    BY <1>1, <1>2, <1>3, <1>5, <2>1, <2>4 DEF StopTypes
  <2>6. BestInv'
    <3>1. bestAt' \in 0..epoch
      BY <1>2, <1>4, <2>1
    <3>2. weights'[bestAt] = weights[bestAt] /\ weights'[0] = weights[0]
      BY <1>2, <1>3, <1>4
    <3>3. bestAt # 0 => loss'[bestAt] = loss[bestAt]
      BY <1>2, <1>3, <1>4
    <3> QED
      BY <1>1, <2>1, <2>3, <3>1, <3>2, <3>3 DEF BestInv
  <2>7. CountInv'
    <3> SUFFICES ASSUME Patience > 0
                 PROVE  /\ bad_epochs' = epoch - bestAt
                        /\ ~early' => bad_epochs' < Patience
      BY <2>1, <2>3 DEF CountInv
    <3>1. bad_epochs = (epoch - 1) - bestAt
      BY <1>1, <1>2 DEF CountInv
    <3>2. bad_epochs' = bad_epochs + 1
      BY <2>1
    <3>3. bad_epochs' = epoch - bestAt
      BY <1>2, <1>4, <3>1, <3>2
    <3>4. ~early' => bad_epochs' < Patience
      BY <2>1, <2>4, Constants
    <3> QED
      BY <3>3, <3>4
  <2>8. EarlyInv'
    <3> SUFFICES ASSUME early'
                 PROVE  /\ pc' = "done" /\ Patience > 0
                        /\ bad_epochs' = Patience /\ model' = best'
      BY DEF EarlyInv
    <3>1. Patience > 0 /\ bad_epochs' >= Patience /\ pc' = "done" /\ model' = best
      BY <1>1, <2>1
    <3>2. bad_epochs < Patience /\ bad_epochs' = bad_epochs + 1
      BY <1>1, <2>1, <3>1 DEF CountInv
    <3> QED
      BY <1>5, <2>1, <3>1, <3>2, Constants
  <2>9. NearBest'
    <3> SUFFICES ASSUME NEW e \in 1..epoch, loss'[e] # NaN
                 PROVE  best_val <= loss'[e] + 1
      BY <2>1, <2>3 DEF NearBest
    <3>1. CASE e = epoch
      BY <3>1, <1>3, <2>2
    <3>2. CASE e # epoch
      <4>1. e \in 1..(epoch - 1) /\ loss'[e] = loss[e]
        BY <3>2, <1>2, <1>3
      <4> QED
        BY <1>1, <1>2, <4>1 DEF NearBest
    <3> QED
      BY <3>1, <3>2
  <2> QED
    BY <1>1, <2>5, <2>6, <2>7, <2>8, <2>9 DEF TInv, StopInv
<1> QED
  BY <1>7, <1>8

\* StopInv is inductive.
LEMMA StopStep == TInv /\ [Next]_vars => TInv'
<1> SUFFICES ASSUME TInv, [Next]_vars PROVE TInv'
  OBVIOUS
<1>0. StopTypes /\ StopInv
  BY DEF TInv
<1>1. CASE Shuffle
  <2>1. /\ pc = "shuffle" /\ pc' = "batch" /\ model' = model
        /\ UNCHANGED <<va, epoch, stopper, history>>
    BY <1>1 DEF Shuffle
  <2>2. Evals' = Evals
    BY <2>1 DEF Evals
  <2>3. model' \in Nat
    BY <1>0, <2>1 DEF StopTypes
  <2> QED
    BY <2>1, <2>2, <2>3, NotStopped, QuietStep
<1>2. CASE Update
  <2>1. /\ pc = "batch" /\ pc' = pc /\ model' = model + 1
        /\ UNCHANGED <<va, epoch, stopper, history>>
    BY <1>2 DEF Update
  <2>2. Evals' = Evals
    BY <2>1 DEF Evals
  <2>3. model' \in Nat
    BY <1>0, <2>1 DEF StopTypes
  <2> QED
    BY <2>1, <2>2, <2>3, NotStopped, QuietStep
<1>3. CASE EpochEnd /\ va # {}
  <2>1. /\ pc = "batch" /\ pc' = "validate" /\ model' = model
        /\ UNCHANGED <<va, epoch, stopper, history>>
    BY <1>3 DEF EpochEnd, data
  <2>2. Evals' = Evals
    BY <2>1 DEF Evals
  <2>3. model' \in Nat
    BY <1>0, <2>1 DEF StopTypes
  <2> QED
    BY <1>3, <2>1, <2>2, <2>3, NotStopped, QuietStep
<1>4. CASE EpochEnd /\ va = {}
  <2>1. /\ pc' = "next" /\ model' = model /\ va' = va /\ epoch' = epoch
        /\ UNCHANGED <<best, best_val, bad_epochs, early, loss, weights, bestAt>>
    BY <1>4 DEF EpochEnd, data, stopper, history
  <2>2. StopTypes'
    BY <1>0, <2>1 DEF StopTypes
  <2> QED
    BY <1>0, <1>4, <2>1, <2>2 DEF TInv, StopInv
<1>5. CASE Validate
  BY <1>5, ValidateStep
<1>6. CASE NextEpoch
  <2>1. /\ pc = "next" /\ model' = model /\ va' = va
        /\ UNCHANGED <<stopper, history>>
        /\ \/ epoch < Epochs /\ epoch' = epoch + 1 /\ pc' = "shuffle"
           \/ pc' = "done" /\ epoch' = epoch
    BY <1>6 DEF NextEpoch, data
  <2>2. /\ UNCHANGED <<best, best_val, bad_epochs, early, loss, weights, bestAt>>
        /\ ~early
    BY <2>1, NotStopped DEF stopper, history
  <2>3. epoch \in Nat /\ epoch' \in 1..Epochs
    BY <1>0, <2>1, Constants DEF StopTypes
  <2>4. Evals' = Evals /\ Validated' = Validated
    <3>1. Evals = epoch
      BY <2>1 DEF Evals
    <3>2. CASE epoch' = epoch + 1 /\ pc' = "shuffle"
      <4>1. Evals' = epoch' - 1
        BY <3>2 DEF Evals
      <4> QED
        BY <2>3, <3>1, <3>2, <4>1 DEF Validated
    <3>3. CASE pc' = "done" /\ epoch' = epoch
      <4>1. Evals' = epoch'
        BY <3>3 DEF Evals
      <4> QED
        BY <3>1, <3>3, <4>1 DEF Validated
    <3> QED
      BY <2>1, <3>2, <3>3
  <2>5. StopTypes'
    BY <1>0, <2>1, <2>2, <2>3 DEF StopTypes
  <2>6. BestInv => BestInv'
    BY <2>2, <2>4 DEF BestInv
  <2>7. CountInv => CountInv'
    BY <2>2, <2>4 DEF CountInv
  <2>8. NearBest => NearBest'
    BY <2>1, <2>2, <2>4 DEF NearBest
  <2>9. EarlyInv'
    BY <2>2 DEF EarlyInv
  <2> QED
    BY <1>0, <2>1, <2>2, <2>5, <2>6, <2>7, <2>8, <2>9 DEF TInv, StopInv
<1>7. CASE Returned \/ UNCHANGED vars
  <2>1. /\ va' = va /\ pc' = pc /\ epoch' = epoch /\ model' = model
        /\ best' = best /\ best_val' = best_val /\ bad_epochs' = bad_epochs
        /\ early' = early /\ loss' = loss /\ weights' = weights
        /\ bestAt' = bestAt
    BY <1>7 DEF Returned, vars
  <2>2. StopTypes'
    BY <1>0, <2>1 DEF StopTypes
  <2>3. Evals' = Evals /\ Validated' = Validated
    BY <2>1 DEF Evals, Validated
  <2>4. BestInv => BestInv'
    BY <2>1, <2>3 DEF BestInv
  <2>5. CountInv => CountInv'
    BY <2>1, <2>3 DEF CountInv
  <2>6. (EarlyInv => EarlyInv') /\ (NearBest => NearBest')
    BY <2>1, <2>3 DEF EarlyInv, NearBest
  <2> QED
    BY <1>0, <2>1, <2>2, <2>4, <2>5, <2>6 DEF TInv, StopInv
<1> QED
  BY <1>1, <1>2, <1>3, <1>4, <1>5, <1>6, <1>7 DEF Next

\* StopInv is an invariant of train_xent.
THEOREM StopInvariant == Spec => []TInv
BY StopInit, StopStep, PTL DEF Spec

\* best_val never stays behind a loss that was seen by more than the margin,
\* whatever the losses and however they fall (trainer.cpp 140).
THEOREM BestLossKept == Spec => []NearBest
<1>1. TInv => NearBest
  BY DEF TInv, StopInv, NearBest
<1> QED
  BY <1>1, StopInvariant, PTL

\* An early stop returns the weights of exactly cfg.patience epochs ago, those
\* that best_val was measured on (trainer.cpp 140-145).
THEOREM EarlyStopReturnsBest == Spec => []StopReturnsBest
<1>1. TInv => StopReturnsBest
  <2> SUFFICES ASSUME TInv, early PROVE StopReturnsBest
    BY DEF StopReturnsBest
  <2>1. /\ StopTypes /\ va # {} /\ BestInv /\ pc = "done" /\ Patience > 0
        /\ bad_epochs = Patience /\ model = best /\ bad_epochs = Evals - bestAt
    BY DEF TInv, StopInv, EarlyInv, CountInv
  <2>2. Evals = epoch /\ epoch \in Nat /\ bestAt \in 0..epoch
    BY <2>1, Constants DEF Evals, BestInv, StopTypes
  <2>3. bestAt = epoch - Patience
    BY <2>1, <2>2, Constants
  <2>4. model = weights[epoch - Patience]
    BY <2>1, <2>3 DEF BestInv
  <2>5. epoch > Patience => bestAt # 0
    BY <2>2, <2>3, Constants
  <2> QED
    BY <2>1, <2>3, <2>4, <2>5 DEF BestInv, StopReturnsBest
<1> QED
  BY <1>1, StopInvariant, PTL

\* When there are validation rows, training that runs on has improved within the
\* last cfg.patience epochs (trainer.hpp:18).
THEOREM PatienceEndsTraining == Spec => [](va # {} => PatienceHonoured)
<1>1. TInv => (va # {} => PatienceHonoured)
  <2> SUFFICES ASSUME TInv, va # {}, Patience > 0, pc = "done", ~early
               PROVE  epoch < Patience + bestAt
    BY DEF PatienceHonoured
  <2>1. bad_epochs = Evals - bestAt /\ bad_epochs < Patience /\ StopTypes
    BY DEF TInv, StopInv, CountInv
  <2>2. Evals = epoch /\ epoch \in Nat /\ bestAt \in Nat
    BY <2>1, Constants DEF Evals, StopTypes
  <2> QED
    BY <2>1, <2>2, Constants
<1> QED
  BY <1>1, StopInvariant, PTL

-----------------------------------------------------------------------------
(* An epoch covers the training rows, and the types.                       *)

CoverTypes ==
  /\ va \in SUBSET Rows
  /\ order \in Orders(va)
  /\ off \in Nat
  /\ used \in [Rows -> Nat]

\* The positions of order that the mini-batches so far have passed.
Passed == {i \in DOMAIN order : i <= off}

\* A row was used once if its position is passed, and else not at all.
Counted ==
  pc \in {"batch", "validate", "next"} =>
    \A r \in Rows : used[r] = IF \E i \in Passed : order[i] = r THEN 1 ELSE 0

CInv == /\ CoverTypes
        /\ Counted
        /\ pc \in {"validate", "next"} => off >= Trained

\* A shuffle is a bijection from the positions to the rows not held out.
LEMMA OrderShape ==
  ASSUME NEW v \in SUBSET Rows, NEW o \in Orders(v)
  PROVE  /\ Cardinality(DOMAIN o) \in Nat
         /\ DOMAIN o = 1..Cardinality(DOMAIN o)
         /\ \A i \in DOMAIN o : o[i] \in Rows \ v
         /\ \A i, j \in DOMAIN o : o[i] = o[j] => i = j
         /\ \A r \in Rows \ v : \E i \in DOMAIN o : o[i] = r
<1> DEFINE n == Cardinality(Rows \ v)
<1>1. n \in Nat
  <2>1. Rows \ v \in SUBSET Rows
    OBVIOUS
  <2> QED
    BY <2>1, RowsAssumption, FS_Subset, FS_CardinalityType
<1>2. /\ o \in [1..n -> Rows \ v]
      /\ IsInjective(o)
      /\ \A r \in Rows \ v : \E i \in 1..n : o[i] = r
  BY DEF Orders, Bijection, Injection, Surjection
<1>3. DOMAIN o = 1..n
  BY <1>2
<1>4. Cardinality(1..n) = n
  <2>1. Cardinality(1..n) = IF 1 > n THEN 0 ELSE n - 1 + 1
    BY <1>1, FS_Interval
  <2> QED
    BY <1>1, <2>1
<1> QED
  BY <1>1, <1>2, <1>3, <1>4 DEF IsInjective

\* The first shuffle and its rows.
LEMMA CoverInit == Init => CInv
BY DEF Init, CInv, CoverTypes, Counted, Splits

\* The size of a mini-batch is a natural number, whatever cfg.batch is.
LEMMA BatchSizeType ==
  ASSUME Trained \in Nat
  PROVE  BatchSize \in Nat
BY ConfigAssumption DEF BatchSize

\* A mini-batch counts each row at a position it passes once, and no other.
LEMMA UpdateCounts ==
  ASSUME CInv, Update
  PROVE  CInv'
<1>1. /\ va' = va /\ order' = order /\ pc = "batch" /\ pc' = "batch"
      /\ off < Trained /\ off' = off + BatchSize
  BY DEF Update
<1>2. /\ va \in SUBSET Rows /\ order \in Orders(va) /\ off \in Nat
      /\ used \in [Rows -> Nat]
  BY DEF CInv, CoverTypes
<1>3. /\ Trained \in Nat /\ DOMAIN order = 1..Trained
      /\ \A i, j \in DOMAIN order : order[i] = order[j] => i = j
  BY <1>2, OrderShape DEF Trained
<1>4. BatchSize \in Nat
  BY <1>3, BatchSizeType
<1> DEFINE end == IF off + BatchSize < Trained THEN off + BatchSize ELSE Trained
           At(r) == {i \in (off + 1)..end : order[i] = r}
<1>5. used' = [r \in Rows |-> used[r] + Cardinality(At(r))]
  BY DEF Update
<1>6. /\ end \in Nat /\ end <= Trained /\ off <= end
      /\ \A i \in 1..Trained : i <= off' <=> i <= end
  BY <1>1, <1>2, <1>3, <1>4
<1>7. (off + 1)..end \subseteq DOMAIN order
  BY <1>2, <1>3, <1>6
<1> HIDE DEF end
<1>8. ASSUME NEW r \in Rows
      PROVE  /\ Cardinality(At(r)) \in Nat
             /\ used'[r] = IF \E i \in Passed' : order'[i] = r THEN 1 ELSE 0
  <2>1. used[r] = IF \E i \in Passed : order[i] = r THEN 1 ELSE 0
    BY <1>1 DEF CInv, Counted
  <2>2. used'[r] = used[r] + Cardinality(At(r))
    BY <1>5
  <2>3. CASE \E i \in (off + 1)..end : order[i] = r
    <3>1. PICK k \in (off + 1)..end : order[k] = r
      BY <2>3
    <3>2. At(r) = {k}
      BY <1>3, <1>7, <3>1
    <3>3. Cardinality(At(r)) = 1
      BY <3>2, FS_Singleton
    <3>4. ~\E i \in Passed : order[i] = r
      <4> SUFFICES ASSUME NEW i \in Passed, order[i] = r PROVE FALSE
        OBVIOUS
      <4>1. i \in DOMAIN order /\ k \in DOMAIN order /\ i <= off
        BY <1>7, <3>1 DEF Passed
      <4>2. i = k
        BY <1>3, <3>1, <4>1
      <4> QED
        BY <1>2, <1>6, <3>1, <4>1, <4>2
    <3>5. k \in Passed'
      BY <1>1, <1>2, <1>3, <1>6, <1>7, <3>1 DEF Passed
    <3>6. \E i \in Passed' : order'[i] = r
      BY <1>1, <3>1, <3>5
    <3> QED
      BY <2>1, <2>2, <3>3, <3>4, <3>6
  <2>4. CASE ~\E i \in (off + 1)..end : order[i] = r
    <3>1. At(r) = {}
      BY <2>4
    <3>2. Cardinality(At(r)) = 0
      BY <3>1, FS_EmptySet
    <3>3. (\E i \in Passed' : order'[i] = r) <=> (\E i \in Passed : order[i] = r)
      <4>1. \A i \in Passed : i \in Passed'
        BY <1>1, <1>2, <1>3, <1>4 DEF Passed
      <4>2. \A i \in Passed' : i \in Passed \/ i \in (off + 1)..end
        BY <1>1, <1>2, <1>3, <1>6 DEF Passed
      <4> QED
        BY <1>1, <2>4, <4>1, <4>2
    <3> QED
      BY <2>1, <2>2, <3>2, <3>3
  <2> QED
    BY <2>3, <2>4
<1>9. used' \in [Rows -> Nat]
  <2> HIDE DEF At
  <2> QED
    BY <1>2, <1>5, <1>8
<1>10. off' \in Nat
  BY <1>1, <1>2, <1>4
<1>11. CoverTypes'
  BY <1>1, <1>2, <1>9, <1>10 DEF CoverTypes
<1>12. Counted'
  BY <1>8 DEF Counted
<1> QED
  BY <1>1, <1>11, <1>12 DEF CInv

\* Every step keeps the account of the rows.
LEMMA CoverStep == CInv /\ [Next]_vars => CInv'
<1> SUFFICES ASSUME CInv, [Next]_vars PROVE CInv'
  OBVIOUS
<1>0. CoverTypes
  BY DEF CInv
<1>1. CASE Shuffle
  <2>1. /\ va' = va /\ order' \in Orders(va) /\ off' = 0 /\ pc' = "batch"
        /\ used' = [r \in Rows |-> 0]
    BY <1>1 DEF Shuffle
  <2>2. CoverTypes'
    BY <1>0, <2>1 DEF CoverTypes
  <2>3. Passed' = {}
    <3>1. DOMAIN order' = 1..Cardinality(DOMAIN order')
      BY <1>0, <2>1, OrderShape DEF CoverTypes
    <3>2. Cardinality(DOMAIN order') \in Nat
      BY <1>0, <2>1, OrderShape DEF CoverTypes
    <3> QED
      BY <2>1, <3>1, <3>2 DEF Passed
  <2>4. Counted'
    BY <2>1, <2>3 DEF Counted
  <2> QED
    BY <2>1, <2>2, <2>4 DEF CInv
<1>2. CASE Update
  BY <1>2, UpdateCounts
<1>3. ASSUME UNCHANGED <<data, off>>,
             pc' \in {"batch", "validate", "next"} =>
               pc \in {"batch", "validate", "next"},
             pc' \in {"validate", "next"} => off >= Trained
      PROVE  CInv'
  <2>1. va' = va /\ order' = order /\ used' = used /\ off' = off
    BY <1>3 DEF data
  <2>2. CoverTypes'
    BY <1>0, <2>1 DEF CoverTypes
  <2>3. Counted'
    BY <1>3, <2>1 DEF CInv, Counted, Passed
  <2>4. Trained' = Trained
    BY <2>1 DEF Trained
  <2> QED
    BY <1>3, <2>1, <2>2, <2>3, <2>4 DEF CInv
<1>4. CASE EpochEnd
  BY <1>3, <1>4 DEF EpochEnd
<1>5. CASE Validate
  <2>1. pc = "validate" /\ UNCHANGED <<data, off>>
    BY <1>5 DEF Validate
  <2> QED
    BY <1>3, <2>1 DEF CInv
<1>6. CASE NextEpoch
  <2>1. pc = "next" /\ UNCHANGED <<data, off>>
    BY <1>6 DEF NextEpoch
  <2> QED
    BY <1>3, <2>1 DEF CInv
<1>7. CASE Returned \/ UNCHANGED vars
  <2>1. pc' = pc /\ UNCHANGED <<data, off>>
    BY <1>7 DEF Returned, vars, data
  <2> QED
    BY <1>3, <2>1 DEF CInv
<1> QED
  BY <1>1, <1>2, <1>4, <1>5, <1>6, <1>7 DEF Next

\* The account of the rows is right in every reachable state.
THEOREM CoverInvariant == Spec => []CInv
BY CoverInit, CoverStep, PTL DEF Spec

\* Whatever the rows, the split, the shuffles and the batch size, an epoch
\* trains exactly once on each training row and never on a validation row
\* (trainer.cpp 79-85).
THEOREM EpochCoversRows == Spec => []EpochCovers
<1>1. CInv => EpochCovers
  <2> SUFFICES ASSUME CInv, pc \in {"validate", "next"}, NEW r \in Rows
               PROVE  used[r] = IF r \in va THEN 0 ELSE 1
    BY DEF EpochCovers
  <2>1. /\ va \in SUBSET Rows /\ order \in Orders(va) /\ off \in Nat
        /\ off >= Trained
    BY DEF CInv, CoverTypes
  <2>2. /\ Trained \in Nat /\ DOMAIN order = 1..Trained
        /\ \A i \in DOMAIN order : order[i] \in Rows \ va
        /\ \A q \in Rows \ va : \E i \in DOMAIN order : order[i] = q
    BY <2>1, OrderShape DEF Trained
  <2>3. Passed = DOMAIN order
    BY <2>1, <2>2 DEF Passed
  <2>4. used[r] = IF \E i \in Passed : order[i] = r THEN 1 ELSE 0
    BY DEF CInv, Counted
  <2>5. (\E i \in Passed : order[i] = r) <=> r \notin va
    BY <2>2, <2>3
  <2> QED
    BY <2>4, <2>5
<1> QED
  BY <1>1, CoverInvariant, PTL

\* The variables of train_xent keep their types.
THEOREM TypeCorrect == Spec => []TypeOK
<1>1. TInv /\ CInv => TypeOK
  BY DEF TInv, StopTypes, CInv, CoverTypes, TypeOK
<1> QED
  BY <1>1, StopInvariant, CoverInvariant, PTL
=============================================================================
