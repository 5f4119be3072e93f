-------------------------- MODULE CrossValidation --------------------------
(***************************************************************************)
(* nwx_cv: how the shuffled rows are dealt to K folds, each of them once   *)
(* the test set of a model trained on the others.                          *)
(***************************************************************************)
EXTENDS Integers, Sequences, SequencesExt

\* Slip for Start: the division first.
StartDividesFirst(f, n, K) == f * (n \div K)

\* start of fold f of n rows, in the integer arithmetic of the code; end is the
\* start of the next.
Start(f, n, K) == (f * n) \div K

\* The positions of fold f: those i with start <= i < end.
Fold(f, n, K) == Start(f, n, K)..(Start(f + 1, n, K) - 1)

\* Xte and Xtr of fold f: the rows idx puts at the positions of the fold, and
\* those it puts before and behind them, both in the order of idx.
Test(f, idx, K) ==
  SubSeq(idx, Start(f, Len(idx), K) + 1, Start(f + 1, Len(idx), K))
Train(f, idx, K) ==
  SubSeq(idx, 1, Start(f, Len(idx), K))
    \o SubSeq(idx, Start(f + 1, Len(idx), K) + 1, Len(idx))

\* Each row is tested on once and by a model that was not trained on it, no two
\* folds differ by more than a row, and none is empty if there are K rows.
Partition(idx, K) ==
  LET n == Len(idx)
      Size(f) == Len(Test(f, idx, K))
  IN  /\ \A r \in ToSet(idx) :
           Cardinality({f \in 0..(K - 1) : Contains(Test(f, idx, K), r)}) = 1
      /\ \A f \in 0..(K - 1) :
           /\ ToSet(Train(f, idx, K)) = ToSet(idx) \ ToSet(Test(f, idx, K))
           /\ Size(f) + Len(Train(f, idx, K)) = n
           /\ Size(f) - n \div K \in {0, 1}
=============================================================================
