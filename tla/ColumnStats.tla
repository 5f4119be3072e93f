---------------------------- MODULE ColumnStats ----------------------------
(***************************************************************************)
(* What nwx_drift and nwx_impute do with one column of a data set: the     *)
(* bins cut at the quantiles of the baseline, and the value that fills the *)
(* cells that are not finite.                                              *)
(***************************************************************************)
EXTENDS Integers, Sequences, SequencesExt

CONSTANT Shortest   \* numbers below it are written with all their digits, 10^6

ASSUME ShortestAssumption == Shortest \in Nat \ {0}

NonFinite == -1   \* a cell that is not finite; the finite ones are natural numbers

Below(s, v) == Cardinality({i \in DOMAIN s : s[i] < v})
Occurs(s, v) == Cardinality({i \in DOMAIN s : s[i] = v})
Above(s, v) == Cardinality({i \in DOMAIN s : s[i] > v})

\* std::sort: the k-th value is the one of which fewer than k values are below, and
\* at least k are not above.
Sorted(s) ==
  [k \in DOMAIN s |-> CHOOSE v \in ToSet(s) :
                        Below(s, v) < k /\ k <= Below(s, v) + Occurs(s, v)]

-----------------------------------------------------------------------------
(* nwx_drift                                                               *)

\* Slip for Cut: n-1 is divided by the bins first, in integers.
CutDividesFirst(i, n, B) == i * ((n - 1) \div B)

\* std::round(i * (n-1) / B), half away from zero; positions are from 0.
Cut(i, n, B) == (2 * i * (n - 1) + B) \div (2 * B)

cuts(base, B) == [i \in 1..(B - 1) |-> Sorted(base)[Cut(i, Len(base), B) + 1]]

\* The bin of v: the cuts, in order, that v exceeds.
Bin(v, c) ==
  LET k == SelectInSeq(c, LAMBDA u : v <= u) IN IF k = 0 THEN Len(c) ELSE k - 1

\* hist, as counts of x.size() rows
hist(x, c) == [b \in 0..Len(c) |-> Cardinality({i \in DOMAIN x : Bin(x[i], c) = b})]

-----------------------------------------------------------------------------
(* nwx_impute                                                              *)

\* Slip for most_frequent: the run that ends the column is not compared.
most_frequent_open_end(vals) ==
  LET s == Sorted(vals)
      Step(t, i) ==
        IF i = 1 THEN t
        ELSE IF s[i] = s[i - 1] THEN [t EXCEPT !.cc = @ + 1]
        ELSE IF t.cc > t.bc THEN [best |-> s[i - 1], bc |-> t.cc, cc |-> 1]
        ELSE [t EXCEPT !.cc = 1]
  IN  FoldLeftDomain(Step, [best |-> s[1], bc |-> 1, cc |-> 1], s).best

\* The scan over the sorted values: best and its count bc, and the current run cc.
most_frequent(vals) ==
  LET s == Sorted(vals)
      Step(t, i) ==
        IF i = 1 THEN t
        ELSE IF s[i] = s[i - 1] THEN [t EXCEPT !.cc = @ + 1]
        ELSE IF t.cc > t.bc THEN [best |-> s[i - 1], bc |-> t.cc, cc |-> 1]
        ELSE [t EXCEPT !.cc = 1]
      end == FoldLeftDomain(Step, [best |-> s[1], bc |-> 1, cc |-> 1], s)
  IN  IF end.cc > end.bc THEN s[Len(s)] ELSE end.best

\* vals[vals.size()/2]
median(vals) == Sorted(vals)[Len(vals) \div 2 + 1]

\* The values that are finite.
Finite(column) ==
  FoldLeft(LAMBDA vals, v : IF v = NonFinite THEN vals ELSE Append(vals, v), <<>>, column)

\* fill of a column, which stays 0.0 when there is nothing to compute it from;
\* the mean is left out.
Fill(column, strat) ==
  LET vals == Finite(column)
  IN  CASE vals = <<>> -> 0
        [] vals # <<>> /\ strat = "median" -> median(vals)
        [] vals # <<>> /\ strat = "most_frequent" -> most_frequent(vals)

\* The digits of a number that a stream writes, as many as its precision, and the
\* value of the last: the others are dropped one by one, at most v of them.
DropDigit(d) ==
  IF d.head < Shortest THEN d ELSE [head |-> d.head \div 10, unit |-> d.unit * 10]

Decimal(v) ==
  FoldLeft(LAMBDA d, i : DropDigit(d), [head |-> v, unit |-> 1], [i \in 1..v |-> i])

\* o << v: the nearest number that has as many digits, that with an even last one
\* if there are two.
Written(v) ==
  LET d == Decimal(v)
      rest == 2 * (v - d.head * d.unit)
      up == rest > d.unit \/ (rest = d.unit /\ d.head % 2 = 1)
  IN  (IF up THEN d.head + 1 ELSE d.head) * d.unit

\* Cells that are not finite get fill.
Imputed(column, strat) ==
  [i \in DOMAIN column |-> IF column[i] = NonFinite THEN Fill(column, strat) ELSE column[i]]

\* The column that is written.
impute(column, strat) == [i \in DOMAIN column |-> Written(Imputed(column, strat)[i])]

-----------------------------------------------------------------------------
(* What the two promise.                                                   *)

\* Every value is in one bin, larger values are never in a lower one, and the
\* bins of a baseline without equal values differ by at most two rows: psi
\* compares shares that are alike unless the data are not.
EvenBins(base, cur, B) ==
  LET c == cuts(base, B)
      h == hist(base, c)
      n == Len(base)
  IN  /\ SumFunction(hist(cur, c)) = Len(cur)
      /\ \A i, j \in DOMAIN cur : cur[i] <= cur[j] => Bin(cur[i], c) <= Bin(cur[j], c)
      /\ Cardinality(ToSet(base)) = n =>
           \A a, b \in 0..(B - 1) : h[a] <= h[b] + 2

\* The fill of most_frequent is the least of the most frequent values, that of
\* median has at most half of the values above and at most half below it.
ModeFills(column) ==
  LET vals == Finite(column)
      m == Fill(column, "most_frequent")
      d == Fill(column, "median")
  IN  vals # <<>> =>
        /\ \A v \in ToSet(vals) : \/ Occurs(vals, v) < Occurs(vals, m)
                                  \/ Occurs(vals, v) = Occurs(vals, m) /\ m <= v
        /\ 2 * Below(vals, d) <= Len(vals) /\ 2 * Above(vals, d) <= Len(vals)

\* What is written for v is off by at most 5/Shortest of v, and numbers below Shortest
\* are written as they are.
Near(w, v) ==
  /\ w \in Nat
  /\ Shortest * (w - v) <= 5 * v /\ Shortest * (v - w) <= 5 * v
  /\ v < Shortest => w = v

\* Every cell that is written is finite, and near the cell that was read or the fill.
CellsRounded(column) ==
  LET fill == Fill(column, "most_frequent")
      written == impute(column, "most_frequent")
  IN  \A i \in DOMAIN column :
        Near(written[i], IF column[i] = NonFinite THEN fill ELSE column[i])
=============================================================================
