----------------------------- MODULE Algorithms -----------------------------
(***************************************************************************)
(* The functions of the program that keep no state, called one at a time   *)
(* with inputs from the sets below.  Each is a module of its own; here     *)
(* their promises are stated as invariants of the calls.                   *)
(***************************************************************************)
EXTENDS Readers, FlatJson, BundleFile, CrossValidation, Counting, ColumnStats, Tensors

CONSTANTS
  Bodies,     \* bodies of /validate and /predict/stream
  MaxSide,    \* rows and columns of streamed matrices, inputs of the model
  Texts,      \* CSV texts: files, and bodies of /predict
  Configs,    \* configurations, as sequences of members
  Gaps,       \* the spacing a configuration may have
  Bundles,    \* the values of a bundle's fields
  Shuffles,   \* the shuffled rows of nwx_cv
  MaxFolds,
  Scored,     \* probabilities and labels of some rows
  Columns,    \* of finite values or NaN
  MaxBins,
  Sides,      \* rows, columns and products of matrices
  BlockSizes  \* BS, 64 in the code

\* A text is a sequence of characters.  A configuration is written without quotes
\* in its texts, and with numbers std::stod reads to their end.  std::shuffle permutes
\* rows that are numbered by std::iota.  There is a row to score, and its label is a
\* class.  A data set without rows is refused (drift.cpp 24, impute.cpp 16), so that a
\* column has a cell.  A bundle without a scaler holds the scaler it was constructed
\* with.
ASSUME InputsAssumption ==
  /\ MaxSide \in Nat /\ MaxFolds \in Nat /\ MaxBins \in Nat
  /\ Sides \subseteq Nat /\ BlockSizes \subseteq Nat \ {0}
  /\ \A b \in Bodies \cup Texts : b \in Seq(STRING)
  /\ Configs \subseteq Seq(ConfigMembers) /\ Gaps \subseteq Seq({Space})
  /\ \A s \in Shuffles : /\ s \in Seq(Nat)
                        /\ \A i, j \in DOMAIN s : s[i] = s[j] => i = j
  /\ \A s \in Scored :
       LET C == DOMAIN s.probs[1]
       IN  /\ s.probs \in Seq([C -> Int]) /\ s.probs # <<>>
           /\ s.y \in [DOMAIN s.probs -> C]
           /\ \E m \in C \cap Nat : C = 0..m
  /\ \A c \in Columns : c \in Seq(Nat \cup {NonFinite}) /\ c # <<>>
  /\ \A b \in Bundles : Bundle(b) = b /\ b["has"] \in {"0", "1"}

VARIABLE call   \* the function called and its arguments

Idle == [fn |-> "none"]
Init == call = Idle

\* POST /validate or POST /predict/stream
PostBody == \E b \in Bodies : call' = [fn |-> "body", body |-> b]

PostMatrix ==
  \E R, C, inputs \in 1..MaxSide : \E k \in 0..Len(Matrix(R, C)) :
    call' = [fn |-> "matrix", rows |-> R, cols |-> C, received |-> k, inputs |-> inputs]

\* POST /predict
PostCsv == \E t \in Texts : \E k \in 0..Len(t) :
             call' = [fn |-> "csv", body |-> t, received |-> k]

LoadTable == \E t \in Texts : call' = [fn |-> "table", text |-> t]

ReadConfig == \E m \in Configs, g \in Gaps :
                call' = [fn |-> "config", members |-> m, gap |-> g]

\* save_bundle, killed when k fields are written or later, and load_bundle
SaveAndLoad == \E b \in Bundles : \E k \in 0..Len(save_bundle(b)) :
                 call' = [fn |-> "bundle", b |-> b, written |-> k]

CrossValidate == \E s \in Shuffles, K \in 1..MaxFolds :
                   call' = [fn |-> "cv", idx |-> s, folds |-> K]

Evaluate == \E s \in Scored : call' = [fn |-> "score", probs |-> s.probs, y |-> s.y]

\* Of values that are not numbers std::sort makes nothing that can be relied on.
Drift == \E base, cur \in {c \in Columns : \A i \in DOMAIN c : c[i] # NonFinite},
            B \in 1..MaxBins :
           call' = [fn |-> "drift", base |-> base, cur |-> cur, bins |-> B]

Impute == \E c \in Columns : call' = [fn |-> "impute", column |-> c]

Multiply == \E M, N, K \in Sides, BS \in BlockSizes :
              call' = [fn |-> "matmul", M |-> M, N |-> N, K |-> K, BS |-> BS]

Call == /\ call = Idle
        /\ \/ PostBody \/ PostMatrix \/ PostCsv \/ LoadTable \/ ReadConfig
           \/ SaveAndLoad \/ CrossValidate \/ Evaluate \/ Drift \/ Impute \/ Multiply

Return == call # Idle /\ call' = Idle

Next == Call \/ Return

Spec == Init /\ [][Next]_call

-----------------------------------------------------------------------------
\* Of a matrix that was received whole or in part, the stream reads only numbers
\* that were sent, although it takes the commas for columns (serve.cpp 803-820).  A
\* whole one gets an event per row from a model that has an input less than it has
\* columns; from one as wide as the matrix, such as [[0,1],[1,0]] needs (SSE.md:5),
\* the first product fails an assertion (tensor.cpp 52) and no event follows, or, in a
\* build without assertions, an event of numbers out of place follows for each row;
\* and a matrix of one column loses a row.  So "One SSE event per row" (SSE.md:7) is
\* not what clients get.  A body /validate accepts is one /predict/stream finds a
\* shape for, and no other is.
MatrixFits ==
  /\ call.fn = "matrix" => MatrixRead(call.rows, call.cols, call.received, call.inputs)
  /\ call.fn = "body" => ValidateAgrees(call.body)

\* The one recv of a request may cut its CSV body anywhere: what is predicted
\* for are the rows sent, but for the last, which may be a part of one or of a
\* line that would have been refused (serve.cpp 508, 897-907).
CutRows == call.fn = "csv" => CutRead(call.body, call.received)

\* The loaders of data sets check no width; a table nwx_check has accepted needs
\* none (check.cpp 10-13, dataset_bridge.cpp 15-20).
CheckedTables == call.fn = "table" => CheckedReads(call.text)

\* Each option gets what the last member of its name says, however spaced,
\* whatever the strings contain; a configuration that was written in part is
\* refused or sets options as the whole one does, but for the last digits of a
\* number (json.cpp 11-53).
ConfigReads ==
  call.fn = "config" => /\ ReadsBack(call.members, call.gap)
                        /\ CutParse(call.members, call.gap)

\* Bundles and files without header come back as saved, and a bundle that was
\* written in part, which load_bundle cannot tell, has a scaler only behind the
\* whole model, with deviations only behind the means: HotReload's halves and
\* Pipeline's stages of saving are the cuts that matter (bundle.cpp 12-93,
\* serialize.cpp 7-49).
BundleReads ==
  call.fn = "bundle" => LoadsBack(call.b) /\ CutLoads(call.b, call.written)

\* The test sets of nwx_cv partition the rows evenly (cv.cpp 26-33).
FoldsPartition == call.fn = "cv" => Partition(call.idx, call.folds)

\* Confusion matrix, precision and recall, F1 and accuracy agree, ties and NaN
\* included (metrics.cpp, metrics_ex.cpp, tensor.cpp 121-129).
CountsAgree == call.fn = "score" => SameCounts(call.probs, call.y)

\* Every value is in a bin, in order, and the baseline's bins are even
\* (drift.cpp 30-34).
BinsBalanced == call.fn = "drift" => EvenBins(call.base, call.cur, call.bins)

\* The scan for the most frequent value finds it, and the file that is written has
\* it in the cells that were not finite, and the other cells to the digits a
\* stream writes (impute.cpp 24-30).
FillIsMode == call.fn = "impute" => ModeFills(call.column) /\ CellsRounded(call.column)

\* The blocked product is the plain one (tensor.cpp 23-62).
SameSums == call.fn = "matmul" => SameTerms(call.M, call.N, call.K, call.BS)
=============================================================================
