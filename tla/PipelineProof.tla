---------------------------- MODULE PipelineProof ----------------------------
(***************************************************************************)
(* For any names, datasets, splits and number of runs: the types, what a   *)
(* run that fails leaves behind, the scaler that predictions go through    *)
(* and the rows a temperature is fitted on.                                *)
(***************************************************************************)
EXTENDS Pipeline, TLAPS

\* The order of main(): a run that goes on has no exit code and no predictions;
\* it predicts with a loaded model only; it trains on a dataset, with the scaler
\* fitted to it, and only training changes the weights.
Course ==
  /\ pc # "off" => code = 0 /\ prediction = None
  /\ pc \in {"fit", "load"} => (opt.predict => opt.load # NoPath)
  /\ pc \in {"fit", "load"} => (opt.predict \/ X \in Datasets)
  /\ pc \in {"train", "save", "write", "flush", "report"} =>
       ~opt.predict /\ X \in Datasets
  /\ pc \in {"save", "write", "flush"} => opt.save \in Paths
  /\ pc \in {"options", "fit", "load", "train"} => ~updated
  /\ pc = "load" => (opt.predict \/ fitted_scaler = Fitted(opt.standardize))
  /\ pc \in {"train", "save", "write", "flush"} =>
       fitted_scaler = Fitted(opt.standardize)

\* What the run has written so far.
Written ==
  /\ DOMAIN file = Paths
  /\ pc \in {"options", "fit", "load", "train", "save", "predict"} => file = before
  /\ pc \in {"write", "flush", "report"} =>
       \A p \in Paths : p # opt.save => file[p] = before[p]
  /\ FailedRunWritesNothing

\* A sound bundle keeps the scaler its weights were trained with, and so do the
\* weights in memory.
Scaled ==
  /\ \A p \in Paths : file[p] # None /\ file[p].sound =>
                        file[p].scaler = file[p].weights.scale
  /\ pc = "predict" /\ intact => bundle_scaler = weights.scale
  /\ pc \in {"save", "write", "flush"} /\ updated =>
       weights.scale = Fitted(opt.standardize)
  /\ ScaledAlike

\* Weights that began fresh know the training rows of X only.
Apart ==
  /\ pc # "off" /\ opt.load = NoPath => temperature = One
  /\ pc \in {"options", "fit", "load", "train"} /\ opt.load = NoPath =>
       weights.rows = {}
  /\ pc \in {"save", "write", "flush", "report"} /\ opt.load = NoPath =>
       weights.rows \subseteq {<<X, r>> : r \in TrainRows}
  /\ CalibratedOnHeldOut

PInv == TypeOK /\ Course /\ Written /\ Scaled /\ Apart

\* The directory is empty.
LEMMA PipelineInit == Init => PInv
<1> SUFFICES ASSUME Init PROVE PInv
  OBVIOUS
<1>1. TypeOK
  <2>1. Fresh \in Weights /\ One \in Temperatures
    BY DEF Fresh, Weights, Temperatures
  <2>2. {updated, intact} \subseteq BOOLEAN
    BY DEF Init
  <2>3. runs \in 0..MaxRuns
    BY BoundAssumption DEF Init
  <2>4. \A p \in Paths : file[p] = None
    BY DEF Init
  <2> QED
    BY <2>1, <2>2, <2>3, <2>4 DEF Init, TypeOK
<1>2. Course /\ Written /\ Scaled /\ Apart
  BY DEF Init, Course, Written, Scaled, Apart, FailedRunWritesNothing, ScaledAlike,
         CalibratedOnHeldOut
<1> QED
  BY <1>1, <1>2 DEF PInv

\* The types are kept by every step.
LEMMA TypeStep ==
  ASSUME PInv, [Next]_vars
  PROVE  TypeOK'
<1>1. TypeOK /\ Course /\ DOMAIN file = Paths
  BY DEF PInv, Written
<1>2. Fresh \in Weights /\ One \in Temperatures
  BY DEF Fresh, Weights, Temperatures
<1>3. CASE Launch
  <2>1. runs' \in 0..MaxRuns
    BY <1>1, <1>3, BoundAssumption DEF Launch, TypeOK
  <2> QED
    BY <1>1, <1>2, <1>3, <2>1 DEF Launch, TypeOK
<1>4. CASE Refuse
  BY <1>1, <1>4 DEF Refuse, Exit, memory, TypeOK
<1>5. CASE LoadData
  <2>1. X' \in Datasets \cup {NoData} /\ code' \in {0, 4} /\ pc' \in {"fit", "off"}
        /\ UNCHANGED <<file, opt, fitted_scaler, bundle_scaler, weights, temperature,
                       updated, intact, prediction, runs>>
    BY <1>1, <1>5 DEF LoadData, Exit, ReadResults, TypeOK, Options, Course
  <2> QED
    BY <1>1, <2>1 DEF TypeOK
<1>6. CASE Fit
  <2>1. fitted_scaler' \in Datasets \cup {Raw}
    BY <1>1, <1>6 DEF Fit, Fitted, Course
  <2> QED
    BY <1>1, <1>6, <2>1 DEF Fit, TypeOK
<1>7. CASE Load
  <2>1. opt.load \in Paths
    BY <1>1, <1>7 DEF Load, TypeOK, Options
  <2>2. file[opt.load] # None => file[opt.load] \in Bundles
    BY <1>1, <2>1 DEF TypeOK
  <2>3. /\ weights' \in Weights /\ temperature' \in Temperatures
        /\ bundle_scaler' \in Datasets \cup {Raw} /\ intact' \in BOOLEAN
        /\ code' \in {0, 5} /\ pc' \in {"off", "predict", "train"}
        /\ UNCHANGED <<file, opt, X, fitted_scaler, updated, prediction, runs>>
    BY <1>1, <1>7, <2>2 DEF Load, Exit, Bundles, TypeOK, Course
  <2> QED
    BY <1>1, <2>3 DEF TypeOK
<1>8. CASE InitModel
  BY <1>1, <1>8 DEF InitModel, memory, TypeOK
<1>9. CASE Train
  <2>1. X \in Datasets /\ TrainRows \subseteq Rows
    BY <1>1, <1>9 DEF Train, Course, TrainRows
  <2>2. Fitted(opt.standardize) \in Datasets \cup {Raw}
    BY <2>1 DEF Fitted
  <2>3. weights.rows \subseteq Datasets \X Rows
    BY <1>1 DEF TypeOK, Weights
  <2>4. [scale |-> Fitted(opt.standardize),
         rows |-> weights.rows \cup {<<X, r>> : r \in TrainRows}] \in Weights
    BY <2>1, <2>2, <2>3 DEF Weights
  <2>5. weights' \in Weights /\ updated' \in BOOLEAN
    BY <1>1, <1>9, <2>4 DEF Train, TypeOK
  <2> QED
    BY <1>1, <1>9, <2>5 DEF Train, TypeOK
<1>10. ASSUME NEW b \in Bundles, opt.save \in Paths, Store(b)
       PROVE  \A p \in Paths : file'[p] = None \/ file'[p] \in Bundles
  BY <1>1, <1>10 DEF Store, TypeOK
<1>11. \A r \in BOOLEAN, s \in Datasets \cup {Raw}, w \in Weights, t \in Temperatures :
         [weights |-> w, temperature |-> t, scaler |-> s, sound |-> r] \in Bundles
  BY DEF Bundles
<1>12. CASE SaveOpen
  <2>1. \A p \in Paths : file'[p] = None \/ file'[p] \in Bundles
    BY <1>1, <1>2, <1>10, <1>11, <1>12 DEF SaveOpen, Course, TypeOK
  <2> QED
    BY <1>1, <1>12, <2>1 DEF SaveOpen, Exit, memory, TypeOK
<1>13. CASE SaveModel
  <2>1. \A p \in Paths : file'[p] = None \/ file'[p] \in Bundles
    BY <1>1, <1>10, <1>11, <1>13 DEF SaveModel, Course, TypeOK
  <2> QED
    BY <1>1, <1>13, <2>1 DEF SaveModel, memory, TypeOK
<1>14. CASE SaveScaler
  <2>1. \A p \in Paths : file'[p] = None \/ file'[p] \in Bundles
    BY <1>1, <1>10, <1>11, <1>14 DEF SaveScaler, Course, TypeOK
  <2> QED
    BY <1>1, <1>14, <2>1 DEF SaveScaler, memory, TypeOK
<1>15. CASE Report
  <2>1. X \in Datasets
    BY <1>1, <1>15 DEF Report, Course
  <2>2. HeldOut[X]["seeded"] \subseteq Rows
    BY <2>1, HeldOutAssumption DEF Generators
  <2>3. {<<X, r>> : r \in HeldOut[X]["seeded"]} \subseteq Datasets \X Rows
    BY <2>1, <2>2
  <2>4. weights \in Weights
    BY <1>1 DEF TypeOK
  <2>5. [weights |-> weights, on |-> {<<X, r>> : r \in HeldOut[X]["seeded"]}]
          \in Temperatures
    BY <2>3, <2>4 DEF Temperatures
  <2>6. temperature' \in Temperatures
    BY <1>1, <1>2, <1>15, <2>5 DEF Report, TypeOK
  <2> QED
    BY <1>1, <1>15, <2>6 DEF Report, Exit, TypeOK
<1>16. CASE Predict
  BY <1>1, <1>16 DEF Predict, Exit, memory, TypeOK
<1>17. CASE \E tool \in Tools : Analyse(tool)
  <2>1. PICK tool \in Tools : Analyse(tool)
    BY <1>17
  <2>2. PICK p \in Paths, d \in Datasets :
          /\ opt' = [load |-> p, save |-> NoPath, predict |-> TRUE, dataset |-> d,
                     standardize |-> FALSE, val_split |-> FALSE,
                     calibrate_temp |-> FALSE]
          /\ X' \in {d, NoData}
          /\ \/ code' \in tool.refused \cup {Killed, tool.empty, tool.failed}
                /\ prediction' = None /\ intact' = FALSE
             \/ /\ file[p] # None /\ code' = 0
                /\ prediction' = Through(file[p], tool) /\ intact' = file[p].sound
    BY <2>1 DEF Analyse
  <2>3. tool.refused \cup {tool.empty, tool.failed} \subseteq {2, 3, 4, 5}
    BY <2>1 DEF Tools, eval, report, confusion, importance, fairness, explain
  <2>4. file[p] # None => file[p] \in Bundles
    BY <1>1, <2>2 DEF TypeOK
  <2>5. /\ code' \in {0, 2, 3, 4, 5, 6, Killed} /\ intact' \in BOOLEAN
        /\ prediction' = None \/ prediction' \in [weights : Weights,
             scaler : Datasets \cup {Raw}, temperature : Temperatures]
    <3>1. CASE code' \in tool.refused \cup {Killed, tool.empty, tool.failed}
               /\ prediction' = None /\ intact' = FALSE
      BY <2>3, <3>1
    <3>2. CASE file[p] # None /\ code' = 0 /\ intact' = file[p].sound
               /\ prediction' = Through(file[p], tool)
      <4>1. /\ file[p].weights \in Weights /\ file[p].sound \in BOOLEAN
            /\ file[p].scaler \in Datasets \cup {Raw}
            /\ file[p].temperature \in Temperatures
        BY <2>4, <3>2 DEF Bundles
      <4>2. Through(file[p], tool) \in [weights : Weights,
               scaler : Datasets \cup {Raw}, temperature : Temperatures]
        BY <1>2, <4>1 DEF Through
      <4> QED
        BY <3>2, <4>1, <4>2
    <3> QED
      BY <2>2, <3>1, <3>2
  <2>6. runs' \in 0..MaxRuns
    BY <1>1, <2>1, BoundAssumption DEF Analyse, TypeOK
  <2>7. opt' \in Options
    BY <2>2 DEF Options
  <2> QED
    BY <1>1, <1>2, <2>1, <2>2, <2>5, <2>6, <2>7 DEF Analyse, TypeOK
<1>18. CASE Kill
  BY <1>1, <1>18 DEF Kill, Exit, memory, TypeOK
<1>19. CASE WriteFails
  BY <1>1, <1>19 DEF WriteFails, memory, TypeOK
<1>20. CASE UNCHANGED vars
  BY <1>1, <1>20 DEF vars, TypeOK
<1> QED
  BY <1>3, <1>4, <1>5, <1>6, <1>7, <1>8, <1>9, <1>12, <1>13, <1>14, <1>15, <1>16,
     <1>17, <1>18, <1>19, <1>20 DEF Next, NoMore

\* The steps of a run, for the order of main().
LEMMA CourseStep ==
  ASSUME PInv, [Next]_vars
  PROVE  Course'
<1>1. TypeOK /\ Course
  BY DEF PInv
<1>2. CASE Launch \/ Refuse \/ Fit \/ Load \/ InitModel
  BY <1>1, <1>2 DEF Launch, Refuse, Fit, Load, InitModel, Exit, memory, Course, Fitted
<1>3. CASE LoadData
  BY <1>1, <1>3 DEF LoadData, Exit, ReadResults, Course, TypeOK, Options
<1>4. CASE Train
  BY <1>1, <1>4 DEF Train, Course, Fitted, TypeOK, Options
<1>5. CASE SaveOpen \/ SaveModel \/ SaveScaler \/ WriteFails
  BY <1>1, <1>5 DEF SaveOpen, SaveModel, SaveScaler, WriteFails, Exit, memory, Course,
                    Fitted
<1>6. CASE Report \/ Predict \/ Kill
  BY <1>1, <1>6 DEF Report, Predict, Kill, Exit, memory, Course
<1>7. CASE \E tool \in Tools : Analyse(tool)
  <2>1. pc' = "off"
    BY <1>7 DEF Analyse
  <2> QED
    BY <2>1 DEF Course
<1>8. CASE UNCHANGED vars
  BY <1>1, <1>8 DEF vars, Course, Fitted
<1> QED
  BY <1>2, <1>3, <1>4, <1>5, <1>6, <1>7, <1>8 DEF Next, NoMore

\* What is written: only save writes, and only its own path.
LEMMA WrittenStep ==
  ASSUME PInv, [Next]_vars
  PROVE  Written'
<1>1. TypeOK /\ Course /\ Written /\ FailedRunWritesNothing
  BY DEF PInv, Written
<1>2. CASE Launch \/ \E tool \in Tools : Analyse(tool)
  <2>1. file' = file /\ before' = file
    BY <1>2 DEF Launch, Analyse
  <2> QED
    BY <1>1, <2>1 DEF Written, FailedRunWritesNothing
<1>3. CASE Refuse \/ LoadData \/ Fit \/ Load \/ InitModel \/ Train \/ Predict
  <2>1. /\ file' = file /\ before' = before /\ opt' = opt
        /\ pc \in {"options", "fit", "load", "train", "predict"}
        /\ pc' \in {"off", "fit", "load", "train", "predict", "save", "report"}
    BY <1>1, <1>3 DEF Refuse, LoadData, Fit, Load, InitModel, Train, Predict, Exit
  <2>2. file = before
    BY <1>1, <2>1 DEF Written
  <2> QED
    BY <1>1, <2>1, <2>2 DEF Written, FailedRunWritesNothing
<1>4. ASSUME NEW b, Store(b), pc \in {"save", "write", "flush"},
             pc' \in {"write", "flush", "report"},
             code' \notin {2, 3, 4, 5, 6}, UNCHANGED <<opt, before>>
      PROVE  Written'
  <2>1. /\ DOMAIN file' = Paths
        /\ \A p \in Paths : p # opt.save => file'[p] = file[p]
    BY <1>1, <1>4 DEF Store, Written
  <2> QED
    <3>1. \A p \in Paths : p # opt.save => file[p] = before[p]
      BY <1>1, <1>4 DEF Written
    <3> QED
      BY <1>4, <2>1, <3>1 DEF Written, FailedRunWritesNothing
<1>5. CASE SaveOpen
  <2>1. CASE Exit(6) /\ UNCHANGED file
    BY <1>1, <1>5, <2>1 DEF SaveOpen, Exit, Written, FailedRunWritesNothing
  <2>2. CASE pc' = "write"
    BY <1>1, <1>4, <1>5, <2>2 DEF SaveOpen, Exit, Course
  <2> QED
    BY <1>5, <2>1, <2>2 DEF SaveOpen
<1>6. CASE SaveModel \/ SaveScaler
  BY <1>1, <1>4, <1>6 DEF SaveModel, SaveScaler, Course
<1>7. CASE Report \/ WriteFails
  BY <1>1, <1>7 DEF Report, WriteFails, Exit, Course, Written, FailedRunWritesNothing
<1>8. CASE Kill
  BY <1>1, <1>8 DEF Kill, Exit, Killed, Written, FailedRunWritesNothing
<1>9. CASE UNCHANGED vars
  BY <1>1, <1>9 DEF vars, Written, FailedRunWritesNothing
<1> QED
  BY <1>2, <1>3, <1>5, <1>6, <1>7, <1>8, <1>9 DEF Next, NoMore

\* The scaler of the weights, in memory and in the files.
LEMMA ScaledStep ==
  ASSUME PInv, [Next]_vars
  PROVE  Scaled'
<1>1. TypeOK /\ Course /\ Scaled /\ DOMAIN file = Paths /\ ScaledAlike
  BY DEF PInv, Written, Scaled
<1>2. CASE Launch \/ Refuse \/ LoadData \/ Fit \/ InitModel \/ WriteFails \/ Report
           \/ Kill
  BY <1>1, <1>2 DEF Launch, Refuse, LoadData, Fit, InitModel, WriteFails, Report, Kill,
                    Exit, memory, Scaled, ScaledAlike
<1>3. CASE Load
  <2>1. opt.load \in Paths
    BY <1>1, <1>3 DEF Load, TypeOK, Options
  <2> QED
    BY <1>1, <1>3, <2>1 DEF Load, Exit, Scaled, ScaledAlike, Course
<1>4. CASE Train
  BY <1>1, <1>4 DEF Train, Scaled, ScaledAlike, Course, Fitted
<1>5. ASSUME NEW b, Store(b), opt.save \in Paths, b.sound => b.scaler = b.weights.scale
      PROVE  \A p \in Paths : file'[p] # None /\ file'[p].sound =>
                                file'[p].scaler = file'[p].weights.scale
  BY <1>1, <1>5 DEF Store, Scaled
<1>6. CASE SaveOpen \/ SaveModel \/ SaveScaler
  <2>1. opt.save \in Paths /\ prediction = None
    BY <1>1, <1>6 DEF SaveOpen, SaveModel, SaveScaler, Course
  <2>2. \A p \in Paths : file'[p] # None /\ file'[p].sound =>
                           file'[p].scaler = file'[p].weights.scale
    <3>1. CASE SaveOpen
      BY <1>1, <1>5, <2>1, <3>1 DEF SaveOpen, Scaled
    <3>2. CASE SaveModel
      BY <1>1, <1>5, <2>1, <3>2 DEF SaveModel
    <3>3. CASE SaveScaler
      BY <1>1, <1>5, <2>1, <3>3 DEF SaveScaler, Scaled, Course
    <3> QED
      BY <1>6, <3>1, <3>2, <3>3
  <2> QED
    BY <1>1, <1>6, <2>1, <2>2
       DEF SaveOpen, SaveModel, SaveScaler, Exit, memory, Scaled, ScaledAlike, Fitted
<1>7. CASE Predict
  BY <1>1, <1>7 DEF Predict, Exit, memory, Scaled, ScaledAlike
<1>8. CASE \E tool \in Tools : Analyse(tool)
  <2>1. PICK tool \in Tools : Analyse(tool)
    BY <1>8
  <2>2. /\ file' = file /\ pc' = "off"
        /\ \E p \in Paths : \/ prediction' = None
                            \/ /\ prediction' = Through(file[p], tool)
                               /\ file[p] # None /\ intact' = file[p].sound
    BY <2>1 DEF Analyse
  <2> QED
    BY <1>1, <2>2 DEF Scaled, ScaledAlike, Through
<1>9. CASE UNCHANGED vars
  BY <1>1, <1>9 DEF vars, Scaled, ScaledAlike, Fitted
<1> QED
  BY <1>2, <1>3, <1>4, <1>6, <1>7, <1>8, <1>9 DEF Next, NoMore

\* The rows weights know, and the rows of the temperature.
LEMMA ApartStep ==
  ASSUME PInv, [Next]_vars
  PROVE  Apart'
<1>1. TypeOK /\ Course /\ Apart /\ CalibratedOnHeldOut
  BY DEF PInv, Apart
<1>2. CASE Launch
  BY <1>2 DEF Launch, Apart, CalibratedOnHeldOut, Fresh
<1>3. CASE Refuse \/ LoadData \/ Fit \/ Load \/ InitModel \/ Predict \/ Kill
  BY <1>1, <1>3 DEF Refuse, LoadData, Fit, Load, InitModel, Predict, Kill, Exit,
                    memory, Apart, CalibratedOnHeldOut
<1>4. CASE Train
  <2>1. /\ X' = X /\ opt' = opt /\ temperature' = temperature /\ TrainRows' = TrainRows
        /\ pc = "train" /\ pc' \in {"save", "report"}
    BY <1>4 DEF Train, TrainRows
  <2>2. opt.load = NoPath => /\ temperature = One
                             /\ weights'.rows \subseteq {<<X, r>> : r \in TrainRows}
    BY <1>1, <1>4 DEF Train, Apart
  <2> QED
    BY <2>1, <2>2 DEF Apart, CalibratedOnHeldOut
<1>5. CASE SaveOpen \/ SaveModel \/ SaveScaler \/ WriteFails
  BY <1>1, <1>5 DEF SaveOpen, SaveModel, SaveScaler, WriteFails, Exit, memory, Apart,
                    CalibratedOnHeldOut, TrainRows
<1>6. CASE Report
  <2>1. pc = "report" /\ pc' = "off" /\ weights' = weights /\ opt' = opt
    BY <1>6 DEF Report, Exit
  <2>2. ASSUME opt.load = NoPath, temperature' # One
        PROVE  temperature'.on \cap weights.rows = {}
    <3>1. /\ temperature = One
          /\ weights.rows \subseteq {<<X, r>> : r \in TrainRows}
      BY <1>1, <2>1, <2>2 DEF Apart
    <3>2. /\ opt.val_split
          /\ temperature' = [weights |-> weights,
                             on |-> {<<X, r>> : r \in HeldOut[X]["seeded"]}]
      BY <1>6, <2>2, <3>1 DEF Report
    <3>3. TrainRows = Rows \ HeldOut[X]["seeded"]
      BY <3>2 DEF TrainRows
    <3> QED
      BY <3>1, <3>2, <3>3
  <2> QED
    BY <2>1, <2>2 DEF Apart, CalibratedOnHeldOut
<1>7. CASE \E tool \in Tools : Analyse(tool)
  BY <1>7 DEF Analyse, Apart, CalibratedOnHeldOut
<1>8. CASE UNCHANGED vars
  BY <1>1, <1>8 DEF vars, Apart, CalibratedOnHeldOut, TrainRows
<1> QED
  BY <1>2, <1>3, <1>4, <1>5, <1>6, <1>7, <1>8 DEF Next, NoMore

\* The runs of nwx keep their books.
THEOREM PipelineInvariant == Spec => []PInv
<1>1. PInv /\ [Next]_vars => PInv'
  BY TypeStep, CourseStep, WrittenStep, ScaledStep, ApartStep DEF PInv
<1> QED
  BY <1>1, PipelineInit, PTL DEF Spec

\* The variables of the command line program keep their types.
THEOREM TypeCorrect == Spec => []TypeOK
<1>1. PInv => TypeOK
  BY DEF PInv
<1> QED
  BY <1>1, PipelineInvariant, PTL

\* Whatever the options and the order of the runs, one that reports an error has
\* changed no bundle, and one that succeeds only that of --save
\* (main.cpp 105-164).
THEOREM ErrorsWriteNothing == Spec => []FailedRunWritesNothing
<1>1. PInv => FailedRunWritesNothing
  BY DEF PInv, Written
<1> QED
  BY <1>1, PipelineInvariant, PTL

\* Over any chain of runs that load, train, save, predict and analyse, rows are
\* scaled as those the weights were trained on (main.cpp 150-163, 217).
THEOREM PredictionsScaledAlike == Spec => []ScaledAlike
<1>1. PInv => ScaledAlike
  BY DEF PInv, Scaled
<1> QED
  BY <1>1, PipelineInvariant, PTL

\* The temperature of fresh weights is fitted on rows they were not trained on,
\* for any split (main.cpp 187-188, trainer.cpp 48-57).
THEOREM CalibrationHeldOut == Spec => []CalibratedOnHeldOut
<1>1. PInv => CalibratedOnHeldOut
  BY DEF PInv, Apart
<1> QED
  BY <1>1, PipelineInvariant, PTL
=============================================================================
