------------------------------- MODULE Pipeline -------------------------------
(***************************************************************************)
(* Runs of the command line program nwx, one after another, on a directory *)
(* of bundles: options and configuration, the dataset, the scaler, the     *)
(* loaded or fresh model, training, saving, the report with its            *)
(* temperature calibration, and prediction.  A run can be killed anywhere. *)
(* Between them run the tools that predict with a bundle.                  *)
(*                                                                         *)
(* Weights are abstracted to what they come from: the scaler of the rows   *)
(* they were last trained on and the rows that were ever trained on.  A    *)
(* scaler is named by the dataset it was fitted to, and a calibrated       *)
(* temperature records its weights and the rows it was fitted on.          *)
(***************************************************************************)
EXTENDS Naturals

CONSTANTS Paths,     \* the names bundles are saved under
          Datasets,
          Rows,
          HeldOut,   \* per dataset and state of the generator: split's va
          NoPath,    \* an option that was not given
          NoData,    \* X and y are empty
          Raw,       \* no scaler: rows as they are in the file
          Untrained, \* the scaler of weights no row was trained on
          One,       \* the initial temperature
          None,      \* no file; no prediction
          MaxRuns    \* bound: runs of nwx

Killed == 137   \* as a shell reports a run that did not exit by itself

\* The state of std::mt19937(seed): as seeded, or after model.init drew from it.
Generators == {"seeded", "drawn"}

ASSUME HeldOutAssumption == HeldOut \in [Datasets -> [Generators -> SUBSET Rows]]
ASSUME NamesAssumption == /\ NoPath \notin Paths
                          /\ {NoData, Raw, Untrained} \cap Datasets = {}
                          /\ NoData # Raw
ASSUME BoundAssumption == MaxRuns \in Nat

Weights == [scale : Datasets \cup {Raw, Untrained}, rows : SUBSET (Datasets \X Rows)]
Temperatures == {One} \cup [weights : Weights, on : SUBSET (Datasets \X Rows)]
Fresh == [scale |-> Untrained, rows |-> {}]

Options == [load : Paths \cup {NoPath}, save : Paths \cup {NoPath},
            predict : BOOLEAN, dataset : Datasets, standardize : BOOLEAN,
            val_split : BOOLEAN, calibrate_temp : BOOLEAN]

VARIABLES
  file,       \* per path, the bundle in it, or None
  pc, opt,
  X,          \* the dataset that was read
  fitted_scaler, bundle_scaler,
  weights, temperature,    \* of the model
  updated,    \* history: training has changed the weights
  intact,     \* history: the loaded bundle was saved in full, by such a run
  prediction, \* what the predictions were computed with
  code,       \* exit code of the last run
  before,     \* history: file when the run began
  runs

memory == <<X, fitted_scaler, bundle_scaler, weights, temperature, updated, intact>>
vars == <<file, pc, opt, X, fitted_scaler, bundle_scaler, weights, temperature,
          updated, intact, prediction, code, before, runs>>

Init == /\ file = [p \in Paths |-> None]
        /\ pc = "off"
        /\ opt \in Options
        /\ X = NoData
        /\ fitted_scaler = Raw /\ bundle_scaler = Raw
        /\ weights = Fresh /\ temperature = One
        /\ updated = FALSE /\ intact = FALSE
        /\ prediction = None
        /\ code = 0
        /\ before = file
        /\ runs = 0

Exit(c) == pc' = "off" /\ code' = c

-----------------------------------------------------------------------------
(* From the command line to a model.                                       *)

\* main() is entered; the options are the command line's, overridden by those
\* of the configuration file.
Launch ==
  /\ pc = "off" /\ runs < MaxRuns
  /\ runs' = runs + 1
  /\ opt' \in Options
  /\ pc' = "options" /\ code' = 0
  /\ X' = NoData
  /\ fitted_scaler' = Raw /\ bundle_scaler' = Raw
  /\ weights' = Fresh /\ temperature' = One
  /\ updated' = FALSE /\ intact' = FALSE
  /\ prediction' = None
  /\ before' = file
  /\ UNCHANGED file

\* An unknown argument, a configuration that cannot be read, or --predict
\* without --load.
Refuse ==
  /\ pc = "options"
  /\ \/ \E c \in {2, 3} : Exit(c)
     \/ opt.predict /\ opt.load = NoPath /\ Exit(2)
  /\ UNCHANGED <<file, opt, memory, prediction, before, runs>>

\* read_csv_numeric: the rows of the file, or none; a file it cannot open or
\* read as numbers is an exception, which Kill stands for.
ReadResults == {opt.dataset, NoData}

\* The dataset is read, unless the run only predicts; an empty one is refused.
LoadData ==
  /\ pc = "options"
  /\ opt.predict => opt.load # NoPath
  /\ \/ opt.predict /\ pc' = "fit" /\ UNCHANGED <<X, code>>
     \/ /\ ~opt.predict
        /\ X' \in ReadResults
        /\ IF X' = NoData THEN Exit(4) ELSE pc' = "fit" /\ UNCHANGED code
  /\ UNCHANGED <<file, opt, fitted_scaler, bundle_scaler, weights, temperature,
                 updated, intact, prediction, before, runs>>

\* StandardScaler::fit, named by the rows its means and deviations are of; every
\* use of it is under --standardize.
Fitted(on) == IF on THEN X ELSE Raw

\* Slip: fitted whenever --standardize is given, to the empty X of a prediction too.
FitWithoutData ==
  /\ pc = "fit"
  /\ fitted_scaler' = Fitted(opt.standardize)
  /\ pc' = "load"
  /\ UNCHANGED <<file, opt, X, bundle_scaler, weights, temperature, updated,
                 intact, prediction, code, before, runs>>

\* fitted_scaler.fit(X)
Fit ==
  /\ pc = "fit"
  /\ fitted_scaler' = Fitted(opt.standardize /\ ~opt.predict)
  /\ pc' = "load"
  /\ UNCHANGED <<file, opt, X, bundle_scaler, weights, temperature, updated,
                 intact, prediction, code, before, runs>>

\* Slip: the scaler of the bundle stays in the block that loaded it.
LoadWithoutScaler ==
  LET b == file[opt.load]
  IN  /\ pc = "load" /\ opt.load # NoPath
      /\ IF b = None
         THEN /\ Exit(5)
              /\ UNCHANGED <<bundle_scaler, weights, temperature, intact>>
         ELSE /\ weights' = b.weights /\ temperature' = b.temperature
              /\ intact' = b.sound
              /\ pc' = IF opt.predict THEN "predict" ELSE "train"
              /\ UNCHANGED <<code, bundle_scaler>>
      /\ UNCHANGED <<file, opt, X, fitted_scaler, updated, prediction, before, runs>>

\* load_bundle opens the file or fails; it takes what it finds in it.
Load ==
  LET b == file[opt.load]
  IN  /\ pc = "load" /\ opt.load # NoPath
      /\ IF b = None
         THEN /\ Exit(5)
              /\ UNCHANGED <<bundle_scaler, weights, temperature, intact>>
         ELSE /\ weights' = b.weights /\ temperature' = b.temperature
              /\ bundle_scaler' = b.scaler
              /\ intact' = b.sound
              /\ pc' = IF opt.predict THEN "predict" ELSE "train"
              /\ UNCHANGED code
      /\ UNCHANGED <<file, opt, X, fitted_scaler, updated, prediction, before, runs>>

\* model.init draws the weights from rng.
InitModel ==
  /\ pc = "load" /\ opt.load = NoPath
  /\ pc' = "train"
  /\ UNCHANGED <<file, opt, memory, prediction, code, before, runs>>

-----------------------------------------------------------------------------
(* Training, saving, calibrating.                                          *)

\* Slip: train_xent is handed the rng that model.init drew from.
TrainRowsDrawn ==
  Rows \ (IF opt.val_split THEN HeldOut[X]["drawn"] ELSE {})

\* The rows train_xent updates the weights with: it splits with a generator of
\* its own, seeded with cfg.seed.
TrainRows ==
  Rows \ (IF opt.val_split THEN HeldOut[X]["seeded"] ELSE {})

\* train_xent standardises with a scaler of its own, fitted to the same X.  It
\* gives back the weights it was given if no epoch's validation loss is a number.
Train ==
  /\ pc = "train"
  /\ \/ /\ weights' = [scale |-> Fitted(opt.standardize),
                       rows |-> weights.rows \cup {<<X, r>> : r \in TrainRows}]
        /\ updated' = TRUE
     \/ opt.val_split /\ UNCHANGED <<weights, updated>>
  /\ pc' = IF opt.save = NoPath THEN "report" ELSE "save"
  /\ UNCHANGED <<file, opt, X, fitted_scaler, bundle_scaler, temperature,
                 intact, prediction, code, before, runs>>

Store(b) == file' = [file EXCEPT ![opt.save] = b]

\* Slip: the path is truncated before it is known that it can be written.
SaveOpenTruncates ==
  /\ pc = "save"
  /\ Store([weights |-> Fresh, temperature |-> One, scaler |-> Raw, sound |-> FALSE])
  /\ \/ Exit(6)
     \/ pc' = "write" /\ UNCHANGED code
  /\ UNCHANGED <<opt, memory, prediction, before, runs>>

\* save_bundle opens the file, which truncates it, or fails.
SaveOpen ==
  /\ pc = "save"
  /\ \/ Exit(6) /\ UNCHANGED file
     \/ /\ Store([weights |-> Fresh, temperature |-> One, scaler |-> Raw,
                  sound |-> FALSE])
        /\ pc' = "write" /\ UNCHANGED code
  /\ UNCHANGED <<opt, memory, prediction, before, runs>>

\* The part of the bundle before the scaler reaches the file: reading stops
\* there, and has == 0.
SaveModel ==
  /\ pc = "write"
  /\ Store([weights |-> weights, temperature |-> temperature, scaler |-> Raw,
            sound |-> FALSE])
  /\ pc' = "flush"
  /\ UNCHANGED <<opt, memory, prediction, code, before, runs>>

\* Slip: the scaler of the loaded bundle is saved in place of the fitted one.
SaveScalerLoaded ==
  /\ pc = "flush"
  /\ Store([weights |-> weights, temperature |-> temperature,
            scaler |-> bundle_scaler, sound |-> updated])
  /\ pc' = "report"
  /\ UNCHANGED <<opt, memory, prediction, code, before, runs>>

\* The scaler, if there is one, and the end of the file.
SaveScaler ==
  /\ pc = "flush"
  /\ Store([weights |-> weights, temperature |-> temperature,
            scaler |-> fitted_scaler, sound |-> updated])
  /\ pc' = "report"
  /\ UNCHANGED <<opt, memory, prediction, code, before, runs>>

\* A write fails: the stream ignores those that follow, the file keeps what it has,
\* and save_bundle returns true all the same.
WriteFails ==
  /\ pc \in {"write", "flush"}
  /\ pc' = "report"
  /\ UNCHANGED <<file, opt, memory, prediction, code, before, runs>>

\* The metrics, and the temperature: the split is made again, with a new
\* generator of the same seed.  An empty split leaves bestT at 1.0.  What the two
\* passes over the training rows print is left out; the first takes the rows
\* unscaled, whatever the weights were trained on (main.cpp 167).
Report ==
  /\ pc = "report"
  /\ temperature' =
       IF ~(opt.calibrate_temp /\ opt.val_split) THEN temperature
       ELSE IF HeldOut[X]["seeded"] = {} THEN One
       ELSE [weights |-> weights,
             on |-> {<<X, r>> : r \in HeldOut[X]["seeded"]}]
  /\ Exit(0)
  /\ UNCHANGED <<file, opt, X, fitted_scaler, bundle_scaler, weights, updated,
                 intact, prediction, before, runs>>

-----------------------------------------------------------------------------
\* The rows of --predict, through the bundle's scaler and its temperature.
Predict ==
  /\ pc = "predict"
  /\ prediction' = [weights |-> weights, scaler |-> bundle_scaler,
                    temperature |-> temperature]
  /\ Exit(0)
  /\ UNCHANGED <<file, opt, memory, before, runs>>

-----------------------------------------------------------------------------
(* The tools that predict with a bundle, and write none: the exit codes of *)
(* refused arguments, of an empty dataset and of a failed load, and what   *)
(* the logits are divided by.                                              *)

eval       == [refused |-> {2, 4}, empty |-> 3, failed |-> 5, tempered |-> TRUE]
report     == [refused |-> {2},    empty |-> 3, failed |-> 4, tempered |-> TRUE]
confusion  == [refused |-> {2, 3}, empty |-> 4, failed |-> 5, tempered |-> FALSE]
importance == [refused |-> {2},    empty |-> 3, failed |-> 4, tempered |-> FALSE]
fairness   == [refused |-> {2, 3}, empty |-> 4, failed |-> 5, tempered |-> FALSE]
explain    == [refused |-> {2},    empty |-> 3, failed |-> 4, tempered |-> FALSE]

Tools == {eval, report, confusion, importance, fairness, explain}

\* The logits of the dataset's rows: through the bundle's scaler if it has one.
Through(b, tool) ==
  [weights |-> b.weights, scaler |-> b.scaler,
   temperature |-> IF tool.tempered THEN b.temperature ELSE One]

\* A tool runs from its arguments to its end; an exception ends it early.
Analyse(tool) ==
  /\ pc = "off" /\ runs < MaxRuns
  /\ runs' = runs + 1
  /\ \E p \in Paths, d \in Datasets :
       /\ opt' = [load |-> p, save |-> NoPath, predict |-> TRUE, dataset |-> d,
                  standardize |-> FALSE, val_split |-> FALSE, calibrate_temp |-> FALSE]
       /\ X' \in {d, NoData}
       /\ \/ /\ code' \in tool.refused \cup {Killed} \cup
                           (IF X' = NoData THEN {tool.empty} ELSE {})
             /\ prediction' = None /\ intact' = FALSE
          \/ /\ X' # NoData /\ file[p] = None
             /\ code' = tool.failed
             /\ prediction' = None /\ intact' = FALSE
          \/ /\ X' # NoData /\ file[p] # None
             /\ code' = 0
             /\ prediction' = Through(file[p], tool) /\ intact' = file[p].sound
  /\ fitted_scaler' = Raw /\ bundle_scaler' = Raw
  /\ weights' = Fresh /\ temperature' = One
  /\ updated' = FALSE
  /\ before' = file
  /\ UNCHANGED <<file, pc>>

\* The run is killed, or an exception or an assertion ends it.
Kill ==
  /\ pc # "off"
  /\ Exit(Killed)
  /\ UNCHANGED <<file, opt, memory, prediction, before, runs>>

\* No run is started any more.
NoMore == pc = "off" /\ runs = MaxRuns /\ UNCHANGED vars

Next == \/ Launch \/ Refuse \/ LoadData \/ Fit \/ Load \/ InitModel \/ Train
        \/ SaveOpen \/ SaveModel \/ SaveScaler \/ WriteFails \/ Report \/ Predict
        \/ (\E tool \in Tools : Analyse(tool)) \/ Kill \/ NoMore

Spec == Init /\ [][Next]_vars

-----------------------------------------------------------------------------
Bundles == [weights : Weights, temperature : Temperatures,
            scaler : Datasets \cup {Raw}, sound : BOOLEAN]

TypeOK ==
  /\ \A p \in Paths : file[p] = None \/ file[p] \in Bundles
  /\ pc \in {"off", "options", "fit", "load", "train", "save", "write", "flush",
             "report", "predict"}
  /\ opt \in Options
  /\ X \in Datasets \cup {NoData}
  /\ {fitted_scaler, bundle_scaler} \subseteq Datasets \cup {Raw}
  /\ weights \in Weights /\ temperature \in Temperatures
  /\ {updated, intact} \subseteq BOOLEAN
  /\ prediction = None \/ prediction \in [weights : Weights,
       scaler : Datasets \cup {Raw}, temperature : Temperatures]
  /\ code \in {0, 2, 3, 4, 5, 6, Killed}
  /\ runs \in 0..MaxRuns

\* Rows are predicted on as the weights were last trained on rows: through the
\* same scaler or none, over any chain of runs that load and save, by nwx and by
\* every tool, as long as the bundle was saved in full by a run that trained
\* (main.cpp 150-163, 217, eval.cpp 44).
ScaledAlike ==
  prediction # None /\ intact => prediction.scaler = prediction.weights.scale

\* The temperature is fitted on rows the weights were not trained on, when the
\* run began with fresh weights (main.cpp 187-188, trainer.cpp 48-57).
CalibratedOnHeldOut ==
  temperature # One /\ opt.load = NoPath => temperature.on \cap weights.rows = {}

\* A run that reports an error has left every bundle as it was, and one that
\* succeeds has written the path of --save only (main.cpp 105-164).
FailedRunWritesNothing ==
  /\ code \in {2, 3, 4, 5, 6} => file = before
  /\ pc = "off" /\ code = 0 =>
       \A p \in Paths : p # opt.save => file[p] = before[p]

\* A run that succeeds, and whose writes do, has stored the temperature it calibrated
\* (CHANGELOG.md:18, CALIBRATION.md:8).
TemperatureStored ==
  pc = "off" /\ code = 0 /\ runs > 0 /\ ~opt.predict /\ opt.save # NoPath =>
    (file[opt.save].sound => file[opt.save].temperature = temperature)
=============================================================================
