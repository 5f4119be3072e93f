# neuralware-x in TLA+

A specification of the parts of neuralware-x whose correctness depends on order,
concurrency or failure: the served model and its hot reload, the connections of
`nwx_serve`, its two rate limiters, training with early stopping, the forward
pass on shared and private models, the files that runs of `nwx` leave to one
another, and the functions without state in which an index or a rounding can go
wrong. TLC checks each part on small instances; TLAPS proves the most important
statements for every value of the constants.

Source paths below are relative to `src/`, the root of the repository, so that
`serve.cpp` is `src/src/app/serve.cpp` there.

## 1. The system

| Component | State it keeps | Operations | Talks to | What is hard |
|---|---|---|---|---|
| Served model (`serve.cpp` 375-407, 481, 704, 738-746, 818, 912; `bundle.cpp`) | the bundle `b`, the mutex `bmtx`, the flags `g_reload`, `g_stop` | load at start, `POST /reload`, SIGHUP, copies for predictions | bundle files, all handlers | reload against copies, order of reloads, half-written files, lost signals |
| Connections (`serve.cpp` 480-492, 559-659, 936) | sockets, `active_conns`, counters | accept, refuse, handle, answer, stream, close, stop | clients, every route | one answer each, the right socket, limit, clients that leave, the end of the process |
| Window limiter (`serve.cpp` 70-86, 774-792, 829-836) | `rl_counts` under `rl_mtx` | open a window, count, refuse with Retry-After | both prediction routes | clock read before the lock, boundaries |
| Token bucket (`serve.cpp` 343-346, 849-857) | `buckets`, unprotected | refill, spend, refuse | `POST /predict` | races, idle times |
| Training (`trainer.cpp`, `stratified.cpp`) | weights, best weights, patience | split, shuffle, batch, validate, stop | `nwx`, `nwx_cv` | short batches, NaN, which weights come back |
| Forward pass (`model.cpp` 19-24; `serve_grpc.cpp`; `capi.cpp`) | the members `x1`, `a1`, `a2` of a model | forward | HTTP handlers (copies), gRPC calls and C API (shared) | members as scratch space |
| Command line `nwx` (`main.cpp`) | options, scaler, model, bundle files | load, fit, train, save, calibrate, predict | training, bundle files, later runs | order of saving, chains of runs, kills |
| Analysis tools (`eval.cpp`, `confusion.cpp`, `report.cpp`, `fairness.cpp`, `importance.cpp`, `explain.cpp`) | none | load a bundle, read a dataset, predict | bundle files of `nwx` | the scaler and the temperature each applies |
| Bundle and model files (`bundle.cpp`, `serialize.cpp`) | the file | save, load, fall back to the format without header | `nwx`, `nwx_serve`, tools | no field is checked: files cut anywhere |
| Readers of bodies, tables and configurations (`serve.cpp` 755-768, 804-817, 870-907; `csv.cpp`, `dataset_bridge.cpp`, `check.cpp`, `json.cpp`) | none | characters to rows, shapes and options | prediction routes, `nwx`, tools | shapes that do not fit, texts cut anywhere |
| Metrics (`metrics.cpp`, `metrics_ex.cpp`, `confusion.cpp`) | none | count | tools | ties, NaN, five loops that must agree |
| Cross-validation (`cv.cpp`) | none | deal rows to folds | `train_xent` | rounding of the bounds |
| `nwx_drift`, `nwx_impute` (`drift.cpp`, `impute.cpp`) | none | cut bins, fill cells | files | positions of quantiles, scans to the end |
| Matrix product (`tensor.cpp` 23-62) | none | plain and blocked loops | forward, gradients | partial blocks, order of additions |
| Authentication (bearer, JWT, JWKS, TLS), telemetry export | token list | yes or no | every route | one unlocked static list |
| Optimisers, quantisation, CUDA, bindings, SDKs, deployment files | none shared | arithmetic, wrapping | | |

Interactions: `nwx` writes a bundle, `nwx_serve` loads it at its start and at
each reload; the accept loop starts one thread per connection; a handler passes
the window limiter, then the token bucket, copies the bundle under `bmtx`, runs
`forward` on its copy, counts and answers. Handlers share `b`, the limiters, the
counters and the kernel's descriptor table, and nothing else. The gRPC server and
the C API load a bundle once and have no reload.

### Readings of the text

The repository does not compile as it stands; where the text admits more than one
program the specification takes the one below.

* The lambda of the handler thread opened at `serve.cpp` 492 has no closing line
  and the thread is neither joined nor detached: read as detached.
* `continue` and `goto end` inside it are read as leaving the handler (line 933).
* Three bodies of `respond` follow each other (613-638, 639-644, 645-659): read as
  one, which counts an error when the code is 400 or more (639), sends and closes.
  `problem_json` (180) calls it.
* Of the two body parsers of `/predict` (870-907) the CSV one (897-907) runs last
  and is the one that survives.
* `main.cpp` uses `bundle_scaler` and `bundle_has_scaler` outside the block that
  declares them: read as declared before it.
* `SO_RCVTIMEO` on the listening socket makes `accept` return from time to time
  and is inherited by the accepted sockets, as on Linux.

## 2. Modules

| Module | Models | Extends / composes |
|---|---|---|
| `ModelRegister` | the promise: a register of versions that grows, read atomically by each prediction | |
| `HotReload` | the code of the served model | implements `ModelRegister` |
| `HotReloadProof` | theorems | `HotReload` |
| `Connections` | accept loop, handlers, descriptors, counters | |
| `ConnectionsProof` | theorems | `Connections` |
| `RateWindow` | window limiter | |
| `RateWindowProof` | theorems | `RateWindow` |
| `TokenBucket` | the promise: a bucket visited at one instant | |
| `RateLimit` | the code of the bucket, step by step | extends and implements `TokenBucket` |
| `RateLimitProof` | theorems | `RateLimit` |
| `Training` | `train_xent` | |
| `TrainingProof` | theorems | `Training` |
| `SharedForward` | `MLP::forward` and its callers | |
| `SharedForwardProof` | theorems | `SharedForward` |
| `Pipeline` | chains of runs of `nwx` and of the tools that load bundles | |
| `PipelineProof` | theorems | `Pipeline` |
| `Readers` | CSV reader, `nwx_check`, loader of data sets, bodies of `/validate`, `/predict`, `/predict/stream` | |
| `FlatJson` | the configuration reader | |
| `BundleFile` | bundle and model files field by field | |
| `CrossValidation` | the folds of `nwx_cv` | |
| `Counting` | the counts behind the metrics | |
| `ColumnStats` | bins of `nwx_drift`, fills of `nwx_impute` | |
| `Tensors` | `matmul`, plain and blocked | |
| `Algorithms` | calls of the functions of the seven modules above, and what they promise | extends them |
| `AlgorithmsProof` | theorems about the functions and their calls | `Algorithms` |
| `MC*` | the constants of the runs | the module after which each is named |

Definitions whose comment starts with *Slip* are not part of a specification:
each is a plausible mistake in one operation, and substituting it for the
operation breaks the property it is listed with. They show that the property
depends on that line of the code.

### HotReload

Threads are `Main` (the accept loop) and the `Handlers`. A bundle is a pair of
halves, each with the version that wrote it: what `save_bundle` writes first and
last, and what `load_bundle` reads first and last. Reading a file, `b = nb` and
`lb = b` take two steps each, so what `bmtx` excludes is visible. `Open` is the
`ifstream` of `load_bundle`; `Read1`, `Read2` its reads; `Set1`, `Set2` the
assignment and the end of the `lock_guard`; `Drop` is `nb` and its `ifstream`
going out of scope; `Fail` the early exit, with the 500
that a handler sends under the lock; `Exchange` is `g_reload.exchange(false)`.
The environment deploys bundles by renaming a finished file over the served path
(`Deploy`) or by running `save_bundle` on it (`SaveOpen`, `SaveHead`,
`SaveTail`), one way or the other throughout (`Renamed`), removes the file, and sends
SIGHUP and SIGTERM. `seen`, `newest` and `floor` are history.

The refinement maps the published version to `b.tail`, the half that is assigned
last, and the version a prediction took to the version of its copy, once it is
complete; a copy with two different halves maps to no version at all, so that a
torn copy is a step the register cannot take. Where bundles are saved in place the
register is mapped to one that does nothing: the promise is made for renamed files.

Correct means, with bundles deployed by rename: a prediction uses one whole bundle
(`PredictionWhole`); a reload that answers 200 has put in a bundle no older than the
file its request found (`ReloadFresh`); no client sees the model go back
(`MonotonicReads`) and it does not (`NoRollback`); no SIGHUP is lost (`HupApplied`); the
whole is one atomic register (`RegisterRefinement`). With bundles saved in place, a torn
model is repaired by a SIGHUP that is pending when the last save ends (`HupRepairs`). In
either case nobody waits for `bmtx` for ever (`Answered`).

### Connections

A request is its kind, and a kind the lists of steps its branch may make
(`Scripts`): answers through `respond`, direct sends (the header of a stream and
each of its events, `OPTIONS`, the description of the API), and two steps that send
nothing, the uncaught exception of line 863 (`abort`) and a product or a copy beyond
the end of a row (`beyond`), which fails an assertion in one build and reads some
number in another. The descriptor table hands out the lowest free number; `SendOn`
and `CloseFd` act on whatever a number names when they run. A client may leave
(`Hangup`), before it is accepted or at any time after, and a send to it may then end
the process, as nothing handles SIGPIPE (`SigPipe`, `BusyKilled`). `active_conns` is
incremented and never decremented, as in the code. Of the history, `gone` are the
clients that left and `ignored` those whose request took the branch of line 846.

Correct means: the limit is never exceeded (`ConcurrencyLimit`); a client reads only
what was sent for it, and once, or an event at a time (`OneOwnAnswer`); whoever stays
gets all of it eventually, unless the process ends or the request takes the silent
branch (`EveryoneAnswered`); the counters never lag behind what clients have seen
(`AnswersCounted`). Two statements of the documents fail: a connection is refused
only when the limit is reached (`BusyOnlyWhenFull`) and every token is answered
(`EveryTokenAnswered`).

### RateWindow, TokenBucket, RateLimit

`RateWindow` reads the clock (`ReadClock`) and runs the block under `rl_mtx`
(`Enter`) as two steps with time passing in between. A window lets `LIMIT - 1`
requests through: the one that brings `remaining` to 0 is refused as well.
`SlidingBound` says that no `RL_WINDOW + 2` seconds, less the staleness of the
clock, let through more than two such quotas; `OwnSlot` that no two requests
take the same slot. `told` holds every time a key was told to retry at.
`RetryHonoured`: a request later than any of them, however long ago, is refused only
when others of its key have used up a whole quota since, and a request at exactly the
announced time is too early, as it never opens a window itself.

`TokenBucket` counts tokens in thousandths and time in milliseconds, on which the
code's doubles are exact. `mark` is an observer that starts to count at any
request; `RateBound` bounds what is let through since. In `RateLimit` every read
and write of the unprotected bucket is a step, and a reread may return the stored
or the current value. The refinement lets a request visit the bucket when it
stamps it, or creates it: from there on `Decided` is what the bucket will hold,
`BucketTokens` and `BucketAdmitted` what the atomic bucket holds already.

### Training

Weights are the number of updates that made them, a loss a number of margins of
1e-12 or NaN. How many rows of a class are held out is one of two numbers when the
product of the ratio and the size is whole, since the double may be just below it
(`Held`). `Shuffle` orders the training rows, `Update` is a mini-batch,
`EpochEnd`, `Better`, `Worse` the validation and the counter of bad epochs.
`EpochCovers`: each training row is used once per epoch and no validation row
is. `NearBest`: `best_val` is within the margin of every loss seen.
`StopReturnsBest`: early stopping returns the weights of `patience` epochs ago.
`PatienceHonoured`: `patience` epochs without improvement end the training.

### SharedForward

A tensor is the input it was computed from. The calls in `Private` work on a
copy, as HTTP handlers do; the others on one model, as gRPC calls and C API
callers do. `OwnRows` says that answers are to a call's own rows, for every call
that does not run forward on the shared model while another one does: what an
earlier call left in the members is never read. Calls that do overlap get each
other's results, which the code does not prevent.

### Pipeline

Weights are the scaler of the rows they were last trained on and the rows they were
ever trained on; a temperature records its weights and the rows it was fitted on.
Each action is a stage of `main`; `Kill` may come at any of them, and a killed save
leaves a truncated file or a model without its scaler. So does a write that fails,
after which the run goes on as if it had saved (`WriteFails`). Between runs of `nwx`
the tools run, each in one step (`Analyse`): they write no bundle, and a record per
tool says which codes it exits with and whether it divides by the temperature.
`ScaledAlike`: a prediction, of `nwx` or of a tool, from a bundle that a run that
trained has saved in full goes through the scaler its weights expect.
`CalibratedOnHeldOut`: the temperature is fitted on rows that training did not use,
although the split is computed a second time. `FailedRunWritesNothing`: a run that
reports an error leaves the bundles alone.

### Algorithms and the modules it calls

Each function is an operator with the name it has in the code, written after its
loop: a scanner is a fold over the text, a pass of nested loops a fold over its
indices. `Algorithms` calls them one at a time with inputs from small sets; its
invariants compare a function with what it is for, or functions that must agree
with one another.

* `Readers`. A text is a sequence of the characters the readers tell apart.
  `Streamed` is `/predict/stream`: the codes sent, the numbers read, and how many
  events may follow from a model of so many inputs, none if its first product fails
  an assertion. `MatrixFits`: of a matrix received whole or in part it reads only
  numbers that were sent, although it takes commas for columns; a whole one gets
  one event per row from a model of one input less than it has columns, and perhaps
  none from a model as wide as it is; and `/validate` accepts just the bodies that
  the stream finds a shape for. `CutRows`: a CSV body that
  the one `recv` cuts gives the rows sent, but for the last, which may be a part of
  one, or of a line over `MaxLine` characters, which is refused when it is whole.
  `CheckedTables`: what `nwx_check` accepts, the loader reads within its rows.
* `FlatJson`. A scanner that takes a token at a time. `ConfigReads`: every
  option has the value of its last member, however spaced; a text cut anywhere is
  refused or gives a part of the options, the last number perhaps shorter.
* `BundleFile`. A file is the sequence of the fields in the order they are
  written, those of the scaler its size, means and deviations. `BundleReads`: both
  formats give back what was saved; of a file cut anywhere at most one field is
  neither as saved nor at its default, means and deviations being zeros and ones
  once their size is known; it has a scaler only behind a whole model, and deviations
  only behind all the means. It justifies the two halves of `HotReload` and the
  stages of saving of `Pipeline`.
* `CrossValidation`. `FoldsPartition`: test sets partition the rows, their sizes
  differ by one at most, and the training sets are the rest.
* `Counting`. `CountsAgree`: the confusion matrix, precision and recall, the two
  F1 loops and accuracy count the same rows, with ties and NaN.
* `ColumnStats`. `BinsBalanced`: each value is in one bin, in order, and the bins of
  distinct baseline values differ by few. `FillIsMode`: the scan of the sorted
  values finds the least most frequent one, the median is in the middle, and what is
  written for a cell or a fill is the number rounded to the digits a stream writes,
  exact if it has no more (`Written`; `Shortest` is 10^6 in the program). A sorted
  column is defined by its ranks: the k-th value has fewer than k values below it
  and at least k not above.
* `Tensors`. A loop is a recursive function of the passes made. An element of a
  product is the sequence of terms added to it, since the addition of doubles does
  not associate. `SameSums`: the blocked loops add the terms of the plain ones in
  their order, for whole and partial blocks.

## 3. Runs

| Run | Instance | Distinct states | Shows |
|---|---|---|---|
| `hot_reload` | 2 handlers and the accept loop, 2 versions, renamed or saved in place, fair | 461,308 | the nine statements about the served model |
| `connections` | 3 clients, limit 2, 3 descriptors, 1 event, five kinds, fair | 654,819 | the statements about connections |
| `connections_silent` | 2 clients, limit 1, fair | - | `EveryTokenAnswered` (CHANGELOG.md:135) fails: no answer at 846 |
| `connections_busy` | 2 clients, limit 1 | - | `BusyOnlyWhenFull` (CHANGELOG.md:30) fails: an idle server refuses |
| `rate_limit` | 1 request of the key at a time, rate 700/s, burst 2, 6 ms | 5,497 | the code is the atomic bucket, and its bound |
| `rate_limit_race` | 2 requests of the key at a time | - | `KeyRateBound` (docs/SERVER.md:13) fails: both spend one token |
| `rate_window` | 1 key, 2 requests at a time, limit 3 per 2 s, 8 s, clock at most 1 s stale | 300,671 | the statements about windows |
| `training` | 5 rows of 2 classes, 2/5 held out, batches of 3, 4 epochs, patience 2, losses 4, 5, 6, NaN | 26,640 | the statements about training |
| `shared_forward` | 2 calls on copies, 2 on the shared model, one of them a stream of 2 | 74,000 | `OwnRows` |
| `pipeline` | 2 paths, 2 datasets of 2 rows, 3 runs of `nwx` or a tool, a kill or a failed write anywhere | 2,231,688 | the statements about bundles |
| `pipeline_temperature` | the same | - | `TemperatureStored` (CHANGELOG.md:18) fails: saving comes first |
| `algorithms` | a call of each function with each input of the sets below | 35,381 | the functions without state keep their promises |

Why the bounds are enough:

* `hot_reload`: a rollback or a torn copy needs two loaders and one reader of
  the three threads, and an older and a newer version; the rest repeats. The second
  version is the one that is saved in place. The theorems of section 5 lift the
  safety part to any number.
* `connections`: the third client meets the refusal and the reuse of a closed
  descriptor while two others are in progress. Of the kinds, `denied` stands for every
  answer through `respond` but a prediction, `misfit` and `misfitstream` include what
  `predict` and `stream` do, `badlength` ends the process before any answer and
  `silent` gives none; all answer once (`Single`). A stream of one event has a header
  and something after it. The theorems of section 5 are about every kind that answers
  once and streams of any length.
* `rate_limit`: 700 thousandths per millisecond fill a token in neither one nor
  an exact number of steps, and six milliseconds fill the bucket past its size.
* `rate_window`: eight seconds hold three windows, two requests at a time race
  for a slot, and `MaxCount` 4 exceeds the limit of 3. A retry at the announced second
  and one after it, in the next window and the one after that, fit in eight seconds.
* `training`: one row of the class of three is held out and none of the class of
  two, so that four training rows in batches of 3 leave a short last batch; the
  losses are within the margin of each other (4, 5) and beyond it (4, 6), and 4
  epochs exceed the patience by two.
* `pipeline`: a chain of save, load and train, load and predict is three runs;
  the second path and dataset let them differ.
* `algorithms`: bodies of up to 6 tokens hold a row that closes, a row without a
  comma and a number that ends at either; matrices up to 4 by 4, cut at each token,
  show the rows after the first shifted. Texts of up to 5 characters hold two rows
  of different widths, empty lines, lines longer than the 4 of `MaxLine`, whole and
  cut below it, and cells that are no number or not finite. With `Shortest` 10 the
  columns have numbers rounded up, down and, from the middle, to either side. Two
  members give a repeated name, and the string among the values holds what a scanner
  might take for the end. A bundle is taken with and without a scaler and with
  several fields at their defaults, cut behind or inside every field, those of the
  scaler included. More folds than rows are among the inputs, as are sizes that K
  does not divide. Two rows of three classes and three of two give every tie. Blocks
  of 1, 2 and 3 against sides up to 3 are whole, leave a partial one at each edge,
  or hold the whole matrix.

`MaxVersion`, `MaxFd`, `MaxEvents`, `MaxMs`, `MaxAdmitted`, `MaxTime`, `MaxStale`,
`MaxCount` and `MaxRuns` bound what the code leaves unbounded and stand in the guards.
`MaxLine` and `Shortest` are numbers of the code, 4096 and 10^6, made small in the
runs. Symmetry is used in `rate_window`, which checks no liveness.

### Known departures that no run lists

The modules contain the states below; a configuration with the constant named
shows them.

* `Encrypted = TRUE`: a reload of a `.enc` bundle reads its ciphertext, since only
  the start of the server decrypts (375-398); `PredictionWhole` fails.
* A reload during a `save_bundle` onto the served file serves a mix of two models until
  the next reload; without its hypothesis `Renamed`, `PredictionWhole` fails.
* A request that waits exactly the seconds of Retry-After is refused again, to retry
  after 0: a window is replaced when the clock is beyond its end (781), not at it. The
  document promises `Retry-After` (CHANGELOG.md:134); `RetryHonoured` says what it is
  worth.
* A window lets `LIMIT - 1` requests through: the one that brings RateLimit-Remaining
  to 0 is refused with those after it (783-786), and with a limit of 1 none passes.
  `NWX_RATELIMIT="LIMIT,WINDOW_SECONDS"` (CHANGELOG.md:134) suggests `LIMIT`;
  `SlidingBound` counts `LIMIT - 1`.
* "One SSE event per row" (docs/SSE.md:7) is not what a model gives that is as wide as
  the matrix, such as that of the example [[0,1],[1,0]] (docs/SSE.md:5): the columns
  are counted by the commas (813), one too few, so that the product asserts
  (`tensor.cpp` 52) before the first event or, without assertions, reads other
  numbers; a matrix of one column loses a row, and gets a 400 behind the 200 header
  when it is its only one. `MatrixFits` says so.
* A SIGTERM ends the process while handlers are at work (936), although CHANGELOG.md:24
  lists "graceful shutdown"; `EveryoneAnswered` makes an exception of `g_stop`.
* `Kinds = {"get", "longline"}`: an overlong CSV line is answered, its socket
  closed, and the request answered again on that number (902, 908); `OneOwnAnswer`
  fails.
* `Kinds = {"get", "badstream"}`: a streamed body that is refused is refused behind a
  header of 200 (798, 803, 817); `OneOwnAnswer` fails, and `Streamed` has both codes.
* A request can end the process for everyone: a Content-Length that is no number
  (863), rows that do not fit the model in a build with assertions (`tensor.cpp` 52;
  others read beyond the row, as 911 does for a row shorter than the first), and a
  client that leaves before its answer (SIGPIPE). No document excludes it;
  `EveryoneAnswered` makes an exception of a process that has ended.
* A write of `save_bundle` that fails is not seen: the run reports a saved bundle and
  exits with 0 (`bundle.cpp` 48; `WriteFails` of `Pipeline`). The file loads without
  its scaler or with nothing; `ScaledAlike` and `TemperatureStored` are of sound files.
* `Labels` of the four rows of `examples/xor.csv` with a quarter held out: no class
  is large enough to give a validation row, and patience is ignored;
  `PatienceHonoured` fails.
* Two calls outside `Private` at a time: a gRPC call can be answered with the rows
  of another; they are the calls `OwnRows` leaves out.

Of the arithmetic the modules leave out, these came to light while reading it:

* `/predict` divides the logits by the temperature (914), `/predict/stream` does
  not (822).
* `/signature` gives the columns of `W1`, its hidden units, as `input_dim` (705), and
  `nwx_prof` makes rows of that width (`prof.cpp` 20).
* The loss and accuracy `nwx` prints first are of rows that were not scaled, whatever
  the weights were trained on (`main.cpp` 167).
* The histograms of `/metrics` drop values above the last bucket, and print each
  bucket alone where the format adds up (726-728, 928).
* `roc_auc.hpp` and `calibration.hpp`, which four programs include, do not exist.

## 4. Fairness

* `HotReload`: weak fairness of the accept loop and of each handler, since
  `accept` and `recv` return within `SO_RCVTIMEO` and the scheduler runs every
  thread; strong fairness of taking `bmtx`, since a thread that finds it free
  again and again gets it. A `send` of a short answer is assumed not to block.
  The signals, the deployments and the clients are under no fairness.
* `Connections` (`FairSpec`, in `connections` and `connections_silent`): weak fairness
  of the accept loop and of each handler, which steps or ends the process, with strong
  fairness of accepting each waiting connection: the backlog is a queue, and a loop
  that comes back to `accept` takes from it. Nothing makes a client connect or leave,
  or a send to one that left end the process: it may also go through.

All other runs state safety only.

## 5. Proofs

`tlapm` checks every leaf. The assumptions are those the modules name.

* `HotReloadProof`. `TypeCorrect` holds for every way of deploying. The others
  assume `~Encrypted` and are about bundles deployed by rename (`Renamed`, which no
  step changes); without either they are false.
  The statements are not inductive: the proof carries `IInv`, which adds that `bmtx`
  is held exactly by the thread inside its critical section (`LockInv`), that
  deployed files are whole (`DiskInv`), that the model is whole except between
  `Set1` and `Set2` (`ModelInv`), that a reload in progress has opened a file no
  older than the model (`LoadInv`: this is where holding the mutex from `Open` to
  `Set2` matters), what a program counter says of its route (`RouteInv`), and how
  `seen`, `floor` and a copy relate to the model (`HistoryInv`).
  `PredictionsWhole`, `ReloadsFresh` and `ReadsMonotonic` prove the invariants
  `PredictionWhole`, `ReloadFresh` and `MonotonicReads`, `ModelNeverGoesBack` proves
  `NoRollback`, and `ImplementsRegister` maps initial states and every step to
  `ModelRegister`.
* `ConnectionsProof`. For any clients, descriptors, limit and kinds: `TypeCorrect`,
  and `LimitHolds` (`ConcurrencyLimit`), because `active_conns` counts every
  thread that was ever started (`Counted`). For kinds that answer at most once
  (`Single`; without it the statements are false): `EachGetsItsOwn`
  (`OneOwnAnswer`) and `CountersKeepUp` (`AnswersCounted`). The first carries
  `Owned`: while someone still means to use the number `fdOf[c]`, the table gives
  that number to `c`, and the inbox of `c` is empty until the first send;
  so a number is never used after it was closed and handed out again. `AllFit` says
  that what a branch has still to do is all of one answer or the rest of a stream
  (`Streaming`), `Midway` that a handler is in such a rest, the header of which its
  client has got. The second carries
  `Books`: each counter is the number of clients whose handler has passed
  its line.
* `RateWindowProof`. For any limit, window, keys, requests at a time and staleness:
  `TypeCorrect`, `SlotsDiffer` (`OwnSlot`), `RetryAfterHonoured`
  (`RetryHonoured`) and `SlidingBounded` (`SlidingBound`). `Slots` says that whoever
  was let through has counted in the window it names. Each time that was
  announced is the end of the current window, or lies before its start (`Announced`),
  and of the current one as many were let through as it has counted, up to the quota
  (`Earned`); so a refusal after it has the quota of a whole later window behind it
  (`RefusedLate`), and a request let through at it has met a later window
  (`PassedAtAnnounced`). For the bound each request that was
  let through remembers when its window ends: it came while the window was open
  (`WithinWindow`), the ends of two windows of a key are further apart than a window
  is long (`WindowsApart`), and of one window no more than a quota was let through,
  nor more than its counter says while it is the current one (`Quota`); so a
  span that short meets two windows at most. With a limit of 1
  nothing is ever let through, which `RetryHonoured` admits.
* `RateLimitProof`. `BucketBound` for every rate, burst and length of time, from
  `Conservation`: the tokens left and those given out since the mark together
  are at most what the bucket held and what time added. `ImplementsBucket`: with one
  request of a key at a time, initial states and steps of `RateLimit` map to those
  of the bucket. `Visit` says what the request knows of the bucket at each of its
  steps; each step is then shown to be a visit or to change nothing the bucket
  has. `CodeBound` proves `RateBound` of the code itself, from the same account with
  what is still to be stored (`Account`). With two requests at a time
  `rate_limit_race` refutes the bound.
* `TrainingProof`. `BestLossKept`, `EarlyStopReturnsBest` and, when a row is held
  out, `PatienceEndsTraining`, for every dataset, configuration and set of
  losses, from `StopInv`: `best_val` is the loss of the epoch `bestAt`, `best` its
  weights, and `bad_epochs` the number of epochs since. `EpochCoversRows` and
  `TypeCorrect`, from `CInv`: `order` is a bijection onto the training rows, and the
  batches so far have counted exactly those at the positions below the next
  batch.
* `SharedForwardProof`. `CallsGetTheirOwnRows` for every number of calls and
  messages, from `OwnLayers` (the member a call reads next was
  computed from its rows) and `Excluded` (overlapping passes are recorded).
* `PipelineProof`. For any paths, datasets, splits and number of runs: `TypeCorrect`,
  `ErrorsWriteNothing`, `PredictionsScaledAlike` and `CalibrationHeldOut`, from
  `Course` (what each stage of `main` knows of the ones before), `Written` (which
  files differ from those at the start of the run), `Scaled` (a sound file and the
  model in memory keep the scaler their weights were trained with) and `Apart`
  (weights that began fresh know the training rows of `X` only).
* `AlgorithmsProof`. The invariants of `Algorithms`, for every input that
  `InputsAssumption` allows, not only those the run enumerates. What `CallsTyped`
  knows of a call reduces each to a statement about a function, and the functions
  are loops: folds and recursive functions. Induction comes from the well-foundedness
  of the strict subset ordering (`SetInduction`), and `FoldExists` and `FoldPrefixes`
  give what a fold is on every prefix of its input; then each loop gets the
  invariant a proof of the code would give it.
  - `FoldsPartitioned` (`FoldsPartition`), from `FoldsCover`, `FoldsDisjoint`,
    `FoldsEven` and `EveryPartition`, for every permutation of any number of rows and
    any number of folds. The arithmetic is taken as unbounded, where `f*rows` of an
    `int` overflows for large data.
  - `MatrixAlwaysFits` (`MatrixFits`): `Position` is what the scanner has counted at
    each character of a matrix, `ScanPosition` says the scan is there wherever the
    body is cut, so that the rows it has counted are those whose events may follow;
    that `/validate` and `/predict/stream` agree holds of any body, because no row
    is counted without columns.
  - `CutRowsAlwaysRead` (`CutRows`) and `TablesAlwaysRead` (`CheckedTables`), for
    texts of any characters: `GoesOn` relates what `getline` has made of a text to
    what it had made of a part of it, `Almost` the pieces of the two, `RowsCut`
    their rows; `StodPrefix` says that a cell that is cut is a part of the number.
    Lines that are too long are passed over as empty ones are (`BodyLines`), in the
    whole text and in the part alike but for the last of the part.
  - `CountsAlwaysAgree` (`CountsAgree`): the sums over classes count the rows by
    their prediction (`SumOfCounts`), and what F1 has charged to each class after a
    row is what the confusion matrix has of the rows so far.
  - `BundlesAlwaysRead` (`BundleReads`): what is in each place of the file, with and
    without a scaler, hence what `load_bundle` finds in front of each cut, and which
    of the means and deviations are still the zeros and ones it has put there.
  - `ConfigsAlwaysRead` (`ConfigReads`), for any members and spacing: `Passes` says
    that a text leads the scanner from one state to another and may end anywhere on
    the way, whole or cut within a word. Ways can be joined (`PassJoined`), so the
    text is a chain of tokens, gaps and texts in quotes (`MemberPasses`), and the
    chain an induction over the members (`ConfigPasses`), behind each of which the
    scanner holds the last members of each name (`LastMembers`).
  - `ProductsAgree` (`SameSums`): each of the nested loops of the product has, when it
    ends, extended the elements of its block by exactly the products up to its bound
    (`Filling`), so the two orders of the loops give the same sequence of terms.
  - `FillAlwaysMode` (`FillIsMode`), over `SortedRanked`: a k-th value exists, is
    the only one and the values go up. `ScanKnows` is what the scan of
    `most_frequent` holds inside a run of equal values, `RunCompleted` what it holds
    at its end. For what is written, `Shortened` is the loop's invariant in
    `Decimal`: head and unit give the number but for less than a unit, and no digit
    is dropped that is not needed.
  - `BinsAlwaysBalanced` (`BinsBalanced`): the rows in the bins before a cut are those
    of rank up to its position (`BinsFilled`), and the positions are quotients that
    grow by one of two neighbouring steps (`CutsEven`).

  `InputsAssumption` is what the callers guarantee: characters are `char`s, the rows
  of a data set have one length, `std::iota` numbers the rows that are shuffled, a
  label is a class, a column has a cell, and `has_scaler` is a flag. A configuration
  is one that can be written at all: texts without quotes, which the reader cannot
  escape, numbers that `std::stod` reads to their end, and white space between the
  tokens.

Only model-checked: `HupApplied`, `HupRepairs`, `Answered`, `EveryoneAnswered`
(liveness is beyond the prover). Every invariant of the passing runs has a theorem.

## 6. Not modelled

Headers, Content-Length and inflating of requests, TLS, tokens and JWT (string
comparisons and OpenSSL; their outcomes are the kinds `denied` and `silent` of
`Connections`), telemetry (never called), the batching queue (declared, never
used), the histograms of `/metrics`, the quotients and sums of the metrics,
gradients, optimisers and element-wise operations (arithmetic on doubles),
quantised weights (computed, never read), CUDA and encryption (calls of
libraries), `nwx_bench`, `nwx_prof`, the bindings and SDKs. `BundleFile` takes
dimensions for opaque fields: that matrices of a cut file do not fit each other
is not told apart. `Tensors` does not know whether the compiler contracts a
multiplication and an addition. Data races on containers (`buckets` rehashing,
`allowed_tokens`, `lat_buckets`) are undefined behaviour of the container and get
no outcome. `--eval`, `--activation`, `--lr_schedule`, `--warmup_steps` and
`--clip_norm` are read by nothing.

## 7. Plan

In the order of importance; all but the last are done.

1. `ModelRegister`, `HotReload` and its proofs.
2. `Connections`, proved.
3. `RateWindow`, proved.
4. `TokenBucket`, `RateLimit`; the bucket and the refinement proved.
5. `Training`, proved.
6. `SharedForward`, proved.
7. `Pipeline`, then the tools in it, proved.
8. `Readers`: the scanner of `/validate` and `/predict/stream`, the rows of
   `/predict`, tables and their check, proved.
9. `BundleFile`, proved.
10. `CrossValidation`, `Counting` and `Tensors`, proved.
11. `ColumnStats`, `FlatJson`, and `Algorithms` over all, proved.
12. Left: a handler's whole path through limiters, reload and counters, with the
    components as instances; the histograms of `/metrics`; the outcome of
    authentication from its parts.
