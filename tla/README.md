# A TLA+ development for jepa.cpp

jepa.cpp runs joint-embedding predictive models (image and video encoders, an
action-conditioned world model, LeWM, a hierarchical planner) from GGUF files:
a C++ library behind a C API, command-line tools, an HTTP server that batches
requests, a Python binding, and the scripts that convert checkpoints, measure,
and publish. Much of its volume is floating-point arithmetic. This project is
about the rest: the control that decides *which* arithmetic runs, on whose data,
in which order, on which thread and on which objects, and which files its
results end up in. There an error gives plausible numbers or a rare crash that
a parity test on one machine does not show.

Paths below are relative to the repository.

## 1. Inventory

### The system's parts

| part | source | state it keeps | operations | hard behaviour |
| --- | --- | --- | --- | --- |
| Request engine | `tools/jepa-server.cpp` 340-785, 1206-1500, 1560-1631 | queue, idle list, per-worker slot, `stopping`, per-request `Job` with `pending` | submit, wait, finish_one, dispatcher loop, worker loop, shutdown | five kinds of thread, three kinds of mutex, raw pointers to stack objects, order of notify and unlock, shutdown by convention |
| Start-up, options | same, 790-1190, 1500-1615 | options, contexts, threads | clamp, load, bind, signal | early returns with threads running; a signal before `listen` |
| Request parsing | same | none | JSON, base64, confinement of local files | one thread, no state |
| Metrics, guard | same, 230-345, 1206-1240 | counters, histograms, gauges | observe, render | `jepa_queue_depth` is written by two threads and is stale between |
| HTTP server | `third_party/cpp-httplib` (vendored) | connections | listen, stop | stop before listen does nothing |
| Contexts, graphs, encoding | `src/jepa.cpp`, `src/jepa-internal.h` | last error, graph, allocator, `last_batch`, per context; the accumulation flag, per thread | begin, validate, compute, encode image/video | a batch cut into graphs by a cap and a memory limit, strided gathers, failure between two graphs, a thread-local |
| V-JEPA 2-AC planning | `src/vjepa2_ac.cpp` | cached context: slab of latents, states, actions, count | create, update, trim, rollout, CEM | four arrays shifted together with different lengths; a view re-pointed in place; strided candidate buffers |
| Hierarchical planner | `src/hjepa-plan.cpp` | per call: upper plan, flags carried between levels | horizons, plan, solve | schedules computed apart from the loop that relies on them; flags that survive an iteration |
| Hierarchical model | `src/hjepa.cpp` | none beyond the context | bind, encode, predict per level | which tensors a level needs depends on five of its settings |
| GGUF loader | `src/jepa-gguf.cpp` | model: file, backends, buffers | load, free | hundreds of names depending on metadata; a dozen early returns at different stages |
| Predictor, LeWM | `src/predictor.cpp`, `src/lewm.cpp` | none | graph building | numeric |
| Preprocessing, RoPE | `src/preprocess.cpp`, `src/rope3d.*` | none | pure functions | numeric |
| Python binding | `python/src/jepa_cpp/model.py` and neighbours | two handles, a re-entrant lock, the thread's error text | construct, every method, close | ctypes releases the interpreter lock; callbacks re-enter; `close` from anywhere; one error buffer per thread |
| Python client | `python/src/jepa_cpp/client.py` | none | one HTTP request, no retry | a request given up that the server still answers |
| Conversion | `scripts/convert.py`, `scripts/jepa_convert/` | the keys consumed, the tensors to write, the output file | read, take, add, check, write | eight converters and a loader that must agree on names; optional tensors |
| Release | `scripts/hjepa_batch.py`, `scripts/hf_publish.py` | GGUFs, dumps, the parity JSON, repositories on the hub | run, upload, check | long commands killed or failing half way; files rewritten in between; commits that are not atomic together |
| Accuracy benchmarks | `scripts/bench_accuracy_{ssv2,image,video}.py`, `video_frames.py`, `knn_eval.py` | frame caches, lists, feature and logits files, artifacts | frames, lists, torch, cpp, eval/report | hours of encoding re-used later against lists that may have changed |
| Load test | `scripts/bench_server.py` | client threads, tallies, the server's counters | sweep, warm, drive, control | threads and counters compared over a window; a server that dies |
| Benchmark document | `scripts/gen_benchmarks_md.py`, `bench_all.sh`, `bench_gpu.sh` | sweeps, two artifacts, a document | load, merge, join, render | partial sweeps merged row by row; three outputs written one after another |
| Tools, frame sampling, dumps, figure | `tools/`, `scripts/dump_reference.py`, `gen_results_figure.py`, `jepa_convert/selftest.py` | none | sequential drivers | none |

### How they interact

* A connection's thread builds a `Job` with its `Task`s **on its own stack**,
  passes raw pointers to the engine (`submit`), sleeps on the job
  (`Job::wait`) and builds the answer from the tasks.
* The dispatcher takes the oldest task, adds those that fit with it, may hold
  the batch open until a deadline, and moves it to the slot of an idle worker.
* A worker takes the slot, runs the library on its own context, releases each
  job (`finish_one`), puts itself back in the idle list and wakes the dispatcher.
* `main` returns from `listen` after a signal, when httplib has joined its
  handlers; it then stops the dispatcher, the workers, frees contexts and model.
* A planner of the library, or of a client, keeps an AC context: frames go in
  with `update`, old ones out with `trim`, and every rollout of every CEM
  iteration reads the frames that are left through one view.
* An agent asks the hierarchical planner for horizons, passes them back with the
  call, executes `interval` steps, and asks again.
* Python's `Model` owns one `jepa_model` and one `jepa_context`; the C
  contract (`include/jepa.h` 613-646) wants a context on one thread at a time and
  nothing in use when its model is freed.
* A converter writes the file whose metadata tells the loader which tensors to ask for;
  `hjepa_batch run` verifies files against reference dumps and records verdicts,
  `hjepa_batch upload` publishes by those verdicts, `hf_publish` publishes the other
  models and the dumps both scripts share.
* The benchmark scripts talk through files: a stage reads what earlier stages left,
  whoever ran them and with whatever options.

### What makes each part correct

* Engine: no thread touches a `Task` of an answered request; every task is in one
  place and counted once; every request is answered, and with its own results; no
  wakeup is lost; batches are ones a graph can run; service is first come first served;
  shutdown ends, strands nothing and frees nothing in use.
* AC context: after any calls the handle *is* the last n frames, with the poses and the actions
  taken at them, and the rollout reads exactly these.
* AC rollout: each predictor call gets the right frames, actions and poses for every
  candidate, and the output rows are those documented.
* Hierarchical planner: the schedules never make a call fail, the levels end from the
  top, each level aims at what the level above predicts in the same call, and at the
  real goal exactly when it should.
* Encoding: however a batch is cut into graphs, each task gets all rows of its own pixels or an
  error; graphs keep to the limits; the output is freed once, or lost with an exception that every task reports.
* Python binding: graph calls are serialised and on live handles, each handle is freed
  once, an exception quotes its own call, nothing deadlocks.
* Conversion: what is written loads; no tensor is left out silently.
* Release: only verified bytes are published; `check` is right; an upload settles what it says.
* Benchmarks: a figure is of the data it is labelled with; counts are of their own window;
  merging loses and invents nothing; two backends' disagreements add up.

`PROJECT.json` lists the hazards behind these at their lines.

## 2. The modules and the code

A definition's lines in the code are in `PROJECT.json` under `map`. Operators whose names
carry a suffix after `_` (`Erase_HeadOnly`) are *mutants*: the same step with a
plausible bug. They are used by nothing; substituting one for its original has
to break the property named beside it in `PROJECT.json`.

| module | stands for | composed or run by |
| --- | --- | --- |
| `ServeContract`, `ServeEngine` | the server's engine, and what it promises | `MCServeEngine` |
| `ServeEngineProofs` | proofs about it and its contract | |
| `SlidingWindow`, `AcContext`, `AcProofs` | the cached planning window, its promise, the proofs of both AC modules | `MCPlanning` |
| `AcRollout` | one rollout of V-JEPA 2-AC | `MCPlanning` |
| `HjepaHorizons`, `HjepaPlan`, `HjepaPlanProofs` | the hierarchical planner, the proofs | `MCPlanning` |
| `PyModel`, `PyModelProofs` | the Python `Model`, the proofs | `MCPlanning`, `MCPyModel` |
| `EncodeBatch`, `EncodeBatchProofs` | a worker's batch through the library | `MCEncodeBatch` |
| `TensorRows` | what a converter can do to tensors | the next four |
| `ImageCheckpoints`, `VideoCheckpoints`, `HjepaCheckpoints` | the eight families' converters | `Converters` |
| `GgufLoad` | what the loader asks of a file | `Converters` |
| `Converters`, `Convert` | the dispatch over families; one conversion of a checkpoint | `ConvertCases`, `MCRelease` |
| `HjepaBatch`, `HfPublish` | the two publishing scripts | `MCRelease` |
| `ReleaseProofs` | proofs about conversion and both publishing scripts | |
| `SortedLists` | a list of files or clips in the order of their names | the sweeps |
| `Ssv2Sweep`, `VideoSweep`, `ImageSweep` | the three accuracy sweeps | `MCMeasure` |
| `KnnEval` | scoring features and explaining disagreements | `MCMeasure` |
| `Benchmarks` | sweeps, artifacts and the document | `MCMeasure` |
| `MeasureProofs` | proofs about the sweeps, the scoring and the document | |
| `LoadTest`, `LoadTestProofs` | the load test, its clients and a server, and the proofs | `MCMeasure` |

`MCPlanning`, `MCRelease` and `MCMeasure` put several components that share no state under
one specification: a variable `which` says, from the initial state on, whose behaviour this
is, and the others' variables stay as they were. So a run covers each of them over its full state
space and the product of them is never built. All three extend
their components, so a property is checked under the name, and of the definition, that the theorems are about; this is
why the components keep their names apart (`RolloutInit`, `PlannerNext`, `PySpec`, `BatchInit`, `PublishSpec`, `VideoNext`). Where components do share state the composition
is in the modules: `HfPublish` has the other script's upload to the common dataset as an action of its
environment (`BatchUpload`), and `Convert` hands the written file to `GgufLoad`.

### 2.1 `ServeEngine`: the request engine

One action per **critical section or notification**: whatever happens between locking
and unlocking a mutex is one step, a notify after the unlock is a step of its own, and
so is everything a thread does without a lock that others can observe.

| code | model |
| --- | --- |
| handler: parse, `guard`, `submit`, `notify_one`, `wait`, answer | `HandlerReceive`, `HandlerRefuse`, `HandlerSubmit`, `HandlerNotify`, `HandlerCheck`, `HandlerReply` |
| `dispatcher_main` | `DispatcherExit`, `DispatcherSleep`, `DispatcherPick`, `DispatcherWoken`, `DispatcherTimeout` (with `TakeCompatible`, `Hold`, `Close`), `DispatcherGive`, `DispatcherWake` |
| `worker_main` | `WorkerSleep`, `WorkerExit`, `WorkerTake`, `WorkerRun`, `WorkerFinishOne`, `WorkerRetire`, `WorkerNotify` |
| `on_signal`, end of `main` | `Signal`, `MainStop`, `MainNotify`, `MainJoinDispatcher`, `MainFlag`, `MainWake`, `MainJoin`, `MainExit` |
| condition variables | `WokenDispatcher`, `WokenWorker`, `SpuriousWakeup` |

Abstractions. A task is a model value of its client with a *form* (an encode of some shape,
or a rollout): `groups_with` and the batch cap see nothing else. The deque is the set of
queued tasks with a relation `ahead` (who was queued before whom), which makes states with
the same order equal; the idle list is a set, because which of the idle workers is
popped changes nothing else. A run gives each of its tasks a result or a failure, in any combination
the code can produce. Of the metrics only the gauge is kept. Requests on connections that
httplib had already accepted when it was stopped are still served; `MaxLate` bounds them.

`ServeContract` is the abstract specification: a client's request is received,
refused or accepted; each of its items is run exactly once by some worker and fails or succeeds;
the answer is given when all have ended and is an error exactly if one failed.
It has no queue, no batch, no wakeup and no dispatcher. `ServeEngine` implements it
(`ImplementsContract`) under a mapping that forgets the machinery: `CallNow`, `StatusNow` and `OnNow` read a client's call, a task's
fate and its worker off program counters, places and results, `DoorNow` whether new requests are let in.

### 2.2 `AcContext`, `SlidingWindow`, `AcRollout`: V-JEPA 2-AC planning

`AcContext` models `jepa_ac_context_*`: the handle's capacity, frame count, the slots of the slab,
the poses and the actions, and the view. A frame's latent, its pose and the action taken at it
are identified by the time the frame was observed, so that a mixed-up copy shows. Every
refusal of the code (no room, wrong counts, trim to more than there is) is an action that leaves
the handle as it was. `SlidingWindow` is what the header promises: a sequence of frames,
appended to at one end and cut at the other. `AcRollout` models one rollout with several
candidates: the history, the planned actions, the buffers with the stride of the
last step, the repacking before each predictor call, and the rows of the output.

### 2.3 `HjepaHorizons`, `HjepaPlan`: the hierarchical planner

`HjepaHorizons` holds the schedules as functions of the settings: each level's is computed from the
one above it, by a recursive function from the top down, as the loop of `jepa_hjepa_horizons` does. `HjepaPlan` is an episode: `Horizons`
and `PastBudget` (`jepa_hjepa_horizons`), then the loop of `jepa_hjepa_plan`, one action per way
through its body (`Skip`, `PlanFree`, `PlanUnder`), then the caller's `Act`. A goal is either
the real one, encoded at some level, or the i-th state that level l predicted *in this call*.
The solver is abstracted to a plan of the horizon it was given.

Settings are the caller's. `Matched` says which of them fit together; it is a precondition
of the properties that say no call fails or plans in vain, and of nothing else: about a sixth of the
enumerated settings satisfy it, the others exercise the refusals.

### 2.4 `PyModel`: the Python binding

Every method of `Model` is a sequence of **sections**, as the code is: read a handle and call the
library without the lock (`model`, `context`), the same with an error text (`frame`), under
`self._lock` (`graph`), and under it with the caller's `randn` inside (`plan`). `Sections` spells out
each method. ctypes releases the interpreter lock around library calls,
so a step of another thread may come between any two steps here. Each thread has a stack of calls;
a callback may push another call of the same `Model`, which enters the re-entrant lock again.
The error text is what the library keeps per thread: reset before a call of a section that
reports, appended to by a failing call, read afterwards. The constructor may fail before or after the
model is loaded; `close`, `__exit__` and `__del__` are one call, from any thread.
`InCallback` is what callbacks may call; `close` is not in it (see section 6).

### 2.5 `EncodeBatch`: a worker's batch through the library

Several workers, each with a context of its own, take a batch through `run_encode_batch`
(`tools/jepa-server.cpp` 457-520), `jepa_encode` and its image and video paths (`src/jepa.cpp`
660-750, 935-1030, 1184-1220) and back. A *plane* (channel c of frame f of task i) is
the unit of the input, a *row* names the planes, the token and the accumulation it was
computed with, so that a gather with swapped dimensions, a wrong base or a leaked setting shows.

| code | model |
| --- | --- |
| joining the pixels, entering `jepa_encode` | `Encode`, `BadShape` |
| the loop that halves the items of a graph, the refusal | `Shrink`, `TooLarge`, `Fits` |
| `malloc` of the output | `Malloc` |
| gather, `jepa_graph_begin` with its thread-local | `Begin` (`Item`, `Slice`, `Clip`) |
| build, validate, allocate, compute, copy rows | `GraphFails`, `Compute` (`Row`) |
| `last_batch`, cutting up the rows, `free` | `Finish` |
| every failing path: `free` in the library and again in the worker | `Fail` |
| a vector that cannot be allocated: `worker_main` catches the exception (711-728), past every `free` | `Throw`, `ThrowInFinish` (`Caught`) |

An item's memory is a cost, the limit a budget in its unit. `prec_f32` and `max_batch` are settings of a
context and any combination is enumerated: the server gives all its contexts the same, a program that uses
the library directly may not, and only then would a shared accumulation flag show. Pooling and the heads are one
outcome of a task, failed or not.

### 2.6 `Convert` and its tables: from a checkpoint to a file that loads

`TensorRows` says what a converter does as a set of **rows**: the source tensors a row
takes, the tensor it makes of them, and how it may be stored (copy, fuse q/k/v, fold a BatchNorm,
fold two linear layers). `ImageCheckpoints` (I-JEPA, ViT, LeWM), `VideoCheckpoints` (V-JEPA 2, 2.1, 2-AC,
LeVJEPA) and `HjepaCheckpoints` give, per family, the rows for a configuration and a checkpoint, what
it refuses, what it consumes on purpose (`Drops`), what it tolerates as left over, and the metadata keys
it writes. A tensor's name is its module, layer, role and parameter; the frameworks' spellings of the roles are left out.

Where a converter reads a number off the checkpoint rather than the config, so do the tables: the depth of an H-JEPA
ViT is the number of its layers' first norms (`HjepaDepth`), and may come out as 0.

`GgufLoad` is the other side: which tensors the loader and `jepa_hjepa_bind` ask for given those keys,
and which must be F32. `Convert` is one run of `convert.py`:
`ReadCheckpoint`, `AddTensors`, `WriteHeader`, writing and closing, with refusals and a kill at any step over an
older output file. The two sides are written from different sources (Python and C++), so that
`WrittenFilesLoad` compares them.

### 2.7 `HjepaBatch` and `HfPublish`: publishing

A file's bytes are a member of `Contents`, so equal contents are equal SHA-256 sums. `HjepaBatch` has
`run` (per checkpoint: download, convert, dump, quantize, verify, save), with what is in memory
apart from what is on disk, and `upload` (dataset, card, files, dumps). `HfPublish` has
`upload` and `check` step by step; an artifact the cards quote is a version number in the working
tree and one in the last commit. `hjepa-parity.json` is replaced in place: a kill inside the write leaves `CutJson`, which ends every
later `run` and `upload` until somebody deletes it (`DropJson`), and with it the verdicts. An upload adds files to a repository
and removes none (`Sent`). `Reconvert`, `Redump`, `Remeasure` and `Commit` are what people do by hand in between;
`Kill` and `Abort` end a command at any step. The history variable `quiet` is true while nothing but the running
command has changed anything since it began: `check` and `upload` can promise nothing about a moving target.

| code (`hf_publish.py`) | model |
| --- | --- |
| `build_context`, `write_cards` | `BuildContext` (commit and sums, in `StartPublish` and `StartCheck`), `WriteCards` (what the artifacts say, later) |
| `cmd_upload` | `PublishCard` and `UploadFolder` per model, `UploadDatasetCard`, `UploadRefs`, `FinishPublish` |
| `cmd_check` | `CheckFiles` and `CheckCard` per model, `CheckRefs`, `CheckDatasetCard`, `FinishCheck`; a call without an answer is `Unanswered` |

### 2.8 The measuring scripts

All of them are processes over files, so one action is one write (or one read of the inputs), and a kill comes
between two of them or **inside** one. Only frame tensors are renamed into place; every other file of the accuracy sweeps is written over, and a kill
leaves it torn (`Half`, `HalfFeats`, `HalfFile`): reading a JSON or a matrix raises then, and a list of paths may have lost its end. A feature or logits file is modelled as **the sequence of the clips or images its rows were
computed from**, so a figure scored against the wrong list shows as two different sequences.

* `Ssv2Sweep`: `frames` with and without `--limit` (decode one clip after another, then the index), the cache deleted and rebuilt,
  `lists`, `torch`, `cpp`, `report` (the old artifact is read, then written over). What no file tells is in a history variable `past`: which clips
  an index ever listed, whether one was written without some of them, and whether the cache has tensors of a pass killed before its index. `VideoSweep`: the frame cache of `video_frames.py` with any `--splits`, deleted and rebuilt, `lists` (order, then listing),
  `torch` with and without the predictor and with `--limit`, `cpp`, the SSv2 head, `report`.
  `ImageSweep`: the splits as functions of `--seed`, `--per-class` and `--limit`, one pass per
  (model, backend, type, split) with its cache test, one save per feature, `eval`. `drawn` and `asked` are the seeds and the split lists used so far.
* `KnnEval`: a feature is its similarities to the gallery; `argpartition` breaks a tie at the k-th place
  as it likes, and so does the model. `Evaluate` counts agreement, `Explain` goes through the
  disagreements one at a time as `_explain_flips` does.
* `LoadTest`: the main thread per cell (start server, warm up, start threads, barrier, join, read the counters, control, stop),
  the client threads, and a server that serves, refuses, serves late and dies. Rows carry the figures
  and the percentile over them. A window without a single answer ends the script, because the control line formats a
  percentile that is `None` (`bench_server.py` 266, 308; not among the exceptions of 489-490): `Control`. `SkipSweep` is
  a section the options leave out.
* `Benchmarks`: CPU and GPU sweeps of one process per file, `--keep` and `--only`, then one call of
  `gen_benchmarks_md.py` with the flags the shell scripts pass: load, merge, join, and its outputs one after another.

## 3. The runs

| run | question | instance | states |
| --- | --- | --- | --- |
| `engine_safety` | can any interleaving lose, double or dangle a task, lose a wakeup, form a wrong batch, strand work at shutdown? | 2 clients of up to 2 items, 2 workers, 2 shapes, `MaxBatch` 2, 1 late request | 2.2 million |
| `engine_liveness` | is every request answered while others keep coming, and does the process end? | 1 worker, 1 shape | 161 thousand |
| `engine_contract` | does the engine implement the contract? | 2 clients of up to 2 items | 440 thousand |
| `planning` | is the handle the sliding window, does a rollout condition every candidate on its own history, do schedules and planning fit together over an episode, are handles safe and calls live when threads share a `Model`? | window: 3 slots, 6 frames, horizon 2, 2 contexts; rollout: 3 candidates, 3 seed frames, 4 steps, 5 slots; planner: 3 levels, episodes of 1, 3 and 6 calls; Python: 2 threads of 3 calls | 300 thousand |
| `encode_batch` | does every task get its own rows, however the batch is cut and whatever fails? | 2 contexts, up to 2 tasks of up to 2 frames, 2 channels, 2 tokens, caps 3 and 4, limits 1 and 3, costs 1 and 4, images and videos, an exception at every allocation | 5.1 million |
| `release` | does what is converted load, with nothing dropped; is only verified content published; is `check` right; does an upload settle? | conversion: every configuration of eight families, checkpoints whole, with a tensor missing, with one too many; `hjepa_batch`: 2 checkpoints, 2 types, 3 commands; `hf_publish`: 2 models, 4 commands or changes | 2.8 million |
| `measure` | are figures of the data they are labelled with; do counts, merges and disagreements add up? | SSv2: 2 clips, `--limit` 1 or none, 4 runs, 6 stages; images: 2 classes of 4, 2 models, 2 seeds, 3 runs; video: 3 clips, 3 split lists, 6 stages; load test: 2 sweeps, 4 requests; document: 2 shapes, 2 thread lists, 3 sweeps; k-NN: 3 clips against 2 queries | 8.6 million |
| `engine_gauge` | (violated) is the gauge what its help text says? | 3 clients, `MaxBatch` 3 | 2 thousand to the violation |
| `encode_last_batch` | (violated) is `last_batch` the per-graph cap? | 1 context | 1 thousand to the violation |
| `py_free` | (violated) does no free overlap a use? | 2 threads | 70 to the violation |
| `hjepa_saved` | (violated) are the failures a run says it wrote in the file? | 2 commands | 380 thousand to the violation |
| `ssv2_decode_time` | (violated) does a report keep the decode time of the one before it? | the SSv2 sweep of `measure` | 1.9 million to the violation |

Why the bounds are enough:

* Engine. The interesting cases need two clients (one overtakes another, two requests in one
  batch), two items (a partial batch, `pending` above one), two shapes (incompatible
  neighbours), two workers (one running while another is given work) and a batch limit
  below the total. All of them occur: every action fires and each mutant is found.
  Symmetry of clients and workers is used in the safety runs only. The gauge
  needs a third task, to be gathered while a batch is held.
* AC. Trims of a full and of a partly filled window, several in a row, on two handles of
  one model need three slots and six frames. Three candidates, steps and seed frames are the least that
  tell a stride by step from a stride by candidate in a middle position.
  `Slots` and `PredictorSlots` are 3 and 5 here; a file may declare none, and then the first update fixes the
  window's capacity and a rollout has no limit. The proofs cover both.
* H-JEPA. Three levels have a top, a middle and a first level, which are the three cases of the
  loop; episodes of 1, 3 and 6 calls against horizons of 1 to 4 give
  fewer calls than horizons, as many, and more with a remainder. `FrameLimit` stands for
  `JEPA_LIMIT_N_FRAMES` (65536).
* Python. Two threads can close at once or compute beside a close; three calls each allow a call after a
  close and a callback inside a callback. The four methods cover every kind of section.
* Encoding. Two tasks of two frames are four items: a cap of 3 leaves a ragged last graph, a limit of 1
  halves 4 to 2 to 1, a cost of 4 is refused. Two frames and two channels are the least that tell the
  dimensions of the input apart, two tokens the least that tell rows from items, two contexts
  the least that show a shared accumulation flag. `CHECK_DEADLOCK` stays on: a worker can always
  encode again.
* Conversion. A config varies in everything its converter branches on, with one or two layers (none,
  where a part may be absent); the checkpoints tried are the one the config describes, each one with a
  tensor missing and each one with one tensor that does not belong.
* Release. Three commands of `hjepa_batch` are a verification, one that is killed or fails on another file,
  and an upload; two checkpoints make "the last one fails" differ from "all fail". Four of `hf_publish` are an upload, a change,
  a partial upload and a check.
* Measuring. Three video clips in three splits give two lists of one length and different clips ({train, val} and {train, test}), two SSv2 clips
  of which either may fail to decode give such lists as well, two seeds draw other images in the same number: these are what the re-use
  tests of the code cannot tell apart. Six stages are one pass over all of them and a repetition, or a report, a deleted cache, a rebuild
  that is killed and another report. A k-NN vote can tie at the k-th place with three gallery clips.
* `CHECK_DEADLOCK` is off where the number of calls, commands or stages is bounded, because everything then
  stops; that no Python call waits for ever is `EveryCallReturns`.

One restriction is a constant of the runs: `Rewrites = "idle"`, nobody rewrites a GGUF *while* `hjepa_batch` runs (with `"any"`, `PublishedPassed`
fails: files are summed for the card and read again for the upload). The others are written into the properties, because
the code leaves a case open and the runs reach it:

* `FullRowsAreTheirClips` holds as long as no index was written without a clip that an earlier one had (`past.forgot`); it is about the whole
  split. The rows of `sub10` and `sub100` are tested by their number too, and lists of different length can have subsets of one length.
* `NoMeasurementErased` lets a report lose a decode time only over a cache of which a killed pass decoded a part (`past.untimed`), which is the case
  `ssv2_decode_time` exhibits.
* `ScoresTheRecordedImages`: the seed is no part of a cache name and does not change the number of rows. A row is of the recorded images, or of what
  another seed that was used draws in their place, and of nothing else.
* `ScoresTheListedClips`: every row is, clip for clip, of one of the lists frames were decoded for; that it is the list it is scored with needs
  lists that start with one another (`Alike`), as the default `--splits` and its leading parts do.
* `WrittenFilesLoad` names its exception, `NoLayerFound`.

### Fairness

Engine: weak fairness of each handler, each worker, the dispatcher and `main`: an
operating-system thread that can run does. The dispatcher's timeout has weak fairness of its
own, because a deadline passes whatever else the dispatcher could do. Clients, the signal
and spurious wakeups are not fair; nothing depends on a client sending or on a
wakeup nobody sent. That a run ends is part of a worker's fairness: the library calls of
this code do not block. Python: weak fairness of each thread's steps, and strong fairness of `Leave`: a
planner draws its noise finitely often. No fairness of the lock is assumed. The scripts have none: their
properties are about what is true of the files whenever they stop.

### What the runs found

* `engine_gauge`: `jepa_queue_depth` is documented as "Tasks waiting for a worker
  right now." (`tools/jepa-server.cpp` 327). It is stored at submit and when a batch is closed
  (770), so while the dispatcher holds a partial batch it counts some of the tasks it has gathered
  and not others.
* `py_free`: the class documents that threads may share a `Model` safely
  (`model.py` 177-180), and the C contract forbids freeing a model that is in use
  (`include/jepa.h` 620). The properties and preprocessing take no lock, so `close` in
  another thread can free the model under them.
* `encode_last_batch`: the header says that `last_batch` is the per-graph cap "or less when the
  `$JEPA_MAX_GRAPH_MIB` memory guard shrank it" (`include/jepa.h` 541-543). The code lowers the cap
  to the number of images first (`jepa.cpp` 669), so a call with fewer images than the cap reports their
  number although nothing was shrunk.
* `hjepa_saved`: a checkpoint that fails to convert or to run through the reference is noted in memory
  and passed over before the only write of the results (`hjepa_batch.py` 134, 139, 161). If the last
  checkpoints fail, the file does not have them, and the command says it wrote them (163).
* `ssv2_decode_time`: "a pass that decodes nothing keeps the one it found" (`bench_accuracy_ssv2.py` 185-187), so that a warm cache does not erase
  the measured decode time. Once the cache is deleted with its index, a rebuild that is killed before its own index leaves nothing to find:
  run again, it decodes nothing, records 0.0 (194), and the next report publishes that from the live index (473-477) in place of the measured time.

### Limits of the code that no property states

Met while modelling; each is how the code behaves, and a property that says otherwise would be false.

* `bench_accuracy_ssv2.py`: a `frames` pass killed before it ends leaves an index of the pass before it; of the subsets' logits only the number of
  rows is compared; a torn `index.json`, `clips.json`, logits file or artifact stops the stages that read it until it is deleted.
* `bench_accuracy_video.py`: `report` needs the git-ignored `clips.json` although the comment near 1125 says its stages
  round-trip from the artifacts alone; in a partial work directory it replaces the artifact by fewer rows; features
  longer than the list are not told from stale ones; a kill between features and their JSON leaves the older
  timings; a second pass over a warm frame cache reports the decoding time of nothing; `_explain_flips` raises when
  the gallery has no more clips than `--k`, which `knn_predict` accepts; features over two `--splits` of one length are not told apart.
* `bench_accuracy_image.py`: the cache test is the number of rows and the seed is in no name, so features of another `--seed` are scored as those
  of this one, the "mismatch that only shows up as a wrong accuracy number" which the comment at 398-402 means to exclude; features do not notice that their GGUF was converted again; a smoke run with `--out`
  in `tests/results` overwrites `accuracy-image-splits.json` of the full sweep.
* `bench_server.py`: the percentile's rank is rounded half to even, so it can be one off; a skipped section
  overwrites the previous artifact's rows with none; one failed cell drops the rows of its whole sweep; the start-up
  deadline is not looked at while a line is read.
* `gen_benchmarks_md.py`: the GPU speed-ups are computed when the GPU sweep is joined and not again after a CPU sweep;
  a document rendered after a GPU sweep may show CPU rows that `benchmarks.json` does not have; the order of file names decides
  which of two measurements of a configuration wins; some tables are keyed without the batch.
* `hf_publish.py`: cards are built from the working tree, whatever is committed; `--fixtures` without names uploads the models too;
  a failed request to the hub is read as "not published".
* `jepa.cpp`, `jepa-server.cpp`: an exception after the output of an encode was allocated (the vectors at `jepa.cpp` 711-715 and 972-991, the rows at
  `jepa-server.cpp` 505 and 516) is caught by `worker_main`, and the output is never freed; the same is true of the pooled features and logits of
  the task in hand. `BuffersBalanced` says that nothing else leaks or is freed twice, and that every task of such a batch reports it.
* `hjepa.py` 146-147: the depth of the ViT is counted in the checkpoint. Without its first layer's norm it is 0, and with `--allow-unmapped`
  the converter writes a file without layers, which the loader refuses. The LayerNorm of a predictor projector (106-109, 375) is written and loaded, and no graph applies
  it; `docs/gguf-schema.md` 356-361 has no such tensor.
* `convert.py` 18-20 says that F16 files keep patch and action embeddings in F32; the writers of the video families store every
  matrix as F16.
* `hjepa_batch.py`: a kill inside the write of `hjepa-parity.json` (161) leaves a file that ends `run` and `upload` with an exception, and deleting it loses every verdict; card and files are separate commits; an upload that stops between them leaves a card ahead of its files
  until the next one (`HfPublish` has the same; `UploadSettles` says what a whole upload restores).

## 4. The proofs

TLAPS proves these for **every** value of the constants (any number of clients, workers, items,
shapes, connections, slots, frames, candidates, levels, calls, threads, checkpoints, configurations, clips, requests, caps,
limits), from the assumptions named in the modules: `EngineAssumption`, `WindowAssumption`, `RolloutAssumption`,
`PlannerAssumption`, `PyAssumption`, `EncodeAssumption`, `BatchAssumption`, `ConvertAssumption`, `LoadTestAssumption`,
`BenchAssumption`, `Ssv2Assumption`, `ImageAssumption`, `VideoAssumption`, `KnnAssumption` (`HfPublish` needs none). They type the
constants as the checks at the top of the C functions, the scripts' option parsers and the released configurations do (a
horizon, an interval, a number of subgoals, of layers or of requests in a cell is at least 1), keep values that mean
"none" apart from real ones, and make clients and workers non-empty and finite. TLC evaluates every one of them on the instances
of section 3.

One theorem has a hypothesis of its own, which the code does not enforce and its users do:

| hypothesis | theorems | what it says | otherwise |
| --- | --- | --- | --- |
| `Undisturbed` | `OnlyPassedIsPublished` | nobody rewrites a GGUF while `hjepa_batch` runs | a file is summed for the card and read again for the upload |

Without it the statement is false (section 3). The theorems about the sweeps have none: what the code leaves open is in the properties they state.

### Engine (`ServeEngineProofs`)

The properties are not inductive. `Inv` is, as a conjunction of
* `Shape`: the type invariant, that the idle list, the slots and the running batches name the workers
  they should (`NamedWorkers`), and which program counters a batch may be carried at (`Carriers`);
* `OnePlace`: queue, hand, slots and runs are disjoint;
* `Jobs`: a handler that waits has submitted the tasks its client owns, those not yet finished
  are in one of the places, and no other task of that client is;
* `NoDanglingTask` and `PendingCounts`: the goals, which need each other: `pending` is the number of
  tasks in the places, hence it is zero, and the handler released, only if there are none.

The proof has one lemma per conjunct, and under each one step per action that
can disturb it. `TypeCorrectness`, `NoUseAfterFree`, `OnePlaceAtATime`, `PendingIsExact` and
`HandoffOverwritesNothing` follow. A second part adds `Results` (a finished
task has a result or an error) and `Phases` (what has to be true of handlers, dispatcher and workers at each line of `main`'s
shutdown) and proves `ResultsBeforeReply`, `WakeupsAreNotLost`, `StoppingStrandsNothing`
and `ContextsOutliveRuns`.

### Engine: batches, order, contract (`ServeEngineProofs`)

`Batches` (every batch in hand, in a slot or running is non-empty and fit for one graph) and `QueueOrder` (`ahead`
orders the queue totally) are invariants on top of `Inv`. All three ways in which the dispatcher takes tasks are one step,
`Gathers`, from a first batch to a larger one; `GatherTakes` says what such a step takes: compatible tasks, first ones
first, up to the cap, all of them if there is room. From these `EveryBatchIsAGraph`, `ServiceIsInOrder` (no task overtakes one of its own form),
`GatheringIsDetermined` (two gatherings from the same state take the same tasks) and `BatchesGoOutFull` follow.
`EngineKeepsContract` is the refinement: under `RInv == Inv /\ Results /\ Phases /\ Batches`, initial states map to
initial states, and each action to a step of `ServeContract` (`Receive`, `Refuse`, `Admit`, `Start`, `Finish`, `Answer`, the steps of the door) or a stutter.

### AC context and rollout (`AcProofs`)

`Inv == TypeOK /\ Closed /\ Started /\ WindowIsRecent`: what a closed handle and one that was
never updated look like, and that slot i holds the i-th of the last n frames. `WindowTypes`,
`WindowHolds`, `RolloutsReadTheWindow` follow, and `HandleIsAWindow`: the handle implements
`SlidingWindow` (initial states map to initial states, each step to a step or a stutter).

The rollout's properties are about flat arrays. `RolloutInv` has `Control` (the counters, and that an accepted call has
room), `Filled` (a candidate's conditioning is right up to the frame the loop has reached, its observed poses are never
overwritten), `Kept` (the frames predicted so far lie in the tail and in the output at the candidate's own rows) and the
goal. `SlotInside` and `SlotsDiffer` say that rows of equal length laid end to end neither leave the array nor overlap;
`RolloutHolds` rests on them.

### Hierarchical planner (`HjepaPlanProofs`)

Two questions: what the schedules are, and what the loop makes of them.

*Schedules.* The library's induction theorems cannot be used here, so the module derives what it needs from a well-founded order
that is a constant: a non-empty set of naturals has a least element (`LeastNatural`), a set of naturals with 0 and closed under + 1 is
all of them (`Inductive`), and a function defined step by step exists (`Recursion`). With these,
`FlattenSeq`, the schedules and `Scored`, all recursive functions, can be reasoned about for every length. `DecreasingIs`: a descending schedule of n calls has
n horizons between 1 and its first, stays at one once there, and is there at the last call if there is more than one
(both ways of computing it, with the remainders of the division: `DescentIs`, `BlocksFall`). `HeldIs`: a
lower level has its pre-decay horizon exactly while the level above is not yet down to one. `SchedulesAre` and `MatchedSchedules` lift this to all levels, downwards.

*Loop.* `PlannerInv` says what plans are rather than which flags are set: a plan made below a plan has that plan's
states as goals, in order, with the real goal last just if that one ends there (`Under`); any other aims at the real
goal at the highest level asked for (`Free`, `AskedUpTo`). `Carried` ties the loop's four flags to these facts,
`DoneAbove` says every level passed has its plan or was skipped, `HorizonsFit` and `TopCountsDown` carry the
schedules' part. `SchedulesHold` follows with `MatchedFits`, the arithmetic of a matched level's specification.
For `GoalsHold`, `RunReaches` goes down an unbroken run of plans: if a plan ends at the real goal it covers at least as many level-1
steps as the highest of them, and if not, some plan above goes beyond its subgoals.

### Encoding (`EncodeBatchProofs`)

`Inv` adds to the types, for each context: the output exists exactly at the two program counters that use it
(`Buffer`); the items of a graph came down from the cap or from all items by halving
numbers over the limit, and fit once the loop is left (`Sized`); a refusal for memory names an
item over the limit (`Refused`). The lemmas on products and halves carry the arithmetic; the last
turn of the loop is remembered as "twice this and one more is over the limit".
`EncodeTypes`, `GraphsKeepLimits` and `OutputsFreedOnce` follow; the last one also for exceptions, after which the output may stay allocated and every task says why.

`TasksGetOwnRows` needs more: `Copied` says that the rows written so far are, one by one, those of the items before the current graph,
each computed with the context's own accumulation setting. Division lemmas take a flat index apart into
frame, channel and item, and back; so however the batch is cut, task i's slice of the output is task i's rows.

### Python (`PyModelProofs`)

`PyInv` has `Stacks` (what each call of each thread's stack is doing, and that only the top one moves), `LockCounts` (the lock's depth is the
number of calls of its holder that hold it), `HandlesFit` (which handles are live at each step of the constructor and of `close`, and
that they are while any call is in the library) and `LogsAreOwn` (since a call emptied the error text, only it and the calls made
inside it have written there, and a failed one has). Every step of a thread is reduced to one of few
effects on its stack (`Turns`, `Pops`, `Pushes`), so that the invariant is shown for effects and not for each of the methods.
`GraphsRunOnLiveHandles` and `MessagesAreOwn` follow for any number of threads and any depth of callbacks.

### Publishing (`ReleaseProofs`)

`BatchInv` adds to the goal that every PASS in the results file is one a run saved (`SavedIsPassed`), and that
the files a running upload has yet to send are still those it summed (`SummedHolds`, which needs `Undisturbed`). A torn or deleted results file has no PASS in
it (`NothingPasses`). `OnlyPassedIsPublished` follows, for any checkpoints, types and contents, and kills at any step and inside the write.

`PublishInv` is about `hf_publish.py`. While `quiet` holds, the context a command has built is that of now (`ContextIsNow`: commit, sums
and every card made from them); an upload of everything has made right what it is through with (`UploadSoFar`, one clause per place it
can be at); a check that got all its answers has noted drift exactly if something it has looked at is not right
(`CheckSoFar`, `LookedRight`), and one that did not has noted drift. At the end of a command these are `UploadSettles` and `CheckIsRight`;
both are action properties, so the theorems (`ChecksAreRight`, `UploadsSettle`) are about the step that ends the command, in every state the invariant allows.
Nothing is assumed of what earlier, interrupted uploads or other scripts left on the hub.

### Conversion (`ReleaseProofs`)

`ConvertInv` is small: a job is one of the configured ones, past its refusals, with the rows of its tables taken from its checkpoint. The work is in what the tables
mean for any configuration and any checkpoint.

* `WrittenFilesAlwaysLoad`. One lemma per family says that the rows its converter writes contain each tensor the loader asks for under the
  keys it writes, for any number of layers and predictor layers and any list of H-JEPA levels. For H-JEPA the depth is the one counted in the checkpoint; that it is at least 1 follows
  from the check for leftovers, unless `--allow-unmapped` switched it off (`NoLayerFound`). The lemmas below them follow the tables (`LinearWrites`, `BlockWrites`, `TrunkWrites`,
  `LevelPairWrites`), so that what the families share is proved once. For an H-JEPA file the needs are split into those of the bottom level, of an upper one and of the
  prediction, and each is met by its part of the rows. That no norm, bias or token is stored as F16 rests on `Kinded`: whether a row is a matrix is a
  function of the *name* it writes (`PlainName`), so two rows of one name cannot disagree.
* `NothingIsDropped`. For seven families the check for leftovers says it. The converter of V-JEPA 2-AC has no such check: it compares two counts with the numbers of layers.
  `AcIsWhole` is the counting argument: the rows take as many tensors of each side as the counts allow (`ParamsOf`, `NamesCounted`, `RolesCounted`), so a finite checkpoint that
  contains them has no others. `GreatestNatural` gives the highest layer its counts are compared with.

A configuration is bounded by `ConfigRecords` to as many H-JEPA levels as `Level` has names (four; the releases go up to four, the loader to 64).

### Load test (`LoadTestProofs`)

`LoadInv` counts: a request of the running window is unsent or pending at its thread, answered, or failed (`Window`: these add up to the requests of the cell); one that the server has
counted and the tally has not is served and waits for its client, or its client gave it up (`lost`). With `Places` and `Threads`, which say where the main thread can be while clients run, the
row written after the join is right (`RightRow`): what `RowsCountTheirWindow` says of published rows. `MedianRank` is the arithmetic of the median: the code's rank, rounded half to even, is
never below the middle.

### Measuring (`MeasureProofs`)

* *Document.* `BenchInv`: what the generator holds is what it loaded, and an artifact is whole or torn. `MergesKeepAndRenew` and `TablesAgree` are action properties from it.
* *SSv2.* `Fitting` is the key: while no index has been written without a clip of an earlier one, every clip order in a file or in a running stage starts the order of clips that an index had, and two of one length
  are equal: the indexed clips only grow then, across kills, torn files, a deleted cache and a rebuild. Then equal lengths, all that `report` compares, mean equal clips. `Timed` follows the decode time: a
  cache of which no killed pass decoded a part has it in its index or in the pass that extends it. `Reported` carries both to the report that runs. `FullRowsMatch` and `FactsAreKept` follow.
* *Video.* Every order is the list of some `--splits` that was asked for (`ListsGiven`), every whole feature file a leading part of one, the head's logits those of the query clips of one (`OutputsLead`). Of
  lists that start with one another a part is known by its length, hence `ListedClipsAreScored`.
* *Images.* Every whole cached matrix is the split of some run of the same `--limit` and a seed that was used (`MatricesAreSplits`). `--per-class` is not in a cache name; what comes to the rescue is that the number of
  rows differs whenever the split does. Two seeds give the same numbers, so the seed stays open (`RecordedImagesAreScored`).
* *k-NN.* `KnnInv` carries the account of the disagreements query by query. `FlipsHaveReasons` needs that the chosen neighbourhood is a set of k nearest ones, however
  `argpartition` broke its ties, and a bound on how far a gap between two similarities can move.

### Only model-checked

* Liveness (`EveryRequestAnswered`, `ShutsDown`, `EveryCallReturns`): temporal reasoning with fairness and
  ENABLED is out of the prover's reach.

Every other property of a passing run is stated by a theorem. Nothing is proved about the runs that expect a violation.

## 5. Plan

In order of importance; what is done is marked.

1. Engine: `ServeEngine`, `ServeContract`, proofs of safety, of the batching and of the refinement **(done)**.
2. V-JEPA 2-AC and H-JEPA: `AcContext`, `SlidingWindow`, `AcRollout`, `HjepaHorizons`, `HjepaPlan`, with proofs of every
   property the `planning` run checks of them **(done)**.
3. Python: `PyModel` with sections, callbacks and error texts, proofs of both safety properties **(done)**.
4. Encoding: `EncodeBatch` with proofs of its limits, buffers and rows **(done)**.
5. Conversion, release, load test and measuring: `Convert` with its tables, `HjepaBatch`, `HfPublish`, `LoadTest`, the sweeps, `KnnEval`
   and `Benchmarks`, with proofs of every property the `release` and `measure` runs check of them **(done)**.

What would come next: a loader that fails half way (`GgufLoad` is only what it accepts), and the setters of a Python `Model`
beside a computing thread (section 6).

## 6. Not modelled, and why

* Tensor arithmetic, RoPE tables, image resampling, quantisation, the CEM refit and the early stopping of a
  solve: floating point, out of TLC's reach; covered by the repository's parity tests.
* Pooling, heads and projectors: arithmetic on one task's rows; `EncodeBatch` keeps whether they fail.
* Request parsing, base64, path confinement: string handling on one thread without state.
* Of conversion: shapes and values of tensors, preprocessing metadata, the q8_0 type of the video families' own mains. A LeJEPA ViT without
  layers, which its converter accepts and the loader refuses, is left out of the configurations.
* Of the loader: mapping, backends, and what each early return frees. `GgufLoad` is what it accepts.
* Of the scripts: `hjepa_batch time`, the graph-time stage, centroid scores, the planner section of the load test, and
  the text of cards, tables and figures. `dump_reference.py`, `gen_results_figure.py` and the converters' self-test are
  straight-line numeric or drawing code.
* The command-line tools: sequential, no state to protect.
* httplib, nlohmann/json, stb: vendored. Of httplib the engine model uses only what
  `main` relies on: one thread per connection, `stop` closes the listening socket, and `listen`
  returns after the handlers were joined.
* Hazards known but not covered, each in `PROJECT.json` with a note: a signal between installing the handler
  (`tools/jepa-server.cpp` 1583) and `listen` is lost, and a failed bind returns from `main` with joinable threads (1592); a
  `randn` callback that calls `close` frees the context under the planner that called it; the loader's early returns.
  Setters and `last_*` of a Python `Model` touch its context without the lock while another thread computes; `PyModel` has
  such reads as `context` sections and no property about them.
