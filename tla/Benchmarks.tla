------------------------------ MODULE Benchmarks ------------------------------
(* The benchmark document: scripts/bench_all.sh and bench_gpu.sh sweep with   *)
(* one jepa-bench process per file, scripts/gen_benchmarks_md.py joins the    *)
(* sweeps with the committed artifacts and writes benchmarks-gpu.json,        *)
(* docs/benchmarks.md and benchmarks.json, in that order.  A measurement is   *)
(* the number of the sweep that took it; one model, its shapes (the batch of  *)
(* an AC graph) and thread counts.                                            *)
EXTENDS Naturals, Sequences, FiniteSets

CONSTANTS Shapes,     \* a set of numbers, the batches of shape_label
          Lists,      \* the thread lists of the sweeps, in the order their files sort
          MaxSweeps,  \* bound on the sweeps
          NoFile, Torn

ASSUME BenchAssumption ==
    /\ \A i \in DOMAIN Lists : Lists[i] \subseteq Nat
    /\ Lists \in Seq({Lists[i] : i \in DOMAIN Lists})
    /\ MaxSweeps \in Nat

VARIABLES bench,   \* tmp/bench: <<shape, list>> -> NoFile, Torn or the sweep that wrote it
          gpuDir,  \* tmp/bench-gpu: shape -> the same
          cpuArt,  \* tests/results/benchmarks.json: a set of rows
          gpuArt,  \* tests/results/benchmarks-gpu.json
          doc,     \* docs/benchmarks.md
          job,     \* the script that runs
          sweeps

benchVars == <<bench, gpuDir, cpuArt, gpuArt, doc, job, sweeps>>
BenchFiles == Shapes \X DOMAIN Lists
NoJob == [pc |-> "idle"]
Whole(x) == x \notin {NoFile, Torn}

BenchInit ==
    /\ bench = [f \in BenchFiles |-> NoFile] /\ gpuDir = [s \in Shapes |-> NoFile]
    /\ cpuArt = NoFile /\ gpuArt = NoFile /\ doc = NoFile /\ job = NoJob /\ sweeps = 0

-----------------------------------------------------------------------------
(* The sweeps                                                                 *)

\* bench_all.sh deletes the old JSONs unless --keep; --only picks among the models.
StartCpuSweep(keep, only, list) ==
    /\ job = NoJob /\ sweeps < MaxSweeps /\ sweeps' = sweeps + 1
    /\ bench' = IF keep THEN bench ELSE [f \in BenchFiles |-> NoFile]
    /\ job' = [pc |-> "cpu", todo |-> only \X {list}]
    /\ UNCHANGED <<gpuDir, cpuArt, gpuArt, doc>>
StartGpuSweep(keep, only) ==
    /\ job = NoJob /\ sweeps < MaxSweeps /\ sweeps' = sweeps + 1
    /\ gpuDir' = IF keep THEN gpuDir ELSE [s \in Shapes |-> NoFile]
    /\ job' = [pc |-> "gpu", todo |-> only]
    /\ UNCHANGED <<bench, cpuArt, gpuArt, doc>>
\* run_bench: a process that fails leaves the old file, one killed in its write a torn one.
Outcomes(old) == {sweeps, Torn, old}
MeasureCpu ==
    /\ job.pc = "cpu"
    /\ \E f \in job.todo : \E x \in Outcomes(bench[f]) :
          /\ bench' = [bench EXCEPT ![f] = x] /\ job' = [job EXCEPT !.todo = @ \ {f}]
    /\ UNCHANGED <<gpuDir, cpuArt, gpuArt, doc, sweeps>>
MeasureGpu ==
    /\ job.pc = "gpu"
    /\ \E s \in job.todo : \E x \in Outcomes(gpuDir[s]) :
          /\ gpuDir' = [gpuDir EXCEPT ![s] = x] /\ job' = [job EXCEPT !.todo = @ \ {s}]
    /\ UNCHANGED <<bench, cpuArt, gpuArt, doc, sweeps>>

-----------------------------------------------------------------------------
(* Reading                                                                    *)

\* A file holds a row per thread count; a torn one is skipped.
load_runs == UNION {{[shape |-> f[1], threads |-> t, file |-> f[2], at |-> bench[f]] : t \in Lists[f[2]]} :
                       f \in {g \in BenchFiles : Whole(bench[g])}}
\* Of the rows with one key the last in the order of the files wins.
LastFile(rows) == CHOOSE r \in rows : \A q \in rows : q.file <= r.file
run_key(r) == <<r.shape, r.threads>>
ByKey(rows) == {LastFile({q \in rows : run_key(q) = run_key(r)}) : r \in rows}
runs_from_results_json(rows) == {[r EXCEPT !.file = 0] : r \in ByKey(rows)}
\* Mutant: the committed row wins over the fresh one.
merge_runs_BaseWins(base, fresh) ==
    base \cup {r \in ByKey(fresh) : \A b \in base : run_key(b) # run_key(r)}
merge_runs(base, fresh) ==
    ByKey(fresh) \cup {b \in base : \A r \in fresh : run_key(r) # run_key(b)}

\* The f16, 32-thread run of the same graph; 0 where there is none.
Baseline(rows, shape) ==
    LET same == {r \in rows : r.shape = shape /\ r.threads = 32}
    IN  IF same = {} THEN 0 ELSE LastFile(same).at
load_gpu_runs == {s \in Shapes : Whole(gpuDir[s])}
\* Mutant: joined with what tmp/bench holds, not with the merged rows.
build_gpu_results_Fresh(rows) ==
    {[shape |-> s, at |-> gpuDir[s], cpu |-> Baseline(load_runs, s)] : s \in load_gpu_runs}
build_gpu_results(rows) ==
    {[shape |-> s, at |-> gpuDir[s], cpu |-> Baseline(rows, s)] : s \in load_gpu_runs}
merge_gpu_blob(fresh, base) ==
    fresh \cup {b \in base : \A r \in fresh : r.shape # b.shape}

-----------------------------------------------------------------------------
(* gen_benchmarks_md.py                                                       *)

\* by: bench_all.sh, bench_gpu.sh [--merge], or by hand with --merge-json and --results-json.
Calls == [by : {"all"}, merge : {FALSE}, results : BOOLEAN, gpu : {"no"}, doc : {TRUE}]
    \cup [by : {"gpu"}, merge : {TRUE}, results : {FALSE}, gpu : {"sweep", "merge"}, doc : BOOLEAN]
    \cup [by : {"hand"}, merge : {TRUE}, results : {TRUE}, gpu : {"no"}, doc : BOOLEAN]

Runs(call) == IF call.merge THEN merge_runs(runs_from_results_json(cpuArt), load_runs)
              ELSE load_runs
\* A torn GPU artifact is dropped with a warning where it is only rendered.
GpuRows(call, rows) ==
    CASE call.gpu = "sweep" -> build_gpu_results(rows)
      [] call.gpu = "merge" -> merge_gpu_blob(build_gpu_results(rows), gpuArt)
      [] OTHER -> IF Whole(gpuArt) THEN gpuArt ELSE {}
Readable(call) ==
    /\ call.merge => Whole(cpuArt)
    /\ call.gpu = "merge" => Whole(gpuArt)
\* Parity refuses when docs/parity.md has lost a row (not modelled: which).
Generate(call, parity) ==
    /\ job.pc \in {"cpu", "gpu", "idle"}
    /\ IF call.by = "hand" THEN job = NoJob ELSE job.pc = (IF call.by = "all" THEN "cpu" ELSE "gpu")
    /\ job # NoJob => job.todo = {}
    /\ IF Readable(call) /\ parity /\ (Runs(call) # {}) /\ (call.gpu # "no" => load_gpu_runs # {})
       THEN job' = [pc |-> IF call.gpu = "no" THEN "doc" ELSE "gpujson", call |-> call,
                    rows |-> Runs(call), gpu |-> GpuRows(call, Runs(call))]
       ELSE job' = NoJob
    /\ UNCHANGED <<bench, gpuDir, cpuArt, gpuArt, doc, sweeps>>
\* --no-doc of bench_all.sh: the generator is not run at all.
NoGenerate ==
    /\ job.pc = "cpu" /\ job.todo = {} /\ job' = NoJob
    /\ UNCHANGED <<bench, gpuDir, cpuArt, gpuArt, doc, sweeps>>

WriteGpuJson ==
    /\ job.pc = "gpujson" /\ gpuArt' = job.gpu
    /\ job' = [job EXCEPT !.pc = "doc"]
    /\ UNCHANGED <<bench, gpuDir, cpuArt, doc, sweeps>>

\* The thread-scaling table: the last run of each thread count, whatever its shape.
Scaling(rows) ==
    LET seen == {r.threads : r \in rows}
        Lo == CHOOSE t \in seen : \A u \in seen : t <= u
        Hi == CHOOSE t \in seen : \A u \in seen : t >= u
        Last(t) == CHOOSE s \in {r.shape : r \in {q \in rows : q.threads = t}} :
                       \A r \in rows : r.threads = t => r.shape <= s
    IN  IF Lo = Hi THEN {} ELSE {<<Last(Lo), Last(Hi)>>}
render(call, rows, gpu) == [by |-> call.by, cpu |-> rows, gpu |-> gpu, scaling |-> Scaling(rows)]
WriteDoc ==
    /\ job.pc = "doc"
    /\ doc' = IF job.call.doc THEN render(job.call, job.rows, job.gpu) ELSE doc
    /\ job' = IF job.call.results THEN [job EXCEPT !.pc = "results"] ELSE NoJob
    /\ UNCHANGED <<bench, gpuDir, cpuArt, gpuArt, sweeps>>
write_results_json ==
    /\ job.pc = "results" /\ cpuArt' = job.rows /\ job' = NoJob
    /\ UNCHANGED <<bench, gpuDir, gpuArt, doc, sweeps>>

\* The script is killed, in a write or between two.
KillJob ==
    /\ job # NoJob /\ job' = NoJob
    /\ gpuArt' \in IF job.pc = "gpujson" THEN {gpuArt, Torn} ELSE {gpuArt}
    /\ doc' \in IF job.pc = "doc" /\ job.call.doc THEN {doc, Torn} ELSE {doc}
    /\ cpuArt' \in IF job.pc = "results" THEN {cpuArt, Torn} ELSE {cpuArt}
    /\ UNCHANGED <<bench, gpuDir, sweeps>>

BenchNext ==
    \/ \E keep \in BOOLEAN, only \in SUBSET Shapes :
          StartGpuSweep(keep, only) \/ \E list \in DOMAIN Lists : StartCpuSweep(keep, only, list)
    \/ MeasureCpu \/ MeasureGpu
    \/ \E call \in Calls, parity \in BOOLEAN : Generate(call, parity)
    \/ NoGenerate \/ WriteGpuJson \/ WriteDoc \/ write_results_json \/ KillJob

BenchSpec == BenchInit /\ [][BenchNext]_benchVars

-----------------------------------------------------------------------------
(* A committed artifact rebuilt by hand onto itself keeps every configuration *)
(* it had, and carries the measurement of every whole file of the sweep over  *)
(* the committed one (merge_runs, --merge-json).                              *)
MergeKeepsAndRenews ==
    [][ cpuArt' # cpuArt /\ Whole(cpuArt') /\ job.call.merge
        => /\ Whole(cpuArt) => {run_key(r) : r \in cpuArt} \subseteq {run_key(r) : r \in cpuArt'}
           /\ \A r \in load_runs : \E q \in cpuArt', p \in load_runs :
                 run_key(q) = run_key(r) /\ run_key(p) = run_key(r) /\ q.at = p.at ]_benchVars

(* The document agrees with itself and with the GPU artifact: its GPU rows    *)
(* are the artifact's, and after a full GPU sweep the CPU figure beside each  *)
(* is the one its own CPU table shows (build_gpu_results, render_gpu).        *)
GpuTablesAgree ==
    [][ doc' # doc /\ Whole(doc')
        => /\ Whole(gpuArt') => doc'.gpu = gpuArt'
           /\ job.call.gpu = "sweep" =>
                 \A g \in doc'.gpu : g.cpu = Baseline(doc'.cpu, g.shape) ]_benchVars
=============================================================================
