----------------------------- MODULE MeasureProofs -----------------------------
(***************************************************************************)
(* Proofs about the scripts that measure, for any number of clips, images, *)
(* shapes, thread lists, sweeps and features: the benchmark document, the  *)
(* three accuracy sweeps and the scoring of features.                      *)
(***************************************************************************)
EXTENDS Benchmarks, Ssv2Sweep, ImageSweep, VideoSweep, KnnEval, FiniteSetTheorems, SequenceTheorems, TLAPS

-----------------------------------------------------------------------------
(***************************************************************************)
(* A finite set of integers that is not empty has a greatest element: of   *)
(* the sets of what is above one of its elements, one has none of the      *)
(* others inside it.                                                       *)
(***************************************************************************)
LEMMA Greatest ==
  ASSUME NEW T \in SUBSET Int, IsFiniteSet(T), T # {}
  PROVE  \E m \in T : \A x \in T : x <= m
<1> DEFINE F == FiniteSubsetsOf(T)
           R == StrictSubsetOrdering(T)
           Above(x) == {y \in T : y > x}
           U == {Above(x) : x \in T}
<1>1. IsWellFoundedOn(R, F)  BY FS_StrictSubsetOrderingWellFounded
<1>2. U \subseteq F  BY FS_Subset DEF FiniteSubsetsOf
<1>3. U # {}  OBVIOUS
<1> HIDE DEF F, R, U
<1>4. PICK u \in U : \A v \in U : ~(<<v, u>> \in R)  BY <1>1, <1>2, <1>3, WFMin
<1>5. PICK m \in T : u = Above(m)  BY <1>4 DEF U
<1>6. ASSUME NEW x \in T, x > m  PROVE FALSE
  <2>1. x \in Int /\ m \in Int  OBVIOUS
  <2>2. Above(x) \subseteq Above(m) /\ x \in Above(m) /\ x \notin Above(x)
    <3>1. \A y \in T : y > x => y > m
      <4> TAKE y \in T
      <4>1. y \in Int  OBVIOUS
      <4> QED  BY <1>6, <2>1, <4>1
    <3>2. ~(x > x)  BY <2>1
    <3> QED  BY <1>6, <3>1, <3>2
  <2>3. Above(x) \in U  BY DEF U
  <2>4. Above(x) \in SUBSET T /\ Above(m) \in SUBSET T  OBVIOUS
  <2> HIDE DEF Above
  <2>5. <<Above(x), Above(m)>> \in R  BY <2>2, <2>4 DEF R, StrictSubsetOrdering
  <2> QED  BY <1>4, <1>5, <2>3, <2>5
<1>7. \A x \in T : x <= m
  <2> TAKE x \in T
  <2>1. x \in Int /\ m \in Int  OBVIOUS
  <2> QED  BY <1>6, <2>1
<1> QED  BY <1>7

LEMMA GreatestOf ==
  ASSUME NEW S, IsFiniteSet(S), S # {}, NEW f \in [S -> Int]
  PROVE  \E m \in S : \A x \in S : f[x] <= f[m]
<1> DEFINE T == {f[x] : x \in S}
<1>1. T \in SUBSET Int /\ T # {}  OBVIOUS
<1>2. f \in Surjection(S, T)  BY DEF Surjection
<1>3. IsFiniteSet(T)  BY <1>2, FS_Surjection
<1>4. PICK m \in T : \A x \in T : x <= m
  <2> HIDE DEF T
  <2> QED  BY <1>1, <1>3, Greatest
<1> QED  BY <1>4

LEMMA LeastOf ==
  ASSUME NEW S, IsFiniteSet(S), S # {}, NEW f \in [S -> Int]
  PROVE  \E m \in S : \A x \in S : f[x] >= f[m]
<1> DEFINE h == [x \in S |-> -f[x]]
<1>1. h \in [S -> Int]  OBVIOUS
<1>2. \A x \in S : h[x] = -f[x] /\ f[x] \in Int  OBVIOUS
<1> HIDE DEF h
<1>3. PICK m \in S : \A x \in S : h[x] <= h[m]  BY <1>1, GreatestOf
<1>4. \A x \in S : f[x] >= f[m]  BY <1>2, <1>3
<1> QED  BY <1>4

-----------------------------------------------------------------------------
(***************************************************************************)
(* Finite sets in order.  A smallest set that could not be put in order    *)
(* would have a last member.                                               *)
(***************************************************************************)
Increasing(s) == \A i, j \in DOMAIN s : i < j => s[i] < s[j]

LEMMA FewHaveAnOrder ==
  ASSUME NEW H \in SUBSET Int, IsFiniteSet(H)
  PROVE  \E s \in [1..Cardinality(H) -> H] : Increasing(s)
<1> DEFINE F == FiniteSubsetsOf(H)
           R == StrictSubsetOrdering(H)
           B == {G \in F : ~ \E s \in [1..Cardinality(G) -> G] : Increasing(s)}
<1>1. IsFiniteSet(H) /\ H \subseteq Int  OBVIOUS
<1>2. H \in F  BY <1>1, FS_Subset DEF FiniteSubsetsOf
<1>3. ASSUME B # {}  PROVE FALSE
  <2>1. IsWellFoundedOn(R, F)  BY FS_StrictSubsetOrderingWellFounded
  <2>2. B \subseteq F  OBVIOUS
  <2>3. PICK G \in B : \A K1 \in B : ~(<<K1, G>> \in R)
    <3> HIDE DEF B, F, R
    <3> QED  BY <1>3, <2>1, <2>2, WFMin
  <2>4. G \in SUBSET H /\ IsFiniteSet(G) /\ G \in SUBSET Int  BY <1>1 DEF FiniteSubsetsOf
  <2>5. G # {}
    <3> SUFFICES ASSUME G = {}  PROVE FALSE  OBVIOUS
    <3>1. Cardinality(G) = 0  BY FS_EmptySet
    <3>2. [i \in 1..0 |-> 0] \in [1..Cardinality(G) -> G]  BY <3>1
    <3>3. Increasing([i \in 1..0 |-> 0])  BY DEF Increasing
    <3> QED  BY <2>3, <3>2, <3>3
  <2>6. PICK m \in G : \A x \in G : x <= m
    <3> HIDE DEF B
    <3> QED  BY <2>4, <2>5, Greatest
  <2> DEFINE G1 == G \ {m}
             n == Cardinality(G)
  <2>7. IsFiniteSet(G1) /\ Cardinality(G1) = n - 1 /\ n \in Nat
    <3> HIDE DEF B
    <3> QED  BY <2>4, FS_RemoveElement, FS_CardinalityType
  <2>8. G1 \in F /\ G1 \notin B
    <3>1. G1 \in F  BY <2>4, <2>7 DEF FiniteSubsetsOf
    <3>2. <<G1, G>> \in R  BY <2>4 DEF StrictSubsetOrdering
    <3> HIDE DEF F, R
    <3> QED  BY <2>3, <3>1, <3>2
  <2>9. PICK s \in [1..Cardinality(G1) -> G1] : Increasing(s)  BY <2>8
  <2>10. n - 1 \in Nat /\ s \in [1..(n - 1) -> G1]  BY <2>7, <2>9, FS_CardinalityType
  <2>11. \A x \in G1 : x \in G /\ x < m  BY <2>4, <2>6
  <2> DEFINE t == [i \in 1..n |-> IF i = n THEN m ELSE s[i]]
  <2> HIDE DEF G1, B, n
  <2>12. \A i \in 1..n : i # n => i \in 1..(n - 1) /\ s[i] \in G1  BY <2>7, <2>10
  <2>13. t \in [1..n -> G]  BY <2>11, <2>12
  <2>14. ASSUME NEW i \in 1..n, NEW j \in 1..n, i < j  PROVE t[i] < t[j]
    <3>1. i # n /\ t[i] = s[i]  BY <2>7, <2>14
    <3>2. CASE j = n  BY <2>11, <2>12, <3>1, <3>2
    <3>3. CASE j # n
      <4>1. i \in DOMAIN s /\ j \in DOMAIN s  BY <2>10, <2>12, <3>1, <3>3
      <4> QED  BY <2>9, <2>14, <3>1, <3>3, <4>1 DEF Increasing
    <3> QED  BY <3>2, <3>3
  <2>15. Increasing(t)  BY <2>14 DEF Increasing
  <2> HIDE DEF t
  <2> QED  BY <2>3, <2>13, <2>15 DEF B, n
<1> HIDE DEF F, R
<1> QED  BY <1>2, <1>3

LEMMA InOrderOf ==
  ASSUME NEW H \in SUBSET Nat, IsFiniteSet(H)
  PROVE  /\ InOrder(H) \in [1..Cardinality(H) -> H] /\ Increasing(InOrder(H))
         /\ InOrder(H) \in Seq(H) /\ Len(InOrder(H)) = Cardinality(H) /\ Cardinality(H) \in Nat
<1>1. Cardinality(H) \in Nat  BY FS_CardinalityType
<1>2. H \in SUBSET Int  OBVIOUS
<1>3. \E s \in [1..Cardinality(H) -> H] : \A i, j \in DOMAIN s : i < j => s[i] < s[j]
  BY <1>2, FewHaveAnOrder DEF Increasing
<1>4. InOrder(H) \in [1..Cardinality(H) -> H] /\ Increasing(InOrder(H))  BY <1>3 DEF InOrder, Increasing
<1> HIDE DEF InOrder
<1> QED  BY <1>1, <1>4

\* Of two finite sets, one in the other, the lengths tell whether they are one.
LEMMA SizesTell ==
  ASSUME NEW G \in SUBSET Nat, IsFiniteSet(G), NEW H \in SUBSET G, Len(InOrder(H)) = Len(InOrder(G))
  PROVE  H = G
<1>1. H \in SUBSET Nat /\ IsFiniteSet(H)  BY FS_Subset
<1>2. Cardinality(H) = Cardinality(G)  BY <1>1, InOrderOf
<1> QED  BY <1>2, FS_Subset

-----------------------------------------------------------------------------
(***************************************************************************)
(* The benchmark document: rows, keys and merges.                          *)
(***************************************************************************)
BenchRow == [shape : Shapes, threads : Nat, file : 0..Len(Lists), at : Nat]
Keys(rows) == {run_key(r) : r \in rows}

LEMMA LastFileIsOne ==
  ASSUME NEW rows \in SUBSET BenchRow, rows # {}
  PROVE  LastFile(rows) \in rows
<1> DEFINE T == {r.file : r \in rows}
<1>1. Len(Lists) \in Nat  BY BenchAssumption, LenProperties
<1>2. \A r \in rows : r.file \in 0..Len(Lists)  BY DEF BenchRow
<1>3. T \subseteq 0..Len(Lists)  BY <1>2
<1>4. IsFiniteSet(T)
  <2>1. IsFiniteSet(0..Len(Lists))  BY <1>1, FS_Interval
  <2> HIDE DEF T
  <2> QED  BY <2>1, <1>3, FS_Subset
<1>5. T \in SUBSET Int /\ T # {}  BY <1>1, <1>3
<1> HIDE DEF T
<1>6. PICK m \in T : \A x \in T : x <= m  BY <1>4, <1>5, Greatest
<1> USE DEF T
<1>7. PICK r \in rows : r.file = m  BY <1>6
<1>8. \A q \in rows : q.file <= r.file  BY <1>6, <1>7
<1> QED  BY <1>8 DEF LastFile

LEMMA ByKeyChooses ==
  ASSUME NEW rows \in SUBSET BenchRow
  PROVE  ByKey(rows) \in SUBSET rows /\ \A r \in rows : \E q \in ByKey(rows) : run_key(q) = run_key(r)
<1> DEFINE Same(r) == {q \in rows : run_key(q) = run_key(r)}
<1>1. ASSUME NEW r \in rows  PROVE LastFile(Same(r)) \in Same(r)
  <2>1. Same(r) \in SUBSET BenchRow /\ Same(r) # {}  OBVIOUS
  <2> HIDE DEF Same
  <2> QED  BY <2>1, LastFileIsOne
<1>2. ByKey(rows) = {LastFile(Same(r)) : r \in rows}  BY DEF ByKey
<1> QED  BY <1>1, <1>2

LEMMA MergeIs ==
  ASSUME NEW base \in SUBSET BenchRow, NEW fresh \in SUBSET BenchRow
  PROVE  /\ merge_runs(base, fresh) \in SUBSET BenchRow
         /\ Keys(base) \subseteq Keys(merge_runs(base, fresh))
         /\ \A r \in fresh : \E q \in merge_runs(base, fresh), p \in fresh :
               run_key(q) = run_key(r) /\ run_key(p) = run_key(r) /\ q.at = p.at
<1>1. ByKey(fresh) \in SUBSET fresh /\ \A r \in fresh : \E q \in ByKey(fresh) : run_key(q) = run_key(r)
  BY ByKeyChooses
<1> DEFINE merged == merge_runs(base, fresh)
<1>2. merged = ByKey(fresh) \cup {b \in base : \A r \in fresh : run_key(r) # run_key(b)}
  BY DEF merge_runs
<1> HIDE DEF merged
<1>3. merged \in SUBSET BenchRow  BY <1>1, <1>2
<1>4. ASSUME NEW b \in base  PROVE \E q \in merged : run_key(q) = run_key(b)
  <2>1. CASE \E r \in fresh : run_key(r) = run_key(b)  BY <2>1, <1>1, <1>2
  <2>2. CASE \A r \in fresh : run_key(r) # run_key(b)  BY <2>2, <1>2
  <2> QED  BY <2>1, <2>2
<1>5. Keys(base) \subseteq Keys(merged)  BY <1>4 DEF Keys
<1>6. ASSUME NEW r \in fresh
      PROVE  \E q \in merged, p \in fresh :
               run_key(q) = run_key(r) /\ run_key(p) = run_key(r) /\ q.at = p.at
  <2>1. PICK q \in ByKey(fresh) : run_key(q) = run_key(r)  BY <1>1
  <2>2. q \in merged /\ q \in fresh  BY <1>1, <1>2
  <2> QED  BY <2>1, <2>2
<1> QED  BY <1>3, <1>5, <1>6 DEF merged

LEMMA ResultsAreRows ==
  ASSUME NEW rows \in SUBSET BenchRow
  PROVE  /\ runs_from_results_json(rows) \in SUBSET BenchRow
         /\ Keys(rows) \subseteq Keys(runs_from_results_json(rows))
<1>1. Len(Lists) \in Nat  BY BenchAssumption, LenProperties
<1>2. ASSUME NEW r \in BenchRow
      PROVE  [r EXCEPT !.file = 0] \in BenchRow /\ run_key([r EXCEPT !.file = 0]) = run_key(r)
  BY <1>1 DEF BenchRow, run_key
<1>3. ByKey(rows) \in SUBSET rows /\ \A r \in rows : \E q \in ByKey(rows) : run_key(q) = run_key(r)
  BY ByKeyChooses
<1>4. runs_from_results_json(rows) = {[r EXCEPT !.file = 0] : r \in ByKey(rows)}
  BY DEF runs_from_results_json
<1>5. runs_from_results_json(rows) \in SUBSET BenchRow  BY <1>2, <1>3, <1>4
<1>6. ASSUME NEW r \in rows  PROVE \E q \in runs_from_results_json(rows) : run_key(q) = run_key(r)
  <2>1. PICK q \in ByKey(rows) : run_key(q) = run_key(r)  BY <1>3
  <2>2. q \in BenchRow /\ [q EXCEPT !.file = 0] \in runs_from_results_json(rows)  BY <1>3, <1>4
  <2> QED  BY <2>1, <2>2, <1>2
<1> QED  BY <1>5, <1>6 DEF Keys

-----------------------------------------------------------------------------
(***************************************************************************)
(* The benchmark document: what its three files are rendered from.  Only   *)
(* one script runs at a time, so from gpujson to results the sweeps are    *)
(* those Generate read, and the GPU artifact is what the job holds.        *)
(***************************************************************************)
Measured == Nat \cup {NoFile, Torn}
BenchTypes ==
    /\ sweeps \in Nat /\ bench \in [BenchFiles -> Measured]
    /\ cpuArt = NoFile \/ cpuArt = Torn \/ cpuArt \in SUBSET BenchRow
    /\ job.pc \in {"cpu", "gpu"} => job = [pc |-> job.pc, todo |-> job.todo]
Composing == job.pc \in {"gpujson", "doc", "results"}
Composed ==
    Composing =>
        /\ job = [pc |-> job.pc, call |-> job.call, rows |-> job.rows, gpu |-> job.gpu]
        /\ job.rows = Runs(job.call) /\ (job.call.merge => Whole(cpuArt))
        /\ job.call.gpu = "sweep" => job.gpu = build_gpu_results(job.rows)
        /\ job.pc = "doc" /\ Whole(gpuArt) => job.gpu = gpuArt
BenchInv == BenchTypes /\ Composed

LEMMA LoadedRows ==
  ASSUME BenchTypes
  PROVE  load_runs \in SUBSET BenchRow
<1>1. Len(Lists) \in Nat /\ DOMAIN Lists = 1..Len(Lists)  BY BenchAssumption, LenProperties
<1>2. ASSUME NEW f \in BenchFiles, Whole(bench[f]), NEW t \in Lists[f[2]]
      PROVE  [shape |-> f[1], threads |-> t, file |-> f[2], at |-> bench[f]] \in BenchRow
  <2>1. f[1] \in Shapes /\ f[2] \in DOMAIN Lists  BY DEF BenchFiles
  <2>2. t \in Nat  BY <2>1, BenchAssumption
  <2>3. bench[f] \in Nat  BY <1>2 DEF BenchTypes, Measured, Whole
  <2>4. f[2] \in 0..Len(Lists)  BY <1>1, <2>1
  <2> QED  BY <2>1, <2>2, <2>3, <2>4 DEF BenchRow
<1>3. ASSUME NEW r \in load_runs  PROVE r \in BenchRow
  <2>1. PICK f \in {g \in BenchFiles : Whole(bench[g])} :
          r \in {[shape |-> f[1], threads |-> t, file |-> f[2], at |-> bench[f]] : t \in Lists[f[2]]}
    BY <1>3 DEF load_runs
  <2> QED  BY <2>1, <1>2
<1> QED  BY <1>3

LEMMA RunsAreRows ==
  ASSUME BenchTypes, NEW call, call.merge => Whole(cpuArt)
  PROVE  Runs(call) \in SUBSET BenchRow
<1>1. load_runs \in SUBSET BenchRow  BY LoadedRows
<1>2. CASE call.merge
  <2>1. cpuArt \in SUBSET BenchRow  BY <1>2 DEF Whole, BenchTypes
  <2>2. Runs(call) = merge_runs(runs_from_results_json(cpuArt), load_runs)  BY <1>2 DEF Runs
  <2> QED  BY <2>1, <2>2, <1>1, ResultsAreRows, MergeIs
<1>3. CASE ~call.merge  BY <1>1, <1>3 DEF Runs
<1> QED  BY <1>2, <1>3

\* What the composing of the document reads.
Unread == UNCHANGED <<bench, gpuDir, cpuArt>>
LEMMA UnreadKeeps ==
  ASSUME Unread
  PROVE  /\ load_runs' = load_runs
         /\ Runs(job.call)' = Runs(job'.call)
         /\ build_gpu_results(job.rows)' = build_gpu_results(job'.rows)
<1>1. load_runs' = load_runs  BY DEF Unread, load_runs
<1>2. Runs(job.call)' = Runs(job'.call)  BY <1>1 DEF Unread, Runs
<1>3. load_gpu_runs' = load_gpu_runs  BY DEF Unread, load_gpu_runs
<1>4. build_gpu_results(job.rows)' = build_gpu_results(job'.rows)  BY <1>3 DEF Unread, build_gpu_results
<1> QED  BY <1>1, <1>2, <1>4

Collecting ==
    \/ \E keep \in BOOLEAN, only \in SUBSET Shapes :
          StartGpuSweep(keep, only) \/ \E list \in DOMAIN Lists : StartCpuSweep(keep, only, list)
    \/ MeasureCpu \/ MeasureGpu \/ NoGenerate
LEMMA CollectingKeeps ==
  ASSUME BenchInv, Collecting
  PROVE  BenchInv' /\ UNCHANGED <<cpuArt, doc>>
<1>1. BenchTypes  BY DEF BenchInv
<1>2. CASE NoGenerate
  <2>1. job' = NoJob /\ UNCHANGED <<bench, cpuArt, sweeps, doc>>  BY <1>2 DEF NoGenerate
  <2>2. job'.pc = "idle"  BY <2>1 DEF NoJob
  <2>3. BenchTypes'  BY <1>1, <2>1, <2>2 DEF BenchTypes
  <2> QED  BY <2>1, <2>2, <2>3 DEF BenchInv, Composed, Composing
<1>3. CASE MeasureCpu
  <2>1. PICK f \in job.todo : \E x \in Outcomes(bench[f]) :
          bench' = [bench EXCEPT ![f] = x] /\ job' = [job EXCEPT !.todo = @ \ {f}]
    BY <1>3 DEF MeasureCpu
  <2>2. PICK x \in Outcomes(bench[f]) : bench' = [bench EXCEPT ![f] = x]  BY <2>1
  <2>3. job.pc = "cpu" /\ UNCHANGED <<cpuArt, sweeps, doc>>  BY <1>3 DEF MeasureCpu
  <2>4. job' = [pc |-> "cpu", todo |-> job.todo \ {f}]  BY <1>1, <2>1, <2>3 DEF BenchTypes
  <2>5. bench' \in [BenchFiles -> Measured]
    <3>1. CASE f \in BenchFiles
      <4>1. x \in Measured  BY <1>1, <2>2, <3>1 DEF Outcomes, BenchTypes, Measured
      <4> QED  BY <1>1, <2>2, <4>1 DEF BenchTypes
    <3>2. CASE f \notin BenchFiles  BY <1>1, <2>2, <3>2 DEF BenchTypes
    <3> QED  BY <3>1, <3>2
  <2>6. job'.pc = "cpu" /\ job' = [pc |-> job'.pc, todo |-> job'.todo]  BY <2>4
  <2>7. BenchTypes'  BY <1>1, <2>3, <2>5, <2>6 DEF BenchTypes
  <2> QED  BY <2>3, <2>6, <2>7 DEF BenchInv, Composed, Composing
<1>4. CASE MeasureGpu
  <2>1. PICK f \in job.todo : job' = [job EXCEPT !.todo = @ \ {f}]  BY <1>4 DEF MeasureGpu
  <2>2. job.pc = "gpu" /\ UNCHANGED <<bench, cpuArt, sweeps, doc>>  BY <1>4 DEF MeasureGpu
  <2>3. job' = [pc |-> "gpu", todo |-> job.todo \ {f}]  BY <1>1, <2>1, <2>2 DEF BenchTypes
  <2>4. job'.pc = "gpu" /\ job' = [pc |-> job'.pc, todo |-> job'.todo]  BY <2>3
  <2>5. BenchTypes'  BY <1>1, <2>2, <2>4 DEF BenchTypes
  <2> QED  BY <2>2, <2>4, <2>5 DEF BenchInv, Composed, Composing
<1>5. ASSUME NEW keep \in BOOLEAN, NEW only \in SUBSET Shapes, StartGpuSweep(keep, only)
      PROVE  BenchInv' /\ UNCHANGED <<cpuArt, doc>>
  <2>1. job' = [pc |-> "gpu", todo |-> only] /\ sweeps' = sweeps + 1 /\ UNCHANGED <<bench, cpuArt, doc>>
    BY <1>5 DEF StartGpuSweep
  <2>2. job'.pc = "gpu" /\ job' = [pc |-> job'.pc, todo |-> job'.todo]  BY <2>1
  <2>3. BenchTypes'  BY <1>1, <2>1, <2>2 DEF BenchTypes
  <2> QED  BY <2>1, <2>2, <2>3 DEF BenchInv, Composed, Composing
<1>6. ASSUME NEW keep \in BOOLEAN, NEW only \in SUBSET Shapes, NEW list \in DOMAIN Lists,
             StartCpuSweep(keep, only, list)
      PROVE  BenchInv' /\ UNCHANGED <<cpuArt, doc>>
  <2>1. job' = [pc |-> "cpu", todo |-> only \X {list}] /\ sweeps' = sweeps + 1 /\ UNCHANGED <<cpuArt, doc>>
    BY <1>6 DEF StartCpuSweep
  <2>2. bench' = bench \/ bench' = [f \in BenchFiles |-> NoFile]  BY <1>6 DEF StartCpuSweep
  <2>3. bench' \in [BenchFiles -> Measured]  BY <1>1, <2>2 DEF BenchTypes, Measured
  <2>4. job'.pc = "cpu" /\ job' = [pc |-> job'.pc, todo |-> job'.todo]  BY <2>1
  <2>5. BenchTypes'  BY <1>1, <2>1, <2>3, <2>4 DEF BenchTypes
  <2> QED  BY <2>1, <2>4, <2>5 DEF BenchInv, Composed, Composing
<1> QED  BY <1>2, <1>3, <1>4, <1>5, <1>6 DEF Collecting

LEMMA GenerateKeeps ==
  ASSUME BenchInv, NEW call, NEW parity, Generate(call, parity)
  PROVE  BenchInv' /\ UNCHANGED <<cpuArt, doc>>
<1>1. BenchTypes  BY DEF BenchInv
<1>2. UNCHANGED <<bench, gpuDir, cpuArt, gpuArt, doc, sweeps>>  BY DEF Generate
<1>3. CASE job' = NoJob
  <2>1. job'.pc = "idle"  BY <1>3 DEF NoJob
  <2> QED  BY <1>1, <1>2, <2>1 DEF BenchInv, BenchTypes, Composed, Composing
<1>4. CASE /\ Readable(call)
           /\ job' = [pc |-> IF call.gpu = "no" THEN "doc" ELSE "gpujson", call |-> call,
                      rows |-> Runs(call), gpu |-> GpuRows(call, Runs(call))]
  <2>1. /\ job' = [pc |-> job'.pc, call |-> job'.call, rows |-> job'.rows, gpu |-> job'.gpu]
        /\ job'.call = call /\ job'.rows = Runs(call) /\ job'.gpu = GpuRows(call, Runs(call))
        /\ job'.pc = IF call.gpu = "no" THEN "doc" ELSE "gpujson"
    BY <1>4
  <2>2. call.merge => Whole(cpuArt)  BY <1>4 DEF Readable
  <2>3. Unread  BY <1>2 DEF Unread
  <2>4. Runs(job.call)' = Runs(call) /\ build_gpu_results(job.rows)' = build_gpu_results(Runs(call))
    BY <2>1, <2>3, UnreadKeeps
  <2>5. call.gpu = "sweep" => job'.gpu = build_gpu_results(Runs(call))  BY <2>1 DEF GpuRows
  <2>6. job'.pc = "doc" /\ Whole(gpuArt') => job'.gpu = gpuArt'  BY <1>2, <2>1 DEF GpuRows
  <2>7. job'.rows = Runs(job.call)'  BY <2>1, <2>4
  <2>8. job'.call.gpu = "sweep" => job'.gpu = build_gpu_results(job.rows)'  BY <2>1, <2>4, <2>5
  <2>9. job'.call.merge => Whole(cpuArt')  BY <1>2, <2>1, <2>2
  <2>10. BenchTypes'  BY <1>1, <1>2, <2>1 DEF BenchTypes
  <2>11. Composed'  BY <2>1, <2>6, <2>7, <2>8, <2>9 DEF Composed
  <2> QED  BY <1>2, <2>10, <2>11 DEF BenchInv
<1> QED  BY <1>3, <1>4 DEF Generate

LEMMA WriteGpuKeeps ==
  ASSUME BenchInv, WriteGpuJson
  PROVE  BenchInv' /\ UNCHANGED <<cpuArt, doc>>
<1>1. BenchTypes /\ Composed  BY DEF BenchInv
<1>2. /\ job.pc = "gpujson" /\ gpuArt' = job.gpu /\ job' = [job EXCEPT !.pc = "doc"]
      /\ UNCHANGED <<bench, gpuDir, cpuArt, doc, sweeps>>
  BY DEF WriteGpuJson
<1>3. /\ job = [pc |-> job.pc, call |-> job.call, rows |-> job.rows, gpu |-> job.gpu]
      /\ job.rows = Runs(job.call) /\ (job.call.merge => Whole(cpuArt))
      /\ job.call.gpu = "sweep" => job.gpu = build_gpu_results(job.rows)
  BY <1>1, <1>2 DEF Composed, Composing
<1>4. /\ job' = [pc |-> job'.pc, call |-> job'.call, rows |-> job'.rows, gpu |-> job'.gpu]
      /\ job'.pc = "doc" /\ job'.call = job.call /\ job'.rows = job.rows /\ job'.gpu = job.gpu
  BY <1>2, <1>3
<1>5. Runs(job.call)' = Runs(job.call) /\ build_gpu_results(job.rows)' = build_gpu_results(job.rows)
  BY <1>2, <1>4, UnreadKeeps DEF Unread
<1>6. job'.call.merge => Whole(cpuArt')  BY <1>2, <1>3, <1>4
<1>7. Composed'  BY <1>2, <1>3, <1>4, <1>5, <1>6 DEF Composed
<1>8. BenchTypes'  BY <1>1, <1>2, <1>4 DEF BenchTypes
<1> QED  BY <1>2, <1>7, <1>8 DEF BenchInv

LEMMA WriteDocKeeps ==
  ASSUME BenchInv, WriteDoc
  PROVE  /\ BenchInv' /\ UNCHANGED <<cpuArt, gpuArt>>
         /\ doc' = doc \/ doc' = render(job.call, job.rows, job.gpu)
         /\ Whole(gpuArt) => job.gpu = gpuArt
         /\ job.call.gpu = "sweep" => job.gpu = build_gpu_results(job.rows)
<1>1. BenchTypes /\ Composed  BY DEF BenchInv
<1>2. /\ job.pc = "doc" /\ UNCHANGED <<bench, gpuDir, cpuArt, gpuArt, sweeps>>
      /\ job' = [job EXCEPT !.pc = "results"] \/ job' = NoJob
      /\ doc' = doc \/ doc' = render(job.call, job.rows, job.gpu)
  BY DEF WriteDoc
<1>3. /\ job = [pc |-> job.pc, call |-> job.call, rows |-> job.rows, gpu |-> job.gpu]
      /\ job.rows = Runs(job.call) /\ (job.call.merge => Whole(cpuArt))
      /\ job.call.gpu = "sweep" => job.gpu = build_gpu_results(job.rows)
      /\ Whole(gpuArt) => job.gpu = gpuArt
  BY <1>1, <1>2 DEF Composed, Composing
<1>4. CASE job' = NoJob
  <2>1. job'.pc = "idle"  BY <1>4 DEF NoJob
  <2> QED  BY <1>1, <1>2, <1>3, <2>1 DEF BenchInv, BenchTypes, Composed, Composing
<1>5. CASE job' = [job EXCEPT !.pc = "results"]
  <2>1. /\ job' = [pc |-> job'.pc, call |-> job'.call, rows |-> job'.rows, gpu |-> job'.gpu]
        /\ job'.pc = "results" /\ job'.call = job.call /\ job'.rows = job.rows /\ job'.gpu = job.gpu
    BY <1>3, <1>5
  <2>2. Runs(job.call)' = Runs(job.call) /\ build_gpu_results(job.rows)' = build_gpu_results(job.rows)
    BY <1>2, <2>1, UnreadKeeps DEF Unread
  <2>3. job'.call.merge => Whole(cpuArt')  BY <1>2, <1>3, <2>1
  <2>4. Composed'  BY <1>3, <2>1, <2>2, <2>3 DEF Composed
  <2>5. BenchTypes'  BY <1>1, <1>2, <2>1 DEF BenchTypes
  <2> QED  BY <1>2, <1>3, <2>4, <2>5 DEF BenchInv
<1> QED  BY <1>2, <1>4, <1>5

LEMMA WriteResultsKeeps ==
  ASSUME BenchInv, write_results_json
  PROVE  /\ BenchInv' /\ UNCHANGED <<bench, doc>>
         /\ cpuArt' = Runs(job.call) /\ (job.call.merge => Whole(cpuArt))
<1>1. BenchTypes /\ Composed  BY DEF BenchInv
<1>2. job.pc = "results" /\ cpuArt' = job.rows /\ job' = NoJob /\ UNCHANGED <<bench, gpuDir, gpuArt, doc, sweeps>>
  BY DEF write_results_json
<1>3. job.rows = Runs(job.call) /\ (job.call.merge => Whole(cpuArt))
  BY <1>1, <1>2 DEF Composed, Composing
<1>4. job'.pc = "idle"  BY <1>2 DEF NoJob
<1>5. cpuArt' \in SUBSET BenchRow  BY <1>1, <1>2, <1>3, RunsAreRows
<1>6. BenchTypes'  BY <1>1, <1>2, <1>4, <1>5 DEF BenchTypes
<1> QED  BY <1>2, <1>3, <1>4, <1>6 DEF BenchInv, Composed, Composing

LEMMA KillJobKeeps ==
  ASSUME BenchInv, KillJob
  PROVE  BenchInv' /\ cpuArt' \in {cpuArt, Torn} /\ doc' \in {doc, Torn}
<1>1. /\ job' = NoJob /\ UNCHANGED <<bench, gpuDir, sweeps>>
      /\ cpuArt' \in {cpuArt, Torn} /\ doc' \in {doc, Torn}
  BY DEF KillJob
<1>2. job'.pc = "idle"  BY <1>1 DEF NoJob
<1>3. BenchTypes'  BY <1>1, <1>2 DEF BenchInv, BenchTypes
<1> QED  BY <1>1, <1>2, <1>3 DEF BenchInv, Composed, Composing

LEMMA BenchStarts == BenchInit => BenchInv
<1> SUFFICES ASSUME BenchInit  PROVE BenchInv  OBVIOUS
<1>1. job.pc = "idle"  BY DEF BenchInit, NoJob
<1>2. BenchTypes  BY <1>1 DEF BenchInit, BenchTypes, Measured
<1> QED  BY <1>1, <1>2 DEF BenchInv, Composed, Composing

LEMMA BenchStutters ==
  ASSUME BenchInv, UNCHANGED benchVars
  PROVE  BenchInv'
<1>1. BenchTypes'  BY DEF BenchInv, BenchTypes, benchVars
<1>2. Runs(job.call)' = Runs(job.call) /\ build_gpu_results(job.rows)' = build_gpu_results(job.rows)
  BY UnreadKeeps DEF Unread, benchVars
<1>3. Composed'  BY <1>2 DEF BenchInv, Composed, Composing, benchVars
<1> QED  BY <1>1, <1>3 DEF BenchInv

LEMMA BenchSteps ==
  ASSUME BenchInv, [BenchNext]_benchVars
  PROVE  BenchInv'
<1>1. CASE Collecting  BY <1>1, CollectingKeeps
<1>2. CASE \E call \in Calls, parity \in BOOLEAN : Generate(call, parity)  BY <1>2, GenerateKeeps
<1>3. CASE UNCHANGED benchVars  BY <1>3, BenchStutters
<1> QED
  BY <1>1, <1>2, <1>3, WriteGpuKeeps, WriteDocKeeps, WriteResultsKeeps, KillJobKeeps DEF BenchNext, Collecting

\* The invariant of the benchmark document: its parts are what the sweeps say
\* (gen_benchmarks_md.py, main), and only one script runs.
THEOREM BenchInvHolds == BenchSpec => []BenchInv
<1>1. BenchInv /\ [BenchNext]_benchVars => BenchInv'  BY BenchSteps
<1> QED  BY <1>1, BenchStarts, PTL DEF BenchSpec

\* A committed artifact rebuilt by hand onto itself loses no configuration and
\* carries every fresh measurement, whatever was killed before or swept since
\* (merge_runs, --merge-json).
THEOREM MergesKeepAndRenew == BenchSpec => MergeKeepsAndRenews
<1> DEFINE Good == cpuArt' # cpuArt /\ Whole(cpuArt') /\ job.call.merge
                   => /\ Whole(cpuArt) => {run_key(r) : r \in cpuArt} \subseteq {run_key(r) : r \in cpuArt'}
                      /\ \A r \in load_runs : \E q \in cpuArt', p \in load_runs :
                            run_key(q) = run_key(r) /\ run_key(p) = run_key(r) /\ q.at = p.at
<1>1. BenchInv /\ [BenchNext]_benchVars => [Good]_benchVars
  <2> SUFFICES ASSUME BenchInv, BenchNext, cpuArt' # cpuArt, Whole(cpuArt'), job.call.merge
               PROVE  Good
    BY DEF benchVars
  <2>1. write_results_json
    <3>1. ~KillJob  BY KillJobKeeps DEF Whole
    <3>2. ~Collecting /\ ~WriteGpuJson /\ ~WriteDoc  BY CollectingKeeps, WriteGpuKeeps, WriteDocKeeps
    <3>3. ~(\E call \in Calls, parity \in BOOLEAN : Generate(call, parity))  BY GenerateKeeps
    <3> QED  BY <3>1, <3>2, <3>3 DEF BenchNext, Collecting
  <2>2. cpuArt' = Runs(job.call) /\ Whole(cpuArt)  BY <2>1, WriteResultsKeeps
  <2>3. cpuArt' = merge_runs(runs_from_results_json(cpuArt), load_runs)  BY <2>2 DEF Runs
  <2>4. cpuArt \in SUBSET BenchRow /\ BenchTypes  BY <2>2 DEF BenchInv, BenchTypes, Whole
  <2> DEFINE base == runs_from_results_json(cpuArt)
             fresh == load_runs
  <2>5. base \in SUBSET BenchRow /\ Keys(cpuArt) \subseteq Keys(base) /\ fresh \in SUBSET BenchRow
    BY <2>4, ResultsAreRows, LoadedRows
  <2>6. cpuArt' = merge_runs(base, fresh)  BY <2>3
  <2> HIDE DEF base, fresh
  <2>7. /\ Keys(base) \subseteq Keys(cpuArt')
        /\ \A r \in fresh : \E q \in cpuArt', p \in fresh :
              run_key(q) = run_key(r) /\ run_key(p) = run_key(r) /\ q.at = p.at
    BY <2>5, <2>6, MergeIs
  <2>8. Keys(cpuArt) \subseteq Keys(cpuArt')  BY <2>5, <2>7
  <2> QED  BY <2>7, <2>8 DEF Keys, fresh
<1> HIDE DEF Good
<1>2. BenchSpec => [][Good]_benchVars  BY <1>1, BenchInvHolds, PTL DEF BenchSpec
<1> QED  BY <1>2, PTL DEF MergeKeepsAndRenews, Good

\* The document's GPU rows are the GPU artifact's, and after a full GPU sweep
\* the CPU figure beside each is that of its own CPU table (build_gpu_results,
\* render_gpu).
THEOREM TablesAgree == BenchSpec => GpuTablesAgree
<1> DEFINE Good == doc' # doc /\ Whole(doc')
                   => /\ Whole(gpuArt') => doc'.gpu = gpuArt'
                      /\ job.call.gpu = "sweep" =>
                            \A g \in doc'.gpu : g.cpu = Baseline(doc'.cpu, g.shape)
<1>1. BenchInv /\ [BenchNext]_benchVars => [Good]_benchVars
  <2> SUFFICES ASSUME BenchInv, BenchNext, doc' # doc, Whole(doc')  PROVE Good
    BY DEF benchVars
  <2>1. WriteDoc
    <3>1. ~KillJob  BY KillJobKeeps DEF Whole
    <3>2. ~Collecting /\ ~WriteGpuJson /\ ~write_results_json
      BY CollectingKeeps, WriteGpuKeeps, WriteResultsKeeps
    <3>3. ~(\E call \in Calls, parity \in BOOLEAN : Generate(call, parity))  BY GenerateKeeps
    <3> QED  BY <3>1, <3>2, <3>3 DEF BenchNext, Collecting
  <2>2. /\ doc' = render(job.call, job.rows, job.gpu) /\ gpuArt' = gpuArt
        /\ Whole(gpuArt) => job.gpu = gpuArt
        /\ job.call.gpu = "sweep" => job.gpu = build_gpu_results(job.rows)
    BY <2>1, WriteDocKeeps
  <2>3. doc'.gpu = job.gpu /\ doc'.cpu = job.rows  BY <2>2 DEF render
  <2>4. \A g \in build_gpu_results(job.rows) : g.cpu = Baseline(job.rows, g.shape)
    BY DEF build_gpu_results
  <2> QED  BY <2>2, <2>3, <2>4
<1> HIDE DEF Good
<1>2. BenchSpec => [][Good]_benchVars  BY <1>1, BenchInvHolds, PTL DEF BenchSpec
<1> QED  BY <1>2, PTL DEF GpuTablesAgree, Good

-----------------------------------------------------------------------------
LEMMA InOrderIs ==
  ASSUME NEW H \in SUBSET Clips
  PROVE  /\ InOrder(H) \in Seq(Clips) /\ InOrder(H) \in Seq(Nat) /\ Len(InOrder(H)) = Cardinality(H)
         /\ IsFiniteSet(H) /\ Cardinality(H) \in Nat
<1>1. IsFiniteSet(Clips) /\ Clips \subseteq Nat
  <2>1. NClips \in Nat  BY Ssv2Assumption
  <2> QED  BY <2>1, FS_Interval DEF Clips
<1>2. IsFiniteSet(H) /\ Cardinality(H) \in Nat  BY <1>1, FS_Subset, FS_CardinalityType
<1>3. H \in SUBSET Nat  BY <1>1
<1>4. InOrder(H) \in [1..Cardinality(H) -> H]  BY <1>2, <1>3, InOrderOf
<1>5. InOrder(H) \in [1..Cardinality(H) -> Clips] /\ InOrder(H) \in [1..Cardinality(H) -> Nat]
  BY <1>1, <1>4
<1> QED  BY <1>2, <1>5

LEMMA WholeScope ==
  ASSUME NEW s \in Seq(Clips)
  PROVE  Sliced(s, "full") = s
<1>1. Scope["full"] = 1  BY Ssv2Assumption
<1>2. Len(s) \in Nat /\ s = [i \in 1..Len(s) |-> s[i]]  OBVIOUS
<1>3. (Len(s) + 1 - 1) \div 1 = Len(s)
  <2> DEFINE n == Len(s)
  <2>1. n \in Nat /\ n + 1 - 1 = n  BY <1>2
  <2> HIDE DEF n
  <2>2. n \div 1 = n  BY <2>1
  <2>3. (n + 1 - 1) \div 1 = n  BY <2>1, <2>2
  <2> QED  BY <2>3 DEF n
<1>4. \A i \in 1..Len(s) : (i - 1) * 1 + 1 = i  BY <1>2
<1>5. Every(s, 1) = [i \in 1..((Len(s) + 1 - 1) \div 1) |-> s[(i - 1) * 1 + 1]]  BY DEF Every
<1>6. Every(s, 1) = [i \in 1..Len(s) |-> s[i]]  BY <1>3, <1>4, <1>5
<1> QED  BY <1>1, <1>2, <1>6 DEF Sliced

-----------------------------------------------------------------------------
(***************************************************************************)
(* The sweep over Something-Something.  Recorded are the orders of the     *)
(* whole split that its files and its running stage hold.  As long as no   *)
(* index forgot a clip each is the beginning of an order of clips seen, so *)
(* one as long as clips.json is clips.json: what _run_rows compares is     *)
(* enough.                                                                 *)
(***************************************************************************)
Full == {t \in Tags : t.scope = "full"}
InHand == IF proc.stage \in {"torch", "cpp"} /\ proc.tag.scope = "full" THEN {proc.rows} ELSE {}
Recorded == {x \in {clips, lists["full"]} \cup {logits[t] : t \in Full} \cup InHand : Intact(x)}

Begins(x, S) == \E H \in SUBSET S : \E k \in 0..Cardinality(H) : x = SubSeq(InOrder(H), 1, k)
Fitting ==
    ~past.forgot =>
        /\ Intact(index) => Have(index) = past.seen
        /\ \A x \in Recorded : Begins(x, past.seen)
        /\ Intact(clips) => \A x \in Recorded : Len(x) = Len(clips) => x = clips
        /\ proc.stage = "lists" => /\ proc.rows = InOrder(past.seen)
                                   /\ Head(proc.left) # "clips.json" => clips = proc.rows

Stores ==
    /\ lists = [s \in DOMAIN Scope |-> lists[s]] /\ logits = [t \in Tags |-> logits[t]]
    /\ past \in [seen : SUBSET Clips, forgot : BOOLEAN, untimed : BOOLEAN]
    /\ Intact(index) => /\ index \in [recs : SUBSET FrameRecords, wall : BOOLEAN]
                        /\ Have(index) \subseteq cached /\ Have(index) \subseteq past.seen
    /\ Intact(clips) => clips \in Seq(Clips)

Working ==
    /\ proc.stage = "frames" =>
          /\ proc = [stage |-> "frames", recs |-> proc.recs, todo |-> proc.todo, prev |-> proc.prev]
          /\ proc.recs \in SUBSET FrameRecords /\ proc.todo \in SUBSET Clips
          /\ index # Half /\ proc.prev = IF index = Missing THEN NoIndex ELSE index
          /\ Have(proc) \subseteq cached
    /\ proc.stage = "lists" =>
          /\ proc = [stage |-> "lists", rows |-> proc.rows, left |-> proc.left]
          /\ proc.rows \in Seq(Clips)
          /\ proc.left \in Seq({"clips.json"} \cup DOMAIN Scope) /\ proc.left # <<>>
    /\ proc.stage \in {"torch", "cpp"} =>
          /\ proc = [stage |-> proc.stage, tag |-> proc.tag, rows |-> proc.rows]
          /\ proc.tag \in Tags
    /\ proc.stage \in {"json", "stamp"} => proc = [stage |-> proc.stage, tag |-> proc.tag]

\* A cache of which no killed pass decoded a part has its time in the index, or
\* in the pass that extends it.
Timed ==
    ~past.untimed /\ cached # {} =>
        \/ proc.stage = "frames" /\ (proc.prev.wall \/ Decoded)
        \/ proc.stage # "frames" /\ (index = Half \/ (Intact(index) /\ index.wall))

Shows(art) ==
    /\ art.facts.decoded \in Nat /\ art.facts.decoded <= Cardinality(past.seen)
    /\ ~past.forgot => \A r \in art.rows : r.of = "full" => r.data = r.as
KeepsFrom(art, old) ==
    /\ art.facts.decoded < old.facts.decoded => index # Missing /\ ~(past.seen \subseteq Have(index))
    /\ old.facts.wall /\ ~art.facts.wall => past.untimed
Reported ==
    /\ Intact(accuracy) => Shows(accuracy)
    /\ proc.stage = "report" => /\ Shows(proc.art)
                                /\ Intact(accuracy) => KeepsFrom(proc.art, accuracy)

Ssv2Inv == Stores /\ Working /\ Fitting /\ Timed /\ Reported

-----------------------------------------------------------------------------
LEMMA SeenIs ==
  ASSUME Stores
  PROVE  /\ past.seen \in SUBSET Clips /\ IsFiniteSet(past.seen) /\ Cardinality(past.seen) \in Nat
         /\ InOrder(past.seen) \in Seq(Clips)
<1>1. past.seen \in SUBSET Clips  BY DEF Stores
<1> QED  BY <1>1, InOrderIs

LEMMA HaveIsClips ==
  ASSUME Stores, Intact(index)
  PROVE  Have(index) \in SUBSET Clips /\ IsFiniteSet(Have(index)) /\ Cardinality(Have(index)) \in Nat
<1>1. index.recs \in SUBSET FrameRecords  BY DEF Stores
<1>2. Have(index) \in SUBSET Clips  BY <1>1 DEF Have, FrameRecords
<1> QED  BY <1>2, InOrderIs

\* An order begins with itself.
LEMMA OrderBegins ==
  ASSUME NEW S \in SUBSET Clips, NEW H \in SUBSET S
  PROVE  Begins(InOrder(H), S)
<1>1. H \in SUBSET Clips  OBVIOUS
<1>2. InOrder(H) \in Seq(Clips) /\ Len(InOrder(H)) = Cardinality(H) /\ Cardinality(H) \in Nat
  BY <1>1, InOrderIs
<1> DEFINE s == InOrder(H)
           n == Cardinality(H)
<1>3. SubSeq(s, 1, n) = s
  <2> HIDE DEF s
  <2> QED  BY <1>2 DEF s
<1>4. n \in 0..n  BY <1>2
<1> QED  BY <1>3, <1>4 DEF Begins

\* The beginning of an order of clips seen that is as long as the order of them
\* all is that order.
LEMMA LongestBeginning ==
  ASSUME NEW S \in SUBSET Clips, NEW x, Begins(x, S), Len(x) = Len(InOrder(S))
  PROVE  x = InOrder(S)
<1>0. PICK H \in SUBSET S : \E k \in 0..Cardinality(H) : x = SubSeq(InOrder(H), 1, k)  BY DEF Begins
<1>1. PICK k \in 0..Cardinality(H) : x = SubSeq(InOrder(H), 1, k)  BY <1>0
<1>2. H \in SUBSET Clips  OBVIOUS
<1>3. /\ InOrder(H) \in Seq(Clips) /\ Len(InOrder(H)) = Cardinality(H) /\ Cardinality(H) \in Nat
      /\ IsFiniteSet(S) /\ Len(InOrder(S)) = Cardinality(S) /\ Cardinality(S) \in Nat
  BY <1>2, InOrderIs
<1> DEFINE s == InOrder(H)
           n == Cardinality(H)
<1>4. Len(SubSeq(s, 1, k)) = k
  <2> HIDE DEF s
  <2>1. s \in Seq(Clips) /\ k \in 0..Len(s)  BY <1>1, <1>3 DEF s
  <2> QED  BY <2>1
<1>5. k = Cardinality(S) /\ k <= n /\ k \in Nat  BY <1>1, <1>3, <1>4
<1>6. n <= Cardinality(S) /\ (n = Cardinality(S) => H = S)  BY <1>3, FS_Subset
<1>7. n = Cardinality(S) /\ n = k  BY <1>3, <1>5, <1>6
<1>8. H = S  BY <1>6, <1>7
<1>9. SubSeq(s, 1, n) = s
  <2> HIDE DEF s
  <2> QED  BY <1>3 DEF s
<1> QED  BY <1>1, <1>7, <1>8, <1>9

LEMMA BeginsIs ==
  ASSUME NEW S \in SUBSET Clips, NEW x, Begins(x, S)
  PROVE  x \in Seq(Clips)
<1>0. PICK H \in SUBSET S : \E k \in 0..Cardinality(H) : x = SubSeq(InOrder(H), 1, k)  BY DEF Begins
<1>1. PICK k \in 0..Cardinality(H) : x = SubSeq(InOrder(H), 1, k)  BY <1>0
<1>2. H \in SUBSET Clips  OBVIOUS
<1>3. InOrder(H) \in Seq(Clips) /\ Len(InOrder(H)) = Cardinality(H) /\ Cardinality(H) \in Nat
  BY <1>2, InOrderIs
<1> DEFINE s == InOrder(H)
<1> HIDE DEF s
<1>4. s \in Seq(Clips) /\ k \in 0..Len(s)  BY <1>1, <1>3 DEF s
<1> QED  BY <1>1, <1>4 DEF s

LEMMA BeginsMore ==
  ASSUME NEW S, NEW T, S \subseteq T, NEW x, Begins(x, S)
  PROVE  Begins(x, T)
BY DEF Begins

\* No order of clips is the sign of a file that is not there or was cut short.
LEMMA AnOrderIsIntact ==
  ASSUME NEW s \in Seq(Clips)
  PROVE  Intact(s)
<1>1. Clips \subseteq Nat  BY Ssv2Assumption DEF Clips
<1>2. Len(s) \in Nat /\ s \in [1..Len(s) -> Clips]  OBVIOUS
<1>3. s \in [1..Len(s) -> Nat]  BY <1>1, <1>2
<1>4. s \in Seq(Nat)  BY <1>2, <1>3
<1> QED  BY <1>4, Ssv2Assumption DEF Intact

(***************************************************************************)
(* The parts that a step which leaves the frame cache and what is          *)
(* published of it alone keeps.                                            *)
(***************************************************************************)
Aside == /\ UNCHANGED <<cached, index, accuracy, past>>
         /\ proc.stage # "frames" /\ proc'.stage \notin {"frames", "report"}

LEMMA AsideKeeps ==
  ASSUME Ssv2Inv, Aside
  PROVE  Timed' /\ Reported'
<1>1. Timed'  BY DEF Ssv2Inv, Timed, Aside
<1>2. Reported'  BY DEF Ssv2Inv, Reported, Aside, Shows
<1> QED  BY <1>1, <1>2

\* A step that records nothing new.
LEMMA RecordedLess ==
  ASSUME Ssv2Inv, UNCHANGED <<index, past>>, Recorded' \subseteq Recorded,
         clips' = clips \/ ~Intact(clips'), proc'.stage # "lists"
  PROVE  Fitting'
BY DEF Ssv2Inv, Fitting

-----------------------------------------------------------------------------
(***************************************************************************)
(* The steps of frames.                                                    *)
(***************************************************************************)
LEMMA StartFramesKeeps ==
  ASSUME Ssv2Inv, StartFrames
  PROVE  Ssv2Inv'
<1>1. PICK n \in Limits :
        /\ index # Half /\ proc = NoStage
        /\ proc' = [stage |-> "frames", recs |-> {}, todo |-> 1..n,
                    prev |-> IF index = Missing THEN NoIndex ELSE index]
        /\ UNCHANGED <<cached, index, clips, lists, logits, meta, accuracy, past>>
  BY DEF StartFrames, Start, ssv2Results
<1>2. n \in Nat /\ n <= NClips /\ NClips \in Nat  BY Ssv2Assumption
<1>3. /\ proc' = [stage |-> "frames", recs |-> proc'.recs, todo |-> proc'.todo, prev |-> proc'.prev]
      /\ proc'.stage = "frames" /\ proc'.recs = {} /\ proc'.todo \in SUBSET Clips
      /\ proc'.prev = IF index = Missing THEN NoIndex ELSE index
  BY <1>1, <1>2 DEF Clips
<1>4. Have(proc') = {}  BY <1>3 DEF Have
<1>5. Stores' /\ Working'  BY <1>1, <1>3, <1>4 DEF Ssv2Inv, Stores, Working
<1>6. InHand' = {}  BY <1>3 DEF InHand
<1>7. Recorded' \subseteq Recorded  BY <1>1, <1>6 DEF Recorded
<1>8. Fitting'  BY <1>1, <1>3, <1>7, RecordedLess
<1>9. proc.stage = "idle"  BY <1>1 DEF NoStage
<1>10. Timed'
  <2>1. ~past.untimed /\ cached # {} => Intact(index) /\ index.wall
    BY <1>1, <1>9 DEF Ssv2Inv, Timed
  <2>2. Intact(index) => proc'.prev = index  BY <1>3 DEF Intact
  <2> QED  BY <1>1, <1>3, <2>1, <2>2 DEF Timed
<1>11. Reported'  BY <1>1, <1>3 DEF Ssv2Inv, Reported, Shows
<1> QED  BY <1>5, <1>8, <1>10, <1>11 DEF Ssv2Inv

LEMMA DecodeOneKeeps ==
  ASSUME Ssv2Inv, DecodeOne
  PROVE  Ssv2Inv'
<1>1. proc.stage = "frames" /\ UNCHANGED <<index, clips, lists, logits, meta, accuracy, past>>
  BY DEF DecodeOne, ssv2Results
<1>2. /\ proc = [stage |-> "frames", recs |-> proc.recs, todo |-> proc.todo, prev |-> proc.prev]
      /\ proc.recs \in SUBSET FrameRecords /\ proc.todo \in SUBSET Clips
      /\ index # Half /\ proc.prev = IF index = Missing THEN NoIndex ELSE index
      /\ Have(proc) \subseteq cached
  BY <1>1 DEF Ssv2Inv, Working
<1>a. PICK r \in FrameRecords :
        /\ r.id \in proc.todo /\ Done(r)
        /\ cached \subseteq cached' /\ (r.got # "error" => r.id \in cached')
        /\ (cached' # cached => r.got = "decoded")
  <2>1. PICK c \in proc.todo :
           \/ c \in cached /\ Done(Record(c, "cached", PrevWhole(proc.prev, c))) /\ UNCHANGED cached
           \/ c \notin cached /\ Done(Record(c, "error", FALSE)) /\ UNCHANGED cached
           \/ c \notin cached /\ Done(Record(c, "decoded", TRUE)) /\ cached' = cached \cup {c}
    BY DEF DecodeOne
  <2>2. c \in Clips  BY <1>2
  <2>3. PrevWhole(proc.prev, c) \in BOOLEAN  BY DEF PrevWhole
  <2> HIDE DEF PrevWhole
  <2>4. \A g \in {"cached", "error", "decoded"}, w \in BOOLEAN :
           /\ Record(c, g, w) \in FrameRecords /\ Record(c, g, w).id = c /\ Record(c, g, w).got = g
    BY <2>2 DEF Record, FrameRecords
  <2>5. CASE c \in cached /\ Done(Record(c, "cached", PrevWhole(proc.prev, c))) /\ UNCHANGED cached
    <3> DEFINE w == PrevWhole(proc.prev, c)
               r == Record(c, "cached", w)
    <3>1. r \in FrameRecords /\ r.id = c /\ r.got = "cached"  BY <2>3, <2>4
    <3>2. Done(r) /\ c \in cached' /\ cached' = cached  BY <2>5
    <3> HIDE DEF r
    <3> QED  BY <2>1, <3>1, <3>2
  <2>6. CASE c \notin cached /\ Done(Record(c, "error", FALSE)) /\ UNCHANGED cached
    <3> DEFINE r == Record(c, "error", FALSE)
    <3>1. r \in FrameRecords /\ r.id = c /\ r.got = "error"  BY <2>4
    <3>2. Done(r) /\ cached' = cached  BY <2>6
    <3> HIDE DEF r
    <3> QED  BY <2>1, <3>1, <3>2
  <2>7. CASE c \notin cached /\ Done(Record(c, "decoded", TRUE)) /\ cached' = cached \cup {c}
    <3> DEFINE r == Record(c, "decoded", TRUE)
    <3>1. r \in FrameRecords /\ r.id = c /\ r.got = "decoded"  BY <2>4
    <3>2. Done(r) /\ cached' = cached \cup {c}  BY <2>7
    <3> HIDE DEF r
    <3> QED  BY <2>1, <3>1, <3>2
  <2> QED  BY <2>1, <2>5, <2>6, <2>7
<1> DEFINE c == r.id
<1>b. /\ c \in proc.todo /\ cached \subseteq cached' /\ (r.got # "error" => c \in cached')
      /\ (cached' # cached => r.got = "decoded")
  BY <1>a
<1>c. proc' = [proc EXCEPT !.todo = @ \ {c}, !.recs = @ \cup {r}]  BY <1>a DEF Done
<1>d. c = r.id  OBVIOUS
<1> HIDE DEF c
<1>3. /\ c \in proc.todo /\ r.id = c /\ r \in FrameRecords
      /\ proc' = [proc EXCEPT !.todo = @ \ {c}, !.recs = @ \cup {r}]
      /\ cached \subseteq cached' /\ (r.got # "error" => c \in cached')
      /\ (cached' # cached => r.got = "decoded")
  BY <1>a, <1>b, <1>c, <1>d
<1>4. /\ proc' = [stage |-> "frames", recs |-> proc'.recs, todo |-> proc'.todo, prev |-> proc'.prev]
      /\ proc'.recs = proc.recs \cup {r} /\ proc'.todo = proc.todo \ {c} /\ proc'.prev = proc.prev
      /\ proc'.stage = "frames"
  <2>1. proc = [stage |-> "frames", recs |-> proc.recs, todo |-> proc.todo, prev |-> proc.prev]
    BY <1>2
  <2>2. proc' = [proc EXCEPT !.todo = @ \ {c}, !.recs = @ \cup {r}]  BY <1>3
  <2>3. proc' = [stage |-> "frames", recs |-> proc.recs \cup {r}, todo |-> proc.todo \ {c},
                 prev |-> proc.prev]
    <3> DEFINE newTodo == proc.todo \ {c}
               newRecs == proc.recs \cup {r}
               half == [proc EXCEPT !.todo = newTodo]
    <3>1. proc' = [half EXCEPT !.recs = newRecs]  BY <2>2
    <3> HIDE DEF newTodo, newRecs
    <3>2. half = [stage |-> "frames", recs |-> proc.recs, todo |-> newTodo, prev |-> proc.prev]
      BY <2>1
    <3> HIDE DEF half
    <3>3. proc' = [stage |-> "frames", recs |-> newRecs, todo |-> newTodo, prev |-> proc.prev]
      BY <3>1, <3>2
    <3> QED  BY <3>3 DEF newTodo, newRecs
  <2> QED  BY <2>3
<1>5. Have(proc') \subseteq Have(proc) \cup (IF r.got = "error" THEN {} ELSE {c})
  BY <1>3, <1>4 DEF Have
<1>6. Have(proc') \subseteq cached'  BY <1>2, <1>3, <1>5
<1>7. Stores'  BY <1>1, <1>3 DEF Ssv2Inv, Stores
<1>8. Working'  BY <1>1, <1>2, <1>4, <1>6 DEF Working
<1>9. InHand' = {}  BY <1>4 DEF InHand
<1>10. Recorded' \subseteq Recorded  BY <1>1, <1>9 DEF Recorded
<1>11. Fitting'  BY <1>1, <1>4, <1>10, RecordedLess
<1>12. Timed'
  <2>1. Decoded => Decoded'  BY <1>4 DEF Decoded
  <2>2. cached' # cached => Decoded'  BY <1>3, <1>4 DEF Decoded
  <2>3. ~past.untimed /\ cached # {} => proc.prev.wall \/ Decoded  BY <1>1 DEF Ssv2Inv, Timed
  <2>4. ~past.untimed /\ cached' # {} => proc'.prev.wall \/ Decoded'  BY <1>4, <2>1, <2>2, <2>3
  <2> QED  BY <1>1, <1>4, <2>4 DEF Timed
<1>13. Reported'  BY <1>1, <1>4 DEF Ssv2Inv, Reported, Shows
<1> QED  BY <1>7, <1>8, <1>11, <1>12, <1>13 DEF Ssv2Inv

\* What is published stays true of a cache of which more was seen.
LEMMA ShowsStay ==
  ASSUME Ssv2Inv, Stores', past.seen \subseteq past'.seen, past.forgot => past'.forgot,
         accuracy' = accuracy, proc'.stage # "report"
  PROVE  Reported'
<1>1. /\ past'.seen \in SUBSET Clips /\ IsFiniteSet(past'.seen) /\ Cardinality(past'.seen) \in Nat
      /\ Cardinality(past.seen) \in Nat
  <2>1. past'.seen \in SUBSET Clips  BY DEF Stores
  <2> QED  BY <2>1, InOrderIs, SeenIs DEF Ssv2Inv
<1>2. Cardinality(past.seen) <= Cardinality(past'.seen)  BY <1>1, FS_Subset
<1>3. ASSUME Intact(accuracy)  PROVE Shows(accuracy)'
  <2>1. Shows(accuracy)  BY <1>3 DEF Ssv2Inv, Reported
  <2>2. accuracy.facts.decoded \in Nat /\ accuracy.facts.decoded <= Cardinality(past.seen)
    BY <2>1 DEF Shows
  <2>3. accuracy.facts.decoded <= Cardinality(past'.seen)  BY <1>1, <1>2, <2>2
  <2>4. ~past'.forgot => \A r \in accuracy.rows : r.of = "full" => r.data = r.as
    BY <2>1 DEF Shows
  <2> QED  BY <2>2, <2>3, <2>4 DEF Shows
<1> QED  BY <1>3 DEF Reported, Intact

LEMMA WriteIndexKeeps ==
  ASSUME Ssv2Inv, WriteIndex
  PROVE  Ssv2Inv' /\ UNCHANGED accuracy
<1>1. /\ proc.stage = "frames" /\ proc.todo = {} /\ proc' = NoStage
      /\ index' = [recs |-> proc.recs, wall |-> proc.prev.wall \/ Decoded]
      /\ past' = [past EXCEPT !.seen = @ \cup Have(proc), !.forgot = @ \/ ~(past.seen \subseteq Have(proc))]
      /\ UNCHANGED <<cached, clips, lists, logits, meta, accuracy>>
  BY DEF WriteIndex, ssv2Results
<1>2. /\ proc.recs \in SUBSET FrameRecords
      /\ index # Half /\ proc.prev = IF index = Missing THEN NoIndex ELSE index
      /\ Have(proc) \subseteq cached
  BY <1>1 DEF Ssv2Inv, Working
<1>3. Have(proc) \in SUBSET Clips  BY <1>2 DEF Have, FrameRecords
<1>4. /\ past' \in [seen : SUBSET Clips, forgot : BOOLEAN, untimed : BOOLEAN]
      /\ past'.seen = past.seen \cup Have(proc)
      /\ past'.forgot <=> past.forgot \/ ~(past.seen \subseteq Have(proc))
      /\ past'.untimed <=> past.untimed
  <2> DEFINE newSeen == past.seen \cup Have(proc)
             newForgot == past.forgot \/ ~(past.seen \subseteq Have(proc))
             half == [past EXCEPT !.seen = newSeen]
  <2>1. past \in [seen : SUBSET Clips, forgot : BOOLEAN, untimed : BOOLEAN]  BY DEF Ssv2Inv, Stores
  <2>2. past' = [half EXCEPT !.forgot = newForgot]  BY <1>1, <2>1
  <2>3. newSeen \in SUBSET Clips /\ newForgot \in BOOLEAN  BY <1>3, <2>1
  <2> HIDE DEF newSeen, newForgot
  <2>4. /\ half \in [seen : SUBSET Clips, forgot : BOOLEAN, untimed : BOOLEAN]
        /\ half.seen = newSeen /\ half.forgot = past.forgot /\ half.untimed = past.untimed
    BY <2>1, <2>3
  <2> HIDE DEF half
  <2>5. /\ past' \in [seen : SUBSET Clips, forgot : BOOLEAN, untimed : BOOLEAN]
        /\ past'.seen = newSeen /\ past'.forgot = newForgot /\ past'.untimed = past.untimed
    BY <2>2, <2>3, <2>4
  <2> QED  BY <2>5 DEF newSeen, newForgot
<1>5. index' \in [recs : SUBSET FrameRecords, wall : BOOLEAN] /\ index'.recs = proc.recs
      /\ (index'.wall <=> proc.prev.wall \/ Decoded)
  <2> DEFINE w == proc.prev.wall \/ Decoded
  <2>1. w \in BOOLEAN  OBVIOUS
  <2>2. index' = [recs |-> proc.recs, wall |-> w]  BY <1>1
  <2> HIDE DEF w
  <2>3. index' \in [recs : SUBSET FrameRecords, wall : BOOLEAN] /\ index'.recs = proc.recs /\ index'.wall = w
    BY <1>2, <2>1, <2>2
  <2> QED  BY <2>3 DEF w
<1>6. Have(index') = Have(proc)  BY <1>5 DEF Have
<1>7. proc'.stage = "idle"  BY <1>1 DEF NoStage
<1>8. Stores'
  <2>1. lists' = [s \in DOMAIN Scope |-> lists'[s]] /\ logits' = [t \in Tags |-> logits'[t]]
    BY <1>1 DEF Ssv2Inv, Stores
  <2>2. Intact(clips') => clips' \in Seq(Clips)  BY <1>1 DEF Ssv2Inv, Stores
  <2>a. cached' = cached  BY <1>1, Zenon
  <2>b. past'.seen = past.seen \cup Have(proc)  BY <1>4, Zenon
  <2>c. Have(proc) \subseteq cached  BY <1>2, Zenon
  <2>3. Have(index') \subseteq cached' /\ Have(index') \subseteq past'.seen  BY <2>a, <2>b, <2>c, <1>6
  <2>4. Intact(index') => /\ index' \in [recs : SUBSET FrameRecords, wall : BOOLEAN]
                          /\ Have(index') \subseteq cached' /\ Have(index') \subseteq past'.seen
    BY <1>5, <2>3
  <2>5. past' \in [seen : SUBSET Clips, forgot : BOOLEAN, untimed : BOOLEAN]  BY <1>4
  <2> QED  BY <2>1, <2>2, <2>4, <2>5 DEF Stores, Intact
<1>9. Working'  BY <1>7 DEF Working
<1>10. InHand' = {} /\ InHand = {}  BY <1>1, <1>7 DEF InHand
<1>11. Recorded' = Recorded  BY <1>1, <1>10 DEF Recorded
<1>12. Fitting'
  <2> SUFFICES ASSUME ~past'.forgot  PROVE Fitting'  BY DEF Fitting
  <2>1. ~past.forgot /\ past.seen \subseteq Have(proc)  BY <1>4
  <2>2. past'.seen = Have(proc) /\ past.seen \subseteq past'.seen  BY <1>4, <2>1
  <2>3. \A x \in Recorded' : Begins(x, past'.seen)
    BY <1>11, <2>1, <2>2, BeginsMore DEF Ssv2Inv, Fitting
  <2>4. Intact(clips') => \A x \in Recorded' : Len(x) = Len(clips') => x = clips'
    BY <1>1, <1>11, <2>1 DEF Ssv2Inv, Fitting
  <2> QED  BY <1>6, <1>7, <2>2, <2>3, <2>4 DEF Fitting
<1>13. Timed'
  <2>a. ~past.untimed /\ cached # {} => proc.prev.wall \/ Decoded
    BY <1>1 DEF Ssv2Inv, Timed
  <2>b. (past'.untimed <=> past.untimed) /\ cached' = cached  BY <1>1, <1>4, Zenon
  <2>1. ~past'.untimed /\ cached' # {} => proc.prev.wall \/ Decoded
    BY <2>a, <2>b
  <2>2. Intact(index)'  BY <1>5, Ssv2Assumption DEF Intact
  <2>3. ~past'.untimed /\ cached' # {} => index'.wall  BY <1>5, <2>1
  <2> QED  BY <1>7, <2>2, <2>3 DEF Timed
<1>14. Reported'
  <2>1. past.seen \subseteq past'.seen /\ (past.forgot => past'.forgot)  BY <1>4
  <2>2. proc'.stage # "report" /\ accuracy' = accuracy  BY <1>1, <1>7
  <2> QED  BY <1>8, <2>1, <2>2, ShowsStay
<1> QED  BY <1>1, <1>8, <1>9, <1>12, <1>13, <1>14 DEF Ssv2Inv

LEMMA DropCacheKeeps ==
  ASSUME Ssv2Inv, DropCache
  PROVE  Ssv2Inv' /\ UNCHANGED accuracy
<1>1. /\ proc = NoStage /\ cached' = {} /\ index' = Missing
      /\ past' = [past EXCEPT !.untimed = FALSE]
      /\ UNCHANGED <<clips, lists, logits, meta, accuracy, proc>>
  BY DEF DropCache, ssv2Results
<1>2. /\ past' \in [seen : SUBSET Clips, forgot : BOOLEAN, untimed : BOOLEAN]
      /\ past'.seen = past.seen /\ past'.forgot = past.forgot
  <2>1. past \in [seen : SUBSET Clips, forgot : BOOLEAN, untimed : BOOLEAN]  BY DEF Ssv2Inv, Stores
  <2> QED  BY <1>1, <2>1
<1>3. proc'.stage = "idle" /\ ~Intact(index')  BY <1>1 DEF NoStage, Intact
<1>4. Stores'  BY <1>1, <1>2, <1>3 DEF Ssv2Inv, Stores, Intact
<1>5. Working'  BY <1>3 DEF Working
<1>6. Recorded' = Recorded  BY <1>1 DEF Recorded, InHand
<1>7. Fitting'  BY <1>1, <1>2, <1>3, <1>6 DEF Ssv2Inv, Fitting, Intact
<1>8. Timed'  BY <1>1 DEF Timed
<1>9. Reported'  BY <1>1, <1>2, <1>3, <1>4, ShowsStay
<1> QED  BY <1>1, <1>4, <1>5, <1>7, <1>8, <1>9 DEF Ssv2Inv

-----------------------------------------------------------------------------
(***************************************************************************)
(* The steps of lists.                                                     *)
(***************************************************************************)
LEMMA StartListsKeeps ==
  ASSUME Ssv2Inv, StartLists
  PROVE  Ssv2Inv' /\ UNCHANGED accuracy
<1>1. /\ Intact(index) /\ proc = NoStage
      /\ proc' = [stage |-> "lists", rows |-> Rows(index), left |-> ListFiles]
      /\ UNCHANGED <<cached, index, clips, lists, logits, meta, accuracy, past>>
  BY DEF StartLists, Start, ssv2Results
<1>2. /\ proc' = [stage |-> "lists", rows |-> proc'.rows, left |-> proc'.left]
      /\ proc'.stage = "lists" /\ proc'.rows = InOrder(Have(index)) /\ proc'.left = ListFiles
  BY <1>1 DEF Rows
<1>3. Have(index) \in SUBSET Clips  BY <1>1, HaveIsClips DEF Ssv2Inv
<1>4. proc'.rows \in Seq(Clips)  BY <1>2, <1>3, InOrderIs
<1>5. /\ proc'.left \in Seq({"clips.json"} \cup DOMAIN Scope) /\ proc'.left # <<>>
      /\ Head(proc'.left) = "clips.json"
  BY <1>2, Ssv2Assumption
<1>6. Stores'  BY <1>1 DEF Ssv2Inv, Stores
<1>7. Working'  BY <1>2, <1>4, <1>5 DEF Working
<1>8. Recorded' \subseteq Recorded
  <2>1. InHand' = {}  BY <1>2 DEF InHand
  <2> QED  BY <1>1, <2>1 DEF Recorded
<1>9. Fitting'
  <2> SUFFICES ASSUME ~past.forgot  PROVE Fitting'  BY <1>1 DEF Fitting
  <2>1. Have(index) = past.seen  BY <1>1 DEF Ssv2Inv, Fitting
  <2>2. \A x \in Recorded' : Begins(x, past'.seen)  BY <1>1, <1>8 DEF Ssv2Inv, Fitting
  <2>3. Intact(clips') => \A x \in Recorded' : Len(x) = Len(clips') => x = clips'
    BY <1>1, <1>8 DEF Ssv2Inv, Fitting
  <2>4. Have(index') = past'.seen /\ proc'.rows = InOrder(past'.seen)  BY <1>1, <1>2, <2>1
  <2> QED  BY <1>5, <2>2, <2>3, <2>4 DEF Fitting
<1>10. Timed' /\ Reported'
  <2>1. Aside  BY <1>1, <1>2 DEF Aside, NoStage
  <2> QED  BY <2>1, AsideKeeps
<1> QED  BY <1>1, <1>6, <1>7, <1>9, <1>10 DEF Ssv2Inv

LEMMA WriteListsKeeps ==
  ASSUME Ssv2Inv, WriteLists
  PROVE  Ssv2Inv' /\ UNCHANGED accuracy
<1> DEFINE f == Head(proc.left)
<1>1. /\ proc.stage = "lists" /\ UNCHANGED <<cached, index, logits, meta, accuracy, past>>
      /\ IF f = "clips.json" THEN clips' = proc.rows /\ UNCHANGED lists
         ELSE lists' = [lists EXCEPT ![f] = Sliced(proc.rows, f)] /\ UNCHANGED clips
      /\ proc' = IF Len(proc.left) = 1 THEN NoStage ELSE [proc EXCEPT !.left = Tail(@)]
  BY DEF WriteLists, ssv2Results
<1>2. /\ proc = [stage |-> "lists", rows |-> proc.rows, left |-> proc.left]
      /\ proc.rows \in Seq(Clips)
      /\ proc.left \in Seq({"clips.json"} \cup DOMAIN Scope) /\ proc.left # <<>>
      /\ lists = [s \in DOMAIN Scope |-> lists[s]]
  BY <1>1 DEF Ssv2Inv, Stores, Working
<1>3. Intact(proc.rows)  BY <1>2, AnOrderIsIntact
<1>4. \/ proc'.stage = "idle"
      \/ /\ proc' = [stage |-> "lists", rows |-> proc'.rows, left |-> proc'.left] /\ proc'.stage = "lists"
         /\ proc'.rows = proc.rows
         /\ proc'.left \in Seq({"clips.json"} \cup DOMAIN Scope) /\ proc'.left # <<>>
  <2>1. CASE Len(proc.left) = 1  BY <1>1, <2>1 DEF NoStage
  <2>2. CASE Len(proc.left) # 1
    <3> DEFINE rest == Tail(proc.left)
    <3>1. rest \in Seq({"clips.json"} \cup DOMAIN Scope) /\ rest # <<>>
      <4> DEFINE S == {"clips.json"} \cup DOMAIN Scope
      <4>1. proc.left \in Seq(S) /\ proc.left # <<>>  BY <1>2
      <4> HIDE DEF S
      <4>2. Tail(proc.left) \in Seq(S) /\ Len(Tail(proc.left)) = Len(proc.left) - 1 /\ Len(proc.left) \in Nat
        BY <4>1, HeadTailProperties
      <4>3. Len(Tail(proc.left)) # 0  BY <2>2, <4>2
      <4> QED  BY <4>2, <4>3, EmptySeq DEF S
    <3>2. proc' = [proc EXCEPT !.left = rest]  BY <1>1, <2>2
    <3> HIDE DEF rest
    <3>3. proc' = [stage |-> "lists", rows |-> proc.rows, left |-> rest]  BY <1>2, <3>2
    <3> QED  BY <3>1, <3>3
  <2> QED  BY <2>1, <2>2
<1>5. lists' = [s \in DOMAIN Scope |-> lists'[s]] /\ clips' \in {clips, proc.rows}
  <2> HIDE DEF f
  <2> QED  BY <1>1, <1>2
<1>6. Stores'
  <2>1. Intact(clips') => clips' \in Seq(Clips)  BY <1>2, <1>5 DEF Ssv2Inv, Stores
  <2> QED  BY <1>1, <1>5, <2>1 DEF Ssv2Inv, Stores
<1>7. Working'  BY <1>2, <1>4 DEF Working
<1>8. Timed' /\ Reported'
  <2>1. Aside  BY <1>1, <1>4 DEF Aside
  <2> QED  BY <2>1, AsideKeeps
<1>9. Recorded' \subseteq Recorded \cup {proc.rows}
  <2>1. InHand' = {}  BY <1>4 DEF InHand
  <2>2. lists'["full"] \in {lists["full"], proc.rows}
    <3>1. "full" \in DOMAIN Scope  BY Ssv2Assumption
    <3>2. f = "full" => Sliced(proc.rows, f) = proc.rows  BY <1>2, WholeScope
    <3> HIDE DEF f
    <3>3. lists' = lists \/ lists' = [lists EXCEPT ![f] = Sliced(proc.rows, f)]  BY <1>1
    <3>4. lists' = [lists EXCEPT ![f] = Sliced(proc.rows, f)] => lists'["full"] \in {lists["full"], proc.rows}
      BY <1>2, <3>1, <3>2
    <3> QED  BY <3>3, <3>4
  <2>3. logits' = logits  BY <1>1
  <2> QED  BY <1>5, <2>1, <2>2, <2>3 DEF Recorded
\* clips.json is written first: from then on it holds the rows of the stage.
<1>10. ASSUME ~past.forgot
       PROVE  /\ proc.rows = InOrder(past.seen) /\ clips' = proc.rows
              /\ \A x \in Recorded' : Begins(x, past.seen) /\ (Len(x) = Len(clips') => x = clips')
  <2>1. /\ proc.rows = InOrder(past.seen) /\ (f # "clips.json" => clips = proc.rows)
        /\ \A x \in Recorded : Begins(x, past.seen)
    BY <1>1, <1>10 DEF Ssv2Inv, Fitting
  <2>2. past.seen \in SUBSET Clips  BY SeenIs DEF Ssv2Inv
  <2>3. clips' = proc.rows
    <3> HIDE DEF f
    <3> QED  BY <1>1, <2>1
  <2>4. Begins(proc.rows, past.seen)  BY <2>1, <2>2, OrderBegins
  <2>5. \A x \in Recorded' : Begins(x, past.seen)  BY <1>9, <2>1, <2>4
  <2>6. \A x \in Recorded' : Len(x) = Len(clips') => x = clips'
    BY <2>1, <2>2, <2>3, <2>5, LongestBeginning
  <2> QED  BY <2>1, <2>3, <2>5, <2>6
<1>11. Fitting'
  <2>1. ~past'.forgot /\ Intact(index') => Have(index') = past'.seen  BY <1>1 DEF Ssv2Inv, Fitting
  <2>2. ~past'.forgot /\ proc'.stage = "lists" => proc'.rows = InOrder(past'.seen) /\ clips' = proc'.rows
    BY <1>1, <1>4, <1>10
  <2>3. ~past'.forgot => \A x \in Recorded' : Begins(x, past'.seen) /\ (Len(x) = Len(clips') => x = clips')
    BY <1>1, <1>10
  <2> QED  BY <2>1, <2>2, <2>3 DEF Fitting
<1> QED  BY <1>1, <1>6, <1>7, <1>8, <1>11 DEF Ssv2Inv

-----------------------------------------------------------------------------
(***************************************************************************)
(* The steps of torch and cpp.                                             *)
(***************************************************************************)
LEMMA RunOverKeeps ==
  ASSUME Ssv2Inv, NEW t \in Tags, NEW rows, RunOver(t, rows), t.eng \in {"torch", "cpp"},
         t.scope = "full" => rows \in {clips, lists["full"]} /\ Intact(rows)
  PROVE  Ssv2Inv' /\ UNCHANGED accuracy
<1>1. /\ proc = NoStage /\ proc' = [stage |-> t.eng, tag |-> t, rows |-> rows]
      /\ UNCHANGED <<cached, index, clips, lists, logits, meta, accuracy, past>>
  BY DEF RunOver, Start, ssv2Results
<1>2. /\ proc' = [stage |-> proc'.stage, tag |-> proc'.tag, rows |-> proc'.rows]
      /\ proc'.stage \in {"torch", "cpp"} /\ proc'.tag = t /\ proc'.rows = rows
  BY <1>1
<1>3. InHand' \subseteq (IF t.scope = "full" THEN {rows} ELSE {})  BY <1>2 DEF InHand
<1>4. Recorded' \subseteq Recorded  BY <1>1, <1>3 DEF Recorded
<1>5. Stores'  BY <1>1 DEF Ssv2Inv, Stores
<1>6. Working'  BY <1>2 DEF Working
<1>7. Fitting'  BY <1>1, <1>2, <1>4, RecordedLess
<1>8. Timed' /\ Reported'
  <2>1. Aside  BY <1>1, <1>2 DEF Aside, NoStage
  <2> QED  BY <2>1, AsideKeeps
<1> QED  BY <1>1, <1>5, <1>6, <1>7, <1>8 DEF Ssv2Inv

LEMMA StartRunKeeps ==
  ASSUME Ssv2Inv, StartTorch \/ StartCpp
  PROVE  Ssv2Inv' /\ UNCHANGED accuracy
<1>1. CASE StartTorch
  <2>1. PICK t \in Tags : t.eng = "torch" /\ RunOver(t, Sliced(clips, t.scope))
    BY <1>1 DEF StartTorch
  <2>2. Intact(clips) /\ clips \in Seq(Clips)  BY <2>1 DEF RunOver, Ssv2Inv, Stores
  <2>3. t.scope = "full" => Sliced(clips, t.scope) = clips  BY <2>2, WholeScope
  <2> QED  BY <2>1, <2>2, <2>3, RunOverKeeps
<1>2. CASE StartCpp
  <2>1. PICK t \in Tags : t.eng = "cpp" /\ Intact(lists[t.scope]) /\ RunOver(t, lists[t.scope])
    BY <1>2 DEF StartCpp
  <2> QED  BY <2>1, RunOverKeeps
<1> QED  BY <1>1, <1>2

LEMMA SaveLogitsKeeps ==
  ASSUME Ssv2Inv, SaveLogits
  PROVE  Ssv2Inv' /\ UNCHANGED accuracy
<1>1. /\ proc.stage \in {"torch", "cpp"} /\ logits' = [logits EXCEPT ![proc.tag] = proc.rows]
      /\ proc' = [stage |-> IF proc.stage = "cpp" THEN "json" ELSE "stamp", tag |-> proc.tag]
      /\ UNCHANGED <<cached, index, clips, lists, meta, accuracy, past>>
  BY DEF SaveLogits
<1>2. proc.tag \in Tags /\ logits = [t \in Tags |-> logits[t]]
  BY <1>1 DEF Ssv2Inv, Stores, Working
<1>3. \A t \in Tags : logits'[t] = IF t = proc.tag THEN proc.rows ELSE logits[t]  BY <1>1, <1>2
<1>4. logits' = [t \in Tags |-> logits'[t]]  BY <1>1, <1>2
<1>5. proc' = [stage |-> proc'.stage, tag |-> proc'.tag] /\ proc'.stage \in {"json", "stamp"}
  BY <1>1
<1>6. Recorded' \subseteq Recorded
  <2>1. InHand' = {}  BY <1>5 DEF InHand
  <2>2. proc.tag.scope = "full" => InHand = {proc.rows}  BY <1>1 DEF InHand
  <2>3. \A t \in Full : logits'[t] \in {logits[t]} \cup InHand  BY <1>3, <2>2 DEF Full
  <2> QED  BY <1>1, <2>1, <2>3 DEF Recorded
<1>7. Stores'  BY <1>1, <1>4 DEF Ssv2Inv, Stores
<1>8. Working'  BY <1>5 DEF Working
<1>9. Fitting'  BY <1>1, <1>5, <1>6, RecordedLess
<1>10. Timed' /\ Reported'
  <2>1. Aside  BY <1>1, <1>5 DEF Aside
  <2> QED  BY <2>1, AsideKeeps
<1> QED  BY <1>1, <1>7, <1>8, <1>9, <1>10 DEF Ssv2Inv

LEMMA StampKeeps ==
  ASSUME Ssv2Inv, StampMeta
  PROVE  Ssv2Inv' /\ UNCHANGED accuracy
<1>1. /\ proc.stage \in {"json", "stamp"}
      /\ proc' = IF proc.stage = "json" THEN [proc EXCEPT !.stage = "stamp"] ELSE NoStage
      /\ UNCHANGED <<cached, index, clips, lists, logits, accuracy, past>>
  BY DEF StampMeta
<1>2. proc = [stage |-> proc.stage, tag |-> proc.tag]  BY <1>1 DEF Ssv2Inv, Working
<1>3. \/ proc'.stage = "idle"
      \/ proc' = [stage |-> proc'.stage, tag |-> proc'.tag] /\ proc'.stage = "stamp"
  <2>1. CASE proc.stage = "json"
    <3>1. proc' = [stage |-> "stamp", tag |-> proc.tag]  BY <1>1, <1>2, <2>1
    <3> QED  BY <3>1
  <2>2. CASE proc.stage # "json"  BY <1>1, <2>2 DEF NoStage
  <2> QED  BY <2>1, <2>2
<1>4. Recorded' \subseteq Recorded
  <2>1. InHand' = {}  BY <1>3 DEF InHand
  <2> QED  BY <1>1, <2>1 DEF Recorded
<1>5. Stores'  BY <1>1 DEF Ssv2Inv, Stores
<1>6. Working'  BY <1>3 DEF Working
<1>7. Fitting'  BY <1>1, <1>3, <1>4, RecordedLess
<1>8. Timed' /\ Reported'
  <2>1. Aside  BY <1>1, <1>3 DEF Aside
  <2> QED  BY <2>1, AsideKeeps
<1> QED  BY <1>1, <1>5, <1>6, <1>7, <1>8 DEF Ssv2Inv

-----------------------------------------------------------------------------
(***************************************************************************)
(* The steps of report.                                                    *)
(***************************************************************************)
\* What a report takes of the frame cache, when it still shows one.
LEMMA FactsOfTheCache ==
  ASSUME Ssv2Inv, proc.stage = "idle", Intact(index), Have(index) # {}
  PROVE  /\ FrameFacts.decoded = Cardinality(Have(index))
         /\ FrameFacts.wall \/ past.untimed
<1> DEFINE m == Manifest(index)
           n == Cardinality(Have(index))
<1>1. index # Missing /\ index # Half  BY DEF Intact
<1>2. FrameFacts = [decoded |-> n, wall |-> index.wall, whole |-> m]  BY <1>1 DEF FrameFacts
<1> HIDE DEF m, n
<1>3. FrameFacts.decoded = n /\ FrameFacts.wall = index.wall  BY <1>2
<1>4. Have(index) \subseteq cached  BY DEF Ssv2Inv, Stores
<1>5. cached # {}  BY <1>4
<1>6. index.wall \/ past.untimed  BY <1>1, <1>5 DEF Ssv2Inv, Timed
<1>7. FrameFacts.decoded = Cardinality(Have(index))  BY <1>3 DEF n
<1> QED  BY <1>3, <1>6, <1>7, Zenon

\* What it takes when the cache is gone.
LEMMA FactsCarried ==
  ASSUME Ssv2Inv, index # Half, ~(Intact(index) /\ Have(index) # {})
  PROVE  FrameFacts = IF accuracy # Missing THEN accuracy.facts ELSE NoFacts
<1>1. Have(NoIndex) = {}  BY DEF NoIndex, Have
<1>2. index # Missing => Have(index) = {}  BY DEF Intact
<1> QED  BY <1>1, <1>2 DEF FrameFacts

LEMMA StartReportKeeps ==
  ASSUME Ssv2Inv, StartReport
  PROVE  Ssv2Inv' /\ UNCHANGED accuracy
<1> DEFINE rows == MeasuredRows \cup DerivedRows \cup ReferenceRows
           facts == FrameFacts
<1>1. /\ Intact(clips) /\ index # Half /\ accuracy # Half
      /\ \A t \in Tags : logits[t] # Half
      /\ \A t \in FullRefs : Len(logits[t]) = Len(clips)
      /\ proc = NoStage
      /\ proc' = [stage |-> "report", art |-> [rows |-> rows, facts |-> facts]]
      /\ UNCHANGED <<cached, index, clips, lists, logits, meta, accuracy, past>>
  BY DEF StartReport, Start, ssv2Results
<1>2. proc.stage = "idle"  BY <1>1 DEF NoStage
<1>3. ASSUME ~past.forgot  PROVE \A r \in rows : r.of = "full" => r.data = r.as
  <2>1. clips \in Seq(Clips)  BY <1>1 DEF Ssv2Inv, Stores
  <2>2. Sliced(clips, "full") = clips  BY <2>1, WholeScope
  <2>3. \A x \in Recorded : Len(x) = Len(clips) => x = clips  BY <1>1, <1>3 DEF Ssv2Inv, Fitting
  <2>4. \A t \in Full : logits[t] # Missing => logits[t] \in Recorded
    BY <1>1 DEF Recorded, Intact, Full
  <2>5. \A t \in Scored : t.scope = "full" => logits[t] = clips  BY <2>2, <2>3, <2>4 DEF Scored, Full
  <2>6. \A t \in FullRefs : logits[t] = clips  BY <1>1, <2>3, <2>4 DEF FullRefs, Ran, Full
  <2>7. \A r \in MeasuredRows : r.of = "full" => r.data = r.as  BY <2>2, <2>5 DEF MeasuredRows
  <2>8. \A r \in DerivedRows : r.data = r.as  BY <2>5 DEF DerivedRows
  <2>9. \A r \in ReferenceRows : r.data = r.as  BY <2>6 DEF ReferenceRows
  <2> QED  BY <2>7, <2>8, <2>9
<1>4. Cardinality(past.seen) \in Nat /\ IsFiniteSet(past.seen)  BY SeenIs DEF Ssv2Inv
<1>5. /\ facts.decoded \in Nat /\ facts.decoded <= Cardinality(past.seen)
      /\ Intact(accuracy) => KeepsFrom([rows |-> rows, facts |-> facts], accuracy)
  <2> DEFINE art == [rows |-> rows, facts |-> facts]
  <2>1. art.facts = facts  OBVIOUS
  <2>2. CASE Intact(index) /\ Have(index) # {}
    <3>1. facts.decoded = Cardinality(Have(index)) /\ (facts.wall \/ past.untimed)
      BY <1>2, <2>2, FactsOfTheCache
    <3>2. Cardinality(Have(index)) \in Nat /\ IsFiniteSet(Have(index)) /\ Have(index) \subseteq past.seen
      BY <2>2, HaveIsClips DEF Ssv2Inv, Stores
    <3>3. Cardinality(Have(index)) <= Cardinality(past.seen)  BY <1>4, <3>2, FS_Subset
    <3>4. Intact(accuracy) => /\ accuracy.facts.decoded \in Nat
                              /\ accuracy.facts.decoded <= Cardinality(past.seen)
      BY DEF Ssv2Inv, Reported, Shows
    <3>5. past.seen \subseteq Have(index) => Cardinality(past.seen) = Cardinality(Have(index))
      BY <3>2
    <3> HIDE DEF facts
    <3>6. Intact(accuracy) /\ facts.decoded < accuracy.facts.decoded => ~(past.seen \subseteq Have(index))
      BY <1>4, <3>1, <3>2, <3>4, <3>5
    <3>7. index # Missing  BY <2>2 DEF Intact
    <3> HIDE DEF art
    <3>8. Intact(accuracy) => KeepsFrom(art, accuracy)  BY <2>1, <3>1, <3>6, <3>7, Zenon DEF KeepsFrom
    <3>9. facts.decoded \in Nat /\ facts.decoded <= Cardinality(past.seen)  BY <3>1, <3>2, <3>3
    <3> QED  BY <3>8, <3>9 DEF art
  <2>3. CASE ~(Intact(index) /\ Have(index) # {}) /\ Intact(accuracy)
    <3>1. facts = accuracy.facts  BY <1>1, <2>3, FactsCarried DEF Intact
    <3>2. facts.decoded \in Nat /\ facts.decoded <= Cardinality(past.seen)
      BY <2>3, <3>1 DEF Ssv2Inv, Reported, Shows
    <3>3. ~(facts.decoded < facts.decoded)
      <4> HIDE DEF facts
      <4> QED  BY <3>2
    <3> HIDE DEF facts
    <3>4. art.facts = accuracy.facts /\ ~(accuracy.facts.decoded < accuracy.facts.decoded)
      BY <2>1, <3>1, <3>3
    <3> HIDE DEF art
    <3>5. KeepsFrom(art, accuracy)  BY <3>4, Zenon DEF KeepsFrom
    <3> QED  BY <3>2, <3>5 DEF art
  <2>4. CASE ~(Intact(index) /\ Have(index) # {}) /\ ~Intact(accuracy)
    <3>1. facts = NoFacts  BY <1>1, <2>4, FactsCarried DEF Intact
    <3> QED  BY <1>4, <2>4, <3>1 DEF NoFacts
  <2> QED  BY <2>2, <2>3, <2>4
<1> HIDE DEF rows, facts
<1>6. proc'.stage = "report" /\ proc'.art = [rows |-> rows, facts |-> facts]  BY <1>1
<1>7. Stores'  BY <1>1 DEF Ssv2Inv, Stores
<1>8. Working'  BY <1>6 DEF Working
<1>9. Recorded' \subseteq Recorded
  <2>1. InHand' = {}  BY <1>6 DEF InHand
  <2> QED  BY <1>1, <2>1 DEF Recorded
<1>10. Fitting'  BY <1>1, <1>6, <1>9, RecordedLess
<1>11. Timed'  BY <1>1, <1>2, <1>6 DEF Ssv2Inv, Timed
<1>12. Reported'
  <2> DEFINE art == [rows |-> rows, facts |-> facts]
  <2>1. Shows(art) /\ (Intact(accuracy) => KeepsFrom(art, accuracy))  BY <1>3, <1>5 DEF Shows
  <2>2. proc'.art = art /\ proc'.stage = "report"  BY <1>6
  <2> HIDE DEF art
  <2>3. Shows(proc.art)'  BY <1>1, <2>1, <2>2 DEF Shows
  <2>4. Intact(accuracy') => KeepsFrom(proc.art, accuracy)'  BY <1>1, <2>1, <2>2 DEF KeepsFrom
  <2>5. Intact(accuracy') => Shows(accuracy)'  BY <1>1 DEF Ssv2Inv, Reported, Shows
  <2> QED  BY <2>3, <2>4, <2>5 DEF Reported
<1> QED  BY <1>1, <1>7, <1>8, <1>10, <1>11, <1>12 DEF Ssv2Inv

LEMMA WriteReportKeeps ==
  ASSUME Ssv2Inv, WriteReport
  PROVE  /\ Ssv2Inv'
         /\ Intact(accuracy) => KeepsFrom(accuracy', accuracy)
<1>1. /\ proc.stage = "report" /\ accuracy' = proc.art /\ proc' = NoStage
      /\ UNCHANGED <<cached, index, clips, lists, logits, meta, past>>
  BY DEF WriteReport
<1>2. proc'.stage = "idle"  BY <1>1 DEF NoStage
<1>3. Stores'  BY <1>1 DEF Ssv2Inv, Stores
<1>4. Working'  BY <1>2 DEF Working
<1>5. Recorded' \subseteq Recorded
  <2>1. InHand' = {}  BY <1>2 DEF InHand
  <2> QED  BY <1>1, <2>1 DEF Recorded
<1>6. Fitting'  BY <1>1, <1>2, <1>5, RecordedLess
<1>7. Timed'  BY <1>1, <1>2 DEF Ssv2Inv, Timed
<1>8. Shows(proc.art) /\ (Intact(accuracy) => KeepsFrom(proc.art, accuracy))
  BY <1>1 DEF Ssv2Inv, Reported
<1>9. Reported'
  <2>1. Shows(accuracy)'  BY <1>1, <1>8 DEF Shows
  <2> QED  BY <1>2, <2>1 DEF Reported
<1> QED  BY <1>1, <1>3, <1>4, <1>6, <1>7, <1>8, <1>9 DEF Ssv2Inv

-----------------------------------------------------------------------------
(***************************************************************************)
(* A kill, and the sweep as a whole.                                       *)
(***************************************************************************)
\* What a kill leaves of the files: a list cut short is the beginning of the
\* rows of the stage, and shorter than clips.json.
Cut == CutIndex \/ CutList \/ CutResult \/ UNCHANGED <<index, clips, lists, ssv2Results>>
LEMMA CutLeaves ==
  ASSUME Ssv2Inv, Cut
  PROVE  /\ index' = index \/ (index' = Half /\ proc.stage = "frames")
         /\ clips' = clips \/ clips' = Half
         /\ accuracy' = accuracy \/ accuracy' = Half
         /\ lists' = [s \in DOMAIN Scope |-> lists'[s]] /\ logits' = [t \in Tags |-> logits'[t]]
         /\ \A t \in Tags : logits'[t] \in {logits[t], Half}
         /\ \/ lists'["full"] \in {lists["full"], Half}
            \/ /\ proc.stage = "lists" /\ Head(proc.left) # "clips.json" /\ clips' = clips
               /\ \E k \in 0..(Len(proc.rows) - 1) : lists'["full"] = SubSeq(proc.rows, 1, k)
<1>1. lists = [s \in DOMAIN Scope |-> lists[s]] /\ logits = [t \in Tags |-> logits[t]]
  BY DEF Ssv2Inv, Stores
<1>2. CASE CutIndex
  <2>1. /\ proc.stage = "frames" /\ index' = Half
        /\ clips' = clips /\ lists' = lists /\ logits' = logits /\ accuracy' = accuracy
    BY <1>2 DEF CutIndex, ssv2Results
  <2> QED  BY <1>1, <2>1
<1>3. CASE CutResult
  <2>1. index' = index /\ clips' = clips /\ lists' = lists  BY <1>3 DEF CutResult
  <2>2. accuracy' = accuracy \/ accuracy' = Half  BY <1>3 DEF CutResult
  <2>3. logits' = logits \/ logits' = [logits EXCEPT ![proc.tag] = Half]  BY <1>3 DEF CutResult
  <2>4. logits' = [t \in Tags |-> logits'[t]] /\ \A t \in Tags : logits'[t] \in {logits[t], Half}
    BY <1>1, <2>3
  <2> QED  BY <1>1, <2>1, <2>2, <2>4
<1>4. CASE UNCHANGED <<index, clips, lists, ssv2Results>>
  <2>1. index' = index /\ clips' = clips /\ lists' = lists /\ logits' = logits /\ accuracy' = accuracy
    BY <1>4 DEF ssv2Results
  <2> QED  BY <1>1, <2>1
<1>5. CASE CutList
  <2> DEFINE f == Head(proc.left)
             s == Sliced(proc.rows, f)
  <2>1. /\ proc.stage = "lists" /\ index' = index /\ logits' = logits /\ accuracy' = accuracy
        /\ IF f = "clips.json" THEN clips' = Half /\ lists' = lists
           ELSE clips' = clips /\ \E part \in Parts(s) : lists' = [lists EXCEPT ![f] = part]
    BY <1>5 DEF CutList, ssv2Results
  <2>2. proc.rows \in Seq(Clips) /\ "full" \in DOMAIN Scope
    BY <2>1, Ssv2Assumption DEF Ssv2Inv, Working
  <2>3. f = "full" => s = proc.rows  BY <2>2, WholeScope
  <2> HIDE DEF f, s
  <2>4. CASE f = "clips.json"  BY <1>1, <2>1, <2>4
  <2>5. CASE f # "clips.json"
    <3>1. PICK part \in Parts(s) : lists' = [lists EXCEPT ![f] = part]  BY <2>1, <2>5
    <3>2. lists' = [x \in DOMAIN Scope |-> lists'[x]]  BY <1>1, <3>1
    <3>3. lists'["full"] = IF f = "full" THEN part ELSE lists["full"]  BY <1>1, <2>2, <3>1
    <3>4. part = Half \/ \E k \in 0..(Len(s) - 1) : part = SubSeq(s, 1, k)  BY DEF Parts
    <3>5. f = "full" /\ part # Half => \E k \in 0..(Len(proc.rows) - 1) : part = SubSeq(proc.rows, 1, k)
      BY <2>3, <3>4
    <3>6. Head(proc.left) # "clips.json"  BY <2>5 DEF f
    <3> QED  BY <1>1, <2>1, <2>5, <3>2, <3>3, <3>5, <3>6
  <2> QED  BY <2>4, <2>5
<1> QED  BY <1>2, <1>3, <1>4, <1>5 DEF Cut

LEMMA KillStageKeeps ==
  ASSUME Ssv2Inv, KillStage
  PROVE  Ssv2Inv' /\ (accuracy' = accuracy \/ ~Intact(accuracy'))
<1>1. /\ Cut /\ proc # NoStage /\ proc' = NoStage /\ cached' = cached
      /\ past' = [past EXCEPT !.untimed = @ \/ (proc.stage = "frames" /\ Decoded)]
  BY DEF KillStage, Cut
<1>2. /\ past' \in [seen : SUBSET Clips, forgot : BOOLEAN, untimed : BOOLEAN]
      /\ past'.seen = past.seen /\ past'.forgot = past.forgot
      /\ (past'.untimed <=> past.untimed \/ (proc.stage = "frames" /\ Decoded))
  <2> DEFINE newUntimed == past.untimed \/ (proc.stage = "frames" /\ Decoded)
  <2>1. past \in [seen : SUBSET Clips, forgot : BOOLEAN, untimed : BOOLEAN]  BY DEF Ssv2Inv, Stores
  <2>2. past' = [past EXCEPT !.untimed = newUntimed]  BY <1>1
  <2>3. newUntimed \in BOOLEAN  OBVIOUS
  <2> HIDE DEF newUntimed
  <2>4. /\ past' \in [seen : SUBSET Clips, forgot : BOOLEAN, untimed : BOOLEAN]
        /\ past'.seen = past.seen /\ past'.forgot = past.forgot /\ past'.untimed = newUntimed
    BY <2>1, <2>2, <2>3
  <2> QED  BY <2>4 DEF newUntimed
<1>3. ~Intact(Half)  BY DEF Intact
<1>4. proc'.stage = "idle"  BY <1>1 DEF NoStage
<1>5. /\ index' = index \/ (index' = Half /\ proc.stage = "frames")
      /\ clips' = clips \/ clips' = Half
      /\ accuracy' = accuracy \/ accuracy' = Half
  BY <1>1, CutLeaves
<1>6. Stores'
  <2>1. lists' = [s \in DOMAIN Scope |-> lists'[s]] /\ logits' = [t \in Tags |-> logits'[t]]
    BY <1>1, CutLeaves
  <2>2. Intact(clips') => clips' \in Seq(Clips)  BY <1>3, <1>5 DEF Ssv2Inv, Stores
  <2>3. Intact(index') => index' = index  BY <1>3, <1>5
  <2>4. cached' = cached /\ past'.seen = past.seen  BY <1>1, <1>2, Zenon
  <2>5. Intact(index') => /\ index' \in [recs : SUBSET FrameRecords, wall : BOOLEAN]
                          /\ Have(index') \subseteq cached' /\ Have(index') \subseteq past'.seen
    BY <2>3, <2>4 DEF Ssv2Inv, Stores
  <2>6. past' \in [seen : SUBSET Clips, forgot : BOOLEAN, untimed : BOOLEAN]  BY <1>2
  <2> QED  BY <2>1, <2>2, <2>5, <2>6 DEF Stores, Intact
<1>7. Working'  BY <1>4 DEF Working
<1>8. Timed'
  <2>1. CASE proc.stage = "frames"
    <3>1. ~past.untimed /\ cached # {} /\ ~Decoded => proc.prev.wall  BY <2>1 DEF Ssv2Inv, Timed
    <3>2. index # Half /\ proc.prev = IF index = Missing THEN NoIndex ELSE index
      BY <2>1 DEF Ssv2Inv, Working
    <3>3. proc.prev.wall => Intact(index) /\ index.wall  BY <3>2 DEF NoIndex, Intact
    <3>4. ~past'.untimed => ~past.untimed /\ ~Decoded  BY <1>2, <2>1, Zenon
    <3>5. cached' = cached  BY <1>1, Zenon
    <3>6. ~past'.untimed /\ cached' # {} => Intact(index) /\ index.wall  BY <3>1, <3>3, <3>4, <3>5
    <3> QED  BY <1>4, <1>5, <3>6 DEF Timed, Intact
  <2>2. CASE proc.stage # "frames"
    <3>1. ~past.untimed /\ cached # {} => index = Half \/ (Intact(index) /\ index.wall)
      BY <2>2 DEF Ssv2Inv, Timed
    <3>2. (~past'.untimed => ~past.untimed) /\ cached' = cached /\ index' = index
      BY <1>1, <1>2, <1>5, <2>2, Zenon
    <3> QED  BY <1>4, <3>1, <3>2 DEF Timed, Intact
  <2> QED  BY <2>1, <2>2
<1>9. Reported'
  <2>1. past.seen \subseteq past'.seen /\ (past.forgot => past'.forgot) /\ proc'.stage # "report"
    BY <1>2, <1>4
  <2>2. CASE accuracy' = accuracy  BY <1>6, <2>1, <2>2, ShowsStay
  <2>3. CASE accuracy' = Half  BY <1>4, <2>3 DEF Reported, Intact
  <2> QED  BY <1>5, <2>2, <2>3
<1>10. InHand' = {}  BY <1>4 DEF InHand
<1>11. Recorded' \subseteq Recorded
       \/ (/\ ~past.forgot => proc.rows = InOrder(past.seen) /\ clips = proc.rows
           /\ proc.rows \in Seq(Clips) /\ clips' = clips
           /\ \E k \in 0..(Len(proc.rows) - 1) : Recorded' \subseteq Recorded \cup {SubSeq(proc.rows, 1, k)})
  <2>1. \A t \in Full : logits'[t] \in {logits[t], Half}  BY <1>1, CutLeaves DEF Full
  <2>2. CASE lists'["full"] \in {lists["full"], Half}
    BY <1>3, <1>5, <1>10, <2>1, <2>2 DEF Recorded
  <2>3. CASE /\ proc.stage = "lists" /\ Head(proc.left) # "clips.json" /\ clips' = clips
             /\ \E k \in 0..(Len(proc.rows) - 1) : lists'["full"] = SubSeq(proc.rows, 1, k)
    <3>1. PICK k \in 0..(Len(proc.rows) - 1) : lists'["full"] = SubSeq(proc.rows, 1, k)  BY <2>3
    <3>2. Recorded' \subseteq Recorded \cup {SubSeq(proc.rows, 1, k)}
      BY <1>3, <1>5, <1>10, <2>1, <3>1 DEF Recorded
    <3>3. proc.rows \in Seq(Clips)  BY <2>3 DEF Ssv2Inv, Working
    <3>4. ~past.forgot => proc.rows = InOrder(past.seen) /\ clips = proc.rows
      BY <2>3 DEF Ssv2Inv, Fitting
    <3> QED  BY <2>3, <3>2, <3>3, <3>4
  <2> QED  BY <1>1, <2>2, <2>3, CutLeaves
<1>12. ASSUME ~past.forgot
       PROVE  \A x \in Recorded' : /\ Begins(x, past.seen)
                                   /\ Intact(clips') /\ Len(x) = Len(clips') => x = clips'
  <2>1. \A x \in Recorded : /\ Begins(x, past.seen)
                            /\ Intact(clips) /\ Len(x) = Len(clips) => x = clips
    BY <1>12 DEF Ssv2Inv, Fitting
  <2>2. CASE Recorded' \subseteq Recorded  BY <1>3, <1>5, <2>1, <2>2
  <2>3. CASE /\ ~past.forgot => proc.rows = InOrder(past.seen) /\ clips = proc.rows
             /\ proc.rows \in Seq(Clips) /\ clips' = clips
             /\ \E k \in 0..(Len(proc.rows) - 1) : Recorded' \subseteq Recorded \cup {SubSeq(proc.rows, 1, k)}
    <3>1. PICK k \in 0..(Len(proc.rows) - 1) : Recorded' \subseteq Recorded \cup {SubSeq(proc.rows, 1, k)}
      BY <2>3
    <3> DEFINE rows == proc.rows
               part == SubSeq(rows, 1, k)
    <3>2. rows = InOrder(past.seen) /\ clips' = rows /\ clips' = clips /\ rows \in Seq(Clips)
      BY <1>12, <2>3
    <3>3. past.seen \in SUBSET Clips /\ Len(InOrder(past.seen)) = Cardinality(past.seen)
          /\ Cardinality(past.seen) \in Nat
      <4>1. past.seen \in SUBSET Clips  BY SeenIs DEF Ssv2Inv
      <4> QED  BY <4>1, InOrderIs
    <3>4. k \in 0..Cardinality(past.seen) /\ k \in 0..(Len(rows) - 1)  BY <3>1, <3>2, <3>3
    <3>5. Begins(part, past.seen)  BY <3>2, <3>3, <3>4 DEF Begins
    <3>6. Len(part) # Len(rows)
      <4> HIDE DEF rows
      <4>1. Len(SubSeq(rows, 1, k)) = k /\ k < Len(rows)  BY <3>2, <3>4
      <4> QED  BY <4>1, <3>4
    <3> HIDE DEF rows, part
    <3>7. Recorded' \subseteq Recorded \cup {part}  BY <3>1 DEF rows, part
    <3> QED  BY <2>1, <3>2, <3>5, <3>6, <3>7
  <2> QED  BY <1>11, <2>2, <2>3
<1>13. Fitting'
  <2> SUFFICES ASSUME ~past'.forgot  PROVE Fitting'  BY DEF Fitting
  <2>1. ~past.forgot /\ past'.seen = past.seen  BY <1>2
  <2>2. Intact(index') => Have(index') = past'.seen  BY <1>3, <1>5, <2>1 DEF Ssv2Inv, Fitting
  <2> QED  BY <1>4, <1>12, <2>1, <2>2 DEF Fitting
<1> QED  BY <1>3, <1>5, <1>6, <1>7, <1>8, <1>9, <1>13 DEF Ssv2Inv

LEMMA Ssv2Begins ==
  ASSUME Ssv2Init
  PROVE  Ssv2Inv
<1>1. /\ index = Missing /\ clips = Missing /\ accuracy = Missing /\ proc.stage = "idle" /\ cached = {}
      /\ lists = [s \in DOMAIN Scope |-> Missing] /\ logits = [t \in Tags |-> Missing]
      /\ past = [seen |-> {}, forgot |-> FALSE, untimed |-> FALSE]
  BY DEF Ssv2Init, NoStage
<1>2. ~Intact(Missing)  BY DEF Intact
<1>3. Recorded = {}
  <2>1. lists["full"] = Missing  BY <1>1, Ssv2Assumption
  <2> QED  BY <1>1, <1>2, <2>1 DEF Recorded, InHand, Full
<1>4. Stores  BY <1>1, <1>2 DEF Stores
<1>5. Fitting  BY <1>1, <1>2, <1>3 DEF Fitting
<1>6. Working /\ Timed /\ Reported  BY <1>1, <1>2 DEF Working, Timed, Reported
<1> QED  BY <1>4, <1>5, <1>6 DEF Ssv2Inv

LEMMA Ssv2Stutters ==
  ASSUME Ssv2Inv, UNCHANGED ssv2Vars
  PROVE  Ssv2Inv'
<1>1. UNCHANGED <<cached, index, clips, lists, logits, accuracy, proc, past>>  BY DEF ssv2Vars
<1>2. Recorded' = Recorded  BY <1>1 DEF Recorded, InHand, Full
<1>3. Stores' /\ Working'  BY <1>1 DEF Ssv2Inv, Stores, Working
<1>4. Fitting'  BY <1>1, <1>2 DEF Ssv2Inv, Fitting
<1>5. Timed'  BY <1>1 DEF Ssv2Inv, Timed, Decoded
<1>6. Reported'  BY <1>1 DEF Ssv2Inv, Reported, Shows, KeepsFrom
<1> QED  BY <1>3, <1>4, <1>5, <1>6 DEF Ssv2Inv

LEMMA Ssv2StepKeeps ==
  ASSUME Ssv2Inv, Ssv2Next
  PROVE  /\ Ssv2Inv'
         /\ accuracy' # accuracy /\ Intact(accuracy) /\ Intact(accuracy') => KeepsFrom(accuracy', accuracy)
<1>1. CASE StartFrames
  <2>1. accuracy' = accuracy  BY <1>1 DEF StartFrames, ssv2Results
  <2> QED  BY <1>1, <2>1, StartFramesKeeps
<1>2. CASE DecodeOne
  <2>1. accuracy' = accuracy  BY <1>2 DEF DecodeOne, ssv2Results
  <2> QED  BY <1>2, <2>1, DecodeOneKeeps
<1>3. CASE WriteIndex  BY <1>3, WriteIndexKeeps
<1>4. CASE DropCache  BY <1>4, DropCacheKeeps
<1>5. CASE StartLists  BY <1>5, StartListsKeeps
<1>6. CASE WriteLists  BY <1>6, WriteListsKeeps
<1>7. CASE StartTorch \/ StartCpp  BY <1>7, StartRunKeeps
<1>8. CASE SaveLogits  BY <1>8, SaveLogitsKeeps
<1>9. CASE StampMeta  BY <1>9, StampKeeps
<1>10. CASE StartReport  BY <1>10, StartReportKeeps
<1>11. CASE WriteReport  BY <1>11, WriteReportKeeps
<1>12. CASE KillStage  BY <1>12, KillStageKeeps
<1> QED  BY <1>1, <1>2, <1>3, <1>4, <1>5, <1>6, <1>7, <1>8, <1>9, <1>10, <1>11, <1>12 DEF Ssv2Next

\* As long as no index forgets a clip, what the sweep records of the whole split
\* are beginnings of orders of the clips seen, and of those as long as clips.json
\* only clips.json; what is published of the frame cache is true of it.
THEOREM Ssv2InvHolds == Ssv2Spec => []Ssv2Inv
<1>1. Ssv2Init => Ssv2Inv  BY Ssv2Begins
<1>2. Ssv2Inv /\ [Ssv2Next]_ssv2Vars => Ssv2Inv'  BY Ssv2StepKeeps, Ssv2Stutters
<1> QED  BY <1>1, <1>2, PTL DEF Ssv2Spec

\* Every row scored on the whole split was computed from the clip whose label it
\* is scored with, however often the stages are run, killed, cut short and begun
\* over, until an index leaves out a clip an earlier one had.
THEOREM FullRowsMatch == Ssv2Spec => []FullRowsAreTheirClips
<1>1. Ssv2Inv => FullRowsAreTheirClips
  BY DEF Ssv2Inv, Reported, Shows, FullRowsAreTheirClips
<1> QED  BY <1>1, Ssv2InvHolds, PTL

\* A report publishes less of the frame cache than the report it replaces only
\* after an index left clips out or a killed pass left its share untimed.
THEOREM FactsAreKept == Ssv2Spec => NoMeasurementErased
<1> DEFINE Good ==
             Intact(accuracy) /\ Intact(accuracy') =>
                /\ accuracy'.facts.decoded < accuracy.facts.decoded =>
                      index # Missing /\ ~(past.seen \subseteq Have(index))
                /\ accuracy.facts.wall /\ ~accuracy'.facts.wall => past.untimed
<1>1. Ssv2Inv /\ [Ssv2Next]_ssv2Vars => [Good]_accuracy
  <2> SUFFICES ASSUME Ssv2Inv, Ssv2Next, accuracy' # accuracy  PROVE Good
    BY DEF ssv2Vars
  <2> QED  BY Ssv2StepKeeps, Zenon DEF KeepsFrom
<1> HIDE DEF Good
<1>2. Ssv2Spec => [][Good]_accuracy  BY <1>1, Ssv2InvHolds, PTL DEF Ssv2Spec
<1> QED  BY <1>2, PTL DEF NoMeasurementErased, Good

-----------------------------------------------------------------------------
(***************************************************************************)
(* The scoring of features.  With a gap at the k-th place the k nearest    *)
(* are the clips at least as similar as the k-th, whichever way ties are   *)
(* broken elsewhere.                                                       *)
(***************************************************************************)
AtLeast(sim, s) == {g \in Gallery : sim[g] >= s}
Over(sim, s) == {g \in Gallery : sim[g] > s}

LEMMA SimIs ==
  ASSUME NEW sim \in [Gallery -> DOMAIN Weights]
  PROVE  /\ sim \in [Gallery -> Int] /\ IsFiniteSet(Gallery) /\ Cardinality(Gallery) \in Nat
         /\ \A s : /\ IsFiniteSet(AtLeast(sim, s)) /\ Cardinality(AtLeast(sim, s)) \in Nat
                   /\ IsFiniteSet(Over(sim, s)) /\ Cardinality(Over(sim, s)) \in Nat
<1>1. DOMAIN Weights \subseteq Int /\ IsFiniteSet(Gallery)  BY KnnAssumption
<1>2. \A s : AtLeast(sim, s) \in SUBSET Gallery /\ Over(sim, s) \in SUBSET Gallery  BY DEF AtLeast, Over
<1>3. \A S \in SUBSET Gallery : IsFiniteSet(S) /\ Cardinality(S) \in Nat
  BY <1>1, FS_Subset, FS_CardinalityType
<1>4. \A s : /\ IsFiniteSet(AtLeast(sim, s)) /\ Cardinality(AtLeast(sim, s)) \in Nat
             /\ IsFiniteSet(Over(sim, s)) /\ Cardinality(Over(sim, s)) \in Nat
  BY <1>2, <1>3
<1>5. sim \in [Gallery -> Int]  BY <1>1
<1> QED  BY <1>1, <1>3, <1>4, <1>5

\* There is an i-th similarity, so Nth is one.
LEMMA NthIs ==
  ASSUME NEW sim \in [Gallery -> DOMAIN Weights], NEW i \in Nat \ {0}, i <= Cardinality(Gallery)
  PROVE  /\ Nth(sim, i) \in Int
         /\ Cardinality(Over(sim, Nth(sim, i))) < i /\ Cardinality(AtLeast(sim, Nth(sim, i))) >= i
<1> DEFINE A == {g \in Gallery : Cardinality(AtLeast(sim, sim[g])) >= i}
<1>1. sim \in [Gallery -> Int] /\ IsFiniteSet(Gallery)  BY SimIs
<1>2. Gallery # {}  BY FS_EmptySet
<1>3. A # {}
  <2>1. PICK m \in Gallery : \A x \in Gallery : sim[x] >= sim[m]  BY <1>1, <1>2, LeastOf
  <2>2. AtLeast(sim, sim[m]) = Gallery  BY <2>1 DEF AtLeast
  <2> QED  BY <2>1, <2>2
<1>4. A \subseteq Gallery /\ IsFiniteSet(A)  BY <1>1, FS_Subset
<1>5. PICK top \in A : \A g \in A : sim[g] <= sim[top]
  <2> DEFINE f == [g \in A |-> sim[g]]
  <2> HIDE DEF A
  <2>1. f \in [A -> Int]  BY <1>1, <1>4
  <2>2. \A g \in A : f[g] = sim[g]  OBVIOUS
  <2> HIDE DEF f
  <2>3. PICK top \in A : \A g \in A : f[g] <= f[top]  BY <1>3, <1>4, <2>1, GreatestOf
  <2> QED  BY <2>2, <2>3
<1> DEFINE U == Over(sim, sim[top])
<1>6. ASSUME Cardinality(U) >= i  PROVE FALSE
  <2>1. U \subseteq Gallery /\ IsFiniteSet(U)  BY <1>1, SimIs DEF Over
  <2>2. U # {}  BY <1>6, FS_EmptySet
  <2>3. PICK m \in U : \A g \in U : sim[g] >= sim[m]
    <3> DEFINE f == [g \in U |-> sim[g]]
    <3> HIDE DEF U
    <3>1. f \in [U -> Int]  BY <1>1, <2>1
    <3>2. \A g \in U : f[g] = sim[g]  OBVIOUS
    <3> HIDE DEF f
    <3>3. PICK m \in U : \A g \in U : f[g] >= f[m]  BY <2>1, <2>2, <3>1, LeastOf
    <3> QED  BY <3>2, <3>3
  <2>4. m \in Gallery /\ top \in Gallery /\ sim[m] > sim[top]  BY <2>3 DEF Over
  <2>5. sim[m] \in Int /\ sim[top] \in Int  BY <1>1, <2>4
  <2>6. AtLeast(sim, sim[m]) = U
    <3>1. \A g \in Gallery : sim[g] \in Int  BY <1>1
    <3>2. \A g \in Gallery : sim[g] >= sim[m] => sim[g] > sim[top]  BY <2>4, <2>5, <3>1
    <3> QED  BY <2>3, <3>2 DEF AtLeast, Over
  <2>7. m \in A  BY <1>6, <2>4, <2>6
  <2> QED  BY <1>5, <2>4, <2>5, <2>7
<1>7. Cardinality(U) < i
  <2>1. Cardinality(U) \in Nat  BY SimIs
  <2> HIDE DEF U
  <2> QED  BY <1>6, <2>1
<1>8. sim[top] \in DOMAIN Weights /\ Cardinality(AtLeast(sim, sim[top])) >= i  OBVIOUS
<1>9. \E s \in DOMAIN Weights : /\ Cardinality({g \in Gallery : sim[g] > s}) < i
                                /\ Cardinality({g \in Gallery : sim[g] >= s}) >= i
  BY <1>7, <1>8 DEF AtLeast, Over
<1>10. /\ Nth(sim, i) \in DOMAIN Weights
       /\ Cardinality({g \in Gallery : sim[g] > Nth(sim, i)}) < i
       /\ Cardinality({g \in Gallery : sim[g] >= Nth(sim, i)}) >= i
  BY <1>9 DEF Nth
<1>11. DOMAIN Weights \subseteq Int  BY KnnAssumption
<1> QED  BY <1>10, <1>11 DEF AtLeast, Over

LEMMA OneNeighbourhood ==
  ASSUME NEW sim \in [Gallery -> DOMAIN Weights], K \in Nat \ {0}, K < Cardinality(Gallery), Gap(sim) > 0,
         NEW S \in Neighbours(sim)
  PROVE  /\ S = AtLeast(sim, Nth(sim, K)) /\ IsFiniteSet(S) /\ Cardinality(S) = K
         /\ \A g \in Gallery \ S : sim[g] <= Nth(sim, K + 1)
<1> DEFINE a == Nth(sim, K)
           b == Nth(sim, K + 1)
           T == AtLeast(sim, a)
           V == Over(sim, b)
<1>1. K + 1 \in Nat \ {0} /\ K + 1 <= Cardinality(Gallery) /\ K <= Cardinality(Gallery)
  BY SimIs
<1>2. a \in Int /\ Cardinality(T) >= K  BY <1>1, NthIs
<1>3. b \in Int /\ Cardinality(V) < K + 1  BY <1>1, NthIs
<1>4. a > b  BY <1>2, <1>3 DEF Gap
<1>5. sim \in [Gallery -> Int]  BY SimIs
<1>6. IsFiniteSet(V) /\ Cardinality(V) \in Nat /\ Cardinality(T) \in Nat  BY SimIs
<1> HIDE DEF a, b
<1>7. T \subseteq V  BY <1>2, <1>3, <1>4, <1>5 DEF AtLeast, Over
<1> HIDE DEF T, V
<1>8. Cardinality(T) <= Cardinality(V)  BY <1>6, <1>7, FS_Subset
<1>9. Cardinality(T) = K /\ Cardinality(V) = K  BY <1>2, <1>3, <1>6, <1>8
<1>10. T = V  BY <1>6, <1>7, <1>9, FS_Subset
<1>11. \A g \in Gallery \ T : sim[g] <= b
  BY <1>3, <1>5, <1>10 DEF Over, V
<1>12. S \in SUBSET Gallery /\ Cardinality(S) = K /\ \A x \in S, y \in Gallery \ S : sim[x] >= sim[y]
  BY DEF Neighbours
<1>13. IsFiniteSet(S) /\ IsFiniteSet(T)  BY <1>12, SimIs, FS_Subset DEF T
<1>14. S \subseteq T
  <2> SUFFICES ASSUME NEW x \in S, x \notin T  PROVE FALSE  OBVIOUS
  <2>1. ~(T \subseteq S)
    <3>1. T \subseteq S => T = S  BY <1>9, <1>12, <1>13, FS_Subset
    <3> QED  BY <3>1
  <2>2. PICK y \in T : y \notin S  BY <2>1
  <2>3. y \in Gallery /\ sim[y] >= a  BY <2>2 DEF T, AtLeast
  <2>4. sim[x] >= sim[y] /\ x \in Gallery  BY <1>12, <2>2, <2>3
  <2>5. sim[x] >= a  BY <1>2, <1>5, <2>3, <2>4
  <2> QED  BY <2>4, <2>5 DEF T, AtLeast
<1>15. S = T  BY <1>9, <1>12, <1>13, <1>14, FS_Subset
<1> QED  BY <1>11, <1>12, <1>13, <1>15 DEF a, b, T

LEMMA FurthestIs ==
  ASSUME ref \in Features, this \in Features, NEW q \in Queries, Gallery # {}
  PROVE  /\ Furthest(q) \in Int
         /\ \A g \in Gallery : /\ ref[q][g] - this[q][g] <= Furthest(q)
                               /\ this[q][g] - ref[q][g] <= Furthest(q)
<1> DEFINE apart(g) == IF ref[q][g] > this[q][g] THEN ref[q][g] - this[q][g] ELSE this[q][g] - ref[q][g]
           f == [g \in Gallery |-> apart(g)]
           T == {apart(g) : g \in Gallery}
<1>1. ref[q] \in [Gallery -> DOMAIN Weights] /\ this[q] \in [Gallery -> DOMAIN Weights]  BY DEF Features
<1>2. ref[q] \in [Gallery -> Int] /\ this[q] \in [Gallery -> Int] /\ IsFiniteSet(Gallery)  BY <1>1, SimIs
<1>3. \A g \in Gallery : ref[q][g] \in Int /\ this[q][g] \in Int  BY <1>2
<1>4. \A g \in Gallery : /\ apart(g) \in Int
                         /\ ref[q][g] - this[q][g] <= apart(g) /\ this[q][g] - ref[q][g] <= apart(g)
  BY <1>3
<1>5. Furthest(q) = Max(T)  BY DEF Furthest
<1> HIDE DEF apart
<1>6. f \in [Gallery -> Int] /\ \A g \in Gallery : f[g] = apart(g)  BY <1>4
<1>7. PICK m \in Gallery : \A g \in Gallery : f[g] <= f[m]
  <2> HIDE DEF f
  <2> QED  BY <1>2, <1>6, GreatestOf
<1>8. apart(m) \in T /\ \A y \in T : apart(m) >= y  BY <1>4, <1>6, <1>7
<1>9. Max(T) \in T /\ \A y \in T : Max(T) >= y  BY <1>8 DEF Max
<1>10. Max(T) \in Int /\ \A g \in Gallery : apart(g) <= Max(T)  BY <1>4, <1>9
<1> HIDE DEF T, f
<1> QED  BY <1>3, <1>4, <1>5, <1>10

\* Why a prediction flipped, of any query but for a tie at the k-th place.
LEMMA FlipSaysWhy ==
  ASSUME K \in Nat \ {0}, K < Cardinality(Gallery), ref \in Features, this \in Features,
         refPred \in KnnPredict(ref), pred \in KnnPredict(this),
         NEW q \in Queries, q \in Flipped, Gap(ref[q]) > 0,
         NEW R \in Neighbours(ref[q]), NEW F \in Neighbours(this[q]),
         NEW t \in Leaders(Votes(R, ref[q]))
  PROVE  /\ t = refPred[q] \/ Leaders(Votes(R, ref[q])) # {t}
         /\ Furthest(q) > 0
         /\ Cardinality(R \cap F) < K => 2 * Furthest(q) >= Gap(ref[q])
<1>1. ref[q] \in [Gallery -> DOMAIN Weights] /\ this[q] \in [Gallery -> DOMAIN Weights]  BY DEF Features
<1>2. /\ R = AtLeast(ref[q], Nth(ref[q], K)) /\ IsFiniteSet(R) /\ Cardinality(R) = K
      /\ \A g \in Gallery \ R : ref[q][g] <= Nth(ref[q], K + 1)
  BY <1>1, OneNeighbourhood
<1>3. \A S \in Neighbours(ref[q]) : S = R  BY <1>1, <1>2, OneNeighbourhood
<1>4. refPred[q] = Top(Votes(R, ref[q]))  BY <1>3 DEF KnnPredict
<1>5. Leaders(Votes(R, ref[q])) = {t} => t = refPred[q]
  <2> SUFFICES ASSUME Leaders(Votes(R, ref[q])) = {t}  PROVE t = refPred[q]  OBVIOUS
  <2>1. t \in Int  BY KnnAssumption DEF Leaders
  <2>2. Min({t}) = t  BY <2>1 DEF Min
  <2> QED  BY <1>4, <2>2 DEF Top
<1>6. Gallery # {}  BY FS_EmptySet
<1>7. /\ Furthest(q) \in Int
      /\ \A g \in Gallery : /\ ref[q][g] - this[q][g] <= Furthest(q)
                            /\ this[q][g] - ref[q][g] <= Furthest(q)
  BY <1>6, FurthestIs
<1>8. /\ ref[q] \in [Gallery -> Int] /\ this[q] \in [Gallery -> Int] /\ IsFiniteSet(Gallery)  BY <1>1, SimIs
<1>9. Furthest(q) > 0
  <2> SUFFICES ASSUME Furthest(q) <= 0  PROVE FALSE  BY <1>7
  <2>1. \A g \in Gallery : ref[q][g] = this[q][g]
    <3> SUFFICES ASSUME NEW g \in Gallery  PROVE ref[q][g] = this[q][g]  OBVIOUS
    <3>1. ref[q][g] \in Int /\ this[q][g] \in Int  BY <1>8
    <3> QED  BY <1>7, <3>1
  <2>2. ref[q] = this[q]
    <3> DEFINE x == ref[q]
               y == this[q]
    <3>1. x \in [Gallery -> Int] /\ y \in [Gallery -> Int] /\ \A g \in Gallery : x[g] = y[g]  BY <1>8, <2>1
    <3> HIDE DEF x, y
    <3>2. x = y  BY <3>1
    <3> QED  BY <3>2 DEF x, y
  <2>3. pred[q] = Top(Votes(R, ref[q]))  BY <1>3, <2>2 DEF KnnPredict
  <2> QED  BY <1>4, <2>3 DEF Flipped
<1>10. ASSUME Cardinality(R \cap F) < K  PROVE 2 * Furthest(q) >= Gap(ref[q])
  <2>1. F \in SUBSET Gallery /\ Cardinality(F) = K /\ \A x \in F, y \in Gallery \ F : this[q][x] >= this[q][y]
    BY DEF Neighbours
  <2>2. R \in SUBSET Gallery /\ IsFiniteSet(F)  BY <1>2, <1>8, <2>1, FS_Subset DEF AtLeast
  <2>3. PICK g \in R : g \notin F
    <3>1. R \subseteq F => R \cap F = R  OBVIOUS
    <3>2. Cardinality(R) = K  BY <1>2
    <3> QED  BY <1>10, <3>1, <3>2
  <2>4. PICK h \in F : h \notin R
    <3>1. F \subseteq R => R \cap F = F  OBVIOUS
    <3> QED  BY <2>1, <1>10, <3>1
  <2> DEFINE a == Nth(ref[q], K)
             b == Nth(ref[q], K + 1)
  <2>5. g \in Gallery /\ h \in Gallery /\ this[q][h] >= this[q][g]  BY <2>1, <2>2, <2>3, <2>4
  <2>6. ref[q][g] >= a /\ ref[q][h] <= b  BY <1>2, <2>3, <2>4, <2>5 DEF AtLeast
  <2>7. a \in Int /\ b \in Int
    <3>1. K + 1 \in Nat \ {0} /\ K + 1 <= Cardinality(Gallery) /\ K <= Cardinality(Gallery)  BY <1>1, SimIs
    <3> QED  BY <1>1, <3>1, NthIs
  <2>8. ref[q][g] - this[q][g] <= Furthest(q) /\ this[q][h] - ref[q][h] <= Furthest(q)  BY <1>7, <2>5
  <2>9. /\ ref[q][g] \in Int /\ this[q][g] \in Int /\ ref[q][h] \in Int /\ this[q][h] \in Int  BY <1>8, <2>5
  <2>10. Gap(ref[q]) = a - b  BY DEF Gap
  <2> HIDE DEF a, b
  <2> QED  BY <1>7, <2>5, <2>6, <2>7, <2>8, <2>9, <2>10
<1> QED  BY <1>5, <1>9, <1>10

-----------------------------------------------------------------------------
(***************************************************************************)
(* The run of the script.  The flips explained so far are those of the     *)
(* queries before the one it is at, one record each.                       *)
(***************************************************************************)
Explains(f) ==
    f.gap > 0 => /\ f.top = f.ref \/ f.even
                 /\ f.furthest > 0
                 /\ f.shared < K => 2 * f.furthest >= f.gap
Account ==
    /\ Cardinality(Right(pred)) - Cardinality(Right(refPred)) = figures.thisRight - figures.refRight
    /\ figures.bothWrong = Cardinality(Flipped \ (Right(pred) \cup Right(refPred)))
    /\ figures.flipped = Cardinality(Flipped)
Before(n) == {q \in Flipped : q < n}
Counted ==
    /\ next \in Nat \ {0} /\ IsFiniteSet(flips)
    /\ {f.query : f \in flips} = Before(next) /\ Cardinality(flips) = Cardinality(Before(next))
KnnInv ==
    /\ step # "load" => K \in Ks /\ ref \in Features /\ this \in Features
    /\ step \notin {"load", "predict"} => refPred \in KnnPredict(ref) /\ pred \in KnnPredict(this)
    /\ step \in {"load", "predict", "evaluate"} => flips = {} /\ next = 1
    /\ step \in {"explain", "done"} => Account /\ Counted /\ \A f \in flips : Explains(f)
    /\ step = "done" => next \notin Queries

LEMMA AllBefore ==
  ASSUME Counted, next \notin Queries
  PROVE  Before(next) = Flipped
<1>1. Queries = 1..Cardinality(Queries) /\ Cardinality(Queries) \in Nat
  BY KnnAssumption, FS_CardinalityType
<1> DEFINE n == Cardinality(Queries)
<1>2. next \notin 1..n /\ next \in Nat \ {0} /\ n \in Nat  BY <1>1 DEF Counted
<1>3. \A q \in Queries : q \in 1..n  BY <1>1
<1> HIDE DEF n
<1>4. \A q \in Queries : q < next  BY <1>2, <1>3
<1> QED  BY <1>4 DEF Before, Flipped

LEMMA KnnInvTells ==
  ASSUME KnnInv
  PROVE  FlipsAreExplained
<1> SUFFICES ASSUME step = "done"
             PROVE  /\ Account /\ figures.flipped = Cardinality(flips) /\ {f.query : f \in flips} = Flipped
                    /\ \A f \in flips : Explains(f)
  BY DEF FlipsAreExplained, Account, Explains
<1>1. Account /\ Counted /\ next \notin Queries /\ \A f \in flips : Explains(f)  BY DEF KnnInv
<1>2. Before(next) = Flipped  BY <1>1, AllBefore
<1> QED  BY <1>1, <1>2 DEF Account, Counted

\* Outside the flips the two backends are right about the same queries, and of a
\* flip only one of them can be.
LEMMA FiguresAccount ==
  ASSUME Evaluate
  PROVE  Account'
<1> DEFINE n == Cardinality(Flipped)
           r == Cardinality(Flipped \cap Right(refPred))
           t == Cardinality(Flipped \cap Right(pred))
           P == Right(pred)
           Q == Right(refPred)
<1>1. /\ figures' = [flipped |-> n, refRight |-> r, thisRight |-> t, bothWrong |-> n - r - t]
      /\ UNCHANGED <<inputs, refPred, pred>>
  BY DEF Evaluate
<1>2. figures'.flipped = n /\ figures'.refRight = r /\ figures'.thisRight = t /\ figures'.bothWrong = n - r - t
  BY <1>1
<1>3. Flipped' = Flipped /\ Right(pred)' = P /\ Right(refPred)' = Q  BY <1>1 DEF inputs, Flipped, Right
<1>4. P \in SUBSET Queries /\ Q \in SUBSET Queries /\ Flipped \in SUBSET Queries  BY DEF Right, Flipped
<1>5. IsFiniteSet(P) /\ IsFiniteSet(Q) /\ IsFiniteSet(Flipped)  BY <1>4, KnnAssumption, FS_Subset
<1>6. P \ Flipped = Q \ Flipped  BY DEF Right, Flipped
<1>7. (Flipped \cap P) \cap (Flipped \cap Q) = {}  BY DEF Right, Flipped
<1> HIDE DEF P, Q
<1>8. /\ Cardinality(P) \in Nat /\ Cardinality(Q) \in Nat /\ n \in Nat
      /\ IsFiniteSet(Flipped \cap P) /\ IsFiniteSet(Flipped \cap Q)
  BY <1>5, FS_CardinalityType, FS_Intersection
<1>9. r = Cardinality(Flipped \cap Q) /\ t = Cardinality(Flipped \cap P)  BY DEF P, Q
<1>10. r \in Nat /\ t \in Nat  BY <1>8, <1>9, FS_CardinalityType
<1> HIDE DEF n, r, t
<1>11. Cardinality(P \ Flipped) = Cardinality(P) - t
  <2>1. P \cap Flipped = Flipped \cap P  OBVIOUS
  <2>2. Cardinality(P \ Flipped) = Cardinality(P) - Cardinality(P \cap Flipped)  BY <1>5, FS_Difference
  <2> QED  BY <1>9, <2>1, <2>2
<1>12. Cardinality(Q \ Flipped) = Cardinality(Q) - r
  <2>1. Q \cap Flipped = Flipped \cap Q  OBVIOUS
  <2>2. Cardinality(Q \ Flipped) = Cardinality(Q) - Cardinality(Q \cap Flipped)  BY <1>5, FS_Difference
  <2> QED  BY <1>9, <2>1, <2>2
<1>13. Cardinality(Flipped \ (P \cup Q)) = n - r - t
  <2>1. Flipped \cap (P \cup Q) = (Flipped \cap P) \cup (Flipped \cap Q)  OBVIOUS
  <2>2. Cardinality((Flipped \cap P) \cup (Flipped \cap Q)) = t + r
    <3>1. Cardinality((Flipped \cap P) \cap (Flipped \cap Q)) = 0  BY <1>7, FS_EmptySet
    <3>2. Cardinality((Flipped \cap P) \cup (Flipped \cap Q)) =
             t + r - Cardinality((Flipped \cap P) \cap (Flipped \cap Q))
      BY <1>8, <1>9, FS_Union
    <3> QED  BY <1>10, <3>1, <3>2
  <2>3. Cardinality(Flipped \ (P \cup Q)) = Cardinality(Flipped) - Cardinality(Flipped \cap (P \cup Q))
    BY <1>5, FS_Difference
  <2>4. Cardinality(Flipped) = n  BY DEF n
  <2> DEFINE y == Cardinality(Flipped \ (P \cup Q))
  <2>5. y = n - (t + r)  BY <2>1, <2>2, <2>3, <2>4
  <2>6. n \in Nat  BY <1>8
  <2> HIDE DEF y
  <2>7. y = n - r - t  BY <1>10, <2>5, <2>6
  <2> QED  BY <2>7 DEF y
<1>14. Cardinality(P) - Cardinality(Q) = t - r
  <2> DEFINE p == Cardinality(P)
             q == Cardinality(Q)
             x == Cardinality(P \ Flipped)
  <2>1. x = p - t /\ x = q - r /\ p \in Nat /\ q \in Nat  BY <1>6, <1>8, <1>11, <1>12
  <2> HIDE DEF p, q, x
  <2>2. p - q = t - r  BY <1>10, <2>1
  <2> QED  BY <2>2 DEF p, q
<1>15. Cardinality(Right(pred))' = Cardinality(P) /\ Cardinality(Right(refPred))' = Cardinality(Q)
  BY <1>3
<1>16. Cardinality(Flipped \ (Right(pred) \cup Right(refPred)))' = Cardinality(Flipped \ (P \cup Q))
  BY <1>3
<1>17. Cardinality(Flipped)' = n  BY <1>3 DEF n
<1> QED  BY <1>2, <1>13, <1>14, <1>15, <1>16, <1>17 DEF Account

\* Predictions depend on k and the labels of the gallery besides the features.
LEMMA PredictionsStay ==
  ASSUME UNCHANGED <<K, label, ref, this>>
  PROVE  KnnPredict(ref)' = KnnPredict(ref) /\ KnnPredict(this)' = KnnPredict(this)
<1>1. \A sim : Neighbours(sim)' = Neighbours(sim)  BY DEF Neighbours
<1>2. \A S, sim : Votes(S, sim)' = Votes(S, sim)  BY DEF Votes
<1> QED  BY <1>1, <1>2 DEF KnnPredict

LEMMA QueriesAreNumbers ==
  \A q \in Queries : q \in Nat /\ ~(q < 1)
<1>1. Cardinality(Queries) \in Nat /\ Queries = 1..Cardinality(Queries)  BY KnnAssumption, FS_CardinalityType
<1> QED  BY <1>1

LEMMA BeforeGrows ==
  ASSUME NEW n \in Nat
  PROVE  /\ Before(n + 1) = IF n \in Flipped THEN Before(n) \cup {n} ELSE Before(n)
         /\ n \notin Before(n)
<1>1. \A q \in Flipped : q \in Nat  BY QueriesAreNumbers DEF Flipped
<1>2. \A q \in Flipped : q < n + 1 <=> q < n \/ q = n  BY <1>1
<1>3. \A q : q \in Before(n + 1) <=> q \in Before(n) \/ (q = n /\ n \in Flipped)  BY <1>2 DEF Before
<1> QED  BY <1>1, <1>3 DEF Before

LEMMA ExplainKeeps ==
  ASSUME KnnInv, Explain
  PROVE  KnnInv'
<1>1. /\ step = "explain" /\ next \in Queries /\ next' = next + 1
      /\ UNCHANGED <<inputs, refPred, pred, figures>>
      /\ IF next \notin Flipped THEN UNCHANGED <<flips, step>>
         ELSE IF Cardinality(Gallery) <= K THEN step' = "failed" /\ UNCHANGED flips
         ELSE /\ \E R \in Neighbours(ref[next]), F \in Neighbours(this[next]) :
                    LET leaders == Leaders(Votes(R, ref[next]))
                    IN  \E t \in leaders :
                           flips' = flips \cup
                               {[query |-> next, ref |-> refPred[next], this |-> pred[next],
                                 top |-> t, even |-> leaders # {t}, shared |-> Cardinality(R \cap F),
                                 gap |-> Gap(ref[next]), furthest |-> Furthest(next)]}
              /\ UNCHANGED step
  BY DEF Explain
<1>2. UNCHANGED <<K, label, truth, ref, this, refPred, pred, figures>>  BY <1>1 DEF inputs
<1>3. /\ K \in Ks /\ ref \in Features /\ this \in Features
      /\ refPred \in KnnPredict(ref) /\ pred \in KnnPredict(this)
      /\ Account /\ Counted /\ \A f \in flips : Explains(f)
  BY <1>1 DEF KnnInv
<1>4. /\ K' \in Ks /\ ref' \in Features /\ this' \in Features
      /\ (refPred \in KnnPredict(ref))' /\ (pred \in KnnPredict(this))'
  BY <1>2, <1>3, PredictionsStay DEF Features
<1>5. Account'  BY <1>2, <1>3 DEF Account, Right, Flipped
<1>6. Flipped' = Flipped  BY <1>2 DEF Flipped
<1>7. next \in Nat \ {0} /\ IsFiniteSet(flips) /\ {f.query : f \in flips} = Before(next)
      /\ Cardinality(flips) = Cardinality(Before(next))
  BY <1>3 DEF Counted
<1>8. CASE next \notin Flipped
  <2>1. UNCHANGED <<flips, step>>  BY <1>1, <1>8
  <2>2. Before(next') = Before(next)  BY <1>1, <1>7, <1>8, BeforeGrows
  <2>3. Before(next)' = Before(next)  BY <1>6, <2>2 DEF Before
  <2>4. Counted'  BY <1>1, <1>7, <2>1, <2>3 DEF Counted
  <2>5. \A f \in flips' : Explains(f)'  BY <1>2, <1>3, <2>1 DEF Explains
  <2> QED  BY <1>1, <1>4, <1>5, <2>1, <2>4, <2>5 DEF KnnInv
<1>9. CASE next \in Flipped /\ Cardinality(Gallery) <= K
  <2>1. step' = "failed"  BY <1>1, <1>9
  <2> QED  BY <1>4, <2>1 DEF KnnInv
<1>10. CASE next \in Flipped /\ ~(Cardinality(Gallery) <= K)
  <2>a. PICK R \in Neighbours(ref[next]), F \in Neighbours(this[next]) :
           \E t \in Leaders(Votes(R, ref[next])) : flips' = flips \cup
              {[query |-> next, ref |-> refPred[next], this |-> pred[next],
                top |-> t, even |-> Leaders(Votes(R, ref[next])) # {t}, shared |-> Cardinality(R \cap F),
                gap |-> Gap(ref[next]), furthest |-> Furthest(next)]}
    BY <1>1, <1>10
  <2>1. PICK t \in Leaders(Votes(R, ref[next])) :
           flips' = flips \cup
              {[query |-> next, ref |-> refPred[next], this |-> pred[next],
                top |-> t, even |-> Leaders(Votes(R, ref[next])) # {t}, shared |-> Cardinality(R \cap F),
                gap |-> Gap(ref[next]), furthest |-> Furthest(next)]}
    BY <2>a
  <2>2. step' = step  BY <1>1, <1>10
  <2> DEFINE e == Leaders(Votes(R, ref[next])) # {t}
             s == Cardinality(R \cap F)
             d == Gap(ref[next])
             u == Furthest(next)
             new == [query |-> next, ref |-> refPred[next], this |-> pred[next],
                     top |-> t, even |-> e, shared |-> s, gap |-> d, furthest |-> u]
  <2>3. flips' = flips \cup {new}  BY <2>1
  <2>4. d > 0 => /\ t = refPred[next] \/ e
                 /\ u > 0
                 /\ s < K => 2 * u >= d
    <3>1. K \in Nat \ {0} /\ Cardinality(Gallery) \in Nat
      BY <1>3, KnnAssumption, FS_CardinalityType
    <3>2. K < Cardinality(Gallery)  BY <1>10, <3>1
    <3> QED  BY <1>1, <1>3, <1>10, <3>1, <3>2, FlipSaysWhy
  <2>5. e \in BOOLEAN  OBVIOUS
  <2> HIDE DEF e, s, d, u
  <2>6. /\ new.query = next /\ new.ref = refPred[next] /\ new.top = t
        /\ new.shared = s /\ new.gap = d /\ new.furthest = u
    OBVIOUS
  <2>7. new.even = e  BY <2>5
  <2> HIDE DEF new
  <2>8. Explains(new)  BY <2>4, <2>6, <2>7, Zenon DEF Explains
  <2>9. \A f \in flips' : Explains(f)'
    <3>1. \A f \in flips' : Explains(f)  BY <1>3, <2>3, <2>8
    <3>2. K' = K  BY <1>2
    <3> QED  BY <3>1, <3>2 DEF Explains
  <2>10. IsFiniteSet(Flipped)
    <3>1. Flipped \in SUBSET Queries  BY DEF Flipped
    <3> QED  BY <3>1, KnnAssumption, FS_Subset
  <2>11. Before(next') = Before(next) \cup {next} /\ next \notin Before(next)
    BY <1>1, <1>7, <1>10, BeforeGrows
  <2>12. new \notin flips  BY <1>7, <2>6, <2>11
  <2>13. IsFiniteSet(Before(next))
    <3>1. Before(next) \in SUBSET Flipped  BY DEF Before
    <3> QED  BY <2>10, <3>1, FS_Subset
  <2>14. Cardinality(flips') = Cardinality(flips) + 1 /\ IsFiniteSet(flips')
    BY <1>7, <2>3, <2>12, FS_AddElement
  <2>15. Cardinality(Before(next')) = Cardinality(Before(next)) + 1
    BY <2>11, <2>13, FS_AddElement
  <2>16. {f.query : f \in flips'} = Before(next')  BY <1>7, <2>3, <2>6, <2>11
  <2>17. next' \in Nat \ {0}  BY <1>1, <1>7
  <2>18. Before(next)' = Before(next')  BY <1>6 DEF Before
  <2>19. Counted'  BY <1>7, <2>14, <2>15, <2>16, <2>17, <2>18 DEF Counted
  <2> QED  BY <1>1, <1>4, <1>5, <2>2, <2>9, <2>19 DEF KnnInv
<1> QED  BY <1>8, <1>9, <1>10

LEMMA KnnStepKeeps ==
  ASSUME KnnInv, KnnNext
  PROVE  KnnInv'
<1>1. CASE Load
  <2>1. /\ step = "load" /\ step' = "predict" /\ K' \in Ks /\ ref' \in Features /\ this' \in Features
        /\ UNCHANGED <<next, flips>>
    BY <1>1 DEF Load, Features
  <2> QED  BY <2>1 DEF KnnInv, Features
<1>2. CASE Predict
  <2>1. /\ step = "predict" /\ step' = "evaluate" /\ UNCHANGED <<inputs, next, flips>>
        /\ refPred' \in KnnPredict(ref) /\ pred' \in KnnPredict(this)
    BY <1>2 DEF Predict
  <2>2. UNCHANGED <<K, label, ref, this>>  BY <2>1 DEF inputs
  <2>3. (refPred \in KnnPredict(ref))' /\ (pred \in KnnPredict(this))'
    BY <2>1, <2>2, PredictionsStay
  <2> QED  BY <2>1, <2>2, <2>3 DEF KnnInv, Features
<1>3. CASE Evaluate
  <2>1. /\ step = "evaluate" /\ step' = "explain" /\ UNCHANGED <<inputs, refPred, pred, next, flips>>
    BY <1>3 DEF Evaluate
  <2>2. UNCHANGED <<K, label, ref, this, refPred, pred>>  BY <2>1 DEF inputs
  <2>3. (refPred \in KnnPredict(ref))' /\ (pred \in KnnPredict(this))'
    BY <2>1, <2>2, PredictionsStay DEF KnnInv
  <2>4. flips' = {} /\ next' = 1  BY <2>1 DEF KnnInv
  <2>5. Before(next)' = {}
    <3>1. \A q \in Queries : ~(q < next')  BY <2>4, QueriesAreNumbers
    <3> QED  BY <3>1 DEF Before, Flipped
  <2>6. Counted'  BY <2>4, <2>5, FS_EmptySet DEF Counted
  <2>7. Account'  BY <1>3, FiguresAccount
  <2> QED  BY <2>1, <2>2, <2>3, <2>4, <2>6, <2>7 DEF KnnInv, Features
<1>4. CASE Explain  BY <1>4, ExplainKeeps
<1>5. CASE Explained
  <2>1. /\ step = "explain" /\ step' = "done" /\ next \notin Queries
        /\ UNCHANGED <<inputs, refPred, pred, figures, next, flips>>
    BY <1>5 DEF Explained
  <2>2. UNCHANGED <<K, label, truth, ref, this>>  BY <2>1 DEF inputs
  <2>3. (refPred \in KnnPredict(ref))' /\ (pred \in KnnPredict(this))'
    BY <2>1, <2>2, PredictionsStay DEF KnnInv
  <2>4. Account'  BY <2>1, <2>2 DEF KnnInv, Account, Right, Flipped
  <2>5. Counted'  BY <2>1, <2>2 DEF KnnInv, Counted, Before, Flipped
  <2>6. \A f \in flips' : Explains(f)'  BY <2>1, <2>2 DEF KnnInv, Explains
  <2> QED  BY <2>1, <2>2, <2>3, <2>4, <2>5, <2>6 DEF KnnInv, Features
<1> QED  BY <1>1, <1>2, <1>3, <1>4, <1>5 DEF KnnNext

\* The flips explained so far are those of the queries already passed, one record
\* each, and every record names its reason.
THEOREM KnnInvHolds == KnnSpec => []KnnInv
<1>1. KnnInit => KnnInv  BY DEF KnnInit, KnnInv
<1>2. ASSUME KnnInv, UNCHANGED knnVars  PROVE KnnInv'
  <2>1. UNCHANGED <<K, label, truth, ref, this, refPred, pred, figures, next, flips, step>>
    BY <1>2 DEF knnVars, inputs
  <2>2. step \notin {"load", "predict"} => (refPred \in KnnPredict(ref))' /\ (pred \in KnnPredict(this))'
    BY <1>2, <2>1, PredictionsStay DEF KnnInv
  <2>3. step \in {"explain", "done"} => Account' /\ Counted' /\ \A f \in flips' : Explains(f)'
    BY <1>2, <2>1 DEF KnnInv, Account, Counted, Before, Right, Flipped, Explains
  <2> QED  BY <1>2, <2>1, <2>2, <2>3 DEF KnnInv, Features
<1>3. KnnInv /\ [KnnNext]_knnVars => KnnInv'  BY <1>2, KnnStepKeeps
<1> QED  BY <1>1, <1>3, PTL DEF KnnSpec

\* What is published of the disagreements accounts for the accuracies, and gives
\* a reason for every flip whose k-th place is not tied.
THEOREM FlipsHaveReasons == KnnSpec => []FlipsAreExplained
<1>1. KnnInv => FlipsAreExplained  BY KnnInvTells
<1> QED  BY <1>1, KnnInvHolds, PTL
-----------------------------------------------------------------------------
(***************************************************************************)
(* The sweep over a clip tree.  Whatever --splits its runs ask for, every  *)
(* list on disk is that of one of them or starts it.  Where these lists    *)
(* start with one another, two of one length hold the same clips.          *)
(***************************************************************************)
Given(x) == \E s \in asked : x = ListClips(s)
Led(x) == x \in Seq(Nat) /\ \E s \in asked : IsPrefix(x, ListClips(s))
QueriesOf(l) == {c \in Range(l) : Split[c] \in {"val", "test"}}
Queried(x) == \E s \in asked : x = InOrder(QueriesOf(ListClips(s)))
ShownRight(art) ==
    /\ \A r \in art.rows : Len(r.of) <= Len(r.data) /\ \E s \in asked : IsPrefix(r.data, ListClips(s))
    /\ Alike =>
          /\ \A r \in art.rows : IsPrefix(r.of, r.data)
          /\ \A r, q \in art.head : r.data = q.data

LEMMA ListsAreLists ==
  ASSUME NEW s
  PROVE  ListClips(s) \in Seq(Nat) /\ QueriesOf(ListClips(s)) \in SUBSET Nat /\ IsFiniteSet(QueriesOf(ListClips(s)))
<1> DEFINE H == {c \in VideoClips : Split[c] \in s}
           x == InOrder(H)
<1>1. VideoClips = 1..Len(Split) /\ Len(Split) \in Nat  BY VideoAssumption DEF VideoClips
<1>2. H \in SUBSET Nat /\ IsFiniteSet(H)
  <2>1. IsFiniteSet(1..Len(Split))  BY <1>1, FS_Interval
  <2>2. H \subseteq 1..Len(Split)  BY <1>1
  <2>3. IsFiniteSet(H)  BY <2>1, <2>2, FS_Subset
  <2> QED  BY <1>1, <2>2, <2>3
<1>3. x = ListClips(s)  BY DEF ListClips
<1> HIDE DEF H
<1>4. x \in Seq(H)  BY <1>2, InOrderOf
<1> HIDE DEF x
<1>5. Len(x) \in Nat /\ x \in [1..Len(x) -> H]  BY <1>4, LenProperties
<1>6. x \in [1..Len(x) -> Nat]  BY <1>2, <1>5
<1>7. x \in Seq(Nat)  BY <1>5, <1>6, SeqDef
<1>8. QueriesOf(x) \in SUBSET H  BY <1>5 DEF QueriesOf, Range
<1>9. IsFiniteSet(QueriesOf(x))  BY <1>2, <1>8, FS_Subset
<1> QED  BY <1>2, <1>3, <1>7, <1>8, <1>9

LEMMA PrefixIs ==
  ASSUME NEW x \in Seq(Nat), NEW y \in Seq(Nat)
  PROVE  IsPrefix(x, y) <=> Len(x) <= Len(y) /\ \A i \in 1..Len(x) : x[i] = y[i]
<1>1. ASSUME Len(x) <= Len(y)
      PROVE  /\ SubSeq(x, 1, Len(x)) = [i \in 1..Len(x) |-> x[i]]
             /\ SubSeq(y, 1, Len(x)) = [i \in 1..Len(x) |-> y[i]]
  BY <1>1
<1>2. ASSUME IsPrefix(x, y)  PROVE Len(x) <= Len(y) /\ \A i \in 1..Len(x) : x[i] = y[i]
  <2>1. Len(x) <= Len(y) /\ SubSeq(x, 1, Len(x)) = SubSeq(y, 1, Len(x))  BY <1>2 DEF IsPrefix
  <2>2. [i \in 1..Len(x) |-> x[i]] = [i \in 1..Len(x) |-> y[i]]  BY <1>1, <2>1
  <2>3. \A i \in 1..Len(x) : [j \in 1..Len(x) |-> x[j]][i] = [j \in 1..Len(x) |-> y[j]][i]  BY <2>2
  <2> QED  BY <2>1, <2>3
<1>3. ASSUME Len(x) <= Len(y), \A i \in 1..Len(x) : x[i] = y[i]  PROVE IsPrefix(x, y)
  <2>1. [i \in 1..Len(x) |-> x[i]] = [i \in 1..Len(x) |-> y[i]]  BY <1>3
  <2> QED  BY <1>1, <1>3, <2>1 DEF IsPrefix
<1> QED  BY <1>2, <1>3

LEMMA PrefixesNest ==
  ASSUME NEW x \in Seq(Nat), NEW y \in Seq(Nat), NEW z \in Seq(Nat)
  PROVE  /\ IsPrefix(x, x)
         /\ IsPrefix(x, y) /\ IsPrefix(y, z) => IsPrefix(x, z)
         /\ IsPrefix(x, z) /\ IsPrefix(y, z) /\ Len(x) <= Len(y) => IsPrefix(x, y)
<1>1. Len(x) \in Nat /\ Len(y) \in Nat /\ Len(z) \in Nat  OBVIOUS
<1>2. IsPrefix(x, x)  BY <1>1, PrefixIs
<1>3. ASSUME IsPrefix(x, y), IsPrefix(y, z)  PROVE IsPrefix(x, z)
  <2>1. Len(x) <= Len(y) /\ \A i \in 1..Len(x) : x[i] = y[i]  BY <1>3, PrefixIs
  <2>2. Len(y) <= Len(z) /\ \A i \in 1..Len(y) : y[i] = z[i]  BY <1>3, PrefixIs
  <2>3. Len(x) <= Len(z) /\ \A i \in 1..Len(x) : x[i] = z[i]  BY <1>1, <2>1, <2>2
  <2> QED  BY <2>3, PrefixIs
<1>4. ASSUME IsPrefix(x, z), IsPrefix(y, z), Len(x) <= Len(y)  PROVE IsPrefix(x, y)
  <2>1. \A i \in 1..Len(x) : x[i] = z[i]  BY <1>4, PrefixIs
  <2>2. \A i \in 1..Len(y) : y[i] = z[i]  BY <1>4, PrefixIs
  <2>3. \A i \in 1..Len(x) : x[i] = y[i]  BY <1>1, <1>4, <2>1, <2>2
  <2> QED  BY <1>4, <2>3, PrefixIs
<1> QED  BY <1>2, <1>3, <1>4

LEMMA StartIsAPrefix ==
  ASSUME NEW x \in Seq(Nat), NEW n \in 0..Len(x)
  PROVE  SubSeq(x, 1, n) \in Seq(Nat) /\ IsPrefix(SubSeq(x, 1, n), x)
<1> DEFINE y == SubSeq(x, 1, n)
<1>1. y \in Seq(Nat) /\ Len(y) = n /\ \A i \in 1..n : y[i] = x[i]  OBVIOUS
<1> HIDE DEF y
<1>2. IsPrefix(y, x)  BY <1>1, PrefixIs
<1> QED  BY <1>1, <1>2 DEF y

LEMMA StartsAreLed ==
  ASSUME NEW x, Given(x), NEW n \in Nat
  PROVE  x \in Seq(Nat) /\ Led(x) /\ Led(First(x, n)) /\ \A k \in 0..Len(x) : Led(SubSeq(x, 1, k))
<1>1. PICK s \in asked : x = ListClips(s)  BY DEF Given
<1>2. x \in Seq(Nat)  BY <1>1, ListsAreLists
<1>3. Led(x)  BY <1>1, <1>2, PrefixesNest DEF Led
<1>4. \A k \in 0..Len(x) : Led(SubSeq(x, 1, k))  BY <1>1, <1>2, StartIsAPrefix DEF Led
<1>5. Led(First(x, n))
  <2>1. CASE n = 0  BY <1>3, <2>1 DEF First
  <2>2. CASE n # 0
    <3> DEFINE k == IF n < Len(x) THEN n ELSE Len(x)
    <3>1. k \in 0..Len(x)  BY <1>2
    <3>2. First(x, n) = SubSeq(x, 1, k)  BY <2>2 DEF First
    <3> HIDE DEF k
    <3> QED  BY <1>4, <3>1, <3>2
  <2> QED  BY <2>1, <2>2
<1> QED  BY <1>2, <1>3, <1>4, <1>5

\* Where the lists asked for start with one another, the longer of two starts
\* with the other, and query lists of one length are one.
LEMMA LeadsAgree ==
  ASSUME Alike, NEW x, NEW y, Given(y), Led(x), Len(y) <= Len(x)
  PROVE  IsPrefix(y, x)
<1>1. PICK s \in asked : y = ListClips(s)  BY DEF Given
<1>2. PICK t \in asked : IsPrefix(x, ListClips(t)) /\ x \in Seq(Nat)  BY DEF Led
<1>3. ListClips(s) \in Seq(Nat) /\ ListClips(t) \in Seq(Nat)  BY ListsAreLists
<1>4. IsPrefix(ListClips(s), ListClips(t)) \/ IsPrefix(ListClips(t), ListClips(s))  BY DEF Alike
<1>5. CASE IsPrefix(ListClips(s), ListClips(t))  BY <1>1, <1>2, <1>3, <1>5, PrefixesNest
<1>6. CASE IsPrefix(ListClips(t), ListClips(s))
  <2>1. IsPrefix(x, y) /\ IsPrefix(y, y)  BY <1>1, <1>2, <1>3, <1>6, PrefixesNest
  <2> QED  BY <1>1, <1>2, <1>3, <2>1, PrefixesNest
<1> QED  BY <1>4, <1>5, <1>6

LEMMA QueriesAgree ==
  ASSUME Alike, NEW x, NEW y, Queried(x), Queried(y), Len(x) = Len(y)
  PROVE  x = y
<1>1. PICK s \in asked : x = InOrder(QueriesOf(ListClips(s)))  BY DEF Queried
<1>2. PICK t \in asked : y = InOrder(QueriesOf(ListClips(t)))  BY DEF Queried
<1>3. ListClips(s) \in Seq(Nat) /\ ListClips(t) \in Seq(Nat)  BY ListsAreLists
<1>4. ASSUME NEW l \in Seq(Nat), NEW m \in Seq(Nat), IsPrefix(l, m)
      PROVE  QueriesOf(l) \in SUBSET QueriesOf(m)
  <2>1. Len(l) <= Len(m) /\ \A i \in 1..Len(l) : l[i] = m[i]  BY <1>4, PrefixIs
  <2>2. DOMAIN l = 1..Len(l) /\ DOMAIN m = 1..Len(m) /\ Len(l) \in Nat /\ Len(m) \in Nat  OBVIOUS
  <2>3. Range(l) \in SUBSET Range(m)
    <3>1. ASSUME NEW i \in DOMAIN l  PROVE l[i] \in Range(m)
      <4>1. i \in DOMAIN m /\ m[i] = l[i]  BY <2>1, <2>2, <3>1
      <4> QED  BY <4>1 DEF Range
    <3> QED  BY <3>1 DEF Range
  <2> QED  BY <2>3 DEF QueriesOf
<1>5. IsPrefix(ListClips(s), ListClips(t)) \/ IsPrefix(ListClips(t), ListClips(s))  BY DEF Alike
<1> DEFINE G == QueriesOf(ListClips(s))
           H == QueriesOf(ListClips(t))
<1>6. G \in SUBSET Nat /\ IsFiniteSet(G) /\ H \in SUBSET Nat /\ IsFiniteSet(H)  BY ListsAreLists
<1>7. G \in SUBSET H \/ H \in SUBSET G  BY <1>3, <1>4, <1>5
<1> HIDE DEF G, H
<1>8. Len(InOrder(G)) = Len(InOrder(H))  BY <1>1, <1>2 DEF G, H
<1>9. G = H  BY <1>6, <1>7, <1>8, SizesTell
<1> QED  BY <1>1, <1>2, <1>9 DEF G, H

-----------------------------------------------------------------------------
StageKnows ==
    /\ "stage" \in DOMAIN videoRun
    /\ videoRun.stage \in {"frames", "lists", "listing"} => "clips" \in DOMAIN videoRun /\ Given(videoRun.clips)
    /\ videoRun.stage = "run" =>
          /\ {"out", "rows"} \subseteq DOMAIN videoRun
          /\ \/ \E m \in Encoders, t \in TorchTags \cup VideoDtypes : videoRun.out = <<m, t>> /\ Led(videoRun.rows)
             \/ \E t \in RunTags : videoRun.out = <<Ssv2, t>> /\ Queried(videoRun.rows)
    /\ videoRun.stage = "report" => ShownRight(videoRun.figures)
ListsGiven ==
    /\ Entire(frameIndex) => Given(frameIndex.clips)
    /\ Entire(order) => Given(order)
    /\ Entire(listing) => Led(listing)
OutputsLead ==
    /\ DOMAIN outputs = Outputs
    /\ \A m \in Encoders, t \in TorchTags \cup VideoDtypes : Entire(outputs[<<m, t>>]) => Led(outputs[<<m, t>>])
    /\ \A t \in RunTags : Entire(outputs[<<Ssv2, t>>]) => Queried(outputs[<<Ssv2, t>>])
VideoInv == StageKnows /\ ListsGiven /\ OutputsLead /\ ScoresTheListedClips

LEMMA VideoBegins == VideoInit => VideoInv
<1> SUFFICES ASSUME VideoInit  PROVE VideoInv  OBVIOUS
<1>1. StageKnows  BY DEF VideoInit, StageKnows, NoVideoRun
<1>2. ListsGiven /\ ScoresTheListedClips  BY DEF VideoInit, ListsGiven, ScoresTheListedClips, Entire
<1>3. OutputsLead  BY DEF VideoInit, OutputsLead, Outputs, RunTags, TorchTags, Entire
<1> QED  BY <1>1, <1>2, <1>3 DEF VideoInv

LEMMA ListsStay ==
  ASSUME ListsGiven, UNCHANGED <<frameIndex, order, listing>>, asked \in SUBSET asked'
  PROVE  ListsGiven'
BY DEF ListsGiven, Given, Led, Entire

LEMMA OutputsStay ==
  ASSUME OutputsLead, UNCHANGED outputs, asked \in SUBSET asked'
  PROVE  OutputsLead'
BY DEF OutputsLead, Led, Queried, Entire

LEMMA ArtifactStays ==
  ASSUME ScoresTheListedClips, UNCHANGED videoArtifact, asked \in SUBSET asked'
  PROVE  ScoresTheListedClips'
<1>1. Alike' => Alike  BY DEF Alike
<1>2. CASE ~Entire(videoArtifact)  BY <1>2 DEF ScoresTheListedClips, Entire
<1>3. CASE Entire(videoArtifact)
  <2>1. \A r \in videoArtifact.rows :
           Len(r.of) <= Len(r.data) /\ \E s \in asked' : IsPrefix(r.data, ListClips(s))
    BY <1>3 DEF ScoresTheListedClips
  <2>2. Alike' => /\ \A r \in videoArtifact.rows : IsPrefix(r.of, r.data)
                  /\ \A r, q \in videoArtifact.head : r.data = q.data
    BY <1>1, <1>3 DEF ScoresTheListedClips
  <2> QED  BY <2>1, <2>2 DEF ScoresTheListedClips
<1> QED  BY <1>2, <1>3

LEMMA IdleKnows ==
  ASSUME videoRun' = NoVideoRun
  PROVE  StageKnows'
BY DEF StageKnows, NoVideoRun

\* The stage that runs and the lists asked for stay as they are.
LEMMA RunStays ==
  ASSUME StageKnows, UNCHANGED <<videoRun, asked>>
  PROVE  StageKnows'
BY DEF StageKnows, Given, Led, Queried, ShownRight, Alike

LEMMA VideoStutters ==
  ASSUME VideoInv, UNCHANGED videoVars
  PROVE  VideoInv'
<1>1. UNCHANGED <<videoRun, asked, frameIndex, order, listing, outputs, videoArtifact>>  BY DEF videoVars
<1> QED  BY <1>1, RunStays, ListsStay, OutputsStay, ArtifactStays DEF VideoInv

LEMMA DecodingKeeps ==
  ASSUME VideoInv, StartDecode \/ DecodeClip \/ IndexFrames \/ DropFrames
  PROVE  VideoInv'
<1> USE DEF VideoInv
<1>1. CASE StartDecode
  <2>1. PICK s \in SplitSets :
           /\ videoRun' = [stage |-> "frames", clips |-> ListClips(s), todo |-> Range(ListClips(s)), decoded |-> 0]
           /\ asked' = asked \cup {s}
    BY <1>1 DEF StartDecode, StartStage
  <2>2. s \in asked' /\ asked \in SUBSET asked'  BY <2>1
  <2>3. videoRun'.stage = "frames" /\ videoRun'.clips = ListClips(s) /\ {"stage", "clips"} \subseteq DOMAIN videoRun'
    BY <2>1
  <2>4. StageKnows'  BY <2>2, <2>3 DEF StageKnows, Given
  <2>5. UNCHANGED <<frameIndex, order, listing>> /\ UNCHANGED outputs /\ UNCHANGED videoArtifact
    BY <1>1 DEF StartDecode, VideoFiles
  <2> QED  BY <2>2, <2>4, <2>5, ListsStay, OutputsStay, ArtifactStays
<1>2. CASE DecodeClip
  <2>1. StageKnows'
    <3>1. CASE videoRun' = NoVideoRun  BY <3>1, IdleKnows
    <3>2. CASE \E c \in videoRun.todo \ frames : videoRun' = With(c)
      <4>1. PICK c : videoRun' = With(c)  BY <3>2
      <4>2. videoRun.stage = "frames"  BY <1>2 DEF DecodeClip
      <4>3. DOMAIN videoRun' = DOMAIN videoRun  BY <4>1 DEF With
      <4>4. "stage" \in DOMAIN videoRun /\ "clips" \in DOMAIN videoRun /\ Given(videoRun.clips)
        BY <4>2 DEF StageKnows
      <4>5. videoRun'.stage = videoRun.stage /\ videoRun'.clips = videoRun.clips  BY <4>1, <4>4 DEF With
      <4>6. asked' = asked  BY <1>2 DEF DecodeClip
      <4>7. Given(videoRun.clips)'  BY <4>4, <4>5, <4>6 DEF Given
      <4> QED  BY <4>2, <4>3, <4>4, <4>5, <4>7 DEF StageKnows
    <3> QED  BY <1>2, <3>1, <3>2 DEF DecodeClip
  <2> QED  BY <1>2, <2>1, ListsStay, OutputsStay, ArtifactStays DEF DecodeClip
<1>3. CASE IndexFrames
  <2>1. StageKnows'  BY <1>3, IdleKnows DEF IndexFrames
  <2>2. Given(videoRun.clips) /\ frameIndex' = [clips |-> videoRun.clips, timed |-> videoRun.decoded]
    BY <1>3 DEF IndexFrames, StageKnows
  <2>3. frameIndex'.clips = videoRun.clips  BY <2>2
  <2>4. Given(frameIndex.clips)'  BY <1>3, <2>2, <2>3 DEF Given, IndexFrames
  <2>5. ListsGiven'  BY <1>3, <2>4 DEF IndexFrames, ListsGiven, Given, Led, Entire
  <2> QED  BY <1>3, <2>1, <2>5, OutputsStay, ArtifactStays DEF IndexFrames
<1>4. CASE DropFrames
  <2>1. ListsGiven'  BY <1>4 DEF DropFrames, ListsGiven, Given, Led, Entire
  <2>2. UNCHANGED videoRun  BY <1>4 DEF DropFrames, StartStage
  <2> QED  BY <1>4, <2>1, <2>2, RunStays, OutputsStay, ArtifactStays DEF DropFrames
<1> QED  BY <1>1, <1>2, <1>3, <1>4

LEMMA ListingKeeps ==
  ASSUME VideoInv, StartOrder \/ WriteOrder \/ WriteListing
  PROVE  VideoInv'
<1> USE DEF VideoInv
<1>1. CASE StartOrder
  <2>1. videoRun' = [stage |-> "lists", clips |-> frameIndex.clips] /\ asked' = asked /\ Given(frameIndex.clips)
    BY <1>1 DEF StartOrder, StartStage, ListsGiven
  <2>2. videoRun'.stage = "lists" /\ videoRun'.clips = frameIndex.clips /\ {"stage", "clips"} \subseteq DOMAIN videoRun'
    BY <2>1
  <2>3. StageKnows'  BY <2>1, <2>2 DEF StageKnows, Given
  <2>4. UNCHANGED <<frameIndex, order, listing>> /\ UNCHANGED outputs /\ UNCHANGED videoArtifact
    BY <1>1 DEF StartOrder, VideoFiles
  <2> QED  BY <2>1, <2>3, <2>4, ListsStay, OutputsStay, ArtifactStays
<1>2. CASE WriteOrder
  <2>1. videoRun.stage = "lists" /\ videoRun' = [videoRun EXCEPT !.stage = "listing"] /\ order' = videoRun.clips
    BY <1>2 DEF WriteOrder
  <2>2. {"stage", "clips"} \subseteq DOMAIN videoRun /\ Given(videoRun.clips)  BY <2>1 DEF StageKnows
  <2>3. DOMAIN videoRun' = DOMAIN videoRun /\ videoRun'.stage = "listing" /\ videoRun'.clips = videoRun.clips
    BY <2>1, <2>2
  <2>4. StageKnows'  BY <1>2, <2>2, <2>3 DEF StageKnows, WriteOrder, Given
  <2>5. ListsGiven'  BY <1>2, <2>1, <2>2 DEF WriteOrder, ListsGiven, Given, Led, Entire
  <2> QED  BY <1>2, <2>4, <2>5, OutputsStay, ArtifactStays DEF WriteOrder
<1>3. CASE WriteListing
  <2>1. StageKnows'  BY <1>3, IdleKnows DEF WriteListing
  <2>2. Given(videoRun.clips)  BY <1>3 DEF WriteListing, StageKnows
  <2>3. Led(videoRun.clips)  BY <2>2, StartsAreLed
  <2>4. ListsGiven'  BY <1>3, <2>3 DEF WriteListing, ListsGiven, Given, Led, Entire
  <2> QED  BY <1>3, <2>1, <2>4, OutputsStay, ArtifactStays DEF WriteListing
<1> QED  BY <1>1, <1>2, <1>3

LEMMA StartingKeeps ==
  ASSUME VideoInv, StartReference \/ StartEmbed \/ StartSsv2
  PROVE  VideoInv'
<1> USE DEF VideoInv
<1>1. ASSUME NEW out, NEW rows, RunPass(out, rows),
             \/ \E m \in Encoders, t \in TorchTags \cup VideoDtypes : out = <<m, t>> /\ Led(rows)
             \/ \E t \in RunTags : out = <<Ssv2, t>> /\ Queried(rows)
      PROVE  VideoInv'
  <2>1. videoRun' = [stage |-> "run", out |-> out, rows |-> rows] /\ asked' = asked
    BY <1>1 DEF RunPass, StartStage
  <2>2. videoRun'.stage = "run" /\ videoRun'.out = out /\ videoRun'.rows = rows /\ DOMAIN videoRun' = {"stage", "out", "rows"}
    BY <2>1
  <2>3. \/ \E m \in Encoders, t \in TorchTags \cup VideoDtypes : videoRun'.out = <<m, t>> /\ Led(videoRun.rows)'
        \/ \E t \in RunTags : videoRun'.out = <<Ssv2, t>> /\ Queried(videoRun.rows)'
    BY <1>1, <2>1, <2>2 DEF Led, Queried
  <2>4. StageKnows'  BY <2>2, <2>3 DEF StageKnows
  <2>5. UNCHANGED <<frameIndex, order, listing>> /\ UNCHANGED outputs /\ UNCHANGED videoArtifact
    BY <1>1 DEF RunPass, VideoFiles
  <2> QED  BY <2>1, <2>4, <2>5, ListsStay, OutputsStay, ArtifactStays
<1>2. CASE StartReference
  <2>1. PICK m \in Encoders, t \in TorchTags, n \in VideoLimits : RunPass(<<m, t>>, First(order, n))
    BY <1>2 DEF StartReference
  <2>2. Given(order)  BY <1>2 DEF StartReference, ListsGiven
  <2>3. n \in Nat  BY VideoAssumption
  <2>4. Led(First(order, n))  BY <2>2, <2>3, StartsAreLed
  <2> QED  BY <1>1, <2>1, <2>4
<1>3. CASE StartEmbed
  <2>1. PICK m \in Encoders, t \in VideoDtypes : RunPass(<<m, t>>, listing)  BY <1>3 DEF StartEmbed
  <2>2. Led(listing)  BY <1>3 DEF StartEmbed, ListsGiven
  <2> QED  BY <1>1, <2>1, <2>2
<1>4. CASE StartSsv2
  <2>1. PICK t \in RunTags : RunPass(<<Ssv2, t>>, QueryOrder)  BY <1>4 DEF StartSsv2, RunTags
  <2>2. Given(order)  BY <1>4 DEF StartSsv2, ListsGiven
  <2>3. Queried(QueryOrder)  BY <2>2 DEF Given, Queried, QueryOrder, QueriesOf
  <2> QED  BY <1>1, <2>1, <2>3
<1> QED  BY <1>2, <1>3, <1>4

\* The rows of a pass replace what its file held, or leave it cut short.
LEMMA RowsKeep ==
  ASSUME VideoInv, videoRun.stage = "run", NEW x, x = videoRun.rows \/ x = HalfFile,
         outputs' = [outputs EXCEPT ![videoRun.out] = x], UNCHANGED asked
  PROVE  OutputsLead'
<1> USE DEF VideoInv
<1>1. CASE \E m \in Encoders, t \in TorchTags \cup VideoDtypes : videoRun.out = <<m, t>> /\ Led(videoRun.rows)
  <2>1. PICK m \in Encoders, t \in TorchTags \cup VideoDtypes : videoRun.out = <<m, t>> /\ Led(videoRun.rows)
    BY <1>1
  <2>2. outputs' = [outputs EXCEPT ![<<m, t>>] = x] /\ (Entire(x) => Led(x))  BY <2>1 DEF Entire
  <2>3. DOMAIN outputs' = Outputs  BY <2>2 DEF OutputsLead
  <2>4. \A u \in RunTags : Entire(outputs'[<<Ssv2, u>>]) => Queried(outputs'[<<Ssv2, u>>])
    <3> TAKE u \in RunTags
    <3>1. <<Ssv2, u>> # <<m, t>>  BY VideoAssumption
    <3>2. <<Ssv2, u>> \in Outputs  BY DEF Outputs, RunTags
    <3>3. outputs'[<<Ssv2, u>>] = outputs[<<Ssv2, u>>]  BY <2>2, <3>1, <3>2 DEF OutputsLead
    <3> QED  BY <3>3 DEF OutputsLead
  <2>5. \A e \in Encoders, u \in TorchTags \cup VideoDtypes : Entire(outputs'[<<e, u>>]) => Led(outputs'[<<e, u>>])
    <3> TAKE e \in Encoders, u \in TorchTags \cup VideoDtypes
    <3>1. <<e, u>> \in Outputs  BY DEF Outputs
    <3>2. CASE <<e, u>> = <<m, t>>
      <4>1. outputs'[<<e, u>>] = x  BY <2>2, <3>1, <3>2 DEF OutputsLead
      <4> QED  BY <2>2, <4>1
    <3>3. CASE <<e, u>> # <<m, t>>
      <4>1. outputs'[<<e, u>>] = outputs[<<e, u>>]  BY <2>2, <3>1, <3>3 DEF OutputsLead
      <4> QED  BY <4>1 DEF OutputsLead
    <3> QED  BY <3>2, <3>3
  <2> QED  BY <2>3, <2>4, <2>5 DEF OutputsLead, Led, Queried, Entire
<1>2. CASE \E t \in RunTags : videoRun.out = <<Ssv2, t>> /\ Queried(videoRun.rows)
  <2>1. PICK t \in RunTags : videoRun.out = <<Ssv2, t>> /\ Queried(videoRun.rows)  BY <1>2
  <2>2. outputs' = [outputs EXCEPT ![<<Ssv2, t>>] = x] /\ (Entire(x) => Queried(x))  BY <2>1 DEF Entire
  <2>3. DOMAIN outputs' = Outputs  BY <2>2 DEF OutputsLead
  <2>4. \A u \in RunTags : Entire(outputs'[<<Ssv2, u>>]) => Queried(outputs'[<<Ssv2, u>>])
    <3> TAKE u \in RunTags
    <3>1. <<Ssv2, u>> \in Outputs  BY DEF Outputs, RunTags
    <3>2. CASE u = t
      <4>1. outputs'[<<Ssv2, u>>] = x  BY <2>2, <3>1, <3>2 DEF OutputsLead
      <4> QED  BY <2>2, <4>1
    <3>3. CASE u # t
      <4>1. outputs'[<<Ssv2, u>>] = outputs[<<Ssv2, u>>]  BY <2>2, <3>1, <3>3 DEF OutputsLead
      <4> QED  BY <4>1 DEF OutputsLead
    <3> QED  BY <3>2, <3>3
  <2>5. \A e \in Encoders, u \in TorchTags \cup VideoDtypes : Entire(outputs'[<<e, u>>]) => Led(outputs'[<<e, u>>])
    <3> TAKE e \in Encoders, u \in TorchTags \cup VideoDtypes
    <3>1. <<e, u>> # <<Ssv2, t>>  BY VideoAssumption
    <3>2. <<e, u>> \in Outputs  BY DEF Outputs
    <3>3. outputs'[<<e, u>>] = outputs[<<e, u>>]  BY <2>2, <3>1, <3>2 DEF OutputsLead
    <3> QED  BY <3>3 DEF OutputsLead
  <2> QED  BY <2>3, <2>4, <2>5 DEF OutputsLead, Led, Queried, Entire
<1> QED  BY <1>1, <1>2 DEF StageKnows

LEMMA SavingKeeps ==
  ASSUME VideoInv, SaveRows \/ SaveStats
  PROVE  VideoInv'
<1> USE DEF VideoInv
<1>1. CASE SaveRows
  <2>1. videoRun.stage = "run" /\ videoRun' = [videoRun EXCEPT !.stage = "timings"]
        /\ outputs' = [outputs EXCEPT ![videoRun.out] = videoRun.rows] /\ asked' = asked
    BY <1>1 DEF SaveRows
  <2>2. "stage" \in DOMAIN videoRun  BY DEF StageKnows
  <2>3. "stage" \in DOMAIN videoRun' /\ videoRun'.stage = "timings"  BY <2>1, <2>2
  <2>4. StageKnows'  BY <2>3 DEF StageKnows
  <2>5. OutputsLead'  BY <2>1, RowsKeep
  <2> QED  BY <1>1, <2>4, <2>5, ListsStay, ArtifactStays DEF SaveRows
<1>2. CASE SaveStats
  BY <1>2, IdleKnows, ListsStay, OutputsStay, ArtifactStays DEF SaveStats
<1> QED  BY <1>1, <1>2

\* What the report looks at, lengths and the presence of files, is enough for
\* every row to be of a list asked for.
LEMMA ReportingKeeps ==
  ASSUME VideoInv, ReportVideo
  PROVE  VideoInv'
<1> USE DEF VideoInv
<1> DEFINE rows == UNION {ModelRows(m) : m \in Encoders}
           art == [order |-> order, timed |-> DecodeTimed, overhead |-> Overhead, rows |-> rows, head |-> HeadRows]
<1>1. videoRun' = [stage |-> "report", figures |-> art] /\ asked' = asked  BY DEF ReportVideo, StartStage
<1>2. Given(order)  BY DEF ReportVideo, ListsGiven
<1>3. art.rows = rows /\ art.head = HeadRows  OBVIOUS
<1>4. ASSUME NEW r \in rows
      PROVE  /\ Len(r.of) <= Len(r.data) /\ \E s \in asked : IsPrefix(r.data, ListClips(s))
             /\ Alike => IsPrefix(r.of, r.data)
  <2>1. PICK m \in Encoders : r \in ModelRows(m)  BY <1>4
  <2>2. PICK t \in HasRun(m) : r = [of |-> order, data |-> outputs[<<m, t>>]]  BY <2>1 DEF ModelRows
  <2>3. Entire(outputs[<<m, t>>]) /\ Len(outputs[<<m, t>>]) >= Len(order)  BY <2>2 DEF ReportVideo, Scorable
  <2>4. t \in TorchTags \cup VideoDtypes  BY <2>2 DEF HasRun, RunTags, TorchTags
  <2>5. Led(outputs[<<m, t>>])  BY <2>3, <2>4 DEF OutputsLead
  <2>6. r.of = order /\ r.data = outputs[<<m, t>>]  BY <2>2
  <2>7. order \in Seq(Nat) /\ outputs[<<m, t>>] \in Seq(Nat)  BY <1>2, <2>5, StartsAreLed DEF Led
  <2>8. Len(r.of) <= Len(r.data)  BY <2>3, <2>6, <2>7
  <2>9. Alike => IsPrefix(r.of, r.data)  BY <1>2, <2>5, <2>6, <2>8, LeadsAgree
  <2> QED  BY <2>5, <2>6, <2>8, <2>9 DEF Led
<1>5. ASSUME Alike, NEW r \in HeadRows, NEW q \in HeadRows
      PROVE  r.data = q.data
  <2>1. "torch" \in HasRun(Ssv2) /\ HeadRows = {[of |-> QueryOrder, data |-> outputs[<<Ssv2, t>>]] : t \in HasRun(Ssv2)}
    BY <1>5 DEF HeadRows
  <2>2. ASSUME NEW x \in HeadRows  PROVE x.data = outputs[<<Ssv2, "torch">>]
    <3>1. PICK t \in HasRun(Ssv2) : x = [of |-> QueryOrder, data |-> outputs[<<Ssv2, t>>]]  BY <2>1, <2>2
    <3>2. Entire(outputs[<<Ssv2, t>>]) /\ Entire(outputs[<<Ssv2, "torch">>])
          /\ Len(outputs[<<Ssv2, t>>]) = Len(outputs[<<Ssv2, "torch">>])
      BY <2>1, <3>1 DEF ReportVideo, HeadScorable
    <3>3. Queried(outputs[<<Ssv2, t>>]) /\ Queried(outputs[<<Ssv2, "torch">>])
      BY <2>1, <3>1, <3>2 DEF OutputsLead, HasRun
    <3>4. outputs[<<Ssv2, t>>] = outputs[<<Ssv2, "torch">>]  BY <1>5, <3>2, <3>3, QueriesAgree
    <3> QED  BY <3>1, <3>4
  <2> QED  BY <2>2
<1> HIDE DEF art, rows
<1>6. ShownRight(art)  BY <1>3, <1>4, <1>5 DEF ShownRight
<1>7. videoRun'.stage = "report" /\ videoRun'.figures = art /\ "stage" \in DOMAIN videoRun'  BY <1>1
<1>8. ShownRight(videoRun.figures)'  BY <1>1, <1>6, <1>7 DEF ShownRight, Alike
<1>9. StageKnows'  BY <1>7, <1>8 DEF StageKnows
<1>10. UNCHANGED <<frameIndex, order, listing>> /\ UNCHANGED outputs /\ UNCHANGED videoArtifact
  BY DEF ReportVideo, VideoFiles
<1> QED  BY <1>1, <1>9, <1>10, ListsStay, OutputsStay, ArtifactStays

LEMMA PublishingKeeps ==
  ASSUME VideoInv, WriteVideo
  PROVE  VideoInv'
<1> USE DEF VideoInv
<1>1. StageKnows'  BY IdleKnows DEF WriteVideo
<1>2. ShownRight(videoRun.figures) /\ videoArtifact' = videoRun.figures /\ asked' = asked
  BY DEF WriteVideo, StageKnows
<1>3. ScoresTheListedClips'  BY <1>2 DEF ScoresTheListedClips, ShownRight, Alike
<1> QED  BY <1>1, <1>3, ListsStay, OutputsStay DEF WriteVideo

LEMMA KillVideoKeeps ==
  ASSUME VideoInv, KillVideo
  PROVE  VideoInv'
<1> USE DEF VideoInv
<1>1. StageKnows' /\ asked' = asked  BY IdleKnows DEF KillVideo
<1>2. CASE UNCHANGED VideoFiles
  <2>1. UNCHANGED <<frameIndex, order, listing>> /\ UNCHANGED outputs /\ UNCHANGED videoArtifact
    BY <1>2 DEF VideoFiles
  <2> QED  BY <1>1, <2>1, ListsStay, OutputsStay, ArtifactStays
<1>3. CASE CutFrameIndex /\ UNCHANGED <<frames, order, listing, outputs, timings, videoArtifact>>
  <2>1. ListsGiven'  BY <1>1, <1>3 DEF CutFrameIndex, ListsGiven, Given, Led, Entire
  <2> QED  BY <1>1, <1>3, <2>1, OutputsStay, ArtifactStays
<1>4. CASE CutOrder /\ UNCHANGED <<frames, frameIndex, listing, outputs, timings, videoArtifact>>
  <2>1. ListsGiven'  BY <1>1, <1>4 DEF CutOrder, ListsGiven, Given, Led, Entire
  <2> QED  BY <1>1, <1>4, <2>1, OutputsStay, ArtifactStays
<1>5. CASE CutListing /\ UNCHANGED <<frames, frameIndex, order, outputs, timings, videoArtifact>>
  <2>1. Given(videoRun.clips)  BY <1>5 DEF CutListing, StageKnows
  <2>2. \A n \in 0..Len(videoRun.clips) : Led(SubSeq(videoRun.clips, 1, n))  BY <2>1, StartsAreLed
  <2>3. Entire(listing') => Led(listing')  BY <1>5, <2>2 DEF CutListing, Entire
  <2>4. (Entire(listing) => Led(listing))'  BY <1>1, <2>3 DEF Entire, Led
  <2>5. ListsGiven'  BY <1>1, <1>5, <2>4 DEF ListsGiven, Given, Entire
  <2> QED  BY <1>1, <1>5, <2>5, OutputsStay, ArtifactStays
<1>6. CASE CutRows /\ UNCHANGED <<frames, frameIndex, order, listing, timings, videoArtifact>>
  <2>1. OutputsLead'  BY <1>1, <1>6, RowsKeep DEF CutRows
  <2> QED  BY <1>1, <1>6, <2>1, ListsStay, ArtifactStays
<1>7. CASE CutStats /\ UNCHANGED <<frames, frameIndex, order, listing, outputs, videoArtifact>>
  BY <1>1, <1>7, ListsStay, OutputsStay, ArtifactStays
<1>8. CASE CutArtifact /\ UNCHANGED <<frames, frameIndex, order, listing, outputs, timings>>
  <2>1. ScoresTheListedClips'  BY <1>8 DEF CutArtifact, ScoresTheListedClips, Entire
  <2> QED  BY <1>1, <1>8, <2>1, ListsStay, OutputsStay
<1> QED  BY <1>2, <1>3, <1>4, <1>5, <1>6, <1>7, <1>8 DEF KillVideo

(***************************************************************************)
(* bench_accuracy_video.py's stages, killed and run again in any order and *)
(* with any options, never score a feature as another clip's, and never    *)
(* compare logits of different clips, as long as the lists asked for start *)
(* with one another; without that the rows are still, clip for clip, of    *)
(* one of those lists.                                                     *)
(***************************************************************************)
THEOREM VideoInvHolds == VideoSpec => []VideoInv
<1>1. VideoInv /\ [VideoNext]_videoVars => VideoInv'
  BY DecodingKeeps, ListingKeeps, StartingKeeps, SavingKeeps, ReportingKeeps, PublishingKeeps, KillVideoKeeps,
     VideoStutters DEF VideoNext
<1> QED  BY <1>1, VideoBegins, PTL DEF VideoSpec

THEOREM ListedClipsAreScored == VideoSpec => []ScoresTheListedClips
<1>1. VideoInv => ScoresTheListedClips  BY DEF VideoInv
<1> QED  BY <1>1, VideoInvHolds, PTL
-----------------------------------------------------------------------------
(***************************************************************************)
(* The sweep over images.  What rng.choice takes of a class depends on the *)
(* seed, how many it takes does not: so a matrix of the length a split has *)
(* is that split as some run's seed drew it, and it is the recorded one    *)
(* where the seed is the same.                                             *)
(***************************************************************************)
Args == [stage : Stages, limit : ImageLimits, per : PerClass, seed : Seeds]
Take(per) == IF per < PerDir THEN per ELSE PerDir
Picked(seed, n) == {k \in 1..PerDir : ((k - 1 + seed) % PerDir) < n}

LEMMA DivMod ==
  ASSUME NEW d \in Nat \ {0}, NEW q \in Nat, NEW r \in 0..(d - 1)
  PROVE  (q * d + r) \div d = q /\ (q * d + r) % d = r
OBVIOUS

LEMMA Below ==
  ASSUME NEW d \in Nat \ {0}, NEW q \in Nat, NEW i \in 0..(q * d - 1)
  PROVE  /\ i \div d \in 0..(q - 1) /\ i % d \in 0..(d - 1)
OBVIOUS

LEMMA Products ==
  ASSUME NEW w \in Nat \ {0}, NEW n \in Nat, NEW m \in Nat
  PROVE  w * n \in Nat /\ (w * n = w * m => n = m)
OBVIOUS

\* Over one round of d numbers, x + s meets every remainder once.
LEMMA OneOfEach ==
  ASSUME NEW d \in Nat \ {0}, NEW s \in Nat
  PROVE  /\ \A x, y \in 0..(d - 1) : (x + s) % d = (y + s) % d => x = y
         /\ \A m \in 0..(d - 1) : \E x \in 0..(d - 1) : (x + s) % d = m
<1>1. \A z \in Nat : z \div d \in Nat /\ z % d \in 0..(d - 1) /\ z = (z \div d) * d + (z % d)
  OBVIOUS
<1>2. \A q, p \in Nat : q < p => q * d + d <= p * d
  <2> TAKE q, p \in Nat
  <2> HAVE q < p
  <2>1. PICK e \in Nat : p = q + 1 + e
    <3>1. p - q - 1 \in Nat /\ p = q + 1 + (p - q - 1)  OBVIOUS
    <3> QED  BY <3>1
  <2>2. p * d = q * d + d + e * d  BY <2>1
  <2>3. e * d \in Nat /\ q * d \in Nat /\ p * d \in Nat  BY <2>1, Products
  <2> QED  BY <2>2, <2>3
<1>3. \A x, y \in 0..(d - 1) : (x + s) % d = (y + s) % d => x = y
  <2> TAKE x, y \in 0..(d - 1)
  <2> HAVE (x + s) % d = (y + s) % d
  <2> DEFINE p == (x + s) \div d
             q == (y + s) \div d
             r == (x + s) % d
  <2>1. x + s \in Nat /\ y + s \in Nat  OBVIOUS
  <2>2. p \in Nat /\ q \in Nat /\ r \in Nat /\ x + s = p * d + r /\ y + s = q * d + r  BY <1>1, <2>1
  <2>3. p * d \in Nat /\ q * d \in Nat  BY <2>2, Products
  <2> HIDE DEF p, q, r
  <2>4. ~(p < q)
    <3>1. ASSUME p < q  PROVE FALSE
      <4>1. p * d + d <= q * d  BY <1>2, <2>2, <3>1
      <4> QED  BY <2>2, <2>3, <4>1
    <3> QED  BY <3>1
  <2>5. ~(q < p)
    <3>1. ASSUME q < p  PROVE FALSE
      <4>1. q * d + d <= p * d  BY <1>2, <2>2, <3>1
      <4> QED  BY <2>2, <2>3, <4>1
    <3> QED  BY <3>1
  <2>6. p = q  BY <2>2, <2>4, <2>5
  <2> QED  BY <2>2, <2>3, <2>6
<1>4. \A m \in 0..(d - 1) : \E x \in 0..(d - 1) : (x + s) % d = m
  <2> TAKE m \in 0..(d - 1)
  <2> DEFINE q == s \div d
             u == s % d
  <2>1. q \in Nat /\ u \in 0..(d - 1) /\ s = q * d + u  BY <1>1
  <2>2. q * d \in Nat /\ (q + 1) * d = q * d + d  BY <2>1, Products
  <2> HIDE DEF q, u
  <2>3. CASE u <= m
    <3>1. m - u \in 0..(d - 1) /\ (m - u) + s = q * d + m  BY <2>1, <2>2, <2>3
    <3>2. (q * d + m) % d = m  BY <2>1, DivMod
    <3> QED  BY <3>1, <3>2
  <2>4. CASE ~(u <= m)
    <3>1. m + d - u \in 0..(d - 1) /\ (m + d - u) + s = (q + 1) * d + m  BY <2>1, <2>2, <2>4
    <3>2. ((q + 1) * d + m) % d = m  BY <2>1, DivMod
    <3> QED  BY <3>1, <3>2
  <2> QED  BY <2>3, <2>4
<1> QED  BY <1>3, <1>4

\* Whatever the seed, n files of a class are taken.
LEMMA AsManyArePicked ==
  ASSUME NEW seed \in Nat, NEW n \in 0..PerDir
  PROVE  Cardinality(Picked(seed, n)) = n
<1>1. PerDir \in Nat \ {0}  BY ImageAssumption
<1> DEFINE H == Picked(seed, n)
           f == [k \in H |-> (k - 1 + seed) % PerDir]
<1>2. \A k \in H : k - 1 \in 0..(PerDir - 1) /\ (k - 1 + seed) % PerDir \in 0..(n - 1)
  <2> TAKE k \in H
  <2>1. k \in 1..PerDir /\ (k - 1 + seed) % PerDir < n  BY DEF Picked
  <2>2. (k - 1 + seed) % PerDir \in Nat  BY <1>1, <2>1
  <2> QED  BY <1>1, <2>1, <2>2
<1>3. \A m \in 0..(n - 1) : \E k \in H : (k - 1 + seed) % PerDir = m
  <2> TAKE m \in 0..(n - 1)
  <2>1. m \in 0..(PerDir - 1)  BY <1>1
  <2>2. PICK x \in 0..(PerDir - 1) : (x + seed) % PerDir = m  BY <1>1, <2>1, OneOfEach
  <2>3. x + 1 \in 1..PerDir /\ x + 1 - 1 = x  BY <1>1, <2>2
  <2>4. x + 1 \in H  BY <2>2, <2>3 DEF Picked
  <2> QED  BY <2>2, <2>3, <2>4
<1>4. \A j, k \in H : (j - 1 + seed) % PerDir = (k - 1 + seed) % PerDir => j = k
  <2> TAKE j, k \in H
  <2>1. j - 1 \in 0..(PerDir - 1) /\ k - 1 \in 0..(PerDir - 1) /\ j \in Nat /\ k \in Nat  BY <1>2 DEF Picked
  <2>2. (j - 1 + seed) % PerDir = (k - 1 + seed) % PerDir => j - 1 = k - 1  BY <1>1, <2>1, OneOfEach
  <2> QED  BY <2>1, <2>2
<1> HIDE DEF H
<1>5. f \in Bijection(H, 0..(n - 1))
  BY <1>2, <1>3, <1>4 DEF Bijection, Injection, Surjection, IsInjective
<1>6. IsFiniteSet(H)
  <2>1. IsFiniteSet(1..PerDir)  BY <1>1, FS_Interval
  <2>2. H \subseteq 1..PerDir  BY DEF H, Picked
  <2> QED  BY <2>1, <2>2, FS_Subset
<1>7. Cardinality(0..(n - 1)) = Cardinality(H)  BY <1>5, <1>6, FS_Bijection DEF ExistsBijection
<1>8. Cardinality(0..(n - 1)) = n  BY FS_Interval
<1> QED  BY <1>7, <1>8 DEF H

LEMMA PickedIs ==
  ASSUME NEW seed \in Nat, NEW n \in Nat
  PROVE  /\ Picked(seed, n) \in SUBSET (1..PerDir) /\ Picked(seed, n) \in SUBSET Nat /\ IsFiniteSet(Picked(seed, n))
         /\ InOrder(Picked(seed, n)) \in Seq(1..PerDir)
<1>1. PerDir \in Nat  BY ImageAssumption
<1>2. IsFiniteSet(1..PerDir)  BY <1>1, FS_Interval
<1>3. Picked(seed, n) \in SUBSET (1..PerDir)  BY DEF Picked
<1>4. IsFiniteSet(Picked(seed, n))  BY <1>2, <1>3, FS_Subset
<1>5. Picked(seed, n) \in SUBSET Nat  BY <1>1, <1>3
<1>6. InOrder(Picked(seed, n)) \in Seq(Picked(seed, n))  BY <1>4, <1>5, InOrderOf
<1>7. InOrder(Picked(seed, n)) \in Seq(1..PerDir)
  <2> DEFINE x == InOrder(Picked(seed, n))
             H == Picked(seed, n)
             D == 1..PerDir
  <2>1. x \in Seq(H) /\ H \subseteq D  BY <1>3, <1>6
  <2> HIDE DEF x, H, D
  <2>2. Len(x) \in Nat /\ x \in [1..Len(x) -> H]  BY <2>1, LenProperties
  <2>3. x \in [1..Len(x) -> D]  BY <2>1, <2>2
  <2>4. x \in Seq(D)  BY <2>2, <2>3, SeqDef
  <2> QED  BY <2>4 DEF x, D
<1> QED  BY <1>3, <1>4, <1>5, <1>7

\* As many images of each class are the same images, where the seed is the same.
LEMMA AsManyAreTheSame ==
  ASSUME NEW seed \in Nat, NEW p \in PerClass, NEW q \in PerClass, Take(p) = Take(q)
  PROVE  Chosen(seed, p) = Chosen(seed, q)
BY DEF Chosen, Take

LEMMA ChosenIs ==
  ASSUME NEW seed \in Nat, NEW p \in PerClass
  PROVE  Chosen(seed, p) \in Seq(1..PerDir) /\ Len(Chosen(seed, p)) = Take(p)
<1>1. Take(p) \in 0..PerDir /\ Take(p) \in Nat  BY ImageAssumption DEF Take
<1>2. Chosen(seed, p) = InOrder(Picked(seed, Take(p)))  BY DEF Chosen, Picked, Take
<1>3. Picked(seed, Take(p)) \in SUBSET Nat /\ IsFiniteSet(Picked(seed, Take(p)))  BY <1>1, PickedIs
<1>4. Len(InOrder(Picked(seed, Take(p)))) = Cardinality(Picked(seed, Take(p)))  BY <1>3, InOrderOf
<1>5. Cardinality(Picked(seed, Take(p))) = Take(p)  BY <1>1, AsManyArePicked
<1> QED  BY <1>1, <1>2, <1>4, <1>5, PickedIs

LEMMA PerClassLen ==
  ASSUME NEW part, NEW ids \in Seq(1..PerDir)
  PROVE  Len(PerClassList(part, ids)) = Wnids * Len(ids) /\ Wnids * Len(ids) \in Nat
<1>1. Wnids * Len(ids) \in Nat  BY Products, ImageAssumption
<1> QED  BY <1>1 DEF PerClassList

Drew(a, seed) == Splits([a EXCEPT !.seed = seed])

LEMMA SplitsAgree ==
  ASSUME NEW a \in Args, NEW b \in Args, a.limit = b.limit
  PROVE  /\ Splits(a).train_full = Splits(b).train_full /\ Splits(a).val = Splits(b).val
         /\ a.seed = b.seed /\ Len(Splits(a).train2000) = Len(Splits(b).train2000)
              => Splits(a).train2000 = Splits(b).train2000
         /\ a.per = b.per => Len(Splits(a).train2000) = Len(Splits(b).train2000)
<1>1. a.seed \in Nat /\ b.seed \in Nat /\ a.per \in PerClass /\ b.per \in PerClass  BY ImageAssumption DEF Args
<1>2. CASE a.limit # 0
  BY <1>2 DEF Splits
<1>3. CASE a.limit = 0
  <2>1. Splits(a).train2000 = PerClassList("train", Chosen(a.seed, a.per))
        /\ Splits(b).train2000 = PerClassList("train", Chosen(b.seed, b.per))
    BY <1>1, <1>3 DEF Splits
  <2>2. Splits(a).train_full = Splits(b).train_full /\ Splits(a).val = Splits(b).val  BY <1>3 DEF Splits
  <2>3. Len(Splits(a).train2000) = Wnids * Take(a.per) /\ Len(Splits(b).train2000) = Wnids * Take(b.per)
    BY <1>1, <2>1, ChosenIs, PerClassLen
  <2>4. ASSUME a.seed = b.seed, Len(Splits(a).train2000) = Len(Splits(b).train2000)
        PROVE  Splits(a).train2000 = Splits(b).train2000
    <3>1. Take(a.per) \in Nat /\ Take(b.per) \in Nat  BY <1>1, ImageAssumption DEF Take
    <3>2. Take(a.per) = Take(b.per)  BY <2>3, <2>4, <3>1, Products, ImageAssumption
    <3> QED  BY <1>1, <2>1, <2>4, <3>2, AsManyAreTheSame
  <2> QED  BY <2>2, <2>3, <2>4
<1> QED  BY <1>2, <1>3

LEMMA OtherSeed ==
  ASSUME NEW a \in Args, NEW s \in Seeds
  PROVE  /\ [a EXCEPT !.seed = s] \in Args /\ [a EXCEPT !.seed = s].seed = s
         /\ [a EXCEPT !.seed = s].limit = a.limit /\ [a EXCEPT !.seed = s].per = a.per
         /\ [a EXCEPT !.seed = a.seed] = a
BY DEF Args

LEMMA CappedLen ==
  ASSUME NEW seq, Len(seq) \in Nat, NEW n \in Nat \ {0}
  PROVE  Len(Capped(seq, n)) \in Nat
<1> DEFINE gap == IF Len(seq) \div n > 1 THEN Len(seq) \div n ELSE 1
           N == (Len(seq) + gap - 1) \div gap
           e == EveryNth(seq, gap)
           m == IF Len(e) < n THEN Len(e) ELSE n
<1>1. gap \in Nat \ {0}
  <2>1. Len(seq) \div n \in Nat  OBVIOUS
  <2> QED  BY <2>1
<1>2. N \in Nat
  <2> HIDE DEF gap
  <2> QED  BY <1>1
<1>3. e = [k \in 1..N |-> seq[(k - 1) * gap + 1]]  BY DEF EveryNth
<1>4. Capped(seq, n) = SubSeq(e, 1, m)  BY DEF Capped
<1> HIDE DEF gap, N, e
<1>5. e \in Seq({e[k] : k \in 1..N}) /\ Len(e) = N
  <2> DEFINE T == {e[k] : k \in 1..N}
  <2>1. DOMAIN e = 1..N /\ Len(e) = N  BY <1>2, <1>3
  <2>2. e \in [1..N -> T]  BY <1>3, <2>1
  <2> HIDE DEF T
  <2>3. e \in Seq(T)  BY <1>2, <2>2, SeqDef
  <2> QED  BY <2>1, <2>3 DEF T
<1>6. m \in Nat /\ m <= Len(e)  BY <1>2, <1>5
<1> HIDE DEF m
<1>7. Len(SubSeq(e, 1, m)) = m  BY <1>5, <1>6
<1> QED  BY <1>4, <1>6, <1>7

\* The smaller gallery is found in the larger one it was taken from.
LEMMA TakenFromFull ==
  ASSUME NEW a \in Args, NEW k \in DOMAIN Splits(a).train2000
  PROVE  \E i \in 1..Len(Splits(a).train_full) : Splits(a).train_full[i] = Splits(a).train2000[k]
<1>1. a.seed \in Nat /\ a.per \in PerClass /\ a.limit \in Nat /\ PerDir \in Nat \ {0} /\ Wnids \in Nat \ {0}
  BY ImageAssumption DEF Args
<1>2. CASE a.limit = 0
  <2> DEFINE ids == Chosen(a.seed, a.per)
             n == Len(ids)
  <2>1. ids \in Seq(1..PerDir) /\ n \in Nat  BY <1>1, ChosenIs
  <2>2. Splits(a).train2000 = PerClassList("train", ids) /\ Splits(a).train_full = PerClassList("train", All)
    BY <1>2 DEF Splits
  <2>3. All \in Seq(1..PerDir) /\ Len(All) = PerDir /\ \A j \in 1..PerDir : All[j] = j  BY <1>1 DEF All
  <2> HIDE DEF ids
  <2>4. k \in 1..(Wnids * n)  BY <2>2 DEF PerClassList
  <2>5. n # 0 /\ Wnids * n \in Nat /\ k \in Nat  BY <1>1, <2>1, <2>4, Products
  <2> DEFINE c == (k - 1) \div n
             x == ids[((k - 1) % n) + 1]
  <2>6. c \in 0..(Wnids - 1) /\ (k - 1) % n \in 0..(n - 1)
    <3>1. k - 1 \in 0..(Wnids * n - 1)  BY <2>4, <2>5
    <3> QED  BY <1>1, <2>1, <2>5, <3>1, Below
  <2>7. x \in 1..PerDir
    <3> DEFINE j == ((k - 1) % n) + 1
    <3>1. j \in 1..n  BY <2>1, <2>5, <2>6
    <3> HIDE DEF j
    <3>2. ids[j] \in 1..PerDir  BY <2>1, <3>1, ElementOfSeq
    <3> QED  BY <3>2 DEF j
  <2>8. Splits(a).train2000[k] = Image("train", c + 1, x)  BY <2>2, <2>4 DEF PerClassList
  <2> HIDE DEF c, x
  <2> DEFINE i == c * PerDir + (x - 1)
  <2>9. i \div PerDir = c /\ i % PerDir = x - 1
    <3>1. c \in Nat /\ x - 1 \in 0..(PerDir - 1)  BY <1>1, <2>6, <2>7
    <3> QED  BY <1>1, <3>1, DivMod
  <2>10. i \in Nat /\ i + 1 \in 1..(Wnids * PerDir)
    <3>1. c + 1 <= Wnids /\ c \in Nat  BY <1>1, <2>6
    <3>2. c * PerDir \in Nat /\ (c + 1) * PerDir <= Wnids * PerDir /\ (c + 1) * PerDir = c * PerDir + PerDir
      BY <1>1, <3>1
    <3>3. Wnids * PerDir \in Nat  BY <1>1, Products
    <3> QED  BY <1>1, <2>7, <3>2, <3>3
  <2> HIDE DEF i
  <2>11. Len(PerClassList("train", All)) = Wnids * PerDir  BY <2>3, PerClassLen
  <2>12. PerClassList("train", All)[i + 1] = Image("train", c + 1, x)
    <3>1. i + 1 - 1 = i /\ x - 1 + 1 = x  BY <1>1, <2>7, <2>10
    <3>2. PerClassList("train", All)[i + 1]
            = Image("train", ((i + 1 - 1) \div PerDir) + 1, All[((i + 1 - 1) % PerDir) + 1])
      BY <2>3, <2>10 DEF PerClassList
    <3> QED  BY <2>3, <2>7, <2>9, <3>1, <3>2
  <2> QED  BY <2>2, <2>8, <2>10, <2>11, <2>12
<1>3. CASE a.limit # 0
  <2> DEFINE s == Capped(PerClassList("train", All), a.limit)
  <2>1. Splits(a).train2000 = EveryNth(s, 2) /\ Splits(a).train_full = s  BY <1>3 DEF Splits
  <2>2. Len(s) \in Nat
    <3>1. All \in Seq(1..PerDir)  BY <1>1 DEF All
    <3>2. Len(PerClassList("train", All)) \in Nat  BY <3>1, PerClassLen
    <3> QED  BY <1>1, <1>3, <3>2, CappedLen
  <2> HIDE DEF s
  <2>3. k \in 1..((Len(s) + 2 - 1) \div 2) /\ Splits(a).train2000[k] = s[(k - 1) * 2 + 1]  BY <2>1 DEF EveryNth
  <2>4. (k - 1) * 2 + 1 \in 1..Len(s)  BY <2>2, <2>3
  <2> QED  BY <2>1, <2>3, <2>4
<1> QED  BY <1>2, <1>3

-----------------------------------------------------------------------------
RunKnows ==
    /\ "pc" \in DOMAIN imageRun
    /\ imageRun.pc \in {"pass", "save"} => "a" \in DOMAIN imageRun /\ imageRun.a \in Args /\ imageRun.a.seed \in drawn
\* Every whole matrix is the split of some run with the same --limit.
MatricesAreSplits ==
    \A f \in DOMAIN matrices :
        matrices[f] = HalfFeats \/ \E a \in Args : a.limit = f.limit /\ a.seed \in drawn /\ matrices[f] = Splits(a)[f.sp]
ImageInv ==
    /\ drawn \in SUBSET Seeds /\ RunKnows /\ MatricesAreSplits
    /\ DOMAIN imageArtifact = ImageLimits /\ ScoresTheRecordedImages

LEMMA ImageBegins == ImageInit => ImageInv
<1> SUFFICES ASSUME ImageInit  PROVE ImageInv  OBVIOUS
<1>1. RunKnows  BY DEF ImageInit, RunKnows, NoRun
<1>2. MatricesAreSplits
  <2>1. DOMAIN matrices = {}  BY DEF ImageInit
  <2> QED  BY <2>1 DEF MatricesAreSplits
<1>3. DOMAIN imageArtifact = ImageLimits /\ ScoresTheRecordedImages  BY DEF ImageInit, ScoresTheRecordedImages, Opens
<1>4. drawn \in SUBSET Seeds  BY DEF ImageInit
<1> QED  BY <1>1, <1>2, <1>3, <1>4 DEF ImageInv

LEMMA ImagesStay ==
  ASSUME ImageInv, UNCHANGED imageArtifact, drawn \in SUBSET drawn'
  PROVE  DOMAIN imageArtifact' = ImageLimits /\ ScoresTheRecordedImages'
BY DEF ImageInv, ScoresTheRecordedImages

LEMMA MatricesStay ==
  ASSUME ImageInv, UNCHANGED matrices, drawn \in SUBSET drawn'
  PROVE  MatricesAreSplits'
BY DEF ImageInv, MatricesAreSplits

LEMMA EncodingKeeps ==
  ASSUME ImageInv, BeginRun \/ Skip \/ Encode \/ GiveUp
  PROVE  ImageInv'
<1>1. CASE BeginRun
  <2>1. PICK st \in Stages, l \in ImageLimits, per \in PerClass, seed \in Seeds :
           /\ drawn' = drawn \cup {seed}
           /\ imageRun' = [pc |-> "pass", todo |-> ImagePasses(st),
                        a |-> [stage |-> st, limit |-> l, per |-> per, seed |-> seed]]
    BY <1>1 DEF BeginRun
  <2>2. imageRun'.a = [stage |-> st, limit |-> l, per |-> per, seed |-> seed] /\ {"pc", "a"} \subseteq DOMAIN imageRun'
    BY <2>1
  <2>3. seed \in drawn' /\ drawn \in SUBSET drawn' /\ drawn' \in SUBSET Seeds
    <3>1. drawn \in SUBSET Seeds  BY DEF ImageInv
    <3> QED  BY <2>1, <3>1
  <2>4. RunKnows'  BY <2>2, <2>3 DEF RunKnows, Args
  <2> QED  BY <1>1, <2>3, <2>4, ImagesStay, MatricesStay DEF BeginRun, ImageInv
<1>2. CASE Skip
  <2>1. imageRun' = [imageRun EXCEPT !.todo = Tail(@)] /\ imageRun.pc = "pass"  BY <1>2 DEF Skip
  <2>2. {"pc", "a"} \subseteq DOMAIN imageRun /\ imageRun.a \in Args /\ imageRun.a.seed \in drawn
    BY <2>1 DEF ImageInv, RunKnows
  <2>3. DOMAIN imageRun' = DOMAIN imageRun /\ imageRun'.a = imageRun.a  BY <2>1, <2>2
  <2>4. RunKnows'  BY <1>2, <2>2, <2>3 DEF RunKnows, Skip
  <2> QED  BY <1>2, <2>4, ImagesStay, MatricesStay DEF Skip, ImageInv
<1>3. CASE Encode
  <2>1. imageRun.a \in Args /\ imageRun.a.seed \in drawn  BY <1>3 DEF Encode, ImageInv, RunKnows
  <2>2. {"pc", "a"} \subseteq DOMAIN imageRun' /\ imageRun'.a = imageRun.a  BY <1>3 DEF Encode
  <2>3. RunKnows'  BY <1>3, <2>1, <2>2 DEF RunKnows, Encode
  <2> QED  BY <1>3, <2>3, ImagesStay, MatricesStay DEF Encode, ImageInv
<1>4. CASE GiveUp
  <2>1. RunKnows'  BY <1>4 DEF GiveUp, RunKnows, NoRun
  <2> QED  BY <1>4, <2>1, ImagesStay, MatricesStay DEF GiveUp, ImageInv
<1> QED  BY <1>1, <1>2, <1>3, <1>4

\* A file written in place: whole by the run that encoded it, or cut short.
LEMMA WritingKeeps ==
  ASSUME ImageInv, imageRun.pc = "save", NEW x, matrices' = Stored(x), UNCHANGED drawn,
         x = HalfFeats \/ x = Splits(imageRun.a)[Head(imageRun.todo).sp]
  PROVE  MatricesAreSplits'
<1> DEFINE a == imageRun.a
<1>1. a \in Args /\ a.seed \in drawn  BY DEF ImageInv, RunKnows
<1>2. Saving.limit = a.limit /\ Saving.sp = Head(imageRun.todo).sp  BY DEF Saving, FeatPath
<1>3. x = HalfFeats \/ x = Splits(a)[Saving.sp]  BY <1>2
<1> HIDE DEF a
<1>4. DOMAIN matrices' = DOMAIN matrices \cup {Saving}  BY DEF Stored
<1>5. ASSUME NEW g \in DOMAIN matrices'
      PROVE  matrices'[g] = HalfFeats
             \/ \E b \in Args : b.limit = g.limit /\ b.seed \in drawn /\ matrices'[g] = Splits(b)[g.sp]
  <2>1. CASE g = Saving
    <3>1. matrices'[g] = x  BY <1>4, <1>5, <2>1 DEF Stored
    <3> QED  BY <1>1, <1>2, <1>3, <2>1, <3>1
  <2>2. CASE g # Saving
    <3>1. matrices'[g] = matrices[g] /\ g \in DOMAIN matrices  BY <1>4, <1>5, <2>2 DEF Stored
    <3> QED  BY <3>1 DEF ImageInv, MatricesAreSplits
  <2> QED  BY <2>1, <2>2
<1> QED  BY <1>5 DEF MatricesAreSplits

LEMMA FeaturesKeep ==
  ASSUME ImageInv, SaveFeature
  PROVE  ImageInv'
<1>1. imageRun.a \in Args /\ {"pc", "a"} \subseteq DOMAIN imageRun /\ imageRun.pc = "save" /\ imageRun.a.seed \in drawn
  BY DEF SaveFeature, ImageInv, RunKnows
<1>2. MatricesAreSplits'  BY WritingKeeps DEF SaveFeature
<1>3. RunKnows'
  <2>1. CASE imageRun' = [imageRun EXCEPT !.left = Tail(@)]
    <3>1. DOMAIN imageRun' = DOMAIN imageRun /\ imageRun'.a = imageRun.a  BY <1>1, <2>1
    <3> QED  BY <1>1, <3>1 DEF RunKnows, SaveFeature
  <2>2. CASE imageRun' = [pc |-> "pass", a |-> imageRun.a, todo |-> Tail(imageRun.todo)]
    <3>1. {"pc", "a"} \subseteq DOMAIN imageRun' /\ imageRun'.a = imageRun.a  BY <2>2
    <3> QED  BY <1>1, <3>1 DEF RunKnows, SaveFeature
  <2> QED  BY <2>1, <2>2 DEF SaveFeature
<1> QED  BY <1>2, <1>3, ImagesStay DEF SaveFeature, ImageInv

LEMMA KillRunKeeps ==
  ASSUME ImageInv, KillRun
  PROVE  ImageInv'
<1>1. RunKnows'  BY DEF KillRun, RunKnows, NoRun
<1>2. MatricesAreSplits'
  <2>1. CASE UNCHANGED matrices  BY <2>1, MatricesStay DEF KillRun
  <2>2. CASE imageRun.pc = "save" /\ matrices' = Stored(HalfFeats)  BY <2>2, WritingKeeps DEF KillRun
  <2> QED  BY <2>1, <2>2 DEF KillRun
<1>3. CASE UNCHANGED imageArtifact  BY <1>1, <1>2, <1>3, ImagesStay DEF KillRun, ImageInv
<1>4. CASE imageArtifact' = [imageArtifact EXCEPT ![imageRun.a.limit] = HalfFeats]
  <2>1. DOMAIN imageArtifact' = ImageLimits  BY <1>4 DEF ImageInv
  <2>2. \A l \in ImageLimits : Opens(imageArtifact'[l]) => imageArtifact'[l] = imageArtifact[l]
    BY <1>4 DEF ImageInv, Opens
  <2>3. UNCHANGED drawn  BY DEF KillRun
  <2>4. ScoresTheRecordedImages'
    BY <2>2, <2>3 DEF ScoresTheRecordedImages, ImageInv, Opens
  <2> QED  BY <1>1, <1>2, <2>1, <2>3, <2>4 DEF ImageInv
<1> QED  BY <1>3, <1>4 DEF KillRun

\* A cached matrix of the length a split has holds that split as some run drew it.
LEMMA CachedIsTheSplit ==
  ASSUME ImageInv, NEW p, NEW feat, NEW a \in Args, p.sp \in Names,
         Opens(LoadFeats(p, feat, a.limit)),
         Len(LoadFeats(p, feat, a.limit)) = Len(Splits(a)[p.sp])
  PROVE  \E s \in drawn : LoadFeats(p, feat, a.limit) = Drew(a, s)[p.sp]
<1> DEFINE f == FeatPath(p, feat, a.limit)
<1>1. f \in DOMAIN matrices /\ LoadFeats(p, feat, a.limit) = matrices[f] /\ matrices[f] # HalfFeats
  BY DEF LoadFeats, Opens
<1>2. f.limit = a.limit /\ f.sp = p.sp  BY DEF FeatPath
<1> HIDE DEF f
<1>3. PICK b \in Args : b.limit = f.limit /\ b.seed \in drawn /\ matrices[f] = Splits(b)[f.sp]
  BY <1>1 DEF ImageInv, MatricesAreSplits
<1> DEFINE c == [a EXCEPT !.seed = b.seed]
<1>4. c \in Args /\ c.seed = b.seed /\ c.limit = a.limit /\ c.per = a.per
  BY OtherSeed DEF Args
<1>5. Splits(c) = Drew(a, b.seed)  BY DEF Drew
<1> HIDE DEF c
<1>6. /\ Splits(c).train_full = Splits(b).train_full /\ Splits(c).val = Splits(b).val
      /\ Len(Splits(c).train2000) = Len(Splits(b).train2000) => Splits(c).train2000 = Splits(b).train2000
  BY <1>2, <1>3, <1>4, SplitsAgree
<1>7. Len(Splits(c).train2000) = Len(Splits(a).train2000)  BY <1>4, SplitsAgree
<1>8. p.sp \in {"train2000", "train_full", "val"}  BY DEF Names
<1>9. Splits(c)[p.sp] = Splits(b)[p.sp]  BY <1>1, <1>2, <1>3, <1>6, <1>7, <1>8
<1> QED  BY <1>1, <1>2, <1>3, <1>5, <1>9

LEMMA FullIsTheSplit ==
  ASSUME ImageInv, NEW p, NEW feat, NEW a \in Args, p.sp = "train_full",
         Opens(LoadFeats(p, feat, a.limit))
  PROVE  LoadFeats(p, feat, a.limit) = Splits(a).train_full
<1> DEFINE f == FeatPath(p, feat, a.limit)
<1>1. f \in DOMAIN matrices /\ LoadFeats(p, feat, a.limit) = matrices[f] /\ matrices[f] # HalfFeats
  BY DEF LoadFeats, Opens
<1>2. f.limit = a.limit /\ f.sp = p.sp  BY DEF FeatPath
<1> HIDE DEF f
<1>3. PICK b \in Args : b.limit = f.limit /\ matrices[f] = Splits(b)[f.sp]  BY <1>1 DEF ImageInv, MatricesAreSplits
<1>4. Splits(a).train_full = Splits(b).train_full  BY <1>2, <1>3, SplitsAgree
<1> QED  BY <1>1, <1>2, <1>3, <1>4

LEMMA SmallerGalleryIsAList ==
  ASSUME NEW a \in Args
  PROVE  LET sub == Splits(a).train2000
         IN  Len(sub) \in Nat /\ DOMAIN sub = 1..Len(sub) /\ sub = [k \in 1..Len(sub) |-> sub[k]]
<1> DEFINE sub == Splits(a).train2000
<1>1. a.seed \in Nat /\ a.per \in PerClass /\ a.limit \in Nat /\ PerDir \in Nat \ {0}  BY ImageAssumption DEF Args
<1>2. CASE a.limit = 0
  <2> DEFINE ids == Chosen(a.seed, a.per)
             N == Wnids * Len(ids)
  <2>1. sub = PerClassList("train", ids)  BY <1>2 DEF Splits
  <2>2. N \in Nat /\ Len(sub) = N  BY <1>1, <2>1, ChosenIs, PerClassLen
  <2>3. sub = [j \in 1..N |-> Image("train", ((j - 1) \div Len(ids)) + 1, ids[((j - 1) % Len(ids)) + 1])]
    BY <2>1 DEF PerClassList
  <2> HIDE DEF sub, N, ids
  <2>4. DOMAIN sub = 1..N /\ sub = [j \in 1..N |-> sub[j]]  BY <2>3
  <2> QED  BY <2>2, <2>4 DEF sub
<1>3. CASE a.limit # 0
  <2> DEFINE s == Capped(PerClassList("train", All), a.limit)
             N == (Len(s) + 2 - 1) \div 2
  <2>1. sub = [k \in 1..N |-> s[(k - 1) * 2 + 1]]  BY <1>3 DEF Splits, EveryNth
  <2>2. Len(s) \in Nat
    <3>1. All \in Seq(1..PerDir)  BY <1>1 DEF All
    <3>2. Len(PerClassList("train", All)) \in Nat  BY <3>1, PerClassLen
    <3> QED  BY <1>1, <1>3, <3>2, CappedLen
  <2> HIDE DEF s
  <2>3. N \in Nat  BY <2>2
  <2> HIDE DEF sub, N
  <2>4. DOMAIN sub = 1..N /\ sub = [j \in 1..N |-> sub[j]] /\ Len(sub) = N  BY <2>1, <2>3
  <2> QED  BY <2>3, <2>4 DEF sub
<1> QED  BY <1>2, <1>3

\* Looked up in the features of the larger gallery, the rows are the smaller one.
LEMMA LookedUpIsTheSplit ==
  ASSUME ImageInv, NEW be, NEW m, NEW feat, NEW a \in Args, "train_full" \in Models[m].galleries,
         Opens(LoadSplit(be, m, "train2000", feat, a))
  PROVE  LoadSplit(be, m, "train2000", feat, a) = Splits(a).train2000
<1> DEFINE q == [be |-> be, m |-> m, sp |-> "train_full"]
           x == LoadFeats(q, feat, a.limit)
           full == Splits(a).train_full
           sub == Splits(a).train2000
           ix == IndexIn(full, sub)
           got == LoadSplit(be, m, "train2000", feat, a)
<1>1. /\ got = IF ~Opens(x) THEN x ELSE [k \in 1..Len(ix) |-> IF ix[k] <= Len(x) THEN x[ix[k]] ELSE NoFeats]
  BY DEF LoadSplit
<1>2. Opens(x)  BY <1>1
<1>3. x = full
  <2>1. q.sp = "train_full"  OBVIOUS
  <2> HIDE DEF q
  <2> QED  BY <1>2, <2>1, FullIsTheSplit
<1>4. Len(sub) \in Nat /\ DOMAIN sub = 1..Len(sub) /\ sub = [k \in 1..Len(sub) |-> sub[k]]
  BY SmallerGalleryIsAList
<1>5. \A k \in 1..Len(sub) : \E i \in 1..Len(full) : full[i] = sub[k]
  <2> TAKE k \in 1..Len(sub)
  <2>1. k \in DOMAIN sub  BY <1>4
  <2> QED  BY <2>1, TakenFromFull
<1>6. ix = [k \in 1..Len(sub) |-> CHOOSE i \in 1..Len(full) : full[i] = sub[k]]  BY DEF IndexIn
<1>7. got = [k \in 1..Len(ix) |-> IF ix[k] <= Len(full) THEN full[ix[k]] ELSE NoFeats]  BY <1>1, <1>2, <1>3
<1> HIDE DEF got, ix, sub, full, x
<1>8. Len(ix) = Len(sub)  BY <1>4, <1>6
<1>9. \A k \in 1..Len(sub) : ix[k] \in 1..Len(full) /\ full[ix[k]] = sub[k]
  <2> TAKE k \in 1..Len(sub)
  <2>1. ix[k] = CHOOSE i \in 1..Len(full) : full[i] = sub[k]  BY <1>6
  <2>2. \E i \in 1..Len(full) : full[i] = sub[k]  BY <1>5
  <2> HIDE DEF sub
  <2> QED  BY <2>1, <2>2
<1>10. \A k \in 1..Len(sub) : ix[k] <= Len(full)  BY <1>9
<1>11. got = [k \in 1..Len(sub) |-> sub[k]]  BY <1>7, <1>8, <1>9, <1>10
<1> QED  BY <1>4, <1>11 DEF got, sub

\* What fits, by its presence and its length, is the split some run drew for it.
LEMMA FittingIsTheSplit ==
  ASSUME ImageInv, NEW a \in Args, a.seed \in drawn, NEW r \in Evaluated(a), Fits(r, a)
  PROVE  /\ \E s \in drawn : r.gallery = Drew(a, s)[r.of]
         /\ \E s \in drawn : r.query = Drew(a, s)[r.qof]
<1>1. PICK be \in Range(Backends("all")), m \in DOMAIN Models :
         r \in {Row(be, m, f, g, a) : f \in Models[m].feats, g \in Models[m].galleries}
  BY DEF Evaluated, RowsOf
<1>2. PICK f \in Models[m].feats, g \in Models[m].galleries : r = Row(be, m, f, g, a)  BY <1>1
<1>3. g \in Names /\ Models[m].query \in Names  BY ImageAssumption
<1> DEFINE q == [be |-> be, m |-> m, sp |-> Models[m].query]
           p == [be |-> be, m |-> m, sp |-> g]
<1>4. /\ r.gallery = LoadSplit(be, m, g, f, a) /\ r.of = g /\ r.qof = Models[m].query
      /\ r.query = LoadFeats(q, f, a.limit)
  BY <1>2 DEF Row
<1>5. q.sp = Models[m].query /\ p.sp = g  OBVIOUS
<1> HIDE DEF q, p
<1>6. \E s \in drawn : r.query = Drew(a, s)[r.qof]  BY <1>3, <1>4, <1>5, CachedIsTheSplit DEF Fits
<1>7. Opens(r.gallery) /\ Len(r.gallery) = Len(Splits(a)[g])  BY <1>4 DEF Fits
<1>8. CASE g = "train2000" /\ "train_full" \in Models[m].galleries
  <2>1. r.gallery = Splits(a).train2000  BY <1>4, <1>7, <1>8, LookedUpIsTheSplit
  <2>2. Splits(a) = Drew(a, a.seed)  BY OtherSeed DEF Drew, Args
  <2> QED  BY <1>4, <1>6, <1>8, <2>1, <2>2
<1>9. CASE ~(g = "train2000" /\ "train_full" \in Models[m].galleries)
  <2>1. r.gallery = LoadFeats(p, f, a.limit)  BY <1>4, <1>9 DEF LoadSplit, p
  <2> QED  BY <1>3, <1>4, <1>5, <1>6, <1>7, <2>1, CachedIsTheSplit
<1> QED  BY <1>8, <1>9

LEMMA ScoringKeeps ==
  ASSUME ImageInv, Eval
  PROVE  ImageInv'
<1> DEFINE a == imageRun.a
<1>1. a \in Args /\ a.seed \in drawn  BY DEF Eval, ImageInv, RunKnows
<1>2. RunKnows' /\ MatricesAreSplits'
  <2>1. RunKnows'  BY DEF Eval, RunKnows, NoRun
  <2> QED  BY <2>1, MatricesStay DEF Eval
<1>3. CASE UNCHANGED imageArtifact  BY <1>2, <1>3, ImagesStay DEF ImageInv, Eval
<1>4. CASE /\ \A r \in Evaluated(a) : Fits(r, a)
           /\ imageArtifact' = [imageArtifact EXCEPT ![a.limit] = [args |-> a, rows |-> Evaluated(a)]]
  <2> DEFINE v == [args |-> a, rows |-> Evaluated(a)]
  <2>1. \A r \in v.rows : /\ \E s \in drawn : r.gallery = Drew(v.args, s)[r.of]
                          /\ \E s \in drawn : r.query = Drew(v.args, s)[r.qof]
    <3>1. v.rows = Evaluated(a) /\ v.args = a  OBVIOUS
    <3> HIDE DEF v, a
    <3> QED  BY <1>1, <1>4, <3>1, FittingIsTheSplit
  <2>2. imageArtifact' = [imageArtifact EXCEPT ![a.limit] = v] /\ DOMAIN imageArtifact = ImageLimits
    BY <1>4 DEF ImageInv
  <2> HIDE DEF v, a
  <2>3. DOMAIN imageArtifact' = ImageLimits  BY <2>2
  <2>4. \A l \in ImageLimits : imageArtifact'[l] = v \/ imageArtifact'[l] = imageArtifact[l]  BY <2>2
  <2>5. drawn' = drawn  BY DEF Eval
  <2>6. \A l \in ImageLimits : Opens(imageArtifact[l]) => \A r \in imageArtifact[l].rows :
           /\ \E s \in drawn : r.gallery = Drew(imageArtifact[l].args, s)[r.of]
           /\ \E s \in drawn : r.query = Drew(imageArtifact[l].args, s)[r.qof]
    BY DEF ImageInv, ScoresTheRecordedImages, Drew
  <2>7. \A l \in ImageLimits : Opens(imageArtifact'[l]) => \A r \in imageArtifact'[l].rows :
           /\ \E s \in drawn' : r.gallery = Drew(imageArtifact'[l].args, s)[r.of]
           /\ \E s \in drawn' : r.query = Drew(imageArtifact'[l].args, s)[r.qof]
    <3> TAKE l \in ImageLimits
    <3>1. CASE imageArtifact'[l] = v  BY <2>1, <2>5, <3>1
    <3>2. CASE imageArtifact'[l] = imageArtifact[l]  BY <2>5, <2>6, <3>2
    <3> QED  BY <2>4, <3>1, <3>2
  <2>8. ScoresTheRecordedImages'  BY <2>7 DEF ScoresTheRecordedImages, Drew, Opens
  <2> QED  BY <1>2, <2>3, <2>8 DEF ImageInv, Eval
<1> QED  BY <1>3, <1>4 DEF Eval, Scores

LEMMA ImageStutters ==
  ASSUME ImageInv, UNCHANGED imageVars
  PROVE  ImageInv'
<1>1. RunKnows'  BY DEF ImageInv, imageVars, RunKnows
<1> QED  BY <1>1, ImagesStay, MatricesStay DEF ImageInv, imageVars

(***************************************************************************)
(* bench_accuracy_image.py's runs, killed anywhere, smoke runs and full    *)
(* ones over one directory with any --per-class and any --seed: every      *)
(* number is of the splits recorded beside it, drawn with the seed of a    *)
(* run there was.                                                          *)
(***************************************************************************)
THEOREM ImageInvHolds == ImageSpec => []ImageInv
<1>1. ImageInv /\ [ImageNext]_imageVars => ImageInv'
  BY EncodingKeeps, FeaturesKeep, KillRunKeeps, ScoringKeeps, ImageStutters DEF ImageNext
<1> QED  BY <1>1, ImageBegins, PTL DEF ImageSpec

THEOREM RecordedImagesAreScored == ImageSpec => []ScoresTheRecordedImages
<1>1. ImageInv => ScoresTheRecordedImages  BY DEF ImageInv
<1> QED  BY <1>1, ImageInvHolds, PTL
=============================================================================
