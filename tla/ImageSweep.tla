------------------------------ MODULE ImageSweep ------------------------------
(* scripts/bench_accuracy_image.py: features of every (model, backend,       *)
(* dtype, split) pass are cached in files and scored by `eval`, in this run  *)
(* of the script or a later one.  A smoke run (--limit) shares the directory *)
(* with the full sweep.                                                      *)
(*                                                                           *)
(* A feature matrix is the sequence of the images its rows were encoded      *)
(* from; an image is [cls, i], the i-th of the sorted files of its class.    *)
EXTENDS Naturals, Sequences, FiniteSets, SequencesExt, SortedLists

CONSTANTS Wnids,         \* number of wnids
          PerDir,        \* images of each class in train/ and in val/
          Models,        \* sequence of [feats, galleries, query]
          ImageDtypes,   \* sequence of the GGUF types
          ImageLimits,   \* values of --limit, 0 for none
          PerClass,      \* values of --per-class
          Seeds,         \* values of --seed
          Stages,        \* values of --stage
          MaxImageRuns,  \* bound on the runs of the script
          NoFeats,       \* no such file
          HalfFeats      \* a file cut short: np.load raises on it

Names == {"train2000", "train_full", "val"}
ASSUME ImageAssumption ==
    /\ Wnids \in Nat \ {0} /\ PerDir \in Nat \ {0}
    /\ \A m \in DOMAIN Models : Models[m].galleries \subseteq Names /\ Models[m].query \in Names
    /\ ImageLimits \subseteq Nat /\ PerClass \subseteq Nat \ {0} /\ Seeds \subseteq Nat

VARIABLES matrices,       \* tmp/feat/...: the cached matrices
          imageArtifact,  \* per --limit: the JSON `eval` wrote
          imageRun,       \* the running script
          started,        \* runs begun, and the seeds they were given,
          drawn           \* which no cached matrix tells

imageVars == <<matrices, imageArtifact, imageRun, started, drawn>>

-----------------------------------------------------------------------------
(* The splits: image lists in class order.                                   *)

Image(part, c, i) == [part |-> part, cls |-> c, i |-> i]
PerClassList(part, ids) ==
    LET n == Len(ids)
    IN  [j \in 1..(Wnids * n) |-> Image(part, ((j - 1) \div n) + 1, ids[((j - 1) % n) + 1])]
All == [k \in 1..PerDir |-> k]

(* rng.choice of `take` files of a class, sorted: which ones is up to seed.  *)
Chosen(seed, per) ==
    LET take == IF per < PerDir THEN per ELSE PerDir
    IN  InOrder({k \in 1..PerDir : ((k - 1 + seed) % PerDir) < take})

EveryNth(seq, n) == [k \in 1..((Len(seq) + n - 1) \div n) |-> seq[(k - 1) * n + 1]]
Capped(seq, n) ==
    LET s == EveryNth(seq, IF Len(seq) \div n > 1 THEN Len(seq) \div n ELSE 1)
    IN  SubSeq(s, 1, IF Len(s) < n THEN Len(s) ELSE n)

(* build_splits, then the truncation of a smoke run: train2000 stays a       *)
(* subset of train_full, which `eval` indexes it into.                       *)
Splits(a) ==
    LET full == PerClassList("train", All)
        val  == PerClassList("val", All)
    IN  IF a.limit = 0
        THEN [train2000 |-> PerClassList("train", Chosen(a.seed, a.per)), train_full |-> full, val |-> val]
        ELSE [train2000  |-> EveryNth(Capped(full, a.limit), 2),
              train_full |-> Capped(full, a.limit), val |-> Capped(val, a.limit)]

-----------------------------------------------------------------------------
(* The passes of the torch and cpp stages.                                   *)

(* train2000 is a subset of train_full: the superset is encoded once.        *)
Need(m) ==
    LET all == Models[m].galleries \cup {Models[m].query}
    IN  IF "train_full" \in all THEN all \ {"train2000"} ELSE all

Backends(stage) ==
    (IF stage \in {"torch", "all"} THEN <<<<"torch", "f32">>>> ELSE <<>>)
      \o (IF stage \in {"cpp", "all"} THEN [i \in 1..Len(ImageDtypes) |-> <<"cpp", ImageDtypes[i]>>] ELSE <<>>)
ImagePasses(stage) ==
    FlattenSeq([b \in 1..Len(Backends(stage)) |->
        FlattenSeq([m \in 1..Len(Models) |->
            LET need == SetToSeq(Need(m))
            IN  [s \in 1..Len(need) |-> [be |-> Backends(stage)[b], m |-> m, sp |-> need[s]]]])])

\* Mutant: a smoke run and the sweep share their names.
FeatPath_NoLimit(p, feat, limit) == [be |-> p.be, m |-> p.m, sp |-> p.sp, feat |-> feat, limit |-> 0]
(* feat_path: a smoke run caches under names of its own.                     *)
FeatPath(p, feat, limit) == [be |-> p.be, m |-> p.m, sp |-> p.sp, feat |-> feat, limit |-> limit]
LoadFeats(p, feat, limit) ==
    LET f == FeatPath(p, feat, limit) IN IF f \in DOMAIN matrices THEN matrices[f] ELSE NoFeats

Cached(p, a) == {LoadFeats(p, f, a.limit) : f \in Models[p.m].feats}
Opens(x) == x \notin {NoFeats, HalfFeats}
(* cache_hit: every feature file of the pass is there with the row count     *)
(* this run expects.  The files are opened in turn, up to the first that is  *)
(* missing or of another length; one cut short stops the script.             *)
CacheHit(p, a) == \A x \in Cached(p, a) : Opens(x) /\ Len(x) = Len(Splits(a)[p.sp])
CacheMiss(p, a) == \E x \in Cached(p, a) : x = NoFeats \/ (Opens(x) /\ Len(x) # Len(Splits(a)[p.sp]))

-----------------------------------------------------------------------------
NoRun == [pc |-> "idle"]
ImageInit ==
    /\ matrices = <<>>
    /\ imageArtifact = [l \in ImageLimits |-> NoFeats]
    /\ imageRun = NoRun /\ started = 0 /\ drawn = {}

BeginRun ==
    \E st \in Stages, l \in ImageLimits, per \in PerClass, seed \in Seeds :
        /\ imageRun = NoRun /\ started < MaxImageRuns
        /\ started' = started + 1 /\ drawn' = drawn \cup {seed}
        /\ imageRun' = [pc |-> "pass", todo |-> ImagePasses(st),
                    a |-> [stage |-> st, limit |-> l, per |-> per, seed |-> seed]]
        /\ UNCHANGED <<matrices, imageArtifact>>

Skip ==
    /\ imageRun.pc = "pass" /\ imageRun.todo # <<>> /\ CacheHit(Head(imageRun.todo), imageRun.a)
    /\ imageRun' = [imageRun EXCEPT !.todo = Tail(@)]
    /\ UNCHANGED <<matrices, imageArtifact, started, drawn>>
Encode ==
    /\ imageRun.pc = "pass" /\ imageRun.todo # <<>> /\ CacheMiss(Head(imageRun.todo), imageRun.a)
    /\ imageRun' = [pc |-> "save", a |-> imageRun.a, todo |-> imageRun.todo,
                left |-> SetToSeq(Models[Head(imageRun.todo).m].feats)]
    /\ UNCHANGED <<matrices, imageArtifact, started, drawn>>

GiveUp ==
    /\ imageRun.pc = "pass" /\ imageRun.todo # <<>> /\ HalfFeats \in Cached(Head(imageRun.todo), imageRun.a)
    /\ imageRun' = NoRun
    /\ UNCHANGED <<matrices, imageArtifact, started, drawn>>

(* One file per feature, written in place.                                   *)
Saving == FeatPath(Head(imageRun.todo), Head(imageRun.left), imageRun.a.limit)
Stored(rows) == [g \in DOMAIN matrices \cup {Saving} |-> IF g = Saving THEN rows ELSE matrices[g]]
SaveFeature ==
    /\ imageRun.pc = "save"
    /\ matrices' = Stored(Splits(imageRun.a)[Head(imageRun.todo).sp])
    /\ imageRun' = IF Len(imageRun.left) > 1 THEN [imageRun EXCEPT !.left = Tail(@)]
               ELSE [pc |-> "pass", a |-> imageRun.a, todo |-> Tail(imageRun.todo)]
    /\ UNCHANGED <<imageArtifact, started, drawn>>

-----------------------------------------------------------------------------
(* eval: score whatever features the directory holds.                        *)

(* Rows of train2000 in train_full, where one encode pass serves both.       *)
IndexIn(full, sub) == [k \in 1..Len(sub) |-> CHOOSE i \in 1..Len(full) : full[i] = sub[k]]
LoadSplit(be, m, sp, feat, a) ==
    IF sp = "train2000" /\ "train_full" \in Models[m].galleries
    THEN LET x == LoadFeats([be |-> be, m |-> m, sp |-> "train_full"], feat, a.limit)
             ix == IndexIn(Splits(a).train_full, Splits(a).train2000)
         IN  IF ~Opens(x) THEN x
             ELSE [k \in 1..Len(ix) |-> IF ix[k] <= Len(x) THEN x[ix[k]] ELSE NoFeats]
    ELSE LoadFeats([be |-> be, m |-> m, sp |-> sp], feat, a.limit)

Row(be, m, feat, gal, a) ==
    [be |-> be, gallery |-> LoadSplit(be, m, gal, feat, a), of |-> gal, qof |-> Models[m].query,
     query |-> LoadFeats([be |-> be, m |-> m, sp |-> Models[m].query], feat, a.limit)]

(* The row of a dtype with no query features is left out; everything else    *)
(* that is missing stops the script.                                         *)
RowsOf(a) ==
    UNION {{Row(be, m, f, g, a) : f \in Models[m].feats, g \in Models[m].galleries} :
              be \in Range(Backends("all")), m \in DOMAIN Models}
Evaluated(a) == {r \in RowsOf(a) : r.be[1] = "cpp" => r.query # NoFeats}

(* nn_margin, centroid_predict and the accuracy compare features with labels *)
(* element by element and raise when their numbers differ.                   *)
Fits(r, a) ==
    /\ Opens(r.gallery) /\ Len(r.gallery) = Len(Splits(a)[r.of])
    /\ Opens(r.query) /\ Len(r.query) = Len(Splits(a)[r.qof])
Scores(a) == a.stage \in {"eval", "all"} /\ \A r \in Evaluated(a) : Fits(r, a)
Eval ==
    /\ imageRun.pc = "pass" /\ imageRun.todo = <<>>
    /\ IF Scores(imageRun.a)
       THEN imageArtifact' = [imageArtifact EXCEPT ![imageRun.a.limit] =
                            [args |-> imageRun.a, rows |-> Evaluated(imageRun.a)]]
       ELSE UNCHANGED imageArtifact
    /\ imageRun' = NoRun
    /\ UNCHANGED <<matrices, started, drawn>>

(* The process may die anywhere, inside a write too: of a matrix, or of the  *)
(* artifact, over the last one.                                              *)
KillRun ==
    /\ imageRun # NoRun
    /\ imageRun' = NoRun
    /\ \/ UNCHANGED <<matrices, imageArtifact>>
       \/ imageRun.pc = "save" /\ matrices' = Stored(HalfFeats) /\ UNCHANGED imageArtifact
       \/ /\ imageRun.pc = "pass" /\ imageRun.todo = <<>> /\ Scores(imageRun.a)
          /\ imageArtifact' = [imageArtifact EXCEPT ![imageRun.a.limit] = HalfFeats]
          /\ UNCHANGED matrices
    /\ UNCHANGED <<started, drawn>>

ImageNext == BeginRun \/ Skip \/ Encode \/ GiveUp \/ SaveFeature \/ Eval \/ KillRun
ImageSpec == ImageInit /\ [][ImageNext]_imageVars

-----------------------------------------------------------------------------
(* Every number in the artifact was computed on images of the splits recorded *)
(* beside it, in their order: no matrix of another split, of another          *)
(* --per-class or of a smoke run was scored in their place.  Only the seed is *)
(* told by nothing but the number of rows: a row may be of the images that    *)
(* another seed drew, but of no others, and of the recorded ones as long as   *)
(* the runs were all given one seed (cache_hit).                              *)
ScoresTheRecordedImages ==
    \A l \in ImageLimits : Opens(imageArtifact[l]) =>
        LET drew(seed) == Splits([imageArtifact[l].args EXCEPT !.seed = seed])
        IN  \A r \in imageArtifact[l].rows :
               /\ \E seed \in drawn : r.gallery = drew(seed)[r.of]
               /\ \E seed \in drawn : r.query = drew(seed)[r.qof]
=============================================================================
