------------------------------ MODULE MCMeasure ------------------------------
(* The scripts that measure, one of them in a behaviour: the accuracy sweeps  *)
(* (Ssv2Sweep, ImageSweep, VideoSweep), the scoring of features (KnnEval),    *)
(* the load test (LoadTest) and the benchmark document (Benchmarks).  They    *)
(* share no file.                                                             *)
EXTENDS LoadTest, Benchmarks, Ssv2Sweep, ImageSweep, VideoSweep, KnnEval

VARIABLE which   \* the script of this behaviour

Ssv2Scope == [full |-> 1, sub10 |-> 2, sub100 |-> 4]
Run(e, d, y, s) == [eng |-> e, dev |-> d, dtype |-> y, scope |-> s]
Ssv2Lists == <<"clips.json", "full", "sub10">>
Ssv2Tags == {Run("torch", "cuda", "f32", "full"), Run("cpp", "cuda", "f16", "full"),
             Run("cpp", "cpu", "f16", "sub10"), Run("torch", "cpu", "f32", "sub100")}
ImageModels ==
    <<[feats |-> {"mean"}, galleries |-> {"train2000"}, query |-> "val"],
      [feats |-> {"cls", "mean"}, galleries |-> {"train2000", "train_full"}, query |-> "val"]>>
VideoSplits == {{"train", "val", "test"}, {"train", "val"}, {"train", "test"}}
ServerSweeps == <<[section |-> "cpu", maxBatch |-> 1, cells |-> <<1, 2>>],
                  [section |-> "gpu", maxBatch |-> 2, cells |-> <<3>>]>>

BenchLists == <<{32}, {32, 96}>>
VideoSplit == <<"train", "val", "test">>
ImageTypes == <<"f16">>
KnnWeights == [s \in 0..1 |-> 1 + 2 * s]
KnnGalleries == {<<0, 1, 1>>, <<0, 1, 0>>}
KnnTruths == {<<0, 0>>, <<0, 1>>}
KnnGallery == 1..3
KnnQueries == 1..2
KnnClasses == 0..1
KnnKs == 1..3

measureVars == <<which, ssv2Vars, imageVars, videoVars, loadVars, benchVars, knnVars>>

MeasureInit ==
    /\ which \in {"ssv2", "image", "video", "load", "bench", "knn"}
    /\ Ssv2Init /\ ImageInit /\ VideoInit /\ LoadInit /\ BenchInit /\ KnnInit
MeasureNext ==
    \/ which = "ssv2" /\ Ssv2Next /\ UNCHANGED <<which, imageVars, videoVars, loadVars, benchVars, knnVars>>
    \/ which = "image" /\ ImageNext /\ UNCHANGED <<which, ssv2Vars, videoVars, loadVars, benchVars, knnVars>>
    \/ which = "video" /\ VideoNext /\ UNCHANGED <<which, ssv2Vars, imageVars, loadVars, benchVars, knnVars>>
    \/ which = "load" /\ LoadNext /\ UNCHANGED <<which, ssv2Vars, imageVars, videoVars, benchVars, knnVars>>
    \/ which = "bench" /\ BenchNext /\ UNCHANGED <<which, ssv2Vars, imageVars, videoVars, loadVars, knnVars>>
    \/ which = "knn" /\ KnnNext /\ UNCHANGED <<which, ssv2Vars, imageVars, videoVars, loadVars, benchVars>>
MeasureSpec == MeasureInit /\ [][MeasureNext]_measureVars
=============================================================================
