------------------------------- MODULE KnnEval -------------------------------
(* The scoring of frozen features: the k-NN vote of scripts/knn_eval.py and   *)
(* its comparison of two backends, and what scripts/bench_accuracy_video.py   *)
(* writes about every prediction they differ in.  A feature is represented    *)
(* by its similarities to the gallery, which tie when they are equal; ref is  *)
(* the PyTorch backend, this one the engine.                                  *)
EXTENDS Naturals, Integers, FiniteSets, FiniteSetsExt

CONSTANTS Gallery, Queries,  \* 1..n, the clips of either
          Classes,           \* 0..c
          Weights,           \* [similarity -> vote], the grades of similarity there are
          Galleries,         \* the labels of the gallery to try
          Truths,            \* the labels of the queries to try
          Ks                 \* --k

ASSUME KnnAssumption ==
    /\ IsFiniteSet(Gallery)
    /\ IsFiniteSet(Queries) /\ Queries = 1..Cardinality(Queries)
    /\ Classes \subseteq Nat /\ DOMAIN Weights \subseteq Nat
    /\ Ks \subseteq Nat \ {0}

VARIABLES K, label, truth,  \* --k and the labels
          ref, this,        \* the features: [Queries -> [Gallery -> similarity]]
          refPred, pred,    \* the predictions
          figures,          \* of evaluate
          next, flips,      \* _explain_flips: the query it is at, the records so far
          step              \* "load", "predict", "evaluate", "explain", "done" or "failed"

inputs == <<K, label, truth, ref, this>>
knnVars == <<inputs, refPred, pred, figures, next, flips, step>>
NoPred == [q \in Queries |-> -1]
NoFigures == [flipped |-> 0, refRight |-> 0, thisRight |-> 0, bothWrong |-> 0]

Nothing == [q \in Queries |-> [g \in Gallery |-> 0]]
KnnInit ==
    /\ K = 0 /\ label = [g \in Gallery |-> 0] /\ truth = [q \in Queries |-> 0]
    /\ ref = Nothing /\ this = Nothing
    /\ refPred = NoPred /\ pred = NoPred
    /\ figures = NoFigures /\ next = 1 /\ flips = {} /\ step = "load"

(* The features and labels of one run, in rows of unit length.                *)
Features == [Queries -> [Gallery -> DOMAIN Weights]]
Load ==
    /\ step = "load"
    /\ K' \in Ks /\ label' \in Galleries /\ truth' \in Truths
    /\ ref' \in Features /\ this' \in Features
    /\ step' = "predict"
    /\ UNCHANGED <<refPred, pred, figures, next, flips>>

-----------------------------------------------------------------------------
(* The k nearest: argpartition breaks a tie at the k-th place as it likes.    *)
(* A gallery of fewer clips is taken whole.                                   *)
Neighbours(sim) ==
    {S \in SUBSET Gallery :
        /\ Cardinality(S) = IF K < Cardinality(Gallery) THEN K ELSE Cardinality(Gallery)
        /\ \A a \in S, b \in Gallery \ S : sim[a] >= sim[b]}
Weight(sim, T) == MapThenSumSet(LAMBDA g : Weights[sim[g]], T)
Votes(S, sim) == [c \in Classes |-> Weight(sim, {g \in S : label[g] = c})]
Leaders(votes) == {c \in Classes : \A d \in Classes : votes[d] <= votes[c]}
(* argmax: the first of the classes with the most votes.                      *)
Top(votes) == Min(Leaders(votes))
KnnPredict(feats) ==
    {p \in [Queries -> Classes] :
        \A q \in Queries : \E S \in Neighbours(feats[q]) : p[q] = Top(Votes(S, feats[q]))}

Predict ==
    /\ step = "predict"
    /\ refPred' \in KnnPredict(ref) /\ pred' \in KnnPredict(this)
    /\ step' = "evaluate"
    /\ UNCHANGED <<inputs, figures, next, flips>>

Right(p) == {q \in Queries : p[q] = truth[q]}
Flipped == {q \in Queries : pred[q] # refPred[q]}

\* Mutant: the reference's hits are counted over all queries.
Evaluate_CountsAll ==
    /\ step = "evaluate"
    /\ LET n == Cardinality(Flipped)
           r == Cardinality(Right(refPred))
           t == Cardinality(Flipped \cap Right(pred))
       IN  figures' = [flipped |-> n, refRight |-> r, thisRight |-> t, bothWrong |-> n - r - t]
    /\ step' = "explain"
    /\ UNCHANGED <<inputs, refPred, pred, next, flips>>

(* evaluate with ref_preds: the predictions that differ, by who is right.     *)
Evaluate ==
    /\ step = "evaluate"
    /\ LET n == Cardinality(Flipped)
           r == Cardinality(Flipped \cap Right(refPred))
           t == Cardinality(Flipped \cap Right(pred))
       IN  figures' = [flipped |-> n, refRight |-> r, thisRight |-> t, bothWrong |-> n - r - t]
    /\ step' = "explain"
    /\ UNCHANGED <<inputs, refPred, pred, next, flips>>

-----------------------------------------------------------------------------
(* _explain_flips sorts the whole gallery anew, by argsort this time, for the *)
(* first k of it and the one after them, which a gallery of k clips or fewer  *)
(* does not have: IndexError.  The class it reports the votes of is any of    *)
(* those that lead.                                                           *)
Nth(sim, i) ==
    CHOOSE s \in DOMAIN Weights :
        /\ Cardinality({g \in Gallery : sim[g] > s}) < i
        /\ Cardinality({g \in Gallery : sim[g] >= s}) >= i
Gap(sim) == Nth(sim, K) - Nth(sim, K + 1)
Furthest(q) ==
    LET apart(g) == IF ref[q][g] > this[q][g] THEN ref[q][g] - this[q][g] ELSE this[q][g] - ref[q][g]
    IN  Max({apart(g) : g \in Gallery})
Explain ==
    /\ step = "explain" /\ next \in Queries
    /\ IF next \notin Flipped THEN UNCHANGED <<flips, step>>
       ELSE IF Cardinality(Gallery) <= K THEN step' = "failed" /\ UNCHANGED flips
       ELSE /\ \E R \in Neighbours(ref[next]), F \in Neighbours(this[next]) :
                  LET leaders == Leaders(Votes(R, ref[next]))
                  IN  \E t \in leaders :
                         flips' = flips \cup
                             {[query |-> next, ref |-> refPred[next], this |-> pred[next],
                               top |-> t, even |-> leaders # {t}, shared |-> Cardinality(R \cap F),
                               gap |-> Gap(ref[next]), furthest |-> Furthest(next)]}
            /\ UNCHANGED step
    /\ next' = next + 1
    /\ UNCHANGED <<inputs, refPred, pred, figures>>
Explained ==
    /\ step = "explain" /\ next \notin Queries
    /\ step' = "done"
    /\ UNCHANGED <<inputs, refPred, pred, figures, next, flips>>

KnnNext == Load \/ Predict \/ Evaluate \/ Explain \/ Explained
KnnSpec == KnnInit /\ [][KnnNext]_knnVars

-----------------------------------------------------------------------------
(* What is published of the disagreements accounts for the accuracies: the    *)
(* difference of the two is the flips one backend wins less those the other   *)
(* does, and no flip is counted twice.  Unless the k-th place is tied, the    *)
(* class a flip's record reports is the one predicted or level with it, the   *)
(* similarities have moved, and by half the gap at least if the neighbourhood *)
(* changed.                                                                   *)
FlipsAreExplained ==
    step = "done" =>
        /\ Cardinality(Right(pred)) - Cardinality(Right(refPred)) = figures.thisRight - figures.refRight
        /\ figures.bothWrong = Cardinality(Flipped \ (Right(pred) \cup Right(refPred)))
        /\ figures.flipped = Cardinality(flips) /\ {f.query : f \in flips} = Flipped
        /\ \A f \in flips : f.gap > 0 =>
              /\ f.top = f.ref \/ f.even
              /\ f.furthest > 0
              /\ f.shared < K => 2 * f.furthest >= f.gap
=============================================================================
