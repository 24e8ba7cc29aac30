------------------------------- MODULE AcRollout -------------------------------
(***************************************************************************)
(* The autoregressive rollout of V-JEPA 2-AC (ac_rollout in                *)
(* src/vjepa2_ac.cpp): nCand candidate action sequences advance together,  *)
(* one predictor call per step, through arrays that are re-used from step  *)
(* to step.  The calls condition every candidate on the observed frames,   *)
(* which all share, and on the frames predicted for it so far, its tail.   *)
(*                                                                         *)
(* Rows are represented by what they are: the seed frame, action or pose   *)
(* of an observed frame, a planned action, a predicted frame.  Frames,     *)
(* steps and candidates count from 0, as in the code.                      *)
(***************************************************************************)
EXTENDS Integers

CONSTANTS
    MaxCand, MaxSeed, MaxSteps, \* bounds on the arguments of a call
    PredictorSlots              \* jepa.pred.n_frames, 0 when the file declares none

ASSUME RolloutAssumption == PredictorSlots \in Nat

Unset == <<"unset", 0, 0>>
SeedFrame(i) == <<"seed frame", i, 0>>
PredictedFrame(c, s) == <<"predicted", c, s>>
PastAction(i) == <<"past action", i, 0>>
PlannedAction(c, s) == <<"planned", c, s>>
SeedPose(i) == <<"seed pose", i, 0>>
GivenPose(c, s) == <<"given pose", c, s>>

\* jepa_ac_next_state: the pose an action leads to from a pose.
NextPose(pose, action) == <<"next", pose, action>>

VARIABLES
    nCand, nSeed, horizon, \* the arguments of the call
    hist,                  \* seed_actions is given
    given,                 \* states is given
    stage, step,
    j,                     \* the frame whose conditioning is filled next
    act, st,               \* the action and pose of each candidate's frames
    tail,                  \* the predicted frames, nTailMax slots per candidate
    out,                   \* what the caller gets, horizon rows per candidate
    inputs                 \* the inputs of the last predictor call

args == <<nCand, nSeed, horizon, hist, given>>
rolloutVars == <<args, stage, step, j, act, st, tail, out, inputs>>

Cands == 0..(nCand - 1)
nSeq == nSeed + horizon - 1
nTailMax == horizon - 1
T == nSeed + step
NoCall == [frames |-> 0, latents |-> <<>>, actions |-> <<>>, poses |-> <<>>]

RolloutInit ==
    /\ nCand \in 0..MaxCand /\ nSeed \in 0..MaxSeed /\ horizon \in 0..MaxSteps
    /\ hist \in BOOLEAN /\ given \in BOOLEAN
    /\ stage = "check" /\ step = 0 /\ j = 0
    /\ act = <<>> /\ st = <<>> /\ tail = <<>> /\ out = <<>>
    /\ inputs = NoCall

\* Arguments that are not positive, a last step over the predictor's frame slots,
\* or a tail over the memory limit.
RefuseRollout ==
    /\ stage = "check"
    /\ stage' = "failed"
    /\ UNCHANGED <<args, step, j, act, st, tail, out, inputs>>

\* The arrays are sized for the last step and the seed poses copied to each candidate.
Accept ==
    /\ stage = "check"
    /\ nCand > 0 /\ nSeed > 0 /\ horizon > 0
    /\ PredictorSlots > 0 => nSeq <= PredictorSlots
    /\ act' = [c \in Cands |-> [i \in 0..(nSeq - 1) |-> Unset]]
    /\ st' = [c \in Cands |-> [i \in 0..(nSeq - 1) |-> IF i < nSeed THEN SeedPose(i) ELSE Unset]]
    /\ tail' = [x \in 0..(nCand * nTailMax - 1) |-> Unset]
    /\ out' = [x \in 0..(nCand * horizon - 1) |-> Unset]
    /\ stage' = "fill"
    /\ UNCHANGED <<args, step, j, inputs>>

\* The action at frame i: history before the last observed frame, or the first
\* planned action in its place; the plan from there on.
ActionAt(c, i) ==
    IF i < nSeed - 1 THEN IF hist THEN PastAction(i) ELSE PlannedAction(c, 0)
    ELSE LET k == i - (nSeed - 1) IN PlannedAction(c, IF k > step THEN step ELSE k)

\* The pose at frame i; the frame before it was filled first.
PoseAt(c, i) ==
    IF i < nSeed THEN st[c][i]
    ELSE IF given THEN GivenPose(c, i - nSeed)
    ELSE NextPose(st[c][i - 1], act[c][i - 1])

\* The conditioning of frame j, for every candidate; every step fills all T.
Fill ==
    /\ stage = "fill" /\ j < T
    /\ act' = [c \in Cands |-> [act[c] EXCEPT ![j] = ActionAt(c, j)]]
    /\ st' = [c \in Cands |-> [st[c] EXCEPT ![j] = PoseAt(c, j)]]
    /\ j' = j + 1
    /\ UNCHANGED <<args, stage, step, tail, out, inputs>>

\* Mutant: the tail is passed as it is, whatever its stride.
TailRow_NoRepack(c, i) == tail[c * step + i]

\* Row i of candidate c in what the call gets as its tail.  The tail itself is
\* passed when all its slots are used; otherwise the used ones are repacked.
TailRow(c, i) ==
    IF step = nTailMax THEN tail[c * step + i] ELSE tail[c * nTailMax + i]

CallNow ==
    [frames |-> T,
     latents |-> [c \in Cands |-> [i \in 0..(T - 1) |->
                    IF i < nSeed THEN SeedFrame(i) ELSE TailRow(c, i - nSeed)]],
     actions |-> [c \in Cands |-> [i \in 0..(T - 1) |-> act[c][i]]],
     poses |-> [c \in Cands |-> [i \in 0..(T - 1) |-> st[c][i]]]]

OutRow(c) == c * horizon + step

LastStep == step + 1 = horizon

\* ac_predict_split returned the next frame of every candidate.
Predict ==
    /\ stage = "fill" /\ j = T
    /\ PredictorSlots > 0 => T <= PredictorSlots
    /\ inputs' = CallNow
    /\ out' = [x \in DOMAIN out |->
                 IF \E c \in Cands : x = OutRow(c)
                 THEN PredictedFrame(CHOOSE c \in Cands : x = OutRow(c), step) ELSE out[x]]
    /\ tail' = [x \in DOMAIN tail |->
                  IF step < nTailMax /\ \E c \in Cands : x = c * nTailMax + step
                  THEN PredictedFrame(CHOOSE c \in Cands : x = c * nTailMax + step, step) ELSE tail[x]]
    /\ step' = step + 1 /\ j' = 0
    /\ stage' = IF LastStep THEN "done" ELSE "fill"
    /\ UNCHANGED <<args, act, st>>

\* ac_predict_split failed: more frames than slots, or no memory for the graph.
PredictFails ==
    /\ stage = "fill" /\ j = T
    /\ stage' = "failed"
    /\ UNCHANGED <<args, step, j, act, st, tail, out, inputs>>

\* The call has returned.
Returned == stage \in {"done", "failed"} /\ UNCHANGED rolloutVars

RolloutNext == RefuseRollout \/ Accept \/ Fill \/ Predict \/ PredictFails \/ Returned

RolloutSpec == RolloutInit /\ [][RolloutNext]_rolloutVars

-----------------------------------------------------------------------------
(***************************************************************************)
(* Every predictor call conditions every candidate on the right history:   *)
(* its own predicted frames in order behind the observed ones, the action  *)
(* that drives the step each frame starts, and the pose at it, although    *)
(* the arrays were sized for, and hold leftovers of, other steps.          *)
(***************************************************************************)
RightLatent(c, i, l) == l = IF i < nSeed THEN SeedFrame(i) ELSE PredictedFrame(c, i - nSeed)
RightAction(c, i, a) ==
    a = IF i >= nSeed - 1 THEN PlannedAction(c, i - (nSeed - 1))
        ELSE IF hist THEN PastAction(i) ELSE PlannedAction(c, 0)
RightPose(c, i, poses, actions) ==
    poses[i] = IF i < nSeed THEN SeedPose(i)
               ELSE IF given THEN GivenPose(c, i - nSeed)
               ELSE NextPose(poses[i - 1], actions[i - 1])
ConditioningIsRight ==
    inputs # NoCall => \A c \in Cands : \A i \in 0..(inputs.frames - 1) :
        /\ RightLatent(c, i, inputs.latents[c][i])
        /\ RightAction(c, i, inputs.actions[c][i])
        /\ RightPose(c, i, inputs.poses[c], inputs.actions[c])

\* When the call succeeds, row c * horizon + s is the prediction for candidate c
\* at step s: no candidate's row was overwritten by another's.
RowsAreTheCandidates ==
    stage = "done" => \A c \in Cands, s \in 0..(horizon - 1) : out[c * horizon + s] = PredictedFrame(c, s)

\* The check before the first step is enough: no step of an accepted call finds
\* the predictor's frame slots used up.
SlotsSuffice == stage = "fill" /\ PredictorSlots > 0 => T <= PredictorSlots

\* What jepa_ac_rollout promises of an accepted call.
RolloutIsRight == ConditioningIsRight /\ RowsAreTheCandidates /\ SlotsSuffice
=============================================================================
