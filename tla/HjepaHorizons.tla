----------------------------- MODULE HjepaHorizons -----------------------------
(***************************************************************************)
(* The horizons of an H-JEPA episode (decreasing_schedule and              *)
(* jepa_hjepa_horizons in src/hjepa-plan.cpp).  Levels count from 1, the   *)
(* top is N; a schedule has one horizon per planner call.                  *)
(***************************************************************************)
EXTENDS Integers, Sequences, SequencesExt

CeilDiv(a, b) == (a + b - 1) \div b

\* How many of numCalls calls plan with horizon k when there are enough for all:
\* what does not divide evenly goes to the smallest horizons.
CallsWith(numCalls, horizon, k) ==
    numCalls \div horizon + IF k <= numCalls % horizon THEN 1 ELSE 0

\* The i-th of too few calls for all horizons: an even descent, rounded up.
Descent(numCalls, horizon, i) ==
    1 + CeilDiv((horizon - 1) * (numCalls - i), numCalls - 1)

\* decreasing_schedule
DecreasingSchedule(numCalls, horizon) ==
    IF horizon = 1 THEN [i \in 1..numCalls |-> 1]
    ELSE IF numCalls = 1 THEN <<horizon>>
    ELSE IF numCalls < horizon THEN [i \in 1..numCalls |-> Descent(numCalls, horizon, i)]
    ELSE FlattenSeq([b \in 1..horizon |->
            [i \in 1..CallsWith(numCalls, horizon, horizon - b + 1) |-> horizon - b + 1]])

\* Mutant: the level decays at once, while the level above still plans.
HeldSchedule_NoHold(above, pre, horizon) == DecreasingSchedule(Len(above), horizon)

\* A level below the top holds its pre-decay horizon until the level above is
\* down to one step, then decays over the calls that are left.
HeldSchedule(above, pre, horizon) ==
    LET ones == {i \in 1..Len(above) : above[i] = 1}
        held == IF ones = {} THEN Len(above) ELSE Min(ones) - 1
    IN  [i \in 1..held |-> pre]
        \o (IF ones = {} THEN <<>> ELSE DecreasingSchedule(Len(above) - held, horizon))

\* The pre-decay horizon of level lv, by default the stride of the level above.
PreDecay(levels, stride, lv) == IF levels[lv].pre > 0 THEN levels[lv].pre ELSE stride[lv + 1]

\* The schedule of every level of an episode of so many calls, top down.
Schedules(N, levels, stride, calls) ==
    LET s[lv \in 1..N] ==
            IF lv = N THEN DecreasingSchedule(calls, levels[lv].horizon)
            ELSE HeldSchedule(s[lv + 1], PreDecay(levels, stride, lv), levels[lv].horizon)
    IN  s
=============================================================================
