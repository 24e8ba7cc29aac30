-------------------------------- MODULE HjepaPlan -------------------------------
(***************************************************************************)
(* An episode of the hierarchical planner (jepa_hjepa_horizons and         *)
(* jepa_hjepa_plan in src/hjepa-plan.cpp).  At every replanning step the   *)
(* caller asks for the horizons of the call and runs the hierarchy top     *)
(* down: each level that plans takes the first states the level above it   *)
(* predicted as its goals, or the real goal when nothing above planned.    *)
(*                                                                         *)
(* A goal is <<"goal", l>>, the real goal encoded at level l, or           *)
(* <<"state", l, i>>, the i-th state that level l's plan of this call      *)
(* predicts.  Gradients and costs are left out: a solve yields a plan of   *)
(* the horizon it was given.                                               *)
(***************************************************************************)
EXTENDS HjepaHorizons, FiniteSets

CONSTANTS
    N,          \* levels of the model
    Settings,   \* the caller's level plans, [1..N -> level plan]
    Strides,    \* the model's strides, [1..N -> Nat]
    Intervals, Budgets,  \* replanning intervals and evaluation budgets
    FrameLimit  \* JEPA_LIMIT_N_FRAMES

ASSUME PlannerAssumption ==
    /\ N \in Nat \ {0}
    /\ Settings \subseteq [1..N -> [horizon : Nat \ {0}, pre : Int, subgoals : Nat \ {0},
                                   lastN : Int, goalUpper : BOOLEAN]]
    /\ Strides \subseteq [1..N -> Nat \ {0}]
    /\ Intervals \subseteq Nat \ {0} /\ Budgets \subseteq Nat \ {0}
    /\ FrameLimit \in Nat

VARIABLES
    levels, stride,    \* the configured level plans and the model's strides
    interval, budget,  \* environment steps between two calls and in the episode
    steps,             \* environment steps taken
    pc,
    hz,                \* the horizons of this call
    lv,                \* the level the loop is at
    upper,             \* the level that planned last, 0 for none
    haveUpper,         \* it is the level above
    skipped,           \* skipped_goal_level, 0 for none
    anchored,          \* upper_anchored
    plan               \* what each level planned in this call

config == <<levels, stride, interval, budget>>
plannerVars == <<config, steps, pc, hz, lv, upper, haveUpper, skipped, anchored, plan>>

NoPlan == [goals |-> <<>>, goalLevel |-> 0]
Planned(l) == plan[l] # NoPlan
Min2(a, b) == IF a < b THEN a ELSE b
Max2(a, b) == IF a > b THEN a ELSE b

PlannerInit ==
    /\ levels \in Settings /\ stride \in Strides
    /\ interval \in Intervals /\ budget \in Budgets
    /\ steps = 0 /\ pc = "horizons"
    /\ hz = [l \in 1..N |-> 1] /\ lv = 0
    /\ upper = 0 /\ haveUpper = FALSE /\ skipped = 0 /\ anchored = TRUE
    /\ plan = [l \in 1..N |-> NoPlan]

calls == CeilDiv(budget, interval)
call == steps \div interval

\* jepa_hjepa_horizons, and the start of jepa_hjepa_plan with what it returned.
Horizons ==
    /\ pc = "horizons" /\ call < calls
    /\ LET s == Schedules(N, levels, stride, calls)
       IN  hz' = [l \in 1..N |-> s[l][call + 1]]
    /\ lv' = N /\ pc' = "levels"
    /\ upper' = 0 /\ haveUpper' = FALSE /\ skipped' = 0 /\ anchored' = TRUE
    /\ plan' = [l \in 1..N |-> NoPlan]
    /\ UNCHANGED <<config, steps>>

\* jepa_hjepa_horizons refuses a step past the budget: the episode is over.
PastBudget ==
    /\ pc = "horizons" /\ call >= calls
    /\ pc' = "over"
    /\ UNCHANGED <<config, steps, hz, lv, upper, haveUpper, skipped, anchored, plan>>

\* A level above the first that would plan one step is skipped.
Skip ==
    /\ pc = "levels" /\ lv > 1 /\ hz[lv] = 1
    /\ skipped' = IF ~levels[lv].goalUpper THEN 0 ELSE IF skipped # 0 THEN skipped ELSE lv
    /\ haveUpper' = FALSE
    /\ lv' = lv - 1
    /\ UNCHANGED <<config, steps, pc, hz, upper, anchored, plan>>

\* scored_states: the predictions left when a plan of level l is read at level g.
Scored(l, g, horizon, dense) ==
    LET len[k \in l..g] ==
            IF k = l THEN horizon + 1
            ELSE (len[k - 1] - 1) \div (IF dense THEN 1 ELSE stride[k]) + 1
    IN  len[g] - 1

\* check_spec
SpecFits(l, g, nGoal, dense) ==
    LET scored == Scored(l, g, hz[l], dense)
    IN  /\ g \in l..N /\ hz[l] \in 1..FrameLimit /\ nGoal >= 1
        /\ ~(dense /\ g = l)
        /\ scored >= 1
        /\ nGoal \in {1, Min2(Max2(1, levels[l].lastN), scored)}

Fail == pc' = "failed" /\ UNCHANGED <<config, steps, hz, lv, upper, haveUpper, skipped, anchored, plan>>

\* The rest of the loop: check the specification, solve, note the outcome.
Solve(goals, goalLevel, dense, anchor) ==
    IF ~SpecFits(lv, goalLevel, Len(goals), dense) THEN Fail
    ELSE /\ plan' = [plan EXCEPT ![lv] = [goals |-> goals, goalLevel |-> goalLevel]]
         /\ anchored' = anchor /\ skipped' = 0 /\ upper' = lv /\ haveUpper' = TRUE
         /\ lv' = lv - 1
         /\ pc' = IF lv = 1 THEN "planned" ELSE "levels"
         /\ UNCHANGED <<config, steps, hz>>

\* Nothing above planned: the level aims at the real goal, in its own space or in
\* that of the highest level skipped on its behalf.
PlanFree ==
    /\ pc = "levels" /\ lv > 0 /\ ~(lv > 1 /\ hz[lv] = 1)
    /\ ~haveUpper
    /\ LET g == IF skipped # 0 THEN skipped ELSE lv
       IN  Solve(<<<<"goal", g>>>>, g, g > lv, TRUE)

\* Mutant: the plan above counts as aimed at the goal whatever it aimed at.
EndsAtGoal_NoAnchor == levels[lv + 1].subgoals >= hz[upper]

\* All states of the plan above are subgoals, and the last one is the real goal's.
EndsAtGoal == levels[lv + 1].subgoals >= hz[upper] /\ anchored

\* Several subgoals have to be as many as the states of the level above that a plan
\* of this level reaches.
Reachable(nSub) == nSub > 1 => nSub = (hz[lv] + stride[lv + 1]) \div stride[lv + 1] - 1

\* The level above planned: its first states are the goals.
PlanUnder ==
    /\ pc = "levels" /\ lv > 0 /\ ~(lv > 1 /\ hz[lv] = 1)
    /\ haveUpper
    /\ LET nSub == Min2(levels[lv + 1].subgoals, hz[upper])
           goals == [i \in 1..nSub |->
                       IF i = nSub /\ EndsAtGoal THEN <<"goal", lv + 1>> ELSE <<"state", upper, i>>]
       IN  IF Reachable(nSub) THEN Solve(goals, lv + 1, FALSE, EndsAtGoal) ELSE Fail

\* The caller executes the plan and asks again after interval steps.
Act ==
    /\ pc = "planned"
    /\ steps' = steps + interval /\ pc' = "horizons"
    /\ UNCHANGED <<config, hz, lv, upper, haveUpper, skipped, anchored, plan>>

Over == pc \in {"over", "failed"} /\ UNCHANGED plannerVars

PlannerNext == Horizons \/ PastBudget \/ Skip \/ PlanFree \/ PlanUnder \/ Act \/ Over

PlannerSpec == PlannerInit /\ [][PlannerNext]_plannerVars

-----------------------------------------------------------------------------
(***************************************************************************)
(* Settings that fit together: no horizon is over the limit, a held one    *)
(* reaches the states the level above asks for and does not skip the       *)
(* level, and at most two subgoals are passed down, both scored (a plan of *)
(* the level above is two steps long before it is skipped, so three        *)
(* subgoals cannot last an episode).                                       *)
(***************************************************************************)
Matched ==
    /\ \A l \in 1..N : levels[l].horizon <= FrameLimit
    /\ \A l \in 1..(N - 1) :
         LET pre == PreDecay(levels, stride, l)
         IN  /\ pre \in stride[l + 1]..FrameLimit /\ (l > 1 => pre > 1)
             /\ \/ levels[l + 1].subgoals = 1
                \/ levels[l + 1].subgoals = 2 /\ pre \div stride[l + 1] = 2 /\ levels[l].lastN >= 2

\* With settings that fit together, no call of an episode is refused half way:
\* the schedules never give a level a horizon too short for the goals it gets.
EveryCallPlans == Matched => pc # "failed"

\* With such settings no level plans in vain: the level below a level that
\* planned uses its states.
NoPlanIsWasted ==
    Matched /\ pc = "planned" => \A l \in 2..N : Planned(l) => Planned(l - 1)

\* Over an episode of several calls the top level counts down to one step, so the
\* last call no longer follows a plan made above for longer than the episode.
TopReachesOne ==
    pc = "planned" /\ steps > 0 /\ steps + interval >= budget => hz[N] = 1

\* The schedules of an episode fit the top-down control of its calls.
SchedulesFit == EveryCallPlans /\ NoPlanIsWasted /\ TopReachesOne

\* Every waypoint is a state that the level directly above predicted in this very
\* call, in the order predicted.
WaypointsAreOfThisCall ==
    \A l \in 1..N : \A i \in DOMAIN plan[l].goals :
        LET g == plan[l].goals[i]
        IN  g[1] = "state" => g = <<"state", l + 1, i>> /\ Planned(l + 1) /\ i <= hz[l + 1]

(***************************************************************************)
(* The real goal is neither rushed nor lost: a level below others is given *)
(* it as its last goal only if its goals reach as far, in level-1 steps,   *)
(* as the highest of the plans above, and it is withheld only if one of    *)
(* those plans goes beyond the subgoals taken from it.                     *)
(***************************************************************************)
Span[l \in 1..N] == IF l = 1 THEN stride[1] ELSE Span[l - 1] * stride[l]
TopOfRun(l) == CHOOSE k \in l..N : (\A m \in l..k : Planned(m)) /\ (k < N => ~Planned(k + 1))
RealGoalInPlace ==
    \A l \in 1..N : Planned(l) =>
        LET top == TopOfRun(l)
            goals == plan[l].goals
        IN  IF goals[Len(goals)] = <<"goal", plan[l].goalLevel>>
            THEN top > l => Len(goals) * Span[l + 1] >= hz[top] * Span[top]
            ELSE \E k \in (l + 1)..top : levels[k].subgoals < hz[k]

\* A level with no plan above it is scored in the space of the highest level that
\* an unbroken run of skipped levels, all asking for it, leads up to.
GoalLevelIsRight ==
    \A l \in 1..N : Planned(l) /\ (l < N => ~Planned(l + 1)) =>
        LET asked == {k \in l..N : \A m \in (l + 1)..k : levels[m].goalUpper /\ ~Planned(m)}
        IN  \A k \in asked : k <= plan[l].goalLevel /\ plan[l].goalLevel \in asked

\* Each level aims at what it should, in the space it should.
GoalsAreRight == WaypointsAreOfThisCall /\ RealGoalInPlace /\ GoalLevelIsRight
=============================================================================
