------------------------------ MODULE MCPlanning -----------------------------
(* What a planning program calls: the cached context of V-JEPA 2-AC          *)
(* (AcContext), its rollout (AcRollout), the hierarchical planner            *)
(* (HjepaPlan) and the Python Model that serialises the calls of several     *)
(* threads (PyModel).  A behaviour is of one of them: they share no state.   *)
EXTENDS AcContext, AcRollout, HjepaPlan, PyModel

VARIABLE which   \* the component of this behaviour

planningVars == <<which, vars, rolloutVars, plannerVars, pyVars>>

Level(horizons, pres, subgoals, lastNs, uppers) ==
    [horizon : horizons, pre : pres, subgoals : subgoals, lastN : lastNs, goalUpper : uppers]
\* Fields a level does not use are fixed.
LevelPlans ==
    {<<l1, l2, l3>> :
        l1 \in Level({1, 3}, {0, 4}, {1}, {2}, {FALSE}),
        l2 \in Level({1, 3}, {0, 1, 4}, {1, 2}, {1, 2}, BOOLEAN),
        l3 \in Level({2, 4}, {0}, {1, 2, 4}, {1}, BOOLEAN)}
ModelStrides == {<<1, 2, 2>>, <<1, 3, 2>>}

\* The components whose initial states differ start in one of them for the others.
OneRollout == nCand = 0 /\ nSeed = 0 /\ horizon = 0 /\ hist /\ given
OneEpisode ==
    /\ levels = CHOOSE l \in LevelPlans : TRUE
    /\ stride = <<1, 2, 2>> /\ budget = 1
PlanningInit ==
    /\ which \in {"context", "rollout", "planner", "python"}
    /\ Init /\ RolloutInit /\ PlannerInit /\ PyInit
    /\ which = "rollout" \/ OneRollout
    /\ which = "planner" \/ OneEpisode
PlanningNext ==
    \/ which = "context" /\ Next /\ UNCHANGED <<which, rolloutVars, plannerVars, pyVars>>
    \/ which = "rollout" /\ RolloutNext /\ UNCHANGED <<which, vars, plannerVars, pyVars>>
    \/ which = "planner" /\ PlannerNext /\ UNCHANGED <<which, vars, rolloutVars, pyVars>>
    \/ which = "python" /\ PyNext /\ UNCHANGED <<which, vars, rolloutVars, plannerVars>>
PlanningSpec ==
    /\ PlanningInit /\ [][PlanningNext]_planningVars
    /\ which = "python" => PyFairness
=============================================================================
