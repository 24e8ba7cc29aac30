\* Two connections with up to two items each, two workers, two shapes.
SPECIFICATION Spec
CONSTANTS
    Clients = {c1, c2}
    Workers = {w1, w2}
    Shapes = {s1, s2}
    Rollout = rollout
    MaxItems = 2
    MaxBatch = 2
    MaxWait = TRUE
    MaxLate = 1
    None = none
SYMMETRY Symmetry
INVARIANTS
    TypeOK
    NoDanglingTask
    OnePlace
    PendingCounts
    ReleasedWhenComputed
    BatchesAreGraphs
    HandoffSafe
    NoLostWakeup
    NothingStranded
    RunsOnLiveContext
PROPERTIES
    FirstComeFirstServed
    BatchIsMaximal
