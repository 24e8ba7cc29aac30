\* Three connections, so that a batch of three can be held with two tasks in hand.
SPECIFICATION Spec
CONSTANTS
    Clients = {c1, c2, c3}
    Workers = {w1}
    Shapes = {s1}
    Rollout = rollout
    MaxItems = 1
    MaxBatch = 3
    MaxWait = TRUE
    MaxLate = 1
    None = none
SYMMETRY Symmetry
INVARIANTS
    GaugeIsExactAtRest
