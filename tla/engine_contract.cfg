\* The engine as an implementation of ServeContract.
SPECIFICATION Spec
CONSTANTS
    Clients = {c1, c2}
    Workers = {w1, w2}
    Shapes = {s1}
    Rollout = rollout
    MaxItems = 2
    MaxBatch = 2
    MaxWait = TRUE
    MaxLate = 1
    None = none
SYMMETRY Symmetry
PROPERTIES
    ImplementsContract
