\* Two connections that may keep sending, requests of two items, one worker for all.
SPECIFICATION FairSpec
CONSTANTS
    Clients = {c1, c2}
    Workers = {w1}
    Shapes = {s1}
    Rollout = rollout
    MaxItems = 2
    MaxBatch = 2
    MaxWait = TRUE
    MaxLate = 1
    None = none
PROPERTIES
    EveryRequestAnswered
    ShutsDown
