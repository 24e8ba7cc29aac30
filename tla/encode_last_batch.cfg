\* One worker whose batch is smaller than the cap.
SPECIFICATION Spec
CONSTANTS
    Contexts = {x1}
    Chans = 2
    Tokens = 2
    DefaultCap = 4
    Caps = {0, 3}
    Budgets = {1, 3}
    Costs = {1, 4}
    MaxTasks = 2
    MaxFrames = 2
INVARIANTS
    LastBatchIsTheCap
