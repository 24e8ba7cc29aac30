\* Two workers, up to two tasks of up to two frames, caps and limits below and above them.
SPECIFICATION Spec
CONSTANTS
    Contexts = {x1, x2}
    Chans = 2
    Tokens = 2
    DefaultCap = 4
    Caps = {0, 3}
    Budgets = {1, 3}
    Costs = {1, 4}
    MaxTasks = 2
    MaxFrames = 2
SYMMETRY Symmetry
INVARIANTS
    TasksGetTheirRows
    GraphsFit
    BuffersBalanced
