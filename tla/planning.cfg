\* A window of three slots over six frames; rollouts of up to three candidates, three observed
\* frames and four steps; episodes of one to six calls over three levels; two Python threads of
\* three calls each.
SPECIFICATION PlanningSpec
CONSTANTS
    Contexts = {x1, x2}
    Slots = 3
    MaxTime = 6
    MaxHorizon = 2
    None = none
    MaxCand = 3
    MaxSeed = 3
    MaxSteps = 4
    PredictorSlots = 5
    N = 3
    Settings <- LevelPlans
    Strides <- ModelStrides
    Intervals = {2}
    Budgets = {1, 5, 12}
    FrameLimit = 8
    Threads = {t1, t2}
    NoThread = nothread
    Methods = {"settings", "classify", "hjepa_horizons", "hjepa_plan"}
    InCallback = {"settings", "classify", "hjepa_plan"}
    MaxCalls = 3
    MaxNested = 3
INVARIANTS
    WindowIsRecent
    RolloutIsRight
    SchedulesFit
    GoalsAreRight
    GraphsOnLiveHandles
    MessagesAreOfTheCall
PROPERTIES
    RolloutReadsWindow
    ImplementsWindow
    EveryCallReturns
CHECK_DEADLOCK FALSE
