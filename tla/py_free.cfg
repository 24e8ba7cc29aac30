\* One thread reads a property while another closes the Model.
SPECIFICATION PySpec
CONSTANTS
    Threads = {t1, t2}
    Methods = {"introspection"}
    InCallback = {}
    MaxCalls = 1
    MaxNested = 1
    NoThread = nothread
INVARIANTS
    FreeOverlapsNoUse
CHECK_DEADLOCK FALSE
