\* What a run says it wrote against the file it names.
SPECIFICATION Spec
CONSTANTS
    Families <- MCFamilies
    Configs <- MCConfigs
    Checkpoints <- MCCheckpoints
    Ftypes = {"f16"}
    Models = {m1}
    Classifier = m1
    Names <- BatchNames
    Dtypes <- BatchDtypes
    PublishDtypes = {f16}
    Artifacts <- MCArtifacts
    Quotes <- MCQuotes
    Bytes = {b1, b2}
    Absent = absent
    Refs = {r1}
    Contents = {c1, c2}
    Whole = whole
    Torn = torn
    NoFile = nofile
    Rewrites = "idle"
    MaxCommands = 2
    MaxEvents = 0
PROPERTIES
    FailuresAreSaved
CHECK_DEADLOCK FALSE
