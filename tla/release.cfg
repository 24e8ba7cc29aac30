\* Two checkpoints of two types and three commands; two repositories and four commands;
\* every configuration of the eight model families.
SPECIFICATION Spec
CONSTANTS
    Families <- MCFamilies
    Configs <- MCConfigs
    Checkpoints <- MCCheckpoints
    Ftypes = {"f16"}
    Models = {m1, m2}
    Classifier = m1
    Names <- BatchNames
    Dtypes <- BatchDtypes
    PublishDtypes = {f16}
    Artifacts <- MCArtifacts
    Quotes <- MCQuotes
    Bytes = {b1, b2}
    Absent = absent
    Refs = {r1}
    Contents = {c1, c2}
    Whole = whole
    Torn = torn
    NoFile = nofile
    Rewrites = "idle"
    MaxCommands = 3
    MaxEvents = 4
INVARIANTS
    PublishedPassed
    NothingDropped
    WrittenFilesLoad
PROPERTIES
    CheckIsRight
    UploadSettles
SYMMETRY Symmetry
CHECK_DEADLOCK FALSE
