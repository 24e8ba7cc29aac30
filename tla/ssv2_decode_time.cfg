\* What a report after a killed decode keeps of the one before it.
SPECIFICATION MeasureSpec
CONSTANTS
    NClips = 2
    Scope <- Ssv2Scope
    ListFiles <- Ssv2Lists
    Tags <- Ssv2Tags
    Limits = {1, 2}
    MaxStages = 6
    Missing = Missing
    Half = Half
    Wnids = 2
    PerDir = 4
    Models <- ImageModels
    ImageDtypes <- ImageTypes
    ImageLimits = {0, 8}
    PerClass = {1, 2}
    Seeds = {0, 1}
    Stages = {"eval", "all"}
    MaxImageRuns = 0
    NoFeats = NoFeats
    HalfFeats = HalfFeats
    Split <- VideoSplit
    SplitSets <- VideoSplits
    Encoders = {"vitl"}
    VideoDtypes = {"f16"}
    VideoLimits = {0, 2}
    MaxVideoStages = 0
    Absent = Absent
    HalfFile = HalfFile
    Shapes = {1, 16}
    Lists <- BenchLists
    MaxSweeps = 0
    NoFile = NoFile
    Torn = Torn
    Sweeps <- ServerSweeps
    Requests = 4
    Warmup = 1
    MaxRuns = 0
    NoArtifact = NoArtifact
    Gallery <- KnnGallery
    Queries <- KnnQueries
    Classes <- KnnClasses
    Weights <- KnnWeights
    Galleries <- KnnGalleries
    Truths <- KnnTruths
    Ks <- KnnKs
PROPERTIES DecodeTimeIsKept
CHECK_DEADLOCK FALSE
