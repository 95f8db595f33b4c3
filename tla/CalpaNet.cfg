SPECIFICATION Spec
CONSTANTS
    Size <- MCSize
    Batch <- MCBatch
    Capacity <- MCCapacity
    Interval <- MCInterval
    TrainInterval = 2
    SaveInterval = 2
    MaxIter = 4
    MaxCrashes = 1
    Slot <- MCSlot
    Method <- MCMethod
    Channels <- MCChannels
    File <- MCFile
    SetupFiles <- MCSetupFiles
    FilesOf <- MCFilesOf
    Threshold <- MCThreshold
    Parts = 4
    RoundsUp = {2, 4}
    Reference = 2
    Accuracy = {1, 2, 3}
    MaxDetections = 2
INVARIANTS
    EvaluationsCoverTheSet
    ModelsHoldTheirSteps
    RatesAreTheLargest
CHECK_DEADLOCK FALSE
