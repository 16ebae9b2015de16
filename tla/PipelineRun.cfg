SPECIFICATION FairSpec
CONSTANTS
    Steps = {"first", "fan", "gate", "last"}
    Gates = {"gate"}
    Lenient = {"gate"}
    Needs <- FannedNeeds
    Continue = {"fan"}
    Conditional = {"last"}
    Fan = {"fan"}
    Items <- FannedItems
    MaxParallel <- FannedParallel
    MaxRetries <- FannedRetries
    MaxWalks = 2
INVARIANTS PipelineInv JournalOrder CompletedOnce RunReports
PROPERTIES CancelStops WalkEnds
