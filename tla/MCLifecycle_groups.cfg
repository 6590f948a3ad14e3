SPECIFICATION FairSpec
CONSTANTS
    Client = 0
    Ranks = {1, 2, 3}
    Groups <- Overlapping
    MaxActors = 2
    MaxCalls = 1
    Kinds = {"plain", "spmd", "ask"}
    Overtaking = {3}
INVARIANTS
    TypeOK
    ActorIsThere
    OneWorkerPerProcess
    StopFindsLeavingSlave
    CallsAreDrained
    DestroyedEverywhere
    ResponsesMatch
PROPERTIES
    OperationsReturn
    ProgramEnds
CHECK_DEADLOCK FALSE
