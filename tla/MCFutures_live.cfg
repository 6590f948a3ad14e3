SPECIFICATION FairSpec
CONSTANTS
    Client = client
    Actors = {a1, a2}
    MaxCalls = 2
    Kinds = {"value", "get", "consume", "unknown"}
    Operations = {"get", "release"}
    None = None
PROPERTIES
    ImplementsActiveObjects
    CallersReturn
    ReleasedAreCollected
CHECK_DEADLOCK FALSE
