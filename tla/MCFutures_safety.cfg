SPECIFICATION Spec
CONSTANTS
    Client = client
    Actors = {a1, a2}
    MaxCalls = 3
    Kinds = {"value", "consume"}
    Operations = {"get", "release"}
    None = None
SYMMETRY ActorSymmetry
INVARIANTS
    TypeOK
    ExactlyOneAnswerOwed
    AnswersMatch
    PipelineOrder
    ListedWillBeServed
    NoWaitCycle
PROPERTIES
    ResultServesListed
CHECK_DEADLOCK FALSE
