SPECIFICATION Spec
CONSTANTS
    Client = 0
    Ranks = {1, 2}
    Groups <- SameTwice
    MaxActors = 2
    MaxCalls = 1
    Kinds = {"plain"}
    Overtaking = {1, 2}
INVARIANTS
    ActorIsThere
