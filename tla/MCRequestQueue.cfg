SPECIFICATION FairSpec
CONSTANTS
    Posters = {p1, p2}
    Worker = worker
    MaxPosts = 3
    Free = Free
INVARIANTS
    PopsNonEmpty
    NoLostWakeup
    ToldIsThere
PROPERTIES
    ImplementsFifo
    RequestsTaken
