\* Everything may fail: two workers, five pages, a web that changes.
CONSTANTS
    Pages = {"home", "news", "far", "deep", "edge"}
    Hosts = {"h1", "h2"}
    Host <- MCHost
    Seeds = {"home"}
    Web <- ChangingWeb
    Disallowed = {}
    Workers = {"w1", "w2"}
    Route <- MCRoute
    Quota = 2
    MaxQuotas = {1, 2}
    MaxDepth = 2
    BatchSize = 2
    MaxTasks = 2
    Faults = {"crash", "worker", "statement"}
SPECIFICATION Spec
INVARIANTS
    TypeOK
    RowsAreNamed
    WorkIsTaken
    HeldOnce
    ClosedIsExplored
    DepthIsReal
    SentBounded
    ClosedBounded
PROPERTIES
    NothingLost
    IsSearch
