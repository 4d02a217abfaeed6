\* Nothing fails: a run on a kind web, three seeds for one worker.
CONSTANTS
    Pages = {"home", "news", "far", "deep", "edge"}
    Hosts = {"h1", "h2"}
    Host <- MCHost
    Seeds = {"home", "news", "far"}
    Web <- KindWeb
    Disallowed = {}
    Workers = {"w1"}
    Route <- OneRoute
    Quota = 9
    MaxQuotas = {2, 9}
    MaxDepth = 1
    BatchSize = 3
    MaxTasks = 1
    Faults = {}
SPECIFICATION FairSpec
INVARIANTS
    TakenIsHeld
    TerminateCutsNothing
PROPERTIES
    RunEnds
