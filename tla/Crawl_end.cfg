\* Nothing fails: the master looks for open pages and then for taken ones.
CONSTANTS
    Pages = {"home", "news", "far", "deep", "edge"}
    Hosts = {"h1", "h2"}
    Host <- MCHost
    Seeds = {"home"}
    Web <- KindWeb
    Disallowed = {}
    Workers = {"w1"}
    Route <- OneRoute
    Quota = 9
    MaxQuotas = {9}
    MaxDepth = 2
    BatchSize = 2
    MaxTasks = 1
    Faults = {}
SPECIFICATION Spec
INVARIANTS
    DoneIsDone
