\* The process may crash between two statements and be started again.
CONSTANTS
    Pages = {"home", "news"}
    Hosts = {"h1", "h2"}
    Host <- MCHost
    Seeds = {"home"}
    Web <- PlainWeb
    Disallowed = {}
    Workers = {"w1"}
    Route <- OneRoute
    Quota = 9
    MaxQuotas = {9}
    MaxDepth = 2
    BatchSize = 2
    MaxTasks = 1
    Faults = {"crash"}
SPECIFICATION Spec
INVARIANTS
    AnalysesAreIdempotent
