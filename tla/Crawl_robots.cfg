\* Nothing fails; one page is disallowed by the robots.txt of its origin.
CONSTANTS
    Pages = {"home", "news"}
    Hosts = {"h1", "h2"}
    Host <- MCHost
    Seeds = {"home"}
    Web <- PlainWeb
    Disallowed = {"news"}
    Workers = {"w1"}
    Route <- OneRoute
    Quota = 9
    MaxQuotas = {9}
    MaxDepth = 2
    BatchSize = 2
    MaxTasks = 1
    Faults = {}
SPECIFICATION FairSpec
PROPERTIES
    RunEnds
