\* Directives: two directories, up to four modules, two pages and two parameters.
CONSTANTS
    Disks <- SomeDisks
    Unparsable <- Garbage
    Entry <- TheEntry
    Roots <- SomeRoots
    MaxStack = 6
    Pages = {"p", "q"}
    Keys = {"k", "t"}
    Raw <- SomeRaw
    NoQuery = NoQuery
    MatchedBy <- SomeMatches
    DepthRange = 4
    MaxVisits = 3
\* Robots: hosts of up to four labels, texts of up to three lines of which two are received.
    Hosts <- SomeHosts
    Responses <- SomeResponses
    Routes <- SomeRoutes
    MaxBodySize = 2
SPECIFICATION BoundariesSpec
\* The crawl of these pages ends, and so does a load that fails, or a climb.
CHECK_DEADLOCK FALSE
INVARIANTS
    TypeOK
    LoadIsRight
    AcceptedIsSound
    QueueIsWithin
    RequestsAreFew
    ExclusionMeansIt
PROPERTIES
    LoadEnds
    ClimbEnds
