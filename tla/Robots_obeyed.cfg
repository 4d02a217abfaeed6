\* Hosts of up to four labels, texts of up to three lines of which two are received.
CONSTANTS
    Hosts <- SomeHosts
    Responses <- SomeResponses
    Routes <- SomeRoutes
    MaxBodySize = 2
SPECIFICATION RobotsSpec
\* The climb ends.
CHECK_DEADLOCK FALSE
INVARIANT
    ObeysRobots
