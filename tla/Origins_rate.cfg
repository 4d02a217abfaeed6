\* Two tasks of one site.
CONSTANTS
    Tasks = {"t1", "t2"}
    Sites = {"a"}
    Site <- OneSite
    Robots <- NoRobots
    DefaultDelay = 2
    NoOne = "none"
    MaxTasks = 2
    Horizon = 3
SPECIFICATION Spec
CHECK_DEADLOCK FALSE
INVARIANTS
    LimitedPerOrigin
