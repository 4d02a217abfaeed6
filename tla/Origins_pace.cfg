\* Four tasks of two sites, two at a time.
CONSTANTS
    Tasks = {"t1", "t2", "t3", "t4"}
    Sites = {"a", "b"}
    Site <- TwoSites
    Robots <- SomeRobots
    DefaultDelay = 2
    NoOne = "none"
    MaxTasks = 2
    Horizon = 2
SPECIFICATION FairSpec
\* The tasks are finitely many, and a load may never end.
CHECK_DEADLOCK FALSE
INVARIANTS
    TypeOK
    Paced
    EachIsLimited
    FewValues
PROPERTIES
    EveryTurnComes
