\* Three commands, two waves, three pages, a batch of two ranks.
CONSTANTS
    a = a
    b = b
    x = x
    w1 = w1
    w2 = w2
    Pages = {a, b, x}
    Names = {w1, w2}
    Links <- SomeLinks
    Ahref <- SomeAhref
    Seeds <- SomeSeeds
    Processes = {1, 2, 3}
    Scenarios <- SomeScenarios
    BatchSize = 2
    Stride = 2
    Iterations = 2
    NoWave = NoWave
    NoPage = NoPage
SPECIFICATION FairSpec
\* Commands end.
CHECK_DEADLOCK FALSE
INVARIANTS
    TypeOK
    NamesOutliveRemovals
    RanksAreWhole
PROPERTY
    RunsEnd
