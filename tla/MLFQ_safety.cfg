CONSTANTS
    c1 = c1
    c2 = c2
    t1 = t1
    t2 = t2
    ty0 = ty0
    ty1 = ty1
    Consumers <- TwoConsumers
    Manager = Manager
    Producer = Producer
    Cleaner = Cleaner
    Nobody = Nobody
    Tasks <- TwoTasks
    NoTask = NoTask
    Delay = Delay
    Lines <- WithDelay
    Types <- OneType
    TypeOf <- AllOneType
    TimeOf <- LongAndShort
    OddsOfIO <- OnlyLongDoesIO
    QUANTUM = 2
    TIME_SLICE = 2
    Spurious <- TwoConsumers
    StartupSettles = TRUE
SYMMETRY ConsumerSymmetry
SPECIFICATION StatsSpec
INVARIANTS
    TypeOK
    Ownership
    WorkingExact
    LevelEarned
    QueuedRunnable
    LostOnlyInRace
PROPERTIES
    DoneOnlyInWindow
