CONSTANTS
    c1 = c1
    c2 = c2
    t1 = t1
    t2 = t2
    ty0 = ty0
    ty1 = ty1
    Consumers <- TwoConsumers
    Manager = Manager
    Producer = Producer
    Cleaner = Cleaner
    Nobody = Nobody
    Tasks <- TwoTasks
    NoTask = NoTask
    Delay = Delay
    Lines <- NoDelay
    Types <- TwoTypes
    TypeOf <- EachItsType
    TimeOf <- MediumAndNone
    OddsOfIO <- NoIO
    QUANTUM = 2
    TIME_SLICE = 2
    Spurious <- NoConsumer
    StartupSettles = FALSE
SYMMETRY ConsumerSymmetry
SPECIFICATION Spec
PROPERTIES
    PoolSpec
