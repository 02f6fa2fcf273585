CONSTANTS
    c1 = c1
    c2 = c2
    t1 = t1
    t2 = t2
    ty0 = ty0
    ty1 = ty1
    Consumers <- TwoConsumers
    Manager = Manager
    Producer = Producer
    Cleaner = Cleaner
    Nobody = Nobody
    Tasks <- JustOneTask
    NoTask = NoTask
    Delay = Delay
    Lines <- OneTask
    Types <- OneType
    TypeOf <- ItsType
    TimeOf <- Three
    OddsOfIO <- NoneIO
    QUANTUM = 2
    TIME_SLICE = 2
    Spurious <- NoConsumer
    StartupSettles = TRUE
SPECIFICATION FairSpec
PROPERTIES
    Termination
    StalledPoolRecovers
