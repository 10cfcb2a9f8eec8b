SPECIFICATION LiveSpec
CONSTANTS
    None = None
    Samples = 1
    Caller = {"c1", "c2"}
    OpenTicks = 2
    StoreTicks = 3
    Worker = {"w1", "w2"}
    Clock <- OneAhead
    Qps = 1
    Burst = 3
    Quota = 3
    RecoverAfter = 2
    MaxTime = 3
    MaxCalls = 6
    MaxRegained = 1
    Puller = {"p1", "p2"}
    Orders = 2
    Overlap = 1
    Late = 1
    MaxPages = 1
    LastTick = 2
    LastChange = 1
    Beat = {"b1", "b2", "b3"}
    Ttl = 3
    Receiver = {"r1", "r2", "r3"}
    Retries = 2
    MaxCopies = 2
    Request = {"q1", "q2", "q3"}
    MaxPair = 3
    Items = 4
    MaxLost = 2
    Picker = {"w1", "w2"}
    Places <- OneInEach
    Ordered = 2
    Targets = {"PAID", "SHIPPED", "CANCELLED"}
    Passes = 3
    MaxLine = 2
    MaxStock = 2
    MaxOther = 3
    Syncer = {"s1", "s2"}
    Clerk = {"c1", "c2"}
    Message = {"m1", "m2"}
    Ticket = {"t1"}
    MaxEdits = 2
    MaxNotes = 2
    MaxPulled = 1
    Mover = {"r1", "r2"}
    Mirror = {"u1"}
    Address = {"a1", "a2"}
    MaxStamp = 3
    Manager = {"r1", "r2"}
    Person = {"p0", "p1"}
    Owner = "p0"
    Invitee = {"p1"}
    MaxInvites = 2
    SignIn = {"l1", "l2"}
    Visitor = {"r1"}
    Process = {"w1", "w2"}
    WrongAllowed = 2
    LockTime = 1
    GivenRoles = {"CS"}
    Life <- ShortLives
    Pairs = 2
    LastMoment = 2
    MaxWrong = 4
    Shipper = {"c1", "c2"}
    Parcel = {"o1", "o2"}
    Batches <- SomeBatches
    MaxBatches = 3
    MaxFailures = 1
    Filer = {"r1", "r2"}
    TaxDay = {0, 1, 2}
    TaxNumber = {"n1", "n2"}
    FilingKey = {"k1"}
    MaxVersions = 2
PROPERTIES
    ProbesDecide
    ExportsEnd
    OversellingEnds
    MessagesArrive
    LostTokensNoticed
CHECK_DEADLOCK FALSE
