SPECIFICATION MessagesSpec
CONSTANTS
    NetUnits = {"channel", "tcp", "e1000", "reassembly", "udp", "arp", "routes"}
    Tasks = {a, b, c}
    Sizes = {2}
    Buffers = {1, 2}
    Capacity = 2
    None = None
    ClientPorts = {1}
    ServerPort = 9
    SeqWidth = 3
    FirstSequences = {5}
    TcpSlots = 2
    TcpQueue = 1
    MaxRetries = 1
    MaxSegments = 2
    Windows <- EqualWindows
    Budget <- ClientTwo
    UnbindStates = {"SYN_SENT"}
    RingCount = 3
    QueueCapacity = 1
    ServiceBudget = 2
    MaxReceived = 2
    MaxSent = 4
    MaxNicFaults = 1
    Datagrams = {1, 2, 3}
    Extent = 3
    ReassemblySlots = 2
    Timeout = 1
    MaxTime = 2
    LocalAddresses = {"a", "b"}
    UdpPorts = {7, 8}
    UdpSlots = 3
    UdpQueue = 1
    ArpAddresses = {11, 12, 13, 14}
    Hardware = {21, 22}
    Unusable = {14}
    ArpSlots = 2
    ArpMaxAge = 2
    ArpTime = 3
    AddressBits = 1
    RouteSlots = 3
    Interfaces = {1, 2}
    Metrics = {1, 2}
INVARIANT WakeupsDue
INVARIANT StreamsSound
INVARIANT NicSound
 
INVARIANT SocketsSeparate
INVARIANT TablesSound
INVARIANT RouteIsBest
PROPERTY SentInOrder
PROPERTY ImplementsFifo
PROPERTY CloseWakesEverybody
CHECK_DEADLOCK FALSE
