SPECIFICATION CoreSpec
CONSTANTS
    i0 = i0  b0 = b0  w1 = w1  w2 = w2  w3 = w3
    CPU = {0}
    Thread = {i0, b0, w1, w2}
    Idle <- MCIdle
    Boot <- MCBoot
    Priority <- MCPriority
    Quantum = 2
    Node = {i0, b0, w1, w2, w3}
    Null = Null
    Queue = {0, 1}
    Startable = {0}
    IdleNode <- MCIdle
    BootNode <- MCBoot
    NodePriority <- MCNodePriority
    kCapacity = 4
    Value = {1, 2}
    Irq = {1, 2}
    Isr = {h1, h2}
    Bound = 2
    kMaxHandlersPerInterrupt = 2
INVARIANTS
    Placement
    LoadsSavedContext
    RecordsKept
    ListSound
PROPERTIES
    TerminatedForever
    TopPriorityRuns
    ImplementsQueue
    ImplementsFifo
    RecordsDispatched
