SPECIFICATION WaitingSpec
CONSTANTS
    i0 = i0  b0 = b0  w1 = w1  auto = auto  manual = manual
    CPU = {0}
    Thread = {i0, b0, w1}
    Idle <- MCIdle
    Boot <- MCBoot
    Priority <- MCPriority
    Quantum = 1
    Header = {auto, manual}
    manualReset <- MCManualReset
    MaxTimeout = 1
    Source = {1, 2}
    Caller = {c1, c2}
    kEventQueueCapacity = 1
    kMaxFanOut = 2
    MaxToken = 2
    PnpDevice <- MCDevices
    PnpDriver <- MCDrivers
    HwId <- MCHwId
    ClassOf <- MCClassOf
    Requirements <- MCRequirements
    Children <- MCChildren
    Volumes <- MCVolumes
    Interests <- MCInterests
    Script <- MCScript
INVARIANTS
    WaitSafe
    BroadcastSafe
    PnpSafe
PROPERTIES
    ImplementsEvent
    ReleasedWaitReturns
    
    BootFinishes
CHECK_DEADLOCK FALSE
