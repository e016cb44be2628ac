SPECIFICATION ConfigSpec
CONSTANTS
    KernelBase = 40
    HalLinkBase = 10
    VirtualLimit = 54
    LinkPage = 2
    StackWords = 2
    BootInfoSize = 1
    Wrap = 64
    MaxExports = 5
    KernelFiles <- MCKernelFiles
    HalFiles <- MCHalFiles
    PhysicalBase = 20
    HighPages = 8
    MaxSymbols = 3
    NamePool = 8
    NameSize <- MCNameSize
    RegionSlots = 2
    ModuleLists <- MCModuleLists
    FirmwareMaps <- MCFirmwareMaps
    Page = 2
    LowLimit = 2
    ManagedLimit = 32
    Preferred = 4
    RawWrap = 64
    RawMaps <- MCRawMaps
    MaxRegions = 4
    PayloadPages = 2
    TableEntries = 8
    IdentityTables = 1
    BootPages = 9
    KernelPage = 39
    Stops = {0, 1, 2, 3, 4, 5, 6, 7, 8, 9, 10, 11, 12, 13}
    MaxCommands = 2
    Geometry <- MCGeometry
    Request <- MCRequest
    kMaxSectorsPerCall = 4
    MaxLba = 1994
    Line = {14}
    MaxFrames = 4
    MaxCalls = 2
    Driver = {"d1", "d2", "d3"}
    IrqLine = {1, 12}
    BadLine = 16
    MaxHandlers = 2
    CmThread = {1}
    KeyName = {"A", "B"}
    MaxDepth = 3
    SlotsPerBlock = 2
    NamesPerBlock = 1
    HiveCells = 12
    ValueCells <- MCValueCells
    MaxRefs = 4
    MaxCmOps = 9
    WriteFault = {0}
    Kinds = {"direct", "cpu_safe", "diag", "console", "refresh"}
    FirstImages <- MCFirstImages
    MaxBuild = 2
    MaxLoss = 1
    MaxCandidates = 1
    UserSpace = {"a", "b"}
    kernelSpace = "k"
    FrameCount = 5
    DmaFrames = 1
    TableSpan = 2
    UserTables = 1
    KernelTables = 2
    UserBase = 1
    MAX_ADDRESS_SPACES = 3
    HeapThread = {"a", "b"}
    MaxSlabs = 2
    page_size = 128
    sizeofSlab = 40
    sizeofStorage = 12
    ObjectSize = {12, 17, 28, 60}
    Alignment = {1, 4}
    AvlKey = {1, 2, 3, 4, 5, 6, 7}
    ListItem = {1, 2, 3, 4}
    MapKey = {1, 2, 3, 4, 5}
    MapId = {"a", "b"}
    Image <- MCImage
    BootModule <- MCBootModules
    DriverModule = {"drv"}
    Program = {"prog"}
    kMaxDependencyDepth = 2
    MaxLoads = 2
    Worlds <- MCWorlds
    MAX_OBJECTS = 3
    MAX_IMAGE = 12
    SlotBase = 20
    SlotSize = 4
    LoaderPages = {1, 2}
    UserMax = 40
    ObjectId = {1, 2, 3}
    Holder = {"h", "g"}
    BaseName = {"a"}
    MaxNumber = 1
    Window = {w1}
    kQueueSize = 3
    kPaintFairnessBacklog = 2
    MaxSeparate = 4
    Cell = {1, 2}
    Color = {"a", "b"}
    Surface = {"s1", "s2"}
INVARIANTS
    KeysBelongToTheirParent
CHECK_DEADLOCK FALSE
