SPECIFICATION PumpAloneSpec
CONSTANTS
    VfsThread = {"a", "b"}
    Mounter = {"a", "b"}
    Operator = {"a"}
    Opener = {"b"}
    FileOp = {"delete", "move"}
    Volume = {"v1", "v2"}
    BootVolume = "v1"
    VfsPath <- MCPaths
    MountPoint <- MCMountPoints
    TreeOf <- MCTreeOf
    MaxFiles = 2
    MaxMounts = 2
    Proc = {"p", "q"}
    FirstProc = "p"
    MaxRaw = 4
    Active = {"p"}
    Streams = 1
    MaxToken = 1
    LastCluster = 7
    SlotsPerCluster = 4
    FileName = {"A", "B"}
    MaxFileOps = 2
    numFATs = 2
    Ordinal = {1}
    DiskImage <- MCDisks
    kSectorSize = 4
    Word = 64
    LbaWord = 12
    kMaxVolumes = 2
    EntryBuffer = 256
    VolumeId = {7, 8}
    Offset = {0, 4, 9, 60}
    ClusterSize = 2
    LastReadCluster = 6
    Directory <- MCDirectory
    BootPath <- MCBootPaths
    OpenFile <- MCOpenFile
    InitialFat <- MCInitialFat
    Rewire <- MCRewire
    MaxGeneration = 2
    FailAt <- MCFailAt
    ReadOffset = {0, 1, 3, 4}
    ReadLength = {1, 4}
    MaxWalk = 4
    AtaThread = {1, 2}
    Drive = {"master"}
    Atapi = {}
    Sectors = 3
    MaxBatch = 2
    Extent <- MCExtents
    HasControl = TRUE
    Jobs = 2
    StreamId = {1, 2, 3}
    HandleHolder = {"h", "g"}
    Keyboard = {"kbd"}
    Pointer = {"mouse"}
    Gamepad = {"pad"}
    Producer = {"p1"}
    Reader = {"r1", "r2"}
    Buffer <- MCBuffer
    kCapacity = 2
    kMaxInputDevices = 2
    kMaxGamepads = 1
    Span = 2
    Flags <- MCFlags
    Typed <- MCTyped
    Output <- MCOutput
    TtyReader = {"r1", "r2"}
    kDefaultBufferSize = 3
    kMaxEditBufferSize = 2
    TxSize = 1
    MaxLine = 1
    MouseKinds = {0, 4}
    Broken = {"none", "controller", "keyboard", "mouse"}
    Rates = {0, 40}
    MaxInput = 2
    MaxConfigures = 1
    Keys = {4, 57, 72, 225, 228}
    Strays <- MCStrays
    MaxHeld = 2
    MaxStrokes = 5
    kKeySlots = 2
    kMaxPressed = 16
    kMaxFields = 48
    kMaxLocalUsages = 32
    MaxLost = 1
    Motions <- MCMotions
    PacketModes = {"Standard", "IntelliMouse", "Explorer"}
    Sticks <- MCSticks
    SampleTicks = 1300
    kSeedAxisMax = 1000
    SerialBits = 3
    VendorBits = 2
    Serial <- MCSerial
    Decks <- MCDecks
    LastCsn = 3
    MaxChildren = 3
    AtaChannel <- MCAtaChannel
    Radix = 4
    Channels = {1, 5}
    Buffers <- MCBuffers
    Capacity = 2
    DrainLimit = 2
INVARIANTS
    NoStrandedByte
CHECK_DEADLOCK FALSE
