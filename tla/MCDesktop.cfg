SPECIFICATION DesktopSpec
CONSTANTS
    UserProcess = {p1, p2}
    kMaxWindows = 3
    MaxCreated = 3
    MenuProcess = {"p"}
    MenuWindow = {"w1", "w2"}
    WindowOwner <- MCOwner
    WindowParent <- MCParent
    kMaxMenus = 3
    kMaxMenuItems = 2
    MaxEntries = 2
    GdiThread = {"t", "u"}
    MaxIndex = 0
    GenerationSpan = 3
    MaxRawHandle = 1
    MaxGdiObjects = 3
    Uploader = {"p", "q"}
    ResourceSlots = 1
    RegistrySlots = 1
    LastGeneration = 3
    UploadSize = {1, 2}
    MaxProcessBytes = 2
    MaxRegisteredBytes = 3
    MaxFaces = 2
    MaxPublished = 2
    Target = {1, 2}
    Adapter = {"a"}
    AdapterOf <- MCAdapterOf
    Mode = {1, 2}
    HotPlugged = {1}
    Client = {"c"}
    MaxGeneration = 5
    Width = 4
    Height = 3
    kWindowSize = 4
    kBankGranularity = 2
    ByteBits = 2
    TinyPixels = 1
    Clips <- MCClips
    FillArgs <- MCFillArgs
    Points <- MCPoints
    BlitArgs <- MCBlitArgs
    MaxDraws = 2
    TextThread = {"t", "u"}
    Basic = {"a", "b"}
    Replacement = "r"
    Control = "c"
    Faces <- MCFaces
    FontCell <- MCCell
    Texts <- MCTexts
    Layouts = {"proportional", "grid"}
    MaxHandle = 2
    MaxTextCalls = 6
    Timings <- MCTimings
    Chips = {"Gd5430", "Gd5434"}
    Targets = {238, 239, 382, 641, 715, 800, 1200, 1349}
    ClockUnit = 100000
    PpmScale = 10000
    MaxErrorParts = 50
    Unit = 64
    IntMax = 4095
    MaxWork = 200
    FractionScale = 8
    NormalizeLimit = 255
    OutlineFaces <- MCOutlineFaces
    OutlinePpem = 3
    OutlineUnits = 16
    MaxComponentDepth = 2
    MaxCurveSegments = 2
    MaxBitmapSide = 12
    MaxMaskBytes = 18
    CoordinateLimit = 2000
    MaxRealizationBytes = 1500
    MaxRequests = 2
    Path = {"p", "q"}
    CirrusMode = {1, 2}
    MaxStep = 4
    HintFaces <- MCHintFaces
    HintOutline <- MCHintOutline
    SourceCvt <- MCSourceCvt
    StackSize = 6
    StorageSize = 2
    FunctionCount = 3
    DefinitionCount = 1
    TwilightPoints = 1
    MaxNesting = 2
    MaxCalls = 2
    Ppem = 11
    UnitsPerEm = 16
    Opcode <- MCOpcode
INVARIANTS
    WindowsSound
    HandlesSound
    DisplaySound
    
    GlyphsExact
PROPERTIES
    ChangesOrdered
SYMMETRY MCSymmetry
VIEW InFocus
CHECK_DEADLOCK FALSE
