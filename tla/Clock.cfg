SPECIFICATION Spec
CONSTANTS
    MicrosecondsPerSecond = 2
    SecondsPerMinute = 2
    MinutesPerHour = 2
    TimeMin <- MCTimeMin
    TimeMax <- MCTimeMax
    SkyPeriod = 4
    Ten = 3
    Hundred = 4
    DateGrains = 256
    SlackParts = 48
    InternetTicks = 10
    HexTicks = 64
    Ke = 20
    GhatiPerDay = 8
    VighatiPerGhati = 4
    UshPerBeru = 4
    NurembergShift = 6
    NoEnd = NoEnd
    NotAvailable = NotAvailable
    Refused = Refused
    Skies <- MCSkies
    Windows <- MCWindows
    Offsets <- MCOffsets
    Starts <- MCStarts
    Consumers = {c1, c2}
    FileOrder <- MCFileOrder
    Images <- MCImages
    Wanted <- MCWanted
    NoImage = NoImage
    NoFile = NoFile
    Nothing = Nothing
    MaxLost = 1
    MaxChanges = 1
CHECK_DEADLOCK FALSE
INVARIANTS
    ShownIsOfItsMode
    HandlesAreBalanced
PROPERTIES
    DialMatchesDuration
    CoarseIsTruncated
    ClocksRunForward
    YearsAreWhole
