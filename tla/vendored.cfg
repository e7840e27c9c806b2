CONSTANTS
    Callbacks = {c, d, e}
    Depth = 3
    Word = 512
    Unit = 4
    Suffixes = 4
    ElementSizes = {1, 3, 8}
    Apps = {"root", "g", "s", "t"}
    Root = "root"
    Options = {"help", "f", "v", "p"}
    Grammars <- MCGrammars
    MaxArgs = 4
    Unlimited = 9
    Validators <- MCValidators
    Expectations <- MCExpectations
    Numbers = {1, 2}
    Refused = {2}
    Policies = {"TakeAll", "TakeLast", "Reverse", "TakeFirst", "Join", "Sum", "Throw"}
    MaxConfigured = 2
    MaxResults = 3
    Anchors <- MCAnchors
    Shifts <- MCShifts
    UnsignedWord = 67108864
    WalkLength = 40
    MaxMoves = 2
    Units = {7, 10}
    Objects <- MCObjects
    Formats <- MCFormats
    Texts <- MCTexts
    Ranges <- MCRanges
    Oddities <- MCOddities
    MaxReads = 2
SPECIFICATION MCSpec
INVARIANTS
    TypesOK
    HelpersTrue
    ArgumentsKept
    ParsedIsTrue
    ResultsTrue
    CalendarTrue
    TextTrue
    VersionsTrue
PROPERTY
    ParseAnswers
CHECK_DEADLOCK FALSE
