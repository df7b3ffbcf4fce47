SPECIFICATION Spec
CONSTANTS
    Words <- MCWords
    Digits <- MCDigits
    Millis <- MCMillis
    MaxInt = 31
    OriginalText <- Original
    Names <- MCNames
    TargetDir <- MCTarget
    RelPaths <- MCRelPaths
    Deploys <- MCDeploys
    ServerFiles <- MCServerFiles
    Oldest = 2
    Length = 3
    ChunkSize = 2
    MaxAttempts = 2
    SqlWords <- MCSqlWords
    SqlDigits <- MCDigits
    LowerCase <- MCLowerCase
    DisallowedFiles <- MCDisallowed
    Infix <- MCInfix
    Endings <- MCEndings
    TopDirectories <- MCTop
    Keywords <- MCKeywords
CHECK_DEADLOCK FALSE
INVARIANTS
    LexerKeepsTheText
    LayoutMakesBlocks
    TextsSurvive
    SidesAgree
    ConfiguredPathsStayInside
    NothingNamedIsLost
    AllowlistIsNarrow
    RoutingIsSafe
    Contained
    FilesFindTheirPlace
    DirectoryMirrorsSource
    PartsMakeTheFile
PROPERTIES
    OnlyLeftoversGo
