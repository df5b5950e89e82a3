\* One edit, one read, one output or two resolved paths; or a call of bash with
\* a timeout, two descendants, two chunks on each stream.
CONSTANTS
    dot = dot
    dots = dots
    nbsp = nbsp
    x = x
    Space = Space
    Tab = Tab
    CR = CR
    LF = LF
    Bom = Bom
    Char <- MCChar
    AsciiOf <- MCAscii
    Nfkc <- MCNfkc
    EditInput <- MCEditInput
    MaxLines = 3
    MaxBytes = 5
    NoLimit = NoLimit
    Output <- MCOutput
    ReadInput <- MCReadInput
    Swapped <- MCSwapped
    ws = ws
    out = out
    a = a
    l = l
    m = m
    f = f
    absent = absent
    c1 = c1
    c2 = c2
    PathCall = {c1, c2}
    Root <- MCRoot
    Tree <- MCTree
    Request <- MCRequest
    Up = Up
    Here = Here
    Name <- MCName
    Hop <- MCHop
    Nowhere = Nowhere
    job = job
    daemon = daemon
    Proc = {job, daemon}
    Limited = TRUE
    MaxChunk = 2
SPECIFICATION ToolsSpec
CHECK_DEADLOCK FALSE
INVARIANTS
    TypeOK
    Spliced
    OverlapIsRefused
    NormalizersAgree
    RangeIsOldText
    OldTextIsUnique
    EndingsKept
    PagesInOrder
    PageIsHead
    TailIsLongest
    BashTypeOK
    TimeoutKillsTree
    EarlyCancelKillsTree
    NoStrayKill
    OutputIsPrefix
    OutputIsWhole
PROPERTIES
    PagingEnds
    LandsWhereResolved
    ShellAgrees
    Answered
    ReadersEnd
