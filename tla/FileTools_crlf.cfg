\* One edit of a text of dots and breaks.
CONSTANTS
    dot = dot
    dots = dots
    nbsp = nbsp
    x = x
    Space = Space
    Tab = Tab
    CR = CR
    LF = LF
    Bom = Bom
    Char <- MCChar
    AsciiOf <- MCAscii
    Nfkc <- MCNfkc
    EditInput <- CrlfEditInput
    MaxLines = 3
    MaxBytes = 5
    NoLimit = NoLimit
    Output <- MCOutput
    ReadInput <- MCReadInput
    Swapped <- MCSwapped
    ws = ws
    out = out
    a = a
    l = l
    m = m
    f = f
    absent = absent
    c1 = c1
    c2 = c2
    PathCall = {c1, c2}
    Root <- MCRoot
    Tree <- MCTree
    Request <- MCRequest
    Up = Up
    Here = Here
    Name <- MCName
    Hop <- MCHop
    Nowhere = Nowhere
SPECIFICATION EditOnlySpec
CHECK_DEADLOCK FALSE
INVARIANTS
    CrlfPreserved
