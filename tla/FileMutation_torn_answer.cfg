\* One write; no request is cancelled.
CONSTANTS
    w = w
    left = left
    right = right
    f = f
    g = g
    Write = {w}
    Edit = {}
    File = {f}
    Content <- MCContent
    Absent = Absent
    Torn = Torn
    Cut = Cut
    NoEdit = NoEdit
    Target <- OneFile
    Text <- MCText
    Edited <- MCEdited
    Initial <- AllOld
    Cancellable = {}
SPECIFICATION Spec
PROPERTIES
    WholeAnswer
