\* Two edits of one file; the request of the first may be cancelled.
CONSTANTS
    w = w
    left = left
    right = right
    f = f
    g = g
    Write = {}
    Edit = {left, right}
    File = {f}
    Content <- MCContent
    Absent = Absent
    Torn = Torn
    Cut = Cut
    NoEdit = NoEdit
    Target <- OneFile
    Text <- MCText
    Edited <- MCEdited
    Initial <- AllOld
    Cancellable = {left}
SPECIFICATION Spec
PROPERTIES
    NoLateOverwrite
