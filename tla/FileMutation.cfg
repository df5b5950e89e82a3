\* A write and an edit of one file, both of which may be cancelled, beside an
\* edit of another file, which is missing.
CONSTANTS
    w = w
    left = left
    right = right
    f = f
    g = g
    Write = {w}
    Edit = {left, right}
    File = {f, g}
    Content <- MCContent
    Absent = Absent
    Torn = Torn
    Cut = Cut
    NoEdit = NoEdit
    Target <- TwoFiles
    Text <- MCText
    Edited <- MCEdited
    Initial <- OneMissing
    Cancellable = {w, left}
SPECIFICATION Spec
INVARIANTS
    TypeOK
    MutualExclusion
    NoTornTarget
    QueueSound
PROPERTIES
    Answered
    NoLostUpdate
    AtomicSpec
