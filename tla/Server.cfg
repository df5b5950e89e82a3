\* One container, one server's configuration, or four requests for the
\* environment; or two sessions of the legacy transport and one POST at a time.
CONSTANTS
    Id = {0, 33, 500, 1000}
    RootId = 0
    ImageId = 1000
    Taken = {33}
    Skel = "skel"
    Prepared = {"installs", "version"}
    Link = {"version"}
    Work = "work"
    Environ <- MCEnviron
    HttpRequest <- MCHttpRequest
    Trim <- MCTrim
    Blank = Blank
    Unset = Unset
    Opaque = Opaque
    NotANumber = NotANumber
    Resolution = 4
    MaxDuration = 1000
    DefaultTtl = 2
    DefaultKeepalive = 1
    secret = secret
    padded = padded
    blanks = blanks
    other = other
    mcpHost = mcpHost
    EnvCall = {e1, e2, e3, e4}
    e1 = e1
    e2 = e2
    e3 = e3
    e4 = e4
    MountTable <- MCMountTable
    SystemPath = {"/", "/proc"}
    Unprobed = Unprobed
    s1 = s1
    s2 = s2
    p1 = p1
    Session = {s1, s2}
    Post = {p1}
    Capacity = 1
    Nobody = Nobody
SPECIFICATION ServerSpec
CHECK_DEADLOCK FALSE
INVARIANTS
    TypeOK
    RunsAsOwner
    
    
    EnvironmentAgrees
    SseTypeOK
    OpenIsLive
    LiveIsOpen
    EndedIsCancelled
PROPERTIES
    DeadAreSwept
    PostsAnswered
    ShutdownReaches
