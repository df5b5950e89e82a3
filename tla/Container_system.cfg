\* One container.
CONSTANTS
    Id = {0, 33, 500, 1000}
    RootId = 0
    ImageId = 1000
    Taken = {33}
    Skel = "skel"
    Prepared = {"installs", "version"}
    Link = {"version"}
    Work = "work"
    Environ <- MCEnviron
    HttpRequest <- MCHttpRequest
    Trim <- MCTrim
    Blank = Blank
    Unset = Unset
    Opaque = Opaque
    NotANumber = NotANumber
    Resolution = 4
    MaxDuration = 1000
    DefaultTtl = 2
    DefaultKeepalive = 1
    secret = secret
    padded = padded
    blanks = blanks
    other = other
    mcpHost = mcpHost
    EnvCall = {e1, e2, e3, e4}
    e1 = e1
    e2 = e2
    e3 = e3
    e4 = e4
    MountTable <- MCMountTable
    SystemPath = {"/", "/proc"}
    Unprobed = Unprobed
SPECIFICATION ContainerSpec
CHECK_DEADLOCK FALSE
INVARIANTS
    SystemTreeStaysRoots
