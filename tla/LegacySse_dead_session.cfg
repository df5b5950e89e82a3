\* A POST to a session whose stream is gone.
CONSTANTS
    s1 = s1
    s2 = s2
    p1 = p1
    p2 = p2
    Session = {s1}
    Post = {p1}
    Capacity = 1
    Nobody = Nobody
SPECIFICATION SseSpec
CHECK_DEADLOCK FALSE
INVARIANTS
    DeadRefused
