CONSTANTS
    Servers = {"first", "second"}
    Requests = {r1, r2, r3}
    NoOne = NoOne
    Ips = {"a", "b", "c"}
    MaxPerMinute = 2
    MaxTracked = 2
    Window = 2
    CompactionInterval = 1
    Ttl = 2
    Scenarios <- Posts
SPECIFICATION Spec
SYMMETRY Interchangeable
INVARIANT SameOriginOnly
CHECK_DEADLOCK FALSE
