CONSTANTS
    Servers = {"first", "second"}
    Requests = {r1, r2, r3}
    NoOne = NoOne
    Ips = {"a", "b", "c"}
    MaxPerMinute = 2
    MaxTracked = 2
    Window = 2
    CompactionInterval = 1
    Ttl = 2
    Scenarios <- MCScenarios
SPECIFICATION Spec
SYMMETRY Interchangeable
INVARIANTS OnlyWithRight LogIsTrue ChainHolds EditsSurvive RateHolds KeysRotate
CHECK_DEADLOCK FALSE
