SPECIFICATION Spec
CONSTANTS
    Endpoint = {e}
    Serial = {}
    Sender = {s1, s2}
    Clearer = {}
    Keep = 2
    MaxPage = 2
    MaxId = 3
    NoEndpoint = NoEndpoint
SYMMETRY Symmetry
INVARIANTS NothingSkipped
CHECK_DEADLOCK FALSE
