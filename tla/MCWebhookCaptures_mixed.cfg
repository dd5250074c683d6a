SPECIFICATION Spec
CONSTANTS
    Endpoint = {e, f}
    Serial = {f}
    Sender = {s1, s2}
    Clearer = {c1}
    Keep = 2
    MaxPage = 2
    MaxId = 4
    NoEndpoint = NoEndpoint
SYMMETRY Symmetry
INVARIANTS OverflowIsBounded SerialNothingSkipped
PROPERTIES NewestStay
CHECK_DEADLOCK FALSE
