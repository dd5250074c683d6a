CONSTANTS
    Project = {p1}
    Folder = {f1, f2}
    Request = {r1, r2}
    SpareFolder = f2
    SpareRequest = r2
    Handler = {h1, h2}
    Null = Null
    MaxOrder = 2
    ClientOrder = {}
    MaxList = 2
SPECIFICATION LiveSpec
PROPERTY EveryCallEnds
CHECK_DEADLOCK FALSE
