CONSTANTS
    Project = {p1, p2}
    Folder = {f1, f2}
    Request = {r1}
    Handler = {h1, h2}
    Null = Null
    MaxOrder = 2
    ClientOrder = {}
    MaxList = 2
SPECIFICATION Spec
SYMMETRY Symmetry
INVARIANTS Acyclic CheckedMoveStaysSafe ReorderSeesItsSiblings ParentsInProject
PROPERTIES ImplementsAtomicTree
CHECK_DEADLOCK FALSE
