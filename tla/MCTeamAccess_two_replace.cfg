SPECIFICATION Spec
CONSTANTS
    User = {o, a, b}
    Owner = o
    Project = {p}
    ProjectOwner <- OwnedByOwner
    Replacers = {w1, w2}
    Setters = {}
    Removers = {}
    NoUser = NoUser
    NoProject = NoProject
SYMMETRY Symmetry
PROPERTIES ReplaceIsExact
CHECK_DEADLOCK FALSE
