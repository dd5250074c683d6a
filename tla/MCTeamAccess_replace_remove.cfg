SPECIFICATION Spec
CONSTANTS
    User = {o, a}
    Owner = o
    Project = {p}
    ProjectOwner <- OwnedByOwner
    Replacers = {w1}
    Setters = {}
    Removers = {r1}
    NoUser = NoUser
    NoProject = NoProject
SYMMETRY Symmetry
INVARIANTS GrantsOnlyForMembers
