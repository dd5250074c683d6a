SPECIFICATION Spec
CONSTANTS
    User = {o, a}
    Owner = o
    Project = {p}
    ProjectOwner <- OwnedByOwner
    Replacers = {}
    Setters = {s1}
    Removers = {}
    NoUser = NoUser
    NoProject = NoProject
SYMMETRY Symmetry
PROPERTIES GrantsKeptUnderFlag
