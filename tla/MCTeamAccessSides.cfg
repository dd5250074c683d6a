SPECIFICATION OneSideSpec
CONSTANTS
    User = {o, a, b}
    Owner = o
    Project = {p, q}
    ProjectOwner <- OwnedByOwner
    Replacers = {w1}
    Setters = {s1, s2}
    Removers = {r1, r2}
    NoUser = NoUser
    NoProject = NoProject
SYMMETRY Symmetry
INVARIANTS MemberSideGrants
PROPERTIES SetMemberIsExact ReplaceIsExact GrantsLeaveOnRequest
