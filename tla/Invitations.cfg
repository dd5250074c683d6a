SPECIFICATION FairSpec
CONSTANTS
    Team = {t}
    Email = {u1, u2}
    Invite = {i1, i2}
    Handler = {h1, h2, h3}
    None = None
INVARIANTS OneLiveInvitation TeamsAreWhole
PROPERTIES FirstAnswerWins AcceptedMeansJoined JoinsOnlyInvited EveryCallEnds
CHECK_DEADLOCK FALSE
