SPECIFICATION BothSpec
CONSTANTS
    Email = {e1}
    Token = {t1}
    Request = {r1, r2}
    SessionTTL = 1
    MaxTime = 2
    MaxStarts = 2
    Uploader = {u1, u2}
    File = {f1, f2, f3, f4}
    NoFile = NoFile
    Lost = Lost
    MaxUploads = 3
INVARIANTS
    TypesOK TokensWork LoggedOutStaysOut PoolOutlivesCleanup GracefulCutsNothing
    LiveIsWhole
PROPERTIES
    ShutdownEnds ExpiredAreSwept
CHECK_DEADLOCK FALSE
