CONSTANTS
    Procs = {p1, p2}
    Names = {a, b}
    Urls = {u1, u2}
    DefaultName = a
    Nothing = Nothing
    StoredToken = StoredToken
    MaxCommands = 3
SPECIFICATION ProfilesSpec
SYMMETRY ProcSymmetry
INVARIANTS RefsBacked OneDefault
PROPERTY NothingVanishes
