CONSTANTS
    Users = {u1}
    Roles = {"admin", "viewer"}
    Permissions = {"read", "write"}
    Confers <- TwoRoles
    Tasks = {c1, c2}
    TTL = 1
    MaxLatency = 1
    MaxTime = 3
    MaxChanges = 1
SPECIFICATION Spec
SYMMETRY TaskSymmetry
INVARIANT InvalidationHolds
PROPERTY StaleOnlyBriefly
