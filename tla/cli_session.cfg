CONSTANTS
    Clients = {c, d}
    NoClient = NoClient
    Requests = {q1, q2}
    MaxRetries = 1
    MaxGrants = 3
SPECIFICATION Spec
SYMMETRY Symmetry
INVARIANT LoginSurvives
PROPERTY ImplementsStoredLogin
