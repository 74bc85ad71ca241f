SPECIFICATION Spec
CONSTANTS
    Users = {ana, luis}
    NoUser = none
    Calls = {c1, c2}
    MaxSessions = 3
SYMMETRY Symmetry
INVARIANTS TypeOK OneUser RefreshIsOfToken NobodyForgotten
CHECK_DEADLOCK FALSE
