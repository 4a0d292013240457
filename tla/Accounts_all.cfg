SPECIFICATION Spec
CONSTANTS
    Requests = {q1, q2}
    Emails = {e1, e2}
    Passwords = {p1}
    ValidTime = 2
    Nothing = Nothing
    MaxUsers = 2
    MaxTime = 3
SYMMETRY Symmetry
INVARIANTS
    TypeOK
    SingleSession
PROPERTIES
    NoOldToken
    OnlyOwnRow
