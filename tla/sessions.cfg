SPECIFICATION Spec
CONSTANTS
    u = u  p = p
    none = none
    Slots = {c1, c2, c3}
    Users = {u}
    AppPasswords = {p}
    holder <- MCHolder
    MaxRequests = 3
SYMMETRY MCSymmetry
INVARIANTS TypeOK FormsAccepted GrantedWasLive
PROPERTY RecordsAreFinal
CHECK_DEADLOCK FALSE
