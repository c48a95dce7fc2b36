SPECIFICATION Spec
CONSTANTS
    u1 = u1  u2 = u2  i1 = i1
    NoInstrument = NoInstrument  NoUser = NoUser  NoOrg = NoOrg  NoId = NoId
    Users = {u1, u2}
    Admins = {u1}
    Orgs = {o1}
    Instruments = {i1}
    Ids = {m1, m2}
    Clients = {c1, c2}
    Bodies <- RoleBodies
    Overlap = TRUE
    MaxVersion = 3
PROPERTY OwnerKept
CHECK_DEADLOCK FALSE
