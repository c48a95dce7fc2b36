SPECIFICATION FairSpec
CONSTANTS
    i1 = i1  i2 = i2  i3 = i3  x = x  y = y  z = z
    NoClient = NoClient
    NoItem = NoItem
    Items = {i1, i2}
    Clients = {c1, c2}
    ArrangementOf <- MCArrangementTwo
    Kinds <- Everything
    MaxIndex = 2
    ParkOffset = 3
    HighestIndex = 2
INVARIANTS TypeOK UniqueLive
PROPERTY CallsEnd
