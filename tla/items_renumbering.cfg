SPECIFICATION Spec
CONSTANTS
    i1 = i1  i2 = i2  i3 = i3  x = x  y = y  z = z
    NoClient = NoClient
    NoItem = NoItem
    Items = {i1, i2, i3}
    Clients = {c1, c2}
    ArrangementOf <- MCArrangementDistinct
    Kinds <- Renumbering
    MaxIndex = 3
    ParkOffset = 4
    HighestIndex = 3
INVARIANT NumbersDense
PROPERTY ImplementsOrder
