SPECIFICATION Spec
CONSTANTS
    a1 = a1  a2 = a2  v1 = v1  w1 = w1  i1 = i1  c1 = c1
    Arrangements = {a1, a2}
    Voices = {v1, w1}
    Collections = {c1}
    Items = {i1}
    Users = {u1, u2}
    Nobody = Nobody  NoItem = NoItem  NoVoice = NoVoice
    ArrangementOf <- MCArrangementOf
    PieceOf <- MCPieceOf
    ProgramOf <- MCProgramOf
    Clients = {e1, e2}
    Kinds <- Versions
    Overlap = FALSE
    MaxClock = 4
SYMMETRY Symmetry
INVARIANTS TypeOK StampsOfTheHolder
PROPERTIES OnlyWhatWasSeen ImplementsBook
