SPECIFICATION TreeSpec
CONSTANTS
    a1 = a1  a2 = a2  v1 = v1  v2 = v2  w1 = w1  c1 = c1  c2 = c2  i1 = i1  i2 = i2
    Arrangements = {a1, a2}
    Voices = {v1, v2, w1}
    Collections = {c1, c2}
    Items = {i1, i2}
    Users = {u1, u2}
    Nobody = Nobody
    ArrangementOf <- MCArrangementOf
    PieceOf <- MCPieceOf
    ProgramOf <- MCProgramOf
SYMMETRY Symmetry
INVARIANTS TypeOK ListedIffOpens AccessAgrees NothingEmpty
