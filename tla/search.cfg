SPECIFICATION SearchSpec
CONSTANTS
    c1 = c1  c2 = c2  a1 = a1  a2 = a2  w1 = w1  t1 = t1  t2 = t2
    none = none
    Clients = {c1, c2}
    Arrangements = {a1, a2}
    Works = {w1}
    Tags = {t1, t2}
    Texts = {1, 2}
    MaxWrites = 3
SYMMETRY MCSymmetry
INVARIANTS SearchTypeOK FreshUnlessRaced VictimsShareMany
CHECK_DEADLOCK FALSE
