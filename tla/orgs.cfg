SPECIFICATION Spec
CONSTANTS
    o = o  o2 = o2  u = u  u2 = u2  m = m  a = a  v = v  f = f  k = k  i = i  p = p
    t = t  t2 = t2  at = at  n = n  w = w  x = x
    none = none
    MaxRequests = 3
    Rows = {o, o2, u, u2, m, a, v, f, k, i, p, t, t2, at, n, w, x}
    Clients = {c1, c2}
    table <- MCTable
    refs <- MCRefs
    keys <- MCKeys
    Populations <- MCPopulations
SYMMETRY MCSymmetry
INVARIANTS TypeOK OnlyRacesRefuse DeadlocksOfTwoParents 
PROPERTY AllOrNothing
