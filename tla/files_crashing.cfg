SPECIFICATION Spec
CONSTANTS
    a1 = a1  a2 = a2  s = s  t = t  png = png  jpg = jpg
    NoPlace = NoPlace  NoExt = NoExt
    Clients = {c1, c2}
    Places = {a1}
    Voices = {}
    SlugOf <- OneSlug
    Exts = {png, jpg}
    MaxFiles = 4
    Kinds <- Bodies
    Faults <- AnyFault
    Overlap = TRUE
SYMMETRY Symmetry
INVARIANTS TypeOK NeverLost
CHECK_DEADLOCK FALSE
