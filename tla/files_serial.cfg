SPECIFICATION Spec
CONSTANTS
    a1 = a1  a2 = a2  s = s  t = t  png = png  jpg = jpg
    NoPlace = NoPlace  NoExt = NoExt
    Clients = {c1}
    Places = {a1, a2}
    Voices = {a2}
    SlugOf <- MCSlugsApart
    Exts = {png, jpg}
    MaxFiles = 4
    Kinds <- Everything
    Faults <- Answered
    Overlap = FALSE
SYMMETRY Symmetry
INVARIANT OwnBytes
PROPERTY ComesBackWhole
CHECK_DEADLOCK FALSE
