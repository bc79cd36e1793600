CONSTANTS
    Threads = {t1, t2}
    Resources = {r1, r2}
    Links = {l1, l2, l3, l4, l5}
    NoResource = NoResource
    Nowhere = Nowhere
    Disciplined = FALSE
SYMMETRY Symmetry
SPECIFICATION Spec
INVARIANTS
    TypeOK
    CountersExact
    NoUseAfterFree
CHECK_DEADLOCK FALSE
