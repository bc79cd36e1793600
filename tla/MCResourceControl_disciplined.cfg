CONSTANTS
    Threads = {t1, t2}
    Resources = {r1, r2}
    Links = {l1, l2, l3, l4}
    NoResource = NoResource
    Nowhere = Nowhere
    Disciplined = TRUE
SPECIFICATION FairSpec
INVARIANTS
    DeleterIsAlone
    NothingLeaks
PROPERTY EverythingReclaimed
CHECK_DEADLOCK FALSE
