SPECIFICATION Spec
CONSTANTS
    c1 = c1
    c2 = c2
    c3 = c3
    t1 = t1
    t2 = t2
    t3 = t3
    t4 = t4
SYMMETRY Symmetry
INVARIANTS
    TypeOK
    
    TaskIsSound
PROPERTIES
    NothingReturnsFromAPause
CHECK_DEADLOCK FALSE
