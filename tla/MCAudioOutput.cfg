SPECIFICATION Spec
CONSTANTS
    c1 = c1
    c2 = c2
    t1 = t1
    t2 = t2
    t3 = t3
SYMMETRY Symmetry
INVARIANTS
    TypeOK
    WaitingCallIsHeld
    
    
PROPERTIES
    DecidesOnce
CHECK_DEADLOCK FALSE
