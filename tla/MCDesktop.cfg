SPECIFICATION Spec
CONSTANTS
    b1 = b1
    b2 = b2
    k1 = k1
    k2 = k2
SYMMETRY Symmetry
INVARIANTS
    TypeOK
    OneThreadPerDomain
    
    InstallationIsSound
PROPERTIES
    ThreadsWriteTheirOwn
CHECK_DEADLOCK FALSE
