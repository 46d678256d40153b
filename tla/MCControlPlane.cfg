SPECIFICATION Spec
CONSTANTS
    o1 = o1
    o2 = o2
    p1 = p1
    p2 = p2
    q1 = q1
    q2 = q2
    d1 = d1
    l1 = l1
    l2 = l2
    l3 = l3
    n1 = n1
    u1 = u1
    u2 = u2
    k1 = k1
    k2 = k2
    k3 = k3
    s1 = s1
    s2 = s2
    r1 = r1
    r2 = r2
    r3 = r3
SYMMETRY Symmetry
INVARIANTS
    TypeOK
    
    ProbesAreHeld
    LeasesHold
    RepetitionsCountOnce
    
    TokensAreSpentOnce
CHECK_DEADLOCK FALSE
