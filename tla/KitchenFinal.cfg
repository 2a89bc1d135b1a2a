CONSTANTS
    r1 = r1  r2 = r2  r3 = r3
    s1 = s1  s2 = s2
    l1 = l1  l2 = l2
    Requests <- ThreeRequests
    Staff <- TwoCooks
    Lines <- TwoLines
    NONE = NONE
    OrderIsFinal = TRUE
SPECIFICATION Spec
SYMMETRY Interchangeable
INVARIANT AllergyGate
PROPERTY PassSpec
