CONSTANTS
    a = a
    b = b
    c0 = c0
    c1 = c1
    d0 = d0
    Realm = {a}
    Activated = {a}
    Rec = {c0, c1}
    Owner <- MCOwner2
    Vcpuid <- MCVcpuid2
    Pages = 1
SPECIFICATION Spec
INVARIANT TargetInRange
CHECK_DEADLOCK FALSE
