CONSTANTS
    a = a
    b = b
    c0 = c0
    c1 = c1
    d0 = d0
    Realm = {a, b}
    Activated = {a}
    Rec = {c0, c1, d0}
    Owner <- MCOwner
    Vcpuid <- MCVcpuid
    Pages = 2
SPECIFICATION Spec
INVARIANTS
    TypeOK
    OneRequest
    Answered
    OneWake
    MmioOnce
    RipasReported
PROPERTIES
    RipasConsent
    OffIsFinal
CHECK_DEADLOCK FALSE
