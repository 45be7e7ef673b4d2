SPECIFICATION Spec
CONSTANTS
    a = a
    b = b
    Value = {nominal, a, b}
    Default = nominal
    Torn = torn
    Input <- MCInput
    I2CErrors = TRUE
    MaxFaults = 2
INVARIANTS
    TypeOK
    OneFaultSafe
PROPERTY
    AcknowledgedIsMirrored
    ImplementsStore
