SPECIFICATION Spec
CONSTANTS
    NData = 2
    Table = {nominal, t1}
    Nominal = nominal
    Mixture = mixture
    n1 = n1
    NetPart = {default, n1}
    NetInputs <- MCNetInputs
    DefaultPart = default
    FlashErrors = TRUE
    Blank = blank
INVARIANTS
    TypeOK
    CompletedWriteSurvives
    NeverMixed
PROPERTY
    ImplementsStore
