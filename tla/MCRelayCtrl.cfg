SPECIFICATION Spec
CONSTANTS
    NDecades = 2
    RELAY_RESISTANCE_UNKNOWN = 2147483647
    RelayInputs <- MCRelayInputs
INVARIANTS
    TypeOK
    TerminalRelaysFollowFlag
    DigitsSpellValue
    ReportedIsReal
    NominalReadoutAgrees
