\* An answer that the host accepts and the library cannot take.
SPECIFICATION FairSpec
CONSTANTS
    MaxResponses = 2
    MaxDialogs = 2
    MaxRegistrations = 1
    Permitted = {"large_answer"}
PROPERTY DialogFinishes
CHECK_DEADLOCK FALSE
