SPECIFICATION Spec
CONSTANTS
    b1 = b1
    Low = Low
    High = High
INVARIANTS
    TypeOK
    
    StopsAreFinal
    MicrophoneIsHeld
CHECK_DEADLOCK FALSE
