SPECIFICATION CollectorSpec
CONSTANTS
    Near <- MCNear
    Fallback <- MCFallback
    MaxId = 6
    MaxHour = 3
    Mode <- MCMode
    WNear <- MCWNear
    WMode <- MCWMode

    
PROPERTIES
    
    StaleReplaced
