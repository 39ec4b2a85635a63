SPECIFICATION FairSpec
CONSTANTS
    None = None
    Sockets = {s1, s2, s3}
    Trouble = 2
INVARIANTS
    OneConnection
    StaysClosed
PROPERTIES
    OnlyDeafSocketsGivenUp
    
    
    PtyReleased
CHECK_DEADLOCK FALSE
