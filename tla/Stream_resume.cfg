SPECIFICATION FairSpec
CONSTANTS
    Lines <- FourEvents
    MaxEnds = 4
CHECK_DEADLOCK FALSE
INVARIANTS TypeOK InOrderOnce NoneSkipped
 
