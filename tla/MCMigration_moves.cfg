SPECIFICATION FairSpec
CONSTANTS
    Present <- UpToTwo
    MaxVersion = 3
    Woken = {"vol", "md"}
    LiveApps = FALSE
 
PROPERTIES
    
    Finishes
CHECK_DEADLOCK FALSE
