CONSTANTS
    Importers = {i1, i2}
    Entries = {e1, e2}
    MaxVersions = 2
    MaxEvents = 3
    None = None
SPECIFICATION FairSpec

    
    
PROPERTIES
    ImportsAnswered
CHECK_DEADLOCK FALSE
ACTION_CONSTRAINT LastEvent
