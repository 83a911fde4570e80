CONSTANTS
    None = None
    Id = {e1, e2}
    Client = {c1}
    MaxEvents = 3
    MaxFaults = 3
    MaxPolls = 2
SPECIFICATION Spec
INVARIANTS
    StreamExact
    
PROPERTIES
    EventuallyCurrent
CHECK_DEADLOCK FALSE
