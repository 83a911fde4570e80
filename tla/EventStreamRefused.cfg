CONSTANTS
    None = None
    Id = {e1}
    Client = {c1}
    MaxEvents = 2
    MaxFaults = 2
    MaxPolls = 1
SPECIFICATION Spec
PROPERTIES
    RefusedStreamPolls
CHECK_DEADLOCK FALSE
