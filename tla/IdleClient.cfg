SPECIFICATION Spec
CONSTANTS
    Clients = {c1}
    MaxQueries = 1
PROPERTY ShutdownCompletes
CHECK_DEADLOCK FALSE
