SPECIFICATION Spec
CONSTANTS
    Clients = {c1, c2}
    MaxQueries = 2
INVARIANTS TypeOK AnswersInStep StopsCleanly
PROPERTIES NoClientHangs ConnectionsClosed ShutdownOnceUsersLeave
CHECK_DEADLOCK FALSE
