SPECIFICATION Spec
CONSTANTS
    Clients = {c1}
    Callers = {u, v}
    Keys = {k1}
    Details = {d1}
    Events = {e1}
    MaxRows = 1
    MaxRequests = 3
    MaxCalls = 2
PROPERTIES TasksBeginOnOpenSessions
CHECK_DEADLOCK FALSE
