SPECIFICATION Spec
CONSTANTS
    Clients = {c1, c2}
    Callers = {u}
    Keys = {k1, k2}
    Details = {d1, d2}
    Events = {e1}
    MaxRows = 2
    MaxRequests = 4
    MaxCalls = 1
SYMMETRY Symmetry
INVARIANTS ReceiptsAreExclusive ClosureFollowsCompletion
PROPERTIES TerminalIsFinal CommittedIsNeverRefused
CHECK_DEADLOCK FALSE
