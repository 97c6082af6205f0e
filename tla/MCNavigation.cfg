CONSTANTS
    c1 = c1
    c2 = c2
    o1 = o1
    NoOp = NoOp
    Requests <- TwoRequests
    OpIds <- OneId
    Arguments <- TwoArguments
    MaxEntries = 2
    NavFaults = 2
SPECIFICATION Spec_Navigation
INVARIANTS NavigationTypeOK BusyIsFinal OneDispatchPerOperation JournalKeepsRunning
PROPERTIES PendingResolves
