SPECIFICATION FairSpec
CONSTANTS
    MaxConns = 3
    MaxOdd = 1
    MaxTasks = 2
    Requests <- MCRequests
INVARIANTS TypeOK AnswersOwn AtMostTwice
PROPERTIES NoStaleMove TaskEnds ServerStops
CHECK_DEADLOCK FALSE
