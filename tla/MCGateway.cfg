SPECIFICATION FairSpec
CONSTANTS
    Turns = {"t1", "t2"}
    Parts = 2
INVARIANTS ClosedLast OnlyTurnsOverrun
PROPERTIES StopEnds ListensAgain
\* The process is over when it has stopped.
CHECK_DEADLOCK FALSE
