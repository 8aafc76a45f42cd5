\* A relay and a reminder fired by the same tick, with the fairness of the
\* event loop. When nothing is due and nobody writes, the poll loop idles:
\* such a tick changes nothing, so a state without successors is no deadlock.
SPECIFICATION FairSpec
CONSTANTS
    Jobs = {j1, j2}
    NoJob = NoJob
    Profiles <- MCMixed
    MaxFaults = 1
PROPERTIES
    CancelledIsSilent
    DueIsServed
    DeliveredIsFinished
CHECK_DEADLOCK FALSE
