\* One job of every kind through up to three faults and restarts. A tick that
\* finds nothing due changes nothing: a state without successors is no deadlock.
SPECIFICATION Spec
CONSTANTS
    Jobs = {j1}
    NoJob = NoJob
    Profiles <- MCAll
    MaxFaults = 3
INVARIANTS
    EffectsOnce
    InOrder
    HeldUntilAnswered
    LabelKept
    OutboxStillThere
PROPERTIES
    DeliveredIsKept
    ImplementsContract
CHECK_DEADLOCK FALSE
