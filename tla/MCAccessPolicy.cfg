SPECIFICATION Spec
CONSTANTS
    MaxKeys = 2
    op = op
    a = a
    b = b
    k1 = k1
    k2 = k2
    x = x
    Senders = {op, a, b}
    Operators = {op}
    Agents = {x}
    Codes = {k1, k2}
    Nobody = nobody
    NoCode = nocode
    Legacies <- MCLegacies
    Pairing = TRUE
    MaxPending = 2
    Ttl = 2
    Limit <- MCLimit
    Window <- MCWindow
    Horizon = 2
    MaxSpent = 4
SYMMETRY Alike
INVARIANTS Metered CodeLives
PROPERTIES AdmittedByItsCode
\* The clock stops at Horizon: a state without successors is no deadlock.
CHECK_DEADLOCK FALSE
