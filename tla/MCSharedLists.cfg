SPECIFICATION Spec
CONSTANTS
    ann = ann
    ben = ben
    Agents = {ann, ben}
    Household = home
    Names = {n1, n2}
    Items = {i1, i2, i3}
    Reads <- MCReads
    Writes <- MCWrites
    MaxLists = 1
    MaxOpen = 2
    MaxItems = 2
    MaxDone = 2
SYMMETRY Alike
INVARIANTS Limited Indistinguishable
PROPERTIES OneListWhole
\* Every change may be refused: a state without successors is no deadlock.
CHECK_DEADLOCK FALSE
