SPECIFICATION FairSpec
CONSTANTS
    turn = turn
    job = job
    m1 = m1
    m2 = m2
    s1 = s1
    s2 = s2
    p1 = p1
    p2 = p2
    p3 = p3
    Callers = {turn, job}
    Writers = {turn}
    Askers = {turn, job}
    Adders = {turn}
    Messages = {m1, m2}
    Says <- MCSays
    Batches <- MCBatches
    NoBatch = nobatch
    MaxGrants = 2
    Places = {p1, p2, p3}
    Foreign = {p3}
    Mute = {p2}
    Nowhere = nowhere
    MaxMoves = 2
    MaxFaults = 1
    Indexes = {0, 1}
    Pieces <- MCPieces
    MaxText = 2
INVARIANTS WrittenOnce LoginStands AnswerAsSaid
PROPERTIES FiledAsShown CallsEnd AgendaComesBack
