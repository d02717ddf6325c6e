CONSTANTS
    Workers = {w1, w2}
    p1 = p1
    p2 = p2
    r1 = r1
    r2 = r2
    r3 = r3
    c1 = c1
    c2 = c2
    player1 = player1
    player2 = player2
    Partitions = {p1, p2}
    Players = {player1, player2}
    Topics <- Alarms
    FaultKinds = {"transient", "permanent", "commit"}
    MaxFaults = 2
    MaxRedeliveries = 1
SPECIFICATION Spec
SYMMETRY WorkerSymmetry
INVARIANTS
    NoAlarmSwallowed
    MailedOncePerCommit
    LastMailIsRight
