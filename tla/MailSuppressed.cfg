CONSTANTS
    Workers = {w1, w2}
    p1 = p1
    p2 = p2
    r1 = r1
    r2 = r2
    r3 = r3
    c1 = c1
    c2 = c2
    player1 = player1
    player2 = player2
    Partitions = {p1, p2}
    Players = {player1, player2}
    Topics <- RaisedAgain
    FaultKinds = {}
    MaxFaults = 0
    MaxRedeliveries = 0
SPECIFICATION Spec
INVARIANT EveryRaiseIsMailed
