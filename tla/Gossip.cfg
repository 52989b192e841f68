CONSTANTS
    a = a
    c = c
    u = u
    v = v
    None = None
    Node = {a, c, u, v}
    Rev = {r1, r2}
    Announcers = {a}
    Nets <- AllNets
SPECIFICATION FairSpec
INVARIANTS HaveIsTrue
 
CHECK_DEADLOCK FALSE
