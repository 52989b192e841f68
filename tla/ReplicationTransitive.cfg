SPECIFICATION Spec
CONSTANTS
    l = l
    d = d
    t = t
    x = x
    h1 = h1
    h2 = h2
    Local = l
    Order <- Ascendingly
    Heads = {h1, h2}
    Published <- AllPublished
    Signed <- AllSigned
    p1 = p1
    p2 = p2
    Procs = {p1, p2}
    Scenarios <- JustCloning
INVARIANTS RemoteTreesValid
SYMMETRY Interchangeable
CHECK_DEADLOCK FALSE
