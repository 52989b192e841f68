CONSTANTS
    Urns = {u1, u2, u3}
    Task = {t1, t2, t3}
SPECIFICATION ServicesSpec
INVARIANTS NoLostWakeup
PROPERTIES  TasksEnd
CHECK_DEADLOCK FALSE
