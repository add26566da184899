SPECIFICATION Spec
CONSTANTS
    c1 = c1
    c2 = c2
    b1 = b1
    b2 = b2
    Callers = {c1, c2}
    Bridges = {b1, b2}
    MaxOptions = 2
INVARIANT OwnArguments
CHECK_DEADLOCK FALSE
