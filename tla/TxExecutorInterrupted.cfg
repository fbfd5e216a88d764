SPECIFICATION Spec
CONSTANTS
    A = A
    B = B
    C = C
    Chain = {A, B, C}
    Plans <- MCPlans
    w1 = w1  w2 = w2
    Window = {w1, w2}
    MaxExecutions = 1
    MaxEnds = 1
    None = None
SYMMETRY LikeWindows
CHECK_DEADLOCK FALSE
PROPERTY InterruptedIsOver
