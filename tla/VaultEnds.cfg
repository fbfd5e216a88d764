SPECIFICATION Spec
CONSTANTS
    Passwords = {p1, p2}
    Keys = {k1, k2}
    Ids = {v1, v2}
    Calls = {c1, c2}
    May <- PopupAndTab
    Kinds = {"worker", "browser"}
    MaxEnds = 2
    MaxSession = 2
    None = None
SYMMETRY Symmetry
INVARIANTS ReadableWhileOpen CurrentOpens LockOutlivesTheWorker
PROPERTY KeepsWallets
