SPECIFICATION Spec
CONSTANTS
    r1 = r1  r2 = r2  w1 = w1  w2 = w2  t1 = t1  t2 = t2  l1 = l1  l2 = l2
    Requests = {r1, r2}
    Internal = {r2}
    Tabs = {t1, t2}
    TabOf <- OwnTab
    Windows = {w1, w2}
    WindowOf <- OwnWindow
    Popup = Popup
    Loops = {l1, l2}
    MaxOpens = 1
    MaxSwitches = 1
    None = None
INVARIANTS LoopWatches PopupPending OpenedWasMet
PROPERTY FirstAnswerWins
CHECK_DEADLOCK FALSE
SYMMETRY LikeLoops
