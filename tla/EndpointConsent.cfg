SPECIFICATION Spec
CONSTANTS
    c1 = c1  c2 = c2
    own = own  usual = usual  backup = backup  other = other
    Chain = {c1, c2}
    Endpoint = {own, usual, backup, other}
    Checked = {c1}
    Preferences <- OwnOrUsual
    Profiles <- OneBackup
    RecoverAfter = 2
    RestoreAfter = 2
    MaxWrites = 3
    None = None
INVARIANTS OnlyAllowed ConsentIsStored ClosedStaysClosed ChanceUsedOnce
