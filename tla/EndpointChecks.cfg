SPECIFICATION FairSpec
CONSTANTS
    c1 = c1  c2 = c2
    own = own  usual = usual  backup = backup  other = other
    Chain = {c1}
    Endpoint = {own, usual, backup, other}
    Checked = {c1}
    Preferences <- TwoServices
    Profiles <- BackupOfOne
    RecoverAfter = 2
    RestoreAfter = 1
    MaxWrites = 2
    None = None
INVARIANT StatusIsTrue
PROPERTY CheckEnds
