SPECIFICATION FairSpec
CONSTANTS
    Op = {o1}
    o1 = o1
    o2 = o2
    v1 = v1
    Vault = {v1}
    VaultOf <- MCVaultOf
    ToEpix = {}
    Locked = Locked
    MaxAttempts = 2
    MaxPlans = 1
PROPERTIES
    ApprovalEnds
    WorkerRests
    ResumeAnswered
