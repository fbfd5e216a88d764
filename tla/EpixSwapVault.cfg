SPECIFICATION Spec
CONSTANTS
    Op = {o1, o2}
    o1 = o1
    o2 = o2
    v1 = v1
    Vault = {v1}
    VaultOf <- MCVaultOf
    ToEpix = {}
    Locked = Locked
    MaxAttempts = 1
    MaxPlans = 2
CONSTRAINT TwoOperations
SYMMETRY MCSymmetry
INVARIANTS
    OneActiveSwapPerVault
