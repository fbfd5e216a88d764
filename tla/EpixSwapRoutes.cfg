SPECIFICATION Spec
CONSTANTS
    Op = {o1, o2}
    o1 = o1
    o2 = o2
    v1 = v1
    Vault = {v1}
    VaultOf <- MCVaultOf
    ToEpix = {o2}
    Locked = Locked
    MaxAttempts = 2
    MaxPlans = 2
CONSTRAINT OneRoute
INVARIANTS
    AtMostOnce
    DispatchedIsRecorded
    SecondAfterFirst
    SendsAreAuthorized
    OutcomeIsTrue
PROPERTIES
    NoLookupOnReplacedRecord
    ImplementsLedger
