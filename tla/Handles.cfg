SPECIFICATION HandlesSpec
CONSTANTS
    MaxHandle = 2
    MaxTargetPid = 2
    UserMin = 2
    UserMax = 7
    AccessRights = {"ReadWrite"}
    TransferModes = {"Ownership", "Shared"}
INVARIANTS
    HandlesTypeOK
    OnePage
    InstalledWereGranted
    RevokedFromHolder
PROPERTIES
    RevocationIsFinal
