SPECIFICATION Spec
INVARIANTS
    LocksTypeOK
    NeverSpinsOnItself
    OneLockOrder
PROPERTIES
    HandlersFinish
