SPECIFICATION Spec
CONSTANTS
    Keyboard = keyboard
    Others = {o1, o2}
    TaskQueueSize = 3
    ScancodeQueueSize = 2
    MaxKeys = 5
INVARIANTS
    ExecutorTypeOK
    NoLostKeystroke
    SleepsOnlyWhenIdle
    
PROPERTIES
    KeystrokesPrinted
