SPECIFICATION Spec
CONSTANTS
    Pins = {p1, p2}
    HSM_PIN = p1
    MaxCount = 3
    DebugBuild = FALSE
    FlashFails = FALSE
    MaxResets = 1
    Blank = Blank
    Torn = Torn
PROPERTY CounterIsolatedFromPin
