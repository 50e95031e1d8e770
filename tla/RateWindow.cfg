SPECIFICATION Spec
CONSTANTS
    Window = 5
    MaxOrdersPerSecond = 3
INVARIANT AtMostTwoWindows
