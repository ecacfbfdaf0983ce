SPECIFICATION Spec
CONSTANTS
    MaxNodes = 3
    RingSlots = 4
    Main = main
    Workers = {w1}
PROPERTIES
    Terminates
