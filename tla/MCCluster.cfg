CONSTANTS
    Node = {1, 2, 3, 4}
    Slot = {1, 2, 3}
    Layouts <- MCLayouts
    MaxWire = 2
SPECIFICATION Spec
INVARIANTS
    OneWinnerPerEpoch
    ClaimsAreOrdered
CHECK_DEADLOCK FALSE
