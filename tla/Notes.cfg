SPECIFICATION Spec
CONSTANTS
    Buttons = {"fwd", "knob", "loops", "push", "pfl", "vinyl"}
    Slots = {"SOURCE", "SELECTOR", "ALOOP"}
    Usb1 = "USB1"
    NoSlot = "none"
    NoteMap <- MCMap
    Remapped = {"fwd", "knob"}
    Lossy = TRUE
    MaxEdges = 5
    QueueLen = 2
INVARIANTS
    TypeOK
    HeldMatchesPressed
    PressedFollowsButton
