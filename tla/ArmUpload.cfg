\* A handle is open while a gripper loop comes and goes.
SPECIFICATION Spec
CONSTANTS
    Senders = {w1}
    Loops = {}
    Writers = {w1}
    Gripper = g
    ArmModes = {"pc", "drag"}
    BootModes <- MCBootModes
    MaxGeneration = 2
INVARIANTS UploadNeedsStop
CHECK_DEADLOCK FALSE
