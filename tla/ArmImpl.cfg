\* A control loop, a handle and the gripper loop over two lifecycle calls.
SPECIFICATION FairSpec
CONSTANTS
    Senders = {l1, w1}
    Loops = {l1}
    Writers = {w1}
    Gripper = g
    ArmModes = {"pc", "drag"}
    BootModes <- MCBootModes
    MaxGeneration = 3
INVARIANTS TokenIsSingle StateWakesLoop LifecycleIsQuiet SessionFitsDevice
PROPERTIES ExpiredLoopsEnd GripperEndsToo
CHECK_DEADLOCK FALSE
