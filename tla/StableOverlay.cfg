SPECIFICATION Spec
CONSTANTS
    TickRange = 4
    Start = 0
    Warmup = 1
    Burst = 1
    Resume = 1
    Reasons = {"None", "Fullscreen", "NotificationState"}
    Sources = {"ControlCenter", "Taskbar"}
    Faults = {"timer", "position", "present", "style", "post"}
    MaxTrouble = 4
    Damages = {"hide", "show", "layout"}
INVARIANTS MarkHasItsMessage SuppressionSettles Restored
PROPERTIES HiddenStaysHidden
CHECK_DEADLOCK FALSE
