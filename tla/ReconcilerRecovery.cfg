\* Explorer restarts, the overlay is destroyed, pushed down or loses its layered
\* style, the taskbar hides, screenshots are taken, and destroying and painting
\* fail - until all is calm.  Click-through is not toggled.  One
\* handle is enough here: SingleOverlay says that no two windows coexist.
CONSTANTS
    w1 = w1
    None = None
    Windows = {w1}
    Taskbars <- ReusedHandle
    SeenDesktops <- HiddenOrClear
    Screenshots = {FALSE, TRUE}
    Faults = {"destroy", "present"}
    Damages = {"vanish", "topmost", "layered"}
    Triggers <- StateTimer
    Toggles = FALSE
SPECIFICATION FairSpec
PROPERTIES
    Recovers
