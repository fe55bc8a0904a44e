\* Explorer comes and goes and the user toggles click-through, under every
\* fault; a suppression is not involved.
CONSTANTS
    w1 = w1
    w2 = w2
    None = None
    Windows = {w1, w2}
    Taskbars <- ThreeExplorers
    SeenDesktops <- ClearOnly
    Screenshots = {FALSE}
    Faults <- AllFaults
    Damages = {"vanish", "hidden", "layered"}
    Triggers <- Recovery
    Toggles = TRUE
SPECIFICATION Spec
SYMMETRY HandleSymmetry
INVARIANTS
    SingleOverlay
    OwnedByTheCommittedTaskbar
    TrayIconIsThereOrOwed
    ClickThroughIsAppliedOrOwed
