\* The desktop hides and reveals the overlay in every way, screenshots come in
\* between, and painting, styling, showing and hiding may fail.
CONSTANTS
    w1 = w1
    w2 = w2
    None = None
    Windows = {w1, w2}
    Taskbars <- OneExplorer
    SeenDesktops <- EveryReason
    Screenshots = {FALSE, TRUE}
    Faults <- SurfaceFaults
    Damages = {"vanish"}
    Triggers <- AllTriggers
    Toggles = FALSE
SPECIFICATION Spec
SYMMETRY HandleSymmetry
INVARIANTS
    PresentedBeforeShown
    SuppressedIsHidden
PROPERTIES
    ShownOnlyWhenIntended
    HiddenOnlyForAReason
