------------------------ MODULE MCOverlayReconciler ------------------------
(***************************************************************************)
(* Small instances of OverlayReconciler for TLC.                           *)
(***************************************************************************)
EXTENDS OverlayReconciler, TLC

\* A new Explorer may be given the old handle: the second and the first differ
\* in the process alone.
Explorer(h, p) == [hwnd |-> h, pid |-> p]
ReusedHandle == {Explorer(1, 1), Explorer(1, 2)}
ThreeExplorers == {Explorer(1, 1), Explorer(1, 2), Explorer(2, 3)}
OneExplorer == {Explorer(1, 1)}

Plain(coverage) == [coverage |-> coverage, slideshow |-> FALSE,
                    powerPoint |-> FALSE, editor |-> FALSE]
Slideshow == [coverage |-> "Covers", slideshow |-> TRUE, powerPoint |-> TRUE,
              editor |-> FALSE]
Editor == [coverage |-> "Clear", slideshow |-> FALSE, powerPoint |-> TRUE,
           editor |-> TRUE]

Desktop(taskbar, notification, foreground) ==
    [taskbar |-> taskbar, notification |-> notification, foreground |-> foreground]

ClearOnly == {ClearDesktop}
EveryReason ==
    {ClearDesktop,
     Desktop("Unknown", "Accepts", Plain("Clear")),
     Desktop("Hidden", "Accepts", Plain("Clear")),
     Desktop("Visible", "MaySuppress", Plain("Covers")),
     Desktop("Visible", "MaySuppress", Slideshow),
     Desktop("Visible", "Accepts", Editor)}

\* The taskbar hides or a slide show starts, both left through a clear desktop.
HideOrPresent ==
    {ClearDesktop, Desktop("Hidden", "Accepts", Plain("Clear")),
     Desktop("Visible", "MaySuppress", Slideshow)}
HiddenOrClear == {ClearDesktop, Desktop("Hidden", "Accepts", Plain("Clear"))}

StateTimer == {{}}
Timers == {{}, {"Render"}, {"Reposition"}}
\* taskbar_created, manual_recovery and the task-view messages besides the timers.
AllTriggers ==
    {{}, {"Reposition", "Render", "RefreshTrayIcon"},
     {"Reposition", "Render", "ResetSurface", "RefreshTrayIcon"},
     {"Reposition", "PromoteForTaskView"}}
Recovery ==
    {{}, {"Reposition", "Render", "ResetSurface", "RefreshTrayIcon"}}

AllFaults == Calls
SurfaceFaults == {"find", "hide", "style", "present", "show"}

HandleSymmetry == Permutations(Windows)
=============================================================================
