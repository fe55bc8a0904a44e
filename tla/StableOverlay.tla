---------------------------- MODULE StableOverlay ----------------------------
(***************************************************************************)
(* The stable build (main.cpp): one overlay window, one thread, and no     *)
(* reconciler.  Every message is handled on the spot by whichever of       *)
(* suppression, freeze, placement, z-order and painting its handler calls, *)
(* and Windows sends further messages from within those calls:             *)
(*   - ShowWindow sends WM_SHOWWINDOW before and WM_WINDOWPOSCHANGED after  *)
(*     it changes the visibility, so HandleShowWindow and KeepOverlayOnTop *)
(*     run inside whoever called it, KeepOverlayOnTop's own ShowWindow     *)
(*     included (maintaining_z_order is what stops that recursion);        *)
(*   - SetWindowPos sends WM_WINDOWPOSCHANGED alone.                       *)
(* A handler is one action, with what it sends nested in it; the desktop   *)
(* and the calls that fail stay the same throughout one handler.           *)
(***************************************************************************)
EXTENDS Integers, FiniteSets

CONSTANTS
    TickRange,  \* GetTickCount is a number below this one, and wraps
    Start,      \* GetTickCount when the program starts
    Warmup,     \* kStartupWarmupMs
    Burst,      \* kZOrderBurstDurationMs
    Resume,     \* the 800 ms after a freeze
    Reasons,    \* what the desktop may give as a reason to hide
    Sources,    \* who may come to the foreground
    Faults,     \* calls that may fail
    MaxTrouble, \* bound on interference and failures before all is calm
    Damages     \* what the shell and other programs do to the window

ASSUME StableAssumption ==
    /\ TickRange \in Nat /\ TickRange >= 4 /\ TickRange % 2 = 0
    /\ Start \in 0 .. TickRange - 1
    /\ {Warmup, Burst, Resume} \subseteq 1 .. (TickRange \div 2) - 1
    /\ Reasons \subseteq {"None", "Fullscreen", "NotificationState"}
    /\ Sources \subseteq {"ControlCenter", "Taskbar", "Other"}
    /\ Faults \subseteq {"timer", "position", "present", "style", "post"}
    /\ MaxTrouble \in Nat
    /\ Damages \subseteq {"hide", "show", "layout"}

VARIABLES
    m,          \* the monitor: the fields of g_app and of its window
    phase,      \* "New", "Running" or "Exited" (the message loop has ended)
    marked,     \* PlacementState::tray_layout_update_pending
    posted,     \* "Layout" and "Created" messages that wait in the queue
    foreground, \* the source of a waiting WM_FOREGROUND_CHANGED, or "None"
    desktop,    \* the reason to hide, a screenshot tool, a running Explorer
    now,        \* GetTickCount
    warm,       \* SuppressionState::startup_warmup_until
    trouble,    \* how often somebody may still interfere, or a call fail
    due,        \* once calm: the timers that fire before the next tick
    quiet       \* history: ticks since all is calm, up to MaxQuiet

vars == <<m, phase, marked, posted, foreground, desktop, now, warm, trouble,
          due, quiet>>

Ticks == 0 .. TickRange - 1
TimerIds == {"Refresh", "State", "Burst", "StartupInit", "Placement"}

\* fast is PlacementState::timer_fast: SetPlacementTimer assigns it together
\* with the interval.  content is what the layered surface shows, a rendered
\* frame being current until time passes; framed says that there is a
\* RenderState::last_frame.
Monitor == [visible : BOOLEAN, placed : BOOLEAN, layered : BOOLEAN,
            content : {"Blank", "Old", "Current"},
            framed : BOOLEAN,
            suppressed : BOOLEAN, frozen : BOOLEAN, resume : Ticks,
            until : Ticks, timers : SUBSET TimerIds, fast : BOOLEAN,
            controlCenter : BOOLEAN, initialized : BOOLEAN,
            owned : BOOLEAN, tracked : BOOLEAN]

NewMonitor ==
    [visible |-> FALSE, placed |-> FALSE, layered |-> TRUE,
     content |-> "Blank", framed |-> FALSE, suppressed |-> FALSE,
     frozen |-> FALSE, resume |-> 0, until |-> 0, timers |-> {}, fast |-> FALSE,
     controlCenter |-> FALSE, initialized |-> FALSE, owned |-> FALSE,
     tracked |-> FALSE]

-----------------------------------------------------------------------------
(* What a handler sees: the desktop, the tick count, the calls that fail.  *)

TickPassed(tick, deadline) == (tick - deadline) % TickRange < TickRange \div 2
Deadline(tick, delay) == (tick + delay) % TickRange

StartupWarmupActive == warm # 0 /\ ~TickPassed(now, warm)

\* OverlaySuppressionReason: the warm-up excuses a full-screen window alone.
SuppressionReason ==
    \/ desktop.reason = "NotificationState"
    \/ desktop.reason = "Fullscreen" /\ ~StartupWarmupActive

\* Calls of at most one kind fail in a handler; none once all is calm.
Calm == trouble = 0
Failing == IF Calm THEN {{}} ELSE {{}} \cup {{f} : f \in Faults}
Costs(failed) == trouble' = IF failed = {} THEN trouble ELSE trouble - 1
Seen(failed) == [suppress |-> SuppressionReason, freeze |-> desktop.screenshot,
                 explorer |-> desktop.explorer, tick |-> now, failed |-> failed]
Works(e, call) == call \notin e.failed

-----------------------------------------------------------------------------
(* The operations on the monitor s under what a handler sees, e.           *)

InstallTimer(s, e, timer) ==
    IF Works(e, "timer") THEN [s EXCEPT !.timers = @ \cup {timer}] ELSE s

StartZOrderBurst(s, e) ==
    InstallTimer([s EXCEPT !.until = Deadline(e.tick, Burst)], e, "Burst")

SetPlacementTimer(s, e, fast) ==
    IF Works(e, "timer")
      THEN [s EXCEPT !.timers = @ \cup {"Placement"}, !.fast = fast] ELSE s

RestorePlacementTimer(s, e) ==
    IF s.fast THEN SetPlacementTimer(s, e, FALSE) ELSE s

\* PresentPixels needs a layered window.
Presents(s, e) == s.layered /\ Works(e, "present")

RenderOverlay(s, e) ==
    IF Presents(s, e)
      THEN [s EXCEPT !.content = "Current", !.framed = TRUE] ELSE s

ReapplyLastFrame(s, e) ==
    IF Presents(s, e) /\ s.framed /\ s.content = "Blank"
      THEN [s EXCEPT !.content = "Old"] ELSE s

\* kAttachOverlayToTaskbarOwner is false: an owner set here before is given up,
\* the one the window was created with is not.
AttachToTaskbarOwner(s) ==
    IF s.tracked THEN [s EXCEPT !.owned = FALSE, !.tracked = FALSE] ELSE s

\* (Faulty variant: it hides on entering only.)
FaultySuppress(s, e) ==
    [RestorePlacementTimer([s EXCEPT !.suppressed = TRUE], e)
        EXCEPT !.visible = @ /\ s.suppressed]

\* UpdateOverlaySuppression with a reason.  Nothing that the hiding sends acts
\* on a suppressed overlay.
Suppress(s, e) ==
    [RestorePlacementTimer([s EXCEPT !.suppressed = TRUE], e)
        EXCEPT !.visible = FALSE]

\* UpdateFreezeState and the wait after it: whether they stop the handler, and
\* what they do.  (Faulty variant first: the wait has no end.)
FaultyDeferred(s, e) == s.resume # 0

Deferred(s, e) == s.resume # 0 /\ ~TickPassed(e.tick, s.resume)
Freezes(s, e) == e.freeze \/ s.frozen \/ Deferred(s, e)
UpdateFreezeState(s, e) ==
    ReapplyLastFrame(
        [s EXCEPT !.frozen = e.freeze,
                  !.resume = IF s.frozen /\ ~e.freeze
                               THEN Deadline(e.tick, Resume) ELSE @], e)

\* HandleShowWindow(shown) from within KeepOverlayOnTop's ShowWindow, the
\* overlay not being suppressed: maintaining_z_order turns KeepOverlayOnTop off.
ShownOnTop(s, e) ==
    LET t == SetPlacementTimer(s, e, FALSE)
    IN  CASE ~s.initialized -> s
          [] s.initialized /\ e.suppress -> Suppress(t, e)
          [] s.initialized /\ ~e.suppress /\ Freezes(t, e) ->
               UpdateFreezeState(t, e)
          [] OTHER -> RenderOverlay([t EXCEPT !.resume = 0], e)

\* ShowWindow goes on to show the window whatever its message has led to.
KeepOverlayOnTop(s, e) ==
    IF s.suppressed \/ s.visible THEN s
    ELSE [ShownOnTop(s, e) EXCEPT !.visible = TRUE]

\* The guards behind UpdateOverlaySuppression.
FreezeGuard(s, e) ==
    IF e.freeze THEN UpdateFreezeState(s, e)
    ELSE KeepOverlayOnTop(UpdateFreezeState(s, e), e)

\* HandleShowWindow(shown) for an overlay that is not suppressed, or is with
\* good reason.
Shown(s, e) ==
    LET t == SetPlacementTimer(s, e, FALSE)
    IN  CASE ~s.initialized -> s
          [] s.initialized /\ e.suppress -> Suppress(t, e)
          [] s.initialized /\ ~e.suppress /\ Freezes(t, e) -> FreezeGuard(t, e)
          [] OTHER -> RenderOverlay([t EXCEPT !.resume = 0], e)

ShowWindow(s, e) ==
    IF s.visible THEN s
    ELSE KeepOverlayOnTop([Shown(s, e) EXCEPT !.visible = TRUE], e)

\* SetWindowPos with SWP_SHOWWINDOW: shows the window, suppressed or not.
RepositionWindow(s, e) ==
    KeepOverlayOnTop(
        IF Works(e, "position")
          THEN [s EXCEPT !.visible = TRUE, !.placed = TRUE] ELSE s, e)

\* UpdateOverlaySuppression once the reason is gone.
Unsuppress(s, e) ==
    LET shown == ShowWindow(RestorePlacementTimer(
                                [s EXCEPT !.suppressed = FALSE], e), e)
    IN  RenderOverlay(ReapplyLastFrame(RepositionWindow(shown, e), e), e)

\* UpdateOverlaySuppression: whether it returns true, and what it does then.
Handled(s, e) == e.suppress \/ s.suppressed
UpdateOverlaySuppression(s, e) ==
    IF e.suppress THEN Suppress(s, e) ELSE Unsuppress(s, e)

\* HandleOverlayStateGuards.
Stopped(s, e) == Handled(s, e) \/ Freezes(s, e)
HandleOverlayStateGuards(s, e) ==
    CASE Handled(s, e) -> UpdateOverlaySuppression(s, e)
      [] ~Handled(s, e) /\ Freezes(s, e) -> FreezeGuard(s, e)
      [] OTHER -> [s EXCEPT !.resume = 0]

HandleShowWindow(s, e) ==
    IF s.initialized /\ s.suppressed /\ ~e.suppress
      THEN Unsuppress(SetPlacementTimer(s, e, FALSE), e)
    ELSE Shown(s, e)

\* Taking WS_EX_LAYERED away drops what was presented; a style that cannot be
\* set back leaves a window that takes no frame.
ResetLayeredSurface(s, e) ==
    LET t == [s EXCEPT !.content = "Blank",
                       !.layered = @ /\ Works(e, "style"),
                       !.visible = @ \/ Works(e, "position")]
    IN  ReapplyLastFrame(KeepOverlayOnTop(t, e), e)

\* What most handlers end with.
Refreshed(s, e) ==
    IF Handled(s, e) THEN UpdateOverlaySuppression(s, e)
    ELSE RenderOverlay(RepositionWindow(s, e), e)

InitializeMonitor(s, e) ==
    LET started == [AttachToTaskbarOwner(s) EXCEPT !.initialized = TRUE]
        timed == InstallTimer(SetPlacementTimer(
                     InstallTimer(started, e, "Refresh"), e, FALSE), e, "State")
    IN  IF s.initialized THEN s
        ELSE IF Handled(timed, e) THEN UpdateOverlaySuppression(timed, e)
        ELSE ShowWindow(Refreshed(timed, e), e)

-----------------------------------------------------------------------------
(* The messages.                                                           *)

Running == phase = "Running"
world == <<phase, desktop, now, warm, quiet>>
queue == <<marked, posted, foreground>>

\* Run and HandleCreate: CreateWindowExW names the taskbar, if there is one, as
\* the owner.  A start at logon waits for the startup timer, unless that cannot
\* be had, and does not show the window.
Create(launchedAtStartup) ==
    /\ phase = "New"
    /\ phase' = "Running"
    /\ \E failed \in Failing :
         /\ Costs(failed)
         /\ LET e == Seen(failed)
                created == [m EXCEPT !.owned = e.explorer]
            IN  m' = IF ~launchedAtStartup
                       THEN ShowWindow(InitializeMonitor(created, e), e)
                     ELSE IF Works(e, "timer")
                       THEN InstallTimer(created, e, "StartupInit")
                     ELSE InitializeMonitor(created, e)
    /\ UNCHANGED <<desktop, now, warm, due, quiet, queue>>

Fires(timer) ==
    /\ Running /\ timer \in m.timers
    /\ due' = due \ {timer}
    /\ UNCHANGED <<world, queue>>

StartupInitTimer ==
    /\ Fires("StartupInit")
    /\ \E failed \in Failing :
         /\ Costs(failed)
         /\ m' = InitializeMonitor([m EXCEPT !.timers = @ \ {"StartupInit"}],
                                   Seen(failed))

\* (Faulty variant: a suppression does not end a burst.)
FaultyBurstTimer ==
    /\ Fires("Burst")
    /\ \E failed \in Failing :
         /\ Costs(failed)
         /\ LET e == Seen(failed)
            IN  m' = IF m.until = 0 \/ TickPassed(now, m.until)
                       THEN [m EXCEPT !.timers = @ \ {"Burst"}, !.until = 0]
                     ELSE ReapplyLastFrame(RepositionWindow(m, e), e)

\* Only here is a burst ended: by its deadline, or by a suppression.
BurstTimer ==
    /\ Fires("Burst")
    /\ \E failed \in Failing :
         /\ Costs(failed)
         /\ LET e == Seen(failed)
            IN  m' = IF m.suppressed \/ m.until = 0 \/ TickPassed(now, m.until)
                       THEN [m EXCEPT !.timers = @ \ {"Burst"}, !.until = 0]
                     ELSE ReapplyLastFrame(RepositionWindow(m, e), e)

\* SampleKeysIfChanged may ask for a new frame.
StateTimer ==
    /\ Fires("State")
    /\ \E failed \in Failing, changed \in BOOLEAN :
         /\ Costs(failed)
         /\ LET e == Seen(failed)
                s == HandleOverlayStateGuards(m, e)
            IN  m' = IF changed /\ ~Stopped(m, e)
                       THEN RenderOverlay(s, e) ELSE s

RefreshTimer ==
    /\ Fires("Refresh")
    /\ \E failed \in Failing :
         /\ Costs(failed)
         /\ LET e == Seen(failed)
                s == HandleOverlayStateGuards(m, e)
            IN  m' = IF Stopped(m, e) THEN s
                     ELSE RenderOverlay(RepositionWindow(s, e), e)

PlacementTimer ==
    /\ Fires("Placement")
    /\ \E failed \in Failing :
         /\ Costs(failed)
         /\ LET e == Seen(failed)
                s == HandleOverlayStateGuards(m, e)
            IN  m' = IF Stopped(m, e) THEN s ELSE RepositionWindow(s, e)

\* The mark is taken away first, so that the next event posts anew.
TrayLayoutChanged ==
    /\ Running /\ "Layout" \in posted
    /\ marked' = FALSE
    /\ posted' = posted \ {"Layout"}
    /\ \E failed \in Failing :
         /\ Costs(failed)
         /\ LET e == Seen(failed)
                s == AttachToTaskbarOwner(StartZOrderBurst(m, e))
            IN  m' = IF ~m.initialized THEN m ELSE Refreshed(s, e)
    /\ UNCHANGED <<world, foreground, due>>

\* A foreground change is not guarded by the suppression.  The surface is reset
\* when the control center gives way to the taskbar.
ForegroundChanged ==
    /\ Running /\ foreground # "None"
    /\ foreground' = "None"
    /\ \E failed \in Failing :
         /\ Costs(failed)
         /\ LET e == Seen(failed)
                center == foreground = "ControlCenter"
                t == StartZOrderBurst([m EXCEPT !.controlCenter = center], e)
                s == ReapplyLastFrame(RepositionWindow(t, e), e)
            IN  m' = CASE ~m.initialized -> m
                       [] m.initialized /\ m.controlCenter
                                        /\ foreground = "Taskbar" ->
                            ResetLayeredSurface(s, e)
                       [] OTHER -> s
    /\ UNCHANGED <<world, marked, posted, due>>

TaskbarCreated ==
    /\ Running /\ "Created" \in posted
    /\ posted' = posted \ {"Created"}
    /\ \E failed \in Failing :
         /\ Costs(failed)
         /\ m' = IF ~m.initialized THEN m
                 ELSE Refreshed(AttachToTaskbarOwner(m), Seen(failed))
    /\ UNCHANGED <<world, marked, foreground, due>>

-----------------------------------------------------------------------------
(* What the user, the shell and other programs do, until all is calm.      *)

Troubled == ~Calm /\ trouble' = trouble - 1

Interferes ==
    /\ Troubled /\ Running
    /\ UNCHANGED <<now, warm, due, quiet>>

DisplayChanged ==
    /\ Interferes
    /\ \E failed \in Failing :
         LET s == [m EXCEPT !.placed = FALSE]
         IN  m' = IF ~m.initialized THEN s
                  ELSE Refreshed(AttachToTaskbarOwner(s), Seen(failed))
    /\ UNCHANGED <<phase, desktop, queue>>

\* Not guarded by monitor_initialized; the suggested rectangle does not show.
DpiChanged ==
    /\ Interferes
    /\ \E failed \in Failing :
         LET e == Seen(failed)
             s == [m EXCEPT !.placed = FALSE]
         IN  m' = Refreshed(IF Works(e, "position") THEN KeepOverlayOnTop(s, e)
                            ELSE s, e)
    /\ UNCHANGED <<phase, desktop, queue>>

ReloadConfig ==
    /\ Interferes /\ m.initialized
    /\ \E failed \in Failing : m' = Refreshed(m, Seen(failed))
    /\ UNCHANGED <<phase, desktop, queue>>

RecoverTaskbar ==
    /\ Interferes /\ m.initialized
    /\ \E failed \in Failing :
         LET e == Seen(failed)
             s == StartZOrderBurst([m EXCEPT !.owned = e.explorer,
                                             !.tracked = e.explorer], e)
             shown == RepositionWindow(ShowWindow(s, e), e)
         IN  m' = IF Handled(s, e) THEN UpdateOverlaySuppression(s, e)
                  ELSE RenderOverlay(ResetLayeredSurface(shown, e), e)
    /\ UNCHANGED <<phase, desktop, queue>>

\* A double click on the tray icon.
DoubleClick ==
    /\ Interferes /\ m.initialized
    /\ \E failed \in Failing : m' = RepositionWindow(m, Seen(failed))
    /\ UNCHANGED <<phase, desktop, queue>>

\* HandleDestroy: the end of the overlay is the end of the program.
HandleDestroy ==
    /\ phase' = "Exited"
    /\ m' = NewMonitor
    /\ marked' = FALSE /\ posted' = {} /\ foreground' = "None"

Exit ==
    /\ Troubled /\ Running /\ m.initialized
    /\ HandleDestroy
    /\ UNCHANGED <<desktop, now, warm, due, quiet>>

\* Another process hides the window: both messages arrive, the second when the
\* window is hidden.
OutsideHide ==
    /\ Interferes /\ "hide" \in Damages /\ m.visible
    /\ \E failed \in Failing :
         LET e == Seen(failed)
             fast == StartZOrderBurst(SetPlacementTimer(m, e, TRUE), e)
             s == IF m.initialized /\ ~m.suppressed
                    THEN ReapplyLastFrame(fast, e) ELSE m
         IN  m' = KeepOverlayOnTop([s EXCEPT !.visible = FALSE], e)
    /\ UNCHANGED <<phase, desktop, queue>>

OutsideShow ==
    /\ Interferes /\ "show" \in Damages /\ ~m.visible
    /\ \E failed \in Failing :
         LET e == Seen(failed)
         IN  m' = KeepOverlayOnTop([HandleShowWindow(m, e)
                                        EXCEPT !.visible = TRUE], e)
    /\ UNCHANGED <<phase, desktop, queue>>

\* (Faulty variant: a lost message leaves the mark.)
FaultyTrayEvent ==
    /\ Interferes /\ "layout" \in Damages
    /\ m' = [m EXCEPT !.placed = FALSE]
    /\ marked' = TRUE
    /\ \E lost \in {FALSE} \cup {f = "post" : f \in Faults} :
         posted' = IF marked \/ lost THEN posted ELSE posted \cup {"Layout"}
    /\ UNCHANGED <<phase, desktop, foreground>>

\* TrayEventProc: one message for any number of events, unless it is lost.
TrayEvent ==
    /\ Interferes /\ "layout" \in Damages
    /\ m' = [m EXCEPT !.placed = FALSE]
    /\ \E lost \in {FALSE} \cup {f = "post" : f \in Faults} :
         IF marked \/ lost THEN UNCHANGED <<marked, posted>>
         ELSE marked' = TRUE /\ posted' = posted \cup {"Layout"}
    /\ UNCHANGED <<phase, desktop, foreground>>

ForegroundEvent ==
    /\ Interferes /\ foreground = "None"
    /\ foreground' \in Sources
    /\ UNCHANGED <<m, phase, desktop, marked, posted>>

DesktopChanges ==
    /\ Troubled
    /\ \E reason \in Reasons, screenshot \in BOOLEAN :
         desktop' = [desktop EXCEPT !.reason = reason,
                                    !.screenshot = screenshot]
    /\ UNCHANGED <<m, phase, now, warm, due, quiet, queue>>

\* Windows destroys a window along with its owner.
ExplorerDies ==
    /\ Troubled /\ desktop.explorer
    /\ desktop' = [desktop EXCEPT !.explorer = FALSE]
    /\ IF Running /\ m.owned THEN HandleDestroy
       ELSE UNCHANGED <<m, phase, queue>>
    /\ UNCHANGED <<now, warm, due, quiet>>

\* Explorer broadcasts TaskbarCreated when its taskbar is there.
ExplorerStarts ==
    /\ Troubled /\ ~desktop.explorer
    /\ desktop' = [desktop EXCEPT !.explorer = TRUE]
    /\ posted' = IF Running THEN posted \cup {"Created"} ELSE posted
    /\ UNCHANGED <<m, phase, marked, foreground, now, warm, due,
                   quiet>>

BecomeCalm ==
    /\ ~Calm /\ Running
    /\ trouble' = 0
    /\ UNCHANGED <<m, phase, desktop, now, warm, due, quiet,
                   queue>>

\* A tick is about as long as the refresh interval.  Once all is calm, the
\* timers of 16, 100 and 1000 ms fire in every tick, and posted messages, which
\* Windows delivers before any timer, do not wait longer; before, time may leap.
FastTimers == {"State", "Burst", "Refresh"}
AtRest == posted = {} /\ foreground = "None" /\ due \cap m.timers = {}
MaxQuiet == 1 + TickRange \div 2

Tick ==
    /\ Running
    /\ Calm => AtRest
    /\ due' = IF Calm THEN m.timers \cap FastTimers ELSE {}
    /\ quiet' = IF Calm /\ quiet < MaxQuiet THEN quiet + 1 ELSE quiet
    /\ now' = (now + 1) % TickRange
    /\ m' = [m EXCEPT !.content = IF @ = "Current" THEN "Old" ELSE @]
    /\ UNCHANGED <<phase, desktop, warm, trouble, queue>>

-----------------------------------------------------------------------------
Init ==
    /\ m = NewMonitor
    /\ phase = "New"
    /\ marked = FALSE /\ posted = {} /\ foreground = "None"
    /\ desktop \in [reason : Reasons, screenshot : BOOLEAN, explorer : BOOLEAN]
    /\ now = Start
    /\ warm = Deadline(Start, Warmup)
    /\ trouble = MaxTrouble /\ due = {} /\ quiet = 0

Program ==
    \/ StartupInitTimer \/ BurstTimer \/ StateTimer \/ RefreshTimer
    \/ PlacementTimer \/ TrayLayoutChanged \/ ForegroundChanged
    \/ TaskbarCreated

Environment ==
    \/ DisplayChanged \/ DpiChanged \/ ReloadConfig \/ RecoverTaskbar
    \/ DoubleClick \/ Exit \/ OutsideHide \/ OutsideShow
    \/ TrayEvent \/ ForegroundEvent \/ DesktopChanges \/ ExplorerDies
    \/ ExplorerStarts \/ BecomeCalm

Next ==
    \/ \E launchedAtStartup \in BOOLEAN : Create(launchedAtStartup)
    \/ Program \/ Environment \/ Tick

Spec == Init /\ [][Next]_vars

\* Time goes on.
FairSpec == Spec /\ WF_vars(Tick)

-----------------------------------------------------------------------------
TypeOK ==
    /\ m \in Monitor
    /\ phase \in {"New", "Running", "Exited"}
    /\ marked \in BOOLEAN /\ posted \subseteq {"Layout", "Created"}
    /\ foreground \in Sources \cup {"None"}
    /\ desktop \in [reason : Reasons, screenshot : BOOLEAN, explorer : BOOLEAN]
    /\ now \in Ticks /\ warm \in Ticks
    /\ trouble \in 0 .. MaxTrouble /\ due \subseteq FastTimers
    /\ quiet \in 0 .. MaxQuiet

(* A tray event that finds the mark set is dropped; it may be, because the *)
(* message that clears the mark is in the queue.                           *)
MarkHasItsMessage == marked => "Layout" \in posted

(* While the desktop asks for it, an overlay hidden by the suppression is  *)
(* brought back by nothing but an unguarded RepositionWindow - on a change *)
(* of the foreground or a double click - or by somebody else.              *)
HiddenStaysHidden ==
    [][Running /\ m.suppressed /\ ~m.visible /\ SuppressionReason
          /\ m'.visible
         => \/ foreground # "None" /\ foreground' = "None"
            \/ DoubleClick \/ OutsideShow]_vars

(* At rest, with nothing interfering for a tick.                           *)
Settled ==
    /\ Running /\ Calm /\ AtRest /\ quiet > 0
    /\ m.initialized /\ {"Refresh", "State"} \subseteq m.timers

(* Within a tick a desktop that asks for it has the overlay hidden, also   *)
(* one that a late foreground message or a nested message has shown.       *)
SuppressionSettles ==
    Settled /\ desktop.reason = "NotificationState"
        => m.suppressed /\ ~m.visible

(* Within a tick a desktop that asks for nothing has the overlay back, and *)
(* in the end in its place and with new values, however often and wherever *)
(* it was hidden, frozen, displaced or not painted.  A deferral that was   *)
(* left behind by a suppression may be in the way for half the range of    *)
(* the tick count; no window can be painted that has lost its style.       *)
Restored ==
    Settled /\ desktop.reason = "None" /\ ~desktop.screenshot
        => /\ m.visible /\ ~m.suppressed /\ ~m.frozen
           /\ quiet = MaxQuiet =>
                m.placed /\ (m.layered => m.content = "Current")

(* src/README.md 188: the warm-up is short, and over when it is over.      *)
WarmupIsShort == [][~StartupWarmupActive => ~StartupWarmupActive']_vars
=============================================================================
