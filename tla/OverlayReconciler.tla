-------------------------- MODULE OverlayReconciler --------------------------
(***************************************************************************)
(* ReconcileOverlayStateOnce of main-dev.cpp: the single place that        *)
(* creates, styles, positions, paints, shows, hides and destroys the       *)
(* overlay.  A pass is a walk through pc; between two steps of a pass (two *)
(* Win32 calls) Explorer may exit or start, the overlay may be destroyed   *)
(* or damaged from outside, and time may pass.  A call that only some      *)
(* environments refuse has every outcome Faults allows.                    *)
(*                                                                         *)
(* A check and the call it guards, and the calls of one step, are atomic.  *)
(* Metric sampling, the key widget and DWM cloaking do not touch the state *)
(* modelled here and are left out, as is everything that is only logged.   *)
(***************************************************************************)
EXTENDS Naturals, FiniteSets

CONSTANTS
    Windows,        \* handles an overlay may be given
    None,           \* the null handle
    Taskbars,       \* identities of the taskbars of successive Explorers
    SeenDesktops,   \* what the desktop may look like
    Screenshots,    \* the values "a screenshot tool is in front" may have
    Faults,         \* Win32 calls that may fail
    Damages,        \* what may happen to the overlay from outside
    Triggers,       \* flag sets passes are started with
    Toggles         \* whether the user toggles click-through

(* Every stamp is compared with its delay at one place only, so all that   *)
(* matters of it is whether the delay is over.  Seen from Now = 1, a stamp *)
(* of 1 is recent and a stamp of 0 is a full delay old; Elapse ages it.    *)
Now == 1

INSTANCE OverlayPolicy WITH
    EnterDelay <- 1, ExitDelay <- 1, FastEnterDelay <- 0, FastExitDelay <- 1,
    SettleDelay <- 1

Flags == {"Reposition", "Render", "ResetSurface", "RefreshTrayIcon",
          "ApplyStyle", "PromoteForTaskView"}

\* The three periodic timers: state, refresh and placement.
TimerTriggers == {{}, {"Render"}, {"Reposition"}}

\* What a pass that has to wait leaves to the next.  (Faulty variant: only the
\* surface reset is deferred.)
FaultyDeferredActions == {"ResetSurface"}

DeferredActions == {"ResetSurface", "RefreshTrayIcon", "ApplyStyle"}

Calls == {"find", "hide", "destroy", "create", "style", "position", "present",
          "show", "notify"}

ASSUME ConstantsAssumption ==
    /\ None \notin Windows
    /\ \A t \in Taskbars : IdentityKnown(t)
    /\ Taskbars \subseteq [hwnd : Nat, pid : Nat]
    /\ SeenDesktops \subseteq Desktops
    /\ Screenshots \subseteq BOOLEAN
    /\ Faults \subseteq Calls
    /\ Damages \subseteq {"vanish", "hidden", "topmost", "layered"}
    /\ Triggers \subseteq SUBSET Flags /\ {} \in Triggers
    /\ Toggles \in BOOLEAN

VARIABLES
    shell,           \* the running Explorer's taskbar, or NoIdentity
    window,          \* what the system holds under every overlay handle
    calm,            \* from here on nothing fails and nothing disturbs
    identity,        \* placement.taskbar_identity
    owner,           \* placement.taskbar_owner: a taskbar handle, or 0
    hwnd,            \* window.overlay_hwnd
    tray,            \* the notification icon is there
    clickThrough,    \* tray.click_through
    policy,          \* suppression.policy
    frozen,          \* suppression.overlay_update_frozen
    resume,          \* suppression.refresh_resume_tick: none, running, passed
    deferred,        \* reconcile.deferred_flags
    recreate,        \* reconcile.recreate_pending
    destroyWaits,    \* reconcile.next_destroy_retry_tick lies ahead
    showRetry,       \* reconcile.visibility_retry_pending
    showWaits,       \* reconcile.next_visibility_retry_tick lies ahead
    repairWaits,     \* a repair was attempted within kOverlayRepairIntervalMs
    pc,              \* where the pass is
    pass,            \* the locals of the pass
    hideFailed,      \* history: the latest decision to hide was not carried out
    addFailed        \* history: adding the icon failed, and was not asked for since

environment == <<shell, calm>>
suppression == <<policy, frozen, resume>>
retries == <<destroyWaits, showRetry, showWaits>>
vars == <<shell, window, calm, identity, owner, hwnd, tray, clickThrough, policy,
          frozen, resume, deferred, recreate, destroyWaits, showRetry, showWaits,
          repairWaits, pc, pass, hideFailed, addFailed>>

-----------------------------------------------------------------------------
(* Windows, as the system keeps them.  fresh says that the window has been *)
(* painted since it was created, hidden by the program or had its surface  *)
(* reset.                                                                  *)

NoWindow == [exists |-> FALSE, visible |-> FALSE, topmost |-> FALSE,
             layered |-> FALSE, transparent |-> FALSE, fresh |-> FALSE,
             owner |-> NoIdentity]

WindowState == [exists : BOOLEAN, visible : BOOLEAN, topmost : BOOLEAN,
                layered : BOOLEAN, transparent : BOOLEAN, fresh : BOOLEAN,
                owner : Taskbars \cup {NoIdentity}]

IsWindow(h) == h \in Windows /\ window[h].exists
IsWindowVisible(h) == IsWindow(h) /\ window[h].visible

\* The outcomes a call may have.
May(call) == IF ~calm /\ call \in Faults THEN BOOLEAN ELSE {TRUE}

(* Each operator below is what one call, or one helper that makes a call,  *)
(* leaves of the windows w.  A call on a window that is gone does nothing. *)
Hidden(w, h) == [w EXCEPT ![h].visible = FALSE, ![h].fresh = FALSE]

CommitOverlayHidden(w, h, ok) ==
    IF h \in Windows /\ w[h].exists /\ w[h].visible /\ ok THEN Hidden(w, h) ELSE w

Raised(w, h, ok) ==
    IF h \in Windows /\ w[h].exists /\ ok THEN [w EXCEPT ![h].topmost = TRUE] ELSE w

Promoted(w, h, ok) == IF IsWindowVisible(h) THEN Raised(w, h, ok) ELSE w

Styled(w, h, ok) ==
    IF h \in Windows /\ w[h].exists /\ ok
      THEN [w EXCEPT ![h].layered = TRUE, ![h].transparent = clickThrough]
      ELSE w

\* The layered style is taken away and set back, which may fail.
ResetLayeredSurface(w, h, restored, ok) ==
    IF h \in Windows /\ w[h].exists
      THEN [w EXCEPT ![h].fresh = FALSE, ![h].layered = @ /\ restored,
                     ![h].topmost = @ \/ ok]
      ELSE w

Painted(w, h, ok) ==
    IF h \in Windows /\ w[h].exists /\ w[h].layered /\ ok
      THEN [w EXCEPT ![h].fresh = TRUE] ELSE w

Shown(w, h) == [w EXCEPT ![h].visible = TRUE, ![h].topmost = TRUE]

-----------------------------------------------------------------------------
NoPass == [flags |-> {}, forced |-> FALSE, changed |-> FALSE, ready |-> FALSE,
           created |-> FALSE, restoring |-> FALSE, overlay |-> None,
           reset |-> FALSE, repairing |-> FALSE]

PassState == [flags : SUBSET Flags, forced : BOOLEAN, changed : BOOLEAN,
              ready : BOOLEAN, created : BOOLEAN, restoring : BOOLEAN,
              overlay : Windows \cup {None}, reset : BOOLEAN,
              repairing : BOOLEAN]

Steps == {"idle", "wait", "judge", "recreate", "tray", "ensure", "observe",
          "style", "commit", "choose", "hide", "dress", "paint", "show",
          "repair"}

\* The pass ends; of what it was asked for, the actions in mask stay owed.
Leave(mask) ==
    /\ deferred' = deferred \cup (pass.flags \cap mask)
    /\ pass' = NoPass
    /\ pc' = "idle"

\* InitializeMonitor: whatever taskbar is found is committed unsettled.
Init ==
    /\ shell \in Taskbars \cup {NoIdentity}
    /\ calm = FALSE
    /\ window = [h \in Windows |-> NoWindow]
    /\ identity \in {SettledIdentity(shell), SettledIdentity(NoIdentity)}
    /\ owner = 0 /\ hwnd = None
    /\ tray \in {FALSE, shell # NoIdentity} /\ addFailed = ~tray
    /\ clickThrough = FALSE
    /\ policy = SettledPolicy("None") /\ frozen = FALSE /\ resume = "none"
    /\ deferred = {} /\ recreate = FALSE
    /\ destroyWaits = FALSE /\ showRetry = FALSE /\ showWaits = FALSE
    /\ repairWaits = FALSE
    /\ pc = "idle" /\ pass = NoPass
    /\ hideFailed = FALSE

-----------------------------------------------------------------------------
(* The pass.                                                               *)

CommittedTaskbarReady ==
    IdentityKnown(identity.committed) /\ shell = identity.committed

\* A pass starts: it takes over what was deferred and looks the taskbar up.
StartPass(trigger) ==
    /\ pc = "idle"
    /\ \E found \in May("find") :
         LET result == ReduceTaskbarIdentity(
                         identity, IF found THEN shell ELSE NoIdentity, Now)
         IN  /\ identity' = result.state
             /\ pc' = IF result.pending THEN "wait" ELSE "judge"
             /\ pass' = [NoPass EXCEPT
                           !.flags = trigger \cup deferred,
                           !.forced = "ResetSurface" \in trigger,
                           !.changed = result.changed]
    /\ deferred' = {}
    /\ addFailed' = (addFailed /\ "RefreshTrayIcon" \notin trigger)
    /\ UNCHANGED <<environment, window, owner, hwnd, tray, suppression, recreate,
                   retries, repairWaits, hideFailed>>

\* A timer, a message or a menu command other than the one below.
Begin(trigger) ==
    /\ calm => trigger \in TimerTriggers
    /\ StartPass(trigger)
    /\ UNCHANGED clickThrough

\* ID_CLICK_THROUGH: the mode is toggled and a pass started to apply it.
ToggleClickThrough ==
    /\ Toggles /\ ~calm
    /\ StartPass({"ApplyStyle"})
    /\ clickThrough' = ~clickThrough

\* The identity has not settled: a visible overlay stays as long as its own
\* taskbar does.  (Faulty variant: it is hidden at once.)
FaultyStaysWhileWaiting == FALSE

StaysWhileWaiting == CommittedTaskbarReady

WaitForTaskbar ==
    /\ pc = "wait"
    /\ IF StaysWhileWaiting THEN UNCHANGED window
         ELSE \E ok \in May("hide") : window' = CommitOverlayHidden(window, hwnd, ok)
    /\ Leave(DeferredActions)
    /\ UNCHANGED <<environment, identity, owner, hwnd, tray, clickThrough,
                   suppression, recreate, retries, repairWaits, hideFailed,
                   addFailed>>

\* (Faulty variant: a new generation does not ask for a new overlay.)
FaultyRecreateRequired == recreate

RecreateRequired == recreate \/ pass.changed

JudgeTaskbar ==
    /\ pc = "judge"
    /\ pass' = [pass EXCEPT !.ready = CommittedTaskbarReady]
    /\ recreate' = RecreateRequired
    /\ destroyWaits' = (destroyWaits /\ ~pass.changed)
    /\ pc' = IF recreate' THEN "recreate" ELSE "tray"
    /\ UNCHANGED <<environment, window, identity, owner, hwnd, tray, clickThrough,
                   suppression, deferred, showRetry, showWaits, repairWaits,
                   hideFailed, addFailed>>

PostponeDestroy ==
    /\ pc = "recreate" /\ destroyWaits /\ IsWindow(hwnd)
    /\ Leave(DeferredActions)
    /\ UNCHANGED <<environment, window, identity, owner, hwnd, tray, clickThrough,
                   suppression, recreate, retries, repairWaits, hideFailed,
                   addFailed>>

DestroyFails ==
    /\ pc = "recreate" /\ IsWindow(hwnd) /\ ~destroyWaits
    /\ FALSE \in May("destroy")
    /\ \E ok \in May("hide") : window' = CommitOverlayHidden(window, hwnd, ok)
    /\ destroyWaits' = TRUE
    /\ Leave(DeferredActions)
    /\ UNCHANGED <<environment, identity, owner, hwnd, tray, clickThrough,
                   suppression, recreate, showRetry, showWaits, repairWaits,
                   hideFailed, addFailed>>

\* A new generation has to be given the notification icon.  (Faulty variant:
\* that is left to the taskbar_created message.)
FaultyFlagsOfRecreation == {}

FlagsOfRecreation == {"RefreshTrayIcon"}

\* Hidden first, then destroyed; an overlay that is gone already counts as
\* destroyed.
DestroyOverlay ==
    /\ pc = "recreate" /\ ~(destroyWaits /\ IsWindow(hwnd))
    /\ window' = IF hwnd \in Windows THEN [window EXCEPT ![hwnd] = NoWindow]
                                     ELSE window
    /\ hwnd' = None /\ owner' = 0
    /\ recreate' = FALSE /\ destroyWaits' = FALSE
    /\ showRetry' = FALSE /\ showWaits' = FALSE
    /\ pass' = [pass EXCEPT !.flags = @ \cup FlagsOfRecreation]
    /\ pc' = "tray"
    /\ UNCHANGED <<environment, identity, tray, clickThrough, suppression,
                   deferred, repairWaits, hideFailed, addFailed>>

\* RefreshTrayIconForCommittedTaskbar: the icon is removed, and added again if
\* the committed taskbar's window exists.
RefreshTrayIcon ==
    /\ pc = "tray" /\ "RefreshTrayIcon" \in pass.flags
    /\ LET attempted == identity.committed.hwnd # 0
                          /\ identity.committed.hwnd = shell.hwnd
       IN  \E ok \in May("notify") :
             /\ tray' = (attempted /\ ok)
             /\ addFailed' = (attempted /\ ~ok)
    /\ pass' = [pass EXCEPT !.flags = @ \ {"RefreshTrayIcon"}]
    /\ pc' = "ensure"
    /\ UNCHANGED <<environment, window, identity, owner, hwnd, clickThrough,
                   suppression, deferred, recreate, retries, repairWaits,
                   hideFailed>>

KeepTrayIcon ==
    /\ pc = "tray" /\ "RefreshTrayIcon" \notin pass.flags
    /\ pc' = "ensure"
    /\ UNCHANGED <<environment, window, identity, owner, hwnd, tray, clickThrough,
                   suppression, deferred, recreate, retries, repairWaits, pass,
                   hideFailed, addFailed>>

TaskbarUnavailable ==
    /\ pc = "ensure" /\ ~pass.ready
    /\ \E ok \in May("hide") : window' = CommitOverlayHidden(window, hwnd, ok)
    /\ Leave({"ResetSurface", "ApplyStyle"})
    /\ UNCHANGED <<environment, identity, owner, hwnd, tray, clickThrough,
                   suppression, recreate, retries, repairWaits, hideFailed,
                   addFailed>>

-----------------------------------------------------------------------------
(* EnsureOverlayWindow: what it may leave, and whether it succeeded.       *)

OverlayServesCommitted ==
    /\ CommittedTaskbarReady /\ IsWindow(hwnd)
    /\ owner = identity.committed.hwnd

\* A window that exists blocks the creation of another.
\* (Faulty variant: the handle is given up while its window still exists.)
FaultyBlocks == FALSE

ExistingWindowBlocks == IsWindow(hwnd)

Created(h, styled) ==
    [NoWindow EXCEPT !.exists = TRUE, !.topmost = TRUE, !.layered = TRUE,
                     !.transparent = styled /\ clickThrough,
                     !.owner = identity.committed]

Outcome(ok, created, w, h, o) ==
    [ok |-> ok, created |-> created, window |-> w, hwnd |-> h, owner |-> o]

CreationOutcomes ==
    {Outcome(TRUE, TRUE, [window EXCEPT ![n.h] = Created(n.h, n.styled)], n.h,
             identity.committed.hwnd) :
        n \in [h : {h \in Windows : ~window[h].exists}, styled : May("style")]}

EnsureOutcomes ==
    IF OverlayServesCommitted THEN {Outcome(TRUE, FALSE, window, hwnd, owner)}
    ELSE IF ExistingWindowBlocks THEN {Outcome(FALSE, FALSE, window, hwnd, owner)}
    ELSE IF ~CommittedTaskbarReady THEN {Outcome(FALSE, FALSE, window, None, 0)}
    ELSE CreationOutcomes \cup
         {Outcome(FALSE, FALSE, window, None, 0) : ok \in May("create") \ {TRUE}}

EnsureOverlay ==
    /\ pc = "ensure" /\ pass.ready
    /\ \E r \in EnsureOutcomes :
         /\ window' = r.window /\ hwnd' = r.hwnd /\ owner' = r.owner
         /\ IF r.ok
              THEN /\ pc' = "observe"
                   /\ pass' = [pass EXCEPT !.created = r.created,
                                           !.overlay = r.hwnd]
                   /\ UNCHANGED deferred
              ELSE Leave({"ResetSurface", "ApplyStyle"})
    /\ UNCHANGED <<environment, identity, tray, clickThrough, suppression,
                   recreate, retries, repairWaits, hideFailed, addFailed>>

-----------------------------------------------------------------------------
(* Observe the desktop and act on the decision.                            *)

\* The desktop everything comes to rest on.
ClearDesktop ==
    [taskbar |-> "Visible", notification |-> "Accepts",
     foreground |-> [coverage |-> "Clear", slideshow |-> FALSE,
                     powerPoint |-> FALSE, editor |-> FALSE]]

Intent == ComputeOverlayIntent(TRUE, policy.committed, frozen)

UpdateFreezePolicy(screenshot) ==
    /\ frozen' = screenshot
    /\ resume' = IF screenshot = frozen THEN resume
                 ELSE IF screenshot THEN "none" ELSE "running"

\* The owner binding of a new overlay may be retried first (rebinds); then the
\* freeze and the suppression policies see the desktop.
ObserveDesktop ==
    /\ pc = "observe"
    /\ \E rebinds \in BOOLEAN, bound \in BOOLEAN, ok \in May("position") :
         /\ bound => rebinds
         /\ window' = IF rebinds THEN Raised(window, hwnd, ok) ELSE window
         /\ \E screenshot \in IF calm THEN {FALSE} ELSE Screenshots,
               d \in IF calm THEN {ClearDesktop} ELSE SeenDesktops :
              /\ UpdateFreezePolicy(screenshot)
              /\ policy' = ReduceSuppressionPolicy(
                             policy,
                             ObserveSuppression(d.taskbar, screenshot,
                                                d.notification, policy.committed,
                                                d.foreground),
                             Now)
         /\ pass' = [pass EXCEPT
                       !.flags = @ \cup IF bound THEN {"Reposition", "Render"}
                                                ELSE {},
                       !.restoring = /\ policy'.committed # policy.committed
                                     /\ policy'.committed = "None"]
    /\ pc' = IF "ApplyStyle" \in pass.flags THEN "style" ELSE "commit"
    /\ UNCHANGED <<environment, identity, owner, hwnd, tray, clickThrough,
                   deferred, recreate, retries, repairWaits, hideFailed,
                   addFailed>>

ApplyStyle ==
    /\ pc = "style"
    /\ \E ok \in May("style") :
         /\ window' = Styled(window, pass.overlay, ok)
         /\ IF ok /\ IsWindow(pass.overlay)
              THEN /\ pass' = [pass EXCEPT !.flags = @ \ {"ApplyStyle"}]
                   /\ pc' = "commit"
                   /\ UNCHANGED <<deferred, hideFailed>>
              ELSE /\ Leave({"ResetSurface", "ApplyStyle"})
                   /\ hideFailed' = (hideFailed \/ ~Intent.shouldBeVisible)
    /\ UNCHANGED <<environment, identity, owner, hwnd, tray, clickThrough,
                   suppression, recreate, retries, repairWaits, addFailed>>

HideSuppressed ==
    /\ pc = "commit" /\ ~Intent.shouldBeVisible
    /\ \E ok \in May("hide") :
         /\ window' = CommitOverlayHidden(window, pass.overlay, ok)
         /\ hideFailed' = ~ok
    /\ Leave({"ResetSurface"})
    /\ UNCHANGED <<environment, identity, owner, hwnd, tray, clickThrough,
                   suppression, recreate, retries, repairWaits, addFailed>>

\* Under a screenshot, and for a while after it, the overlay is left as it is;
\* in that while it is kept on top.
\* (Faulty variant: only the while after it counts.)
FaultyHolds == resume = "running"

Holds == Intent.updatesFrozen \/ resume = "running"

HoldFrozen ==
    /\ pc = "commit" /\ Intent.shouldBeVisible
    /\ Holds
    /\ IF ShouldPromoteOverlayDuringScreenshotResume(Intent, frozen,
                                                     resume = "running")
         THEN \E ok \in May("position") : window' = Promoted(window, pass.overlay, ok)
         ELSE UNCHANGED window
    /\ Leave({"ResetSurface"})
    /\ UNCHANGED <<environment, identity, owner, hwnd, tray, clickThrough,
                   suppression, recreate, retries, repairWaits, hideFailed,
                   addFailed>>

GoOnVisible ==
    /\ pc = "commit" /\ Intent.shouldBeVisible
    /\ ~Holds
    /\ IF resume = "passed"
         THEN /\ \E ok \in May("position") :
                   window' = Promoted(window, pass.overlay, ok)
              /\ pass' = [pass EXCEPT !.flags = @ \cup {"Reposition", "Render"}]
         ELSE UNCHANGED <<window, pass>>
    /\ resume' = "none"
    /\ pc' = "choose"
    /\ UNCHANGED <<environment, identity, owner, hwnd, tray, clickThrough, policy,
                   frozen, deferred, recreate, retries, repairWaits, hideFailed,
                   addFailed>>

-----------------------------------------------------------------------------
(* Prepare a show, or keep what is shown.                                  *)

PrepareRequired ==
    \/ pass.created \/ pass.changed \/ pass.restoring
    \/ "ResetSurface" \in pass.flags
    \/ ~IsWindowVisible(pass.overlay)
    \/ showRetry

ForceAttempt == pass.created \/ pass.changed \/ pass.restoring \/ pass.forced

PostponeShow ==
    /\ pc = "choose" /\ PrepareRequired
    /\ ~ForceAttempt /\ showWaits
    /\ Leave({"ResetSurface"})
    /\ UNCHANGED <<environment, window, identity, owner, hwnd, tray, clickThrough,
                   suppression, recreate, retries, repairWaits, hideFailed,
                   addFailed>>

StartPrepare ==
    /\ pc = "choose" /\ PrepareRequired
    /\ ForceAttempt \/ ~showWaits
    /\ pass' = [NoPass EXCEPT !.overlay = pass.overlay,
                              !.reset = "ResetSurface" \in pass.flags]
    /\ pc' = "hide"
    /\ UNCHANGED <<environment, window, identity, owner, hwnd, tray, clickThrough,
                   suppression, deferred, recreate, retries, repairWaits,
                   hideFailed, addFailed>>

\* PrepareOverlayForShow returned: only the reconciler keeps account of it.
PrepareReturns(succeeded) ==
    /\ IF pass.repairing THEN UNCHANGED <<showRetry, showWaits>>
         ELSE showRetry' = ~succeeded /\ showWaits' = ~succeeded
    /\ Leave({})

PrepareHide ==
    /\ pc = "hide"
    /\ \E ok \in May("hide") :
         /\ window' = IF pass.reset THEN CommitOverlayHidden(window, pass.overlay, ok)
                                    ELSE window
         /\ IF IsWindow(pass.overlay)
                  /\ (pass.reset /\ IsWindowVisible(pass.overlay) => ok)
              THEN pc' = "dress" /\ UNCHANGED <<pass, deferred, showRetry, showWaits>>
              ELSE PrepareReturns(FALSE)
    /\ UNCHANGED <<environment, identity, owner, hwnd, tray, clickThrough,
                   suppression, recreate, destroyWaits, repairWaits, hideFailed,
                   addFailed>>

\* Style, position, and the surface where it was asked for.  Only a failure of
\* the first style call ends the attempt, and nothing is painted on a window that
\* the surface's reset leaves unlayered; the position is that of the current
\* overlay.
PrepareDress ==
    /\ pc = "dress"
    /\ \E styled \in May("style"), placed \in May("position"),
          restored \in May("style"), raised \in May("position") :
         IF styled /\ IsWindow(pass.overlay)
           THEN /\ LET placedWindow ==
                         Raised(Styled(window, pass.overlay, TRUE), hwnd, placed)
                   IN  window' = IF pass.reset
                                   THEN ResetLayeredSurface(
                                            placedWindow, pass.overlay,
                                            restored, raised)
                                   ELSE placedWindow
                /\ pc' = "paint"
                /\ UNCHANGED <<pass, deferred, showRetry, showWaits>>
           ELSE UNCHANGED window /\ PrepareReturns(FALSE)
    /\ UNCHANGED <<environment, identity, owner, hwnd, tray, clickThrough,
                   suppression, recreate, destroyWaits, repairWaits, hideFailed,
                   addFailed>>

\* (Faulty variant: shown whether or not it could be painted.)
FaultyPresented(ok) == TRUE

Presented(ok) == ok /\ IsWindow(pass.overlay) /\ window[pass.overlay].layered

PreparePaint ==
    /\ pc = "paint"
    /\ \E ok \in May("present") :
         /\ window' = Painted(window, pass.overlay, ok)
         /\ IF Presented(ok)
              THEN pc' = "show" /\ UNCHANGED <<pass, deferred, showRetry, showWaits>>
              ELSE PrepareReturns(FALSE)
    /\ UNCHANGED <<environment, identity, owner, hwnd, tray, clickThrough,
                   suppression, recreate, destroyWaits, repairWaits, hideFailed,
                   addFailed>>

PrepareShow ==
    /\ pc = "show"
    /\ \E ok \in May("show") :
         LET shown == ok /\ IsWindow(pass.overlay)
         IN  /\ window' = IF shown THEN Shown(window, pass.overlay) ELSE window
             /\ PrepareReturns(shown)
    /\ UNCHANGED <<environment, identity, owner, hwnd, tray, clickThrough,
                   suppression, recreate, destroyWaits, repairWaits, hideFailed,
                   addFailed>>

\* The overlay is up: promote, place and repaint it as asked, then check it.
KeepShown ==
    /\ pc = "choose" /\ ~PrepareRequired
    /\ \E shows \in May("show"), placed \in May("position"), ok \in May("present"),
          moved \in BOOLEAN :
         LET promoted ==
               IF ShouldPromoteOverlayForTaskViewTransition(
                    Intent, IsWindowVisible(pass.overlay),
                    "PromoteForTaskView" \in pass.flags)
                 THEN Raised(window, pass.overlay, shows) ELSE window
             positioned ==
               IF "Reposition" \in pass.flags THEN Raised(promoted, hwnd, placed)
                                              ELSE promoted
             renders == \/ "Render" \in pass.flags
                        \/ "Reposition" \in pass.flags /\ placed /\ moved
         IN  window' = IF renders THEN Painted(positioned, pass.overlay, ok)
                                  ELSE positioned
    /\ pass' = NoPass
    /\ pc' = "repair"
    /\ UNCHANGED <<environment, identity, owner, hwnd, tray, clickThrough,
                   suppression, deferred, recreate, retries, repairWaits,
                   hideFailed, addFailed>>

-----------------------------------------------------------------------------
(* RepairOverlayInvariant(CaptureOverlayState(true)).                      *)

RepairObservation(stale) ==
    [valid |-> IsWindow(hwnd), visible |-> IsWindowVisible(hwnd),
     topmost |-> IsWindow(hwnd) /\ window[hwnd].topmost,
     layered |-> IsWindow(hwnd) /\ window[hwnd].layered,
     rectValid |-> IsWindow(hwnd), stale |-> stale]

Sound(o) == o.valid /\ o.visible /\ o.topmost /\ o.layered /\ ~o.stale

LeaveUnrepaired ==
    /\ pc = "repair"
    /\ repairWaits \/ Sound(RepairObservation(FALSE))
    /\ Leave({})
    /\ UNCHANGED <<environment, window, identity, owner, hwnd, tray, clickThrough,
                   suppression, recreate, retries, repairWaits, hideFailed,
                   addFailed>>

\* A damaged but visible overlay is mended in place.
MendInPlace(plan) ==
    /\ \E styled \in May("style"), placed \in May("position"), ok \in May("present"),
          moved \in BOOLEAN :
         LET dressed == IF plan.style THEN Styled(window, hwnd, styled) ELSE window
             raised == IF plan.reposition THEN Raised(dressed, hwnd, placed)
                                          ELSE dressed
             renders == /\ plan.style => styled
                        /\ plan.present \/ (plan.reposition /\ placed /\ moved)
         IN  window' = IF renders THEN Painted(raised, hwnd, ok) ELSE raised
    /\ Leave({})
    /\ UNCHANGED <<hwnd, owner>>

\* One that is missing or hidden is created if need be, and shown anew.
ShowAnew(plan) ==
    \E r \in IF plan.ensure THEN EnsureOutcomes
             ELSE {[ok |-> TRUE, created |-> FALSE, window |-> window,
                    hwnd |-> hwnd, owner |-> owner]} :
        /\ window' = r.window /\ hwnd' = r.hwnd /\ owner' = r.owner
        /\ IF r.hwnd # None /\ (r.created \/ ~IsWindowVisible(r.hwnd))
             THEN /\ pass' = [NoPass EXCEPT !.overlay = r.hwnd, !.repairing = TRUE]
                  /\ pc' = "hide"
                  /\ UNCHANGED deferred
             ELSE Leave({})

RepairOverlay ==
    /\ pc = "repair" /\ ~repairWaits
    /\ \E stale \in BOOLEAN :
         /\ ~Sound(RepairObservation(stale))
         /\ LET plan == ComputeOverlayRepairIntent(RepairObservation(stale))
            IN  IF IsWindowVisible(hwnd) THEN MendInPlace(plan)
                                         ELSE ShowAnew(plan)
    /\ repairWaits' = TRUE
    /\ UNCHANGED <<environment, identity, tray, clickThrough, suppression,
                   recreate, retries, hideFailed, addFailed>>

-----------------------------------------------------------------------------
(* The environment: nothing below is the program's doing, except that it   *)
(* hears of the end of its window.                                         *)

untouched == <<calm, identity, clickThrough, suppression, deferred, recreate,
               retries, repairWaits, pc, pass, hideFailed, addFailed>>

\* WM_DESTROY reaches OverlayWindowProc, in the middle of a pass if need be.
OverlayVanishes(h) ==
    /\ ~calm /\ "vanish" \in Damages /\ IsWindow(h)
    /\ window' = [window EXCEPT ![h] = NoWindow]
    /\ IF h = hwnd THEN hwnd' = None /\ owner' = 0 ELSE UNCHANGED <<hwnd, owner>>
    /\ UNCHANGED <<shell, tray, untouched>>

OverlayDamaged(h) ==
    /\ ~calm /\ IsWindow(h)
    /\ \/ "hidden" \in Damages /\ window' = [window EXCEPT ![h].visible = FALSE]
       \/ "topmost" \in Damages /\ window' = [window EXCEPT ![h].topmost = FALSE]
       \/ "layered" \in Damages /\ window' = [window EXCEPT ![h].layered = FALSE]
    /\ UNCHANGED <<shell, tray, hwnd, owner, untouched>>

\* The notification icons go with Explorer; the overlay may (OverlayVanishes).
ExplorerExits ==
    /\ ~calm /\ shell # NoIdentity
    /\ shell' = NoIdentity /\ tray' = FALSE
    /\ UNCHANGED <<window, hwnd, owner, untouched>>

\* A new Explorer is told apart from the committed one by handle or process.
ExplorerStarts(t) ==
    /\ ~calm /\ shell = NoIdentity /\ t # identity.committed
    /\ shell' = t
    /\ UNCHANGED <<window, tray, hwnd, owner, untouched>>

ComesToRest ==
    /\ ~calm /\ shell # NoIdentity
    /\ calm' = TRUE
    /\ UNCHANGED <<shell, window, identity, owner, hwnd, tray, clickThrough,
                   suppression, deferred, recreate, retries, repairWaits, pc,
                   pass, hideFailed, addFailed>>

\* A delay is over.
Settles ==
    /\ identity.since = Now
    /\ identity' = [identity EXCEPT !.since = 0]
    /\ UNCHANGED <<policy, resume, retries, repairWaits>>

Dwells ==
    /\ policy.since = Now
    /\ policy' = [policy EXCEPT !.since = 0]
    /\ UNCHANGED <<identity, resume, retries, repairWaits>>

ResumeDelayPasses ==
    /\ resume = "running"
    /\ resume' = "passed"
    /\ UNCHANGED <<identity, policy, retries, repairWaits>>

RetryDelayPasses ==
    /\ destroyWaits \/ showWaits
    /\ destroyWaits' = FALSE /\ showWaits' = FALSE
    /\ UNCHANGED <<identity, policy, resume, showRetry, repairWaits>>

RepairDelayPasses ==
    /\ repairWaits
    /\ repairWaits' = FALSE
    /\ UNCHANGED <<identity, policy, resume, retries>>

Elapse(delay) ==
    /\ delay
    /\ UNCHANGED <<environment, window, owner, hwnd, tray, clickThrough, frozen,
                   deferred, recreate, pc, pass, hideFailed, addFailed>>

-----------------------------------------------------------------------------
Step ==
    \/ WaitForTaskbar \/ JudgeTaskbar
    \/ PostponeDestroy \/ DestroyFails \/ DestroyOverlay
    \/ RefreshTrayIcon \/ KeepTrayIcon
    \/ TaskbarUnavailable \/ EnsureOverlay
    \/ ObserveDesktop \/ ApplyStyle
    \/ HideSuppressed \/ HoldFrozen \/ GoOnVisible
    \/ PostponeShow \/ StartPrepare
    \/ PrepareHide \/ PrepareDress \/ PreparePaint \/ PrepareShow
    \/ KeepShown \/ LeaveUnrepaired \/ RepairOverlay

Start == ToggleClickThrough \/ \E trigger \in Triggers : Begin(trigger)

Program == Start \/ Step

Environment ==
    \/ \E h \in Windows : OverlayVanishes(h) \/ OverlayDamaged(h)
    \/ ExplorerExits
    \/ \E t \in Taskbars : ExplorerStarts(t)
    \/ ComesToRest

Time ==
    \/ Elapse(Settles) \/ Elapse(Dwells) \/ Elapse(ResumeDelayPasses)
    \/ Elapse(RetryDelayPasses) \/ Elapse(RepairDelayPasses)

Next == Program \/ Environment \/ Time

Spec == Init /\ [][Next]_vars

(* Time passes, a pass once started is carried through, and the timers     *)
(* keep starting passes (the state timer alone does so every 100 ms).      *)
Fairness ==
    /\ WF_vars(Step) /\ WF_vars(Start)
    /\ WF_vars(Elapse(Settles)) /\ WF_vars(Elapse(Dwells))
    /\ WF_vars(Elapse(ResumeDelayPasses))
    /\ WF_vars(Elapse(RetryDelayPasses)) /\ WF_vars(Elapse(RepairDelayPasses))

FairSpec == Spec /\ Fairness

-----------------------------------------------------------------------------
(* Properties.                                                             *)

(* Type correctness of the program's state, of the windows and of the      *)
(* locals of a pass.                                                       *)
TypeOK ==
    /\ shell \in Taskbars \cup {NoIdentity} /\ calm \in BOOLEAN
    /\ window \in [Windows -> WindowState]
    /\ identity \in [committed : Taskbars \cup {NoIdentity},
                     candidate : Taskbars \cup {NoIdentity},
                     since : 0 .. Now, active : BOOLEAN]
    /\ owner \in Nat /\ hwnd \in Windows \cup {None}
    /\ tray \in BOOLEAN /\ clickThrough \in BOOLEAN
    /\ policy \in SuppressionPolicyState /\ policy.since \in 0 .. Now
    /\ frozen \in BOOLEAN /\ resume \in {"none", "running", "passed"}
    /\ deferred \subseteq DeferredActions
    /\ recreate \in BOOLEAN /\ destroyWaits \in BOOLEAN
    /\ showRetry \in BOOLEAN /\ showWaits \in BOOLEAN /\ repairWaits \in BOOLEAN
    /\ pc \in Steps /\ pass \in PassState
    /\ hideFailed \in BOOLEAN /\ addFailed \in BOOLEAN

(* There is never an overlay window the program has lost track of: every   *)
(* window that exists is the one in overlay_hwnd, through failed           *)
(* destructions, failed creations and windows destroyed from outside.      *)
SingleOverlay == \A h \in Windows : window[h].exists => h = hwnd

(* The overlay belongs to the committed Explorer generation, handle and    *)
(* process, or its destruction is pending: what README.md calls one        *)
(* taskbar-owned overlay for each committed taskbar generation.            *)
OwnedByTheCommittedTaskbar ==
    IsWindow(hwnd) /\ ~recreate /\ ~(pc = "judge" /\ pass.changed)
        => /\ window[hwnd].owner = identity.committed
           /\ owner = identity.committed.hwnd

(* Whatever is visible has been painted since it was created, hidden by    *)
(* the program or had its surface reset (README.md: a hidden overlay is    *)
(* presented successfully before it is shown again).                       *)
PresentedBeforeShown == \A h \in Windows : window[h].visible => window[h].fresh

(* A window becomes visible only when the decision in force allows it:     *)
(* nothing suppresses the overlay, no screenshot is being taken and the    *)
(* pause after one is over, and it belongs to the Explorer that was last   *)
(* committed.                                                              *)
ShownOnlyWhenIntended ==
    [][\A h \in Windows :
         ~window[h].visible /\ window'[h].visible
            => /\ policy.committed = "None" /\ ~frozen /\ resume = "none"
               /\ h = hwnd /\ window[h].owner = identity.committed]_vars

(* A visible overlay is hidden by the program only for a reason: a         *)
(* suppression in force, its Explorer gone, or a surface reset that will   *)
(* show it again (README.md: transient or failed observations preserve the *)
(* last committed visibility decision).                                    *)
HiddenOnlyForAReason ==
    [][Program => \A h \in Windows :
         window[h].visible /\ ~window'[h].visible
            => \/ policy.committed # "None"
               \/ ~CommittedTaskbarReady \/ recreate
               \/ pc = "hide" /\ pass.reset]_vars

(* Between passes a suppressed overlay is hidden, unless the latest pass    *)
(* that was to hide it could not: the hide was refused, or the style that   *)
(* comes before it failed and the pass returned there.  A pass that gets    *)
(* past both leaves nothing visible, whatever failed in earlier ones.       *)
SuppressedIsHidden ==
    pc = "idle" /\ policy.committed # "None" /\ ~hideFailed
        => \A h \in Windows : ~window[h].visible

(* A visible overlay lets clicks through exactly as the user last chose,   *)
(* or applying the choice is still owed by this pass or by a later one:    *)
(* no early return of a pass forgets it.                                   *)
ClickThroughIsAppliedOrOwed ==
    \A h \in Windows :
        window[h].visible /\ window[h].transparent # clickThrough
            => "ApplyStyle" \in deferred \cup pass.flags

(* Between passes the notification icon is there, or the Explorer that     *)
(* should carry it is not committed yet, or adding it is owed, or the      *)
(* latest attempt was refused.                                             *)
TrayIconIsThereOrOwed ==
    pc = "idle" =>
        \/ tray \/ addFailed
        \/ shell = NoIdentity \/ shell # identity.committed \/ recreate
        \/ "RefreshTrayIcon" \in deferred

(* Once nothing fails and nothing disturbs, the overlay of the running     *)
(* Explorer is up, painted, on top and in the chosen click-through mode,   *)
(* and stays so.                                                           *)
Restored ==
    /\ identity.committed = shell
    /\ IsWindowVisible(hwnd)
    /\ LET w == window[hwnd]
       IN  /\ w.fresh /\ w.topmost /\ w.layered
           /\ w.owner = shell /\ w.transparent = clickThrough

Recovers == calm ~> []Restored
=============================================================================
