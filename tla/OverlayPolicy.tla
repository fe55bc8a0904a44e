---------------------------- MODULE OverlayPolicy ----------------------------
(***************************************************************************)
(* The pure decisions of overlay_policy.h, and the observations main-dev   *)
(* feeds them.  Enumerators are strings, a reducer's result is a record.   *)
(* Time stamps are naturals on one clock; every delay is a constant, so a  *)
(* configuration may scale the milliseconds of the source down.            *)
(***************************************************************************)
EXTENDS Naturals

CONSTANTS
    EnterDelay,       \* kSuppressionPolicyConfig.enter_delay_ms      (250)
    ExitDelay,        \* kSuppressionPolicyConfig.exit_delay_ms       (500)
    FastEnterDelay,   \* kSuppressionPolicyConfig.fast_enter_delay_ms (0)
    FastExitDelay,    \* kSuppressionPolicyConfig.fast_exit_delay_ms  (100)
    SettleDelay       \* kTaskbarIdentitySettleMs                     (250)

\* The identity reducer never commits on the first sighting, so its delay is
\* a real one; the suppression delays may be zero (fast enter is).
ASSUME DelayAssumption ==
    /\ EnterDelay \in Nat /\ ExitDelay \in Nat
    /\ FastEnterDelay \in Nat /\ FastExitDelay \in Nat
    /\ SettleDelay \in Nat \ {0}

-----------------------------------------------------------------------------
(* Observation of the desktop.                                             *)

Reasons == {"None", "TaskbarHidden", "FullscreenPresentation"}
Profiles == {"Default", "Fast"}
TaskbarVisibilities == {"Unknown", "Hidden", "Visible"}
PresentationVisibilities == {"Unknown", "Clear", "Fullscreen"}

SuppressionObservation ==
    [known : BOOLEAN, reason : Reasons, profile : Profiles]

UnknownSuppression ==
    [known |-> FALSE, reason |-> "None", profile |-> "Default"]

KnownSuppression(reason, profile) ==
    [known |-> TRUE, reason |-> reason, profile |-> profile]

\* A screenshot tool in front hides what the desktop really shows, so it
\* yields no observation at all.
ResolveSuppressionObservation(taskbar, screenshot, presentation) ==
    IF screenshot \/ taskbar = "Unknown" THEN UnknownSuppression
    ELSE IF taskbar = "Hidden" THEN KnownSuppression("TaskbarHidden", "Default")
    ELSE IF presentation = "Unknown" THEN UnknownSuppression
    ELSE KnownSuppression(IF presentation = "Fullscreen"
                            THEN "FullscreenPresentation" ELSE "None",
                          "Default")

\* What the foreground window looks like: the coverage of the first window of
\* its owner chain that covers the monitor, whether that window is a PowerPoint
\* slide show, whether the process is PowerPoint, and whether the window is
\* PowerPoint's unowned editor frame.
Foregrounds ==
    {f \in [coverage : {"Unknown", "Clear", "Covers"}, slideshow : BOOLEAN,
            powerPoint : BOOLEAN, editor : BOOLEAN] :
        /\ f.slideshow => f.coverage = "Covers" /\ f.powerPoint
        /\ f.editor => f.powerPoint}

\* SHQueryUserNotificationState: a failed call, one of the three states that
\* may hide the overlay, "accepts notifications", or any other state.
NotificationStates == {"Failed", "MaySuppress", "Accepts", "Other"}

\* PowerPoint is looked at a second time only to leave its own slide show.
\* (Faulty variant: whatever hides the overlay.)
FaultyLooksAtPowerPoint(committed, f) == f.powerPoint

LooksAtPowerPoint(committed, f) ==
    committed = "FullscreenPresentation" /\ f.powerPoint

ObservePresentation(notification, committed, f) ==
    LET Seen(visibility, profile) ==
          [visibility |-> visibility, profile |-> profile]
    IN  IF notification = "Failed" THEN Seen("Unknown", "Default")
        ELSE IF notification = "MaySuppress"
          THEN IF f.coverage = "Unknown" THEN Seen("Unknown", "Default")
               ELSE Seen(IF f.coverage = "Covers" THEN "Fullscreen" ELSE "Clear",
                         IF f.slideshow THEN "Fast" ELSE "Default")
        ELSE IF ~LooksAtPowerPoint(committed, f)
          THEN Seen("Clear", "Default")
        ELSE IF f.slideshow THEN Seen("Fullscreen", "Fast")
        ELSE IF f.coverage = "Unknown" THEN Seen("Unknown", "Default")
        ELSE Seen("Clear",
                  IF notification = "Accepts" /\ f.coverage = "Clear" /\ f.editor
                    THEN "Fast" ELSE "Default")

ObserveSuppression(taskbar, screenshot, notification, committed, f) ==
    LET presentation ==
          IF screenshot THEN [visibility |-> "Clear", profile |-> "Default"]
          ELSE ObservePresentation(notification, committed, f)
        observation ==
          ResolveSuppressionObservation(taskbar, screenshot,
                                        presentation.visibility)
    IN  IF observation.known /\ taskbar = "Visible"
          THEN [observation EXCEPT !.profile = presentation.profile]
          ELSE observation

\* A desktop without a screenshot tool in front, as far as it is looked at.
Desktops ==
    [taskbar : TaskbarVisibilities, notification : NotificationStates,
     foreground : Foregrounds]

\* Every observation the running program can obtain of them while `committed'
\* holds.
SuppressionObservations(committed) ==
    {ObserveSuppression(d.taskbar, FALSE, d.notification, committed,
                        d.foreground) : d \in Desktops}

-----------------------------------------------------------------------------
(* The suppression reducer.                                                *)

SuppressionPolicyState ==
    [committed : Reasons, candidate : Reasons, since : Nat, active : BOOLEAN,
     profile : Profiles]

SettledPolicy(reason) ==
    [committed |-> reason, candidate |-> reason, since |-> 0, active |-> FALSE,
     profile |-> "Default"]

RequiredDelay(observation) ==
    IF observation.reason = "None"
      THEN IF observation.profile = "Fast" THEN FastExitDelay ELSE ExitDelay
      ELSE IF observation.profile = "Fast" THEN FastEnterDelay ELSE EnterDelay

\* An observation that leaves nothing to decide: none at all, or the reason
\* already in force.  (Faulty variant first: an unknown observation is read as
\* the reason "None" it carries by default.)
FaultyUnknownIsNone(state, observation) ==
    observation.reason = state.committed

NothingToDecide(state, observation) ==
    ~observation.known \/ observation.reason = state.committed

\* (Faulty variant: the profile is not compared.)
FaultyContinuesAcrossProfiles(state, observation) ==
    state.active /\ state.candidate = observation.reason

ContinuesCandidate(state, observation) ==
    /\ state.active
    /\ state.candidate = observation.reason
    /\ state.profile = observation.profile

ReduceSuppressionPolicy(state, observation, now) ==
    IF NothingToDecide(state, observation)
      THEN SettledPolicy(state.committed)
    ELSE LET since == IF ContinuesCandidate(state, observation)
                        THEN state.since ELSE now
         IN  IF now - since < RequiredDelay(observation)
               THEN [committed |-> state.committed,
                     candidate |-> observation.reason, since |-> since,
                     active |-> TRUE, profile |-> observation.profile]
               ELSE SettledPolicy(observation.reason)

-----------------------------------------------------------------------------
(* The taskbar identity reducer.  An identity is a window handle and a     *)
(* process id; zero in either field means the lookup failed.               *)

NoIdentity == [hwnd |-> 0, pid |-> 0]

IdentityKnown(identity) == identity.hwnd # 0 /\ identity.pid # 0

SettledIdentity(identity) ==
    [committed |-> identity, candidate |-> identity, since |-> 0,
     active |-> FALSE]

\* (Faulty variant: only the window handles are compared, so a new Explorer
\* that is given the old handle passes for the old one.)
FaultyServesByHandle(state, observed) == observed.hwnd = state.committed.hwnd

IsCommitted(state, observed) == observed = state.committed

ContinuesIdentity(state, observed) == state.active /\ state.candidate = observed

HasSettled(since, now) == now - since >= SettleDelay

\* (Faulty variant: a failed lookup leaves the candidate standing.)
FaultyKeepsCandidate(state) == state

DropsCandidate(state) == SettledIdentity(state.committed)

CommitsIdentity(observed) ==
    [state |-> SettledIdentity(observed), pending |-> FALSE, changed |-> TRUE]

\* The next state, whether the overlay has to wait for the identity to settle,
\* and whether a new identity was committed.
ReduceTaskbarIdentity(state, observed, now) ==
    IF ~IdentityKnown(observed)
      THEN [state |-> DropsCandidate(state), pending |-> TRUE, changed |-> FALSE]
    ELSE IF IsCommitted(state, observed)
      THEN [state |-> SettledIdentity(state.committed), pending |-> FALSE,
            changed |-> FALSE]
    ELSE IF ~ContinuesIdentity(state, observed)
      THEN [state |-> [committed |-> state.committed, candidate |-> observed,
                       since |-> now, active |-> TRUE],
            pending |-> TRUE, changed |-> FALSE]
    ELSE IF ~HasSettled(state.since, now)
      THEN [state |-> state, pending |-> TRUE, changed |-> FALSE]
    ELSE CommitsIdentity(observed)

-----------------------------------------------------------------------------
(* What the overlay should be.                                             *)

\* (Faulty variant: a hidden taskbar is forgotten.)
FaultyComputeOverlayIntent(ready, committed, screenshot) ==
    [shouldExist |-> ready,
     shouldBeVisible |-> ready /\ committed # "FullscreenPresentation",
     updatesFrozen |-> screenshot \/ committed = "FullscreenPresentation"]

ComputeOverlayIntent(ready, committed, screenshot) ==
    [shouldExist |-> ready,
     shouldBeVisible |-> ready /\ committed = "None",
     updatesFrozen |-> screenshot \/ committed # "None"]

ShouldPromoteOverlayDuringScreenshotResume(intent, screenshot, resumePending) ==
    intent.shouldBeVisible /\ ~screenshot /\ resumePending

ShouldPromoteOverlayForTaskViewTransition(intent, visible, transition) ==
    /\ intent.shouldBeVisible /\ ~intent.updatesFrozen
    /\ visible /\ transition

HasNewPresentation(sequence, requiredAfter) == sequence > requiredAfter

\* What a damaged overlay needs; an invisible one needs everything.
ComputeOverlayRepairIntent(o) ==
    IF ~o.valid \/ ~o.visible
      THEN [ensure |-> ~o.valid, style |-> TRUE, reposition |-> TRUE,
            present |-> TRUE, commitVisible |-> TRUE]
      ELSE [ensure |-> FALSE, style |-> ~o.layered,
            reposition |-> ~o.topmost \/ ~o.rectValid,
            present |-> o.stale \/ ~o.layered \/ ~o.rectValid,
            commitVisible |-> FALSE]
=============================================================================
