------------------------ MODULE StableOverlayProofs ------------------------
(***************************************************************************)
(* Proofs about StableOverlay, for every range of the tick count, every    *)
(* delay, and every set of reasons, sources, faults and damages.           *)
(***************************************************************************)
EXTENDS StableOverlay, TLAPS

(* What a handler may see.                                                 *)
Views == [suppress : BOOLEAN, freeze : BOOLEAN, explorer : BOOLEAN,
          tick : Ticks, failed : SUBSET Faults]

LEMMA Remainders ==
  ASSUME NEW x \in Int PROVE x % TickRange \in Ticks
<1>1. TickRange \in Nat /\ TickRange > 0
  BY StableAssumption
<1>2. x % TickRange \in 0 .. TickRange - 1
  BY <1>1, Z3
<1>3. QED
  BY <1>2 DEF Ticks

LEMMA Deadlines ==
  ASSUME NEW tick \in Ticks, NEW delay \in {Warmup, Burst, Resume}
  PROVE  Deadline(tick, delay) \in Ticks
<1>1. TickRange \in Nat /\ TickRange \div 2 \in Int
  BY StableAssumption, Z3
<1>2. tick + delay \in Int
  BY <1>1, StableAssumption DEF Ticks
<1>3. QED
  BY <1>2, Remainders DEF Deadline

-----------------------------------------------------------------------------
(* What an operation keeps: the type of the monitor, and a suppression     *)
(* that is in force.                                                       *)
LEMMA InstallTimerType ==
  ASSUME NEW s \in Monitor, NEW e \in Views, NEW timer \in TimerIds
  PROVE  InstallTimer(s, e, timer) \in Monitor
BY DEF InstallTimer, Monitor

LEMMA StartZOrderBurstType ==
  ASSUME NEW s \in Monitor, NEW e \in Views
  PROVE  StartZOrderBurst(s, e) \in Monitor
<1>1. Deadline(e.tick, Burst) \in Ticks
  BY Deadlines DEF Views
<1>2. [s EXCEPT !.until = Deadline(e.tick, Burst)] \in Monitor
  BY <1>1 DEF Monitor
<1>3. QED
  BY <1>2, InstallTimerType DEF StartZOrderBurst, TimerIds

LEMMA SetPlacementTimerType ==
  ASSUME NEW s \in Monitor, NEW e \in Views, NEW fast \in BOOLEAN
  PROVE  SetPlacementTimer(s, e, fast) \in Monitor
<1>1. \A t \in Monitor : [t EXCEPT !.timers = @ \cup {"Placement"}] \in Monitor
  BY DEF Monitor, TimerIds
<1>2. \A t \in Monitor : [t EXCEPT !.fast = fast] \in Monitor
  BY DEF Monitor
<1>3. [s EXCEPT !.timers = @ \cup {"Placement"}, !.fast = fast] =
        [[s EXCEPT !.timers = @ \cup {"Placement"}] EXCEPT !.fast = fast]
  BY DEF Monitor
<1>4. QED
  BY <1>1, <1>2, <1>3 DEF SetPlacementTimer

LEMMA RestorePlacementTimerType ==
  ASSUME NEW s \in Monitor, NEW e \in Views
  PROVE  RestorePlacementTimer(s, e) \in Monitor
BY SetPlacementTimerType DEF RestorePlacementTimer

LEMMA RenderOverlayType ==
  ASSUME NEW s \in Monitor, NEW e \in Views
  PROVE  RenderOverlay(s, e) \in Monitor
<1>1. \A t \in Monitor : [t EXCEPT !.content = "Current"] \in Monitor
  BY DEF Monitor
<1>2. \A t \in Monitor : [t EXCEPT !.framed = TRUE] \in Monitor
  BY DEF Monitor
<1>3. [s EXCEPT !.content = "Current", !.framed = TRUE] =
        [[s EXCEPT !.content = "Current"] EXCEPT !.framed = TRUE]
  BY DEF Monitor
<1>4. QED
  BY <1>1, <1>2, <1>3 DEF RenderOverlay

LEMMA ReapplyLastFrameType ==
  ASSUME NEW s \in Monitor, NEW e \in Views
  PROVE  ReapplyLastFrame(s, e) \in Monitor
BY DEF ReapplyLastFrame, Monitor

LEMMA AttachType ==
  ASSUME NEW s \in Monitor PROVE AttachToTaskbarOwner(s) \in Monitor
BY DEF AttachToTaskbarOwner, Monitor

LEMMA SuppressType ==
  ASSUME NEW s \in Monitor, NEW e \in Views
  PROVE  Suppress(s, e) \in Monitor /\ ~Suppress(s, e).visible
<1>1. [s EXCEPT !.suppressed = TRUE] \in Monitor
  BY DEF Monitor
<1> DEFINE t == RestorePlacementTimer([s EXCEPT !.suppressed = TRUE], e)
<1>2. t \in Monitor
  BY <1>1, RestorePlacementTimerType
<1> HIDE DEF t
<1>3. [t EXCEPT !.visible = FALSE] \in Monitor
  BY <1>2 DEF Monitor
<1>4. [t EXCEPT !.visible = FALSE].visible = FALSE
  BY <1>2 DEF Monitor
<1>5. QED
  BY <1>3, <1>4 DEF Suppress, t

LEMMA UpdateFreezeStateType ==
  ASSUME NEW s \in Monitor, NEW e \in Views
  PROVE  UpdateFreezeState(s, e) \in Monitor
<1>1. Deadline(e.tick, Resume) \in Ticks
  BY Deadlines DEF Views
<1>2. [s EXCEPT !.frozen = e.freeze,
                !.resume = IF s.frozen /\ ~e.freeze
                             THEN Deadline(e.tick, Resume) ELSE @] \in Monitor
  BY <1>1 DEF Monitor, Views
<1>3. QED
  BY <1>2, ReapplyLastFrameType DEF UpdateFreezeState

LEMMA NoResumeType == ASSUME NEW s \in Monitor
                      PROVE  [s EXCEPT !.resume = 0] \in Monitor
<1>1. 0 \in Ticks
  BY StableAssumption DEF Ticks
<1>2. QED
  BY <1>1 DEF Monitor

LEMMA VisibleType ==
  ASSUME NEW s \in Monitor, NEW visible \in BOOLEAN
  PROVE  [s EXCEPT !.visible = visible] \in Monitor
BY DEF Monitor

LEMMA ShownOnTopType ==
  ASSUME NEW s \in Monitor, NEW e \in Views
  PROVE  ShownOnTop(s, e) \in Monitor
<1> DEFINE t == SetPlacementTimer(s, e, FALSE)
<1>1. t \in Monitor
  BY SetPlacementTimerType
<1> HIDE DEF t
<1>2. /\ Suppress(t, e) \in Monitor /\ UpdateFreezeState(t, e) \in Monitor
      /\ RenderOverlay([t EXCEPT !.resume = 0], e) \in Monitor
  BY <1>1, SuppressType, UpdateFreezeStateType, NoResumeType,
     RenderOverlayType
<1>3. QED
  BY <1>1, <1>2 DEF ShownOnTop, t

LEMMA KeepOverlayOnTopType ==
  ASSUME NEW s \in Monitor, NEW e \in Views
  PROVE  /\ KeepOverlayOnTop(s, e) \in Monitor
         /\ s.suppressed => KeepOverlayOnTop(s, e) = s
BY ShownOnTopType, VisibleType DEF KeepOverlayOnTop

LEMMA FreezeGuardType ==
  ASSUME NEW s \in Monitor, NEW e \in Views
  PROVE  FreezeGuard(s, e) \in Monitor
BY UpdateFreezeStateType, KeepOverlayOnTopType DEF FreezeGuard

LEMMA ShownType ==
  ASSUME NEW s \in Monitor, NEW e \in Views
  PROVE  Shown(s, e) \in Monitor
<1> DEFINE t == SetPlacementTimer(s, e, FALSE)
<1>1. t \in Monitor
  BY SetPlacementTimerType
<1> HIDE DEF t
<1>2. /\ Suppress(t, e) \in Monitor /\ FreezeGuard(t, e) \in Monitor
      /\ RenderOverlay([t EXCEPT !.resume = 0], e) \in Monitor
  BY <1>1, SuppressType, FreezeGuardType, NoResumeType, RenderOverlayType
<1>3. QED
  BY <1>1, <1>2 DEF Shown, t

LEMMA ShowWindowType ==
  ASSUME NEW s \in Monitor, NEW e \in Views
  PROVE  ShowWindow(s, e) \in Monitor
BY ShownType, VisibleType, KeepOverlayOnTopType DEF ShowWindow

LEMMA RepositionWindowType ==
  ASSUME NEW s \in Monitor, NEW e \in Views
  PROVE  RepositionWindow(s, e) \in Monitor
<1>0. \A t \in Monitor : [t EXCEPT !.placed = TRUE] \in Monitor
  BY DEF Monitor
<1>1. [s EXCEPT !.visible = TRUE, !.placed = TRUE] \in Monitor
  <2>1. [s EXCEPT !.visible = TRUE, !.placed = TRUE] =
          [[s EXCEPT !.visible = TRUE] EXCEPT !.placed = TRUE]
    BY DEF Monitor
  <2>2. QED
    BY <1>0, <2>1, VisibleType
<1>2. QED
  BY <1>1, KeepOverlayOnTopType DEF RepositionWindow

LEMMA UnsuppressType ==
  ASSUME NEW s \in Monitor, NEW e \in Views
  PROVE  Unsuppress(s, e) \in Monitor
<1>1. [s EXCEPT !.suppressed = FALSE] \in Monitor
  BY DEF Monitor
<1>2. QED
  BY <1>1, RestorePlacementTimerType, ShowWindowType, RepositionWindowType,
     ReapplyLastFrameType, RenderOverlayType DEF Unsuppress

(* A suppression that holds hides, whatever was done before.               *)
LEMMA UpdateOverlaySuppressionType ==
  ASSUME NEW s \in Monitor, NEW e \in Views
  PROVE  /\ UpdateOverlaySuppression(s, e) \in Monitor
         /\ e.suppress => /\ Handled(s, e)
                          /\ ~UpdateOverlaySuppression(s, e).visible
BY SuppressType, UnsuppressType DEF UpdateOverlaySuppression, Handled

LEMMA GuardsType ==
  ASSUME NEW s \in Monitor, NEW e \in Views
  PROVE  /\ HandleOverlayStateGuards(s, e) \in Monitor
         /\ e.suppress => /\ Stopped(s, e)
                          /\ ~HandleOverlayStateGuards(s, e).visible
BY UpdateOverlaySuppressionType, FreezeGuardType, NoResumeType
DEF HandleOverlayStateGuards, Stopped

LEMMA HandleShowWindowType ==
  ASSUME NEW s \in Monitor, NEW e \in Views
  PROVE  HandleShowWindow(s, e) \in Monitor
BY SetPlacementTimerType, UnsuppressType, ShownType DEF HandleShowWindow

LEMMA ResetLayeredSurfaceType ==
  ASSUME NEW s \in Monitor, NEW e \in Views
  PROVE  ResetLayeredSurface(s, e) \in Monitor
<1> DEFINE l == s.layered /\ Works(e, "style")
           v == s.visible \/ Works(e, "position")
           t == [s EXCEPT !.content = "Blank",
                          !.layered = @ /\ Works(e, "style"),
                          !.visible = @ \/ Works(e, "position")]
<1>1. t \in Monitor
  <2>1. l \in BOOLEAN /\ v \in BOOLEAN
    OBVIOUS
  <2>2. t = [[[s EXCEPT !.content = "Blank"] EXCEPT !.layered = l]
                EXCEPT !.visible = v]
    BY Zenon DEF Monitor
  <2> HIDE DEF l, v
  <2>3. \A u \in Monitor : [u EXCEPT !.content = "Blank"] \in Monitor
    BY DEF Monitor
  <2>4. \A u \in Monitor : [u EXCEPT !.layered = l] \in Monitor
    BY <2>1 DEF Monitor
  <2>5. QED
    BY <2>1, <2>2, <2>3, <2>4, VisibleType
<1>2. QED
  BY <1>1, KeepOverlayOnTopType, ReapplyLastFrameType DEF ResetLayeredSurface

LEMMA RefreshedType ==
  ASSUME NEW s \in Monitor, NEW e \in Views
  PROVE  /\ Refreshed(s, e) \in Monitor
         /\ e.suppress => ~Refreshed(s, e).visible
BY UpdateOverlaySuppressionType, RepositionWindowType, RenderOverlayType
DEF Refreshed

LEMMA InitializeMonitorType ==
  ASSUME NEW s \in Monitor, NEW e \in Views
  PROVE  /\ InitializeMonitor(s, e) \in Monitor
         /\ e.suppress /\ ~s.visible => ~InitializeMonitor(s, e).visible
<1> DEFINE started == [AttachToTaskbarOwner(s) EXCEPT !.initialized = TRUE]
           refreshing == InstallTimer(started, e, "Refresh")
           timed == InstallTimer(SetPlacementTimer(refreshing, e, FALSE), e,
                                 "State")
<1>1. started \in Monitor
  <2>1. AttachToTaskbarOwner(s) \in Monitor
    BY AttachType
  <2>2. \A t \in Monitor : [t EXCEPT !.initialized = TRUE] \in Monitor
    BY DEF Monitor
  <2>3. QED
    BY <2>1, <2>2
<1> HIDE DEF started
<1>2. timed \in Monitor
  BY <1>1, InstallTimerType, SetPlacementTimerType DEF TimerIds
<1>3. InitializeMonitor(s, e) =
        IF s.initialized THEN s
        ELSE IF Handled(timed, e) THEN UpdateOverlaySuppression(timed, e)
        ELSE ShowWindow(Refreshed(timed, e), e)
  BY DEF InitializeMonitor, started
<1> HIDE DEF timed
<1>4. QED
  BY <1>2, <1>3, UpdateOverlaySuppressionType, RefreshedType, ShowWindowType

-----------------------------------------------------------------------------
(* The messages.                                                           *)

LEMMA SeenIsAView ==
  ASSUME TypeOK, NEW failed \in Failing
  PROVE  /\ Seen(failed) \in Views /\ Seen(failed).suppress = SuppressionReason
         /\ (Costs(failed) => trouble' \in 0 .. MaxTrouble)
<1>1. failed \in SUBSET Faults
  BY DEF Failing
<1>2. SuppressionReason \in BOOLEAN /\ desktop.screenshot \in BOOLEAN
      /\ desktop.explorer \in BOOLEAN /\ now \in Ticks
  BY DEF TypeOK, SuppressionReason
<1>3. Costs(failed) => trouble' \in 0 .. MaxTrouble
  BY StableAssumption DEF TypeOK, Costs, Failing, Calm
<1>4. QED
  BY <1>1, <1>2, <1>3 DEF Seen, Views

(* The monitor after a handler that sees e: its type, and an overlay that  *)
(* is hidden with good reason.                                             *)
Keeps(t, e) ==
    /\ t \in Monitor
    /\ e.suppress /\ m.suppressed /\ ~m.visible => ~t.visible

LEMMA Unseen ==
  ASSUME TypeOK, NEW e \in Views, NEW t \in Monitor,
         t.visible = m.visible
  PROVE  Keeps(t, e)
BY DEF Keeps

LEMMA HandlersKeep ==
  ASSUME TypeOK, NEW e \in Views
  PROVE  /\ Keeps(m, e)
         /\ Keeps(HandleOverlayStateGuards(m, e), e)
         /\ Keeps(Refreshed(m, e), e)
         /\ Keeps(Refreshed(AttachToTaskbarOwner(m), e), e)
         /\ Keeps(UpdateOverlaySuppression(m, e), e)
<1>1. m \in Monitor /\ AttachToTaskbarOwner(m) \in Monitor
  BY AttachType DEF TypeOK
<1>2. QED
  BY <1>1, GuardsType, RefreshedType, UpdateOverlaySuppressionType DEF Keeps

LEMMA TimersKeep ==
  ASSUME TypeOK, StartupInitTimer \/ BurstTimer \/ StateTimer \/ RefreshTimer
                 \/ PlacementTimer
  PROVE  \E failed \in Failing : Costs(failed) /\ Keeps(m', Seen(failed))
<1> USE SeenIsAView
<1>0. m \in Monitor /\ 0 \in Ticks
  BY StableAssumption DEF TypeOK, Ticks
<1>1. CASE StartupInitTimer
  <2>1. PICK failed \in Failing :
          /\ Costs(failed)
          /\ m' = InitializeMonitor([m EXCEPT !.timers = @ \ {"StartupInit"}],
                                    Seen(failed))
    BY <1>1 DEF StartupInitTimer
  <2> DEFINE s == [m EXCEPT !.timers = @ \ {"StartupInit"}]
  <2>2. s \in Monitor /\ s.visible = m.visible
    BY <1>0 DEF Monitor
  <2> HIDE DEF s
  <2>3. Keeps(InitializeMonitor(s, Seen(failed)), Seen(failed))
    BY <2>2, InitializeMonitorType DEF Keeps
  <2>4. QED
    BY <2>1, <2>3 DEF s
<1>2. CASE BurstTimer
  <2>1. PICK failed \in Failing :
          /\ Costs(failed)
          /\ m' = IF m.suppressed \/ m.until = 0 \/ TickPassed(now, m.until)
                    THEN [m EXCEPT !.timers = @ \ {"Burst"}, !.until = 0]
                    ELSE ReapplyLastFrame(RepositionWindow(m, Seen(failed)),
                                          Seen(failed))
    BY <1>2 DEF BurstTimer
  <2>2. /\ [m EXCEPT !.timers = @ \ {"Burst"}, !.until = 0] \in Monitor
        /\ [m EXCEPT !.timers = @ \ {"Burst"}, !.until = 0].visible = m.visible
    BY <1>0 DEF Monitor
  <2>3. ReapplyLastFrame(RepositionWindow(m, Seen(failed)), Seen(failed))
          \in Monitor
    BY <1>0, RepositionWindowType, ReapplyLastFrameType
  <2>4. Keeps(m', Seen(failed))
    BY <2>1, <2>2, <2>3 DEF Keeps
  <2>5. QED
    BY <2>1, <2>4
<1>3. CASE StateTimer
  <2>1. PICK failed \in Failing, changed \in BOOLEAN :
          /\ Costs(failed)
          /\ m' = IF changed /\ ~Stopped(m, Seen(failed))
                    THEN RenderOverlay(
                           HandleOverlayStateGuards(m, Seen(failed)),
                           Seen(failed))
                    ELSE HandleOverlayStateGuards(m, Seen(failed))
    BY <1>3 DEF StateTimer
  <2>2. QED
    BY <1>0, <2>1, GuardsType, RenderOverlayType DEF Keeps
<1>4. CASE RefreshTimer
  <2>1. PICK failed \in Failing :
          /\ Costs(failed)
          /\ m' = IF Stopped(m, Seen(failed))
                    THEN HandleOverlayStateGuards(m, Seen(failed))
                    ELSE RenderOverlay(
                           RepositionWindow(
                             HandleOverlayStateGuards(m, Seen(failed)),
                             Seen(failed)),
                           Seen(failed))
    BY <1>4 DEF RefreshTimer
  <2>2. QED
    BY <1>0, <2>1, GuardsType, RenderOverlayType, RepositionWindowType
    DEF Keeps
<1>5. CASE PlacementTimer
  <2>1. PICK failed \in Failing :
          /\ Costs(failed)
          /\ m' = IF Stopped(m, Seen(failed))
                    THEN HandleOverlayStateGuards(m, Seen(failed))
                    ELSE RepositionWindow(
                           HandleOverlayStateGuards(m, Seen(failed)),
                           Seen(failed))
    BY <1>5 DEF PlacementTimer
  <2>2. QED
    BY <1>0, <2>1, GuardsType, RepositionWindowType DEF Keeps
<1>6. QED
  BY <1>1, <1>2, <1>3, <1>4, <1>5

LEMMA MessagesKeep ==
  ASSUME TypeOK, TrayLayoutChanged \/ TaskbarCreated
  PROVE  \E failed \in Failing : Costs(failed) /\ Keeps(m', Seen(failed))
<1> USE SeenIsAView
<1>0. m \in Monitor
  BY DEF TypeOK
<1>1. CASE TrayLayoutChanged
  <2>1. PICK failed \in Failing :
          /\ Costs(failed)
          /\ m' = IF ~m.initialized THEN m
                  ELSE Refreshed(AttachToTaskbarOwner(
                                   StartZOrderBurst(m, Seen(failed))),
                                 Seen(failed))
    BY <1>1 DEF TrayLayoutChanged
  <2>2. AttachToTaskbarOwner(StartZOrderBurst(m, Seen(failed))) \in Monitor
    BY <1>0, StartZOrderBurstType, AttachType
  <2>3. Keeps(m', Seen(failed))
    BY <1>0, <2>1, <2>2, RefreshedType DEF Keeps
  <2>4. QED
    BY <2>1, <2>3
<1>2. CASE TaskbarCreated
  <2>1. PICK failed \in Failing :
          /\ Costs(failed)
          /\ m' = IF ~m.initialized THEN m
                  ELSE Refreshed(AttachToTaskbarOwner(m), Seen(failed))
    BY <1>2 DEF TaskbarCreated
  <2>2. QED
    BY <2>1, HandlersKeep
<1>3. QED
  BY <1>1, <1>2

(* Unguarded: what shows the overlay against a suppression.                *)
LEMMA ForegroundType ==
  ASSUME TypeOK, ForegroundChanged
  PROVE  m' \in Monitor /\ \E failed \in Failing : Costs(failed)
<1>0. m \in Monitor
  BY DEF TypeOK
<1>1. PICK failed \in Failing : Costs(failed) /\
        LET e == Seen(failed)
            center == foreground = "ControlCenter"
            t == StartZOrderBurst([m EXCEPT !.controlCenter = center], e)
            s == ReapplyLastFrame(RepositionWindow(t, e), e)
        IN  m' = CASE ~m.initialized -> m
                   [] m.initialized /\ m.controlCenter
                                    /\ foreground = "Taskbar" ->
                        ResetLayeredSurface(s, e)
                   [] OTHER -> s
  BY DEF ForegroundChanged
<1> DEFINE e == Seen(failed)
           center == foreground = "ControlCenter"
           u == [m EXCEPT !.controlCenter = center]
           s == ReapplyLastFrame(RepositionWindow(StartZOrderBurst(u, e), e), e)
<1>2. e \in Views
  BY SeenIsAView
<1>3. u \in Monitor
  <2>1. \A c \in BOOLEAN : [m EXCEPT !.controlCenter = c] \in Monitor
    BY <1>0 DEF Monitor
  <2>2. QED
    BY <2>1
<1> HIDE DEF e, u
<1>4. s \in Monitor
  BY <1>2, <1>3, StartZOrderBurstType, RepositionWindowType,
     ReapplyLastFrameType
<1>5. m' \in {m, ResetLayeredSurface(s, e), s}
  BY <1>1 DEF e, u
<1> HIDE DEF s
<1>6. QED
  BY <1>0, <1>1, <1>2, <1>4, <1>5, ResetLayeredSurfaceType

LEMMA CreateType ==
  ASSUME TypeOK, NEW atStartup \in BOOLEAN, Create(atStartup)
  PROVE  m' \in Monitor /\ \E failed \in Failing : Costs(failed)
<1>1. PICK failed \in Failing : Costs(failed) /\
        LET e == Seen(failed)
            created == [m EXCEPT !.owned = e.explorer]
        IN  m' = IF ~atStartup
                   THEN ShowWindow(InitializeMonitor(created, e), e)
                 ELSE IF Works(e, "timer")
                   THEN InstallTimer(created, e, "StartupInit")
                 ELSE InitializeMonitor(created, e)
  BY DEF Create
<1> DEFINE e == Seen(failed)
           created == [m EXCEPT !.owned = e.explorer]
<1>2. e \in Views
  BY SeenIsAView
<1> HIDE DEF e
<1>3. created \in Monitor
  <2>1. e.explorer \in BOOLEAN
    BY <1>2 DEF Views
  <2>2. QED
    BY <2>1 DEF TypeOK, Monitor
<1> HIDE DEF created
<1>4. /\ InitializeMonitor(created, e) \in Monitor
      /\ ShowWindow(InitializeMonitor(created, e), e) \in Monitor
      /\ InstallTimer(created, e, "StartupInit") \in Monitor
  BY <1>2, <1>3, InitializeMonitorType, ShowWindowType, InstallTimerType
  DEF TimerIds
<1>5. m' \in {ShowWindow(InitializeMonitor(created, e), e),
              InstallTimer(created, e, "StartupInit"),
              InitializeMonitor(created, e)}
  BY <1>1 DEF e, created
<1>6. QED
  BY <1>1, <1>4, <1>5

LEMMA Displaced ==
  ASSUME NEW s \in Monitor
  PROVE  /\ [s EXCEPT !.placed = FALSE] \in Monitor
         /\ [s EXCEPT !.placed = FALSE].visible = s.visible
         /\ [s EXCEPT !.placed = FALSE].suppressed = s.suppressed
BY DEF Monitor

(* Commands, and messages that somebody else causes.                       *)
LEMMA CommandsKeep ==
  ASSUME TypeOK, DisplayChanged \/ DpiChanged \/ ReloadConfig
                 \/ RecoverTaskbar \/ OutsideHide \/ TrayEvent
  PROVE  /\ m' \in Monitor
         /\ SuppressionReason /\ m.suppressed /\ ~m.visible => ~m'.visible
<1> USE SeenIsAView
<1>0. m \in Monitor
  BY DEF TypeOK
<1>1. CASE DisplayChanged
  <2>1. PICK failed \in Failing :
          LET s == [m EXCEPT !.placed = FALSE]
          IN  m' = IF ~m.initialized THEN s
                   ELSE Refreshed(AttachToTaskbarOwner(s), Seen(failed))
    BY <1>1 DEF DisplayChanged
  <2> DEFINE s == [m EXCEPT !.placed = FALSE]
  <2>2. s \in Monitor /\ s.visible = m.visible
    BY <1>0, Displaced
  <2>3. m' = s \/ m' = Refreshed(AttachToTaskbarOwner(s), Seen(failed))
    BY <2>1
  <2> HIDE DEF s
  <2>4. QED
    BY <2>2, <2>3, AttachType, RefreshedType
<1>2. CASE DpiChanged
  <2>1. PICK failed \in Failing :
          LET e == Seen(failed)
              s == [m EXCEPT !.placed = FALSE]
          IN  m' = Refreshed(IF Works(e, "position") THEN KeepOverlayOnTop(s, e)
                             ELSE s, e)
    BY <1>2 DEF DpiChanged
  <2> DEFINE e == Seen(failed)
             s == [m EXCEPT !.placed = FALSE]
             t == IF Works(e, "position") THEN KeepOverlayOnTop(s, e) ELSE s
  <2>2. s \in Monitor
    BY <1>0, Displaced
  <2> HIDE DEF s
  <2>3. e \in Views /\ t \in Monitor /\ e.suppress = SuppressionReason
    BY <2>2, KeepOverlayOnTopType
  <2>4. m' = Refreshed(t, e)
    BY <2>1 DEF s
  <2> HIDE DEF e, t
  <2>5. QED
    BY <2>3, <2>4, RefreshedType
<1>3. CASE ReloadConfig
  BY <1>0, <1>3, RefreshedType DEF ReloadConfig
<1>4. CASE RecoverTaskbar
  <2>1. PICK failed \in Failing :
          LET e == Seen(failed)
              s == StartZOrderBurst([m EXCEPT !.owned = e.explorer,
                                              !.tracked = e.explorer], e)
              shown == RepositionWindow(ShowWindow(s, e), e)
          IN  m' = IF Handled(s, e) THEN UpdateOverlaySuppression(s, e)
                   ELSE RenderOverlay(ResetLayeredSurface(shown, e), e)
    BY <1>4 DEF RecoverTaskbar
  <2> DEFINE e == Seen(failed)
             u == [m EXCEPT !.owned = e.explorer, !.tracked = e.explorer]
             s == StartZOrderBurst(u, e)
             shown == RepositionWindow(ShowWindow(s, e), e)
  <2>2. e \in Views /\ e.suppress = SuppressionReason
    OBVIOUS
  <2>3. /\ Handled(s, e) => m' = UpdateOverlaySuppression(s, e)
        /\ ~Handled(s, e) =>
             m' = RenderOverlay(ResetLayeredSurface(shown, e), e)
    BY <2>1
  <2> HIDE DEF e
  <2>4. u \in Monitor
    <3>1. e.explorer \in BOOLEAN
      BY <2>2 DEF Views
    <3>2. \A b \in BOOLEAN, t \in Monitor :
            /\ [t EXCEPT !.owned = b] \in Monitor
            /\ [t EXCEPT !.tracked = b] \in Monitor
      BY DEF Monitor
    <3>3. u = [[m EXCEPT !.owned = e.explorer] EXCEPT !.tracked = e.explorer]
      BY <1>0, Zenon DEF Monitor
    <3> HIDE DEF u
    <3>4. QED
      BY <1>0, <3>1, <3>2, <3>3
  <2> HIDE DEF u
  <2>5. s \in Monitor
    BY <2>2, <2>4, StartZOrderBurstType
  <2> HIDE DEF s
  <2>6. shown \in Monitor
    BY <2>2, <2>5, ShowWindowType, RepositionWindowType
  <2> HIDE DEF shown
  <2>7. QED
    BY <2>2, <2>3, <2>5, <2>6, UpdateOverlaySuppressionType,
       ResetLayeredSurfaceType, RenderOverlayType
<1>5. CASE OutsideHide
  <2>1. PICK failed \in Failing :
          LET e == Seen(failed)
              fast == StartZOrderBurst(SetPlacementTimer(m, e, TRUE), e)
              s == IF m.initialized /\ ~m.suppressed
                     THEN ReapplyLastFrame(fast, e) ELSE m
          IN  m' = KeepOverlayOnTop([s EXCEPT !.visible = FALSE], e)
    BY <1>5 DEF OutsideHide
  <2> DEFINE e == Seen(failed)
             fast == StartZOrderBurst(SetPlacementTimer(m, e, TRUE), e)
             s == IF m.initialized /\ ~m.suppressed
                    THEN ReapplyLastFrame(fast, e) ELSE m
  <2>2. s \in Monitor /\ e \in Views
    BY <1>0, SetPlacementTimerType, StartZOrderBurstType, ReapplyLastFrameType
  <2>3. m' = KeepOverlayOnTop([s EXCEPT !.visible = FALSE], e)
    BY <2>1
  <2> HIDE DEF s, e
  <2>4. m' \in Monitor
    BY <2>2, <2>3, VisibleType, KeepOverlayOnTopType
  <2>5. m.visible
    BY <1>5 DEF OutsideHide
  <2>6. QED
    BY <2>4, <2>5
<1>6. CASE TrayEvent
  BY <1>0, <1>6, Displaced DEF TrayEvent
<1>7. QED
  BY <1>1, <1>2, <1>3, <1>4, <1>5, <1>6

LEMMA ShowsType ==
  ASSUME TypeOK, DoubleClick \/ OutsideShow
  PROVE  m' \in Monitor
<1>0. m \in Monitor
  BY DEF TypeOK
<1>1. CASE DoubleClick
  BY <1>0, <1>1, SeenIsAView, RepositionWindowType DEF DoubleClick
<1>2. CASE OutsideShow
  <2>1. PICK failed \in Failing :
          m' = KeepOverlayOnTop([HandleShowWindow(m, Seen(failed))
                                    EXCEPT !.visible = TRUE], Seen(failed))
    BY <1>2 DEF OutsideShow
  <2>2. HandleShowWindow(m, Seen(failed)) \in Monitor /\ Seen(failed) \in Views
    BY <1>0, SeenIsAView, HandleShowWindowType
  <2>3. [HandleShowWindow(m, Seen(failed)) EXCEPT !.visible = TRUE] \in Monitor
    BY <2>2, VisibleType
  <2>4. QED
    BY <2>1, <2>2, <2>3, KeepOverlayOnTopType
<1>3. QED
  BY <1>1, <1>2

(* The end of the window is the end of the program.                        *)
LEMMA NewMonitorType == NewMonitor \in Monitor /\ ~NewMonitor.visible
<1>1. 0 \in Ticks
  BY StableAssumption DEF Ticks
<1>2. QED
  BY <1>1 DEF NewMonitor, Monitor, TimerIds

LEMMA OthersKeep ==
  ASSUME TypeOK,
         \/ Exit \/ ForegroundEvent \/ DesktopChanges \/ ExplorerDies
         \/ ExplorerStarts \/ BecomeCalm \/ Tick \/ UNCHANGED vars
  PROVE  m' \in Monitor /\ (m'.visible = m.visible \/ ~m'.visible)
<1>1. m \in Monitor
  BY DEF TypeOK
<1>2. CASE Tick
  BY <1>1, <1>2 DEF Tick, Monitor
<1>3. CASE Exit \/ ForegroundEvent \/ DesktopChanges \/ ExplorerDies
           \/ ExplorerStarts \/ BecomeCalm \/ UNCHANGED vars
  BY <1>1, <1>3, NewMonitorType
  DEF Exit, HandleDestroy, ForegroundEvent, Interferes, DesktopChanges,
      ExplorerDies, ExplorerStarts, BecomeCalm, vars
<1>4. QED
  BY <1>2, <1>3

-----------------------------------------------------------------------------
(* Every step.                                                             *)
LEMMA MonitorTyped == TypeOK /\ [Next]_vars => m' \in Monitor
<1> SUFFICES ASSUME TypeOK, [Next]_vars PROVE m' \in Monitor
  OBVIOUS
<1>1. CASE \E atStartup \in BOOLEAN : Create(atStartup)
  BY <1>1, CreateType
<1>2. CASE StartupInitTimer \/ BurstTimer \/ StateTimer \/ RefreshTimer
           \/ PlacementTimer
  BY <1>2, TimersKeep DEF Keeps
<1>3. CASE TrayLayoutChanged \/ TaskbarCreated
  BY <1>3, MessagesKeep DEF Keeps
<1>4. CASE ForegroundChanged
  BY <1>4, ForegroundType
<1>5. CASE DisplayChanged \/ DpiChanged \/ ReloadConfig \/ RecoverTaskbar
           \/ OutsideHide \/ TrayEvent
  BY <1>5, CommandsKeep
<1>6. CASE DoubleClick \/ OutsideShow
  BY <1>6, ShowsType
<1>7. CASE Exit \/ ForegroundEvent \/ DesktopChanges \/ ExplorerDies
           \/ ExplorerStarts \/ BecomeCalm \/ Tick \/ UNCHANGED vars
  BY <1>7, OthersKeep
<1>8. QED
  BY <1>1, <1>2, <1>3, <1>4, <1>5, <1>6, <1>7 DEF Next, Program, Environment

LEMMA TroubleTyped ==
  TypeOK /\ [Next]_vars => trouble' \in 0 .. MaxTrouble
<1> SUFFICES ASSUME TypeOK, [Next]_vars PROVE trouble' \in 0 .. MaxTrouble
  OBVIOUS
<1>0. trouble \in 0 .. MaxTrouble /\ MaxTrouble \in Nat
  BY StableAssumption DEF TypeOK
<1>1. (\E failed \in Failing : Costs(failed)) => trouble' \in 0 .. MaxTrouble
  BY SeenIsAView
<1>2. CASE \E atStartup \in BOOLEAN : Create(atStartup)
  BY <1>1, <1>2, CreateType
<1>3. CASE Program
  BY <1>1, <1>3, TimersKeep, MessagesKeep, ForegroundType DEF Program
<1>4. Troubled => trouble' \in 0 .. MaxTrouble
  BY <1>0 DEF Troubled, Calm
<1>5. CASE Environment
  <2>1. Troubled \/ trouble' = 0
    BY <1>5 DEF Environment, DisplayChanged, DpiChanged, ReloadConfig,
       RecoverTaskbar, DoubleClick, Exit, OutsideHide, OutsideShow, TrayEvent,
       ForegroundEvent, DesktopChanges, ExplorerDies, ExplorerStarts,
       BecomeCalm, Interferes
  <2>2. QED
    BY <1>0, <1>4, <2>1
<1>6. CASE Tick \/ UNCHANGED vars
  BY <1>0, <1>6 DEF Tick, vars
<1>7. QED
  BY <1>2, <1>3, <1>5, <1>6 DEF Next

LEMMA TimeTyped ==
  TypeOK /\ [Next]_vars => /\ now' \in Ticks /\ warm' \in Ticks
                           /\ due' \subseteq FastTimers /\ quiet' \in 0 .. MaxQuiet
<1> SUFFICES ASSUME TypeOK, [Next]_vars
             PROVE  /\ now' \in Ticks /\ warm' \in Ticks
                    /\ due' \subseteq FastTimers /\ quiet' \in 0 .. MaxQuiet
  OBVIOUS
<1>0. /\ now \in Ticks /\ warm \in Ticks
      /\ due \subseteq FastTimers /\ quiet \in 0 .. MaxQuiet
  BY DEF TypeOK
<1>1. CASE Tick
  <2>1. MaxQuiet \in Int
    BY StableAssumption, Z3 DEF MaxQuiet
  <2>2. quiet' \in 0 .. MaxQuiet
    BY <1>0, <1>1, <2>1 DEF Tick
  <2>3. now' \in Ticks
    <3>1. now + 1 \in Int
      BY <1>0 DEF Ticks
    <3>2. QED
      BY <1>1, <3>1, Remainders DEF Tick
  <2>4. QED
    BY <1>0, <1>1, <2>2, <2>3 DEF Tick, FastTimers
<1>2. CASE Program
  <2>1. UNCHANGED <<now, warm, quiet>> /\ due' \subseteq due
    BY <1>2 DEF Program, StartupInitTimer, BurstTimer, StateTimer, RefreshTimer,
       PlacementTimer, TrayLayoutChanged, ForegroundChanged, TaskbarCreated,
       Fires, world
  <2>2. QED
    BY <1>0, <2>1
<1>3. CASE \/ \E atStartup \in BOOLEAN : Create(atStartup)
           \/ Environment \/ UNCHANGED vars
  <2>1. UNCHANGED <<now, warm, due, quiet>>
    BY <1>3 DEF Create, Environment, DisplayChanged, DpiChanged, ReloadConfig,
       RecoverTaskbar, DoubleClick, Exit, OutsideHide, OutsideShow, TrayEvent,
       ForegroundEvent, DesktopChanges, ExplorerDies, ExplorerStarts,
       BecomeCalm, Interferes, vars
  <2>2. QED
    BY <1>0, <2>1
<1>4. QED
  BY <1>1, <1>2, <1>3 DEF Next

\* The queue and the desktop.
QueueTyped ==
    /\ phase \in {"New", "Running", "Exited"}
    /\ marked \in BOOLEAN /\ posted \subseteq {"Layout", "Created"}
    /\ foreground \in Sources \cup {"None"}
    /\ desktop \in [reason : Reasons, screenshot : BOOLEAN, explorer : BOOLEAN]

(* The mark is set together with the message, and the message leaves the   *)
(* queue when it takes the mark away, or with the whole queue.             *)
LEMMA QueueHeld ==
  QueueTyped /\ MarkHasItsMessage /\ [Next]_vars
    => QueueTyped' /\ MarkHasItsMessage'
<1> SUFFICES ASSUME QueueTyped, MarkHasItsMessage, [Next]_vars
             PROVE  QueueTyped' /\ MarkHasItsMessage'
  OBVIOUS
<1> USE DEF QueueTyped, MarkHasItsMessage
<1>1. CASE \/ \E atStartup \in BOOLEAN : Create(atStartup)
           \/ StartupInitTimer \/ BurstTimer \/ StateTimer \/ RefreshTimer
           \/ PlacementTimer \/ Tick \/ BecomeCalm \/ UNCHANGED vars
  BY <1>1 DEF Create, StartupInitTimer, BurstTimer, StateTimer, RefreshTimer,
     PlacementTimer, Fires, world, queue, Tick, BecomeCalm, vars
<1>2. CASE TrayLayoutChanged \/ ForegroundChanged \/ TaskbarCreated
  <2>1. /\ UNCHANGED <<phase, desktop>>
        /\ \/ foreground' \in {foreground, "None"} /\ marked' = FALSE
              /\ posted' = posted \ {"Layout"}
           \/ foreground' \in {foreground, "None"} /\ marked' = marked
              /\ posted' = posted
           \/ foreground' \in {foreground, "None"} /\ marked' = marked
              /\ posted' = posted \ {"Created"}
    BY <1>2 DEF TrayLayoutChanged, ForegroundChanged, TaskbarCreated, world
  <2>2. /\ phase' \in {"New", "Running", "Exited"} /\ marked' \in BOOLEAN
        /\ foreground' \in Sources \cup {"None"}
        /\ desktop' \in [reason : Reasons, screenshot : BOOLEAN,
                         explorer : BOOLEAN]
    BY <2>1
  <2>3. posted' \subseteq {"Layout", "Created"}
    BY <2>1
  <2>4. marked' => "Layout" \in posted'
    BY <2>1
  <2>5. QED
    BY <2>2, <2>3, <2>4
<1>3. CASE DisplayChanged \/ DpiChanged \/ ReloadConfig \/ RecoverTaskbar
           \/ DoubleClick \/ OutsideHide \/ OutsideShow
  <2>1. UNCHANGED <<phase, desktop, marked, posted, foreground>>
    BY <1>3 DEF DisplayChanged, DpiChanged, ReloadConfig, RecoverTaskbar,
       DoubleClick, OutsideHide, OutsideShow, queue
  <2>2. QED
    BY <2>1
<1>4. CASE TrayEvent
  <2>1. /\ UNCHANGED <<phase, desktop, foreground>>
        /\ \/ UNCHANGED <<marked, posted>>
           \/ marked' = TRUE /\ posted' = posted \cup {"Layout"}
    BY <1>4 DEF TrayEvent
  <2>2. marked' \in BOOLEAN
    BY <2>1
  <2>3. marked' => "Layout" \in posted'
    BY <2>1
  <2>4. posted' \subseteq {"Layout", "Created"}
    BY <2>1
  <2>5. QED
    BY <2>1, <2>2, <2>3, <2>4
<1>7. CASE ForegroundEvent
  <2>1. /\ UNCHANGED <<phase, desktop, marked, posted>>
        /\ foreground' \in Sources
    BY <1>7 DEF ForegroundEvent
  <2>2. QED
    BY <2>1
<1>5. CASE Exit \/ ExplorerDies \/ ExplorerStarts
  <2>1. desktop' \in [reason : Reasons, screenshot : BOOLEAN,
                      explorer : BOOLEAN]
    <3>1. Exit => desktop' = desktop
      BY DEF Exit
    <3>2. ExplorerDies => desktop' = [desktop EXCEPT !.explorer = FALSE]
      BY DEF ExplorerDies
    <3>3. ExplorerStarts => desktop' = [desktop EXCEPT !.explorer = TRUE]
      BY DEF ExplorerStarts
    <3>4. QED
      BY <1>5, <3>1, <3>2, <3>3
  <2>2. \/ /\ phase' = "Exited" /\ marked' = FALSE /\ posted' = {}
           /\ foreground' = "None"
        \/ /\ UNCHANGED <<phase, marked, foreground>>
           /\ posted' \in {posted, posted \cup {"Created"}}
    BY <1>5 DEF Exit, ExplorerDies, ExplorerStarts, HandleDestroy, queue
  <2>3. /\ phase' \in {"New", "Running", "Exited"} /\ marked' \in BOOLEAN
        /\ foreground' \in Sources \cup {"None"}
    BY <2>2
  <2>4. posted' \subseteq {"Layout", "Created"}
    BY <2>2
  <2>5. marked' => "Layout" \in posted'
    BY <2>2
  <2>6. QED
    BY <2>1, <2>3, <2>4, <2>5
<1>6. CASE DesktopChanges
  BY <1>6 DEF DesktopChanges, queue
<1>8. QED
  BY <1>1, <1>2, <1>3, <1>4, <1>5, <1>6, <1>7 DEF Next, Program, Environment

LEMMA TypeIsItsParts ==
  TypeOK <=> /\ m \in Monitor /\ QueueTyped
             /\ now \in Ticks /\ warm \in Ticks
             /\ trouble \in 0 .. MaxTrouble /\ due \subseteq FastTimers
             /\ quiet \in 0 .. MaxQuiet
BY DEF TypeOK, QueueTyped

IInv == TypeOK /\ MarkHasItsMessage

LEMMA Starts == Init => IInv
<1> SUFFICES ASSUME Init PROVE IInv
  OBVIOUS
<1>1. Start \in Ticks /\ MaxTrouble \in Nat /\ MaxQuiet \in Nat
  <2>1. TickRange \div 2 \in Nat
    BY StableAssumption, Z3
  <2>2. QED
    BY <2>1, StableAssumption DEF Ticks, MaxQuiet
<1>2. warm \in Ticks
  BY <1>1, Deadlines DEF Init
<1>3. QueueTyped /\ MarkHasItsMessage
  BY DEF Init, QueueTyped, MarkHasItsMessage
<1>4. trouble \in 0 .. MaxTrouble /\ quiet \in 0 .. MaxQuiet
  BY <1>1 DEF Init
<1>5. m \in Monitor /\ now \in Ticks /\ due \subseteq FastTimers
  BY <1>1, NewMonitorType DEF Init
<1>6. QED
  BY <1>2, <1>3, <1>4, <1>5, TypeIsItsParts DEF IInv

LEMMA Steps == IInv /\ [Next]_vars => IInv'
<1> SUFFICES ASSUME IInv, [Next]_vars PROVE IInv'
  OBVIOUS
<1>1. m' \in Monitor
  BY MonitorTyped DEF IInv
<1>2. QueueTyped' /\ MarkHasItsMessage'
  BY QueueHeld, TypeIsItsParts DEF IInv
<1>3. trouble' \in 0 .. MaxTrouble
  BY TroubleTyped DEF IInv
<1>4. /\ now' \in Ticks /\ warm' \in Ticks
      /\ due' \subseteq FastTimers /\ quiet' \in 0 .. MaxQuiet
  BY TimeTyped DEF IInv
<1>5. QED
  BY <1>1, <1>2, <1>3, <1>4 DEF IInv, TypeOK, QueueTyped

(* What the program keeps, and when its calls may cost something, is       *)
(* defined for every reachable state.                                      *)
THEOREM TypeCorrect == Spec => []TypeOK
<1>1. Init => IInv
  BY Starts
<1>2. IInv /\ [Next]_vars => IInv'
  BY Steps
<1>3. IInv => TypeOK
  BY DEF IInv
<1>4. QED
  BY <1>1, <1>2, <1>3, PTL DEF Spec

(* MarkHasItsMessage: the mark that makes TrayEventProc drop an event      *)
(* stands only while the message that takes it away is queued, whatever is *)
(* lost and however the window ends.                                       *)
THEOREM MarkHeld == Spec => []MarkHasItsMessage
<1>1. Init => IInv
  BY Starts
<1>2. IInv /\ [Next]_vars => IInv'
  BY Steps
<1>3. IInv => MarkHasItsMessage
  BY DEF IInv
<1>4. QED
  BY <1>1, <1>2, <1>3, PTL DEF Spec

(* Every handler but those of a foreground change and a double click looks *)
(* at the desktop before it shows anything, also where messages are nested *)
(* in it.                                                                  *)
LEMMA HiddenStep ==
  IInv /\ [Next]_vars =>
    [Running /\ m.suppressed /\ ~m.visible /\ SuppressionReason /\ m'.visible
       => \/ foreground # "None" /\ foreground' = "None"
          \/ DoubleClick \/ OutsideShow]_vars
<1> SUFFICES ASSUME TypeOK, [Next]_vars,
                    Running, m.suppressed, ~m.visible, SuppressionReason,
                    m'.visible
             PROVE  \/ foreground # "None" /\ foreground' = "None"
                    \/ DoubleClick \/ OutsideShow
  BY DEF IInv
<1>1. CASE \E atStartup \in BOOLEAN : Create(atStartup)
  BY <1>1 DEF Create, Running
<1>2. \A failed \in Failing : Keeps(m', Seen(failed)) => FALSE
  BY SeenIsAView DEF Keeps
<1>3. CASE StartupInitTimer \/ BurstTimer \/ StateTimer \/ RefreshTimer
           \/ PlacementTimer
  BY <1>2, <1>3, TimersKeep
<1>4. CASE TrayLayoutChanged \/ TaskbarCreated
  BY <1>2, <1>4, MessagesKeep
<1>5. CASE ForegroundChanged
  BY <1>5 DEF ForegroundChanged
<1>6. CASE DisplayChanged \/ DpiChanged \/ ReloadConfig \/ RecoverTaskbar
           \/ OutsideHide \/ TrayEvent
  BY <1>6, CommandsKeep
<1>7. CASE Exit \/ ForegroundEvent \/ DesktopChanges \/ ExplorerDies
           \/ ExplorerStarts \/ BecomeCalm \/ Tick \/ UNCHANGED vars
  BY <1>7, OthersKeep
<1>8. CASE DoubleClick \/ OutsideShow
  BY <1>8
<1>9. QED
  BY <1>1, <1>3, <1>4, <1>5, <1>6, <1>7, <1>8 DEF Next, Program, Environment

(* HiddenStaysHidden: of all handlers only ForegroundChanged, without a    *)
(* guard in the code, and somebody else bring a suppressed overlay back    *)
(* while the reason lasts.                                                 *)
THEOREM HiddenHeld == Spec => HiddenStaysHidden
<1>1. Init => IInv
  BY Starts
<1>2. IInv /\ [Next]_vars => IInv'
  BY Steps
<1>3. IInv /\ [Next]_vars =>
        [Running /\ m.suppressed /\ ~m.visible /\ SuppressionReason
            /\ m'.visible
           => \/ foreground # "None" /\ foreground' = "None"
              \/ DoubleClick \/ OutsideShow]_vars
  BY HiddenStep
<1>4. QED
  BY <1>1, <1>2, <1>3, PTL DEF Spec, HiddenStaysHidden

-----------------------------------------------------------------------------
(* Settling.  On a desktop that asks for nothing and with no call that     *)
(* fails, no operation takes back what another one has put right.          *)
ClearViews == {e \in Views : ~e.suppress /\ ~e.freeze /\ e.failed = {}}

NoWorse(s, t) ==
    /\ t \in Monitor
    /\ s.visible => t.visible
    /\ t.suppressed => s.suppressed
    /\ t.frozen => s.frozen
    /\ s.placed => t.placed
    /\ t.layered => s.layered
    /\ s.content = "Current" => t.content = "Current"

\* A deferral is only begun by the end of a freeze, and is left alone until it
\* has passed.
DefersNoMore(s, t, e) ==
    /\ ~s.frozen => t.resume = s.resume \/ (t.resume = 0 /\ ~Deferred(s, e))
    /\ s.frozen /\ ~t.frozen => t.resume \in {0, Deadline(e.tick, Resume)}

SameTimers(s, t) ==
    /\ (t.initialized <=> s.initialized)
    /\ t.timers \ {"Placement"} = s.timers \ {"Placement"}

Improves(s, t, e) == NoWorse(s, t) /\ DefersNoMore(s, t, e) /\ SameTimers(s, t)

LEMMA ImprovesNothing ==
  ASSUME NEW s \in Monitor, NEW e \in ClearViews
  PROVE  Improves(s, s, e)
BY DEF Improves, NoWorse, DefersNoMore, SameTimers

LEMMA ImprovesOn ==
  ASSUME NEW s \in Monitor, NEW t \in Monitor, NEW u \in Monitor,
         NEW e \in ClearViews, Improves(s, t, e), Improves(t, u, e)
  PROVE  Improves(s, u, e)
<1>1. NoWorse(s, u)
  BY DEF Improves, NoWorse
<1>2. DefersNoMore(s, u, e)
  BY DEF Improves, NoWorse, DefersNoMore, Deferred
<1>3. SameTimers(s, u)
  BY DEF Improves, SameTimers
<1>4. QED
  BY <1>1, <1>2, <1>3 DEF Improves

LEMMA SetPlacementTimerImproves ==
  ASSUME NEW s \in Monitor, NEW e \in ClearViews
  PROVE  Improves(s, SetPlacementTimer(s, e, FALSE), e)
<1> DEFINE t == SetPlacementTimer(s, e, FALSE)
<1>1. t \in Monitor
  BY SetPlacementTimerType DEF ClearViews
<1>2. /\ t.visible = s.visible /\ t.suppressed = s.suppressed
      /\ t.frozen = s.frozen /\ t.placed = s.placed /\ t.layered = s.layered
      /\ t.content = s.content /\ t.resume = s.resume
      /\ t.initialized = s.initialized
      /\ t.timers \ {"Placement"} = s.timers \ {"Placement"}
  BY DEF SetPlacementTimer, Monitor
<1> HIDE DEF t
<1>3. Improves(s, t, e)
  BY <1>1, <1>2 DEF Improves, NoWorse, DefersNoMore, SameTimers
<1>4. QED
  BY <1>3 DEF t

LEMMA RestorePlacementTimerImproves ==
  ASSUME NEW s \in Monitor, NEW e \in ClearViews
  PROVE  Improves(s, RestorePlacementTimer(s, e), e)
BY SetPlacementTimerImproves, ImprovesNothing DEF RestorePlacementTimer

LEMMA RenderOverlayImproves ==
  ASSUME NEW s \in Monitor, NEW e \in ClearViews
  PROVE  /\ Improves(s, RenderOverlay(s, e), e)
         /\ RenderOverlay(s, e).layered =>
              RenderOverlay(s, e).content = "Current"
         /\ RenderOverlay(s, e).resume = s.resume
<1> DEFINE t == RenderOverlay(s, e)
<1>1. t \in Monitor
  BY RenderOverlayType DEF ClearViews
<1>2. /\ t.visible = s.visible /\ t.suppressed = s.suppressed
      /\ t.frozen = s.frozen /\ t.placed = s.placed /\ t.layered = s.layered
      /\ t.resume = s.resume
      /\ t.initialized = s.initialized /\ t.timers = s.timers
  BY DEF RenderOverlay, Monitor
<1>3. /\ s.layered => t.content = "Current"
      /\ ~s.layered => t.content = s.content
  BY DEF RenderOverlay, Monitor, Presents, Works, ClearViews
<1> HIDE DEF t
<1>4. /\ s.content = "Current" => t.content = "Current"
      /\ t.layered => t.content = "Current"
  BY <1>2, <1>3
<1>5. Improves(s, t, e)
  BY <1>1, <1>2, <1>4 DEF Improves, NoWorse, DefersNoMore, SameTimers
<1>6. QED
  BY <1>2, <1>4, <1>5 DEF t

LEMMA ReapplyLastFrameImproves ==
  ASSUME NEW s \in Monitor, NEW e \in ClearViews
  PROVE  /\ Improves(s, ReapplyLastFrame(s, e), e)
         /\ ReapplyLastFrame(s, e).resume = s.resume
<1> DEFINE t == ReapplyLastFrame(s, e)
<1>1. t \in Monitor
  BY ReapplyLastFrameType DEF ClearViews
<1>2. /\ t.visible = s.visible /\ t.suppressed = s.suppressed
      /\ t.frozen = s.frozen /\ t.placed = s.placed /\ t.layered = s.layered
      /\ t.resume = s.resume
      /\ t.initialized = s.initialized /\ t.timers = s.timers
      /\ s.content = "Current" => t.content = s.content
  BY DEF ReapplyLastFrame, Monitor
<1> HIDE DEF t
<1>3. Improves(s, t, e)
  BY <1>1, <1>2 DEF Improves, NoWorse, DefersNoMore, SameTimers
<1>4. QED
  BY <1>2, <1>3 DEF t

LEMMA UpdateFreezeStateImproves ==
  ASSUME NEW s \in Monitor, NEW e \in ClearViews
  PROVE  LET t == UpdateFreezeState(s, e)
         IN  /\ Improves(s, t, e) /\ ~t.frozen
             /\ ~s.frozen => t.resume = s.resume
<1> DEFINE resume == IF s.frozen /\ ~e.freeze THEN Deadline(e.tick, Resume)
                     ELSE s.resume
           u == [s EXCEPT !.frozen = e.freeze, !.resume = resume]
           t == UpdateFreezeState(s, e)
<1>1. t \in Monitor /\ t = ReapplyLastFrame(u, e)
  BY UpdateFreezeStateType DEF ClearViews, UpdateFreezeState
<1>2. resume \in Ticks /\ e.freeze \in BOOLEAN /\ ~e.freeze
  BY Deadlines DEF ClearViews, Views, Monitor
<1>3. /\ s.frozen => resume = Deadline(e.tick, Resume)
      /\ ~s.frozen => resume = s.resume
  BY <1>2
<1> HIDE DEF resume
<1>4. /\ u \in Monitor /\ ~u.frozen /\ u.resume = resume
      /\ u.visible = s.visible /\ u.suppressed = s.suppressed
      /\ u.placed = s.placed /\ u.layered = s.layered
      /\ u.content = s.content
      /\ u.initialized = s.initialized /\ u.timers = s.timers
  BY <1>2 DEF Monitor
<1> HIDE DEF u, t
<1>5. Improves(s, u, e)
  BY <1>3, <1>4 DEF Improves, NoWorse, DefersNoMore, SameTimers
<1>6. Improves(u, t, e) /\ t.resume = u.resume
  BY <1>1, <1>4, ReapplyLastFrameImproves
<1>7. Improves(s, t, e)
  BY <1>1, <1>4, <1>5, <1>6, ImprovesOn
<1>8. ~t.frozen
  BY <1>4, <1>6 DEF Improves, NoWorse
<1>9. QED
  BY <1>3, <1>4, <1>6, <1>7, <1>8 DEF t

LEMMA ForgetsThePassed ==
  ASSUME NEW s \in Monitor, NEW e \in ClearViews, ~Freezes(s, e)
  PROVE  Improves(s, [s EXCEPT !.resume = 0], e)
<1> DEFINE t == [s EXCEPT !.resume = 0]
<1>1. t \in Monitor
  BY NoResumeType
<1>2. /\ t.visible = s.visible /\ t.suppressed = s.suppressed
      /\ t.frozen = s.frozen /\ t.placed = s.placed /\ t.layered = s.layered
      /\ t.content = s.content /\ t.resume = 0
      /\ t.initialized = s.initialized /\ t.timers = s.timers
  BY DEF Monitor
<1>3. ~s.frozen /\ ~Deferred(s, e)
  BY DEF Freezes
<1> HIDE DEF t
<1>4. Improves(s, t, e)
  BY <1>1, <1>2, <1>3 DEF Improves, NoWorse, DefersNoMore, SameTimers
<1>5. QED
  BY <1>4 DEF t

LEMMA VisibleImproves ==
  ASSUME NEW s \in Monitor, NEW e \in ClearViews
  PROVE  /\ Improves(s, [s EXCEPT !.visible = TRUE], e)
         /\ [s EXCEPT !.visible = TRUE].visible
<1> DEFINE t == [s EXCEPT !.visible = TRUE]
<1>1. t \in Monitor
  BY VisibleType
<1>2. /\ t.visible /\ t.suppressed = s.suppressed
      /\ t.frozen = s.frozen /\ t.placed = s.placed /\ t.layered = s.layered
      /\ t.content = s.content /\ t.resume = s.resume
      /\ t.initialized = s.initialized /\ t.timers = s.timers
  BY DEF Monitor
<1> HIDE DEF t
<1>3. Improves(s, t, e)
  BY <1>1, <1>2 DEF Improves, NoWorse, DefersNoMore, SameTimers
<1>4. QED
  BY <1>2, <1>3 DEF t

\* What showing paints, freezes or leaves to the deferral.
LEMMA PaintsImproves ==
  ASSUME NEW t \in Monitor, NEW e \in ClearViews, ~Freezes(t, e)
  PROVE  Improves(t, RenderOverlay([t EXCEPT !.resume = 0], e), e)
<1> DEFINE u == [t EXCEPT !.resume = 0]
           v == RenderOverlay(u, e)
<1>1. u \in Monitor /\ Improves(t, u, e)
  BY NoResumeType, ForgetsThePassed
<1> HIDE DEF u
<1>2. v \in Monitor /\ Improves(u, v, e)
  BY <1>1, RenderOverlayImproves, RenderOverlayType DEF ClearViews
<1> HIDE DEF v
<1>3. Improves(t, v, e)
  BY <1>1, <1>2, ImprovesOn
<1>4. QED
  BY <1>3 DEF u, v

LEMMA ShownOnTopImproves ==
  ASSUME NEW s \in Monitor, NEW e \in ClearViews
  PROVE  Improves(s, ShownOnTop(s, e), e)
<1> DEFINE t == SetPlacementTimer(s, e, FALSE)
<1>1. t \in Monitor /\ Improves(s, t, e) /\ ~e.suppress
  BY SetPlacementTimerType, SetPlacementTimerImproves DEF ClearViews
<1> HIDE DEF t
<1>2. CASE ~s.initialized
  BY <1>2, ImprovesNothing DEF ShownOnTop
<1>3. CASE s.initialized /\ Freezes(t, e)
  <2>1. ShownOnTop(s, e) = UpdateFreezeState(t, e)
    BY <1>1, <1>3 DEF ShownOnTop, t
  <2>2. UpdateFreezeState(t, e) \in Monitor
        /\ Improves(t, UpdateFreezeState(t, e), e)
    BY <1>1, UpdateFreezeStateImproves, UpdateFreezeStateType DEF ClearViews
  <2>3. QED
    BY <1>1, <2>1, <2>2, ImprovesOn
<1>4. CASE s.initialized /\ ~Freezes(t, e)
  <2>1. ShownOnTop(s, e) = RenderOverlay([t EXCEPT !.resume = 0], e)
    BY <1>1, <1>4 DEF ShownOnTop, t
  <2>2. Improves(t, ShownOnTop(s, e), e)
    BY <1>1, <1>4, <2>1, PaintsImproves
  <2>3. QED
    BY <1>1, <2>2, ImprovesOn DEF Improves, NoWorse
<1>5. QED
  BY <1>2, <1>3, <1>4

LEMMA KeepOverlayOnTopImproves ==
  ASSUME NEW s \in Monitor, NEW e \in ClearViews
  PROVE  /\ Improves(s, KeepOverlayOnTop(s, e), e)
         /\ ~s.suppressed => KeepOverlayOnTop(s, e).visible
<1>1. CASE s.suppressed \/ s.visible
  BY <1>1, ImprovesNothing DEF KeepOverlayOnTop
<1>2. CASE ~s.suppressed /\ ~s.visible
  <2> DEFINE t == ShownOnTop(s, e)
             u == [t EXCEPT !.visible = TRUE]
  <2>1. KeepOverlayOnTop(s, e) = u
    BY <1>2 DEF KeepOverlayOnTop
  <2>2. t \in Monitor /\ Improves(s, t, e)
    BY ShownOnTopType, ShownOnTopImproves DEF ClearViews
  <2> HIDE DEF t
  <2>3. u \in Monitor /\ Improves(t, u, e) /\ u.visible
    BY <2>2, VisibleImproves, VisibleType
  <2> HIDE DEF u
  <2>4. QED
    BY <2>1, <2>2, <2>3, ImprovesOn
<1>3. QED
  BY <1>1, <1>2

LEMMA FreezeGuardImproves ==
  ASSUME NEW s \in Monitor, NEW e \in ClearViews
  PROVE  LET t == FreezeGuard(s, e)
         IN  /\ Improves(s, t, e) /\ ~t.frozen
             /\ ~s.suppressed => t.visible
<1> DEFINE u == UpdateFreezeState(s, e)
           t == KeepOverlayOnTop(u, e)
<1>1. u \in Monitor /\ Improves(s, u, e) /\ ~u.frozen
  BY UpdateFreezeStateType, UpdateFreezeStateImproves DEF ClearViews
<1>2. FreezeGuard(s, e) = t
  BY DEF FreezeGuard, ClearViews
<1> HIDE DEF u
<1>3. t \in Monitor /\ Improves(u, t, e) /\ (~u.suppressed => t.visible)
  BY <1>1, KeepOverlayOnTopImproves, KeepOverlayOnTopType DEF ClearViews
<1> HIDE DEF t
<1>4. Improves(s, t, e)
  BY <1>1, <1>3, ImprovesOn
<1>5. ~t.frozen /\ (~s.suppressed => t.visible)
  BY <1>1, <1>3 DEF Improves, NoWorse
<1>6. QED
  BY <1>2, <1>4, <1>5

LEMMA ShownImproves ==
  ASSUME NEW s \in Monitor, NEW e \in ClearViews
  PROVE  Improves(s, Shown(s, e), e)
<1> DEFINE t == SetPlacementTimer(s, e, FALSE)
<1>1. t \in Monitor /\ Improves(s, t, e) /\ ~e.suppress
  BY SetPlacementTimerType, SetPlacementTimerImproves DEF ClearViews
<1> HIDE DEF t
<1>2. CASE ~s.initialized
  BY <1>2, ImprovesNothing DEF Shown
<1>3. CASE s.initialized /\ Freezes(t, e)
  <2>1. Shown(s, e) = FreezeGuard(t, e)
    BY <1>1, <1>3 DEF Shown, t
  <2>2. Improves(t, Shown(s, e), e)
    BY <1>1, <2>1, FreezeGuardImproves
  <2>3. QED
    BY <1>1, <2>2, ImprovesOn DEF Improves, NoWorse
<1>4. CASE s.initialized /\ ~Freezes(t, e)
  <2>1. Shown(s, e) = RenderOverlay([t EXCEPT !.resume = 0], e)
    BY <1>1, <1>4 DEF Shown, t
  <2>2. Improves(t, Shown(s, e), e)
    BY <1>1, <1>4, <2>1, PaintsImproves
  <2>3. QED
    BY <1>1, <2>2, ImprovesOn DEF Improves, NoWorse
<1>5. QED
  BY <1>2, <1>3, <1>4

LEMMA ShowWindowImproves ==
  ASSUME NEW s \in Monitor, NEW e \in ClearViews
  PROVE  Improves(s, ShowWindow(s, e), e)
<1>1. CASE s.visible
  BY <1>1, ImprovesNothing DEF ShowWindow
<1>2. CASE ~s.visible
  <2> DEFINE t == Shown(s, e)
             u == [t EXCEPT !.visible = TRUE]
             v == KeepOverlayOnTop(u, e)
  <2>1. ShowWindow(s, e) = v
    BY <1>2 DEF ShowWindow
  <2>2. t \in Monitor /\ Improves(s, t, e)
    BY ShownImproves DEF Improves, NoWorse
  <2> HIDE DEF t
  <2>3. u \in Monitor /\ Improves(t, u, e)
    BY <2>2, VisibleImproves, VisibleType
  <2> HIDE DEF u
  <2>4. v \in Monitor /\ Improves(u, v, e)
    BY <2>3, KeepOverlayOnTopImproves DEF Improves, NoWorse
  <2> HIDE DEF v
  <2>5. QED
    BY <2>1, <2>2, <2>3, <2>4, ImprovesOn
<1>3. QED
  BY <1>1, <1>2

LEMMA RepositionWindowImproves ==
  ASSUME NEW s \in Monitor, NEW e \in ClearViews
  PROVE  LET t == RepositionWindow(s, e)
         IN  /\ Improves(s, t, e) /\ t.visible /\ t.placed
             /\ t.resume = s.resume
<1> DEFINE u == [s EXCEPT !.visible = TRUE, !.placed = TRUE]
<1>1. RepositionWindow(s, e) = KeepOverlayOnTop(u, e)
  BY DEF RepositionWindow, Works, ClearViews
<1>2. /\ u.visible /\ u.placed /\ u.suppressed = s.suppressed
      /\ u.frozen = s.frozen /\ u.layered = s.layered
      /\ u.content = s.content /\ u.resume = s.resume
      /\ u.initialized = s.initialized /\ u.timers = s.timers
  BY DEF Monitor
<1> HIDE DEF u
<1>3. RepositionWindow(s, e) = u
  BY <1>1, <1>2 DEF KeepOverlayOnTop
<1>4. u \in Monitor
  BY <1>3, RepositionWindowType DEF ClearViews
<1>5. Improves(s, u, e)
  BY <1>2, <1>4 DEF Improves, NoWorse, DefersNoMore, SameTimers
<1>6. QED
  BY <1>2, <1>3, <1>5

\* In its place and with new values; a window that has lost its style cannot be
\* painted.
Painted(s) == s.placed /\ (s.layered => s.content = "Current")

LEMMA PaintedStays ==
  ASSUME NEW s, NEW t, NoWorse(s, t), Painted(s)
  PROVE  Painted(t)
BY DEF NoWorse, Painted

LEMMA ReshownImproves ==
  ASSUME NEW s \in Monitor, NEW e \in ClearViews
  PROVE  LET t == RenderOverlay(RepositionWindow(s, e), e)
         IN  /\ Improves(s, t, e) /\ t.visible /\ Painted(t)
             /\ t.resume = s.resume
<1> DEFINE u == RepositionWindow(s, e)
           t == RenderOverlay(u, e)
<1>1. u \in Monitor /\ Improves(s, u, e) /\ u.visible /\ u.placed
      /\ u.resume = s.resume
  BY RepositionWindowImproves DEF Improves, NoWorse
<1> HIDE DEF u
<1>2. /\ t \in Monitor /\ Improves(u, t, e) /\ t.resume = u.resume
      /\ (t.layered => t.content = "Current")
  BY <1>1, RenderOverlayImproves DEF Improves, NoWorse
<1> HIDE DEF t
<1>3. Improves(s, t, e)
  BY <1>1, <1>2, ImprovesOn
<1>4. t.visible /\ t.placed
  BY <1>1, <1>2 DEF Improves, NoWorse
<1>5. QED
  BY <1>1, <1>2, <1>3, <1>4 DEF Painted, t, u

LEMMA UnsuppressImproves ==
  ASSUME NEW s \in Monitor, NEW e \in ClearViews
  PROVE  LET t == Unsuppress(s, e)
         IN  /\ Improves(s, t, e) /\ t.visible /\ Painted(t)
             /\ ~t.suppressed
<1> DEFINE free == [s EXCEPT !.suppressed = FALSE]
           u == RestorePlacementTimer(free, e)
           v == ShowWindow(u, e)
           w == RepositionWindow(v, e)
           x == ReapplyLastFrame(w, e)
           t == RenderOverlay(x, e)
<1>1. Unsuppress(s, e) = t
  BY DEF Unsuppress
<1>2. free \in Monitor /\ Improves(s, free, e) /\ ~free.suppressed
  <2>1. /\ free \in Monitor
        /\ free.visible = s.visible /\ ~free.suppressed
        /\ free.frozen = s.frozen /\ free.placed = s.placed
        /\ free.layered = s.layered
        /\ free.content = s.content /\ free.resume = s.resume
        /\ free.initialized = s.initialized /\ free.timers = s.timers
    BY DEF Monitor
  <2> HIDE DEF free
  <2>2. QED
    BY <2>1 DEF Improves, NoWorse, DefersNoMore, SameTimers
<1> HIDE DEF free
<1>3. u \in Monitor /\ Improves(free, u, e)
  BY <1>2, RestorePlacementTimerImproves DEF Improves, NoWorse
<1> HIDE DEF u
<1>4. v \in Monitor /\ Improves(u, v, e)
  BY <1>3, ShowWindowImproves DEF Improves, NoWorse
<1> HIDE DEF v
<1>5. w \in Monitor /\ Improves(v, w, e) /\ w.visible /\ w.placed
  BY <1>4, RepositionWindowImproves DEF Improves, NoWorse
<1> HIDE DEF w
<1>6. x \in Monitor /\ Improves(w, x, e)
  BY <1>5, ReapplyLastFrameImproves DEF Improves, NoWorse
<1> HIDE DEF x
<1>7. t \in Monitor /\ Improves(x, t, e) /\ (t.layered => t.content = "Current")
  BY <1>6, RenderOverlayImproves DEF Improves, NoWorse
<1> HIDE DEF t
<1>8. Improves(s, u, e)
  BY <1>2, <1>3, ImprovesOn
<1>9. Improves(s, w, e)
  <2>1. Improves(s, v, e)
    BY <1>3, <1>4, <1>8, ImprovesOn
  <2>2. QED
    BY <1>4, <1>5, <2>1, ImprovesOn
<1>10. Improves(w, t, e)
  BY <1>5, <1>6, <1>7, ImprovesOn
<1>11. Improves(s, t, e)
  BY <1>5, <1>7, <1>9, <1>10, ImprovesOn
<1>12. t.visible /\ Painted(t)
  BY <1>5, <1>7, <1>10 DEF Improves, NoWorse, Painted
<1>13. ~t.suppressed
  BY <1>2, <1>3, <1>4, <1>5, <1>10 DEF Improves, NoWorse
<1>14. QED
  BY <1>1, <1>11, <1>12, <1>13

\* What one run of the guards makes of s, and what two of them make of it.
Guarded(s, t, e) ==
    /\ Improves(s, t, e) /\ ~t.suppressed
    /\ ~s.suppressed => /\ ~t.frozen
                        /\ ~s.frozen => t.resume = 0 \/ Deferred(t, e)

LEMMA GuardsImprove ==
  ASSUME NEW s \in Monitor, NEW e \in ClearViews
  PROVE  LET t == HandleOverlayStateGuards(s, e)
         IN  /\ Guarded(s, t, e)
             /\ Stopped(s, e) => t.visible
             /\ ~Stopped(s, e) => ~s.suppressed /\ ~s.frozen /\ t.resume = 0
             /\ ~s.suppressed /\ ~s.frozen /\ Stopped(s, e) => Deferred(t, e)
<1> DEFINE t == HandleOverlayStateGuards(s, e)
<1>0. ~e.suppress /\ ~e.freeze
  BY DEF ClearViews
<1>1. CASE s.suppressed
  <2>1. t = Unsuppress(s, e) /\ Stopped(s, e)
    BY <1>0, <1>1 DEF HandleOverlayStateGuards, Handled, Stopped,
       UpdateOverlaySuppression
  <2> HIDE DEF t
  <2>2. Improves(s, t, e) /\ t.visible /\ ~t.suppressed
    BY <2>1, UnsuppressImproves
  <2>3. QED
    BY <1>1, <2>1, <2>2 DEF Guarded, t
<1>2. CASE ~s.suppressed /\ Freezes(s, e)
  <2>1. t = FreezeGuard(s, e) /\ Stopped(s, e)
    BY <1>0, <1>2 DEF HandleOverlayStateGuards, Handled, Stopped
  <2> HIDE DEF t
  <2>2. Improves(s, t, e) /\ ~t.frozen /\ t.visible
    BY <1>2, <2>1, FreezeGuardImproves
  <2>3. ~t.suppressed
    BY <1>2, <2>2 DEF Improves, NoWorse
  <2>4. ~s.frozen => Deferred(t, e)
    BY <1>0, <1>2, <2>2 DEF Improves, DefersNoMore, Freezes, Deferred
  <2>5. QED
    BY <1>2, <2>1, <2>2, <2>3, <2>4 DEF Guarded, t
<1>3. CASE ~s.suppressed /\ ~Freezes(s, e)
  <2>1. t = [s EXCEPT !.resume = 0] /\ ~Stopped(s, e)
    BY <1>0, <1>3 DEF HandleOverlayStateGuards, Handled, Stopped
  <2>2. t.resume = 0 /\ t.suppressed = s.suppressed /\ t.frozen = s.frozen
    BY <2>1 DEF Monitor
  <2> HIDE DEF t
  <2>3. Improves(s, t, e)
    BY <1>3, <2>1, ForgetsThePassed
  <2>4. ~s.frozen
    BY <1>3 DEF Freezes
  <2>5. QED
    BY <1>3, <2>1, <2>2, <2>3, <2>4 DEF Guarded, t
<1>4. QED
  BY <1>1, <1>2, <1>3

LEMMA GuardedOn ==
  ASSUME NEW s \in Monitor, NEW t \in Monitor, NEW u \in Monitor,
         NEW e \in ClearViews, Guarded(s, t, e), Improves(t, u, e),
         u.resume = t.resume
  PROVE  Guarded(s, u, e)
<1>1. Improves(s, u, e)
  BY ImprovesOn DEF Guarded
<1>2. ~u.suppressed /\ (~t.frozen => ~u.frozen)
  BY DEF Guarded, Improves, NoWorse
<1>3. Deferred(t, e) => Deferred(u, e)
  BY DEF Deferred
<1>4. QED
  BY <1>1, <1>2, <1>3 DEF Guarded

\* What the timers make of s.
LEMMA StateTimerGuards ==
  ASSUME NEW s \in Monitor, NEW e \in ClearViews, NEW changed \in BOOLEAN
  PROVE  LET g == HandleOverlayStateGuards(s, e)
         IN  Guarded(s, IF changed /\ ~Stopped(s, e)
                          THEN RenderOverlay(g, e) ELSE g, e)
<1> DEFINE g == HandleOverlayStateGuards(s, e)
<1>1. Guarded(s, g, e) /\ g \in Monitor
  BY GuardsImprove DEF Guarded, Improves, NoWorse
<1> HIDE DEF g
<1>2. Improves(g, RenderOverlay(g, e), e) /\ RenderOverlay(g, e) \in Monitor
      /\ RenderOverlay(g, e).resume = g.resume
  BY <1>1, RenderOverlayImproves DEF Improves, NoWorse
<1>3. Guarded(s, RenderOverlay(g, e), e)
  BY <1>1, <1>2, GuardedOn
<1>4. QED
  BY <1>1, <1>3 DEF g

LEMMA PlacementTimerGuards ==
  ASSUME NEW s \in Monitor, NEW e \in ClearViews
  PROVE  LET g == HandleOverlayStateGuards(s, e)
             t == IF Stopped(s, e) THEN g ELSE RepositionWindow(g, e)
         IN  Guarded(s, t, e)
<1> DEFINE g == HandleOverlayStateGuards(s, e)
<1>1. Guarded(s, g, e) /\ g \in Monitor
  BY GuardsImprove DEF Guarded, Improves, NoWorse
<1> HIDE DEF g
<1>2. Improves(g, RepositionWindow(g, e), e) /\ RepositionWindow(g, e) \in Monitor
      /\ RepositionWindow(g, e).resume = g.resume
  BY <1>1, RepositionWindowImproves DEF Improves, NoWorse
<1>3. Guarded(s, RepositionWindow(g, e), e)
  BY <1>1, <1>2, GuardedOn
<1>4. QED
  BY <1>1, <1>3 DEF g

LEMMA RefreshTimerGuards ==
  ASSUME NEW s \in Monitor, NEW e \in ClearViews
  PROVE  LET g == HandleOverlayStateGuards(s, e)
             t == IF Stopped(s, e) THEN g
                  ELSE RenderOverlay(RepositionWindow(g, e), e)
         IN  /\ Guarded(s, t, e) /\ t.visible
             /\ ~s.suppressed /\ ~s.frozen =>
                  Deferred(t, e) \/ (t.resume = 0 /\ Painted(t))
<1> DEFINE g == HandleOverlayStateGuards(s, e)
           r == RenderOverlay(RepositionWindow(g, e), e)
<1>1. /\ Guarded(s, g, e) /\ g \in Monitor
      /\ Stopped(s, e) => g.visible
      /\ ~Stopped(s, e) => g.resume = 0
      /\ ~s.suppressed /\ ~s.frozen /\ Stopped(s, e) => Deferred(g, e)
  BY GuardsImprove DEF Guarded, Improves, NoWorse
<1> HIDE DEF g
<1>2. /\ Improves(g, r, e) /\ r \in Monitor
      /\ r.resume = g.resume /\ r.visible /\ Painted(r)
  BY <1>1, ReshownImproves DEF Improves, NoWorse
<1> HIDE DEF r
<1>3. Guarded(s, r, e)
  BY <1>1, <1>2, GuardedOn
<1>4. QED
  BY <1>1, <1>2, <1>3 DEF g, r

\* Nothing has been frozen, deferred or timed before the monitor is initialised.
Bare(s) == s.timers \subseteq {"StartupInit"} /\ ~s.fast /\ ~s.frozen
             /\ s.resume = 0

LEMMA InstallTimerKeeps ==
  ASSUME NEW s \in Monitor, NEW e \in Views, NEW timer \in TimerIds
  PROVE  LET t == InstallTimer(s, e, timer)
         IN  /\ t \in Monitor
             /\ t.frozen = s.frozen /\ t.resume = s.resume
             /\ t.suppressed = s.suppressed /\ t.fast = s.fast
             /\ t.initialized = s.initialized
<1>1. InstallTimer(s, e, timer) \in Monitor
  BY InstallTimerType
<1> DEFINE u == [s EXCEPT !.timers = @ \cup {timer}]
<1>2. /\ u.frozen = s.frozen /\ u.resume = s.resume
      /\ u.suppressed = s.suppressed /\ u.fast = s.fast
      /\ u.initialized = s.initialized
  BY DEF Monitor
<1>3. InstallTimer(s, e, timer) \in {s, u}
  BY DEF InstallTimer
<1> HIDE DEF u
<1>4. QED
  BY <1>1, <1>2, <1>3

LEMMA InitializeMonitorShows ==
  ASSUME NEW s \in Monitor, NEW e \in ClearViews, ~s.initialized, Bare(s)
  PROVE  LET t == InitializeMonitor(s, e)
         IN  /\ t.visible /\ ~t.suppressed /\ ~t.frozen /\ t.resume = 0
             /\ Painted(t)
<1> DEFINE started == [AttachToTaskbarOwner(s) EXCEPT !.initialized = TRUE]
           refreshing == InstallTimer(started, e, "Refresh")
           placing == SetPlacementTimer(refreshing, e, FALSE)
           timed == InstallTimer(placing, e, "State")
           t == InitializeMonitor(s, e)
<1>0. e \in Views /\ ~e.suppress
  BY DEF ClearViews
<1>1. started \in Monitor /\ ~started.frozen /\ started.resume = 0
  <2>1. AttachToTaskbarOwner(s) \in Monitor /\ ~AttachToTaskbarOwner(s).frozen
        /\ AttachToTaskbarOwner(s).resume = 0
    BY AttachType DEF AttachToTaskbarOwner, Monitor, Bare
  <2>2. QED
    BY <2>1 DEF Monitor
<1> HIDE DEF started
<1>2. refreshing \in Monitor /\ ~refreshing.frozen /\ refreshing.resume = 0
  BY <1>0, <1>1, InstallTimerKeeps DEF TimerIds
<1> HIDE DEF refreshing
<1>3. placing \in Monitor /\ ~placing.frozen /\ placing.resume = 0
  <2>1. placing \in Monitor /\ Improves(refreshing, placing, e)
    BY <1>2, SetPlacementTimerImproves DEF Improves, NoWorse
  <2>2. QED
    BY <1>2, <2>1 DEF Improves, NoWorse, DefersNoMore
<1> HIDE DEF placing
<1>4. timed \in Monitor /\ ~timed.frozen /\ timed.resume = 0
  BY <1>0, <1>3, InstallTimerKeeps DEF TimerIds
<1>5. t = IF Handled(timed, e) THEN UpdateOverlaySuppression(timed, e)
          ELSE ShowWindow(Refreshed(timed, e), e)
  BY DEF InitializeMonitor, started, refreshing, placing
<1> HIDE DEF timed
<1>6. CASE timed.suppressed
  <2>1. t = Unsuppress(timed, e)
    BY <1>0, <1>5, <1>6 DEF Handled, UpdateOverlaySuppression
  <2> HIDE DEF t
  <2>2. Improves(timed, t, e) /\ t.visible /\ Painted(t) /\ ~t.suppressed
    BY <1>4, <2>1, UnsuppressImproves
  <2>3. ~t.frozen /\ t.resume = 0
    BY <1>4, <2>2 DEF Improves, NoWorse, DefersNoMore
  <2>4. QED
    BY <2>2, <2>3 DEF t
<1>7. CASE ~timed.suppressed
  <2> DEFINE u == RenderOverlay(RepositionWindow(timed, e), e)
  <2>1. u \in Monitor /\ Improves(timed, u, e) /\ u.visible /\ Painted(u)
    BY <1>4, ReshownImproves DEF Improves, NoWorse
  <2>2. t = ShowWindow(u, e)
    BY <1>0, <1>5, <1>7 DEF Handled, Refreshed
  <2> HIDE DEF u, t
  <2>3. t = u
    BY <2>1, <2>2 DEF ShowWindow
  <2>4. ~t.frozen /\ t.resume = 0 /\ ~t.suppressed
    BY <1>4, <1>7, <2>1, <2>3 DEF Improves, NoWorse, DefersNoMore
  <2>5. QED
    BY <2>1, <2>3, <2>4 DEF t
<1>8. QED
  BY <1>6, <1>7

-----------------------------------------------------------------------------
(* On a desktop that asks for the overlay to be hidden, and with no call   *)
(* that fails.                                                             *)
HidingViews == {e \in Views : e.suppress /\ e.failed = {}}

Covered(s) == s.suppressed /\ ~s.visible

LEMMA SuppressCovers ==
  ASSUME NEW s \in Monitor, NEW e \in Views
  PROVE  Covered(Suppress(s, e))
<1> DEFINE u == [s EXCEPT !.suppressed = TRUE]
           t == RestorePlacementTimer(u, e)
<1>1. u \in Monitor /\ u.suppressed
  BY DEF Monitor
<1>2. Suppress(s, e) = [t EXCEPT !.visible = FALSE]
  BY DEF Suppress
<1> HIDE DEF u
<1>3. t \in Monitor
  BY <1>1, RestorePlacementTimerType
<1>4. t.suppressed
  <2>1. SetPlacementTimer(u, e, FALSE).suppressed
    BY <1>1 DEF SetPlacementTimer, Monitor
  <2>2. QED
    BY <1>1, <2>1 DEF RestorePlacementTimer
<1> HIDE DEF t
<1>5. /\ [t EXCEPT !.visible = FALSE].suppressed = t.suppressed
      /\ [t EXCEPT !.visible = FALSE].visible = FALSE
  BY <1>3 DEF Monitor
<1>6. QED
  BY <1>2, <1>4, <1>5 DEF Covered

LEMMA GuardsCover ==
  ASSUME NEW s \in Monitor, NEW e \in HidingViews
  PROVE  Stopped(s, e) /\ Covered(HandleOverlayStateGuards(s, e))
BY SuppressCovers
DEF HidingViews, Stopped, Handled, HandleOverlayStateGuards,
    UpdateOverlaySuppression

LEMMA InitializeMonitorCovers ==
  ASSUME NEW s \in Monitor, NEW e \in HidingViews, ~s.initialized
  PROVE  Covered(InitializeMonitor(s, e))
<1> DEFINE started == [AttachToTaskbarOwner(s) EXCEPT !.initialized = TRUE]
           refreshing == InstallTimer(started, e, "Refresh")
           placing == SetPlacementTimer(refreshing, e, FALSE)
           timed == InstallTimer(placing, e, "State")
<1>1. e \in Views /\ e.suppress
  BY DEF HidingViews
<1>2. started \in Monitor
  <2>1. AttachToTaskbarOwner(s) \in Monitor
    BY AttachType
  <2>2. QED
    BY <2>1 DEF Monitor
<1> HIDE DEF started
<1>3. refreshing \in Monitor
  BY <1>1, <1>2, InstallTimerType DEF TimerIds
<1> HIDE DEF refreshing
<1>4. placing \in Monitor
  BY <1>1, <1>3, SetPlacementTimerType
<1> HIDE DEF placing
<1>5. timed \in Monitor
  BY <1>1, <1>4, InstallTimerType DEF TimerIds
<1>6. InitializeMonitor(s, e) = Suppress(timed, e)
  BY <1>1 DEF InitializeMonitor, Handled, UpdateOverlaySuppression, started,
     refreshing, placing
<1> HIDE DEF timed
<1>7. QED
  BY <1>1, <1>5, <1>6, SuppressCovers

LEMMA BurstKeepsTimers ==
  ASSUME NEW s \in Monitor, NEW e \in Views, e.failed = {}
  PROVE  SameTimers(s, ReapplyLastFrame(RepositionWindow(s, e), e))
<1> DEFINE u == [s EXCEPT !.visible = TRUE, !.placed = TRUE]
<1>1. RepositionWindow(s, e) = KeepOverlayOnTop(u, e)
  BY DEF RepositionWindow, Works
<1>2. u.visible /\ u.initialized = s.initialized /\ u.timers = s.timers
  BY DEF Monitor
<1> HIDE DEF u
<1>3. RepositionWindow(s, e) = u
  BY <1>1, <1>2 DEF KeepOverlayOnTop
<1>4. u \in Monitor
  BY <1>3, RepositionWindowType
<1>5. ReapplyLastFrame(u, e).initialized = u.initialized
      /\ ReapplyLastFrame(u, e).timers = u.timers
  BY <1>4 DEF ReapplyLastFrame, Monitor
<1>6. QED
  BY <1>2, <1>3, <1>5 DEF SameTimers

-----------------------------------------------------------------------------
(* Before the monitor is initialised, whatever is done to it leaves it     *)
(* bare; and it is never uninitialised again but with its end.             *)
KeepsBare(s, t) ==
    /\ t \in Monitor
    /\ (t.initialized <=> s.initialized)
    /\ ~s.initialized /\ Bare(s) => Bare(t)

LEMMA KeepsBareOn ==
  ASSUME NEW s, NEW t, NEW u, KeepsBare(s, t), KeepsBare(t, u)
  PROVE  KeepsBare(s, u)
BY DEF KeepsBare

\* What changes none of the fields in question.
LEMMA Untouched ==
  ASSUME NEW s, NEW t \in Monitor, t.initialized = s.initialized,
         t.timers = s.timers, t.fast = s.fast, t.frozen = s.frozen,
         t.resume = s.resume
  PROVE  KeepsBare(s, t)
BY DEF KeepsBare, Bare

LEMMA SetPlacementTimerKeepsBare ==
  ASSUME NEW s \in Monitor, NEW e \in Views, NEW fast \in BOOLEAN, s.initialized
  PROVE  KeepsBare(s, SetPlacementTimer(s, e, fast))
<1>1. SetPlacementTimer(s, e, fast) \in Monitor
  BY SetPlacementTimerType
<1>2. SetPlacementTimer(s, e, fast).initialized
  BY DEF SetPlacementTimer, Monitor
<1>3. QED
  BY <1>1, <1>2 DEF KeepsBare

LEMMA RestorePlacementTimerKeepsBare ==
  ASSUME NEW s \in Monitor, NEW e \in Views
  PROVE  KeepsBare(s, RestorePlacementTimer(s, e))
<1>1. CASE s.fast /\ s.initialized
  BY <1>1, SetPlacementTimerKeepsBare DEF RestorePlacementTimer
<1>2. CASE s.fast /\ ~s.initialized
  <2>1. SetPlacementTimer(s, e, FALSE) \in Monitor
    BY SetPlacementTimerType
  <2>2. ~SetPlacementTimer(s, e, FALSE).initialized
    BY <1>2 DEF SetPlacementTimer, Monitor
  <2>3. QED
    BY <1>2, <2>1, <2>2 DEF KeepsBare, Bare, RestorePlacementTimer
<1>3. CASE ~s.fast
  BY <1>3 DEF RestorePlacementTimer, KeepsBare
<1>4. QED
  BY <1>1, <1>2, <1>3

LEMMA InstallTimerKeepsBare ==
  ASSUME NEW s \in Monitor, NEW e \in Views, NEW timer \in TimerIds,
         s.initialized \/ timer = "StartupInit"
  PROVE  KeepsBare(s, InstallTimer(s, e, timer))
<1> DEFINE t == InstallTimer(s, e, timer)
<1>1. /\ t \in Monitor /\ t.frozen = s.frozen /\ t.resume = s.resume
      /\ t.fast = s.fast /\ t.initialized = s.initialized
  BY InstallTimerKeeps
<1>2. t.timers \subseteq s.timers \cup {timer}
  BY DEF InstallTimer, Monitor
<1> HIDE DEF t
<1>3. KeepsBare(s, t)
  BY <1>1, <1>2 DEF KeepsBare, Bare
<1>4. QED
  BY <1>3 DEF t

LEMMA StartZOrderBurstKeepsBare ==
  ASSUME NEW s \in Monitor, NEW e \in Views, s.initialized
  PROVE  KeepsBare(s, StartZOrderBurst(s, e))
<1> DEFINE u == [s EXCEPT !.until = Deadline(e.tick, Burst)]
<1>1. Deadline(e.tick, Burst) \in Ticks
  BY Deadlines DEF Views
<1>2. u \in Monitor /\ u.initialized
  BY <1>1 DEF Monitor
<1>3. StartZOrderBurst(s, e) = InstallTimer(u, e, "Burst")
  BY DEF StartZOrderBurst
<1> HIDE DEF u
<1>4. InstallTimer(u, e, "Burst") \in Monitor
      /\ InstallTimer(u, e, "Burst").initialized
  BY <1>2, InstallTimerKeeps DEF TimerIds
<1>5. QED
  BY <1>3, <1>4 DEF KeepsBare

LEMMA RenderOverlayKeepsBare ==
  ASSUME NEW s \in Monitor, NEW e \in Views
  PROVE  KeepsBare(s, RenderOverlay(s, e))
<1> DEFINE t == RenderOverlay(s, e)
<1>1. t \in Monitor
  BY RenderOverlayType
<1>2. /\ t.initialized = s.initialized /\ t.timers = s.timers
      /\ t.fast = s.fast /\ t.frozen = s.frozen /\ t.resume = s.resume
  BY DEF RenderOverlay, Monitor
<1> HIDE DEF t
<1>3. KeepsBare(s, t)
  BY <1>1, <1>2, Untouched
<1>4. QED
  BY <1>3 DEF t

LEMMA ReapplyLastFrameKeepsBare ==
  ASSUME NEW s \in Monitor, NEW e \in Views
  PROVE  KeepsBare(s, ReapplyLastFrame(s, e))
<1> DEFINE t == ReapplyLastFrame(s, e)
<1>1. t \in Monitor
  BY ReapplyLastFrameType
<1>2. /\ t.initialized = s.initialized /\ t.timers = s.timers
      /\ t.fast = s.fast /\ t.frozen = s.frozen /\ t.resume = s.resume
  BY DEF ReapplyLastFrame, Monitor
<1> HIDE DEF t
<1>3. KeepsBare(s, t)
  BY <1>1, <1>2, Untouched
<1>4. QED
  BY <1>3 DEF t

LEMMA AttachKeepsBare ==
  ASSUME NEW s \in Monitor
  PROVE  KeepsBare(s, AttachToTaskbarOwner(s))
<1> DEFINE t == AttachToTaskbarOwner(s)
<1>1. t \in Monitor
  BY AttachType
<1>2. /\ t.initialized = s.initialized /\ t.timers = s.timers
      /\ t.fast = s.fast /\ t.frozen = s.frozen /\ t.resume = s.resume
  BY DEF AttachToTaskbarOwner, Monitor
<1> HIDE DEF t
<1>3. KeepsBare(s, t)
  BY <1>1, <1>2, Untouched
<1>4. QED
  BY <1>3 DEF t

LEMMA FieldsKeepBare ==
  ASSUME NEW s \in Monitor, NEW b \in BOOLEAN
  PROVE  /\ KeepsBare(s, [s EXCEPT !.visible = b])
         /\ KeepsBare(s, [s EXCEPT !.placed = b])
         /\ KeepsBare(s, [s EXCEPT !.suppressed = b])
         /\ KeepsBare(s, [s EXCEPT !.owned = b])
         /\ KeepsBare(s, [s EXCEPT !.tracked = b])
<1>1. KeepsBare(s, [s EXCEPT !.visible = b])
  BY Untouched DEF Monitor
<1>2. KeepsBare(s, [s EXCEPT !.placed = b])
  BY Untouched DEF Monitor
<1>3. KeepsBare(s, [s EXCEPT !.suppressed = b])
  BY Untouched DEF Monitor
<1>4. KeepsBare(s, [s EXCEPT !.owned = b])
  BY Untouched DEF Monitor
<1>5. KeepsBare(s, [s EXCEPT !.tracked = b])
  BY Untouched DEF Monitor
<1>6. QED
  BY <1>1, <1>2, <1>3, <1>4, <1>5

LEMMA SuppressKeepsBare ==
  ASSUME NEW s \in Monitor, NEW e \in Views
  PROVE  KeepsBare(s, Suppress(s, e))
<1> DEFINE u == [s EXCEPT !.suppressed = TRUE]
           t == RestorePlacementTimer(u, e)
<1>1. KeepsBare(s, u)
  BY FieldsKeepBare
<1>2. Suppress(s, e) = [t EXCEPT !.visible = FALSE]
  BY DEF Suppress
<1> HIDE DEF u
<1>3. KeepsBare(u, t)
  BY <1>1, RestorePlacementTimerKeepsBare DEF KeepsBare
<1> HIDE DEF t
<1>4. KeepsBare(t, Suppress(s, e))
  <2>1. t \in Monitor
    BY <1>3 DEF KeepsBare
  <2>2. KeepsBare(t, [t EXCEPT !.visible = FALSE])
    BY <2>1, FieldsKeepBare
  <2>3. QED
    BY <1>2, <2>2
<1>5. QED
  BY <1>1, <1>3, <1>4, KeepsBareOn

LEMMA UpdateFreezeStateKeepsBare ==
  ASSUME NEW s \in Monitor, NEW e \in Views, s.initialized
  PROVE  KeepsBare(s, UpdateFreezeState(s, e))
<1> DEFINE resume == IF s.frozen /\ ~e.freeze THEN Deadline(e.tick, Resume)
                     ELSE s.resume
           u == [s EXCEPT !.frozen = e.freeze, !.resume = resume]
<1>1. UpdateFreezeState(s, e) = ReapplyLastFrame(u, e)
  BY DEF UpdateFreezeState
<1>2. resume \in Ticks /\ e.freeze \in BOOLEAN
  BY Deadlines DEF Views, Monitor
<1> HIDE DEF resume
<1>3. u \in Monitor /\ u.initialized
  BY <1>2 DEF Monitor
<1> HIDE DEF u
<1>4. QED
  BY <1>1, <1>3, ReapplyLastFrameKeepsBare DEF KeepsBare

LEMMA NoResumeKeepsBare ==
  ASSUME NEW s \in Monitor
  PROVE  KeepsBare(s, [s EXCEPT !.resume = 0])
<1> DEFINE t == [s EXCEPT !.resume = 0]
<1>1. t \in Monitor
  BY NoResumeType
<1>2. /\ t.initialized = s.initialized /\ t.timers = s.timers
      /\ t.fast = s.fast /\ t.frozen = s.frozen /\ t.resume = 0
  BY DEF Monitor
<1> HIDE DEF t
<1>3. KeepsBare(s, t)
  BY <1>1, <1>2 DEF KeepsBare, Bare
<1>4. QED
  BY <1>3 DEF t

LEMMA ShownOnTopKeepsBare ==
  ASSUME NEW s \in Monitor, NEW e \in Views
  PROVE  KeepsBare(s, ShownOnTop(s, e))
<1>1. CASE ~s.initialized
  BY <1>1 DEF ShownOnTop, KeepsBare
<1>2. CASE s.initialized
  <2> DEFINE t == SetPlacementTimer(s, e, FALSE)
             u == [t EXCEPT !.resume = 0]
  <2>1. KeepsBare(s, t) /\ t.initialized
    BY <1>2, SetPlacementTimerKeepsBare DEF KeepsBare
  <2>2. ShownOnTop(s, e) \in {Suppress(t, e), UpdateFreezeState(t, e),
                              RenderOverlay(u, e)}
    BY <1>2 DEF ShownOnTop
  <2> HIDE DEF t
  <2>3. KeepsBare(t, u)
    BY <2>1, NoResumeKeepsBare DEF KeepsBare
  <2> HIDE DEF u
  <2>4. KeepsBare(u, RenderOverlay(u, e))
    BY <2>3, RenderOverlayKeepsBare DEF KeepsBare
  <2>5. KeepsBare(t, ShownOnTop(s, e))
    BY <2>1, <2>2, <2>3, <2>4, KeepsBareOn, SuppressKeepsBare,
       UpdateFreezeStateKeepsBare DEF KeepsBare
  <2>6. QED
    BY <2>1, <2>5, KeepsBareOn
<1>3. QED
  BY <1>1, <1>2

LEMMA KeepOverlayOnTopKeepsBare ==
  ASSUME NEW s \in Monitor, NEW e \in Views
  PROVE  KeepsBare(s, KeepOverlayOnTop(s, e))
<1> DEFINE t == ShownOnTop(s, e)
           u == [t EXCEPT !.visible = TRUE]
<1>1. KeepsBare(s, t)
  BY ShownOnTopKeepsBare
<1>2. KeepOverlayOnTop(s, e) \in {s, u}
  BY DEF KeepOverlayOnTop
<1> HIDE DEF t
<1>3. KeepsBare(t, u)
  BY <1>1, FieldsKeepBare DEF KeepsBare
<1> HIDE DEF u
<1>4. KeepsBare(s, u) /\ KeepsBare(s, s)
  BY <1>1, <1>3, KeepsBareOn DEF KeepsBare
<1>5. QED
  BY <1>2, <1>4

LEMMA FreezeGuardKeepsBare ==
  ASSUME NEW s \in Monitor, NEW e \in Views, s.initialized
  PROVE  KeepsBare(s, FreezeGuard(s, e))
<1> DEFINE u == UpdateFreezeState(s, e)
<1>1. KeepsBare(s, u)
  BY UpdateFreezeStateKeepsBare
<1>2. FreezeGuard(s, e) \in {u, KeepOverlayOnTop(u, e)}
  BY DEF FreezeGuard
<1> HIDE DEF u
<1>3. KeepsBare(u, KeepOverlayOnTop(u, e))
  BY <1>1, KeepOverlayOnTopKeepsBare DEF KeepsBare
<1>4. QED
  BY <1>1, <1>2, <1>3, KeepsBareOn

LEMMA ShownKeepsBare ==
  ASSUME NEW s \in Monitor, NEW e \in Views
  PROVE  KeepsBare(s, Shown(s, e))
<1>1. CASE ~s.initialized
  BY <1>1 DEF Shown, KeepsBare
<1>2. CASE s.initialized
  <2> DEFINE t == SetPlacementTimer(s, e, FALSE)
             u == [t EXCEPT !.resume = 0]
  <2>1. KeepsBare(s, t) /\ t.initialized
    BY <1>2, SetPlacementTimerKeepsBare DEF KeepsBare
  <2>2. Shown(s, e) \in {Suppress(t, e), FreezeGuard(t, e),
                         RenderOverlay(u, e)}
    BY <1>2 DEF Shown
  <2> HIDE DEF t
  <2>3. KeepsBare(t, u)
    BY <2>1, NoResumeKeepsBare DEF KeepsBare
  <2> HIDE DEF u
  <2>4. KeepsBare(u, RenderOverlay(u, e))
    BY <2>3, RenderOverlayKeepsBare DEF KeepsBare
  <2>5. KeepsBare(t, Shown(s, e))
    BY <2>1, <2>2, <2>3, <2>4, KeepsBareOn, SuppressKeepsBare,
       FreezeGuardKeepsBare DEF KeepsBare
  <2>6. QED
    BY <2>1, <2>5, KeepsBareOn
<1>3. QED
  BY <1>1, <1>2

LEMMA ShowWindowKeepsBare ==
  ASSUME NEW s \in Monitor, NEW e \in Views
  PROVE  KeepsBare(s, ShowWindow(s, e))
<1> DEFINE t == Shown(s, e)
           u == [t EXCEPT !.visible = TRUE]
           v == KeepOverlayOnTop(u, e)
<1>1. KeepsBare(s, t)
  BY ShownKeepsBare
<1>2. ShowWindow(s, e) \in {s, v}
  BY DEF ShowWindow
<1> HIDE DEF t
<1>3. KeepsBare(t, u)
  BY <1>1, FieldsKeepBare DEF KeepsBare
<1> HIDE DEF u
<1>4. KeepsBare(u, v)
  BY <1>3, KeepOverlayOnTopKeepsBare DEF KeepsBare
<1> HIDE DEF v
<1>5. KeepsBare(s, v) /\ KeepsBare(s, s)
  BY <1>1, <1>3, <1>4, KeepsBareOn DEF KeepsBare
<1>6. QED
  BY <1>2, <1>5

LEMMA RepositionWindowKeepsBare ==
  ASSUME NEW s \in Monitor, NEW e \in Views
  PROVE  KeepsBare(s, RepositionWindow(s, e))
<1> DEFINE u == [s EXCEPT !.visible = TRUE, !.placed = TRUE]
<1>1. KeepsBare(s, u)
  <2>1. u = [[s EXCEPT !.visible = TRUE] EXCEPT !.placed = TRUE]
    BY DEF Monitor
  <2>2. KeepsBare(s, [s EXCEPT !.visible = TRUE])
    BY FieldsKeepBare
  <2>3. KeepsBare([s EXCEPT !.visible = TRUE], u)
    BY <2>1, <2>2, FieldsKeepBare DEF KeepsBare
  <2>4. QED
    BY <2>2, <2>3, KeepsBareOn
<1>2. RepositionWindow(s, e) \in {KeepOverlayOnTop(u, e), KeepOverlayOnTop(s, e)}
  BY DEF RepositionWindow
<1> HIDE DEF u
<1>3. KeepsBare(u, KeepOverlayOnTop(u, e)) /\ KeepsBare(s, KeepOverlayOnTop(s, e))
  BY <1>1, KeepOverlayOnTopKeepsBare DEF KeepsBare
<1>4. QED
  BY <1>1, <1>2, <1>3, KeepsBareOn

LEMMA UnsuppressKeepsBare ==
  ASSUME NEW s \in Monitor, NEW e \in Views
  PROVE  KeepsBare(s, Unsuppress(s, e))
<1> DEFINE free == [s EXCEPT !.suppressed = FALSE]
           u == RestorePlacementTimer(free, e)
           v == ShowWindow(u, e)
           w == RepositionWindow(v, e)
           x == ReapplyLastFrame(w, e)
           t == RenderOverlay(x, e)
<1>1. Unsuppress(s, e) = t
  BY DEF Unsuppress
<1>2. KeepsBare(s, free)
  BY FieldsKeepBare
<1> HIDE DEF free
<1>3. KeepsBare(free, u)
  BY <1>2, RestorePlacementTimerKeepsBare DEF KeepsBare
<1> HIDE DEF u
<1>4. KeepsBare(u, v)
  BY <1>3, ShowWindowKeepsBare DEF KeepsBare
<1> HIDE DEF v
<1>5. KeepsBare(v, w)
  BY <1>4, RepositionWindowKeepsBare DEF KeepsBare
<1> HIDE DEF w
<1>6. KeepsBare(w, x)
  BY <1>5, ReapplyLastFrameKeepsBare DEF KeepsBare
<1> HIDE DEF x
<1>7. KeepsBare(x, t)
  BY <1>6, RenderOverlayKeepsBare DEF KeepsBare
<1> HIDE DEF t
<1>8. QED
  BY <1>1, <1>2, <1>3, <1>4, <1>5, <1>6, <1>7, KeepsBareOn

LEMMA RefreshedKeepsBare ==
  ASSUME NEW s \in Monitor, NEW e \in Views
  PROVE  /\ KeepsBare(s, UpdateOverlaySuppression(s, e))
         /\ KeepsBare(s, Refreshed(s, e))
<1>1. KeepsBare(s, UpdateOverlaySuppression(s, e))
  BY SuppressKeepsBare, UnsuppressKeepsBare DEF UpdateOverlaySuppression
<1> DEFINE u == RepositionWindow(s, e)
           t == RenderOverlay(u, e)
<1>2. Refreshed(s, e) \in {UpdateOverlaySuppression(s, e), t}
  BY DEF Refreshed
<1>3. KeepsBare(s, u)
  BY RepositionWindowKeepsBare
<1> HIDE DEF u
<1>4. KeepsBare(u, t)
  BY <1>3, RenderOverlayKeepsBare DEF KeepsBare
<1> HIDE DEF t
<1>5. QED
  BY <1>1, <1>2, <1>3, <1>4, KeepsBareOn

LEMMA GuardsKeepBare ==
  ASSUME NEW s \in Monitor, NEW e \in Views, s.initialized
  PROVE  KeepsBare(s, HandleOverlayStateGuards(s, e))
<1>1. HandleOverlayStateGuards(s, e) \in
        {UpdateOverlaySuppression(s, e), FreezeGuard(s, e),
         [s EXCEPT !.resume = 0]}
  BY DEF HandleOverlayStateGuards
<1>2. QED
  BY <1>1, RefreshedKeepsBare, FreezeGuardKeepsBare, NoResumeKeepsBare

LEMMA HandleShowWindowKeepsBare ==
  ASSUME NEW s \in Monitor, NEW e \in Views
  PROVE  KeepsBare(s, HandleShowWindow(s, e))
<1> DEFINE t == SetPlacementTimer(s, e, FALSE)
<1>1. CASE s.initialized /\ s.suppressed /\ ~e.suppress
  <2>1. HandleShowWindow(s, e) = Unsuppress(t, e) /\ KeepsBare(s, t)
    BY <1>1, SetPlacementTimerKeepsBare DEF HandleShowWindow
  <2> HIDE DEF t
  <2>2. KeepsBare(t, Unsuppress(t, e))
    BY <2>1, UnsuppressKeepsBare DEF KeepsBare
  <2>3. QED
    BY <2>1, <2>2, KeepsBareOn
<1>2. CASE ~(s.initialized /\ s.suppressed /\ ~e.suppress)
  <2>1. HandleShowWindow(s, e) = Shown(s, e)
    BY <1>2 DEF HandleShowWindow
  <2>2. QED
    BY <2>1, ShownKeepsBare
<1>3. QED
  BY <1>1, <1>2

LEMMA ResetLayeredSurfaceKeepsBare ==
  ASSUME NEW s \in Monitor, NEW e \in Views, s.initialized
  PROVE  KeepsBare(s, ResetLayeredSurface(s, e))
<1> DEFINE l == s.layered /\ Works(e, "style")
           v == s.visible \/ Works(e, "position")
           t == [s EXCEPT !.content = "Blank", !.layered = l, !.visible = v]
           u == KeepOverlayOnTop(t, e)
<1>1. ResetLayeredSurface(s, e) = ReapplyLastFrame(u, e)
  BY DEF ResetLayeredSurface
<1>2. l \in BOOLEAN /\ v \in BOOLEAN
  OBVIOUS
<1> HIDE DEF l, v
<1>3. t \in Monitor /\ t.initialized
  BY <1>2 DEF Monitor
<1> HIDE DEF t
<1>4. KeepsBare(t, u)
  BY <1>3, KeepOverlayOnTopKeepsBare
<1> HIDE DEF u
<1>5. KeepsBare(u, ReapplyLastFrame(u, e))
  BY <1>4, ReapplyLastFrameKeepsBare DEF KeepsBare
<1>6. QED
  BY <1>1, <1>3, <1>4, <1>5 DEF KeepsBare

UninitializedIsBare == ~m.initialized => Bare(m)

LEMMA InitializeMonitorInitializes ==
  ASSUME NEW s \in Monitor, NEW e \in Views
  PROVE  InitializeMonitor(s, e) \in Monitor
         /\ InitializeMonitor(s, e).initialized
<1> DEFINE started == [AttachToTaskbarOwner(s) EXCEPT !.initialized = TRUE]
           refreshing == InstallTimer(started, e, "Refresh")
           placing == SetPlacementTimer(refreshing, e, FALSE)
           timed == InstallTimer(placing, e, "State")
           t == Refreshed(timed, e)
<1>1. InitializeMonitor(s, e) =
        IF s.initialized THEN s
        ELSE IF Handled(timed, e) THEN UpdateOverlaySuppression(timed, e)
        ELSE ShowWindow(t, e)
  BY DEF InitializeMonitor
<1>2. started \in Monitor /\ started.initialized
  <2>1. AttachToTaskbarOwner(s) \in Monitor
    BY AttachType
  <2>2. QED
    BY <2>1 DEF Monitor
<1> HIDE DEF started
<1>3. refreshing \in Monitor /\ refreshing.initialized
  BY <1>2, InstallTimerKeeps DEF TimerIds
<1> HIDE DEF refreshing
<1>4. placing \in Monitor /\ placing.initialized
  BY <1>3, SetPlacementTimerKeepsBare DEF KeepsBare
<1> HIDE DEF placing
<1>5. timed \in Monitor /\ timed.initialized
  BY <1>4, InstallTimerKeeps DEF TimerIds
<1> HIDE DEF timed
<1>6. KeepsBare(timed, t) /\ KeepsBare(timed, UpdateOverlaySuppression(timed, e))
  BY <1>5, RefreshedKeepsBare
<1>7. t \in Monitor /\ t.initialized
  BY <1>5, <1>6 DEF KeepsBare
<1> HIDE DEF t
<1>8. KeepsBare(t, ShowWindow(t, e))
  BY <1>7, ShowWindowKeepsBare
<1>9. QED
  BY <1>1, <1>5, <1>6, <1>7, <1>8 DEF KeepsBare

LEMMA CreateKeepsBare ==
  ASSUME TypeOK, NEW atStartup \in BOOLEAN, Create(atStartup)
  PROVE  m'.initialized \/ KeepsBare(m, m')
<1>1. PICK failed \in Failing :
        LET e == Seen(failed)
            created == [m EXCEPT !.owned = e.explorer]
        IN  m' = IF ~atStartup
                   THEN ShowWindow(InitializeMonitor(created, e), e)
                 ELSE IF Works(e, "timer")
                   THEN InstallTimer(created, e, "StartupInit")
                 ELSE InitializeMonitor(created, e)
  BY DEF Create
<1> DEFINE e == Seen(failed)
           created == [m EXCEPT !.owned = e.explorer]
           i == InitializeMonitor(created, e)
<1>2. e \in Views /\ e.explorer \in BOOLEAN
  <2>1. e \in Views
    BY SeenIsAView
  <2>2. QED
    BY <2>1 DEF Views
<1>3. m' \in {ShowWindow(i, e), i, InstallTimer(created, e, "StartupInit")}
  BY <1>1
<1> HIDE DEF e
<1>4. created \in Monitor /\ KeepsBare(m, created)
  BY <1>2, FieldsKeepBare DEF TypeOK, KeepsBare
<1> HIDE DEF created
<1>5. i \in Monitor /\ i.initialized
  BY <1>2, <1>4, InitializeMonitorInitializes
<1> HIDE DEF i
<1>6. ShowWindow(i, e).initialized
  BY <1>2, <1>5, ShowWindowKeepsBare DEF KeepsBare
<1>7. KeepsBare(created, InstallTimer(created, e, "StartupInit"))
  BY <1>2, <1>4, InstallTimerKeepsBare DEF TimerIds
<1>8. QED
  BY <1>3, <1>4, <1>5, <1>6, <1>7, KeepsBareOn

LEMMA ProgramKeepsBare ==
  ASSUME TypeOK, UninitializedIsBare, Program
  PROVE  m'.initialized \/ KeepsBare(m, m')
<1>0. m \in Monitor /\ KeepsBare(m, m)
  BY DEF TypeOK, KeepsBare
<1>1. \A failed \in Failing : Seen(failed) \in Views
  BY SeenIsAView
<1>2. CASE StartupInitTimer
  <2>1. PICK failed \in Failing :
          m' = InitializeMonitor([m EXCEPT !.timers = @ \ {"StartupInit"}],
                                 Seen(failed))
    BY <1>2 DEF StartupInitTimer
  <2>2. [m EXCEPT !.timers = @ \ {"StartupInit"}] \in Monitor
    BY <1>0 DEF Monitor
  <2>3. QED
    BY <1>1, <2>1, <2>2, InitializeMonitorInitializes
<1>3. ASSUME BurstTimer \/ StateTimer \/ RefreshTimer \/ PlacementTimer
      PROVE  m.initialized
  BY <1>3 DEF BurstTimer, StateTimer, RefreshTimer, PlacementTimer, Fires,
     UninitializedIsBare, Bare
<1>4. CASE BurstTimer
  <2>1. PICK failed \in Failing :
          m' \in {[m EXCEPT !.timers = @ \ {"Burst"}, !.until = 0],
                  ReapplyLastFrame(RepositionWindow(m, Seen(failed)),
                                   Seen(failed))}
    BY <1>4 DEF BurstTimer
  <2> DEFINE r == RepositionWindow(m, Seen(failed))
  <2>2. KeepsBare(m, r)
    BY <1>0, <1>1, RepositionWindowKeepsBare
  <2> HIDE DEF r
  <2>3. KeepsBare(r, ReapplyLastFrame(r, Seen(failed)))
    BY <1>1, <2>2, ReapplyLastFrameKeepsBare DEF KeepsBare
  <2>4. [m EXCEPT !.timers = @ \ {"Burst"}, !.until = 0].initialized
          = m.initialized
    BY <1>0 DEF Monitor
  <2>5. QED
    BY <1>3, <1>4, <2>1, <2>2, <2>3, <2>4 DEF KeepsBare, r
<1>5. CASE StateTimer \/ RefreshTimer \/ PlacementTimer
  <2> DEFINE s(failed) == HandleOverlayStateGuards(m, Seen(failed))
             p(failed) == RepositionWindow(s(failed), Seen(failed))
  <2>1. PICK failed \in Failing :
          m' \in {s(failed), RenderOverlay(s(failed), Seen(failed)),
                  p(failed), RenderOverlay(p(failed), Seen(failed))}
    BY <1>5 DEF StateTimer, RefreshTimer, PlacementTimer
  <2>2. KeepsBare(m, s(failed))
    BY <1>0, <1>1, <1>3, <1>5, GuardsKeepBare
  <2>3. s(failed) \in Monitor /\ s(failed).initialized
    BY <1>3, <1>5, <2>2 DEF KeepsBare
  <2> HIDE DEF s
  <2>4. p(failed) \in Monitor /\ p(failed).initialized
    BY <1>1, <2>3, RepositionWindowKeepsBare DEF KeepsBare
  <2> HIDE DEF p
  <2>5. /\ RenderOverlay(s(failed), Seen(failed)).initialized
        /\ RenderOverlay(p(failed), Seen(failed)).initialized
    BY <1>1, <2>3, <2>4, RenderOverlayKeepsBare DEF KeepsBare
  <2>6. QED
    BY <2>1, <2>3, <2>4, <2>5
<1>6. CASE TrayLayoutChanged \/ TaskbarCreated
  <2>1. CASE ~m.initialized
    BY <1>0, <1>6, <2>1 DEF TrayLayoutChanged, TaskbarCreated
  <2>2. CASE m.initialized
    <3> DEFINE b(failed) == StartZOrderBurst(m, Seen(failed))
               s(failed) == AttachToTaskbarOwner(b(failed))
               a == AttachToTaskbarOwner(m)
    <3>1. PICK failed \in Failing :
            m' \in {Refreshed(s(failed), Seen(failed)),
                    Refreshed(a, Seen(failed))}
      BY <1>6, <2>2 DEF TrayLayoutChanged, TaskbarCreated
    <3>2. b(failed) \in Monitor /\ b(failed).initialized
      BY <1>0, <1>1, <2>2, StartZOrderBurstKeepsBare DEF KeepsBare
    <3> HIDE DEF b
    <3>3. s(failed) \in Monitor /\ s(failed).initialized
          /\ a \in Monitor /\ a.initialized
      BY <1>0, <2>2, <3>2, AttachKeepsBare DEF KeepsBare
    <3> HIDE DEF s, a
    <3>4. /\ Refreshed(s(failed), Seen(failed)).initialized
          /\ Refreshed(a, Seen(failed)).initialized
      BY <1>1, <3>3, RefreshedKeepsBare DEF KeepsBare
    <3>5. QED
      BY <3>1, <3>4
  <2>3. QED
    BY <2>1, <2>2
<1>7. CASE ForegroundChanged
  <2>1. CASE ~m.initialized
    BY <1>0, <1>7, <2>1 DEF ForegroundChanged
  <2>2. CASE m.initialized
    <3> DEFINE u == [m EXCEPT !.controlCenter = foreground = "ControlCenter"]
               b(failed) == StartZOrderBurst(u, Seen(failed))
               r(failed) == RepositionWindow(b(failed), Seen(failed))
               s(failed) == ReapplyLastFrame(r(failed), Seen(failed))
    <3>1. PICK failed \in Failing :
            m' \in {s(failed), ResetLayeredSurface(s(failed), Seen(failed))}
      BY <1>7, <2>2 DEF ForegroundChanged
    <3>2. u \in Monitor /\ u.initialized
      <4>1. \A c \in BOOLEAN : /\ [m EXCEPT !.controlCenter = c] \in Monitor
                               /\ [m EXCEPT !.controlCenter = c].initialized
        BY <1>0, <2>2 DEF Monitor
      <4>2. QED
        BY <4>1
    <3> HIDE DEF u
    <3>3. b(failed) \in Monitor /\ b(failed).initialized
      BY <1>1, <3>2, StartZOrderBurstKeepsBare DEF KeepsBare
    <3> HIDE DEF b
    <3>4. r(failed) \in Monitor /\ r(failed).initialized
      BY <1>1, <3>3, RepositionWindowKeepsBare DEF KeepsBare
    <3> HIDE DEF r
    <3>5. s(failed) \in Monitor /\ s(failed).initialized
      BY <1>1, <3>4, ReapplyLastFrameKeepsBare DEF KeepsBare
    <3> HIDE DEF s
    <3>6. ResetLayeredSurface(s(failed), Seen(failed)).initialized
      BY <1>1, <3>5, ResetLayeredSurfaceKeepsBare DEF KeepsBare
    <3>7. QED
      BY <3>1, <3>5, <3>6
  <2>3. QED
    BY <2>1, <2>2
<1>8. QED
  BY <1>2, <1>4, <1>5, <1>6, <1>7 DEF Program

LEMMA EnvironmentKeepsBare ==
  ASSUME TypeOK, Environment \/ Tick \/ UNCHANGED vars
  PROVE  m' = NewMonitor \/ m'.initialized \/ KeepsBare(m, m')
<1>0. m \in Monitor /\ KeepsBare(m, m)
  BY DEF TypeOK, KeepsBare
<1>2. \A failed \in Failing : Seen(failed) \in Views
  BY SeenIsAView
<1> DEFINE s == [m EXCEPT !.placed = FALSE]
<1>3. KeepsBare(m, s) /\ s \in Monitor
  BY <1>0, FieldsKeepBare DEF KeepsBare
<1>4. CASE DisplayChanged
  <2> DEFINE a == AttachToTaskbarOwner(s)
  <2>1. PICK failed \in Failing : m' \in {s, Refreshed(a, Seen(failed))}
    BY <1>4 DEF DisplayChanged
  <2> HIDE DEF s
  <2>2. KeepsBare(s, a) /\ a \in Monitor
    BY <1>3, AttachKeepsBare DEF KeepsBare
  <2> HIDE DEF a
  <2>3. KeepsBare(a, Refreshed(a, Seen(failed)))
    BY <1>2, <2>2, RefreshedKeepsBare
  <2>4. QED
    BY <1>3, <2>1, <2>2, <2>3, KeepsBareOn
<1>5. CASE DpiChanged
  <2> DEFINE k(failed) == KeepOverlayOnTop(s, Seen(failed))
  <2>1. PICK failed \in Failing :
          m' \in {Refreshed(k(failed), Seen(failed)),
                  Refreshed(s, Seen(failed))}
    BY <1>5 DEF DpiChanged
  <2> HIDE DEF s
  <2>2. KeepsBare(s, k(failed)) /\ k(failed) \in Monitor
    BY <1>2, <1>3, KeepOverlayOnTopKeepsBare DEF KeepsBare
  <2> HIDE DEF k
  <2>3. /\ KeepsBare(k(failed), Refreshed(k(failed), Seen(failed)))
        /\ KeepsBare(s, Refreshed(s, Seen(failed)))
    BY <1>2, <1>3, <2>2, RefreshedKeepsBare
  <2>4. QED
    BY <1>3, <2>1, <2>2, <2>3, KeepsBareOn
<1>6. CASE ReloadConfig \/ DoubleClick
  BY <1>0, <1>2, <1>6, RefreshedKeepsBare, RepositionWindowKeepsBare
  DEF ReloadConfig, DoubleClick
<1>7. CASE RecoverTaskbar
  <2>1. PICK failed \in Failing :
          LET e == Seen(failed)
              t == StartZOrderBurst([m EXCEPT !.owned = e.explorer,
                                              !.tracked = e.explorer], e)
              shown == RepositionWindow(ShowWindow(t, e), e)
          IN  m' = IF Handled(t, e) THEN UpdateOverlaySuppression(t, e)
                   ELSE RenderOverlay(ResetLayeredSurface(shown, e), e)
    BY <1>7 DEF RecoverTaskbar
  <2> DEFINE e == Seen(failed)
             u == [m EXCEPT !.owned = e.explorer, !.tracked = e.explorer]
             t == StartZOrderBurst(u, e)
             w == ShowWindow(t, e)
             shown == RepositionWindow(w, e)
             l == ResetLayeredSurface(shown, e)
  <2>2. m' \in {UpdateOverlaySuppression(t, e), RenderOverlay(l, e)}
    BY <2>1
  <2>3. e \in Views
    BY <1>2
  <2>4. m.initialized
    BY <1>7 DEF RecoverTaskbar
  <2> HIDE DEF e
  <2>5. u \in Monitor /\ u.initialized
    <3>1. e.explorer \in BOOLEAN
      BY <2>3 DEF Views
    <3>2. \A b \in BOOLEAN, x \in Monitor :
            /\ [x EXCEPT !.owned = b] \in Monitor
            /\ [x EXCEPT !.tracked = b] \in Monitor
            /\ [x EXCEPT !.owned = b].initialized = x.initialized
            /\ [x EXCEPT !.tracked = b].initialized = x.initialized
      BY DEF Monitor
    <3>3. u = [[m EXCEPT !.owned = e.explorer] EXCEPT !.tracked = e.explorer]
      BY <1>0, Zenon DEF Monitor
    <3> HIDE DEF u
    <3>4. QED
      BY <1>0, <2>4, <3>1, <3>2, <3>3
  <2> HIDE DEF u
  <2>6. t \in Monitor /\ t.initialized
    BY <2>3, <2>5, StartZOrderBurstKeepsBare DEF KeepsBare
  <2> HIDE DEF t
  <2>7. w \in Monitor /\ w.initialized
    BY <2>3, <2>6, ShowWindowKeepsBare DEF KeepsBare
  <2> HIDE DEF w
  <2>8. shown \in Monitor /\ shown.initialized
    BY <2>3, <2>7, RepositionWindowKeepsBare DEF KeepsBare
  <2> HIDE DEF shown
  <2>9. l \in Monitor /\ l.initialized
    BY <2>3, <2>8, ResetLayeredSurfaceKeepsBare DEF KeepsBare
  <2> HIDE DEF l
  <2>10. /\ RenderOverlay(l, e).initialized
         /\ UpdateOverlaySuppression(t, e).initialized
    BY <2>3, <2>6, <2>9, RenderOverlayKeepsBare, RefreshedKeepsBare
    DEF KeepsBare
  <2>11. QED
    BY <2>2, <2>10
<1>8. CASE OutsideHide
  <2> DEFINE p(failed) == SetPlacementTimer(m, Seen(failed), TRUE)
             f(failed) == StartZOrderBurst(p(failed), Seen(failed))
             r(failed) == ReapplyLastFrame(f(failed), Seen(failed))
             t(failed) == IF m.initialized /\ ~m.suppressed THEN r(failed)
                          ELSE m
             h(failed) == [t(failed) EXCEPT !.visible = FALSE]
  <2>1. PICK failed \in Failing :
          m' = KeepOverlayOnTop(h(failed), Seen(failed))
    BY <1>8 DEF OutsideHide
  <2>2. KeepsBare(m, t(failed))
    <3>1. CASE m.initialized
      <4>1. p(failed) \in Monitor /\ p(failed).initialized
        BY <1>0, <1>2, <3>1, SetPlacementTimerKeepsBare DEF KeepsBare
      <4> HIDE DEF p
      <4>2. f(failed) \in Monitor /\ f(failed).initialized
        BY <1>2, <4>1, StartZOrderBurstKeepsBare DEF KeepsBare
      <4> HIDE DEF f
      <4>3. r(failed) \in Monitor /\ r(failed).initialized
        BY <1>2, <4>2, ReapplyLastFrameKeepsBare DEF KeepsBare
      <4> HIDE DEF r
      <4>4. QED
        BY <1>0, <3>1, <4>3 DEF KeepsBare
    <3>2. CASE ~m.initialized
      BY <1>0, <3>2
    <3>3. QED
      BY <3>1, <3>2
  <2> HIDE DEF t
  <2>3. KeepsBare(t(failed), h(failed))
    BY <2>2, FieldsKeepBare DEF KeepsBare
  <2> HIDE DEF h
  <2>4. KeepsBare(h(failed), m')
    BY <1>2, <2>1, <2>3, KeepOverlayOnTopKeepsBare DEF KeepsBare
  <2>5. QED
    BY <2>2, <2>3, <2>4, KeepsBareOn
<1>9. CASE OutsideShow
  <2> DEFINE t(failed) == HandleShowWindow(m, Seen(failed))
             h(failed) == [t(failed) EXCEPT !.visible = TRUE]
  <2>1. PICK failed \in Failing :
          m' = KeepOverlayOnTop(h(failed), Seen(failed))
    BY <1>9 DEF OutsideShow
  <2>2. KeepsBare(m, t(failed))
    BY <1>0, <1>2, HandleShowWindowKeepsBare
  <2> HIDE DEF t
  <2>3. KeepsBare(t(failed), h(failed))
    BY <2>2, FieldsKeepBare DEF KeepsBare
  <2> HIDE DEF h
  <2>4. KeepsBare(h(failed), m')
    BY <1>2, <2>1, <2>3, KeepOverlayOnTopKeepsBare DEF KeepsBare
  <2>5. QED
    BY <2>2, <2>3, <2>4, KeepsBareOn
<1>10. CASE TrayEvent
  BY <1>3, <1>10 DEF TrayEvent
<1>11. CASE Exit \/ ExplorerDies
  BY <1>0, <1>11 DEF Exit, ExplorerDies, HandleDestroy
<1>12. CASE ForegroundEvent \/ DesktopChanges \/ ExplorerStarts
            \/ BecomeCalm \/ UNCHANGED vars
  BY <1>0, <1>12 DEF ForegroundEvent, DesktopChanges, ExplorerStarts,
     BecomeCalm, vars
<1>13. CASE Tick
  <2> DEFINE c == IF m.content = "Current" THEN "Old" ELSE m.content
  <2>1. m' = [m EXCEPT !.content = c] /\ c \in {"Blank", "Old", "Current"}
    BY <1>0, <1>13 DEF Tick, Monitor
  <2> HIDE DEF c
  <2>2. /\ m' \in Monitor /\ m'.initialized = m.initialized
        /\ m'.timers = m.timers /\ m'.fast = m.fast
        /\ m'.frozen = m.frozen /\ m'.resume = m.resume
    BY <1>0, <2>1 DEF Monitor
  <2>3. QED
    BY <2>2, Untouched
<1>14. QED
  BY <1>4, <1>5, <1>6, <1>7, <1>8, <1>9, <1>10, <1>11, <1>12, <1>13
  DEF Environment

LEMMA BareStep ==
  TypeOK /\ UninitializedIsBare /\ [Next]_vars => UninitializedIsBare'
<1> SUFFICES ASSUME TypeOK, UninitializedIsBare, [Next]_vars
             PROVE  UninitializedIsBare'
  OBVIOUS
<1>1. m' = NewMonitor \/ m'.initialized \/ KeepsBare(m, m')
  BY CreateKeepsBare, ProgramKeepsBare, EnvironmentKeepsBare DEF Next
<1>2. Bare(NewMonitor)
  BY DEF Bare, NewMonitor
<1>3. QED
  BY <1>1, <1>2 DEF UninitializedIsBare, KeepsBare

-----------------------------------------------------------------------------
(* The tick count: how many ticks are left until a deadline.               *)
Left(deadline, tick) == (deadline - tick) % TickRange

LEMMA Halves ==
  /\ TickRange \in Nat /\ TickRange \div 2 \in Nat
  /\ TickRange = TickRange \div 2 + TickRange \div 2
  /\ TickRange \div 2 >= 2
  /\ MaxQuiet = 1 + TickRange \div 2
  /\ Resume \in Nat /\ 1 <= Resume /\ Resume < TickRange \div 2
<1>1. TickRange \in Nat /\ TickRange >= 4 /\ TickRange % 2 = 0
  BY StableAssumption
<1> DEFINE half == TickRange \div 2
<1>2. half \in Int /\ TickRange = 2 * half
  BY <1>1, Z3
<1>3. Resume \in 1 .. half - 1
  BY StableAssumption
<1> HIDE DEF half
<1>4. half \in Nat /\ TickRange = half + half /\ half >= 2
  BY <1>1, <1>2
<1>5. Resume \in Nat /\ 1 <= Resume /\ Resume < half
  BY <1>3, <1>4
<1>6. QED
  BY <1>1, <1>4, <1>5 DEF half, MaxQuiet

LEMMA Wrapped ==
  ASSUME NEW x \in Int, -TickRange <= x, x < 2 * TickRange
  PROVE  /\ 0 <= x /\ x < TickRange => x % TickRange = x
         /\ x < 0 => x % TickRange = x + TickRange
         /\ TickRange <= x => x % TickRange = x - TickRange
<1> DEFINE q == x \div TickRange
           r == x % TickRange
<1>0. TickRange \in Nat /\ TickRange > 0
  BY StableAssumption
<1>1. q \in Int /\ r \in 0 .. TickRange - 1 /\ x = TickRange * q + r
  BY <1>0, Z3
<1> HIDE DEF q, r
<1>2. CASE q >= 2
  <2>1. TickRange * q >= TickRange * 2
    BY <1>0, <1>1, <1>2, Z3
  <2>2. QED
    BY <1>0, <1>1, <2>1
<1>3. CASE q <= -2
  <2>1. TickRange * q <= TickRange * (-2)
    BY <1>0, <1>1, <1>3, Z3
  <2>2. QED
    BY <1>0, <1>1, <2>1
<1>4. CASE q = 1
  BY <1>0, <1>1, <1>4 DEF r
<1>5. CASE q = 0
  BY <1>0, <1>1, <1>5 DEF r
<1>6. CASE q = -1
  BY <1>0, <1>1, <1>6 DEF r
<1>7. QED
  BY <1>1, <1>2, <1>3, <1>4, <1>5, <1>6

LEMMA LeftIs ==
  ASSUME NEW deadline \in Ticks, NEW tick \in Ticks
  PROVE  Left(deadline, tick) =
           IF tick <= deadline THEN deadline - tick
           ELSE deadline - tick + TickRange
<1>1. /\ deadline \in Int /\ 0 <= deadline /\ deadline < TickRange
      /\ tick \in Int /\ 0 <= tick /\ tick < TickRange
      /\ TickRange \in Nat
  BY Halves DEF Ticks
<1>2. /\ deadline - tick \in Int /\ -TickRange <= deadline - tick
      /\ deadline - tick < TickRange /\ deadline - tick < 2 * TickRange
  BY <1>1
<1>3. /\ 0 <= deadline - tick => Left(deadline, tick) = deadline - tick
      /\ deadline - tick < 0 =>
           Left(deadline, tick) = deadline - tick + TickRange
  BY <1>2, Wrapped DEF Left
<1>4. QED
  BY <1>1, <1>3

\* A deadline is ahead when less than half the range is left.
LEMMA AheadIs ==
  ASSUME NEW deadline \in Ticks, NEW tick \in Ticks
  PROVE  ~TickPassed(tick, deadline) <=>
           Left(deadline, tick) \in 1 .. TickRange \div 2
<1>1. /\ deadline \in Int /\ 0 <= deadline /\ deadline < TickRange
      /\ tick \in Int /\ 0 <= tick /\ tick < TickRange
  BY Halves DEF Ticks
<1>2. (tick - deadline) % TickRange = Left(tick, deadline)
  BY DEF Left
<1> DEFINE half == TickRange \div 2
<1>3. half \in Nat /\ TickRange = half + half /\ half >= 2
  BY Halves
<1>4. TickPassed(tick, deadline) <=> Left(tick, deadline) < half
  BY <1>2 DEF TickPassed
<1> HIDE DEF half
<1>5. /\ Left(deadline, tick) = IF tick <= deadline THEN deadline - tick
                                ELSE deadline - tick + TickRange
      /\ Left(tick, deadline) = IF deadline <= tick THEN tick - deadline
                                ELSE tick - deadline + TickRange
  BY LeftIs
<1>6. ~TickPassed(tick, deadline) <=> Left(deadline, tick) \in 1 .. half
  BY <1>1, <1>3, <1>4, <1>5
<1>7. QED
  BY <1>6 DEF half

LEMMA DeadlineIsAhead ==
  ASSUME NEW tick \in Ticks
  PROVE  /\ Deadline(tick, Resume) \in Ticks
         /\ Left(Deadline(tick, Resume), tick) = Resume
<1> DEFINE x == tick + Resume
           d == Deadline(tick, Resume)
<1>1. /\ tick \in Int /\ 0 <= tick /\ tick < TickRange
      /\ TickRange \in Nat /\ Resume \in Nat /\ 1 <= Resume
      /\ Resume < TickRange
  BY Halves DEF Ticks
<1>2. x \in Int /\ -TickRange <= x /\ x < 2 * TickRange /\ 0 <= x
  BY <1>1
<1>3. /\ x < TickRange => x % TickRange = x
      /\ TickRange <= x => x % TickRange = x - TickRange
  BY <1>2, Wrapped
<1>4. d = x % TickRange
  BY DEF Deadline
<1> HIDE DEF d
<1>5. d = IF x < TickRange THEN x ELSE x - TickRange
  BY <1>1, <1>2, <1>3, <1>4
<1>6. d \in Ticks
  BY Deadlines DEF d
<1>7. Left(d, tick) = IF tick <= d THEN d - tick ELSE d - tick + TickRange
  BY <1>6, LeftIs
<1>8. Left(d, tick) = Resume
  BY <1>1, <1>5, <1>7
<1>9. QED
  BY <1>6, <1>8 DEF d

LEMMA TickTakesOne ==
  ASSUME NEW deadline \in Ticks, NEW tick \in Ticks,
         1 <= Left(deadline, tick)
  PROVE  LET next == (tick + 1) % TickRange
         IN  /\ next \in Ticks
             /\ Left(deadline, next) = Left(deadline, tick) - 1
             /\ Left(deadline, next) = 0 => deadline = next
<1> DEFINE next == (tick + 1) % TickRange
<1>1. /\ deadline \in Int /\ 0 <= deadline /\ deadline < TickRange
      /\ tick \in Int /\ 0 <= tick /\ tick < TickRange
      /\ TickRange \in Nat /\ 1 < TickRange
  BY Halves DEF Ticks
<1>2. /\ tick + 1 < TickRange => next = tick + 1
      /\ TickRange <= tick + 1 => next = tick + 1 - TickRange
  BY <1>1, Wrapped
<1>3. next \in Ticks
  BY <1>1, Remainders
<1> HIDE DEF next
<1>4. next = IF tick + 1 < TickRange THEN tick + 1 ELSE 0
  BY <1>1, <1>2
<1>5. /\ Left(deadline, tick) = IF tick <= deadline THEN deadline - tick
                                ELSE deadline - tick + TickRange
      /\ Left(deadline, next) = IF next <= deadline THEN deadline - next
                                ELSE deadline - next + TickRange
  BY <1>3, LeftIs
<1>6. /\ Left(deadline, next) = Left(deadline, tick) - 1
      /\ Left(deadline, next) = 0 => deadline = next
  BY <1>1, <1>4, <1>5
<1>7. QED
  BY <1>3, <1>6 DEF next

-----------------------------------------------------------------------------
(* Quiet.  Once a tick has passed in calm, only timers fire.               *)
Quieted ==
    quiet > 0 => Calm /\ Running /\ posted = {} /\ foreground = "None"

QuietTimer ==
    \/ StartupInitTimer \/ BurstTimer \/ StateTimer \/ RefreshTimer
    \/ PlacementTimer

LEMMA CalmCosts ==
  ASSUME TypeOK, Calm, NEW failed \in Failing
  PROVE  failed = {} /\ (Costs(failed) => trouble' = trouble)
BY DEF Failing, Costs

LEMMA QuietSteps ==
  ASSUME TypeOK, Quieted, quiet > 0, [Next]_vars
  PROVE  QuietTimer \/ Tick \/ UNCHANGED vars
<1>1. trouble = 0 /\ phase = "Running" /\ posted = {} /\ foreground = "None"
  BY DEF Quieted, Calm, Running
<1>2. ~\E atStartup \in BOOLEAN : Create(atStartup)
  BY <1>1 DEF Create
<1>3. ~Environment
  BY <1>1 DEF Environment, DisplayChanged, DpiChanged, ReloadConfig,
     RecoverTaskbar, DoubleClick, Exit, OutsideHide, OutsideShow, TrayEvent,
     ForegroundEvent, DesktopChanges, ExplorerDies, ExplorerStarts,
     BecomeCalm, Interferes, Troubled, Calm
<1>4. ~(TrayLayoutChanged \/ ForegroundChanged \/ TaskbarCreated)
  BY <1>1 DEF TrayLayoutChanged, ForegroundChanged, TaskbarCreated
<1>5. QED
  BY <1>2, <1>3, <1>4 DEF Next, Program, QuietTimer

\* What a timer that fires in quiet leaves alone.
LEMMA QuietTimerFrame ==
  ASSUME TypeOK, Calm, QuietTimer
  PROVE  UNCHANGED <<trouble, phase, desktop, now, warm, quiet, marked, posted,
                     foreground>>
<1>1. trouble' = trouble
  BY CalmCosts DEF QuietTimer, StartupInitTimer, BurstTimer, StateTimer,
     RefreshTimer, PlacementTimer
<1>2. UNCHANGED <<world, queue>>
  BY DEF QuietTimer, StartupInitTimer, BurstTimer, StateTimer,
     RefreshTimer, PlacementTimer, Fires
<1>3. QED
  BY <1>1, <1>2 DEF world, queue

LEMMA QuietFrame ==
  ASSUME TypeOK, Quieted, [Next]_vars, quiet' > 0
  PROVE  Tick \/ (quiet > 0 /\ quiet' = quiet)
<1>0. quiet \in 0 .. MaxQuiet
  BY DEF TypeOK
<1>1. CASE Tick
  BY <1>1
<1>2. CASE Program
  BY <1>0, <1>2 DEF Program, StartupInitTimer, BurstTimer, StateTimer,
     RefreshTimer, PlacementTimer, TrayLayoutChanged, ForegroundChanged,
     TaskbarCreated, Fires, world
<1>3. CASE \/ \E atStartup \in BOOLEAN : Create(atStartup)
           \/ Environment \/ UNCHANGED vars
  BY <1>0, <1>3 DEF Create, Environment, DisplayChanged, DpiChanged,
     ReloadConfig, RecoverTaskbar, DoubleClick, Exit, OutsideHide,
     OutsideShow, TrayEvent, ForegroundEvent, DesktopChanges, ExplorerDies,
     ExplorerStarts, BecomeCalm, Interferes, vars
<1>4. QED
  BY <1>1, <1>2, <1>3 DEF Next

\* A tick that leaves quiet behind it begins or goes on with it.
LEMMA QuietTick ==
  ASSUME TypeOK, Quieted, Tick, quiet' > 0
  PROVE  /\ Calm /\ AtRest
         /\ due' = m.timers \cap FastTimers
         /\ UNCHANGED <<phase, desktop, warm, trouble, marked, posted,
                        foreground>>
<1>1. quiet \in 0 .. MaxQuiet
  BY DEF TypeOK
<1>2. Calm
  BY <1>1 DEF Tick, Quieted
<1>3. QED
  BY <1>2 DEF Tick, queue

LEMMA QuietStep == TypeOK /\ Quieted /\ [Next]_vars => Quieted'
<1> SUFFICES ASSUME TypeOK, Quieted, [Next]_vars, quiet' > 0
             PROVE  (Calm /\ Running /\ posted = {} /\ foreground = "None")'
  BY DEF Quieted
<1>1. CASE Tick
  BY <1>1, QuietTick DEF AtRest, Tick, Calm, Running
<1>2. CASE ~Tick
  <2>1. quiet > 0
    BY <1>2, QuietFrame
  <2>2. Calm /\ Running /\ posted = {} /\ foreground = "None"
    BY <2>1 DEF Quieted
  <2>3. QuietTimer \/ UNCHANGED vars
    BY <1>2, <2>1, QuietSteps
  <2>4. UNCHANGED <<trouble, phase, posted, foreground>>
    BY <2>2, <2>3, QuietTimerFrame DEF vars
  <2>5. QED
    BY <2>2, <2>4 DEF Calm, Running
<1>3. QED
  BY <1>1, <1>2

-----------------------------------------------------------------------------
(* What the timers make of the monitor in quiet.                           *)
Timed ==
    /\ Running /\ quiet > 0
    /\ m.initialized /\ {"Refresh", "State"} \subseteq m.timers

Clear == desktop.reason = "None" /\ ~desktop.screenshot

\* A deferral in force, or none: the one that is left after a freeze lasts for
\* half the range of the tick count at most, and so not to the end of quiet.
Remaining == Left(m.resume, now)
Deferral == m.resume = 0 \/ Remaining \in 1 .. MaxQuiet - quiet

\* A reason to hide has its effect at the first guard.
HidingSettles ==
    Timed /\ desktop.reason = "NotificationState"
        => "State" \in due \/ Covered(m)

\* On a clear desktop the first guard of a tick takes the suppression away and
\* the second the freeze.
FirstTick ==
    Timed /\ Clear =>
        /\ "State" \notin due => ~m.suppressed
        /\ "Refresh" \notin due => ~m.suppressed /\ m.visible
        /\ due \cap {"State", "Refresh"} = {} => ~m.frozen /\ Deferral

\* From the second tick on a refresh paints, unless there is a deferral.
LaterTicks ==
    Timed /\ Clear /\ quiet > 1 =>
        /\ ~m.suppressed /\ ~m.frozen /\ m.visible
        /\ Deferral \/ m.resume = now
        /\ "Refresh" \notin due =>
             \/ m.resume # 0 /\ Deferral
             \/ m.resume = 0 /\ Painted(m)

Settling == HidingSettles /\ FirstTick /\ LaterTicks

LEMMA ClearView ==
  ASSUME TypeOK, Clear
  PROVE  Seen({}) \in ClearViews
<1>1. Seen({}) \in Views /\ Seen({}).suppress = SuppressionReason
  <2>1. {} \in Failing
    BY DEF Failing
  <2>2. QED
    BY <2>1, SeenIsAView
<1>2. ~SuppressionReason
  BY DEF SuppressionReason, Clear
<1>3. Seen({}).failed = {} /\ ~Seen({}).freeze
  BY DEF Seen, Clear
<1>4. QED
  BY <1>1, <1>2, <1>3 DEF ClearViews

LEMMA HidingView ==
  ASSUME TypeOK, desktop.reason = "NotificationState"
  PROVE  Seen({}) \in HidingViews
<1>1. Seen({}) \in Views /\ Seen({}).suppress = SuppressionReason
  <2>1. {} \in Failing
    BY DEF Failing
  <2>2. QED
    BY <2>1, SeenIsAView
<1>2. SuppressionReason
  BY DEF SuppressionReason
<1>3. Seen({}).failed = {}
  BY DEF Seen
<1>4. QED
  BY <1>1, <1>2, <1>3 DEF HidingViews

\* The timers, when no call fails.
LEMMA CalmTimers ==
  ASSUME TypeOK, Calm
  PROVE  LET e == Seen({})
             g == HandleOverlayStateGuards(m, e)
         IN  /\ StartupInitTimer =>
                  /\ due' = due \ {"StartupInit"}
                  /\ m' = InitializeMonitor(
                            [m EXCEPT !.timers = @ \ {"StartupInit"}], e)
             /\ BurstTimer =>
                  /\ due' = due \ {"Burst"}
                  /\ IF m.suppressed \/ m.until = 0 \/ TickPassed(now, m.until)
                       THEN m' = [m EXCEPT !.timers = @ \ {"Burst"},
                                           !.until = 0]
                       ELSE m' = ReapplyLastFrame(RepositionWindow(m, e), e)
             /\ StateTimer =>
                  /\ due' = due \ {"State"}
                  /\ \E changed \in BOOLEAN :
                       m' = IF changed /\ ~Stopped(m, e)
                              THEN RenderOverlay(g, e) ELSE g
             /\ RefreshTimer =>
                  /\ due' = due \ {"Refresh"}
                  /\ m' = IF Stopped(m, e) THEN g
                          ELSE RenderOverlay(RepositionWindow(g, e), e)
             /\ PlacementTimer =>
                  /\ due' = due \ {"Placement"}
                  /\ m' = IF Stopped(m, e) THEN g ELSE RepositionWindow(g, e)
<1> USE CalmCosts
<1>1. ASSUME StartupInitTimer
      PROVE  /\ due' = due \ {"StartupInit"}
             /\ m' = InitializeMonitor(
                       [m EXCEPT !.timers = @ \ {"StartupInit"}], Seen({}))
  BY <1>1 DEF StartupInitTimer, Fires
<1>2. ASSUME BurstTimer
      PROVE  /\ due' = due \ {"Burst"}
             /\ IF m.suppressed \/ m.until = 0 \/ TickPassed(now, m.until)
                  THEN m' = [m EXCEPT !.timers = @ \ {"Burst"}, !.until = 0]
                  ELSE m' = ReapplyLastFrame(RepositionWindow(m, Seen({})),
                                             Seen({}))
  <2>1. PICK failed \in Failing :
          m' = IF m.suppressed \/ m.until = 0 \/ TickPassed(now, m.until)
                 THEN [m EXCEPT !.timers = @ \ {"Burst"}, !.until = 0]
                 ELSE ReapplyLastFrame(RepositionWindow(m, Seen(failed)),
                                       Seen(failed))
    BY <1>2 DEF BurstTimer
  <2>2. failed = {}
    OBVIOUS
  <2>3. QED
    BY <1>2, <2>1, <2>2 DEF BurstTimer, Fires
<1>3. ASSUME StateTimer
      PROVE  /\ due' = due \ {"State"}
             /\ \E changed \in BOOLEAN :
                  m' = IF changed /\ ~Stopped(m, Seen({}))
                         THEN RenderOverlay(
                                HandleOverlayStateGuards(m, Seen({})), Seen({}))
                         ELSE HandleOverlayStateGuards(m, Seen({}))
  BY <1>3 DEF StateTimer, Fires
<1>4. ASSUME RefreshTimer
      PROVE  /\ due' = due \ {"Refresh"}
             /\ m' = IF Stopped(m, Seen({}))
                       THEN HandleOverlayStateGuards(m, Seen({}))
                       ELSE RenderOverlay(
                              RepositionWindow(
                                HandleOverlayStateGuards(m, Seen({})),
                                Seen({})), Seen({}))
  BY <1>4 DEF RefreshTimer, Fires
<1>5. ASSUME PlacementTimer
      PROVE  /\ due' = due \ {"Placement"}
             /\ m' = IF Stopped(m, Seen({}))
                       THEN HandleOverlayStateGuards(m, Seen({}))
                       ELSE RepositionWindow(
                              HandleOverlayStateGuards(m, Seen({})), Seen({}))
  BY <1>5 DEF PlacementTimer, Fires
<1>6. QED
  BY <1>1, <1>2, <1>3, <1>4, <1>5

\* The startup timer of an initialised monitor, and the end of a burst, change
\* nothing that is of interest here.
LEMMA Idle ==
  ASSUME NEW s \in Monitor
  PROVE  /\ LET t == [s EXCEPT !.timers = @ \ {"StartupInit"}]
            IN  /\ t \in Monitor
                /\ t.initialized = s.initialized /\ t.fast = s.fast
                /\ t.timers \subseteq s.timers
                /\ t.visible = s.visible /\ t.suppressed = s.suppressed
                /\ t.frozen = s.frozen /\ t.resume = s.resume
                /\ t.placed = s.placed /\ t.layered = s.layered
                /\ t.content = s.content
         /\ LET t == [s EXCEPT !.timers = @ \ {"Burst"}, !.until = 0]
            IN  /\ t.initialized = s.initialized
                /\ t.timers \subseteq s.timers
                /\ t.visible = s.visible /\ t.suppressed = s.suppressed
                /\ t.frozen = s.frozen /\ t.resume = s.resume
                /\ t.placed = s.placed /\ t.layered = s.layered
                /\ t.content = s.content
<1>1. LET t == [s EXCEPT !.timers = @ \ {"StartupInit"}]
      IN  /\ t \in Monitor
          /\ t.initialized = s.initialized /\ t.fast = s.fast
          /\ t.timers \subseteq s.timers
          /\ t.visible = s.visible /\ t.suppressed = s.suppressed
          /\ t.frozen = s.frozen /\ t.resume = s.resume
          /\ t.placed = s.placed /\ t.layered = s.layered
          /\ t.content = s.content
  BY DEF Monitor
<1>2. LET t == [s EXCEPT !.timers = @ \ {"Burst"}, !.until = 0]
      IN  /\ t.initialized = s.initialized
          /\ t.timers \subseteq s.timers
          /\ t.visible = s.visible /\ t.suppressed = s.suppressed
          /\ t.frozen = s.frozen /\ t.resume = s.resume
          /\ t.placed = s.placed /\ t.layered = s.layered
          /\ t.content = s.content
  BY DEF Monitor
<1>3. QED
  BY <1>1, <1>2

\* The monitor looks the same, and the same timers are still to come.
Same ==
    /\ m'.initialized = m.initialized /\ m'.timers \subseteq m.timers
    /\ m'.visible = m.visible /\ m'.suppressed = m.suppressed
    /\ m'.frozen = m.frozen /\ m'.resume = m.resume
    /\ m'.placed = m.placed /\ m'.layered = m.layered
    /\ m'.content = m.content
    /\ due' \cap {"State", "Refresh"} = due \cap {"State", "Refresh"}
    /\ UNCHANGED <<phase, desktop, now, quiet>>

LEMMA SameSettles == Settling /\ Same => Settling'
<1> SUFFICES ASSUME Settling, Same PROVE Settling'
  OBVIOUS
<1>1. (Timed' => Timed) /\ Clear' = Clear
  BY DEF Same, Timed, Clear, Running
<1>2. (Deferral' <=> Deferral) /\ (Painted(m') <=> Painted(m))
      /\ (Covered(m') <=> Covered(m))
  BY DEF Same, Deferral, Remaining, Painted, Covered
<1>3. HidingSettles'
  BY <1>1, <1>2 DEF Settling, HidingSettles, Same
<1>4. FirstTick'
  BY <1>1, <1>2 DEF Settling, FirstTick, Same
<1>5. LaterTicks'
  BY <1>1, <1>2 DEF Settling, LaterTicks, Same
<1>6. QED
  BY <1>3, <1>4, <1>5 DEF Settling

LEMMA IdleSteps ==
  ASSUME TypeOK, Calm,
         \/ UNCHANGED vars
         \/ StartupInitTimer /\ m.initialized
         \/ BurstTimer /\ (m.suppressed \/ m.until = 0
                                        \/ TickPassed(now, m.until))
  PROVE  Same
<1>0. m \in Monitor
  BY DEF TypeOK
<1>1. CASE UNCHANGED vars
  BY <1>1 DEF vars, Same
<1>2. CASE StartupInitTimer /\ m.initialized
  <2> DEFINE t == [m EXCEPT !.timers = @ \ {"StartupInit"}]
  <2>1. m' = InitializeMonitor(t, Seen({})) /\ due' = due \ {"StartupInit"}
    BY <1>2, CalmTimers
  <2>2. /\ t.initialized = m.initialized
        /\ t.timers \subseteq m.timers
        /\ t.visible = m.visible /\ t.suppressed = m.suppressed
        /\ t.frozen = m.frozen /\ t.resume = m.resume
        /\ t.placed = m.placed /\ t.layered = m.layered
        /\ t.content = m.content
    BY <1>0, Idle
  <2>3. UNCHANGED <<phase, desktop, now, quiet>>
    BY <1>2, QuietTimerFrame DEF QuietTimer
  <2> HIDE DEF t
  <2>4. m' = t
    BY <1>2, <2>1, <2>2 DEF InitializeMonitor
  <2>5. QED
    BY <2>1, <2>2, <2>3, <2>4 DEF Same
<1>3. CASE BurstTimer /\ (m.suppressed \/ m.until = 0
                                       \/ TickPassed(now, m.until))
  <2> DEFINE t == [m EXCEPT !.timers = @ \ {"Burst"}, !.until = 0]
  <2>1. m' = t /\ due' = due \ {"Burst"}
    BY <1>3, CalmTimers
  <2>2. /\ t.initialized = m.initialized
        /\ t.timers \subseteq m.timers
        /\ t.visible = m.visible /\ t.suppressed = m.suppressed
        /\ t.frozen = m.frozen /\ t.resume = m.resume
        /\ t.placed = m.placed /\ t.layered = m.layered
        /\ t.content = m.content
    BY <1>0, Idle
  <2>3. UNCHANGED <<phase, desktop, now, quiet>>
    BY <1>3, QuietTimerFrame DEF QuietTimer
  <2> HIDE DEF t
  <2>4. QED
    BY <2>1, <2>2, <2>3 DEF Same
<1>4. QED
  BY <1>1, <1>2, <1>3

\* A deferral in the eyes of a handler that runs now.
LEMMA DeferredIs ==
  ASSUME TypeOK, NEW t \in Monitor
  PROVE  Deferred(t, Seen({})) <=>
           (t.resume # 0 /\ Left(t.resume, now) \in 1 .. TickRange \div 2)
<1>1. t.resume \in Ticks /\ now \in Ticks
  BY DEF TypeOK, Monitor
<1>2. ~TickPassed(now, t.resume) <=>
        Left(t.resume, now) \in 1 .. TickRange \div 2
  BY <1>1, AheadIs
<1>3. Seen({}).tick = now
  BY DEF Seen
<1>4. QED
  BY <1>2, <1>3 DEF Deferred

\* How a handler leaves the deferral of s.
Defers(t) == t.resume = 0 \/ Left(t.resume, now) \in 1 .. MaxQuiet - quiet

LEMMA FirstDefers ==
  ASSUME TypeOK, quiet = 1, NEW t \in Monitor,
         ~m.suppressed, Guarded(m, t, Seen({}))
  PROVE  ~t.frozen /\ Defers(t)
<1>0. now \in Ticks /\ m \in Monitor
  BY DEF TypeOK
<1>1. ~t.frozen
  BY DEF Guarded
<1> DEFINE half == TickRange \div 2
<1>2. /\ half \in Nat /\ MaxQuiet - quiet = half
      /\ Resume \in Nat /\ 1 <= Resume /\ Resume < half
  BY Halves
<1>3. CASE m.frozen
  <2>1. t.resume \in {0, Deadline(now, Resume)}
    BY <1>1, <1>3 DEF Guarded, Improves, DefersNoMore, Seen
  <2>2. Left(Deadline(now, Resume), now) = Resume
    BY <1>0, DeadlineIsAhead
  <2> HIDE DEF half
  <2>3. Resume \in 1 .. MaxQuiet - quiet
    BY <1>2
  <2>4. QED
    BY <1>1, <2>1, <2>2, <2>3 DEF Defers
<1>4. CASE ~m.frozen
  <2>1. t.resume = 0 \/ Deferred(t, Seen({}))
    BY <1>4 DEF Guarded
  <2>2. QED
    BY <1>1, <1>2, <2>1, DeferredIs DEF Defers
<1>5. QED
  BY <1>3, <1>4

LEMMA LaterDefers ==
  ASSUME TypeOK, NEW t \in Monitor, ~m.suppressed, ~m.frozen,
         Deferral \/ m.resume = now, Guarded(m, t, Seen({}))
  PROVE  /\ ~t.frozen /\ Defers(t)
         /\ t.resume \in {0, m.resume}
<1>1. ~t.frozen /\ (t.resume = 0 \/ Deferred(t, Seen({})))
  BY DEF Guarded
<1>2. t.resume \in {0, m.resume}
  BY DEF Guarded, Improves, DefersNoMore
<1>3. CASE t.resume = 0
  BY <1>1, <1>2, <1>3 DEF Defers
<1>4. CASE t.resume # 0
  <2>1. t.resume = m.resume /\ Left(m.resume, now) \in 1 .. TickRange \div 2
    BY <1>1, <1>2, <1>4, DeferredIs
  <2>2. m.resume # now
    <3>1. m.resume \in Ticks /\ now \in Ticks
      BY DEF TypeOK, Monitor
    <3>2. Left(now, now) = 0
      <4>1. Left(now, now) = IF now <= now THEN now - now
                             ELSE now - now + TickRange
        BY <3>1, LeftIs
      <4>2. now \in Int
        BY <3>1 DEF Ticks
      <4>3. QED
        BY <4>1, <4>2
    <3>3. TickRange \div 2 \in Nat
      BY Halves
    <3>4. QED
      BY <2>1, <3>2, <3>3
  <2>3. QED
    BY <1>1, <1>2, <1>4, <2>1, <2>2 DEF Defers, Deferral, Remaining
<1>5. QED
  BY <1>3, <1>4

\* A deferral that is in force stays, and what is painted stays.
LEMMA DeferralStays ==
  ASSUME TypeOK, quiet > 0, m.resume # 0, Deferral, ~m.suppressed, ~m.frozen,
         NEW t \in Monitor, Guarded(m, t, Seen({}))
  PROVE  t.resume = m.resume /\ Defers(t)
<1>1. Remaining \in 1 .. MaxQuiet - quiet
  BY DEF Deferral
<1>2. Remaining \in 1 .. TickRange \div 2
  <2> DEFINE half == TickRange \div 2
  <2>1. half \in Nat /\ MaxQuiet = 1 + half /\ quiet \in Int
    BY Halves DEF TypeOK
  <2> HIDE DEF half
  <2>2. Remaining \in 1 .. half
    BY <1>1, <2>1
  <2>3. QED
    BY <2>2 DEF half
<1>3. Deferred(m, Seen({}))
  BY <1>2, DeferredIs DEF TypeOK, Remaining
<1>4. t.resume = m.resume
  BY <1>3 DEF Guarded, Improves, DefersNoMore
<1>5. QED
  BY <1>1, <1>4 DEF Defers, Remaining

\* A guard on a clear desktop, whatever follows it.
LEMMA GuardedSettles ==
  ASSUME TypeOK, Settling, Clear, quiet > 0,
         UNCHANGED <<phase, desktop, now, quiet>>,
         m' \in Monitor, Guarded(m, m', Seen({})),
         NEW timer \in {"State", "Refresh", "Placement"},
         due' = due \ {timer},
         timer = "Refresh" =>
           /\ m'.visible
           /\ ~m.suppressed /\ ~m.frozen =>
                Deferred(m', Seen({})) \/ (m'.resume = 0 /\ Painted(m'))
  PROVE  Settling'
<1>1. HidingSettles'
  BY DEF HidingSettles, Clear
<1>2. SUFFICES ASSUME Timed'
               PROVE  /\ FirstTick' /\ LaterTicks'
  BY <1>1 DEF Settling, FirstTick, LaterTicks
<1>3. Timed /\ Clear'
  BY <1>2 DEF Timed, Clear, Running, Guarded, Improves, SameTimers
<1>4. quiet \in Int /\ quiet' = quiet /\ (quiet = 1 \/ quiet > 1)
  BY DEF TypeOK
<1>5. NoWorse(m, m') /\ ~m'.suppressed
  BY DEF Guarded, Improves
<1>6. Defers(m') => Deferral'
  BY DEF Defers, Deferral, Remaining
<1>7. ASSUME quiet > 1
      PROVE  /\ ~m.suppressed /\ ~m.frozen /\ m.visible
             /\ Deferral \/ m.resume = now
             /\ "Refresh" \notin due =>
                  \/ m.resume # 0 /\ Deferral
                  \/ m.resume = 0 /\ Painted(m)
  BY <1>3, <1>7 DEF Settling, LaterTicks
<1>8. ASSUME quiet > 1
      PROVE  /\ ~m'.frozen /\ m'.visible /\ Deferral'
             /\ m'.resume \in {0, m.resume}
  <2>1. ~m'.frozen /\ Defers(m') /\ m'.resume \in {0, m.resume}
    BY <1>7, <1>8, LaterDefers
  <2>2. QED
    BY <1>5, <1>6, <1>7, <1>8, <2>1 DEF NoWorse
<1>9. LaterTicks'
  <2> SUFFICES ASSUME quiet > 1
               PROVE  /\ ~m'.suppressed /\ ~m'.frozen /\ m'.visible
                      /\ Deferral'
                      /\ "Refresh" \notin due' =>
                           \/ m'.resume # 0 /\ Deferral'
                           \/ m'.resume = 0 /\ Painted(m')
    BY <1>4 DEF LaterTicks
  <2>1. CASE timer = "Refresh"
    BY <1>5, <1>7, <1>8, <2>1 DEF Deferred
  <2>2. CASE timer # "Refresh" /\ "Refresh" \in due
    BY <1>5, <1>8, <2>2
  <2>3. CASE timer # "Refresh" /\ "Refresh" \notin due
    <3>1. CASE m.resume # 0 /\ Deferral
      <4>1. m'.resume = m.resume
        BY <1>7, <3>1, DeferralStays
      <4>2. QED
        BY <1>5, <1>8, <3>1, <4>1
    <3>2. CASE m.resume = 0 /\ Painted(m)
      <4>1. m'.resume = 0 /\ Painted(m')
        BY <1>5, <1>8, <3>2, PaintedStays
      <4>2. QED
        BY <1>5, <1>8, <4>1
    <3>3. QED
      BY <1>7, <2>3, <3>1, <3>2
  <2>4. QED
    BY <2>1, <2>2, <2>3
<1>10. "Refresh" \notin due' => m'.visible
  BY <1>3, <1>5 DEF Settling, FirstTick, NoWorse
<1>11. ASSUME due' \cap {"State", "Refresh"} = {}
       PROVE  ~m'.frozen /\ Deferral'
  <2>1. CASE quiet > 1
    BY <1>8, <2>1
  <2>2. CASE quiet = 1 /\ ~m.suppressed
    BY <1>6, <2>2, FirstDefers
  <2>3. CASE m.suppressed
    <3>1. /\ "State" \in due => timer = "State"
          /\ "Refresh" \in due => timer = "Refresh"
      BY <1>11
    <3>2. "State" \notin due \/ "Refresh" \notin due
      BY <3>1
    <3>3. QED
      BY <1>3, <2>3, <3>2 DEF Settling, FirstTick
  <2>4. QED
    BY <1>4, <2>1, <2>2, <2>3
<1>12. FirstTick'
  BY <1>5, <1>10, <1>11 DEF FirstTick
<1>13. QED
  BY <1>9, <1>12

\* The guards of a desktop that asks for the overlay to be hidden.
LEMMA HiddenSettles ==
  ASSUME desktop.reason = "NotificationState", desktop' = desktop, Covered(m')
  PROVE  Settling'
BY DEF Settling, HidingSettles, FirstTick, LaterTicks, Clear

\* A desktop that asks for something else says nothing.
LEMMA OtherwiseSettles ==
  ASSUME ~Clear, desktop.reason # "NotificationState", desktop' = desktop
  PROVE  Settling'
BY DEF Settling, HidingSettles, FirstTick, LaterTicks, Clear

LEMMA GuardTimersSettle ==
  ASSUME TypeOK, Settling, Calm, quiet > 0, m' \in Monitor,
         StateTimer \/ RefreshTimer \/ PlacementTimer
  PROVE  Settling'
<1> DEFINE e == Seen({})
           g == HandleOverlayStateGuards(m, e)
<1>0. m \in Monitor /\ UNCHANGED <<phase, desktop, now, quiet>>
  BY QuietTimerFrame DEF TypeOK, QuietTimer
<1>1. CASE Clear
  <2>1. e \in ClearViews
    BY <1>1, ClearView
  <2>2. ASSUME StateTimer PROVE Settling'
    <3>1. Guarded(m, m', e) /\ due' = due \ {"State"}
      <4>1. PICK changed \in BOOLEAN :
              m' = IF changed /\ ~Stopped(m, e) THEN RenderOverlay(g, e) ELSE g
        BY <2>2, CalmTimers
      <4>2. Guarded(m, IF changed /\ ~Stopped(m, e) THEN RenderOverlay(g, e)
                       ELSE g, e)
        BY <1>0, <2>1, StateTimerGuards
      <4>3. due' = due \ {"State"}
        BY <2>2, CalmTimers
      <4>4. QED
        BY <4>1, <4>2, <4>3
    <3>2. QED
      BY <1>0, <1>1, <3>1, GuardedSettles
  <2>3. ASSUME RefreshTimer PROVE Settling'
    <3> DEFINE t == IF Stopped(m, e) THEN g
                    ELSE RenderOverlay(RepositionWindow(g, e), e)
    <3>1. m' = t /\ due' = due \ {"Refresh"}
      BY <2>3, CalmTimers
    <3>2. /\ Guarded(m, t, e) /\ t.visible
          /\ ~m.suppressed /\ ~m.frozen =>
               Deferred(t, e) \/ (t.resume = 0 /\ Painted(t))
      BY <1>0, <2>1, RefreshTimerGuards
    <3> HIDE DEF t
    <3>3. QED
      BY <1>0, <1>1, <3>1, <3>2, GuardedSettles
  <2>4. ASSUME PlacementTimer PROVE Settling'
    <3> DEFINE t == IF Stopped(m, e) THEN g ELSE RepositionWindow(g, e)
    <3>1. m' = t /\ due' = due \ {"Placement"}
      BY <2>4, CalmTimers
    <3>2. Guarded(m, t, e)
      BY <1>0, <2>1, PlacementTimerGuards
    <3> HIDE DEF t
    <3>3. QED
      BY <1>0, <1>1, <3>1, <3>2, GuardedSettles
  <2>5. QED
    BY <2>2, <2>3, <2>4
<1>2. CASE desktop.reason = "NotificationState"
  <2>1. Stopped(m, e) /\ Covered(g)
    BY <1>0, <1>2, HidingView, GuardsCover
  <2>2. m' = g
    BY <2>1, CalmTimers
  <2> HIDE DEF g
  <2>3. QED
    BY <1>0, <1>2, <2>1, <2>2, HiddenSettles
<1>3. CASE ~Clear /\ desktop.reason # "NotificationState"
  BY <1>0, <1>3, OtherwiseSettles
<1>4. QED
  BY <1>1, <1>2, <1>3

LEMMA StartupSettles ==
  ASSUME TypeOK, UninitializedIsBare, Settling, Calm, quiet > 0,
         StartupInitTimer
  PROVE  Settling'
<1> DEFINE e == Seen({})
           s == [m EXCEPT !.timers = @ \ {"StartupInit"}]
<1>0. m \in Monitor /\ UNCHANGED <<phase, desktop, now, quiet>>
  BY QuietTimerFrame DEF TypeOK, QuietTimer
<1>1. CASE m.initialized
  BY <1>1, IdleSteps, SameSettles
<1>2. CASE ~m.initialized
  <2>1. m' = InitializeMonitor(s, e)
    BY CalmTimers
  <2>2. s \in Monitor /\ ~s.initialized /\ Bare(s)
    <3>1. /\ s \in Monitor /\ s.initialized = m.initialized
          /\ s.fast = m.fast /\ s.timers \subseteq m.timers
          /\ s.frozen = m.frozen /\ s.resume = m.resume
      BY <1>0, Idle
    <3> HIDE DEF s
    <3>2. QED
      BY <1>2, <3>1 DEF UninitializedIsBare, Bare
  <2> HIDE DEF s
  <2>3. CASE Clear
    <3>1. /\ m'.visible /\ ~m'.suppressed /\ ~m'.frozen /\ m'.resume = 0
          /\ Painted(m')
      BY <2>1, <2>2, <2>3, ClearView, InitializeMonitorShows
    <3>2. Deferral'
      BY <3>1 DEF Deferral
    <3>3. HidingSettles'
      BY <1>0, <2>3 DEF HidingSettles, Clear
    <3>4. FirstTick'
      BY <3>1, <3>2 DEF FirstTick
    <3>5. LaterTicks'
      BY <3>1, <3>2 DEF LaterTicks
    <3>6. QED
      BY <3>3, <3>4, <3>5 DEF Settling
  <2>4. CASE desktop.reason = "NotificationState"
    <3>1. Covered(m')
      BY <2>1, <2>2, <2>4, HidingView, InitializeMonitorCovers
    <3>2. QED
      BY <1>0, <2>4, <3>1, HiddenSettles
  <2>5. CASE ~Clear /\ desktop.reason # "NotificationState"
    BY <1>0, <2>5, OtherwiseSettles
  <2>6. QED
    BY <2>3, <2>4, <2>5
<1>3. QED
  BY <1>1, <1>2

LEMMA BurstSettles ==
  ASSUME TypeOK, Settling, Calm, quiet > 0, BurstTimer
  PROVE  Settling'
<1> DEFINE e == Seen({})
           r == RepositionWindow(m, e)
           t == ReapplyLastFrame(r, e)
<1>0. m \in Monitor /\ UNCHANGED <<phase, desktop, now, quiet>>
  BY QuietTimerFrame DEF TypeOK, QuietTimer
<1>1. CASE m.suppressed \/ m.until = 0 \/ TickPassed(now, m.until)
  BY <1>1, IdleSteps, SameSettles
<1>2. CASE ~(m.suppressed \/ m.until = 0 \/ TickPassed(now, m.until))
  <2>1. m' = t /\ due' = due \ {"Burst"} /\ ~m.suppressed
    BY <1>2, CalmTimers
  <2>2. e \in Views /\ e.failed = {}
    <3>1. {} \in Failing
      BY DEF Failing
    <3>2. QED
      BY <3>1, SeenIsAView DEF Seen
  <2>3. SameTimers(m, t)
    BY <1>0, <2>2, BurstKeepsTimers
  <2>4. Timed' => Timed
    BY <1>0, <2>1, <2>3 DEF Timed, Running, SameTimers
  <2>5. CASE Clear
    <3>1. r \in Monitor /\ Improves(m, r, e) /\ r.resume = m.resume
      BY <1>0, <2>5, ClearView, RepositionWindowImproves DEF Improves, NoWorse
    <3>2. t \in Monitor /\ Improves(m, t, e) /\ t.resume = m.resume
      <4> HIDE DEF r
      <4>1. Improves(r, t, e) /\ t.resume = r.resume /\ t \in Monitor
        BY <2>5, <3>1, ClearView, ReapplyLastFrameImproves
        DEF Improves, NoWorse
      <4> HIDE DEF t
      <4>2. QED
        BY <1>0, <2>5, <3>1, <4>1, ClearView, ImprovesOn
    <3> HIDE DEF t
    <3>3. /\ NoWorse(m, m') /\ m'.resume = m.resume
          /\ Deferral' = Deferral
      BY <1>0, <2>1, <3>2 DEF Improves, Deferral, Remaining
    <3>4. HidingSettles'
      BY <1>0, <2>5 DEF HidingSettles, Clear
    <3>5. FirstTick'
      BY <1>0, <2>1, <2>4, <2>5, <3>3 DEF Settling, FirstTick, NoWorse
    <3>6. LaterTicks'
      BY <1>0, <2>1, <2>4, <2>5, <3>3, PaintedStays
      DEF Settling, LaterTicks, NoWorse
    <3>7. QED
      BY <3>4, <3>5, <3>6 DEF Settling
  <2>6. CASE desktop.reason = "NotificationState"
    <3>1. HidingSettles'
      BY <1>0, <2>1, <2>4, <2>6 DEF Settling, HidingSettles, Covered
    <3>2. QED
      BY <1>0, <2>6, <3>1 DEF Settling, FirstTick, LaterTicks, Clear
  <2>7. CASE ~Clear /\ desktop.reason # "NotificationState"
    BY <1>0, <2>7, OtherwiseSettles
  <2>8. QED
    BY <2>5, <2>6, <2>7
<1>3. QED
  BY <1>1, <1>2

\* What a tick finds settled, the next one begins with.
LEMMA TickSettles ==
  ASSUME TypeOK, Quieted, Settling, Tick, quiet' > 0
  PROVE  Settling'
<1>0. m \in Monitor /\ now \in Ticks /\ quiet \in 0 .. MaxQuiet
  BY DEF TypeOK
<1>1. /\ Calm /\ AtRest /\ due' = m.timers \cap FastTimers
      /\ UNCHANGED <<phase, desktop>>
  BY QuietTick
<1>2. /\ m'.initialized = m.initialized /\ m'.timers = m.timers
      /\ m'.visible = m.visible /\ m'.suppressed = m.suppressed
      /\ m'.frozen = m.frozen /\ m'.resume = m.resume
  BY <1>0 DEF Tick, Monitor
<1>3. Timed' => {"State", "Refresh"} \subseteq due'
  BY <1>1, <1>2 DEF Timed, FastTimers
<1>4. HidingSettles' /\ FirstTick'
  BY <1>3 DEF HidingSettles, FirstTick
<1>5. SUFFICES ASSUME Timed', Clear', quiet' > 1
               PROVE  /\ ~m.suppressed /\ ~m.frozen /\ m.visible
                      /\ Deferral' \/ m.resume = now'
  BY <1>2, <1>3, <1>4 DEF Settling, LaterTicks
<1>6. Timed /\ Clear
  <2>1. quiet > 0
    BY <1>0, <1>1, <1>5 DEF Tick
  <2>2. QED
    BY <1>1, <1>2, <1>5, <2>1 DEF Timed, Clear, Running
<1>7. due \cap {"State", "Refresh"} = {}
  BY <1>1, <1>6 DEF AtRest, Timed
<1>8. ~m.suppressed /\ ~m.frozen /\ m.visible /\ Deferral
  BY <1>6, <1>7 DEF Settling, FirstTick
<1>9. CASE m.resume = 0
  BY <1>2, <1>8, <1>9 DEF Deferral
<1>10. CASE m.resume # 0
  <2>1. Remaining \in 1 .. MaxQuiet - quiet /\ m.resume \in Ticks
    BY <1>0, <1>8, <1>10 DEF Deferral, Monitor
  <2>2. MaxQuiet \in Int /\ quiet \in Int /\ TickRange \div 2 \in Nat
    BY <1>0, Halves
  <2>3. quiet < MaxQuiet /\ quiet' = quiet + 1
    BY <1>1, <2>1, <2>2 DEF Tick
  <2>4. /\ Left(m.resume, now') = Remaining - 1
        /\ Left(m.resume, now') = 0 => m.resume = now'
    <3>1. 1 <= Left(m.resume, now)
      BY <2>1, <2>2 DEF Remaining
    <3>2. now' = (now + 1) % TickRange
      BY DEF Tick
    <3>3. QED
      BY <1>0, <2>1, <3>1, <3>2, TickTakesOne DEF Remaining
  <2>5. Remaining' = Left(m.resume, now')
    BY <1>2 DEF Remaining
  <2>6. m.resume = now' \/ Remaining' \in 1 .. MaxQuiet - quiet'
    BY <2>1, <2>2, <2>3, <2>4, <2>5
  <2>7. QED
    BY <1>8, <2>6 DEF Deferral
<1>11. QED
  BY <1>9, <1>10

\* Nothing is said before the first tick of quiet.
LEMMA UnquietSettles ==
  ASSUME ~(quiet' > 0)
  PROVE  Settling'
BY DEF Settling, HidingSettles, FirstTick, LaterTicks, Timed

SettlingInv == IInv /\ Quieted /\ UninitializedIsBare /\ Settling

LEMMA SettlingStarts == Init => SettlingInv
<1> SUFFICES ASSUME Init PROVE SettlingInv
  OBVIOUS
<1>1. quiet = 0 /\ m = NewMonitor
  BY DEF Init
<1>2. Quieted
  BY <1>1 DEF Quieted
<1>3. UninitializedIsBare
  BY <1>1 DEF UninitializedIsBare, Bare, NewMonitor
<1>4. Settling
  BY <1>1 DEF Settling, HidingSettles, FirstTick, LaterTicks, Timed
<1>5. QED
  BY <1>2, <1>3, <1>4, Starts DEF SettlingInv

LEMMA SettlingSteps == SettlingInv /\ [Next]_vars => SettlingInv'
<1> SUFFICES ASSUME SettlingInv, [Next]_vars PROVE SettlingInv'
  OBVIOUS
<1>1. IInv' /\ TypeOK /\ m' \in Monitor
  BY Steps, MonitorTyped DEF SettlingInv, IInv
<1>2. Quieted'
  BY <1>1, QuietStep DEF SettlingInv
<1>3. UninitializedIsBare'
  BY <1>1, BareStep DEF SettlingInv
<1>4. Settling'
  <2>1. CASE ~(quiet' > 0)
    BY <2>1, UnquietSettles
  <2>2. CASE quiet' > 0 /\ Tick
    BY <1>1, <2>2, TickSettles DEF SettlingInv
  <2>3. CASE quiet' > 0 /\ ~Tick
    <3>1. quiet > 0 /\ Calm
      BY <1>1, <2>3, QuietFrame DEF SettlingInv, Quieted
    <3>2. QuietTimer \/ UNCHANGED vars
      BY <1>1, <2>3, <3>1, QuietSteps DEF SettlingInv
    <3>3. CASE UNCHANGED vars
      BY <1>1, <3>1, <3>3, IdleSteps, SameSettles DEF SettlingInv
    <3>4. CASE QuietTimer
      BY <1>1, <3>1, <3>4, StartupSettles, BurstSettles, GuardTimersSettle
      DEF SettlingInv, QuietTimer
    <3>5. QED
      BY <3>2, <3>3, <3>4
  <2>4. QED
    BY <2>1, <2>2, <2>3
<1>5. QED
  BY <1>1, <1>2, <1>3, <1>4 DEF SettlingInv

(* SuppressionSettles: once nothing interferes any more, one tick is       *)
(* enough for a desktop that asks for it to have the overlay hidden, in    *)
(* whatever state the interference has left it: the state timer and the    *)
(* refresh timer pass through HandleOverlayStateGuards.                    *)
THEOREM SettlesHeld == Spec => []SuppressionSettles
<1>1. Init => SettlingInv
  BY SettlingStarts
<1>2. SettlingInv /\ [Next]_vars => SettlingInv'
  BY SettlingSteps
<1>3. SettlingInv => SuppressionSettles
  <2> SUFFICES ASSUME HidingSettles, Settled,
                      desktop.reason = "NotificationState"
               PROVE  m.suppressed /\ ~m.visible
    BY DEF SettlingInv, Settling, SuppressionSettles
  <2>1. Timed /\ "State" \notin due
    BY DEF Settled, Timed, AtRest
  <2>2. QED
    BY <2>1 DEF HidingSettles, Covered
<1>4. QED
  BY <1>1, <1>2, <1>3, PTL DEF Spec

(* Restored: on a desktop that asks for nothing the overlay is visible,    *)
(* unsuppressed and unfrozen after one tick, and in its place and painted  *)
(* once any deferral has run out, for every range of the tick count and    *)
(* every delay: a deadline that is left behind, 0 or wrapped around, is    *)
(* behind the tick count within half its range.                            *)
THEOREM RestoredHeld == Spec => []Restored
<1>1. Init => SettlingInv
  BY SettlingStarts
<1>2. SettlingInv /\ [Next]_vars => SettlingInv'
  BY SettlingSteps
<1>3. SettlingInv => Restored
  <2> SUFFICES ASSUME TypeOK, FirstTick, LaterTicks, Settled, Clear
               PROVE  /\ m.visible /\ ~m.suppressed /\ ~m.frozen
                      /\ quiet = MaxQuiet => Painted(m)
    BY DEF SettlingInv, IInv, Settling, Restored, Clear, Painted
  <2>1. Timed /\ due \cap {"State", "Refresh"} = {}
    BY DEF Settled, Timed, AtRest
  <2>2. m.visible /\ ~m.suppressed /\ ~m.frozen
    BY <2>1 DEF FirstTick
  <2>3. ASSUME quiet = MaxQuiet PROVE Painted(m)
    <3>1. MaxQuiet \in Int /\ MaxQuiet > 1
      BY Halves
    <3>2. ~(Remaining \in 1 .. MaxQuiet - quiet)
      BY <2>3, <3>1
    <3>3. QED
      BY <2>1, <2>3, <3>1, <3>2 DEF LaterTicks, Deferral
  <2>4. QED
    BY <2>2, <2>3
<1>4. QED
  BY <1>1, <1>2, <1>3, PTL DEF Spec
=============================================================================
