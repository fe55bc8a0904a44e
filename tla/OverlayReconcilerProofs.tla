---------------------- MODULE OverlayReconcilerProofs ----------------------
(***************************************************************************)
(* Proofs about OverlayReconciler: its safety, for every set of handles,   *)
(* Explorers, desktops, failing calls, damages and triggers.               *)
(***************************************************************************)
EXTENDS OverlayReconciler, TLAPS

-----------------------------------------------------------------------------
(* What calls do to windows.                                               *)

(* No call of a pass but a creation and a show makes a window exist or     *)
(* visible, unpaints one that stays visible, or gives it another owner;    *)
(* and a click-through mode it sets is the one chosen.                     *)
Tended(w, v) ==
    /\ v \in [Windows -> WindowState]
    /\ \A h \in Windows :
         /\ v[h].exists => w[h].exists /\ v[h].owner = w[h].owner
         /\ v[h].visible =>
              /\ w[h].visible /\ v[h].exists = w[h].exists
              /\ w[h].fresh => v[h].fresh
              /\ v[h].transparent \in {w[h].transparent, clickThrough}

LEMMA TendedTwice ==
    ASSUME NEW w, NEW v, NEW u, clickThrough \in BOOLEAN,
           Tended(w, v), Tended(v, u)
    PROVE  Tended(w, u)
  BY DEF Tended

LEMMA LeftAloneIsTended ==
    ASSUME NEW w \in [Windows -> WindowState] PROVE Tended(w, w)
  BY DEF Tended

LEMMA HiddenIsTended ==
    ASSUME NEW w \in [Windows -> WindowState], NEW h, NEW ok
    PROVE  Tended(w, CommitOverlayHidden(w, h, ok))
  BY DEF Tended, CommitOverlayHidden, Hidden, WindowState

LEMMA RaisedIsTended ==
    ASSUME NEW w \in [Windows -> WindowState], NEW h, NEW ok
    PROVE  Tended(w, Raised(w, h, ok))
  BY DEF Tended, Raised, WindowState

LEMMA PromotedIsTended ==
    ASSUME NEW w \in [Windows -> WindowState], NEW h, NEW ok
    PROVE  Tended(w, Promoted(w, h, ok))
  BY RaisedIsTended, LeftAloneIsTended DEF Promoted

LEMMA StyledIsTended ==
    ASSUME NEW w \in [Windows -> WindowState], NEW h, NEW ok,
           clickThrough \in BOOLEAN
    PROVE  Tended(w, Styled(w, h, ok))
  BY DEF Tended, Styled, WindowState

LEMMA PaintedIsTended ==
    ASSUME NEW w \in [Windows -> WindowState], NEW h, NEW ok
    PROVE  Tended(w, Painted(w, h, ok))
  BY DEF Tended, Painted, WindowState

LEMMA ResetIsTyped ==
    ASSUME NEW w \in [Windows -> WindowState], NEW h, NEW restored \in BOOLEAN,
           NEW ok \in BOOLEAN
    PROVE  ResetLayeredSurface(w, h, restored, ok) \in [Windows -> WindowState]
<1>1. CASE ~(h \in Windows /\ w[h].exists)
  BY <1>1 DEF ResetLayeredSurface
<1>2. CASE h \in Windows /\ w[h].exists
  <2> DEFINE top == w[h].topmost \/ ok
             layers == w[h].layered /\ restored
             reset == [w[h] EXCEPT !.fresh = FALSE, !.layered = layers,
                                   !.topmost = top]
  <2>1. top \in BOOLEAN /\ layers \in BOOLEAN
    OBVIOUS
  <2>2. ResetLayeredSurface(w, h, restored, ok) = [w EXCEPT ![h] = reset]
    BY <1>2 DEF ResetLayeredSurface
  <2>3. reset \in WindowState
    <3> HIDE DEF top, layers
    <3>1. QED
      BY <1>2, <2>1 DEF WindowState
  <2>4. QED
    BY <2>2, <2>3
<1>3. QED
  BY <1>1, <1>2

LEMMA ResetIsTended ==
    ASSUME NEW w \in [Windows -> WindowState], NEW h, NEW restored \in BOOLEAN,
           NEW ok \in BOOLEAN,
           h \in Windows => ~w[h].visible
    PROVE  Tended(w, ResetLayeredSurface(w, h, restored, ok))
<1> DEFINE v == ResetLayeredSurface(w, h, restored, ok)
<1>1. \A g \in Windows : /\ v[g].exists = w[g].exists /\ v[g].owner = w[g].owner
                         /\ v[g].visible = w[g].visible
                         /\ v[g].transparent = w[g].transparent
                         /\ g # h => v[g] = w[g]
  <2>1. CASE ~(h \in Windows /\ w[h].exists)
    BY <2>1 DEF ResetLayeredSurface
  <2>2. CASE h \in Windows /\ w[h].exists
    <3>1. v = [w EXCEPT ![h] = [w[h] EXCEPT !.fresh = FALSE,
                                            !.layered = w[h].layered /\ restored,
                                            !.topmost = w[h].topmost \/ ok]]
      BY <2>2 DEF ResetLayeredSurface
    <3>2. /\ v[h] = [w[h] EXCEPT !.fresh = FALSE,
                             !.layered = w[h].layered /\ restored,
                             !.topmost = w[h].topmost \/ ok]
          /\ \A g \in Windows : g # h => v[g] = w[g]
      BY <2>2, <3>1
    <3>3. w[h] \in WindowState
      BY <2>2
    <3> HIDE DEF v
    <3>4. QED
      BY <3>2, <3>3 DEF WindowState
  <2>3. QED
    BY <2>1, <2>2
<1>2. v \in [Windows -> WindowState]
  BY ResetIsTyped
<1>3. QED
  BY <1>1, <1>2 DEF Tended

LEMMA ShownIsTyped ==
    ASSUME NEW w \in [Windows -> WindowState], NEW h \in Windows
    PROVE  Shown(w, h) \in [Windows -> WindowState]
<1>1. Shown(w, h) = [w EXCEPT ![h] = [w[h] EXCEPT !.visible = TRUE, !.topmost = TRUE]]
  BY DEF Shown
<1>2. [w[h] EXCEPT !.visible = TRUE, !.topmost = TRUE] \in WindowState
  BY DEF WindowState
<1>3. QED
  BY <1>1, <1>2

LEMMA GoneIsTended ==
    ASSUME NEW w \in [Windows -> WindowState], NEW h \in Windows
    PROVE  Tended(w, [w EXCEPT ![h] = NoWindow])
  BY DEF Tended, NoWindow, WindowState

-----------------------------------------------------------------------------
(* What the policies return.                                               *)

Known == Taskbars \cup {NoIdentity}

IdentityStates ==
    [committed : Known, candidate : Known, since : 0 .. Now, active : BOOLEAN]

LEMMA TaskbarsAreKnown ==
    /\ ~IdentityKnown(NoIdentity) /\ NoIdentity \notin Taskbars
    /\ \A t \in Taskbars : IdentityKnown(t) /\ t.hwnd \in Nat \ {0}
    /\ \A t \in Known : t.hwnd \in Nat
<1>1. ~IdentityKnown(NoIdentity) /\ NoIdentity.hwnd = 0
  BY DEF IdentityKnown, NoIdentity
<1>2. \A t \in Taskbars : IdentityKnown(t) /\ t.hwnd \in Nat \ {0}
  BY ConstantsAssumption DEF IdentityKnown
<1>3. QED
  BY <1>1, <1>2 DEF Known

(* A new generation is the taskbar that was found, and no pass waits for   *)
(* it; without one the committed identity stays.                           *)
LEMMA IdentityReduced ==
    ASSUME NEW state \in IdentityStates, NEW o \in Known
    PROVE  LET r == ReduceTaskbarIdentity(state, o, Now)
           IN  /\ r.state \in IdentityStates
               /\ r.pending \in BOOLEAN /\ r.changed \in BOOLEAN
               /\ r.changed => ~r.pending /\ r.state.committed = o
               /\ ~r.changed => r.state.committed = state.committed
<1>1. Now \in 0 .. Now /\ 0 \in 0 .. Now
  BY DEF Now
<1>2. /\ SettledIdentity(state.committed) \in IdentityStates
      /\ SettledIdentity(state.committed).committed = state.committed
      /\ SettledIdentity(o) \in IdentityStates /\ SettledIdentity(o).committed = o
  BY <1>1 DEF SettledIdentity, IdentityStates
<1>3. QED
  BY <1>1, <1>2 DEF ReduceTaskbarIdentity, DropsCandidate, CommitsIdentity,
                    IdentityStates

PolicyStates == {p \in SuppressionPolicyState : p.since \in 0 .. Now}

LEMMA ClearDesktopIsADesktop == ClearDesktop \in Desktops
  BY DEF ClearDesktop, Desktops, TaskbarVisibilities, NotificationStates, Foregrounds

LEMMA ObservationIsTyped ==
    ASSUME NEW d \in Desktops, NEW screenshot \in BOOLEAN, NEW committed \in Reasons
    PROVE  ObserveSuppression(d.taskbar, screenshot, d.notification, committed,
                              d.foreground) \in SuppressionObservation
<1> DEFINE p == IF screenshot THEN [visibility |-> "Clear", profile |-> "Default"]
                ELSE ObservePresentation(d.notification, committed, d.foreground)
           o == ResolveSuppressionObservation(d.taskbar, screenshot, p.visibility)
<1>1. p.profile \in Profiles
  BY DEF ObservePresentation, Profiles
<1>2. o \in SuppressionObservation
  BY DEF ResolveSuppressionObservation, UnknownSuppression, KnownSuppression,
         SuppressionObservation, Reasons, Profiles
<1>3. [o EXCEPT !.profile = p.profile] \in SuppressionObservation
  BY <1>1, <1>2 DEF SuppressionObservation
<1>4. QED
  BY <1>2, <1>3 DEF ObserveSuppression

LEMMA PolicyReduced ==
    ASSUME NEW state \in PolicyStates, NEW o \in SuppressionObservation
    PROVE  ReduceSuppressionPolicy(state, o, Now) \in PolicyStates
<1>1. Now \in 0 .. Now /\ 0 \in 0 .. Now /\ Now \in Nat
  BY DEF Now
<1>2. \A r \in Reasons : SettledPolicy(r) \in PolicyStates
  BY <1>1 DEF SettledPolicy, PolicyStates, SuppressionPolicyState, Profiles
<1>3. state.committed \in Reasons /\ o.reason \in Reasons /\ o.profile \in Profiles
  BY DEF PolicyStates, SuppressionPolicyState, SuppressionObservation
<1>4. \A s \in 0 .. Now :
        [committed |-> state.committed, candidate |-> o.reason, since |-> s,
         active |-> TRUE, profile |-> o.profile] \in PolicyStates
  BY <1>3 DEF PolicyStates, SuppressionPolicyState
<1>5. state.since \in 0 .. Now
  BY DEF PolicyStates
<1> DEFINE since == IF ContinuesCandidate(state, o) THEN state.since ELSE Now
<1>6. since \in 0 .. Now
  BY <1>1, <1>5
<1>7. \/ ReduceSuppressionPolicy(state, o, Now) = SettledPolicy(state.committed)
      \/ ReduceSuppressionPolicy(state, o, Now) = SettledPolicy(o.reason)
      \/ ReduceSuppressionPolicy(state, o, Now) =
           [committed |-> state.committed, candidate |-> o.reason, since |-> since,
            active |-> TRUE, profile |-> o.profile]
  BY DEF ReduceSuppressionPolicy
<1> HIDE DEF since
<1>8. QED
  BY <1>2, <1>3, <1>4, <1>6, <1>7

-----------------------------------------------------------------------------
(* EnsureOverlayWindow keeps the window it has, or fails with the window   *)
(* it has or without one, or creates one where there was none.             *)
LeavesAll(r) == r.window = window /\ r.hwnd = hwnd /\ r.owner = owner

GivesUp(r) ==
    /\ ~r.ok /\ ~r.created /\ ~IsWindow(hwnd)
    /\ r.window = window /\ r.hwnd = None /\ r.owner = 0

Creates(r) ==
    /\ r.ok /\ r.created /\ ~IsWindow(hwnd) /\ CommittedTaskbarReady
    /\ r.owner = identity.committed.hwnd
    /\ \E h \in Windows, styled \in BOOLEAN :
         /\ ~window[h].exists /\ r.hwnd = h
         /\ r.window = [window EXCEPT ![h] = Created(h, styled)]

LEMMA EnsureCases ==
    ASSUME NEW r \in EnsureOutcomes
    PROVE  /\ r.ok \in BOOLEAN /\ r.created \in BOOLEAN
           /\ \/ LeavesAll(r) /\ ~r.created /\ (r.ok => OverlayServesCommitted)
              \/ GivesUp(r)
              \/ Creates(r)
<1>1. CASE OverlayServesCommitted
  <2>1. r = Outcome(TRUE, FALSE, window, hwnd, owner)
    BY <1>1 DEF EnsureOutcomes
  <2>2. QED
    BY <1>1, <2>1 DEF Outcome, LeavesAll
<1>2. CASE ~OverlayServesCommitted /\ ExistingWindowBlocks
  <2>1. r = Outcome(FALSE, FALSE, window, hwnd, owner)
    BY <1>2 DEF EnsureOutcomes
  <2>2. QED
    BY <1>2, <2>1 DEF Outcome, LeavesAll
<1>3. CASE /\ ~OverlayServesCommitted /\ ~ExistingWindowBlocks
           /\ r = Outcome(FALSE, FALSE, window, None, 0)
  BY <1>3 DEF Outcome, GivesUp, ExistingWindowBlocks
<1>4. CASE /\ ~ExistingWindowBlocks /\ CommittedTaskbarReady
           /\ r \in CreationOutcomes
  <2>1. PICK n \in [h : {h \in Windows : ~window[h].exists}, styled : May("style")] :
          r = Outcome(TRUE, TRUE, [window EXCEPT ![n.h] = Created(n.h, n.styled)],
                      n.h, identity.committed.hwnd)
    BY <1>4 DEF CreationOutcomes
  <2>2. n.h \in Windows /\ ~window[n.h].exists /\ n.styled \in BOOLEAN
    BY DEF May
  <2>3. QED
    BY <1>4, <2>1, <2>2 DEF Outcome, Creates, ExistingWindowBlocks
<1>5. QED
  BY <1>1, <1>2, <1>3, <1>4 DEF EnsureOutcomes

LEMMA CreatedIsTyped ==
    ASSUME TypeOK, CommittedTaskbarReady, NEW h, NEW styled \in BOOLEAN
    PROVE  Created(h, styled) \in WindowState
  BY DEF TypeOK, Created, NoWindow, WindowState

(* What an outcome is, as far as types go.                                 *)
LEMMA EnsureIsTyped ==
    ASSUME TypeOK, NEW r \in EnsureOutcomes
    PROVE  /\ r.window \in [Windows -> WindowState]
           /\ r.hwnd \in Windows \cup {None} /\ r.owner \in Nat
           /\ r.created \in BOOLEAN
<1>1. CASE LeavesAll(r)
  BY <1>1, EnsureCases DEF LeavesAll, TypeOK
<1>2. CASE GivesUp(r)
  BY <1>2, EnsureCases DEF GivesUp, TypeOK
<1>3. CASE Creates(r)
  <2>1. PICK h \in Windows, styled \in BOOLEAN :
          r.hwnd = h /\ r.window = [window EXCEPT ![h] = Created(h, styled)]
    BY <1>3 DEF Creates
  <2>2. Created(h, styled) \in WindowState
    BY <1>3, CreatedIsTyped DEF Creates
  <2>3. identity.committed.hwnd \in Nat
    BY TaskbarsAreKnown DEF TypeOK, Known
  <2>4. QED
    BY <1>3, <2>1, <2>2, <2>3, EnsureCases DEF Creates, TypeOK
<1>4. QED
  BY <1>1, <1>2, <1>3, EnsureCases

-----------------------------------------------------------------------------
(* Type correctness.                                                       *)

LEMMA NoWindowIsTyped == NoWindow \in WindowState
  BY DEF NoWindow, WindowState

LEMMA NoPassIsTyped == NoPass \in PassState
  BY DEF NoPass, PassState

LEMMA LeaveIsTyped ==
    ASSUME TypeOK, NEW mask \in SUBSET DeferredActions, Leave(mask)
    PROVE  deferred' \subseteq DeferredActions /\ pass' \in PassState /\ pc' \in Steps
  BY NoPassIsTyped DEF TypeOK, Leave, Steps

LEMMA InitTypeOK == Init => TypeOK
<1> SUFFICES ASSUME Init PROVE TypeOK
  OBVIOUS
<1>1. 0 \in 0 .. Now
  BY DEF Now
<1>2. window \in [Windows -> WindowState]
  BY NoWindowIsTyped DEF Init
<1>3. identity \in [committed : Taskbars \cup {NoIdentity},
                    candidate : Taskbars \cup {NoIdentity},
                    since : 0 .. Now, active : BOOLEAN]
  <2>1. \A k \in Known : SettledIdentity(k) \in IdentityStates
    BY <1>1 DEF SettledIdentity, IdentityStates
  <2>2. identity = SettledIdentity(shell) \/ identity = SettledIdentity(NoIdentity)
    BY DEF Init
  <2>3. shell \in Known /\ NoIdentity \in Known
    BY DEF Init, Known
  <2>4. QED
    BY <2>1, <2>2, <2>3 DEF IdentityStates, Known
<1>4. policy \in SuppressionPolicyState /\ policy.since \in 0 .. Now
  BY <1>1 DEF Init, SettledPolicy, SuppressionPolicyState, Reasons, Profiles
<1>5. QED
  BY <1>2, <1>3, <1>4, NoPassIsTyped DEF Init, TypeOK, Steps

LEMMA StartPassIsTyped ==
    ASSUME TypeOK, NEW trigger \in SUBSET Flags, StartPass(trigger),
           clickThrough' \in BOOLEAN
    PROVE  TypeOK'
<1>1. PICK found \in BOOLEAN :
        LET result == ReduceTaskbarIdentity(
                        identity, IF found THEN shell ELSE NoIdentity, Now)
        IN  /\ identity' = result.state
            /\ pc' = IF result.pending THEN "wait" ELSE "judge"
            /\ pass' = [NoPass EXCEPT
                          !.flags = trigger \cup deferred,
                          !.forced = "ResetSurface" \in trigger,
                          !.changed = result.changed]
  BY DEF StartPass, May
<1> DEFINE o == IF found THEN shell ELSE NoIdentity
           result == ReduceTaskbarIdentity(identity, o, Now)
<1>2. identity \in IdentityStates /\ o \in Known
  BY DEF TypeOK, IdentityStates, Known
<1>3. result.state \in IdentityStates /\ result.changed \in BOOLEAN
  BY <1>2, IdentityReduced
<1>4. trigger \cup deferred \subseteq Flags
  BY DEF TypeOK, DeferredActions, Flags
<1> DEFINE forced == "ResetSurface" \in trigger
<1>5. /\ pass' = [NoPass EXCEPT !.flags = trigger \cup deferred, !.forced = forced,
                                !.changed = result.changed]
      /\ identity' = result.state /\ pc' \in {"wait", "judge"}
  BY <1>1
<1>b. forced \in BOOLEAN
  OBVIOUS
<1> HIDE DEF result, o, forced
<1>6. pass' \in PassState
  BY <1>3, <1>4, <1>5, <1>b, NoPassIsTyped DEF PassState
<1>7. QED
  BY <1>3, <1>5, <1>6
     DEF StartPass, TypeOK, IdentityStates, Known, environment, suppression, retries,
         Steps, DeferredActions

LEMMA StepIsTyped == ASSUME TypeOK, Step PROVE TypeOK'
<1>w. window \in [Windows -> WindowState] /\ hwnd \in Windows \cup {None}
      /\ clickThrough \in BOOLEAN /\ pass \in PassState
  BY DEF TypeOK
<1> USE DEF TypeOK, environment, suppression, retries
<1>1. CASE WaitForTaskbar
  <2>1. window' \in [Windows -> WindowState]
    BY <1>1, <1>w, HiddenIsTended DEF WaitForTaskbar, Tended
  <2>2. Leave(DeferredActions)
    BY <1>1 DEF WaitForTaskbar
  <2>3. QED
    BY <1>1, <2>1, <2>2, LeaveIsTyped DEF WaitForTaskbar
<1>2. CASE JudgeTaskbar
  <2>1. pass' \in PassState
    BY <1>2, <1>w DEF JudgeTaskbar, PassState, CommittedTaskbarReady
  <2>2. QED
    BY <1>2, <2>1, <1>w DEF JudgeTaskbar, RecreateRequired, PassState, Steps
<1>3. CASE PostponeDestroy
  <2>1. Leave(DeferredActions)
    BY <1>3 DEF PostponeDestroy
  <2>2. QED
    BY <1>3, <2>1, LeaveIsTyped DEF PostponeDestroy
<1>4. CASE DestroyFails
  <2>1. window' \in [Windows -> WindowState]
    BY <1>4, <1>w, HiddenIsTended DEF DestroyFails, Tended
  <2>2. Leave(DeferredActions)
    BY <1>4 DEF DestroyFails
  <2>3. QED
    BY <1>4, <2>1, <2>2, LeaveIsTyped DEF DestroyFails
<1>5. CASE DestroyOverlay
  <2>1. window' \in [Windows -> WindowState]
    BY <1>5, <1>w, NoWindowIsTyped DEF DestroyOverlay
  <2>2. pass' \in PassState
    BY <1>5, <1>w DEF DestroyOverlay, PassState, FlagsOfRecreation, Flags
  <2>3. /\ hwnd' = None /\ owner' = 0 /\ recreate' = FALSE /\ destroyWaits' = FALSE
        /\ showRetry' = FALSE /\ showWaits' = FALSE /\ pc' = "tray"
        /\ UNCHANGED <<environment, identity, tray, clickThrough, suppression,
                       deferred, repairWaits, hideFailed, addFailed>>
    BY <1>5 DEF DestroyOverlay
  <2>4. owner' \in Nat /\ pc' \in Steps
    BY <2>3 DEF Steps
  <2>5. identity' = identity /\ policy' = policy
    BY <2>3
  <2>6. QED
    BY <2>1, <2>2, <2>3, <2>4, <2>5
<1>6. CASE RefreshTrayIcon
  <2>1. pass' \in PassState
    BY <1>6, <1>w DEF RefreshTrayIcon, PassState
  <2>2. tray' \in BOOLEAN /\ addFailed' \in BOOLEAN
    BY <1>6 DEF RefreshTrayIcon, May
  <2>3. QED
    BY <1>6, <2>1, <2>2 DEF RefreshTrayIcon, Steps
<1>7. CASE KeepTrayIcon
  BY <1>7 DEF KeepTrayIcon, Steps
<1>8. CASE TaskbarUnavailable
  <2>1. window' \in [Windows -> WindowState]
    BY <1>8, <1>w, HiddenIsTended DEF TaskbarUnavailable, Tended
  <2>2. Leave({"ResetSurface", "ApplyStyle"})
    BY <1>8 DEF TaskbarUnavailable
  <2>3. QED
    BY <1>8, <2>1, <2>2, LeaveIsTyped DEF TaskbarUnavailable, DeferredActions
<1>9. CASE EnsureOverlay
  <2>1. PICK r \in EnsureOutcomes :
         /\ window' = r.window /\ hwnd' = r.hwnd /\ owner' = r.owner
         /\ IF r.ok
              THEN /\ pc' = "observe"
                   /\ pass' = [pass EXCEPT !.created = r.created,
                                           !.overlay = r.hwnd]
                   /\ UNCHANGED deferred
              ELSE Leave({"ResetSurface", "ApplyStyle"})
    BY <1>9 DEF EnsureOverlay
  <2>2. /\ window' \in [Windows -> WindowState] /\ hwnd' \in Windows \cup {None}
        /\ owner' \in Nat
    BY <2>1, EnsureIsTyped
  <2>3. deferred' \subseteq DeferredActions /\ pass' \in PassState /\ pc' \in Steps
    <3>1. CASE r.ok
      BY <1>w, <2>1, <3>1, EnsureIsTyped DEF PassState, Steps
    <3>2. CASE ~r.ok
      BY <2>1, <3>2, LeaveIsTyped DEF DeferredActions
    <3>3. QED
      BY <3>1, <3>2
  <2>4. QED
    BY <1>9, <2>2, <2>3 DEF EnsureOverlay
<1>10. CASE ObserveDesktop
  <2>1. window' \in [Windows -> WindowState]
    BY <1>10, <1>w, RaisedIsTended DEF ObserveDesktop, Tended
  <2>2. PICK screenshot \in BOOLEAN, d \in Desktops :
          /\ UpdateFreezePolicy(screenshot)
          /\ policy' = ReduceSuppressionPolicy(
                         policy,
                         ObserveSuppression(d.taskbar, screenshot, d.notification,
                                            policy.committed, d.foreground),
                         Now)
    BY <1>10, ConstantsAssumption, ClearDesktopIsADesktop DEF ObserveDesktop
  <2>3. policy' \in PolicyStates
    <3>1. policy \in PolicyStates /\ policy.committed \in Reasons
      BY DEF PolicyStates, SuppressionPolicyState
    <3>2. QED
      BY <2>2, <3>1, ObservationIsTyped, PolicyReduced
  <2>4. frozen' \in BOOLEAN /\ resume' \in {"none", "running", "passed"}
    BY <2>2 DEF UpdateFreezePolicy
  <2>5. pass' \in PassState
    <3> DEFINE restoring == /\ policy'.committed # policy.committed
                            /\ policy'.committed = "None"
    <3>1. PICK more \in SUBSET Flags :
            pass' = [pass EXCEPT !.flags = @ \cup more, !.restoring = restoring]
      BY <1>10 DEF ObserveDesktop, Flags
    <3>2. restoring \in BOOLEAN
      OBVIOUS
    <3> HIDE DEF restoring
    <3>3. QED
      BY <1>w, <3>1, <3>2 DEF PassState
  <2>6. QED
    BY <1>10, <2>1, <2>3, <2>4, <2>5 DEF ObserveDesktop, PolicyStates, Steps
<1>11. CASE ApplyStyle
  <2>1. window' \in [Windows -> WindowState]
    BY <1>11, <1>w, StyledIsTended DEF ApplyStyle, Tended
  <2>2. hideFailed' \in BOOLEAN
    BY <1>11 DEF ApplyStyle
  <2>3. deferred' \subseteq DeferredActions /\ pass' \in PassState /\ pc' \in Steps
    <3>1. CASE Leave({"ResetSurface", "ApplyStyle"})
      BY <3>1, LeaveIsTyped DEF DeferredActions
    <3>2. CASE /\ pass' = [pass EXCEPT !.flags = @ \ {"ApplyStyle"}]
               /\ pc' = "commit" /\ UNCHANGED deferred
      BY <3>2, <1>w DEF PassState, Steps
    <3>3. QED
      BY <1>11, <3>1, <3>2 DEF ApplyStyle
  <2>4. QED
    BY <1>11, <2>1, <2>2, <2>3 DEF ApplyStyle
<1>12. CASE HideSuppressed
  <2>1. window' \in [Windows -> WindowState] /\ hideFailed' \in BOOLEAN
    BY <1>12, <1>w, HiddenIsTended DEF HideSuppressed, Tended, May
  <2>2. Leave({"ResetSurface"})
    BY <1>12 DEF HideSuppressed
  <2>3. QED
    BY <1>12, <2>1, <2>2, LeaveIsTyped DEF HideSuppressed, DeferredActions
<1>13. CASE HoldFrozen
  <2>1. window' \in [Windows -> WindowState]
    BY <1>13, <1>w, PromotedIsTended DEF HoldFrozen, Tended
  <2>2. Leave({"ResetSurface"})
    BY <1>13 DEF HoldFrozen
  <2>3. QED
    BY <1>13, <2>1, <2>2, LeaveIsTyped DEF HoldFrozen, DeferredActions
<1>14. CASE GoOnVisible
  <2>1. window' \in [Windows -> WindowState]
    BY <1>14, <1>w, PromotedIsTended DEF GoOnVisible, Tended
  <2>2. pass' \in PassState
    BY <1>14, <1>w DEF GoOnVisible, PassState, Flags
  <2>3. QED
    BY <1>14, <2>1, <2>2 DEF GoOnVisible, Steps
<1>15. CASE PostponeShow
  <2>1. Leave({"ResetSurface"})
    BY <1>15 DEF PostponeShow
  <2>2. QED
    BY <1>15, <2>1, LeaveIsTyped DEF PostponeShow, DeferredActions
<1>16. CASE StartPrepare
  <2>1. pass' \in PassState
    <3> DEFINE reset == "ResetSurface" \in pass.flags
    <3>1. pass' = [NoPass EXCEPT !.overlay = pass.overlay, !.reset = reset]
      BY <1>16 DEF StartPrepare
    <3>2. reset \in BOOLEAN
      OBVIOUS
    <3> HIDE DEF reset
    <3>3. QED
      BY <1>w, <3>1, <3>2, NoPassIsTyped DEF PassState
  <2>2. QED
    BY <1>16, <2>1 DEF StartPrepare, Steps
<1>17. CASE PrepareHide \/ PrepareDress \/ PreparePaint \/ PrepareShow
  <2>1. window' \in [Windows -> WindowState]
    <3>1. CASE PrepareHide
      BY <1>w, <3>1, HiddenIsTended DEF PrepareHide, Tended
    <3>2. CASE PrepareDress
      <4> DEFINE PlacedWindow(ok) ==
                   Raised(Styled(window, pass.overlay, TRUE), hwnd, ok)
      <4>1. \A ok \in BOOLEAN : PlacedWindow(ok) \in [Windows -> WindowState]
        BY <1>w, StyledIsTended, RaisedIsTended DEF Tended
      <4>2. \A ok, restored, raised \in BOOLEAN :
              ResetLayeredSurface(PlacedWindow(ok), pass.overlay,
                                  restored, raised)
                \in [Windows -> WindowState]
        <5> HIDE DEF PlacedWindow
        <5>1. QED
          BY <4>1, ResetIsTyped
      <4>3. \/ UNCHANGED window
            \/ \E ok \in BOOLEAN : window' = PlacedWindow(ok)
            \/ \E ok, restored, raised \in BOOLEAN :
                 window' = ResetLayeredSurface(PlacedWindow(ok), pass.overlay,
                                               restored, raised)
        BY <3>2 DEF PrepareDress, May
      <4> HIDE DEF PlacedWindow
      <4>4. CASE \E ok, restored, raised \in BOOLEAN :
                   window' = ResetLayeredSurface(PlacedWindow(ok), pass.overlay,
                                                 restored, raised)
        <5>1. PICK ok \in BOOLEAN, restored \in BOOLEAN, raised \in BOOLEAN :
                window' = ResetLayeredSurface(PlacedWindow(ok), pass.overlay,
                                              restored, raised)
          BY <4>4
        <5>2. QED
          BY <4>2, <5>1
      <4>5. QED
        BY <1>w, <4>1, <4>3, <4>4
    <3>3. CASE PreparePaint
      BY <1>w, <3>3, PaintedIsTended DEF PreparePaint, Tended
    <3>4. CASE PrepareShow
      <4>1. window' = window \/ \E h \in Windows : window' = Shown(window, h)
        BY <3>4 DEF PrepareShow, IsWindow
      <4>2. QED
        BY <1>w, <4>1, ShownIsTyped
    <3>5. QED
      BY <1>17, <3>1, <3>2, <3>3, <3>4
  <2>2. \/ /\ pc' \in {"dress", "paint", "show"}
           /\ UNCHANGED <<pass, deferred, showRetry, showWaits>>
        \/ \E succeeded \in BOOLEAN : PrepareReturns(succeeded)
    BY <1>17 DEF PrepareHide, PrepareDress, PreparePaint, PrepareShow, May, IsWindow
  <2>3. /\ deferred' \subseteq DeferredActions /\ pass' \in PassState /\ pc' \in Steps
        /\ showRetry' \in BOOLEAN /\ showWaits' \in BOOLEAN
    <3>1. CASE \E succeeded \in BOOLEAN : PrepareReturns(succeeded)
      BY <3>1, LeaveIsTyped DEF PrepareReturns
    <3>2. CASE /\ pc' \in {"dress", "paint", "show"}
               /\ UNCHANGED <<pass, deferred, showRetry, showWaits>>
      BY <3>2 DEF Steps
    <3>3. QED
      BY <2>2, <3>1, <3>2
  <2>4. UNCHANGED <<environment, identity, owner, hwnd, tray, clickThrough,
                    suppression, recreate, destroyWaits, repairWaits, hideFailed,
                    addFailed>>
    BY <1>17 DEF PrepareHide, PrepareDress, PreparePaint, PrepareShow
  <2>5. QED
    BY <2>1, <2>3, <2>4
<1>18. CASE KeepShown
  <2>1. window' \in [Windows -> WindowState]
    BY <1>18, <1>w, RaisedIsTended, PaintedIsTended DEF KeepShown, Tended
  <2>2. QED
    BY <1>18, <2>1, NoPassIsTyped DEF KeepShown, Steps
<1>19. CASE LeaveUnrepaired
  <2>1. Leave({})
    BY <1>19 DEF LeaveUnrepaired
  <2>2. QED
    BY <1>19, <2>1, LeaveIsTyped DEF LeaveUnrepaired
<1>20. CASE RepairOverlay
  <2>1. PICK plan : MendInPlace(plan) \/ ShowAnew(plan)
    BY <1>20 DEF RepairOverlay
  <2>2. CASE MendInPlace(plan)
    <3>1. window' \in [Windows -> WindowState]
      BY <1>w, <2>2, StyledIsTended, RaisedIsTended, PaintedIsTended
         DEF MendInPlace, Tended
    <3>2. Leave({}) /\ UNCHANGED <<hwnd, owner>>
      BY <2>2 DEF MendInPlace
    <3>3. QED
      BY <1>20, <3>1, <3>2, LeaveIsTyped DEF RepairOverlay
  <2>3. CASE ShowAnew(plan)
    <3>1. PICK r \in EnsureOutcomes \cup
                   {[ok |-> TRUE, created |-> FALSE, window |-> window,
                     hwnd |-> hwnd, owner |-> owner]} :
            /\ window' = r.window /\ hwnd' = r.hwnd /\ owner' = r.owner
            /\ IF r.hwnd # None /\ (r.created \/ ~IsWindowVisible(r.hwnd))
                 THEN /\ pass' = [NoPass EXCEPT !.overlay = r.hwnd,
                                                !.repairing = TRUE]
                      /\ pc' = "hide"
                      /\ UNCHANGED deferred
                 ELSE Leave({})
      BY <2>3 DEF ShowAnew
    <3>2. /\ r.window \in [Windows -> WindowState]
          /\ r.hwnd \in Windows \cup {None} /\ r.owner \in Nat
      BY <3>1, EnsureIsTyped
    <3>3. [NoPass EXCEPT !.overlay = r.hwnd, !.repairing = TRUE] \in PassState
      BY <3>2, NoPassIsTyped DEF PassState
    <3>4. deferred' \subseteq DeferredActions /\ pass' \in PassState /\ pc' \in Steps
      <4>1. CASE Leave({})
        BY <4>1, LeaveIsTyped
      <4>2. CASE ~Leave({})
        BY <3>1, <3>3, <4>2 DEF Steps
      <4>3. QED
        BY <4>1, <4>2
    <3>5. QED
      BY <1>20, <3>1, <3>2, <3>4 DEF RepairOverlay
  <2>4. QED
    BY <2>1, <2>2, <2>3
<1>21. QED
  BY <1>1, <1>2, <1>3, <1>4, <1>5, <1>6, <1>7, <1>8, <1>9, <1>10, <1>11, <1>12,
     <1>13, <1>14, <1>15, <1>16, <1>17, <1>18, <1>19, <1>20 DEF Step

(* What the environment does leaves the pass and its decisions alone; of   *)
(* the windows it takes some away, hides or damages them.                  *)
Disturbed(w, v) ==
    /\ v \in [Windows -> WindowState]
    /\ \A h \in Windows :
         /\ v[h].visible => w[h].visible /\ v[h].exists = w[h].exists
         /\ v[h].exists => /\ w[h].exists /\ v[h].owner = w[h].owner
                           /\ v[h].fresh = w[h].fresh
                           /\ v[h].transparent = w[h].transparent

LEMMA DamageIsTyped ==
    ASSUME NEW w \in [Windows -> WindowState], NEW h \in Windows
    PROVE  /\ Disturbed(w, [w EXCEPT ![h].visible = FALSE])
           /\ Disturbed(w, [w EXCEPT ![h].topmost = FALSE])
           /\ Disturbed(w, [w EXCEPT ![h].layered = FALSE])
  BY DEF Disturbed, WindowState

LEMMA GoneIsDisturbed ==
    ASSUME NEW w \in [Windows -> WindowState], NEW h \in Windows
    PROVE  Disturbed(w, [w EXCEPT ![h] = NoWindow])
  BY DEF Disturbed, NoWindow, WindowState

LEMMA LeftAloneIsDisturbed ==
    ASSUME NEW w \in [Windows -> WindowState] PROVE Disturbed(w, w)
  BY DEF Disturbed

Surroundings ==
    /\ Disturbed(window, window')
    /\ shell' = shell \/ shell' = NoIdentity \/ shell' # identity.committed
    /\ shell' \in Known /\ tray' \in BOOLEAN /\ calm' \in BOOLEAN
    /\ tray' = tray \/ shell' = NoIdentity
    /\ \/ UNCHANGED <<hwnd, owner>>
       \/ hwnd \in Windows /\ ~window'[hwnd].exists /\ hwnd' = None /\ owner' = 0
    /\ UNCHANGED <<identity, clickThrough, suppression, deferred, recreate, retries,
                   repairWaits, pc, pass, hideFailed, addFailed>>

LEMMA EnvironmentIsAround == ASSUME TypeOK, Environment PROVE Surroundings
<1>w. /\ window \in [Windows -> WindowState] /\ shell \in Known
      /\ NoIdentity \in Known /\ tray \in BOOLEAN /\ calm \in BOOLEAN
  BY DEF TypeOK, Known
<1>1. ASSUME NEW h \in Windows, OverlayVanishes(h) PROVE Surroundings
  <2>1. Disturbed(window, window')
    BY <1>w, <1>1, GoneIsDisturbed DEF OverlayVanishes
  <2>2. ~window'[h].exists
    BY <1>w, <1>1 DEF OverlayVanishes, NoWindow
  <2>3. QED
    BY <1>w, <1>1, <2>1, <2>2 DEF OverlayVanishes, Surroundings, untouched
<1>2. ASSUME NEW h \in Windows, OverlayDamaged(h) PROVE Surroundings
  <2>1. Disturbed(window, window')
    BY <1>w, <1>2, DamageIsTyped DEF OverlayDamaged
  <2>2. QED
    BY <1>w, <1>2, <2>1 DEF OverlayDamaged, Surroundings, untouched
<1>3. CASE ExplorerExits
  BY <1>w, <1>3, LeftAloneIsDisturbed DEF ExplorerExits, Surroundings, untouched
<1>4. ASSUME NEW t \in Taskbars, ExplorerStarts(t) PROVE Surroundings
  BY <1>w, <1>4, LeftAloneIsDisturbed DEF ExplorerStarts, Surroundings, untouched, Known
<1>5. CASE ComesToRest
  BY <1>w, <1>5, LeftAloneIsDisturbed DEF ComesToRest, Surroundings
<1>6. QED
  BY <1>1, <1>2, <1>3, <1>4, <1>5 DEF Environment

LEMMA SurroundingsAreTyped == ASSUME TypeOK, Surroundings PROVE TypeOK'
  BY DEF TypeOK, Surroundings, Disturbed, Known, suppression, retries

(* Time changes stamps and delays only.                                    *)
Aged ==
    /\ identity' \in {identity, [identity EXCEPT !.since = 0]}
    /\ policy' \in {policy, [policy EXCEPT !.since = 0]}
    /\ resume' = resume \/ (resume = "running" /\ resume' = "passed")
    /\ {destroyWaits', showWaits', repairWaits'} \subseteq BOOLEAN
    /\ UNCHANGED <<environment, window, owner, hwnd, tray, clickThrough, frozen,
                   deferred, recreate, showRetry, pc, pass, hideFailed, addFailed>>

LEMMA TimeAges == ASSUME TypeOK, Time PROVE Aged
<1>1. CASE Elapse(Settles)
  BY <1>1 DEF Elapse, Settles, Aged, retries, TypeOK
<1>2. CASE Elapse(Dwells)
  BY <1>2 DEF Elapse, Dwells, Aged, retries, TypeOK
<1>3. CASE Elapse(ResumeDelayPasses)
  BY <1>3 DEF Elapse, ResumeDelayPasses, Aged, retries, TypeOK
<1>4. CASE Elapse(RetryDelayPasses)
  BY <1>4 DEF Elapse, RetryDelayPasses, Aged, TypeOK
<1>5. CASE Elapse(RepairDelayPasses)
  BY <1>5 DEF Elapse, RepairDelayPasses, Aged, retries, TypeOK
<1>6. QED
  BY <1>1, <1>2, <1>3, <1>4, <1>5 DEF Time

LEMMA AgedIsTyped == ASSUME TypeOK, Aged PROVE TypeOK'
<1>1. 0 \in 0 .. Now
  BY DEF Now
<1>2. identity' \in IdentityStates /\ identity'.committed = identity.committed
  BY <1>1 DEF TypeOK, Aged, IdentityStates, Known
<1>3. policy' \in PolicyStates /\ policy'.committed = policy.committed
  BY <1>1 DEF TypeOK, Aged, PolicyStates, SuppressionPolicyState
<1>4. resume' \in {"none", "running", "passed"}
  BY DEF TypeOK, Aged
<1>5. QED
  BY <1>2, <1>3, <1>4 DEF TypeOK, Aged, IdentityStates, PolicyStates, Known,
                          environment

LEMMA TypeKept == ASSUME TypeOK, [Next]_vars PROVE TypeOK'
<1>1. ASSUME NEW trigger \in Triggers, Begin(trigger) PROVE TypeOK'
  BY <1>1, StartPassIsTyped, ConstantsAssumption DEF Begin, TypeOK
<1>2. CASE ToggleClickThrough
  BY <1>2, StartPassIsTyped DEF ToggleClickThrough, TypeOK, Flags
<1>3. CASE Step
  BY <1>3, StepIsTyped
<1>4. CASE Environment
  BY <1>4, EnvironmentIsAround, SurroundingsAreTyped
<1>5. CASE Time
  BY <1>5, TimeAges, AgedIsTyped
<1>6. CASE UNCHANGED vars
  BY <1>6 DEF TypeOK, vars
<1>7. QED
  BY <1>1, <1>2, <1>3, <1>4, <1>5, <1>6 DEF Next, Program, Start

(* The state of the reconciler, the windows and the locals of a pass stay  *)
(* well-formed, whatever call fails and whatever disturbs a pass.          *)
THEOREM TypeCorrect == Spec => []TypeOK
<1>1. TypeOK /\ [Next]_vars => TypeOK'
  BY TypeKept
<1>2. QED
  BY InitTypeOK, <1>1, PTL DEF Spec

-----------------------------------------------------------------------------
(* What a pass has already decided at each of its steps.                   *)

Preparing == {"choose", "hide", "dress", "paint", "show", "repair"}
Served == {"tray", "ensure", "observe", "style", "commit"} \cup Preparing

(* A destruction that is pending is carried out before anything else.      *)
RecreationIsDecided ==
    /\ pc = "recreate" => recreate
    /\ pc \in Served => ~recreate

(* Only a decision to show, unfrozen, leads to showing or keeping shown.   *)
ShowIsIntended ==
    pc \in Preparing => policy.committed = "None" /\ ~frozen /\ resume = "none"

StyleIsApplied ==
    pc \in {"commit"} \cup Preparing => "ApplyStyle" \notin pass.flags

(* A taskbar that was not ready when the pass looked is not the committed  *)
(* one when the pass hides the overlay for it.                             *)
UnreadyStaysUnready ==
    pc \in {"recreate", "tray", "ensure"} /\ ~pass.ready => ~CommittedTaskbarReady

(* What a pass that ended has not done is deferred, not kept in its flags. *)
NothingIsLeftInFlags == pc = "idle" => pass.flags = {}

Control ==
    /\ RecreationIsDecided /\ ShowIsIntended
    /\ StyleIsApplied /\ UnreadyStaysUnready /\ NothingIsLeftInFlags

LEMMA NoPassHasNoFlags == NoPass.flags = {}
  BY DEF NoPass

LEMMA LeavingIsInControl ==
    ASSUME pc' = "idle", pass' = NoPass PROVE Control'
  BY NoPassHasNoFlags
     DEF Control, RecreationIsDecided, ShowIsIntended, StyleIsApplied,
         UnreadyStaysUnready, NothingIsLeftInFlags, Served, Preparing

LEMMA InitControl == Init => Control
  BY NoPassHasNoFlags
     DEF Init, Control, RecreationIsDecided, ShowIsIntended, StyleIsApplied,
         UnreadyStaysUnready, NothingIsLeftInFlags, Served, Preparing

LEMMA StepControl == ASSUME TypeOK, Control, Step PROVE Control'
<1> USE DEF Control, RecreationIsDecided, ShowIsIntended, StyleIsApplied,
            UnreadyStaysUnready, NothingIsLeftInFlags, Served, Preparing
<1>1. CASE WaitForTaskbar \/ PostponeDestroy \/ DestroyFails \/ TaskbarUnavailable
             \/ HideSuppressed \/ HoldFrozen \/ PostponeShow \/ LeaveUnrepaired
  BY <1>1, LeavingIsInControl
     DEF WaitForTaskbar, PostponeDestroy, DestroyFails, TaskbarUnavailable,
         HideSuppressed, HoldFrozen, PostponeShow, LeaveUnrepaired, Leave
<1>2. CASE JudgeTaskbar
  <2>1. pass'.ready = CommittedTaskbarReady
    BY <1>2 DEF JudgeTaskbar, TypeOK, PassState
  <2>2. CommittedTaskbarReady' = CommittedTaskbarReady
    BY <1>2 DEF JudgeTaskbar, CommittedTaskbarReady, environment
  <2>3. pc' = IF recreate' THEN "recreate" ELSE "tray"
    BY <1>2 DEF JudgeTaskbar
  <2>4. QED
    BY <2>1, <2>2, <2>3
<1>3. CASE DestroyOverlay
  BY <1>3 DEF DestroyOverlay, CommittedTaskbarReady, environment, TypeOK, PassState
<1>4. CASE RefreshTrayIcon \/ KeepTrayIcon
  BY <1>4 DEF RefreshTrayIcon, KeepTrayIcon, CommittedTaskbarReady, environment,
              TypeOK, PassState
<1>5. CASE EnsureOverlay
  <2>1. pc' = "observe" \/ (pc' = "idle" /\ pass' = NoPass)
    BY <1>5 DEF EnsureOverlay, Leave
  <2>2. QED
    BY <1>5, <2>1, LeavingIsInControl DEF EnsureOverlay
<1>6. CASE ObserveDesktop
  <2>1. "ApplyStyle" \notin pass.flags => "ApplyStyle" \notin pass'.flags
    BY <1>6 DEF ObserveDesktop, TypeOK, PassState
  <2>2. QED
    BY <1>6, <2>1 DEF ObserveDesktop
<1>7. CASE ApplyStyle
  <2>1. \/ pc' = "idle" /\ pass' = NoPass
        \/ pc' = "commit" /\ "ApplyStyle" \notin pass'.flags
    BY <1>7 DEF ApplyStyle, Leave, TypeOK, PassState
  <2>2. QED
    BY <1>7, <2>1, LeavingIsInControl DEF ApplyStyle
<1>8. CASE GoOnVisible
  <2>1. policy.committed = "None" /\ ~frozen
    BY <1>8 DEF GoOnVisible, Holds, Intent, ComputeOverlayIntent
  <2>2. "ApplyStyle" \notin pass'.flags
    BY <1>8 DEF GoOnVisible, TypeOK, PassState
  <2>3. QED
    BY <1>8, <2>1, <2>2 DEF GoOnVisible
<1>9. CASE StartPrepare \/ KeepShown
  <2>1. pass'.flags = {}
    <3>1. pass'.flags = NoPass.flags
      BY <1>9, NoPassIsTyped DEF StartPrepare, KeepShown, PassState
    <3>2. QED
      BY <3>1 DEF NoPass
  <2>2. pc = "choose" /\ pc' \in {"hide", "repair"}
        /\ UNCHANGED <<recreate, policy, frozen, resume>>
    BY <1>9 DEF StartPrepare, KeepShown, suppression
  <2>3. QED
    BY <2>1, <2>2
<1>10. CASE PrepareHide \/ PrepareDress \/ PreparePaint \/ PrepareShow
  <2>1. pc \in Preparing /\ UNCHANGED <<recreate, policy, frozen, resume>>
    BY <1>10 DEF PrepareHide, PrepareDress, PreparePaint, PrepareShow, suppression
  <2>2. \/ pc' = "idle" /\ pass' = NoPass
        \/ pc' \in {"dress", "paint", "show"} /\ UNCHANGED pass
    BY <1>10 DEF PrepareHide, PrepareDress, PreparePaint, PrepareShow,
                 PrepareReturns, Leave
  <2>3. QED
    BY <2>1, <2>2, LeavingIsInControl
<1>11. CASE RepairOverlay
  <2>1. pc = "repair" /\ UNCHANGED <<recreate, policy, frozen, resume>>
    BY <1>11 DEF RepairOverlay, suppression
  <2>2. \/ pc' = "idle" /\ pass' = NoPass
        \/ pc' = "hide" /\ pass'.flags = {}
    BY <1>11 DEF RepairOverlay, MendInPlace, ShowAnew, Leave, NoPass
  <2>3. QED
    BY <2>1, <2>2, LeavingIsInControl
<1>12. QED
  BY <1>1, <1>2, <1>3, <1>4, <1>5, <1>6, <1>7, <1>8, <1>9, <1>10, <1>11 DEF Step

LEMMA ControlKept == ASSUME TypeOK, Control, [Next]_vars PROVE Control'
<1> USE DEF Control, RecreationIsDecided, ShowIsIntended, StyleIsApplied,
            UnreadyStaysUnready, NothingIsLeftInFlags, Served, Preparing
<1>1. ASSUME NEW trigger, StartPass(trigger) PROVE Control'
  BY <1>1 DEF StartPass
<1>2. CASE Step
  BY <1>2, StepControl
<1>3. CASE Environment
  <2>1. Surroundings
    BY <1>3, EnvironmentIsAround
  <2>2. ~CommittedTaskbarReady => ~CommittedTaskbarReady'
    BY <2>1, TaskbarsAreKnown DEF Surroundings, CommittedTaskbarReady
  <2>3. QED
    BY <2>1, <2>2 DEF Surroundings, suppression
<1>4. CASE Time
  <2>1. Aged
    BY <1>4, TimeAges
  <2>2. policy'.committed = policy.committed /\ identity'.committed = identity.committed
    BY <2>1 DEF Aged, TypeOK, SuppressionPolicyState
  <2>3. QED
    BY <2>1, <2>2 DEF Aged, CommittedTaskbarReady, environment
<1>5. CASE UNCHANGED vars
  BY <1>5 DEF vars, CommittedTaskbarReady
<1>6. QED
  BY <1>1, <1>2, <1>3, <1>4, <1>5
     DEF Next, Program, Start, Begin, ToggleClickThrough

-----------------------------------------------------------------------------
(* The windows.                                                            *)

VisibleExists == \A h \in Windows : window[h].visible => window[h].exists

(* From the moment a pass has ensured an overlay until it repairs it, it   *)
(* works on the current one, or on one that is gone.                       *)
OverlayIsTheHandle ==
    pc \in (Served \ {"tray", "ensure", "repair"}) => hwnd \in {None, pass.overlay}

(* What the steps of a show have achieved, as long as the window exists.   *)
ReadyToShow ==
    IsWindow(pass.overlay) =>
        /\ pc = "dress" /\ pass.reset => ~window[pass.overlay].visible
        /\ pc \in {"paint", "show"} => window[pass.overlay].transparent = clickThrough
        /\ pc = "show" => window[pass.overlay].fresh

NoneExists == \A h \in Windows : ~window[h].exists

(* A step tends the windows and keeps the handle, or gives it up when no   *)
(* window is left; or it creates one, or shows one.                        *)
Tends ==
    /\ Tended(window, window')
    /\ UNCHANGED <<hwnd, owner>> \/ (hwnd' = None /\ owner' = 0 /\ NoneExists')

CreatesOne ==
    \E h \in Windows, styled \in BOOLEAN :
        /\ ~IsWindow(hwnd) /\ CommittedTaskbarReady
        /\ window' = [window EXCEPT ![h] = Created(h, styled)]
        /\ hwnd' = h /\ owner' = identity.committed.hwnd

ShowsOne ==
    /\ pc = "show" /\ IsWindow(pass.overlay)
    /\ window' = Shown(window, pass.overlay)
    /\ UNCHANGED <<hwnd, owner>>

LEMMA EnsuringTendsOrCreates ==
    ASSUME TypeOK, SingleOverlay, NEW r \in EnsureOutcomes,
           window' = r.window, hwnd' = r.hwnd, owner' = r.owner
    PROVE  Tends \/ CreatesOne
<1>w. window \in [Windows -> WindowState]
  BY DEF TypeOK
<1>1. CASE LeavesAll(r)
  BY <1>w, <1>1, LeftAloneIsTended DEF LeavesAll, Tends
<1>2. CASE GivesUp(r)
  BY <1>w, <1>2, LeftAloneIsTended
     DEF GivesUp, Tends, NoneExists, SingleOverlay, IsWindow
<1>3. CASE Creates(r)
  BY <1>3 DEF Creates, CreatesOne
<1>4. QED
  BY <1>1, <1>2, <1>3, EnsureCases

LEMMA DressingTends ==
    ASSUME TypeOK, ReadyToShow, PrepareDress
    PROVE  Tended(window, window')
<1>w. window \in [Windows -> WindowState] /\ clickThrough \in BOOLEAN
  BY DEF TypeOK
<1>1. CASE UNCHANGED window
  BY <1>w, <1>1, LeftAloneIsTended
<1>2. ASSUME NEW placed \in BOOLEAN, NEW restored \in BOOLEAN,
             NEW raised \in BOOLEAN,
             IsWindow(pass.overlay),
             LET placedWindow ==
                   Raised(Styled(window, pass.overlay, TRUE), hwnd, placed)
             IN  window' = IF pass.reset
                             THEN ResetLayeredSurface(placedWindow, pass.overlay,
                                                      restored, raised)
                             ELSE placedWindow
      PROVE  Tended(window, window')
  <2> DEFINE styledWindow == Styled(window, pass.overlay, TRUE)
             placedWindow == Raised(styledWindow, hwnd, placed)
  <2>1. Tended(window, styledWindow)
    BY <1>w, StyledIsTended
  <2>2. styledWindow \in [Windows -> WindowState]
    BY <2>1 DEF Tended
  <2>3. Tended(styledWindow, placedWindow)
    BY <2>2, RaisedIsTended
  <2>4. Tended(window, placedWindow) /\ placedWindow \in [Windows -> WindowState]
    <3> HIDE DEF styledWindow, placedWindow
    <3>1. Tended(window, placedWindow)
      BY <1>w, <2>1, <2>3, TendedTwice
    <3>2. QED
      BY <2>3, <3>1 DEF Tended
  <2> HIDE DEF styledWindow, placedWindow
  <2>5. CASE pass.reset
    <3>1. ~window[pass.overlay].visible /\ pass.overlay \in Windows
      BY <1>2, <2>5 DEF ReadyToShow, PrepareDress, IsWindow
    <3>2. ~placedWindow[pass.overlay].visible
      BY <2>4, <3>1 DEF Tended
    <3>3. Tended(placedWindow,
                 ResetLayeredSurface(placedWindow, pass.overlay,
                                     restored, raised))
      BY <2>4, <3>2, ResetIsTended
    <3>4. window' = ResetLayeredSurface(placedWindow, pass.overlay,
                                        restored, raised)
      BY <1>2, <2>5 DEF placedWindow, styledWindow
    <3>5. QED
      BY <1>w, <2>4, <3>3, <3>4, TendedTwice
  <2>6. CASE ~pass.reset
    BY <1>2, <2>4, <2>6 DEF placedWindow, styledWindow
  <2>7. QED
    BY <2>5, <2>6
<1>3. QED
  BY <1>1, <1>2 DEF PrepareDress, May

LEMMA KeepingShownTends ==
    ASSUME TypeOK, KeepShown
    PROVE  Tended(window, window')
<1>w. window \in [Windows -> WindowState] /\ clickThrough \in BOOLEAN
  BY DEF TypeOK
<1> DEFINE Promotion(shows) ==
             IF ShouldPromoteOverlayForTaskViewTransition(
                  Intent, IsWindowVisible(pass.overlay),
                  "PromoteForTaskView" \in pass.flags)
               THEN Raised(window, pass.overlay, shows) ELSE window
           Position(w, placed) ==
             IF "Reposition" \in pass.flags THEN Raised(w, hwnd, placed) ELSE w
<1>a. PICK shows \in May("show"), placed \in May("position"), ok \in May("present"),
           moved \in BOOLEAN :
        LET renders == \/ "Render" \in pass.flags
                       \/ "Reposition" \in pass.flags /\ placed /\ moved
        IN  window' = IF renders
                        THEN Painted(Position(Promotion(shows), placed), pass.overlay, ok)
                        ELSE Position(Promotion(shows), placed)
  BY DEF KeepShown
<1> DEFINE promoted == Promotion(shows)
           positioned == Position(promoted, placed)
<1>1. window' \in {positioned, Painted(positioned, pass.overlay, ok)}
  BY <1>a
<1>2. Tended(window, promoted) /\ promoted \in [Windows -> WindowState]
  BY <1>w, RaisedIsTended, LeftAloneIsTended DEF Tended
<1> HIDE DEF promoted
<1>3. Tended(promoted, positioned)
  BY <1>2, RaisedIsTended, LeftAloneIsTended
<1>4. Tended(window, positioned) /\ positioned \in [Windows -> WindowState]
  <2>1. Tended(window, positioned)
    BY <1>w, <1>2, <1>3, TendedTwice
  <2>2. QED
    BY <2>1 DEF Tended
<1> HIDE DEF positioned
<1>5. QED
  BY <1>w, <1>1, <1>4, PaintedIsTended, TendedTwice

LEMMA MendingTends ==
    ASSUME TypeOK, NEW plan, MendInPlace(plan)
    PROVE  Tended(window, window')
<1>w. window \in [Windows -> WindowState] /\ clickThrough \in BOOLEAN
  BY DEF TypeOK
<1>1. PICK styled \in BOOLEAN, placed \in BOOLEAN, ok \in BOOLEAN :
        LET dressed == IF plan.style THEN Styled(window, hwnd, styled) ELSE window
            raised == IF plan.reposition THEN Raised(dressed, hwnd, placed)
                                         ELSE dressed
        IN  window' \in {raised, Painted(raised, hwnd, ok)}
  BY DEF MendInPlace, May
<1> DEFINE dressed == IF plan.style THEN Styled(window, hwnd, styled) ELSE window
           raised == IF plan.reposition THEN Raised(dressed, hwnd, placed) ELSE dressed
<1>2. window' \in {raised, Painted(raised, hwnd, ok)}
  BY <1>1
<1>3. Tended(window, dressed) /\ dressed \in [Windows -> WindowState]
  BY <1>w, StyledIsTended, LeftAloneIsTended DEF Tended
<1> HIDE DEF dressed
<1>4. Tended(dressed, raised)
  BY <1>3, RaisedIsTended, LeftAloneIsTended
<1>5. Tended(window, raised) /\ raised \in [Windows -> WindowState]
  BY <1>w, <1>3, <1>4, TendedTwice DEF Tended
<1> HIDE DEF raised
<1>6. QED
  BY <1>w, <1>2, <1>5, PaintedIsTended, TendedTwice

LEMMA StepOnWindows ==
    ASSUME TypeOK, SingleOverlay, ReadyToShow, Step
    PROVE  Tends \/ CreatesOne \/ ShowsOne
<1>w. window \in [Windows -> WindowState] /\ clickThrough \in BOOLEAN
      /\ hwnd \in Windows \cup {None}
  BY DEF TypeOK
<1>1. CASE WaitForTaskbar \/ DestroyFails \/ TaskbarUnavailable \/ HideSuppressed
  <2>1. Tended(window, window')
    BY <1>w, <1>1, HiddenIsTended, LeftAloneIsTended
       DEF WaitForTaskbar, DestroyFails, TaskbarUnavailable, HideSuppressed
  <2>2. QED
    BY <1>1, <2>1
       DEF Tends, WaitForTaskbar, DestroyFails, TaskbarUnavailable, HideSuppressed
<1>2. CASE JudgeTaskbar \/ PostponeDestroy \/ RefreshTrayIcon \/ KeepTrayIcon
             \/ PostponeShow \/ StartPrepare \/ LeaveUnrepaired
  BY <1>w, <1>2, LeftAloneIsTended
     DEF Tends, JudgeTaskbar, PostponeDestroy, RefreshTrayIcon, KeepTrayIcon,
         PostponeShow, StartPrepare, LeaveUnrepaired
<1>3. CASE DestroyOverlay
  <2>1. Tended(window, window')
    BY <1>w, <1>3, GoneIsTended, LeftAloneIsTended DEF DestroyOverlay
  <2>2. NoneExists'
    <3>1. CASE hwnd \in Windows
      <4>1. window' = [window EXCEPT ![hwnd] = NoWindow] /\ ~NoWindow.exists
        BY <1>3, <3>1 DEF DestroyOverlay, NoWindow
      <4>2. QED
        BY <1>w, <4>1 DEF NoneExists, SingleOverlay
    <3>2. CASE hwnd \notin Windows
      BY <1>3, <3>2 DEF DestroyOverlay, NoneExists, SingleOverlay
    <3>3. QED
      BY <3>1, <3>2
  <2>3. QED
    BY <1>3, <2>1, <2>2 DEF Tends, DestroyOverlay
<1>4. CASE EnsureOverlay
  BY <1>4, EnsuringTendsOrCreates DEF EnsureOverlay
<1>5. CASE ObserveDesktop \/ ApplyStyle \/ HoldFrozen \/ GoOnVisible
  <2>1. Tended(window, window')
    <3>1. CASE ObserveDesktop
      BY <1>w, <3>1, RaisedIsTended, LeftAloneIsTended DEF ObserveDesktop
    <3>2. CASE ApplyStyle
      BY <1>w, <3>2, StyledIsTended DEF ApplyStyle
    <3>3. CASE HoldFrozen \/ GoOnVisible
      BY <1>w, <3>3, PromotedIsTended, LeftAloneIsTended DEF HoldFrozen, GoOnVisible
    <3>4. QED
      BY <1>5, <3>1, <3>2, <3>3
  <2>2. QED
    BY <1>5, <2>1 DEF Tends, ObserveDesktop, ApplyStyle, HoldFrozen, GoOnVisible
<1>6. CASE PrepareHide \/ PrepareDress \/ PreparePaint
  <2>1. Tended(window, window')
    BY <1>w, <1>6, HiddenIsTended, DressingTends, PaintedIsTended, LeftAloneIsTended
       DEF PrepareHide, PreparePaint
  <2>2. QED
    BY <1>6, <2>1 DEF Tends, PrepareHide, PrepareDress, PreparePaint
<1>7. CASE PrepareShow
  <2>1. UNCHANGED window \/ (IsWindow(pass.overlay)
                               /\ window' = Shown(window, pass.overlay))
    BY <1>7 DEF PrepareShow
  <2>2. QED
    BY <1>w, <1>7, <2>1, LeftAloneIsTended DEF Tends, ShowsOne, PrepareShow
<1>8. CASE KeepShown
  BY <1>8, KeepingShownTends DEF Tends, KeepShown
<1>9. CASE RepairOverlay
  <2>1. ASSUME NEW plan, MendInPlace(plan) PROVE Tends
    BY <2>1, MendingTends DEF Tends, MendInPlace
  <2>2. ASSUME NEW plan, ShowAnew(plan) PROVE Tends \/ CreatesOne
    <3>1. CASE plan.ensure
      BY <2>2, <3>1, EnsuringTendsOrCreates DEF ShowAnew
    <3>2. CASE ~plan.ensure
      BY <1>w, <2>2, <3>2, LeftAloneIsTended DEF ShowAnew, Tends
    <3>3. QED
      BY <3>1, <3>2
  <2>3. QED
    BY <1>9, <2>1, <2>2 DEF RepairOverlay
<1>10. QED
  BY <1>1, <1>2, <1>3, <1>4, <1>5, <1>6, <1>7, <1>8, <1>9 DEF Step

-----------------------------------------------------------------------------
(* The inductive invariant.                                                *)

(* Until a pass has seen the desktop, a suppressed overlay is as hidden as *)
(* the pass before left it.                                                *)
HiddenUntilObserved ==
    /\ pc \in {"idle", "wait", "judge", "recreate", "tray", "ensure", "observe"}
    /\ policy.committed # "None" /\ ~hideFailed
    => \A h \in Windows : ~window[h].visible

(* In the middle of a pass the icon may also be owed by the pass.          *)
TrayIconIsAccountedFor ==
    \/ tray \/ addFailed
    \/ shell = NoIdentity \/ shell # identity.committed \/ recreate
    \/ pc = "judge" /\ pass.changed
    \/ "RefreshTrayIcon" \in deferred
    \/ pc \in {"wait", "judge", "recreate", "tray"} /\ "RefreshTrayIcon" \in pass.flags

IInv ==
    /\ TypeOK /\ Control
    /\ SingleOverlay /\ VisibleExists /\ PresentedBeforeShown
    /\ OverlayIsTheHandle /\ ReadyToShow
    /\ OwnedByTheCommittedTaskbar /\ ClickThroughIsAppliedOrOwed
    /\ HiddenUntilObserved /\ TrayIconIsAccountedFor

LEMMA InitIInv == Init => IInv
<1> SUFFICES ASSUME Init PROVE IInv
  OBVIOUS
<1>1. TypeOK /\ Control
  BY InitTypeOK, InitControl
<1>2. \A h \in Windows : ~window[h].exists /\ ~window[h].visible
  BY DEF Init, NoWindow
<1>3. hwnd = None /\ hwnd \notin Windows /\ pc = "idle"
  BY ConstantsAssumption DEF Init
<1>4. /\ SingleOverlay /\ VisibleExists /\ PresentedBeforeShown
      /\ OwnedByTheCommittedTaskbar /\ ClickThroughIsAppliedOrOwed
      /\ HiddenUntilObserved
  BY <1>2, <1>3
     DEF SingleOverlay, VisibleExists, PresentedBeforeShown, IsWindow,
         OwnedByTheCommittedTaskbar, ClickThroughIsAppliedOrOwed, HiddenUntilObserved
<1>5. OverlayIsTheHandle /\ ReadyToShow
  BY <1>3 DEF OverlayIsTheHandle, ReadyToShow, Served, Preparing
<1>6. TrayIconIsAccountedFor
  BY DEF Init, TrayIconIsAccountedFor
<1>7. QED
  BY <1>1, <1>4, <1>5, <1>6 DEF IInv

(* The five kinds of steps.                                                *)
Starts(trigger) ==
    /\ pc = "idle" /\ pc' \in {"wait", "judge"}
    /\ pass'.flags = trigger \cup deferred /\ deferred' = {}
    /\ identity'.committed # identity.committed => pc' = "judge" /\ pass'.changed
    /\ addFailed' = (addFailed /\ "RefreshTrayIcon" \notin trigger)
    /\ clickThrough' # clickThrough => "ApplyStyle" \in trigger
    /\ UNCHANGED <<environment, window, owner, hwnd, tray, suppression, recreate,
                   retries, repairWaits, hideFailed>>

LEMMA StartPassStarts ==
    ASSUME TypeOK, NEW trigger \in SUBSET Flags, StartPass(trigger),
           clickThrough' # clickThrough => "ApplyStyle" \in trigger
    PROVE  Starts(trigger)
<1>1. PICK found \in BOOLEAN :
        LET result == ReduceTaskbarIdentity(
                        identity, IF found THEN shell ELSE NoIdentity, Now)
        IN  /\ identity' = result.state
            /\ pc' = IF result.pending THEN "wait" ELSE "judge"
            /\ pass' = [NoPass EXCEPT
                          !.flags = trigger \cup deferred,
                          !.forced = "ResetSurface" \in trigger,
                          !.changed = result.changed]
  BY DEF StartPass, May
<1> DEFINE o == IF found THEN shell ELSE NoIdentity
           result == ReduceTaskbarIdentity(identity, o, Now)
<1>2. identity \in IdentityStates /\ o \in Known
  BY DEF TypeOK, IdentityStates, Known
<1>3. /\ result.pending \in BOOLEAN /\ result.changed \in BOOLEAN
      /\ result.changed => ~result.pending
      /\ ~result.changed => result.state.committed = identity.committed
  BY <1>2, IdentityReduced
<1>4. pass'.flags = trigger \cup deferred /\ pass'.changed = result.changed
  BY <1>1 DEF NoPass
<1>5. identity' = result.state /\ pc' = IF result.pending THEN "wait" ELSE "judge"
  BY <1>1
<1> HIDE DEF result
<1>6. identity'.committed # identity.committed => pc' = "judge" /\ pass'.changed
  BY <1>3, <1>4, <1>5
<1>7. QED
  BY <1>4, <1>5, <1>6 DEF StartPass, Starts

LEMMA KindsOfSteps ==
    ASSUME TypeOK, [Next]_vars
    PROVE  \/ \E trigger \in SUBSET Flags : Starts(trigger)
           \/ Step \/ Surroundings \/ Aged \/ UNCHANGED vars
<1>1. ASSUME NEW trigger \in Triggers, Begin(trigger)
      PROVE  \E t \in SUBSET Flags : Starts(t)
  <2>1. trigger \in SUBSET Flags
    BY ConstantsAssumption
  <2>2. Starts(trigger)
    BY <1>1, <2>1, StartPassStarts DEF Begin
  <2>3. QED
    BY <2>1, <2>2
<1>2. CASE ToggleClickThrough
  <2>1. {"ApplyStyle"} \in SUBSET Flags
    BY DEF Flags
  <2>2. Starts({"ApplyStyle"})
    BY <1>2, <2>1, StartPassStarts DEF ToggleClickThrough
  <2>3. QED
    BY <2>1, <2>2
<1>3. QED
  BY <1>1, <1>2, EnvironmentIsAround, TimeAges DEF Next, Program, Start

(* SingleOverlay, VisibleExists and PresentedBeforeShown.                  *)
LEMMA WindowsKept ==
    ASSUME IInv, [Next]_vars
    PROVE  SingleOverlay' /\ VisibleExists' /\ PresentedBeforeShown'
<1>w. window \in [Windows -> WindowState] /\ hwnd \in Windows \cup {None}
  BY DEF IInv, TypeOK
<1> USE DEF SingleOverlay, VisibleExists, PresentedBeforeShown
<1>1. CASE Tends
  BY <1>1 DEF IInv, Tends, Tended, NoneExists
<1>2. CASE CreatesOne
  <2>1. PICK h \in Windows, styled \in BOOLEAN :
          window' = [window EXCEPT ![h] = Created(h, styled)] /\ hwnd' = h
    BY <1>2 DEF CreatesOne
  <2>2. Created(h, styled).exists /\ ~Created(h, styled).visible
    BY DEF Created, NoWindow
  <2>3. \A g \in Windows : ~window[g].exists
    BY <1>2 DEF IInv, CreatesOne, IsWindow
  <2>4. \A g \in Windows : g # h => window'[g] = window[g]
    BY <1>w, <2>1
  <2>5. window'[h] = Created(h, styled)
    BY <1>w, <2>1
  <2>6. QED
    BY <2>1, <2>2, <2>3, <2>4, <2>5 DEF IInv
<1>3. CASE ShowsOne
  <2> DEFINE h == pass.overlay
  <2>1. h \in Windows /\ window[h].exists /\ window[h].fresh
    BY <1>3 DEF IInv, ShowsOne, ReadyToShow, IsWindow
  <2>2. window' = [window EXCEPT ![h] = [window[h] EXCEPT !.visible = TRUE,
                                                          !.topmost = TRUE]]
    BY <1>3 DEF ShowsOne, Shown
  <2>3. \A g \in Windows : g # h => window'[g] = window[g]
    BY <1>w, <2>2
  <2>4. window'[h].exists = window[h].exists /\ window'[h].fresh = window[h].fresh
    BY <1>w, <2>1, <2>2 DEF WindowState
  <2>5. hwnd' = hwnd
    BY <1>3 DEF ShowsOne
  <2> HIDE DEF h
  <2>6. QED
    BY <2>1, <2>3, <2>4, <2>5 DEF IInv
<1>4. CASE Surroundings
  BY <1>w, <1>4 DEF IInv, Surroundings, Disturbed
<1>5. CASE UNCHANGED <<window, hwnd>>
  BY <1>5 DEF IInv
<1>6. QED
  BY <1>1, <1>2, <1>3, <1>4, <1>5, KindsOfSteps, StepOnWindows
     DEF IInv, Starts, Aged, vars

LEMMA HandleKept == ASSUME IInv, [Next]_vars PROVE OverlayIsTheHandle'
<1> USE DEF OverlayIsTheHandle, Served, Preparing
<1>1. CASE EnsureOverlay
  <2>1. PICK r \in EnsureOutcomes :
          /\ hwnd' = r.hwnd
          /\ IF r.ok THEN pass' = [pass EXCEPT !.created = r.created,
                                               !.overlay = r.hwnd]
                     ELSE pc' = "idle"
    BY <1>1 DEF EnsureOverlay, Leave
  <2>2. r.ok => pass'.overlay = hwnd'
    BY <2>1 DEF IInv, TypeOK, PassState
  <2>3. QED
    BY <2>1, <2>2
<1>2. CASE RepairOverlay
  <2>1. pc' = "hide" => pass'.overlay = hwnd'
    BY <1>2 DEF RepairOverlay, MendInPlace, ShowAnew, Leave, NoPass
  <2>2. pc' \in {"idle", "hide"}
    BY <1>2 DEF RepairOverlay, MendInPlace, ShowAnew, Leave
  <2>3. QED
    BY <2>1, <2>2
<1>3. CASE ObserveDesktop \/ ApplyStyle \/ HideSuppressed \/ HoldFrozen
             \/ GoOnVisible \/ PostponeShow
  <2>1. pc' # "idle" => pass'.overlay = pass.overlay
    BY <1>3 DEF ObserveDesktop, ApplyStyle, HideSuppressed, HoldFrozen, GoOnVisible,
                PostponeShow, Leave, IInv, TypeOK, PassState
  <2>2. hwnd' = hwnd /\ pc \in {"observe", "style", "commit", "choose"}
    BY <1>3 DEF ObserveDesktop, ApplyStyle, HideSuppressed, HoldFrozen, GoOnVisible,
                PostponeShow
  <2>3. QED
    BY <2>1, <2>2 DEF IInv
<1>4. CASE StartPrepare
  <2>1. pass'.overlay = pass.overlay
    BY <1>4, NoPassIsTyped DEF StartPrepare, PassState
  <2>2. QED
    BY <1>4, <2>1 DEF IInv, StartPrepare
<1>5. CASE PrepareHide \/ PrepareDress \/ PreparePaint \/ PrepareShow
  BY <1>5 DEF IInv, PrepareHide, PrepareDress, PreparePaint, PrepareShow,
              PrepareReturns, Leave
<1>6. CASE WaitForTaskbar \/ JudgeTaskbar \/ PostponeDestroy \/ DestroyFails
             \/ DestroyOverlay \/ RefreshTrayIcon \/ KeepTrayIcon
             \/ TaskbarUnavailable \/ KeepShown \/ LeaveUnrepaired
  BY <1>6 DEF WaitForTaskbar, JudgeTaskbar, PostponeDestroy, DestroyFails,
              DestroyOverlay, RefreshTrayIcon, KeepTrayIcon, TaskbarUnavailable,
              KeepShown, LeaveUnrepaired, Leave
<1>7. CASE Surroundings
  BY <1>7 DEF IInv, Surroundings
<1>8. CASE \E trigger \in SUBSET Flags : Starts(trigger)
  BY <1>8 DEF Starts
<1>9. CASE Aged \/ UNCHANGED vars
  BY <1>9 DEF IInv, Aged, vars
<1>10. QED
  BY <1>1, <1>2, <1>3, <1>4, <1>5, <1>6, <1>7, <1>8, <1>9, KindsOfSteps DEF IInv, Step

LEMMA ReadyKept == ASSUME IInv, [Next]_vars PROVE ReadyToShow'
<1>w. window \in [Windows -> WindowState] /\ clickThrough \in BOOLEAN
  BY DEF IInv, TypeOK
<1>1. CASE PrepareHide
  <2>1. pc' \in {"dress", "idle"} /\ (pc' = "dress" => UNCHANGED pass)
    BY <1>1 DEF PrepareHide, PrepareReturns, Leave
  <2>2. ASSUME pc' = "dress", pass.reset, IsWindow(pass.overlay)
        PROVE  ~window'[pass.overlay].visible
    <3>1. \E ok \in BOOLEAN :
            /\ window' = CommitOverlayHidden(window, pass.overlay, ok)
            /\ IsWindowVisible(pass.overlay) => ok
      BY <1>1, <2>2 DEF PrepareHide, May, PrepareReturns, Leave
    <3>2. QED
      BY <1>w, <2>2, <3>1
         DEF CommitOverlayHidden, Hidden, IsWindowVisible, IsWindow, WindowState
  <2>3. \A h \in Windows : window'[h].exists => window[h].exists
    BY <1>w, <1>1, HiddenIsTended, LeftAloneIsTended DEF PrepareHide, Tended
  <2>4. QED
    BY <2>1, <2>2, <2>3 DEF ReadyToShow, IsWindow
<1>2. CASE PrepareDress
  <2>1. pc' \in {"paint", "idle"} /\ (pc' = "paint" => UNCHANGED pass)
        /\ UNCHANGED clickThrough
    BY <1>2 DEF PrepareDress, PrepareReturns, Leave
  <2>2. ASSUME pc' = "paint"
        PROVE  IsWindow(pass.overlay)
                 /\ window'[pass.overlay].transparent = clickThrough
    <3>1. PICK placed, restored, raised \in BOOLEAN :
            /\ IsWindow(pass.overlay)
            /\ LET placedWindow ==
                     Raised(Styled(window, pass.overlay, TRUE), hwnd, placed)
               IN  window' = IF pass.reset
                               THEN ResetLayeredSurface(placedWindow, pass.overlay,
                                                        restored, raised)
                               ELSE placedWindow
      BY <1>2, <2>2 DEF PrepareDress, May, PrepareReturns, Leave
    <3> DEFINE h == pass.overlay
               styledWindow == Styled(window, h, TRUE)
               placedWindow == Raised(styledWindow, hwnd, placed)
    <3>2. h \in Windows /\ window[h].exists
      BY <3>1 DEF IsWindow
    <3>3. window[h] \in WindowState /\ styledWindow \in [Windows -> WindowState]
      BY <1>w, <3>2, StyledIsTended DEF Tended
    <3>4. styledWindow[h].transparent = clickThrough
      BY <1>w, <3>2, <3>3 DEF Styled, WindowState
    <3> HIDE DEF styledWindow
    <3>5. /\ placedWindow \in [Windows -> WindowState]
          /\ placedWindow[h].transparent = clickThrough
      BY <3>2, <3>3, <3>4, RaisedIsTended DEF Tended, Raised, WindowState
    <3>6. \/ window' = placedWindow
          \/ window' = ResetLayeredSurface(placedWindow, h, restored, raised)
      BY <3>1 DEF styledWindow
    <3> HIDE DEF placedWindow
    <3>7. ResetLayeredSurface(placedWindow, h, restored, raised)[h].transparent
            = clickThrough
      BY <3>2, <3>5 DEF ResetLayeredSurface, WindowState
    <3>8. QED
      BY <3>1, <3>5, <3>6, <3>7
  <2>3. QED
    BY <2>1, <2>2 DEF ReadyToShow
<1>3. CASE PreparePaint
  <2>1. pc' \in {"show", "idle"} /\ (pc' = "show" => UNCHANGED pass)
        /\ UNCHANGED clickThrough /\ pc = "paint"
    BY <1>3 DEF PreparePaint, PrepareReturns, Leave
  <2>2. ASSUME pc' = "show"
        PROVE  /\ window'[pass.overlay].fresh
               /\ window'[pass.overlay].transparent = clickThrough
    <3>1. /\ window' = Painted(window, pass.overlay, TRUE)
          /\ IsWindow(pass.overlay) /\ window[pass.overlay].layered
      BY <1>3, <2>2 DEF PreparePaint, May, Presented, PrepareReturns, Leave
    <3>2. pass.overlay \in Windows /\ window[pass.overlay] \in WindowState
      BY <1>w, <3>1 DEF IsWindow
    <3>3. window[pass.overlay].transparent = clickThrough
      BY <2>1, <3>1 DEF IInv, ReadyToShow
    <3>4. QED
      BY <1>w, <3>1, <3>2, <3>3 DEF Painted, IsWindow, WindowState
  <2>3. QED
    BY <2>1, <2>2 DEF ReadyToShow
<1>4. CASE Surroundings
  BY <1>4 DEF IInv, ReadyToShow, Surroundings, Disturbed, IsWindow
<1>5. CASE Aged \/ UNCHANGED vars
  BY <1>5 DEF IInv, ReadyToShow, Aged, vars, IsWindow
<1>6. CASE pc' \notin {"dress", "paint", "show"}
  BY <1>6 DEF ReadyToShow
<1>7. ASSUME Step, pc' \in {"dress", "paint", "show"}
      PROVE  PrepareHide \/ PrepareDress \/ PreparePaint
  BY <1>7 DEF Step, WaitForTaskbar, JudgeTaskbar, PostponeDestroy, DestroyFails,
              DestroyOverlay, RefreshTrayIcon, KeepTrayIcon, TaskbarUnavailable,
              EnsureOverlay, ObserveDesktop, ApplyStyle, HideSuppressed, HoldFrozen,
              GoOnVisible, PostponeShow, StartPrepare, PrepareShow, PrepareReturns,
              KeepShown, LeaveUnrepaired, RepairOverlay, MendInPlace, ShowAnew, Leave
<1>8. QED
  BY <1>1, <1>2, <1>3, <1>4, <1>5, <1>6, <1>7, KindsOfSteps DEF IInv, Starts

(* Who may change the committed generation and whether a destruction is    *)
(* pending.                                                                *)
LEMMA StepOnGenerations ==
    ASSUME TypeOK, Step
    PROVE  /\ identity' = identity /\ shell' = shell /\ pc' # "judge"
           /\ UNCHANGED clickThrough
           /\ \/ ~recreate' => ~recreate /\ ~(pc = "judge" /\ pass.changed)
              \/ DestroyOverlay
<1>1. CASE JudgeTaskbar
  <2>1. recreate' = (recreate \/ pass.changed) /\ pc' \in {"recreate", "tray"}
    BY <1>1 DEF JudgeTaskbar, RecreateRequired
  <2>2. ~recreate' => ~recreate /\ ~pass.changed
    BY <2>1
  <2>3. QED
    BY <1>1, <2>1, <2>2 DEF JudgeTaskbar, environment
<1>2. CASE DestroyOverlay
  BY <1>2 DEF DestroyOverlay, environment
<1>3. CASE ~JudgeTaskbar /\ ~DestroyOverlay
  <2>1. identity' = identity /\ shell' = shell /\ UNCHANGED clickThrough
    BY <1>3 DEF Step, WaitForTaskbar, PostponeDestroy, DestroyFails,
         RefreshTrayIcon, KeepTrayIcon, TaskbarUnavailable, EnsureOverlay,
         ObserveDesktop, ApplyStyle, HideSuppressed, HoldFrozen, GoOnVisible,
         PostponeShow, StartPrepare, PrepareHide, PrepareDress, PreparePaint,
         PrepareShow, KeepShown, LeaveUnrepaired, RepairOverlay, environment
  <2>2. pc # "judge" /\ pc' # "judge" /\ recreate' = recreate
    BY <1>3 DEF Step, WaitForTaskbar, PostponeDestroy, DestroyFails,
         RefreshTrayIcon, KeepTrayIcon, TaskbarUnavailable, EnsureOverlay,
         ObserveDesktop, ApplyStyle, HideSuppressed, HoldFrozen, GoOnVisible,
         PostponeShow, StartPrepare, PrepareHide, PrepareDress, PreparePaint,
         PrepareShow, PrepareReturns, KeepShown, LeaveUnrepaired, RepairOverlay,
         MendInPlace, ShowAnew, Leave
  <2>3. QED
    BY <2>1, <2>2
<1>4. QED
  BY <1>1, <1>2, <1>3

LEMMA OwnedKept == ASSUME IInv, [Next]_vars PROVE OwnedByTheCommittedTaskbar'
<1>w. window \in [Windows -> WindowState] /\ hwnd \in Windows \cup {None}
  BY DEF IInv, TypeOK
<1> USE DEF OwnedByTheCommittedTaskbar, IsWindow
<1>1. CASE Step
  <2>1. /\ identity' = identity /\ pc' # "judge"
        /\ \/ ~recreate' => ~recreate /\ ~(pc = "judge" /\ pass.changed)
           \/ DestroyOverlay
    BY <1>1, StepOnGenerations DEF IInv
  <2>2. CASE DestroyOverlay
    BY <2>2, ConstantsAssumption DEF DestroyOverlay
  <2>3. CASE ~DestroyOverlay
    <3>1. CASE Tends
      BY <2>1, <2>3, <3>1, ConstantsAssumption DEF IInv, Tends, Tended
    <3>2. CASE CreatesOne
      <4>1. PICK h \in Windows, styled \in BOOLEAN :
              /\ window' = [window EXCEPT ![h] = Created(h, styled)]
              /\ hwnd' = h /\ owner' = identity.committed.hwnd
        BY <3>2 DEF CreatesOne
      <4>2. Created(h, styled).owner = identity.committed
        BY DEF Created, NoWindow
      <4>3. window'[h] = Created(h, styled)
        BY <1>w, <4>1
      <4>4. QED
        BY <2>1, <4>1, <4>2, <4>3
    <3>3. CASE ShowsOne
      <4>1. /\ window' = Shown(window, pass.overlay) /\ pass.overlay \in Windows
            /\ UNCHANGED <<hwnd, owner>>
        BY <3>3 DEF ShowsOne
      <4>2. \A h \in Windows : /\ window'[h].exists = window[h].exists
                               /\ window'[h].owner = window[h].owner
        BY <1>w, <4>1 DEF Shown, WindowState
      <4>3. QED
        BY <2>1, <2>3, <4>1, <4>2 DEF IInv
    <3>4. QED
      BY <1>1, <3>1, <3>2, <3>3, StepOnWindows DEF IInv
  <2>4. QED
    BY <2>2, <2>3
<1>2. CASE \E trigger \in SUBSET Flags : Starts(trigger)
  BY <1>2 DEF IInv, Starts
<1>3. CASE Surroundings
  BY <1>3, ConstantsAssumption DEF IInv, Surroundings, Disturbed
<1>4. CASE Aged
  BY <1>4 DEF IInv, TypeOK, Aged
<1>5. CASE UNCHANGED vars
  BY <1>5 DEF IInv, vars
<1>6. QED
  BY <1>1, <1>2, <1>3, <1>4, <1>5, KindsOfSteps DEF IInv

(* No early return forgets a style that is owed: only applying it does.    *)
StylesTheOverlay ==
    /\ IsWindow(pass.overlay)
    /\ window' = Styled(window, pass.overlay, TRUE)

LEMMA StyleStaysOwed ==
    ASSUME IInv, Step, "ApplyStyle" \in deferred \cup pass.flags
    PROVE  "ApplyStyle" \in deferred' \cup pass'.flags \/ StylesTheOverlay
<1>p. pass \in PassState /\ pass.flags \subseteq Flags
  BY DEF IInv, TypeOK, PassState
<1>1. CASE "ApplyStyle" \in deferred
  <2>1. deferred \subseteq deferred'
    BY DEF Step, WaitForTaskbar, JudgeTaskbar, PostponeDestroy, DestroyFails,
           DestroyOverlay, RefreshTrayIcon, KeepTrayIcon, TaskbarUnavailable,
           EnsureOverlay, ObserveDesktop, ApplyStyle, HideSuppressed, HoldFrozen,
           GoOnVisible, PostponeShow, StartPrepare, PrepareHide, PrepareDress,
           PreparePaint, PrepareShow, PrepareReturns, KeepShown, LeaveUnrepaired,
           RepairOverlay, MendInPlace, ShowAnew, Leave
  <2>2. QED
    BY <1>1, <2>1
<1>2. CASE "ApplyStyle" \in pass.flags
  <2>1. pc \notin {"commit"} \cup Preparing
    BY <1>2 DEF IInv, Control, StyleIsApplied
  <2>2. CASE WaitForTaskbar \/ PostponeDestroy \/ DestroyFails \/ TaskbarUnavailable
    BY <1>2, <2>2 DEF WaitForTaskbar, PostponeDestroy, DestroyFails,
                      TaskbarUnavailable, Leave, DeferredActions
  <2>3. CASE JudgeTaskbar \/ DestroyOverlay \/ RefreshTrayIcon \/ KeepTrayIcon
               \/ ObserveDesktop
    BY <1>p, <1>2, <2>3 DEF JudgeTaskbar, DestroyOverlay, RefreshTrayIcon,
                            KeepTrayIcon, ObserveDesktop, PassState
  <2>4. CASE EnsureOverlay
    BY <1>p, <1>2, <2>4 DEF EnsureOverlay, Leave, PassState
  <2>5. CASE ApplyStyle
    BY <1>p, <1>2, <2>5 DEF ApplyStyle, StylesTheOverlay, Leave, May
  <2>6. QED
    BY <2>1, <2>2, <2>3, <2>4, <2>5
       DEF Step, Preparing, HideSuppressed, HoldFrozen, GoOnVisible, PostponeShow,
           StartPrepare, PrepareHide, PrepareDress, PreparePaint, PrepareShow,
           KeepShown, LeaveUnrepaired, RepairOverlay
<1>3. QED
  BY <1>1, <1>2

LEMMA ClickThroughKept ==
    ASSUME IInv, [Next]_vars PROVE ClickThroughIsAppliedOrOwed'
<1>w. window \in [Windows -> WindowState] /\ clickThrough \in BOOLEAN
  BY DEF IInv, TypeOK
<1>k. SingleOverlay' /\ VisibleExists'
  BY WindowsKept
<1>1. CASE Step
  <2>1. UNCHANGED clickThrough
    BY <1>1, StepOnGenerations DEF IInv
  <2> SUFFICES ASSUME NEW h \in Windows, window'[h].visible,
                      window'[h].transparent # clickThrough
               PROVE  "ApplyStyle" \in deferred' \cup pass'.flags
    BY <2>1 DEF ClickThroughIsAppliedOrOwed
  <2>2. ~StylesTheOverlay
    <3>1. SUFFICES ASSUME StylesTheOverlay PROVE FALSE
      OBVIOUS
    <3> DEFINE o == pass.overlay
    <3>2. o \in Windows /\ window[o].exists /\ window' = Styled(window, o, TRUE)
      BY <3>1 DEF StylesTheOverlay, IsWindow
    <3>3. window'[o].exists /\ window'[o].transparent = clickThrough
      BY <1>w, <3>2 DEF Styled, WindowState
    <3>4. h = hwnd' /\ o = hwnd'
      BY <1>k, <3>2, <3>3 DEF SingleOverlay, VisibleExists
    <3>5. QED
      BY <3>3, <3>4
  <2>3. window[h].visible /\ window[h].transparent # clickThrough
    <3>1. CASE Tends
      BY <3>1 DEF Tends, Tended
    <3>2. CASE CreatesOne
      <4>1. PICK g \in Windows, styled \in BOOLEAN :
              window' = [window EXCEPT ![g] = Created(g, styled)]
        BY <3>2 DEF CreatesOne
      <4>2. ~Created(g, styled).visible
        BY DEF Created, NoWindow
      <4>3. h # g
        BY <1>w, <4>1, <4>2
      <4>4. QED
        BY <1>w, <4>1, <4>3
    <3>3. CASE ShowsOne
      <4>1. /\ pass.overlay \in Windows
            /\ window[pass.overlay].transparent = clickThrough
            /\ window' = Shown(window, pass.overlay)
        BY <3>3 DEF IInv, ShowsOne, ReadyToShow, IsWindow
      <4>2. \A g \in Windows : window'[g].transparent = window[g].transparent
        BY <1>w, <4>1 DEF Shown, WindowState
      <4>3. h # pass.overlay
        BY <4>1, <4>2
      <4>4. QED
        BY <1>w, <4>1, <4>3 DEF Shown
    <3>4. QED
      BY <1>1, <3>1, <3>2, <3>3, StepOnWindows DEF IInv
  <2>4. QED
    BY <1>1, <2>2, <2>3, StyleStaysOwed DEF IInv, ClickThroughIsAppliedOrOwed
<1>2. CASE \E trigger \in SUBSET Flags : Starts(trigger)
  <2>1. PICK trigger \in SUBSET Flags : Starts(trigger)
    BY <1>2
  <2>2. pass.flags = {}
    BY <2>1 DEF IInv, Control, NothingIsLeftInFlags, Starts
  <2>3. QED
    BY <2>1, <2>2 DEF IInv, ClickThroughIsAppliedOrOwed, Starts
<1>3. CASE Surroundings
  <2>1. \A h \in Windows : window'[h].visible =>
          window[h].visible /\ window'[h].transparent = window[h].transparent
    BY <1>3, <1>k DEF Surroundings, Disturbed, VisibleExists
  <2>2. QED
    BY <1>3, <2>1 DEF IInv, ClickThroughIsAppliedOrOwed, Surroundings
<1>4. CASE Aged \/ UNCHANGED vars
  BY <1>4 DEF IInv, ClickThroughIsAppliedOrOwed, Aged, vars
<1>5. QED
  BY <1>1, <1>2, <1>3, <1>4, KindsOfSteps DEF IInv

LEMMA HiddenKept == ASSUME IInv, [Next]_vars PROVE HiddenUntilObserved'
<1> USE DEF HiddenUntilObserved
<1>w. window \in [Windows -> WindowState]
  BY DEF IInv, TypeOK
<1>1. CASE WaitForTaskbar \/ JudgeTaskbar \/ PostponeDestroy \/ DestroyFails
             \/ DestroyOverlay \/ RefreshTrayIcon \/ KeepTrayIcon
             \/ TaskbarUnavailable \/ EnsureOverlay
  <2>1. /\ pc \in {"wait", "judge", "recreate", "tray", "ensure"}
        /\ UNCHANGED <<policy, hideFailed>>
    BY <1>1 DEF WaitForTaskbar, JudgeTaskbar, PostponeDestroy, DestroyFails,
                DestroyOverlay, RefreshTrayIcon, KeepTrayIcon, TaskbarUnavailable,
                EnsureOverlay, suppression
  <2>2. \A h \in Windows : window'[h].visible => window[h].visible
    <3>1. CASE Tends
      BY <3>1 DEF Tends, Tended
    <3>2. CASE CreatesOne
      <4>1. PICK g \in Windows, styled \in BOOLEAN :
              window' = [window EXCEPT ![g] = Created(g, styled)]
        BY <3>2 DEF CreatesOne
      <4>2. ~Created(g, styled).visible
        BY DEF Created, NoWindow
      <4>3. QED
        BY <1>w, <4>1, <4>2
    <3>3. QED
      BY <1>1, <2>1, <3>1, <3>2, StepOnWindows DEF IInv, Step, ShowsOne
  <2>3. QED
    BY <2>1, <2>2 DEF IInv
<1>2. CASE ObserveDesktop
  BY <1>2 DEF ObserveDesktop
<1>3. CASE ApplyStyle
  <2>1. policy' = policy
    BY <1>3 DEF ApplyStyle, suppression
  <2>2. pc' = "commit" \/ (policy.committed # "None" => hideFailed')
    BY <1>3 DEF ApplyStyle, Intent, ComputeOverlayIntent
  <2>3. QED
    BY <2>1, <2>2
<1>4. CASE HideSuppressed
  <2>1. PICK ok \in BOOLEAN :
          /\ window' = CommitOverlayHidden(window, pass.overlay, ok)
          /\ hideFailed' = ~ok
    BY <1>4 DEF HideSuppressed, May
  <2>2. ASSUME ok = TRUE, NEW h \in Windows, window'[h].visible PROVE FALSE
    <3>1. window' = CommitOverlayHidden(window, pass.overlay, TRUE)
      BY <2>1, <2>2
    <3>2. window[h].visible /\ h # pass.overlay
      BY <1>w, <2>2, <3>1 DEF CommitOverlayHidden, Hidden, IInv, VisibleExists, WindowState
    <3>3. h = hwnd /\ hwnd \in {None, pass.overlay}
      BY <1>4, <3>2
         DEF IInv, SingleOverlay, VisibleExists, OverlayIsTheHandle, HideSuppressed, Served
    <3>4. QED
      BY <2>2, <3>2, <3>3, ConstantsAssumption
  <2>3. QED
    BY <2>1, <2>2
<1>5. CASE HoldFrozen \/ GoOnVisible
  BY <1>5 DEF HoldFrozen, GoOnVisible, Intent, ComputeOverlayIntent, suppression
<1>6. CASE pc \in Preparing /\ Step
  <2>1. policy.committed = "None"
    BY <1>6 DEF IInv, Control, ShowIsIntended
  <2>2. policy' = policy
    BY <1>6 DEF Step, Preparing, WaitForTaskbar, JudgeTaskbar, PostponeDestroy,
                DestroyFails, DestroyOverlay, RefreshTrayIcon, KeepTrayIcon,
                TaskbarUnavailable, EnsureOverlay, ObserveDesktop, ApplyStyle,
                HideSuppressed, HoldFrozen, GoOnVisible, PostponeShow, StartPrepare,
                PrepareHide, PrepareDress, PreparePaint, PrepareShow, KeepShown,
                LeaveUnrepaired, RepairOverlay, suppression
  <2>3. QED
    BY <2>1, <2>2
<1>7. CASE \E trigger \in SUBSET Flags : Starts(trigger)
  BY <1>7 DEF IInv, Starts, suppression
<1>8. CASE Surroundings
  BY <1>8 DEF IInv, Surroundings, Disturbed, suppression
<1>9. CASE Aged
  <2>1. policy'.committed = policy.committed
    BY <1>9 DEF Aged, IInv, TypeOK, SuppressionPolicyState
  <2>2. QED
    BY <1>9, <2>1 DEF IInv, Aged
<1>10. CASE UNCHANGED vars
  BY <1>10 DEF IInv, vars
<1>11. ASSUME Step
       PROVE  \/ WaitForTaskbar \/ JudgeTaskbar \/ PostponeDestroy \/ DestroyFails
              \/ DestroyOverlay \/ RefreshTrayIcon \/ KeepTrayIcon
              \/ TaskbarUnavailable \/ EnsureOverlay \/ ObserveDesktop \/ ApplyStyle
              \/ HideSuppressed \/ HoldFrozen \/ GoOnVisible \/ pc \in Preparing
  BY <1>11 DEF Step, Preparing, PostponeShow, StartPrepare, PrepareHide, PrepareDress,
               PreparePaint, PrepareShow, KeepShown, LeaveUnrepaired, RepairOverlay
<1>12. QED
  BY <1>1, <1>2, <1>3, <1>4, <1>5, <1>6, <1>7, <1>8, <1>9, <1>10, <1>11, KindsOfSteps
     DEF IInv

LEMMA TrayIconKept == ASSUME IInv, [Next]_vars PROVE TrayIconIsAccountedFor'
<1> USE DEF TrayIconIsAccountedFor
<1>p. pass \in PassState /\ pass.flags \subseteq Flags
  BY DEF IInv, TypeOK, PassState
<1>1. CASE WaitForTaskbar \/ PostponeDestroy \/ DestroyFails
  BY <1>1 DEF IInv, WaitForTaskbar, PostponeDestroy, DestroyFails, Leave,
              DeferredActions, environment
<1>2. CASE JudgeTaskbar
  <2>1. pass'.flags = pass.flags
    BY <1>p, <1>2 DEF JudgeTaskbar, PassState
  <2>2. recreate \/ pass.changed => recreate'
    BY <1>2 DEF JudgeTaskbar, RecreateRequired
  <2>3. pc' \in {"recreate", "tray"}
    BY <1>2 DEF JudgeTaskbar
  <2>4. pc = "judge" /\ UNCHANGED <<shell, identity, tray, addFailed, deferred>>
    BY <1>2 DEF JudgeTaskbar, environment
  <2>5. QED
    BY <2>1, <2>2, <2>3, <2>4 DEF IInv
<1>3. CASE DestroyOverlay
  <2>1. "RefreshTrayIcon" \in pass'.flags /\ pc' = "tray"
    BY <1>p, <1>3 DEF DestroyOverlay, FlagsOfRecreation, PassState
  <2>2. QED
    BY <2>1
<1>4. CASE RefreshTrayIcon
  <2> DEFINE attempted == /\ identity.committed.hwnd # 0
                          /\ identity.committed.hwnd = shell.hwnd
  <2>1. attempted => tray' \/ addFailed'
    BY <1>4 DEF RefreshTrayIcon
  <2>2. ~attempted => shell = NoIdentity \/ shell # identity.committed
    BY TaskbarsAreKnown DEF IInv, TypeOK
  <2>3. UNCHANGED <<shell, identity>>
    BY <1>4 DEF RefreshTrayIcon, environment
  <2>4. QED
    BY <2>1, <2>2, <2>3
<1>5. CASE KeepTrayIcon
  BY <1>5 DEF IInv, KeepTrayIcon, environment
<1>6. CASE /\ Step
           /\ pc \notin {"wait", "judge", "recreate", "tray"}
  <2>1. UNCHANGED <<shell, identity, tray, recreate, addFailed>>
    BY <1>6 DEF Step, WaitForTaskbar, JudgeTaskbar, PostponeDestroy, DestroyFails,
         DestroyOverlay, RefreshTrayIcon, KeepTrayIcon, TaskbarUnavailable,
         EnsureOverlay, ObserveDesktop, ApplyStyle, HideSuppressed, HoldFrozen,
         GoOnVisible, PostponeShow, StartPrepare, PrepareHide, PrepareDress,
         PreparePaint, PrepareShow, KeepShown, LeaveUnrepaired, RepairOverlay,
         environment
  <2>2. deferred \subseteq deferred'
    BY <1>6 DEF Step, WaitForTaskbar, JudgeTaskbar, PostponeDestroy, DestroyFails,
         DestroyOverlay, RefreshTrayIcon, KeepTrayIcon, TaskbarUnavailable,
         EnsureOverlay, ObserveDesktop, ApplyStyle, HideSuppressed, HoldFrozen,
         GoOnVisible, PostponeShow, StartPrepare, PrepareHide, PrepareDress,
         PreparePaint, PrepareShow, PrepareReturns, KeepShown, LeaveUnrepaired,
         RepairOverlay, MendInPlace, ShowAnew, Leave
  <2>3. QED
    BY <1>6, <2>1, <2>2 DEF IInv
<1>7. CASE \E trigger \in SUBSET Flags : Starts(trigger)
  <2>1. PICK trigger \in SUBSET Flags : Starts(trigger)
    BY <1>7
  <2>2. pass.flags = {}
    BY <2>1 DEF IInv, Control, NothingIsLeftInFlags, Starts
  <2>3. UNCHANGED <<shell, tray, recreate>>
    BY <2>1 DEF Starts, environment
  <2>4. CASE addFailed
    <3>1. addFailed' \/ "RefreshTrayIcon" \in pass'.flags
      BY <2>1, <2>4 DEF Starts
    <3>2. QED
      BY <2>1, <3>1 DEF Starts
  <2>5. CASE "RefreshTrayIcon" \in deferred
    BY <2>1, <2>5 DEF Starts
  <2>6. CASE tray \/ shell = NoIdentity \/ recreate
    BY <2>3, <2>6
  <2>7. CASE shell # identity.committed
    <3>1. \/ shell' # identity'.committed
          \/ pc' = "judge" /\ pass'.changed
      BY <2>1, <2>3, <2>7 DEF Starts
    <3>2. QED
      BY <3>1
  <2>8. pc = "idle"
    BY <2>1 DEF Starts
  <2>9. QED
    BY <2>4, <2>5, <2>6, <2>7, <2>8 DEF IInv
<1>8. CASE Surroundings
  BY <1>8 DEF IInv, Surroundings
<1>9. CASE Aged
  <2>1. identity'.committed = identity.committed
    BY <1>9 DEF Aged, IInv, TypeOK
  <2>2. QED
    BY <1>9, <2>1 DEF IInv, Aged, environment
<1>10. CASE UNCHANGED vars
  BY <1>10 DEF IInv, vars
<1>11. ASSUME Step
       PROVE  \/ WaitForTaskbar \/ PostponeDestroy \/ DestroyFails \/ JudgeTaskbar
              \/ DestroyOverlay \/ RefreshTrayIcon \/ KeepTrayIcon
              \/ pc \notin {"wait", "judge", "recreate", "tray"}
  BY <1>11 DEF Step, TaskbarUnavailable, EnsureOverlay, ObserveDesktop, ApplyStyle,
               HideSuppressed, HoldFrozen, GoOnVisible, PostponeShow, StartPrepare,
               PrepareHide, PrepareDress, PreparePaint, PrepareShow, KeepShown,
               LeaveUnrepaired, RepairOverlay
<1>12. QED
  BY <1>1, <1>2, <1>3, <1>4, <1>5, <1>6, <1>7, <1>8, <1>9, <1>10, <1>11, KindsOfSteps
     DEF IInv

LEMMA IInvKept == IInv /\ [Next]_vars => IInv'
  BY TypeKept, ControlKept, WindowsKept, HandleKept, ReadyKept, OwnedKept,
     ClickThroughKept, HiddenKept, TrayIconKept
     DEF IInv

LEMMA Inductive == Spec => []IInv
  BY InitIInv, IInvKept, PTL DEF Spec

-----------------------------------------------------------------------------
(* The promises.                                                           *)

(* No failed destruction, failed creation or window destroyed from outside *)
(* ever leaves a window behind that the program has lost track of.         *)
THEOREM SingleOverlayHeld == Spec => []SingleOverlay
<1>1. IInv => SingleOverlay
  BY DEF IInv
<1>2. QED
  BY Inductive, <1>1, PTL

(* An overlay belongs to the committed Explorer, handle and process, or    *)
(* its destruction is pending.                                             *)
THEOREM OwnershipHeld == Spec => []OwnedByTheCommittedTaskbar
<1>1. IInv => OwnedByTheCommittedTaskbar
  BY DEF IInv
<1>2. QED
  BY Inductive, <1>1, PTL

(* PrepareOverlayForShow and what hides or resets a surface see to it that *)
(* nothing visible is unpainted.                                           *)
THEOREM PresentationHeld == Spec => []PresentedBeforeShown
<1>1. IInv => PresentedBeforeShown
  BY DEF IInv
<1>2. QED
  BY Inductive, <1>1, PTL

(* A suppressed overlay is hidden between passes, unless the latest pass    *)
(* that was to hide it was refused the hide or failed at the style before.  *)
THEOREM SuppressionHeld == Spec => []SuppressedIsHidden
<1>1. IInv => SuppressedIsHidden
  BY DEF IInv, HiddenUntilObserved, SuppressedIsHidden
<1>2. QED
  BY Inductive, <1>1, PTL

(* No early return of a pass forgets a click-through mode that was chosen: *)
(* ReconcileOverlayStateOnce defers kReconcileApplyStyle wherever it is    *)
(* not carried out.                                                        *)
THEOREM ClickThroughHeld == Spec => []ClickThroughIsAppliedOrOwed
<1>1. IInv => ClickThroughIsAppliedOrOwed
  BY DEF IInv
<1>2. QED
  BY Inductive, <1>1, PTL

(* Nor does one forget the notification icon of a new Explorer, whether    *)
(* the pass or the TaskbarCreated message asked for it.                    *)
THEOREM TrayIconHeld == Spec => []TrayIconIsThereOrOwed
<1>1. IInv => TrayIconIsThereOrOwed
  <2>1. SUFFICES ASSUME IInv, pc = "idle"
                 PROVE  \/ tray \/ addFailed
                        \/ shell = NoIdentity \/ shell # identity.committed \/ recreate
                        \/ "RefreshTrayIcon" \in deferred
    BY DEF TrayIconIsThereOrOwed
  <2>2. QED
    BY <2>1 DEF IInv, TrayIconIsAccountedFor
<1>2. QED
  BY Inductive, <1>1, PTL

(* Only a step of a show makes a window visible, and it comes to that only *)
(* under a decision to show.                                               *)
LEMMA ShowsAsIntended ==
    ASSUME IInv, [Next]_vars, NEW h \in Windows,
           ~window[h].visible, window'[h].visible
    PROVE  /\ policy.committed = "None" /\ ~frozen /\ resume = "none"
           /\ h = hwnd /\ window[h].owner = identity.committed
<1>w. window \in [Windows -> WindowState]
  BY DEF IInv, TypeOK
<1>1. Step
  BY KindsOfSteps DEF IInv, Starts, Surroundings, Disturbed, Aged, vars
<1>2. ShowsOne
  <2>1. ~Tends
    BY DEF Tends, Tended
  <2>2. ~CreatesOne
    <3>1. SUFFICES ASSUME CreatesOne PROVE FALSE
      OBVIOUS
    <3>2. PICK g \in Windows, styled \in BOOLEAN :
            window' = [window EXCEPT ![g] = Created(g, styled)]
      BY <3>1 DEF CreatesOne
    <3>3. ~Created(g, styled).visible
      BY DEF Created, NoWindow
    <3>4. QED
      BY <1>w, <3>2, <3>3
  <2>3. QED
    BY <1>1, <2>1, <2>2, StepOnWindows DEF IInv
<1>3. h = pass.overlay /\ window[h].exists /\ pc = "show"
  BY <1>w, <1>2 DEF ShowsOne, Shown, IsWindow
<1>4. h = hwnd /\ IsWindow(hwnd)
  BY <1>3 DEF IInv, SingleOverlay, IsWindow
<1>5. ~recreate /\ pc \in Preparing
  BY <1>3 DEF IInv, Control, RecreationIsDecided, Served, Preparing
<1>6. window[h].owner = identity.committed
  BY <1>3, <1>4, <1>5 DEF IInv, OwnedByTheCommittedTaskbar
<1>7. QED
  BY <1>4, <1>5, <1>6 DEF IInv, Control, ShowIsIntended

(* A window becomes visible only as the decision in force allows, and only *)
(* as the overlay of the committed Explorer.                               *)
THEOREM ShownAsIntended == Spec => ShownOnlyWhenIntended
<1>1. IInv /\ [Next]_vars =>
        [\A h \in Windows :
           ~window[h].visible /\ window'[h].visible
              => /\ policy.committed = "None" /\ ~frozen /\ resume = "none"
                 /\ h = hwnd /\ window[h].owner = identity.committed]_vars
  BY ShowsAsIntended
<1>2. QED
  BY Inductive, <1>1, PTL DEF Spec, ShownOnlyWhenIntended

(* Other calls than those that hide or destroy keep what is visible.       *)
KeepsVisible(w, v) ==
    /\ v \in [Windows -> WindowState]
    /\ \A h \in Windows : w[h].visible => v[h].visible

LEMMA KeepsVisibleTwice ==
    ASSUME NEW w, NEW v, NEW u, KeepsVisible(w, v), KeepsVisible(v, u)
    PROVE  KeepsVisible(w, u)
  BY DEF KeepsVisible

LEMMA RaisedKeepsVisible ==
    ASSUME NEW w \in [Windows -> WindowState], NEW g, NEW ok
    PROVE  KeepsVisible(w, Raised(w, g, ok))
  BY DEF KeepsVisible, Raised, WindowState

LEMMA StyledKeepsVisible ==
    ASSUME NEW w \in [Windows -> WindowState], NEW g, NEW ok,
           clickThrough \in BOOLEAN
    PROVE  KeepsVisible(w, Styled(w, g, ok))
<1>1. Styled(w, g, ok) \in [Windows -> WindowState]
  BY StyledIsTended DEF Tended
<1>2. QED
  BY <1>1 DEF KeepsVisible, Styled, WindowState

LEMMA PaintedKeepsVisible ==
    ASSUME NEW w \in [Windows -> WindowState], NEW g, NEW ok
    PROVE  KeepsVisible(w, Painted(w, g, ok))
  BY DEF KeepsVisible, Painted, WindowState

LEMMA ResetKeepsVisible ==
    ASSUME NEW w \in [Windows -> WindowState], NEW g, NEW restored \in BOOLEAN,
           NEW ok \in BOOLEAN
    PROVE  KeepsVisible(w, ResetLayeredSurface(w, g, restored, ok))
<1>1. ResetLayeredSurface(w, g, restored, ok) \in [Windows -> WindowState]
  BY ResetIsTyped
<1>2. \A h \in Windows :
        w[h].visible => ResetLayeredSurface(w, g, restored, ok)[h].visible
  BY DEF ResetLayeredSurface, WindowState
<1>3. QED
  BY <1>1, <1>2 DEF KeepsVisible

LEMMA HidesForAReason ==
    ASSUME IInv, Program, NEW h \in Windows,
           window[h].visible, ~window'[h].visible
    PROVE  \/ policy.committed # "None"
           \/ ~CommittedTaskbarReady \/ recreate
           \/ pc = "hide" /\ pass.reset
<1>w. window \in [Windows -> WindowState]
  BY DEF IInv, TypeOK
<1> SUFFICES ASSUME policy.committed = "None", CommittedTaskbarReady, ~recreate,
                    ~(pc = "hide" /\ pass.reset)
             PROVE  FALSE
  OBVIOUS
<1>c. clickThrough \in BOOLEAN
  BY DEF IInv, TypeOK
<1>k. ASSUME NEW v, window' = v, KeepsVisible(window, v) PROVE FALSE
  BY <1>k DEF KeepsVisible
<1>u. KeepsVisible(window, window)
  BY <1>w DEF KeepsVisible
<1>1. CASE WaitForTaskbar
  BY <1>1 DEF WaitForTaskbar, StaysWhileWaiting
<1>2. CASE DestroyFails \/ DestroyOverlay
  BY <1>2 DEF DestroyFails, DestroyOverlay, IInv, Control, RecreationIsDecided
<1>3. CASE TaskbarUnavailable
  BY <1>3 DEF TaskbarUnavailable, IInv, Control, UnreadyStaysUnready
<1>4. CASE EnsureOverlay \/ RepairOverlay
  <2>1. ASSUME CreatesOne PROVE FALSE
    BY <2>1 DEF CreatesOne, IInv, VisibleExists, SingleOverlay, IsWindow
  <2>2. ASSUME NEW r \in EnsureOutcomes, window' = r.window PROVE FALSE
    BY <2>2, EnsureCases
       DEF LeavesAll, GivesUp, Creates, IInv, VisibleExists, SingleOverlay, IsWindow
  <2>3. ASSUME NEW plan, MendInPlace(plan) PROVE FALSE
    <3>1. PICK styled, placed, ok :
            LET dressed == IF plan.style THEN Styled(window, hwnd, styled) ELSE window
                raised == IF plan.reposition THEN Raised(dressed, hwnd, placed)
                                             ELSE dressed
            IN  window' \in {raised, Painted(raised, hwnd, ok)}
      BY <2>3 DEF MendInPlace
    <3> DEFINE dressed == IF plan.style THEN Styled(window, hwnd, styled) ELSE window
               raised == IF plan.reposition THEN Raised(dressed, hwnd, placed)
                                            ELSE dressed
    <3>2. KeepsVisible(window, dressed)
      BY <1>w, <1>c, <1>u, StyledKeepsVisible
    <3>3. window' \in {raised, Painted(raised, hwnd, ok)}
      BY <3>1
    <3>4. dressed \in [Windows -> WindowState]
      BY <3>2 DEF KeepsVisible
    <3> HIDE DEF dressed
    <3>5. KeepsVisible(window, raised)
      BY <3>2, <3>4, RaisedKeepsVisible, KeepsVisibleTwice
    <3>6. raised \in [Windows -> WindowState]
      BY <3>5 DEF KeepsVisible
    <3> HIDE DEF raised
    <3>7. KeepsVisible(window, Painted(raised, hwnd, ok))
      BY <3>5, <3>6, PaintedKeepsVisible, KeepsVisibleTwice
    <3>8. QED
      BY <1>k, <3>3, <3>5, <3>7
  <2>4. ASSUME NEW plan, ShowAnew(plan) PROVE FALSE
    BY <2>2, <2>4 DEF ShowAnew
  <2>5. QED
    BY <1>4, <2>2, <2>3, <2>4 DEF EnsureOverlay, RepairOverlay
<1>5. CASE ObserveDesktop \/ ApplyStyle \/ HoldFrozen \/ GoOnVisible
  <2>1. CASE ObserveDesktop
    <3>1. PICK ok : window' \in {Raised(window, hwnd, ok), window}
      BY <2>1 DEF ObserveDesktop
    <3>2. QED
      BY <1>w, <1>u, <1>k, <3>1, RaisedKeepsVisible
  <2>2. CASE ApplyStyle
    <3>1. PICK ok : window' = Styled(window, pass.overlay, ok)
      BY <2>2 DEF ApplyStyle
    <3>2. QED
      BY <1>w, <1>c, <1>k, <3>1, StyledKeepsVisible
  <2>3. CASE HoldFrozen \/ GoOnVisible
    <3>1. \/ UNCHANGED window
          \/ \E ok : window' = Promoted(window, pass.overlay, ok)
      BY <2>3 DEF HoldFrozen, GoOnVisible
    <3>2. QED
      BY <1>w, <1>u, <1>k, <3>1, RaisedKeepsVisible DEF Promoted
  <2>4. QED
    BY <1>5, <2>1, <2>2, <2>3
<1>6. CASE HideSuppressed
  BY <1>6 DEF HideSuppressed, Intent, ComputeOverlayIntent
<1>7. CASE PrepareHide
  BY <1>7 DEF PrepareHide
<1>8. CASE PrepareDress
  <2>1. \/ UNCHANGED window
        \/ \E placed, restored, raised \in BOOLEAN :
             LET placedWindow ==
                   Raised(Styled(window, pass.overlay, TRUE), hwnd, placed)
             IN  window' \in {placedWindow,
                              ResetLayeredSurface(placedWindow, pass.overlay,
                                                  restored, raised)}
    BY <1>8 DEF PrepareDress, May
  <2>2. PICK placed, restored, raised \in BOOLEAN :
          LET placedWindow == Raised(Styled(window, pass.overlay, TRUE), hwnd, placed)
          IN  window' \in {placedWindow,
                           ResetLayeredSurface(placedWindow, pass.overlay,
                                               restored, raised)}
    BY <1>k, <1>u, <2>1
  <2> DEFINE styledWindow == Styled(window, pass.overlay, TRUE)
             placedWindow == Raised(styledWindow, hwnd, placed)
  <2>3. KeepsVisible(window, styledWindow)
    BY <1>w, <1>c, StyledKeepsVisible
  <2>4. styledWindow \in [Windows -> WindowState]
    BY <2>3 DEF KeepsVisible
  <2>5. window' \in {placedWindow,
                     ResetLayeredSurface(placedWindow, pass.overlay,
                                         restored, raised)}
    BY <2>2
  <2> HIDE DEF styledWindow
  <2>6. KeepsVisible(window, placedWindow)
    BY <2>3, <2>4, RaisedKeepsVisible, KeepsVisibleTwice
  <2>7. placedWindow \in [Windows -> WindowState]
    BY <2>6 DEF KeepsVisible
  <2> HIDE DEF placedWindow
  <2>8. KeepsVisible(window,
                     ResetLayeredSurface(placedWindow, pass.overlay,
                                         restored, raised))
    BY <2>6, <2>7, ResetKeepsVisible, KeepsVisibleTwice
  <2>9. QED
    BY <1>k, <2>5, <2>6, <2>8
<1>9. CASE PreparePaint
  <2>1. PICK ok : window' = Painted(window, pass.overlay, ok)
    BY <1>9 DEF PreparePaint
  <2>2. QED
    BY <1>w, <1>k, <2>1, PaintedKeepsVisible
<1>10. CASE PrepareShow
  BY <1>w, <1>10 DEF PrepareShow, Shown, WindowState
<1>11. CASE KeepShown
  <2> DEFINE promotes == ShouldPromoteOverlayForTaskViewTransition(
                           Intent, IsWindowVisible(pass.overlay),
                           "PromoteForTaskView" \in pass.flags)
  <2>1. PICK shows \in May("show"), placed \in May("position"),
             ok \in May("present") :
          LET promoted == IF promotes THEN Raised(window, pass.overlay, shows)
                                      ELSE window
              positioned == IF "Reposition" \in pass.flags
                              THEN Raised(promoted, hwnd, placed) ELSE promoted
          IN  window' \in {positioned, Painted(positioned, pass.overlay, ok)}
    BY <1>11 DEF KeepShown
  <2> HIDE DEF promotes
  <2> DEFINE promoted == IF promotes THEN Raised(window, pass.overlay, shows)
                                     ELSE window
             positioned == IF "Reposition" \in pass.flags
                             THEN Raised(promoted, hwnd, placed) ELSE promoted
  <2>2. KeepsVisible(window, promoted)
    BY <1>w, <1>u, RaisedKeepsVisible
  <2>3. window' \in {positioned, Painted(positioned, pass.overlay, ok)}
    BY <2>1
  <2>4. promoted \in [Windows -> WindowState]
    BY <2>2 DEF KeepsVisible
  <2> HIDE DEF promoted
  <2>5. KeepsVisible(window, positioned)
    BY <2>2, <2>4, RaisedKeepsVisible, KeepsVisibleTwice
  <2>6. positioned \in [Windows -> WindowState]
    BY <2>5 DEF KeepsVisible
  <2> HIDE DEF positioned
  <2>7. KeepsVisible(window, Painted(positioned, pass.overlay, ok))
    BY <2>5, <2>6, PaintedKeepsVisible, KeepsVisibleTwice
  <2>8. QED
    BY <1>k, <2>3, <2>5, <2>7
<1>12. CASE Start \/ JudgeTaskbar \/ PostponeDestroy \/ RefreshTrayIcon
             \/ KeepTrayIcon \/ PostponeShow \/ StartPrepare \/ LeaveUnrepaired
  BY <1>12 DEF Start, Begin, ToggleClickThrough, StartPass, JudgeTaskbar,
               PostponeDestroy, RefreshTrayIcon, KeepTrayIcon, PostponeShow,
               StartPrepare, LeaveUnrepaired
<1>13. QED
  BY <1>1, <1>2, <1>3, <1>4, <1>5, <1>6, <1>7, <1>8, <1>9, <1>10, <1>11, <1>12
     DEF Program, Step

(* The program hides a visible overlay only for a reason: a suppression,   *)
(* the end of its Explorer, a pending destruction, or a surface reset.     *)
THEOREM HiddenForAReason == Spec => HiddenOnlyForAReason
<1>1. IInv /\ [Next]_vars =>
        [Program => \A h \in Windows :
           window[h].visible /\ ~window'[h].visible
              => \/ policy.committed # "None"
                 \/ ~CommittedTaskbarReady \/ recreate
                 \/ pc = "hide" /\ pass.reset]_vars
  BY HidesForAReason
<1>2. QED
  BY Inductive, <1>1, PTL DEF Spec, HiddenOnlyForAReason

-----------------------------------------------------------------------------
(* What is restored stays so.                                              *)

(* The overlay is up, and neither the running pass nor one to come has a   *)
(* reason to take it down.                                                 *)
Rested ==
    /\ calm /\ shell # NoIdentity /\ Restored
    /\ policy.committed = "None" /\ ~recreate
    /\ pc # "recreate" /\ (pc = "judge" => ~pass.changed)
    /\ pc \in {"tray", "ensure"} => pass.ready
    /\ ~pass.reset /\ "ResetSurface" \notin deferred \cup pass.flags

(* What Restored asks of the window itself.                                *)
Good(w, g) ==
    /\ w \in [Windows -> WindowState] /\ g \in Windows
    /\ w[g].exists /\ w[g].visible /\ w[g].fresh /\ w[g].topmost /\ w[g].layered
    /\ w[g].owner = shell /\ w[g].transparent = clickThrough

(* A call that succeeds leaves a good window good, whatever handle it is   *)
(* made on.                                                                *)
LEMMA RaisedStaysGood ==
    ASSUME NEW w, NEW g, NEW h, Good(w, g), NEW ok
    PROVE  Good(Raised(w, h, ok), g)
<1>1. Raised(w, h, ok) \in [Windows -> WindowState]
  BY RaisedIsTended DEF Good, Tended
<1>2. QED
  BY <1>1 DEF Good, Raised, WindowState

LEMMA PromotedStaysGood ==
    ASSUME NEW w, NEW g, NEW h, Good(w, g), NEW ok
    PROVE  Good(Promoted(w, h, ok), g)
  BY RaisedStaysGood DEF Promoted

LEMMA StyledStaysGood ==
    ASSUME NEW w, NEW g, NEW h, Good(w, g), NEW ok, clickThrough \in BOOLEAN
    PROVE  Good(Styled(w, h, ok), g)
<1>1. Styled(w, h, ok) \in [Windows -> WindowState]
  BY StyledIsTended DEF Good, Tended
<1>2. QED
  BY <1>1 DEF Good, Styled, WindowState

LEMMA PaintedStaysGood ==
    ASSUME NEW w, NEW g, NEW h, Good(w, g), NEW ok
    PROVE  Good(Painted(w, h, ok), g)
<1>1. Painted(w, h, ok) \in [Windows -> WindowState]
  BY PaintedIsTended DEF Good, Tended
<1>2. QED
  BY <1>1 DEF Good, Painted, WindowState

LEMMA ShownStaysGood ==
    ASSUME NEW w, NEW g, NEW h \in Windows, Good(w, g)
    PROVE  Good(Shown(w, h), g)
<1>1. Shown(w, h) \in [Windows -> WindowState]
  BY ShownIsTyped DEF Good
<1>2. QED
  BY <1>1 DEF Good, Shown, WindowState

LEMMA RestoredIsGood ==
    ASSUME TypeOK
    PROVE  Restored <=> identity.committed = shell /\ Good(window, hwnd)
  BY DEF TypeOK, Restored, Good, IsWindowVisible, IsWindow

(* A clear desktop gives an overlay that is not suppressed no reason to be *)
(* suppressed.                                                             *)
LEMMA ClearDesktopKeepsShown ==
    ASSUME NEW d, d = ClearDesktop, policy.committed = "None"
    PROVE  ReduceSuppressionPolicy(
             policy, ObserveSuppression(d.taskbar, FALSE, d.notification,
                                        policy.committed, d.foreground),
             Now).committed = "None"
<1> DEFINE o == ObserveSuppression("Visible", FALSE, "Accepts", "None",
                                   ClearDesktop.foreground)
<1>1. o.reason = "None"
  BY DEF ObserveSuppression, ObservePresentation, LooksAtPowerPoint,
         ResolveSuppressionObservation, KnownSuppression, UnknownSuppression
<1>2. /\ d.taskbar = "Visible" /\ d.notification = "Accepts"
      /\ d.foreground = ClearDesktop.foreground
  BY DEF ClearDesktop
<1> HIDE DEF o
<1>3. NothingToDecide(policy, o)
  BY <1>1 DEF NothingToDecide
<1>4. ReduceSuppressionPolicy(policy, o, Now).committed = "None"
  BY <1>3 DEF ReduceSuppressionPolicy, SettledPolicy
<1>5. QED
  BY <1>2, <1>4 DEF o

(* What a step has to see to for an overlay at rest to stay at rest.       *)
Undisturbed ==
    /\ UNCHANGED <<shell, calm, hwnd, clickThrough, recreate>>
    /\ identity'.committed = identity.committed /\ policy'.committed = "None"

Harmless ==
    /\ pc # "recreate" /\ (pc = "judge" => ~pass.changed)
    /\ pc \in {"tray", "ensure"} => pass.ready
    /\ ~pass.reset /\ "ResetSurface" \notin deferred \cup pass.flags

LEMMA RestIsKept ==
    ASSUME TypeOK, TypeOK', Rested, Undisturbed, Good(window', hwnd), Harmless'
    PROVE  Rested'
<1>1. Good(window, hwnd)' /\ identity'.committed = shell'
  BY RestoredIsGood DEF Rested, Undisturbed, Good
<1>2. Restored'
  BY <1>1 DEF Restored, Good, IsWindowVisible, IsWindow
<1>3. QED
  BY <1>2 DEF Rested, Harmless, Undisturbed

LEMMA LeavingIsHarmless ==
    ASSUME Harmless, NEW mask, Leave(mask)
    PROVE  Harmless'
  BY DEF Harmless, Leave, NoPass

(* At rest every call succeeds, and the disturbances are over.             *)
LEMMA NothingFails == calm => \A call : May(call) = {TRUE}
  BY DEF May

LEMMA NothingDisturbs == calm => ~Environment
  BY DEF Environment, OverlayVanishes, OverlayDamaged, ExplorerExits,
         ExplorerStarts, ComesToRest

(* A pass that starts sees the committed taskbar: there is nothing to wait *)
(* for and nothing to make anew.                                           *)
LEMMA StartKeepsRest == ASSUME IInv, TypeOK', Rested, Start PROVE Rested'
<1>t. TypeOK
  BY DEF IInv
<1>1. PICK trigger \in TimerTriggers : StartPass(trigger) /\ UNCHANGED clickThrough
  BY DEF Start, Begin, ToggleClickThrough, Rested
<1>2. LET result == ReduceTaskbarIdentity(identity, shell, Now)
      IN  /\ identity' = result.state
          /\ pc' = IF result.pending THEN "wait" ELSE "judge"
          /\ pass' = [NoPass EXCEPT
                        !.flags = trigger \cup deferred,
                        !.forced = "ResetSurface" \in trigger,
                        !.changed = result.changed]
  <2>1. May("find") = {TRUE} /\ StartPass(trigger)
    BY <1>1, NothingFails DEF Rested
  <2>2. QED
    BY <2>1 DEF StartPass
<1>3. IdentityKnown(shell) /\ identity.committed = shell
  BY <1>t, TaskbarsAreKnown DEF Rested, Restored, TypeOK
<1>4. /\ identity' = SettledIdentity(shell) /\ pc' = "judge"
      /\ pass' = [NoPass EXCEPT !.flags = trigger \cup deferred,
                                !.forced = "ResetSurface" \in trigger,
                                !.changed = FALSE]
  BY <1>2, <1>3 DEF ReduceTaskbarIdentity, IsCommitted
<1>5. Undisturbed /\ UNCHANGED window
  BY <1>1, <1>3, <1>4
     DEF StartPass, Undisturbed, SettledIdentity, environment, suppression, Rested
<1>6. "ResetSurface" \notin trigger \cup deferred /\ deferred' = {}
  BY <1>1 DEF StartPass, TimerTriggers, Rested
<1>7. Harmless'
  BY <1>4, <1>6 DEF Harmless, NoPass
<1>8. QED
  BY <1>t, <1>5, <1>7, RestIsKept, RestoredIsGood DEF Rested

LEMMA TimeKeepsRest == ASSUME IInv, TypeOK', Rested, Time PROVE Rested'
<1>1. Aged /\ TypeOK
  BY TimeAges DEF IInv
<1>2. Undisturbed /\ UNCHANGED <<window, deferred, pc, pass>>
  BY <1>1 DEF Aged, Undisturbed, environment, TypeOK, SuppressionPolicyState, Rested
<1>3. QED
  BY <1>1, <1>2, RestIsKept, RestoredIsGood DEF Harmless, Rested

(* A step that only moves on: the window stays good, nothing is decided.   *)
MovesOn ==
    /\ Good(window', hwnd)
    /\ UNCHANGED <<environment, identity, hwnd, clickThrough, policy, recreate>>

LEMMA MovesOnKeepsRest ==
    ASSUME IInv, TypeOK', Rested, MovesOn, Harmless'
    PROVE  Rested'
<1>1. Undisturbed
  BY DEF MovesOn, Undisturbed, environment, Rested
<1>2. QED
  BY <1>1, RestIsKept DEF MovesOn, IInv

(* Up to the observation a pass finds the committed taskbar and the        *)
(* overlay that serves it.                                                 *)
LEMMA LookingKeepsRest ==
    ASSUME IInv, TypeOK', Rested,
           \/ WaitForTaskbar \/ JudgeTaskbar \/ PostponeDestroy \/ DestroyFails
           \/ DestroyOverlay \/ RefreshTrayIcon \/ KeepTrayIcon
           \/ TaskbarUnavailable \/ EnsureOverlay
    PROVE  Rested'
<1>1. TypeOK /\ Good(window, hwnd) /\ Harmless /\ IsWindow(hwnd)
  BY RestoredIsGood DEF IInv, Rested, Harmless, Good, IsWindow
<1>2. CommittedTaskbarReady
  BY <1>1, TaskbarsAreKnown DEF CommittedTaskbarReady, Rested, Restored, TypeOK
<1> USE DEF suppression, retries
<1>3. CASE WaitForTaskbar
  <2>1. MovesOn /\ Leave(DeferredActions)
    BY <1>1, <1>2, <1>3 DEF WaitForTaskbar, StaysWhileWaiting, MovesOn
  <2>2. QED
    BY <1>1, <2>1, LeavingIsHarmless, MovesOnKeepsRest
<1>4. CASE JudgeTaskbar
  <2>1. recreate = FALSE /\ ~pass.changed
    BY <1>1, <1>4 DEF JudgeTaskbar, Rested, TypeOK
  <2>2. recreate' = FALSE /\ pc' = "tray"
    BY <1>4, <2>1 DEF JudgeTaskbar, RecreateRequired
  <2>3. pass' = [pass EXCEPT !.ready = CommittedTaskbarReady]
    BY <1>4 DEF JudgeTaskbar
  <2>4. pass'.ready /\ ~pass'.reset /\ pass'.flags = pass.flags
    BY <1>1, <1>2, <2>3 DEF TypeOK, PassState, Harmless
  <2>5. MovesOn /\ Harmless'
    BY <1>1, <1>4, <2>1, <2>2, <2>4 DEF JudgeTaskbar, MovesOn, Harmless
  <2>6. QED
    BY <2>5, MovesOnKeepsRest
<1>5. CASE PostponeDestroy \/ DestroyFails \/ DestroyOverlay
  BY <1>5 DEF PostponeDestroy, DestroyFails, DestroyOverlay, Rested
<1>6. CASE RefreshTrayIcon \/ KeepTrayIcon
  <2>1. pass' \in {pass, [pass EXCEPT !.flags = @ \ {"RefreshTrayIcon"}]}
    BY <1>6 DEF RefreshTrayIcon, KeepTrayIcon
  <2>2. /\ pass'.ready = pass.ready /\ pass'.reset = pass.reset
        /\ pass'.flags \subseteq pass.flags
    BY <1>1, <2>1 DEF TypeOK, PassState
  <2>3. /\ pc = "tray" /\ pc' = "ensure" /\ deferred' = deferred
        /\ UNCHANGED <<window, environment, identity, hwnd, clickThrough, policy,
                       recreate>>
    BY <1>6 DEF RefreshTrayIcon, KeepTrayIcon
  <2>4. Harmless' /\ MovesOn
    BY <1>1, <2>2, <2>3 DEF Harmless, MovesOn
  <2>5. QED
    BY <2>4, MovesOnKeepsRest
<1>7. CASE TaskbarUnavailable
  BY <1>7 DEF TaskbarUnavailable, Rested
<1>8. CASE EnsureOverlay
  <2>1. OverlayServesCommitted
    BY <1>1, <1>2, <1>8
       DEF EnsureOverlay, OverlayServesCommitted, IInv, OwnedByTheCommittedTaskbar,
           Rested
  <2>2. EnsureOutcomes = {Outcome(TRUE, FALSE, window, hwnd, owner)}
    BY <2>1 DEF EnsureOutcomes
  <2> DEFINE r == Outcome(TRUE, FALSE, window, hwnd, owner)
  <2>a. r.ok /\ r.created = FALSE /\ r.window = window /\ r.hwnd = hwnd
    BY DEF Outcome
  <2>b. /\ window' = r.window /\ hwnd' = r.hwnd
        /\ r.ok => /\ pc' = "observe" /\ deferred' = deferred
                   /\ pass' = [pass EXCEPT !.created = r.created,
                                           !.overlay = r.hwnd]
    BY <1>8, <2>2 DEF EnsureOverlay
  <2> HIDE DEF r
  <2>3. /\ window' = window /\ hwnd' = hwnd /\ pc' = "observe"
        /\ pass' = [pass EXCEPT !.created = FALSE, !.overlay = hwnd]
        /\ deferred' = deferred
    BY <2>a, <2>b
  <2>4. pass'.reset = pass.reset /\ pass'.flags = pass.flags
    BY <1>1, <2>3 DEF TypeOK, PassState
  <2>5. Harmless' /\ MovesOn
    BY <1>1, <1>8, <2>3, <2>4 DEF Harmless, MovesOn, EnsureOverlay
  <2>6. QED
    BY <2>5, MovesOnKeepsRest
<1>9. QED
  BY <1>3, <1>4, <1>5, <1>6, <1>7, <1>8

(* The observation decides nothing new, and the decision leaves a good     *)
(* window good.                                                            *)
LEMMA DecidingKeepsRest ==
    ASSUME IInv, TypeOK', Rested,
           \/ ObserveDesktop \/ ApplyStyle \/ HideSuppressed \/ HoldFrozen
           \/ GoOnVisible \/ PostponeShow \/ StartPrepare
    PROVE  Rested'
<1>1. TypeOK /\ Good(window, hwnd) /\ Harmless /\ clickThrough \in BOOLEAN
  BY RestoredIsGood DEF IInv, Rested, Harmless, TypeOK
<1> USE DEF suppression, retries
<1>2. CASE ObserveDesktop
  <2>1. PICK ok : window' \in {window, Raised(window, hwnd, ok)}
    BY <1>2 DEF ObserveDesktop
  <2>2. Good(window', hwnd)
    BY <1>1, <2>1, RaisedStaysGood
  <2>3. PICK d \in {ClearDesktop} :
          policy' = ReduceSuppressionPolicy(
                      policy, ObserveSuppression(d.taskbar, FALSE, d.notification,
                                                 policy.committed, d.foreground),
                      Now)
    BY <1>2 DEF ObserveDesktop, Rested
  <2>4. policy'.committed = "None"
    BY <2>3, ClearDesktopKeepsShown DEF Rested
  <2> DEFINE restoring == /\ policy'.committed # policy.committed
                          /\ policy'.committed = "None"
  <2>5. PICK more \in SUBSET {"Reposition", "Render"} :
          pass' = [pass EXCEPT !.flags = @ \cup more, !.restoring = restoring]
    BY <1>2 DEF ObserveDesktop
  <2> HIDE DEF restoring
  <2>6. pass'.reset = pass.reset /\ pass'.flags = pass.flags \cup more
    BY <1>1, <2>5 DEF TypeOK, PassState
  <2>7. pc' \in {"style", "commit"} /\ deferred' = deferred
    BY <1>2 DEF ObserveDesktop
  <2>8. Harmless'
    BY <1>1, <2>6, <2>7 DEF Harmless
  <2>9. Undisturbed
    BY <1>2, <2>4 DEF ObserveDesktop, Undisturbed, environment
  <2>10. QED
    BY <1>1, <2>2, <2>8, <2>9, RestIsKept
<1>3. CASE ApplyStyle
  <2>1. PICK ok : window' = Styled(window, pass.overlay, ok)
    BY <1>3 DEF ApplyStyle
  <2>2. MovesOn
    BY <1>1, <1>3, <2>1, StyledStaysGood DEF ApplyStyle, MovesOn
  <2>3. Harmless'
    <3>1. CASE Leave({"ResetSurface", "ApplyStyle"})
      BY <1>1, <3>1, LeavingIsHarmless
    <3>2. CASE /\ pass' = [pass EXCEPT !.flags = @ \ {"ApplyStyle"}]
               /\ pc' = "commit" /\ deferred' = deferred
      <4>1. pass'.reset = pass.reset /\ pass'.flags \subseteq pass.flags
        BY <1>1, <3>2 DEF TypeOK, PassState
      <4>2. QED
        BY <1>1, <3>2, <4>1 DEF Harmless
    <3>3. QED
      BY <1>3, <3>1, <3>2 DEF ApplyStyle
  <2>4. QED
    BY <2>2, <2>3, MovesOnKeepsRest
<1>4. CASE HideSuppressed
  BY <1>4 DEF HideSuppressed, Intent, ComputeOverlayIntent, Rested
<1>5. CASE HoldFrozen
  <2>1. PICK ok : window' \in {window, Promoted(window, pass.overlay, ok)}
    BY <1>5 DEF HoldFrozen
  <2>2. MovesOn /\ Leave({"ResetSurface"})
    BY <1>1, <1>5, <2>1, PromotedStaysGood DEF HoldFrozen, MovesOn
  <2>3. QED
    BY <1>1, <2>2, LeavingIsHarmless, MovesOnKeepsRest
<1>6. CASE GoOnVisible
  <2>1. PICK ok : window' \in {window, Promoted(window, pass.overlay, ok)}
    BY <1>6 DEF GoOnVisible
  <2>2. MovesOn
    BY <1>1, <1>6, <2>1, PromotedStaysGood DEF GoOnVisible, MovesOn
  <2>3. pass' \in {pass, [pass EXCEPT !.flags = @ \cup {"Reposition", "Render"}]}
    BY <1>6 DEF GoOnVisible
  <2>4. /\ pass'.reset = pass.reset
        /\ pass'.flags \subseteq pass.flags \cup {"Reposition", "Render"}
    BY <1>1, <2>3 DEF TypeOK, PassState
  <2>5. Harmless'
    BY <1>1, <1>6, <2>4 DEF Harmless, GoOnVisible
  <2>6. QED
    BY <2>2, <2>5, MovesOnKeepsRest
<1>7. CASE PostponeShow
  <2>1. MovesOn /\ Leave({"ResetSurface"})
    BY <1>1, <1>7 DEF PostponeShow, MovesOn
  <2>2. QED
    BY <1>1, <2>1, LeavingIsHarmless, MovesOnKeepsRest
<1>8. CASE StartPrepare
  <2> DEFINE reset == "ResetSurface" \in pass.flags
  <2>1. pass' = [NoPass EXCEPT !.overlay = pass.overlay, !.reset = reset]
    BY <1>8 DEF StartPrepare
  <2>2. ~reset
    BY <1>1 DEF Harmless
  <2> HIDE DEF reset
  <2>3. ~pass'.reset /\ pass'.flags = {}
    BY <2>1, <2>2 DEF NoPass
  <2>4. MovesOn /\ Harmless'
    BY <1>1, <1>8, <2>3 DEF StartPrepare, MovesOn, Harmless
  <2>5. QED
    BY <2>4, MovesOnKeepsRest
<1>9. QED
  BY <1>2, <1>3, <1>4, <1>5, <1>6, <1>7, <1>8

(* Preparing a show that is not asked to reset the surface, keeping what   *)
(* is shown and mending it in place leave a good window good.              *)
LEMMA ShowingKeepsRest ==
    ASSUME IInv, TypeOK', Rested,
           \/ PrepareHide \/ PrepareDress \/ PreparePaint \/ PrepareShow
           \/ KeepShown \/ LeaveUnrepaired \/ RepairOverlay
    PROVE  Rested'
<1>1. /\ TypeOK /\ Good(window, hwnd) /\ Harmless /\ clickThrough \in BOOLEAN
      /\ IsWindowVisible(hwnd)
  BY RestoredIsGood DEF IInv, Rested, Restored, Harmless, TypeOK
<1> USE DEF suppression, retries
<1>2. ASSUME NEW succeeded, PrepareReturns(succeeded) PROVE Harmless'
  BY <1>1, <1>2, LeavingIsHarmless DEF PrepareReturns
<1>3. ASSUME pc' \in Steps \ {"recreate", "judge", "tray", "ensure"},
             UNCHANGED <<pass, deferred>>
      PROVE  Harmless'
  BY <1>1, <1>3 DEF Harmless
<1>4. CASE PrepareHide
  <2>1. MovesOn
    BY <1>1, <1>4 DEF PrepareHide, MovesOn, Harmless
  <2>2. PrepareReturns(FALSE) \/ (pc' = "dress" /\ UNCHANGED <<pass, deferred>>)
    BY <1>4 DEF PrepareHide
  <2>3. QED
    BY <1>2, <1>3, <2>1, <2>2, MovesOnKeepsRest DEF Steps
<1>5. CASE PrepareDress
  <2>1. PICK placed :
          \/ window' = window
          \/ window' = Raised(Styled(window, pass.overlay, TRUE), hwnd, placed)
    BY <1>1, <1>5 DEF PrepareDress, Harmless
  <2> DEFINE styledWindow == Styled(window, pass.overlay, TRUE)
  <2>2. Good(styledWindow, hwnd)
    BY <1>1, StyledStaysGood
  <2>3. window' = window \/ window' = Raised(styledWindow, hwnd, placed)
    BY <2>1
  <2> HIDE DEF styledWindow
  <2>4. Good(window', hwnd)
    BY <1>1, <2>2, <2>3, RaisedStaysGood
  <2>5. MovesOn
    BY <1>5, <2>4 DEF PrepareDress, MovesOn
  <2>6. PrepareReturns(FALSE) \/ (pc' = "paint" /\ UNCHANGED <<pass, deferred>>)
    BY <1>5 DEF PrepareDress
  <2>7. QED
    BY <1>2, <1>3, <2>5, <2>6, MovesOnKeepsRest DEF Steps
<1>6. CASE PreparePaint
  <2>1. PICK ok : window' = Painted(window, pass.overlay, ok)
    BY <1>6 DEF PreparePaint
  <2>2. MovesOn
    BY <1>1, <1>6, <2>1, PaintedStaysGood DEF PreparePaint, MovesOn
  <2>3. PrepareReturns(FALSE) \/ (pc' = "show" /\ UNCHANGED <<pass, deferred>>)
    BY <1>6 DEF PreparePaint
  <2>4. QED
    BY <1>2, <1>3, <2>2, <2>3, MovesOnKeepsRest DEF Steps
<1>7. CASE PrepareShow
  <2>1. window' = window \/ \E h \in Windows : window' = Shown(window, h)
    BY <1>7 DEF PrepareShow, IsWindow
  <2>2. MovesOn
    BY <1>1, <1>7, <2>1, ShownStaysGood DEF PrepareShow, MovesOn
  <2>3. \E succeeded : PrepareReturns(succeeded)
    BY <1>7 DEF PrepareShow
  <2>4. QED
    BY <1>2, <2>2, <2>3, MovesOnKeepsRest
<1>8. CASE KeepShown
  <2> DEFINE promotes == ShouldPromoteOverlayForTaskViewTransition(
                           Intent, IsWindowVisible(pass.overlay),
                           "PromoteForTaskView" \in pass.flags)
  <2>1. PICK shows, placed, ok :
          LET promoted == IF promotes THEN Raised(window, pass.overlay, shows)
                                      ELSE window
              positioned == IF "Reposition" \in pass.flags
                              THEN Raised(promoted, hwnd, placed) ELSE promoted
          IN  window' \in {positioned, Painted(positioned, pass.overlay, ok)}
    BY <1>8 DEF KeepShown
  <2> HIDE DEF promotes
  <2> DEFINE promoted == IF promotes THEN Raised(window, pass.overlay, shows)
                                     ELSE window
             positioned == IF "Reposition" \in pass.flags
                             THEN Raised(promoted, hwnd, placed) ELSE promoted
  <2>2. Good(promoted, hwnd)
    BY <1>1, RaisedStaysGood
  <2>3. window' \in {positioned, Painted(positioned, pass.overlay, ok)}
    BY <2>1
  <2> HIDE DEF promoted
  <2>4. Good(positioned, hwnd)
    BY <2>2, RaisedStaysGood
  <2> HIDE DEF positioned
  <2>5. Good(window', hwnd)
    BY <2>3, <2>4, PaintedStaysGood
  <2>6. MovesOn
    BY <1>8, <2>5 DEF KeepShown, MovesOn
  <2>7. Harmless'
    BY <1>1, <1>8 DEF KeepShown, Harmless, NoPass
  <2>8. QED
    BY <2>6, <2>7, MovesOnKeepsRest
<1>9. CASE LeaveUnrepaired
  <2>1. MovesOn /\ Leave({})
    BY <1>1, <1>9 DEF LeaveUnrepaired, MovesOn
  <2>2. QED
    BY <1>1, <2>1, LeavingIsHarmless, MovesOnKeepsRest
<1>10. CASE RepairOverlay
  <2>1. PICK plan : MendInPlace(plan)
    BY <1>1, <1>10 DEF RepairOverlay
  <2>2. PICK styled, placed, ok :
          LET dressed == IF plan.style THEN Styled(window, hwnd, styled) ELSE window
              raised == IF plan.reposition THEN Raised(dressed, hwnd, placed)
                                           ELSE dressed
          IN  window' \in {raised, Painted(raised, hwnd, ok)}
    BY <2>1 DEF MendInPlace
  <2> DEFINE dressed == IF plan.style THEN Styled(window, hwnd, styled) ELSE window
             raised == IF plan.reposition THEN Raised(dressed, hwnd, placed)
                                          ELSE dressed
  <2>3. Good(dressed, hwnd)
    BY <1>1, StyledStaysGood
  <2>4. window' \in {raised, Painted(raised, hwnd, ok)}
    BY <2>2
  <2> HIDE DEF dressed
  <2>5. Good(raised, hwnd)
    BY <2>3, RaisedStaysGood
  <2> HIDE DEF raised
  <2>6. Good(window', hwnd)
    BY <2>4, <2>5, PaintedStaysGood
  <2>7. MovesOn /\ Leave({})
    BY <1>10, <2>1, <2>6 DEF RepairOverlay, MendInPlace, MovesOn
  <2>8. QED
    BY <1>1, <2>7, LeavingIsHarmless, MovesOnKeepsRest
<1>11. QED
  BY <1>4, <1>5, <1>6, <1>7, <1>8, <1>9, <1>10

LEMMA RestStays == IInv /\ Rested /\ [Next]_vars => Rested'
<1> SUFFICES ASSUME IInv, Rested, [Next]_vars PROVE Rested'
  OBVIOUS
<1>1. TypeOK'
  BY TypeKept DEF IInv
<1>2. CASE Step
  BY <1>1, <1>2, LookingKeepsRest, DecidingKeepsRest, ShowingKeepsRest DEF Step
<1>3. CASE Start
  BY <1>1, <1>3, StartKeepsRest
<1>4. CASE Time
  BY <1>1, <1>4, TimeKeepsRest
<1>5. CASE UNCHANGED vars
  BY <1>5 DEF vars, Rested, Restored, IsWindowVisible, IsWindow
<1>6. ~Environment
  BY NothingDisturbs DEF Rested
<1>7. QED
  BY <1>2, <1>3, <1>4, <1>5, <1>6 DEF Next, Program

(* Once an overlay is up in a calm surrounding, no timer, no retry, no     *)
(* repair and no pass, whatever had been asked of it, takes it down,       *)
(* unpaints it, lowers it or changes its mode: the second half of Recovers.*)
THEOREM RestoredStays == Spec => [](Rested => []Restored)
<1>1. Rested => Restored
  BY DEF Rested
<1>2. QED
  BY Inductive, RestStays, <1>1, PTL DEF Spec
=============================================================================
