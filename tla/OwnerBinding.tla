---------------------------- MODULE OwnerBinding ----------------------------
(***************************************************************************)
(* Whose window the overlay is.  Each pass looks the taskbar up, has the   *)
(* identity reducer of TaskbarIdentityPolicy judge what it found, destroys *)
(* the overlay of a former Explorer, creates one for the committed taskbar *)
(* and verifies that Windows made that taskbar its owner: if not, it sets  *)
(* the owner itself, MaxAttempts times at most, and then gives up until    *)
(* somebody asks for a recovery.                                           *)
(* A pass is one step here; what happens in the middle of one is           *)
(* OverlayReconciler's subject.                                            *)
(***************************************************************************)
EXTENDS TaskbarIdentityPolicy

CONSTANTS
    RetryInterval,  \* kInitialOwnerBindingRetryIntervalMs
    MaxAttempts     \* kInitialOwnerBindingMaxAttempts

ASSUME BindingAssumption ==
    RetryInterval \in Nat \ {0} /\ MaxAttempts \in Nat \ {0}

VARIABLES
    alive,      \* the taskbars there are: two while Explorer is replaced
    overlay,    \* WindowState::overlay_hwnd, with what Windows knows of it
    recreate,   \* ReconcileState::recreate_pending
    binding     \* ReconcileState::initial_owner_binding

bindingVars == <<vars, alive, overlay, recreate, binding>>

\* madeFor is PlacementState::taskbar_owner with, as history, its process;
\* owner is what GetWindow(GW_OWNER) says.  confirmed is history: since the
\* latest arming, the program has seen its owner to be who it was made for.
NoOverlay == [exists |-> FALSE, madeFor |-> NoIdentity, owner |-> 0,
              confirmed |-> FALSE]

\* since is history: when the verification was armed.
NoBinding == [pending |-> FALSE, exhausted |-> FALSE, attempts |-> 0,
              target |-> 0, next |-> 0, since |-> 0]

IsWindow(handle) == \E t \in alive : t.hwnd = handle

-----------------------------------------------------------------------------
(* The verification of the owner, of an overlay o under a binding b.       *)

\* (Faulty variant: the attempts made before count.)
FaultyArmed(b, o, target, delay) ==
    IF o.exists /\ IsWindow(target)
      THEN [pending |-> TRUE, exhausted |-> FALSE, attempts |-> b.attempts,
            target |-> target, next |-> now + delay, since |-> now]
      ELSE NoBinding

\* Whatever was armed before is forgotten, also if nothing can be armed now.
Armed(b, o, target, delay) ==
    IF o.exists /\ IsWindow(target)
      THEN [pending |-> TRUE, exhausted |-> FALSE, attempts |-> 0,
            target |-> target, next |-> now + delay, since |-> now]
      ELSE NoBinding

\* The target has to be the taskbar of the committed identity, alive: a handle
\* that another process got since will not do.
TargetValid(b, committed) == b.target = committed.hwnd /\ committed \in alive

DecideInitialOwnerBindingAction(b, o, committed) ==
    CASE ~b.pending -> "None"
      [] /\ b.pending
         /\ ~o.exists \/ ~TargetValid(b, committed) \/ now < b.next -> "Wait"
      [] OTHER -> IF o.owner = b.target THEN "Complete"
                  ELSE IF b.attempts >= MaxAttempts THEN "Exhausted"
                  ELSE "Retry"

GivenUp(b) ==
    [pending |-> FALSE, exhausted |-> TRUE, attempts |-> b.attempts,
     target |-> b.target, next |-> b.next, since |-> b.since]

\* (Faulty variant: a refused owner ends the verification.)
FaultyRefused(b) == NoBinding

Refused(b) ==
    [pending |-> b.pending, exhausted |-> b.exhausted,
     attempts |-> b.attempts + 1, target |-> b.target,
     next |-> now + RetryInterval, since |-> b.since]

\* The overlay o when its owner has been read, and was that handle.
ReadOwner(o, handle) ==
    [exists |-> o.exists, madeFor |-> o.madeFor, owner |-> handle,
     confirmed |-> handle = o.madeFor.hwnd]

\* What it leads to: the owner set may be taken, or not.
ReconcileInitialOwnerBinding(b, o, committed) ==
    LET action == DecideInitialOwnerBindingAction(b, o, committed)
    IN  CASE action \in {"None", "Wait"} -> {<<b, o>>}
          [] action = "Complete" -> {<<NoBinding, ReadOwner(o, o.owner)>>}
          [] action = "Exhausted" -> {<<GivenUp(b), o>>}
          [] action = "Retry" -> {<<NoBinding, ReadOwner(o, b.target)>>,
                                  <<Refused(b), o>>}

-----------------------------------------------------------------------------
(* A pass.                                                                 *)

ServesCommitted(o, committed) ==
    committed \in alive /\ o.exists /\ o.madeFor.hwnd = committed.hwnd

\* Windows may not honour the owner of a window of another process.
Created(committed) ==
    {[exists |-> TRUE, madeFor |-> committed, owner |-> h,
      confirmed |-> FALSE] : h \in {0, committed.hwnd}}

\* EnsureOverlayWindow: an overlay that stands for another taskbar is in the
\* way of a new one.
EnsureOverlayWindow(b, o, committed) ==
    IF ServesCommitted(o, committed)
      THEN ReconcileInitialOwnerBinding(b, o, committed)
    ELSE IF o.exists THEN {<<b, o>>}
    ELSE {<<NoBinding, NoOverlay>>} \cup
         (IF committed \in alive
            THEN UNION {ReconcileInitialOwnerBinding(
                            Armed(NoBinding, n, committed.hwnd, RetryInterval),
                            n, committed) : n \in Created(committed)}
            ELSE {})

\* (Faulty variant: only a pass that is told of a new generation destroys the
\* overlay of the former, and one with the same handle passes for the same.)
FaultyRecreateRequired(committed) ==
    changed' /\ overlay.madeFor.hwnd # committed.hwnd

RecreateRequired(committed) == recreate \/ changed'

\* Passes wait until the identity is settled.  The destruction of the former
\* overlay may fail, or still wait for its next try.  A taskbar found may be
\* gone by the next call: then nothing is ensured.  (The binding and the overlay
\* are those at the beginning of the pass.)
Pass(b, o) ==
    /\ \E found \in Lookups : UpdateTaskbarIdentity(found)
    /\ LET committed == identity'.committed
           Ensured(x, y) == IF committed \in alive
                              THEN EnsureOverlayWindow(x, y, committed)
                              ELSE {<<x, y>>}
           Becomes(outcomes) == \E r \in outcomes :
                                  binding' = r[1] /\ overlay' = r[2]
       IN  \/ /\ pending'
              /\ binding' = b /\ overlay' = o /\ UNCHANGED recreate
           \/ /\ ~pending' /\ RecreateRequired(committed) /\ o.exists
              /\ recreate' = TRUE
              /\ binding' = b /\ overlay' = o
           \/ /\ ~pending' /\ RecreateRequired(committed)
              /\ recreate' = FALSE
              /\ Becomes(Ensured(NoBinding, NoOverlay))
           \/ /\ ~pending' /\ ~RecreateRequired(committed)
              /\ Becomes(Ensured(b, o))
              /\ UNCHANGED recreate
    /\ UNCHANGED alive

ReconcileOverlayState == Pass(binding, overlay)

\* "Recover taskbar" in the menu.
RecoverTaskbar ==
    Pass(Armed(binding, overlay, identity.committed.hwnd, 0),
         [overlay EXCEPT !.confirmed = FALSE])

-----------------------------------------------------------------------------
(* What Explorer and Windows do.                                           *)

WM_DESTROY == overlay' = NoOverlay /\ binding' = NoBinding

OverlayVanishes ==
    /\ overlay.exists
    /\ WM_DESTROY
    /\ UNCHANGED <<vars, alive, recreate>>

\* A window goes with its owner, or loses it.
TaskbarDies(t) ==
    /\ alive' = alive \ {t}
    /\ \/ overlay.owner # t.hwnd /\ UNCHANGED <<overlay, binding>>
       \/ overlay.owner = t.hwnd /\ WM_DESTROY
       \/ /\ overlay.owner = t.hwnd
          /\ overlay' = [overlay EXCEPT !.owner = 0]
          /\ UNCHANGED binding
    /\ UNCHANGED <<vars, recreate>>

\* A handle may come back under another process and a process with another
\* handle, but nobody is mistaken for a former Explorer by both.
TaskbarAppears(t) ==
    /\ ~IsWindow(t.hwnd)
    /\ t \notin {identity.committed, overlay.madeFor}
    /\ alive' = alive \cup {t}
    /\ UNCHANGED <<vars, overlay, recreate, binding>>

\* While Start or Search is open the Shell clears the owner of a window whose
\* owner lives, at any time: also while it is verified, and long after.
ShellClearsOwner ==
    /\ overlay.owner # 0
    /\ overlay' = [overlay EXCEPT !.owner = 0]
    /\ UNCHANGED <<vars, alive, recreate, binding>>

\* The owner set or asked for is there after all, or the Shell gives it back.
OwnerShows ==
    /\ overlay.exists /\ overlay.owner = 0 /\ overlay.madeFor \in alive
    /\ overlay' = [overlay EXCEPT !.owner = overlay.madeFor.hwnd]
    /\ UNCHANGED <<vars, alive, recreate, binding>>

TimePasses == Tick /\ UNCHANGED <<alive, overlay, recreate, binding>>

BindingInit ==
    /\ Init
    /\ alive \in {{}} \cup {{t} : t \in Identities}
    /\ overlay = NoOverlay /\ recreate = FALSE /\ binding = NoBinding

BindingNext ==
    \/ ReconcileOverlayState \/ RecoverTaskbar
    \/ OverlayVanishes \/ ShellClearsOwner \/ OwnerShows \/ TimePasses
    \/ \E t \in alive : TaskbarDies(t)
    \/ \E t \in Identities : TaskbarAppears(t)

BindingSpec == BindingInit /\ [][BindingNext]_bindingVars

-----------------------------------------------------------------------------
(* Type correctness of the overlay and of its binding.                     *)
BindingTypeOK ==
    /\ alive \subseteq Identities
    /\ overlay \in [exists : BOOLEAN, madeFor : Lookups,
                    owner : Handles \cup {0}, confirmed : BOOLEAN]
    /\ recreate \in BOOLEAN
    /\ binding \in [pending : BOOLEAN, exhausted : BOOLEAN, attempts : Nat,
                    target : Handles \cup {0}, next : Nat, since : Nat]

(* Whoever owns the overlay is the Explorer it was made for, window and    *)
(* process, and is alive: no attempt to set the owner, after any number of *)
(* Explorers, reused handles, recoveries and failed destructions, gives an *)
(* overlay to another.                                                     *)
OwnedByItsMaker ==
    overlay.exists /\ overlay.owner # 0
        => overlay.madeFor \in alive /\ overlay.owner = overlay.madeFor.hwnd

(* The verification that the creation of an overlay or a recovery starts   *)
(* goes on, against the taskbar the overlay was made for, until the program *)
(* has read that taskbar as its owner, or is given up: no pass and no       *)
(* failed destruction loses it.  And it is only about the beginning: after  *)
(* that reading nothing is verified or given up again by itself, also when  *)
(* the Shell clears the owner, however often and for how long.  (An overlay *)
(* about to be destroyed is left out, and one whose taskbar is gone.)       *)
VerifiedUntilConfirmed ==
    overlay.exists /\ ~recreate
        /\ overlay.madeFor \in alive /\ overlay.madeFor = identity.committed
        => IF overlay.confirmed
             THEN ~binding.pending /\ ~binding.exhausted
             ELSE /\ binding.pending \/ binding.exhausted
                  /\ binding.target = overlay.madeFor.hwnd

(* An overlay is given up only after the time that MaxAttempts attempts    *)
(* take, counted from the latest arming: one that was given up gets all of *)
(* them again when a recovery is asked for.                                *)
PatienceIsKept ==
    binding.exhausted => now - binding.since >= MaxAttempts * RetryInterval
=============================================================================
