-------------------------- MODULE SuppressionPolicy --------------------------
(***************************************************************************)
(* ReduceSuppressionPolicy as the machine the reconciler drives: every     *)
(* pass looks at the desktop once (UpdateSuppressionPolicy) at whatever    *)
(* time it runs.  run and lastSeen are history variables: the unbroken run *)
(* of the latest observation, and when it was last made.                   *)
(***************************************************************************)
EXTENDS OverlayPolicy

CONSTANT MaxTime                       \* bound on the clock
ASSUME MaxTimeAssumption == MaxTime \in Nat

VARIABLES
    policy,     \* SuppressionState::policy
    now,        \* GetTickCount64()
    run,        \* [obs, since]
    lastSeen    \* the time of the latest observation

vars == <<policy, now, run, lastSeen>>

Init ==
    /\ policy = SettledPolicy("None")
    /\ now = 0
    /\ run = [obs |-> UnknownSuppression, since |-> 0]
    /\ lastSeen = 0

\* A pass outside a screenshot observes one of the desktops there can be; a
\* pass during one observes nothing.
Observable == SuppressionObservations(policy.committed) \cup {UnknownSuppression}

UpdateSuppressionPolicy(observation) ==
    /\ policy' = ReduceSuppressionPolicy(policy, observation, now)
    /\ run' = IF observation = run.obs
                THEN run ELSE [obs |-> observation, since |-> now]
    /\ lastSeen' = now
    /\ UNCHANGED now

Tick ==
    /\ now < MaxTime
    /\ now' = now + 1
    /\ UNCHANGED <<policy, run, lastSeen>>

Next == Tick \/ \E o \in Observable : UpdateSuppressionPolicy(o)

Spec == Init /\ [][Next]_vars

-----------------------------------------------------------------------------
(* Type correctness: every reducer step keeps the policy a policy state    *)
(* and never stamps a candidate with a time that has not come.             *)
TypeOK ==
    /\ policy \in SuppressionPolicyState
    /\ now \in Nat /\ lastSeen \in Nat
    /\ run \in [obs : SuppressionObservation, since : Nat]

(* The candidate the reducer keeps is exactly the run of observations that *)
(* disagrees with the decision, from that run's first observation on, and  *)
(* that run is still younger than its delay.                               *)
CandidateIsTheRun ==
    /\ run.since <= lastSeen /\ lastSeen <= now
    /\ policy.active <=>
         run.obs.known /\ run.obs.reason # policy.committed
    /\ policy.active =>
         /\ policy.candidate = run.obs.reason
         /\ policy.profile = run.obs.profile
         /\ policy.since = run.since
    /\ ~policy.active => policy = SettledPolicy(policy.committed)

(* Promptness: no look leaves behind a run of agreeing observations that   *)
(* has reached its delay and is not the decision (a candidate can be       *)
(* neither forgotten nor restarted while the desktop stays the same).      *)
NoOverdueDecision ==
    run.obs.known /\ lastSeen - run.since >= RequiredDelay(run.obs)
        => policy.committed = run.obs.reason

(* Hysteresis: the committed reason changes only to the reason of the      *)
(* current observation, and only when that very observation - reason and   *)
(* profile - has been made without interruption for its whole delay.       *)
CommitAfterDwell ==
    [][policy'.committed # policy.committed =>
         /\ run'.obs.known
         /\ policy'.committed = run'.obs.reason
         /\ now - run'.since >= RequiredDelay(run'.obs)]_vars

(* The fast exit is for leaving a slide show: an overlay hidden because    *)
(* the taskbar is hidden comes back after the full exit delay only.        *)
SlowReturnFromHiddenTaskbar ==
    [][policy.committed = "TaskbarHidden" /\ policy'.committed = "None" =>
         now - run'.since >= ExitDelay]_vars

-----------------------------------------------------------------------------
(* Refinement: the reducer's machine implements StableDecision.            *)
KnownObservation == {o \in SuppressionObservation : o.known}

Stable == INSTANCE StableDecision WITH
    ValueOf <- [o \in KnownObservation |-> o.reason],
    Delay <- [o \in KnownObservation |-> RequiredDelay(o)],
    value <- policy.committed

StableInit == Stable!Init({"None"}, UnknownSuppression)
StableNext == Stable!Next(SuppressionObservation)

(* The committed reason, read off the reducer's state, is a StableDecision *)
(* about the stream of observations: it changes exactly when the evidence  *)
(* is old enough, no sooner and no later, whatever candidates came between.*)
ImplementsStableDecision ==
    StableInit /\ [][StableNext]_<<policy.committed, run, now>>
=============================================================================
