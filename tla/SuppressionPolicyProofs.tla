----------------------- MODULE SuppressionPolicyProofs -----------------------
(***************************************************************************)
(* Proofs about SuppressionPolicy, for every choice of the delays and of   *)
(* the clock's bound.                                                      *)
(***************************************************************************)
EXTENDS SuppressionPolicy, TLAPS

(* What the program can observe is an observation: the classification of   *)
(* the desktop never yields anything outside the reducer's input type.     *)
LEMMA ObservableIsObservation ==
    ASSUME NEW o \in Observable
    PROVE  o \in SuppressionObservation
<1>1. CASE o = UnknownSuppression
  BY <1>1 DEF UnknownSuppression, SuppressionObservation, Reasons, Profiles
<1>2. CASE o \in SuppressionObservations(policy.committed)
  <2>1. PICK d \in Desktops :
               o = ObserveSuppression(d.taskbar, FALSE, d.notification,
                                      policy.committed, d.foreground)
    BY <1>2 DEF SuppressionObservations
  <2> DEFINE seen == ObservePresentation(d.notification, policy.committed,
                                         d.foreground)
             resolved == ResolveSuppressionObservation(d.taskbar, FALSE,
                                                       seen.visibility)
  <2>2. seen.profile \in Profiles
    BY DEF ObservePresentation, Profiles
  <2>3. resolved \in SuppressionObservation
    BY DEF ResolveSuppressionObservation, UnknownSuppression, KnownSuppression,
           SuppressionObservation, Reasons, Profiles
  <2>4. o = resolved \/ o = [resolved EXCEPT !.profile = seen.profile]
    BY <2>1 DEF ObserveSuppression
  <2> HIDE DEF seen, resolved
  <2>5. QED
    BY <2>2, <2>3, <2>4 DEF SuppressionObservation
<1>3. QED
  BY <1>1, <1>2 DEF Observable

(* Every delay the policy can require is a natural number.                 *)
LEMMA DelayIsNat ==
    ASSUME NEW o PROVE RequiredDelay(o) \in Nat
  BY DelayAssumption DEF RequiredDelay

(* The strengthening the invariants are proved through: the candidate is   *)
(* the run, and the run is older than its delay only once it is in force.  *)
IInv == TypeOK /\ CandidateIsTheRun /\ NoOverdueDecision

LEMMA InitIInv == Init => IInv
  BY DEF Init, IInv, TypeOK, CandidateIsTheRun, NoOverdueDecision, SettledPolicy,
         SuppressionPolicyState, UnknownSuppression, SuppressionObservation,
         Reasons, Profiles

(* One look keeps the strengthened invariant.                              *)
LEMMA ObserveIInv ==
    ASSUME IInv, NEW o \in SuppressionObservation, UpdateSuppressionPolicy(o)
    PROVE  IInv'
<1> USE DEF SuppressionPolicyState, SuppressionObservation
<1> DEFINE reduced == ReduceSuppressionPolicy(policy, o, now)
<1>1. /\ policy' = reduced /\ lastSeen' = now /\ now' = now
      /\ run' = IF o = run.obs THEN run ELSE [obs |-> o, since |-> now]
  BY DEF UpdateSuppressionPolicy
<1>2. /\ policy \in SuppressionPolicyState /\ now \in Nat /\ lastSeen \in Nat
      /\ run \in [obs : SuppressionObservation, since : Nat]
      /\ RequiredDelay(o) \in Nat
  BY DelayIsNat DEF IInv, TypeOK
<1>3. run' \in [obs : SuppressionObservation, since : Nat] /\ run'.obs = o
  BY <1>1, <1>2
<1>4. run'.since <= lastSeen' /\ lastSeen' <= now'
  BY <1>1, <1>2 DEF IInv, CandidateIsTheRun
<1>5. CASE NothingToDecide(policy, o)
  <2>1. policy' = SettledPolicy(policy.committed)
    BY <1>1, <1>5 DEF ReduceSuppressionPolicy
  <2>2. ~o.known \/ o.reason = policy.committed
    BY <1>5 DEF NothingToDecide
  <2>3. QED
    BY <1>1, <1>2, <1>3, <1>4, <2>1, <2>2
       DEF IInv, TypeOK, CandidateIsTheRun, NoOverdueDecision, SettledPolicy,
           Reasons, Profiles
<1>6. CASE ~NothingToDecide(policy, o)
  <2> DEFINE since == IF ContinuesCandidate(policy, o) THEN policy.since ELSE now
  <2>1. o.known /\ o.reason # policy.committed
    BY <1>6 DEF NothingToDecide
  \* The candidate continues exactly when the run does.
  <2>2. ContinuesCandidate(policy, o) <=> o = run.obs
    BY <1>2, <2>1 DEF IInv, CandidateIsTheRun, ContinuesCandidate
  <2>3. since = run'.since /\ since \in Nat
    BY <1>1, <1>2, <1>3, <2>1, <2>2 DEF IInv, CandidateIsTheRun
  <2>4. policy' = IF now - since < RequiredDelay(o)
                    THEN [committed |-> policy.committed, candidate |-> o.reason,
                          since |-> since, active |-> TRUE, profile |-> o.profile]
                    ELSE SettledPolicy(o.reason)
    BY <1>1, <1>6 DEF ReduceSuppressionPolicy
  <2> HIDE DEF since
  <2>5. CASE now - since < RequiredDelay(o)
    <3>1. policy' = [committed |-> policy.committed, candidate |-> o.reason,
                     since |-> since, active |-> TRUE, profile |-> o.profile]
      BY <2>4, <2>5
    <3>2. QED
      BY <1>1, <1>2, <1>3, <1>4, <2>1, <2>3, <2>5, <3>1
         DEF IInv, TypeOK, CandidateIsTheRun, NoOverdueDecision
  <2>6. CASE ~(now - since < RequiredDelay(o))
    <3>1. policy' = SettledPolicy(o.reason)
      BY <2>4, <2>6
    <3>2. QED
      BY <1>1, <1>2, <1>3, <1>4, <2>1, <3>1
         DEF IInv, TypeOK, CandidateIsTheRun, NoOverdueDecision, SettledPolicy,
             Profiles
  <2>7. QED
    BY <2>5, <2>6
<1>7. QED
  BY <1>5, <1>6

LEMMA NextIInv == IInv /\ [Next]_vars => IInv'
<1> SUFFICES ASSUME IInv, [Next]_vars PROVE IInv'
  OBVIOUS
<1>1. CASE Tick
  BY <1>1 DEF Tick, IInv, TypeOK, CandidateIsTheRun, NoOverdueDecision
<1>2. ASSUME NEW o \in Observable, UpdateSuppressionPolicy(o) PROVE IInv'
  BY <1>2, ObservableIsObservation, ObserveIInv
<1>3. CASE UNCHANGED vars
  BY <1>3 DEF vars, IInv, TypeOK, CandidateIsTheRun, NoOverdueDecision
<1>4. QED
  BY <1>1, <1>2, <1>3 DEF Next

LEMMA AlwaysIInv == Spec => []IInv
  BY InitIInv, NextIInv, PTL DEF Spec

(* For all delays, the reducer's state stays well formed.                  *)
THEOREM TypeCorrect == Spec => []TypeOK
<1>1. IInv => TypeOK
  BY DEF IInv
<1>2. QED
  BY <1>1, AlwaysIInv, PTL

(* For all delays, the candidate is the current run of disagreement.       *)
THEOREM CandidateCorrect == Spec => []CandidateIsTheRun
<1>1. IInv => CandidateIsTheRun
  BY DEF IInv
<1>2. QED
  BY <1>1, AlwaysIInv, PTL

(* For all delays, evidence that reached its delay is in force.            *)
THEOREM Prompt == Spec => []NoOverdueDecision
<1>1. IInv => NoOverdueDecision
  BY DEF IInv
<1>2. QED
  BY <1>1, AlwaysIInv, PTL

-----------------------------------------------------------------------------
(* What one look does to the decision: it becomes the observed reason when *)
(* the run has reached its delay, and stays as it is otherwise.            *)
LEMMA DecisionOfALook ==
    ASSUME IInv, NEW o \in SuppressionObservation, UpdateSuppressionPolicy(o)
    PROVE  /\ run' = (IF o = run.obs THEN run ELSE [obs |-> o, since |-> now])
           /\ policy'.committed =
                IF o.known /\ now - run'.since >= RequiredDelay(o)
                  THEN o.reason ELSE policy.committed
<1> USE DEF SuppressionPolicyState, SuppressionObservation
<1>1. /\ policy' = ReduceSuppressionPolicy(policy, o, now)
      /\ run' = IF o = run.obs THEN run ELSE [obs |-> o, since |-> now]
  BY DEF UpdateSuppressionPolicy
<1>2. /\ policy \in SuppressionPolicyState /\ now \in Nat
      /\ run \in [obs : SuppressionObservation, since : Nat]
      /\ RequiredDelay(o) \in Nat
  BY DelayIsNat DEF IInv, TypeOK
<1>3. CASE NothingToDecide(policy, o)
  <2>1. policy' = SettledPolicy(policy.committed)
    BY <1>1, <1>3 DEF ReduceSuppressionPolicy
  <2>2. QED
    BY <1>1, <1>3, <2>1 DEF NothingToDecide, SettledPolicy
<1>4. CASE ~NothingToDecide(policy, o)
  <2> DEFINE since == IF ContinuesCandidate(policy, o) THEN policy.since ELSE now
  <2>1. o.known /\ o.reason # policy.committed
    BY <1>4 DEF NothingToDecide
  <2>2. ContinuesCandidate(policy, o) <=> o = run.obs
    BY <1>2, <2>1 DEF IInv, CandidateIsTheRun, ContinuesCandidate
  <2>3. since = run'.since /\ since \in Nat
    BY <1>1, <1>2, <2>1, <2>2 DEF IInv, CandidateIsTheRun
  <2>4. policy' = IF now - since < RequiredDelay(o)
                    THEN [committed |-> policy.committed, candidate |-> o.reason,
                          since |-> since, active |-> TRUE, profile |-> o.profile]
                    ELSE SettledPolicy(o.reason)
    BY <1>1, <1>4 DEF ReduceSuppressionPolicy
  <2> HIDE DEF since
  <2>5. CASE now - since < RequiredDelay(o)
    <3>1. policy'.committed = policy.committed
      BY <2>4, <2>5
    <3>2. ~(now - run'.since >= RequiredDelay(o))
      BY <1>2, <2>3, <2>5
    <3>3. QED
      BY <1>1, <3>1, <3>2
  <2>6. CASE ~(now - since < RequiredDelay(o))
    <3>1. policy'.committed = o.reason
      BY <2>4, <2>6 DEF SettledPolicy
    <3>2. now - run'.since >= RequiredDelay(o)
      BY <1>2, <2>3, <2>6
    <3>3. QED
      BY <1>1, <2>1, <3>1, <3>2
  <2>7. QED
    BY <2>5, <2>6
<1>5. QED
  BY <1>3, <1>4

(* For all delays, the decision changes only after the full dwell of one   *)
(* unbroken run of the same observation.                                   *)
THEOREM DwellHeld == Spec => CommitAfterDwell
<1> DEFINE P == policy'.committed # policy.committed =>
                  /\ run'.obs.known
                  /\ policy'.committed = run'.obs.reason
                  /\ now - run'.since >= RequiredDelay(run'.obs)
<1>1. ASSUME IInv, [Next]_vars PROVE [P]_vars
  <2>1. CASE Tick
    BY <2>1 DEF Tick
  <2>2. ASSUME NEW o \in Observable, UpdateSuppressionPolicy(o) PROVE P
    <3>1. o \in SuppressionObservation
      BY ObservableIsObservation
    <3>2. /\ run' = (IF o = run.obs THEN run ELSE [obs |-> o, since |-> now])
          /\ policy'.committed =
                IF o.known /\ now - run'.since >= RequiredDelay(o)
                  THEN o.reason ELSE policy.committed
      BY <1>1, <2>2, <3>1, DecisionOfALook
    <3>3. run'.obs = o
      BY <3>2
    <3>4. QED
      BY <3>2, <3>3
  <2>3. QED
    BY <1>1, <2>1, <2>2 DEF Next
<1>2. QED
  BY <1>1, AlwaysIInv, PTL DEF Spec, CommitAfterDwell

(* For all delays, the reducer's machine implements StableDecision: what   *)
(* it decides depends on the stream of observations alone, not on which    *)
(* candidates it happened to keep.                                         *)
THEOREM Refines == Spec => ImplementsStableDecision
<1>1. Init => StableInit
  BY DEF Init, StableInit, Stable!Init, SettledPolicy
<1>2. ASSUME IInv, [Next]_vars
      PROVE  [StableNext]_<<policy.committed, run, now>>
  <2>1. CASE Tick
    <3>1. Stable!Tick
      BY <2>1 DEF Tick, Stable!Tick
    <3>2. QED
      BY <3>1 DEF StableNext, Stable!Next
  <2>2. ASSUME NEW o \in Observable, UpdateSuppressionPolicy(o)
        PROVE  StableNext
    <3>1. o \in SuppressionObservation
      BY ObservableIsObservation
    <3>2. /\ run' = (IF o = run.obs THEN run ELSE [obs |-> o, since |-> now])
          /\ policy'.committed =
                IF o.known /\ now - run'.since >= RequiredDelay(o)
                  THEN o.reason ELSE policy.committed
      BY <1>2, <2>2, <3>1, DecisionOfALook
    <3>3. run' = Stable!Extend(o) /\ run'.obs = o /\ now' = now
      BY <2>2, <3>2 DEF Stable!Extend, UpdateSuppressionPolicy
    <3>4. o \in KnownObservation <=> o.known
      BY <3>1 DEF KnownObservation
    <3>5. Stable!Mature(run)' <=> o.known /\ now - run'.since >= RequiredDelay(o)
      BY <3>3, <3>4 DEF Stable!Mature, Stable!Known
    <3>6. Stable!Observe(o)
      BY <2>2, <3>2, <3>3, <3>4, <3>5
         DEF Stable!Observe, UpdateSuppressionPolicy, Stable!Mature, Stable!Known
    <3>7. QED
      BY <3>1, <3>6 DEF StableNext, Stable!Next
  <2>3. CASE UNCHANGED vars
    BY <2>3 DEF vars
  <2>4. QED
    BY <1>2, <2>1, <2>2, <2>3 DEF Next
<1>3. QED
  BY <1>1, <1>2, AlwaysIInv, PTL DEF Spec, ImplementsStableDecision

(* With an overlay hidden for the taskbar's sake, a clear desktop is never *)
(* observed under the fast profile.                                        *)
LEMMA HiddenTaskbarReturnsSlowly ==
    ASSUME NEW o \in Observable, policy.committed = "TaskbarHidden",
           o.known, o.reason = "None"
    PROVE  o.profile = "Default"
<1>1. PICK d \in Desktops :
             o = ObserveSuppression(d.taskbar, FALSE, d.notification,
                                    policy.committed, d.foreground)
  <2>1. o # UnknownSuppression
    BY DEF UnknownSuppression
  <2>2. o \in SuppressionObservations(policy.committed)
    BY <2>1 DEF Observable
  <2>3. QED
    BY <2>2 DEF SuppressionObservations
<1> DEFINE seen == ObservePresentation(d.notification, policy.committed,
                                       d.foreground)
           resolved == ResolveSuppressionObservation(d.taskbar, FALSE,
                                                     seen.visibility)
<1>2. seen.visibility = "Clear" => seen.profile = "Default"
  <2>1. d.foreground \in Foregrounds
    BY DEF Desktops
  <2>2. d.foreground.slideshow => d.foreground.coverage = "Covers"
    BY <2>1 DEF Foregrounds
  <2>3. ~LooksAtPowerPoint(policy.committed, d.foreground)
    BY DEF LooksAtPowerPoint
  <2>4. QED
    BY <2>2, <2>3 DEF ObservePresentation
<1>3. seen.visibility \in PresentationVisibilities
  BY DEF ObservePresentation, PresentationVisibilities
<1>4. /\ resolved.known /\ resolved.reason = "None" => seen.visibility = "Clear"
      /\ resolved.profile = "Default"
  BY <1>3 DEF ResolveSuppressionObservation, UnknownSuppression,
              KnownSuppression, PresentationVisibilities
<1>5. resolved \in SuppressionObservation
  BY DEF ResolveSuppressionObservation, UnknownSuppression, KnownSuppression,
         SuppressionObservation, Reasons, Profiles
<1>6. o = resolved \/ o = [resolved EXCEPT !.profile = seen.profile]
  BY <1>1 DEF ObserveSuppression
<1> HIDE DEF seen, resolved
<1>7. QED
  BY <1>2, <1>4, <1>5, <1>6 DEF SuppressionObservation

(* For all delays, an overlay hidden with the taskbar comes back only      *)
(* after the full exit delay: the fast exit is a slide show's alone.       *)
THEOREM SlowReturnHeld == Spec => SlowReturnFromHiddenTaskbar
<1> DEFINE P == policy.committed = "TaskbarHidden" /\ policy'.committed = "None"
                  => now - run'.since >= ExitDelay
<1>1. ASSUME IInv, [Next]_vars PROVE [P]_vars
  <2>1. CASE Tick
    BY <2>1 DEF Tick
  <2>2. ASSUME NEW o \in Observable, UpdateSuppressionPolicy(o) PROVE P
    <3>1. o \in SuppressionObservation
      BY ObservableIsObservation
    <3>2. policy'.committed = IF o.known /\ now - run'.since >= RequiredDelay(o)
                                THEN o.reason ELSE policy.committed
      BY <1>1, <2>2, <3>1, DecisionOfALook
    <3>3. SUFFICES ASSUME policy.committed = "TaskbarHidden",
                          policy'.committed = "None"
                   PROVE  now - run'.since >= ExitDelay
      OBVIOUS
    <3>4. o.known /\ o.reason = "None" /\ now - run'.since >= RequiredDelay(o)
      BY <3>2, <3>3
    <3>5. o.profile = "Default"
      BY <3>3, <3>4, HiddenTaskbarReturnsSlowly
    <3>6. QED
      BY <3>4, <3>5 DEF RequiredDelay
  <2>3. QED
    BY <1>1, <2>1, <2>2 DEF Next
<1>2. QED
  BY <1>1, AlwaysIInv, PTL DEF Spec, SlowReturnFromHiddenTaskbar
=============================================================================
