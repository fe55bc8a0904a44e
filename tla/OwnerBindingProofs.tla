------------------------- MODULE OwnerBindingProofs -------------------------
(***************************************************************************)
(* Proofs about TaskbarIdentityPolicy and about OwnerBinding, which        *)
(* composes it with the owner binding: for every set of handles and of     *)
(* process ids and every delay, interval and number of attempts.           *)
(***************************************************************************)
EXTENDS OwnerBinding, TLAPS

-----------------------------------------------------------------------------
(* The taskbar identity alone.                                             *)

(* What identifies a taskbar is exactly a member of Identities, and a      *)
(* failed lookup is exactly what is no evidence.                           *)
LEMMA EvidenceOfALookup ==
    ASSUME NEW o \in Lookups
    PROVE  /\ IdentityKnown(o) <=> o \in Identities
           /\ Evidence(o) \in Identities \cup {NoIdentity}
           /\ ~IdentityKnown(NoIdentity) /\ NoIdentity \notin Identities
           /\ IdentityKnown(o) => Evidence(o) = o
           /\ ~IdentityKnown(o) => Evidence(o) = NoIdentity
<1>1. ~IdentityKnown(NoIdentity) /\ NoIdentity \notin Identities
  BY IdentityAssumption DEF IdentityKnown, NoIdentity, Identities
<1>2. IdentityKnown(o) <=> o \in Identities
  <2>1. CASE o \in Identities
    BY <2>1, IdentityAssumption DEF IdentityKnown, Identities
  <2>2. CASE o = NoIdentity
    BY <1>1, <2>2
  <2>3. CASE o \in [hwnd : Handles, pid : {0}]
    BY <2>3, IdentityAssumption DEF IdentityKnown, Identities
  <2>4. QED
    BY <2>1, <2>2, <2>3 DEF Lookups
<1>3. QED
  BY <1>1, <1>2 DEF Evidence

(* The strengthening: the invariants of the runs together are inductive.   *)
IInv == TypeOK /\ CandidateIsTheRun /\ NoOverdueIdentity /\ WorksOnlyOnTheCommitted

LEMMA InitIInv == Init => IInv
<1> SUFFICES ASSUME Init PROVE IInv
  OBVIOUS
<1>1. PICK found \in Lookups : identity = SettledIdentity(found)
  BY DEF Init
<1>2. ~IdentityKnown(NoIdentity)
  BY DEF IdentityKnown, NoIdentity
<1>3. /\ pending = TRUE /\ changed = FALSE /\ now = 0 /\ lastSeen = 0
      /\ run = [obs |-> NoIdentity, since |-> 0]
  BY DEF Init
<1>4. TypeOK
  BY <1>1, <1>3 DEF TypeOK, SettledIdentity
<1>5. CandidateIsTheRun
  BY <1>1, <1>2, <1>3 DEF CandidateIsTheRun, SettledIdentity
<1>6. NoOverdueIdentity /\ WorksOnlyOnTheCommitted
  BY <1>2, <1>3 DEF NoOverdueIdentity, WorksOnlyOnTheCommitted
<1>7. QED
  BY <1>4, <1>5, <1>6 DEF IInv

(* One look, told without the candidate: the observed identity is          *)
(* committed once its run has settled, and reported as new; until then it  *)
(* is the candidate and the pass has to wait.                              *)
Matures(o) == IdentityKnown(o) /\ now - run'.since >= SettleDelay

Look(o) ==
    /\ run' = IF Evidence(o) = run.obs
                THEN run ELSE [obs |-> Evidence(o), since |-> now]
    /\ lastSeen' = now /\ now' = now
    /\ identity' = IF IdentityKnown(o) /\ ~Matures(o) /\ o # identity.committed
                     THEN [committed |-> identity.committed, candidate |-> o,
                           since |-> run'.since, active |-> TRUE]
                     ELSE SettledIdentity(IF Matures(o) THEN o
                                            ELSE identity.committed)
    /\ pending' = ~(IdentityKnown(o) /\ (Matures(o) \/ o = identity.committed))
    /\ changed' = (Matures(o) /\ o # identity.committed)

LEMMA UpdateIsALook ==
    ASSUME IInv, NEW o \in Lookups, UpdateTaskbarIdentity(o)
    PROVE  Look(o)
<1> DEFINE result == ReduceTaskbarIdentity(identity, o, now)
<1>1. /\ identity' = result.state
      /\ pending' = result.pending /\ changed' = result.changed
      /\ run' = IF Evidence(o) = run.obs
                  THEN run ELSE [obs |-> Evidence(o), since |-> now]
      /\ lastSeen' = now /\ now' = now
  BY DEF UpdateTaskbarIdentity
<1>2. /\ identity \in [committed : Lookups, candidate : Lookups, since : Nat,
                       active : BOOLEAN]
      /\ now \in Nat /\ SettleDelay \in Nat \ {0}
  BY DelayAssumption DEF IInv, TypeOK
<1>3. CASE ~IdentityKnown(o)
  <2>1. /\ identity' = SettledIdentity(identity.committed)
        /\ pending' = TRUE /\ changed' = FALSE
    BY <1>1, <1>3 DEF ReduceTaskbarIdentity, IsCommitted, DropsCandidate
  <2>2. QED
    BY <1>1, <1>3, <2>1 DEF Look, Matures
<1>4. CASE IdentityKnown(o) /\ o = identity.committed
  <2>1. /\ identity' = SettledIdentity(identity.committed)
        /\ pending' = FALSE /\ changed' = FALSE
    BY <1>1, <1>4 DEF ReduceTaskbarIdentity, IsCommitted
  <2>2. QED
    BY <1>1, <1>4, <2>1 DEF Look, Matures
<1>5. CASE IdentityKnown(o) /\ o # identity.committed
  <2>1. Evidence(o) = o
    BY <1>5, EvidenceOfALookup
  \* The candidate continues exactly when the run does.
  <2>2. ContinuesIdentity(identity, o) <=> o = run.obs
    BY <1>5 DEF IInv, CandidateIsTheRun, ContinuesIdentity
  <2>3. CASE ~ContinuesIdentity(identity, o)
    <3>1. /\ identity' = [committed |-> identity.committed, candidate |-> o,
                          since |-> now, active |-> TRUE]
          /\ pending' = TRUE /\ changed' = FALSE
      BY <1>1, <1>5, <2>3 DEF ReduceTaskbarIdentity, IsCommitted
    <3>2. run'.since = now
      BY <1>1, <2>1, <2>2, <2>3
    <3>3. ~Matures(o)
      BY <1>2, <3>2 DEF Matures
    <3>4. QED
      BY <1>1, <1>5, <3>1, <3>2, <3>3 DEF Look
  <2>4. CASE ContinuesIdentity(identity, o)
    <3>1. /\ run' = run /\ identity.since = run.since /\ identity.active = TRUE
          /\ identity.candidate = o
      BY <1>1, <1>2, <2>1, <2>2, <2>4 DEF IInv, CandidateIsTheRun, ContinuesIdentity
    <3>2. HasSettled(identity.since, now) <=> Matures(o)
      BY <1>5, <3>1 DEF HasSettled, Matures
    <3>3. CASE ~Matures(o)
      <4>1. identity' = identity /\ pending' = TRUE /\ changed' = FALSE
        BY <1>1, <1>5, <2>4, <3>2, <3>3 DEF ReduceTaskbarIdentity, IsCommitted
      <4>2. identity = [committed |-> identity.committed, candidate |-> o,
                        since |-> run'.since, active |-> TRUE]
        BY <1>2, <3>1
      <4>3. QED
        BY <1>1, <1>5, <3>3, <4>1, <4>2 DEF Look
    <3>4. CASE Matures(o)
      <4>1. identity' = SettledIdentity(o) /\ pending' = FALSE /\ changed' = TRUE
        BY <1>1, <1>5, <2>4, <3>2, <3>4 DEF ReduceTaskbarIdentity, IsCommitted, CommitsIdentity
      <4>2. QED
        BY <1>1, <1>5, <3>4, <4>1 DEF Look
    <3>5. QED
      BY <3>3, <3>4
  <2>5. QED
    BY <2>3, <2>4
<1>6. QED
  BY <1>3, <1>4, <1>5

(* What one look commits, and that it keeps the strengthened invariant.    *)
LEMMA CommitOfALook ==
    ASSUME IInv, NEW o \in Lookups, UpdateTaskbarIdentity(o)
    PROVE  /\ run' = IF Evidence(o) = run.obs
                       THEN run ELSE [obs |-> Evidence(o), since |-> now]
           /\ run'.obs = Evidence(o) /\ now' = now
           /\ identity'.committed = IF Matures(o) THEN o ELSE identity.committed
           /\ identity'.committed # identity.committed => changed'
           /\ IInv'
<1>1. Look(o)
  BY UpdateIsALook
<1>2. /\ identity \in [committed : Lookups, candidate : Lookups, since : Nat,
                       active : BOOLEAN]
      /\ now \in Nat /\ lastSeen \in Nat /\ run.since <= lastSeen
      /\ lastSeen <= now
      /\ run \in [obs : Identities \cup {NoIdentity}, since : Nat]
  BY DEF IInv, TypeOK, CandidateIsTheRun
<1>3. /\ run' \in [obs : Identities \cup {NoIdentity}, since : Nat]
      /\ run'.obs = Evidence(o) /\ run'.since <= now
  BY <1>1, <1>2, EvidenceOfALookup DEF Look
<1>4. /\ Matures(o) => IdentityKnown(o)
      /\ IdentityKnown(o) => run'.obs = o
      /\ IdentityKnown(run'.obs) <=> IdentityKnown(o)
      /\ Matures(o) <=> IdentityKnown(o) /\ now - run'.since >= SettleDelay
  BY <1>3, EvidenceOfALookup DEF Matures
<1>5. identity'.committed = IF Matures(o) THEN o ELSE identity.committed
  BY <1>1 DEF Look, SettledIdentity
<1>6. identity'.committed # identity.committed => changed'
  BY <1>1, <1>5 DEF Look
<1>7. TypeOK'
  <2>1. identity' \in [committed : Lookups, candidate : Lookups, since : Nat,
                       active : BOOLEAN]
    BY <1>1, <1>2, <1>3 DEF Look, SettledIdentity
  <2>2. pending' \in BOOLEAN /\ changed' \in BOOLEAN
    BY <1>1 DEF Look
  <2>3. now' \in Nat /\ lastSeen' \in Nat
    BY <1>1, <1>2 DEF Look
  <2>4. QED
    BY <1>3, <2>1, <2>2, <2>3 DEF TypeOK
<1>8. CandidateIsTheRun'
  <2>1. run'.since <= lastSeen' /\ lastSeen' <= now'
    BY <1>1, <1>2, <1>3 DEF Look
  <2>2. CASE IdentityKnown(o) /\ ~Matures(o) /\ o # identity.committed
    <3>1. identity' = [committed |-> identity.committed, candidate |-> o,
                       since |-> run'.since, active |-> TRUE]
      BY <1>1, <2>2 DEF Look
    <3>2. QED
      BY <1>4, <2>1, <2>2, <3>1 DEF CandidateIsTheRun
  <2>3. CASE ~(IdentityKnown(o) /\ ~Matures(o) /\ o # identity.committed)
    <3>1. identity' = SettledIdentity(identity'.committed)
      BY <1>1, <2>3 DEF Look, SettledIdentity
    <3>2. ~identity'.active
      BY <3>1 DEF SettledIdentity
    <3>3. ~(IdentityKnown(run'.obs) /\ run'.obs # identity'.committed)
      BY <1>4, <1>5, <2>3
    <3>4. QED
      BY <2>1, <3>1, <3>2, <3>3 DEF CandidateIsTheRun
  <2>4. QED
    BY <2>2, <2>3
<1>9. NoOverdueIdentity'
  BY <1>1, <1>4, <1>5 DEF NoOverdueIdentity, Look
<1>10. WorksOnlyOnTheCommitted'
  <2>1. SUFFICES ASSUME ~pending'
                 PROVE  IdentityKnown(run'.obs) /\ run'.obs = identity'.committed
    BY DEF WorksOnlyOnTheCommitted
  <2>2. IdentityKnown(o) /\ (Matures(o) \/ o = identity.committed)
    BY <1>1, <2>1 DEF Look
  <2>3. QED
    BY <1>4, <1>5, <2>2
<1>11. QED
  <2>1. IInv'
    BY <1>7, <1>8, <1>9, <1>10 DEF IInv
  <2>2. now' = now /\ run' = IF Evidence(o) = run.obs
                       THEN run ELSE [obs |-> Evidence(o), since |-> now]
    BY <1>1 DEF Look
  <2>3. QED
    BY <1>3, <1>5, <1>6, <2>1, <2>2

LEMMA NextIInv == IInv /\ [Next]_vars => IInv'
<1> SUFFICES ASSUME IInv, [Next]_vars PROVE IInv'
  OBVIOUS
<1>1. CASE Tick
  BY <1>1 DEF Tick, IInv, TypeOK, CandidateIsTheRun, NoOverdueIdentity,
              WorksOnlyOnTheCommitted
<1>2. ASSUME NEW o \in Lookups, UpdateTaskbarIdentity(o) PROVE IInv'
  BY <1>2, CommitOfALook
<1>3. CASE UNCHANGED vars
  BY <1>3 DEF vars, IInv, TypeOK, CandidateIsTheRun, NoOverdueIdentity,
              WorksOnlyOnTheCommitted
<1>4. QED
  BY <1>1, <1>2, <1>3 DEF Next

LEMMA AlwaysIInv == Spec => []IInv
  BY InitIInv, NextIInv, PTL DEF Spec

(* For all handles, processes and delays, a pass that need not wait has    *)
(* just seen the committed taskbar.                                        *)
THEOREM WorkHeld == Spec => []WorksOnlyOnTheCommitted
<1>1. IInv => WorksOnlyOnTheCommitted
  BY DEF IInv
<1>2. QED
  BY <1>1, AlwaysIInv, PTL

(* For all handles, processes and delays, an Explorer seen for the settle  *)
(* delay is the committed one.                                             *)
THEOREM Prompt == Spec => []NoOverdueIdentity
<1>1. IInv => NoOverdueIdentity
  BY DEF IInv
<1>2. QED
  BY <1>1, AlwaysIInv, PTL

(* For all handles, processes and delays, no generation goes unreported.   *)
THEOREM ReportHeld == Spec => EveryGenerationIsReported
<1> DEFINE P == identity'.committed # identity.committed => changed'
<1>1. ASSUME IInv, [Next]_vars PROVE [P]_vars
  <2>1. CASE Tick
    BY <2>1 DEF Tick
  <2>2. ASSUME NEW o \in Lookups, UpdateTaskbarIdentity(o) PROVE P
    BY <1>1, <2>2, CommitOfALook
  <2>3. QED
    BY <1>1, <2>1, <2>2 DEF Next
<1>2. QED
  BY <1>1, AlwaysIInv, PTL DEF Spec, EveryGenerationIsReported

(* For all handles, processes and delays, the committed identity is a      *)
(* StableDecision about the sightings.                                     *)
THEOREM Refines == Spec => ImplementsStableDecision
<1>1. Init => StableInit
  BY DEF Init, StableInit, Stable!Init, SettledIdentity
<1>2. ASSUME IInv, [Next]_vars
      PROVE  [StableNext]_<<identity.committed, run, now>>
  <2>1. CASE Tick
    <3>1. Stable!Tick
      BY <2>1 DEF Tick, Stable!Tick
    <3>2. QED
      BY <3>1 DEF StableNext, Stable!Next
  <2>2. ASSUME NEW o \in Lookups, UpdateTaskbarIdentity(o)
        PROVE  StableNext
    <3> DEFINE e == Evidence(o)
    <3>1. /\ run'.obs = e /\ now' = now
          /\ run' = IF e = run.obs THEN run ELSE [obs |-> e, since |-> now]
          /\ identity'.committed = IF Matures(o) THEN o ELSE identity.committed
      BY <1>2, <2>2, CommitOfALook
    <3>2. /\ e \in Identities \cup {NoIdentity}
          /\ e \in Identities <=> IdentityKnown(o)
          /\ IdentityKnown(o) => e = o
      BY EvidenceOfALookup
    <3> HIDE DEF e
    <3>3. run' = Stable!Extend(e)
      BY <3>1 DEF Stable!Extend
    <3>4. Stable!Mature(run)' <=> Matures(o)
      BY <3>1, <3>2 DEF Stable!Mature, Stable!Known, Matures
    <3>5. identity'.committed = IF Stable!Mature(run)'
                                  THEN [i \in Identities |-> i][e]
                                  ELSE identity.committed
      BY <3>1, <3>2, <3>4 DEF Matures
    <3>6. Stable!Observe(e)
      BY <3>1, <3>3, <3>5 DEF Stable!Observe, Stable!Mature, Stable!Known
    <3>7. QED
      BY <3>2, <3>6 DEF StableNext, Stable!Next
  <2>3. CASE UNCHANGED vars
    BY <2>3 DEF vars
  <2>4. QED
    BY <1>2, <2>1, <2>2, <2>3 DEF Next
<1>3. QED
  BY <1>1, <1>2, AlwaysIInv, PTL DEF Spec, ImplementsStableDecision

-----------------------------------------------------------------------------
(* The owner binding.                                                      *)

Overlays == [exists : BOOLEAN, madeFor : Lookups, owner : Handles \cup {0},
             confirmed : BOOLEAN]
Bindings == [pending : BOOLEAN, exhausted : BOOLEAN, attempts : Nat,
             target : Handles \cup {0}, next : Nat, since : Nat]

(* What a verification knows of the time it has taken.                     *)
Paced(b) ==
    /\ b \in Bindings
    /\ b.attempts <= MaxAttempts
    /\ b.pending => b.next >= b.since + b.attempts * RetryInterval
    /\ b.exhausted => now - b.since >= MaxAttempts * RetryInterval

(* What an overlay o under a binding b is while c is committed and nothing *)
(* waits to be destroyed.                                                  *)
Sound(b, o, c) ==
    /\ Paced(b) /\ o \in Overlays
    /\ o.exists => o.madeFor = c
    /\ o.owner # 0 => o.exists /\ c \in alive /\ o.owner = c.hwnd
    /\ o.exists /\ c \in alive =>
         IF o.confirmed THEN ~b.pending /\ ~b.exhausted
                        ELSE (b.pending \/ b.exhausted) /\ b.target = c.hwnd

(* The strengthening: no two taskbars share a handle, an owner is the      *)
(* maker whatever is pending, and an overlay that does not wait for its    *)
(* destruction was made for the committed Explorer.                        *)
OwnerIsTheMaker ==
    overlay.owner # 0 =>
        /\ overlay.exists /\ overlay.madeFor \in alive
        /\ overlay.owner = overlay.madeFor.hwnd
OneHandleOneTaskbar == \A s, t \in alive : s.hwnd = t.hwnd => s = t

BInv ==
    /\ IInv
    /\ alive \subseteq Identities /\ OneHandleOneTaskbar
    /\ recreate \in BOOLEAN
    /\ Paced(binding) /\ overlay \in Overlays
    /\ OwnerIsTheMaker
    /\ ~recreate => Sound(binding, overlay, identity.committed)

-----------------------------------------------------------------------------
(* The operators of a verification.                                        *)

LEMMA KnownHandles ==
  /\ \A c \in Lookups : c.hwnd \in Handles \cup {0}
  /\ \A c \in Identities : c.hwnd \in Handles /\ c.hwnd # 0
BY IdentityAssumption DEF Lookups, Identities, NoIdentity

LEMMA NothingIsPaced == Paced(NoBinding)
<1>1. NoBinding \in Bindings
  BY DEF Bindings, NoBinding
<1>2. QED
  BY <1>1, BindingAssumption DEF Paced, NoBinding

(* A verification that is armed has all its attempts before it.            *)
LEMMA ArmedIsPaced ==
  ASSUME now \in Nat, NEW b, NEW o, NEW target \in Handles \cup {0},
         NEW delay \in Nat
  PROVE  /\ Paced(Armed(b, o, target, delay))
         /\ o.exists /\ IsWindow(target) =>
              /\ Armed(b, o, target, delay).pending
              /\ Armed(b, o, target, delay).target = target
<1>1. CASE o.exists /\ IsWindow(target)
  <2> DEFINE new == [pending |-> TRUE, exhausted |-> FALSE, attempts |-> 0,
                     target |-> target, next |-> now + delay, since |-> now]
  <2>1. Armed(b, o, target, delay) = new
    BY <1>1 DEF Armed
  <2>2. new \in Bindings
    BY DEF Bindings
  <2>3. /\ new.attempts = 0 /\ new.next = now + delay /\ new.since = now
        /\ new.pending = TRUE /\ new.exhausted = FALSE
        /\ new.target = target
    OBVIOUS
  <2> HIDE DEF new
  <2>4. 0 * RetryInterval = 0
    BY BindingAssumption
  <2>5. Paced(new)
    BY <2>2, <2>3, <2>4, BindingAssumption DEF Paced
  <2>6. QED
    BY <2>1, <2>3, <2>5
<1>2. CASE ~(o.exists /\ IsWindow(target))
  BY <1>2, NothingIsPaced DEF Armed
<1>3. QED
  BY <1>1, <1>2

(* A step of the verification: each attempt takes an interval, and the     *)
(* owner it sets is the committed taskbar.                                 *)
LEMMA VerificationIsSound ==
  ASSUME now \in Nat, alive \subseteq Identities,
         NEW b, NEW o, NEW c \in alive, o.exists, Sound(b, o, c),
         NEW r \in ReconcileInitialOwnerBinding(b, o, c)
  PROVE  Sound(r[1], r[2], c) /\ r[2].exists
<1> DEFINE action == DecideInitialOwnerBindingAction(b, o, c)
           read == ReadOwner(o, c.hwnd)
<1>1. /\ b \in Bindings /\ o \in Overlays /\ o.madeFor = c
      /\ b.attempts <= MaxAttempts
      /\ b.pending => b.next >= b.since + b.attempts * RetryInterval
      /\ b.exhausted => now - b.since >= MaxAttempts * RetryInterval
  BY DEF Sound, Paced
<1>2. /\ b.attempts \in Nat /\ b.next \in Nat /\ b.since \in Nat
      /\ b.target \in Handles \cup {0}
      /\ RetryInterval \in Nat /\ MaxAttempts \in Nat
  BY <1>1, BindingAssumption DEF Bindings
<1>3. action \in {"None", "Wait", "Complete", "Exhausted", "Retry"}
  BY DEF DecideInitialOwnerBindingAction
<1>4. action \notin {"None", "Wait"} =>
        b.pending /\ b.target = c.hwnd /\ now >= b.next
  BY <1>2 DEF DecideInitialOwnerBindingAction, TargetValid
\* Whose owner has been read to be the maker needs no verification.
<1>r. /\ read \in Overlays /\ read.exists = TRUE /\ read.madeFor = c
      /\ read.owner = c.hwnd /\ read.confirmed = TRUE
  BY <1>1, KnownHandles DEF ReadOwner, Overlays
<1>n. Sound(NoBinding, read, c)
  BY <1>r, NothingIsPaced DEF Sound, NoBinding
<1>5. /\ action = "Complete" => o.owner = b.target
      /\ action = "Exhausted" => b.attempts >= MaxAttempts
      /\ action = "Retry" => b.attempts < MaxAttempts
  BY <1>2 DEF DecideInitialOwnerBindingAction
<1>6. CASE action \in {"None", "Wait"}
  <2>1. r = <<b, o>>
    BY <1>6 DEF ReconcileInitialOwnerBinding
  <2>2. QED
    BY <2>1
<1>7. CASE action = "Complete"
  <2>1. r = <<NoBinding, read>>
    BY <1>4, <1>5, <1>7 DEF ReconcileInitialOwnerBinding
  <2> HIDE DEF read
  <2>2. QED
    BY <1>r, <1>n, <2>1
<1>8. CASE action = "Exhausted"
  <2>1. r = <<GivenUp(b), o>>
    BY <1>8 DEF ReconcileInitialOwnerBinding
  <2>2. /\ GivenUp(b) \in Bindings
        /\ GivenUp(b).pending = FALSE /\ GivenUp(b).exhausted = TRUE
        /\ GivenUp(b).since = b.since /\ GivenUp(b).attempts = b.attempts
        /\ GivenUp(b).target = b.target
    BY <1>1 DEF GivenUp, Bindings
  <2>3. now - b.since >= MaxAttempts * RetryInterval
    <3>1. b.attempts = MaxAttempts
      BY <1>1, <1>2, <1>5, <1>8
    <3>2. now >= b.since + MaxAttempts * RetryInterval
      BY <1>1, <1>2, <1>4, <1>8, <3>1
    <3>3. MaxAttempts * RetryInterval \in Nat
      BY <1>2
    <3>4. QED
      BY <1>2, <3>2, <3>3
  <2>4. Paced(GivenUp(b))
    BY <1>1, <2>2, <2>3 DEF Paced
  <2>5. QED
    BY <1>4, <1>8, <2>1, <2>2, <2>4 DEF Sound
<1>9. CASE action = "Retry"
  <2>1. r = <<NoBinding, read>> \/ r = <<Refused(b), o>>
    BY <1>4, <1>9 DEF ReconcileInitialOwnerBinding
  <2>2. CASE r = <<NoBinding, read>>
    <3> HIDE DEF read
    <3>1. QED
      BY <1>r, <1>n, <2>2
  <2>3. CASE r = <<Refused(b), o>>
    <3>1. /\ Refused(b) \in Bindings
          /\ Refused(b).pending = b.pending
          /\ Refused(b).exhausted = b.exhausted
          /\ Refused(b).since = b.since
          /\ Refused(b).attempts = b.attempts + 1
          /\ Refused(b).next = now + RetryInterval
          /\ Refused(b).target = b.target
      BY <1>1, <1>2 DEF Refused, Bindings
    <3>2. now + RetryInterval >= b.since + (b.attempts + 1) * RetryInterval
      <4>1. (b.attempts + 1) * RetryInterval
              = b.attempts * RetryInterval + RetryInterval
        BY <1>2
      <4>2. b.attempts * RetryInterval \in Nat
        BY <1>2
      <4>3. QED
        BY <1>1, <1>2, <1>4, <1>9, <4>1, <4>2
    <3>3. Paced(Refused(b))
      BY <1>1, <1>2, <1>5, <1>9, <3>1, <3>2 DEF Paced
    <3>4. QED
      BY <1>4, <1>9, <2>3, <3>1, <3>3 DEF Sound
  <2>4. QED
    BY <2>1, <2>2, <2>3
<1>10. QED
  BY <1>3, <1>6, <1>7, <1>8, <1>9

-----------------------------------------------------------------------------
(* A pass.                                                                 *)

LEMMA NothingIsSound == ASSUME NEW c PROVE Sound(NoBinding, NoOverlay, c)
BY NothingIsPaced DEF Sound, NoOverlay, Overlays, Lookups

(* The overlay a pass leaves serves the committed taskbar and no other.    *)
LEMMA EnsuredIsSound ==
  ASSUME now \in Nat, alive \subseteq Identities,
         NEW b, NEW o, NEW c \in alive, Sound(b, o, c),
         NEW r \in EnsureOverlayWindow(b, o, c)
  PROVE  Sound(r[1], r[2], c)
<1>1. o \in Overlays
  BY DEF Sound
<1>2. CASE ServesCommitted(o, c)
  BY <1>2, VerificationIsSound DEF EnsureOverlayWindow, ServesCommitted
<1>3. CASE ~ServesCommitted(o, c) /\ o.exists
  <2>1. r = <<b, o>>
    BY <1>3 DEF EnsureOverlayWindow
  <2>2. QED
    BY <2>1
<1>4. CASE ~ServesCommitted(o, c) /\ ~o.exists
  <2>1. CASE r = <<NoBinding, NoOverlay>>
    BY <2>1, NothingIsSound
  <2>2. CASE r # <<NoBinding, NoOverlay>>
    <3>1. PICK n \in Created(c) :
            r \in ReconcileInitialOwnerBinding(
                    Armed(NoBinding, n, c.hwnd, RetryInterval), n, c)
      BY <1>4, <2>2 DEF EnsureOverlayWindow
    <3> DEFINE new == Armed(NoBinding, n, c.hwnd, RetryInterval)
    <3>2. /\ n \in Overlays /\ n.exists /\ n.madeFor = c
          /\ n.owner \in {0, c.hwnd} /\ n.confirmed = FALSE
      <4>1. PICK h \in {0, c.hwnd} :
              n = [exists |-> TRUE, madeFor |-> c, owner |-> h,
                   confirmed |-> FALSE]
        BY DEF Created
      <4>2. h \in Handles \cup {0} /\ c \in Lookups
        BY KnownHandles DEF Lookups
      <4>3. QED
        BY <4>1, <4>2 DEF Overlays
    <3>3. IsWindow(c.hwnd) /\ c.hwnd \in Handles \cup {0}
      BY KnownHandles DEF IsWindow
    <3>4. Paced(new) /\ new.pending /\ new.target = c.hwnd
      BY <3>2, <3>3, ArmedIsPaced, BindingAssumption
    <3> HIDE DEF new
    <3>5. Sound(new, n, c)
      BY <3>2, <3>4 DEF Sound
    <3>6. r \in ReconcileInitialOwnerBinding(new, n, c)
      BY <3>1 DEF new
    <3>7. QED
      BY <3>2, <3>5, <3>6, VerificationIsSound
  <2>3. QED
    BY <2>1, <2>2
<1>5. QED
  BY <1>2, <1>3, <1>4

(* What a pass that starts with binding b and overlay y does, told without *)
(* the policy: either it waits, or it fails to destroy, or it ensures an   *)
(* overlay.                                                                *)
LEMMA PassIsSound ==
  ASSUME BInv, NEW b, NEW y, Paced(b), y \in Overlays, Pass(b, y),
         y.exists = overlay.exists, y.madeFor = overlay.madeFor,
         y.owner = overlay.owner,
         ~recreate => Sound(b, y, identity.committed)
  PROVE  BInv'
<1>1. PICK found \in Lookups : UpdateTaskbarIdentity(found)
  BY DEF Pass
<1>2. /\ IInv' /\ now' = now /\ alive' = alive
      /\ identity'.committed # identity.committed => changed'
  BY <1>1, CommitOfALook DEF Pass, BInv
<1>3. pending' => ~changed'
  BY <1>1, UpdateIsALook DEF Look, Matures, BInv
<1>4. now \in Nat /\ alive \subseteq Identities
  BY DEF BInv, IInv, TypeOK
<1> DEFINE c == identity'.committed
           Ensured(x, o) == IF c \in alive
                              THEN EnsureOverlayWindow(x, o, c)
                              ELSE {<<x, o>>}
<1>5. ASSUME NEW x, NEW o, Sound(x, o, c), NEW r \in Ensured(x, o),
             binding' = r[1], overlay' = r[2]
      PROVE  Sound(binding', overlay', c)
  BY <1>4, <1>5, EnsuredIsSound
\* With a binding that is sound for the committed taskbar nothing is missing.
<1>6. ASSUME Sound(binding', overlay', c), recreate' \in BOOLEAN
      PROVE  BInv'
  <2>1. Paced(binding)' /\ overlay' \in Overlays
    BY <1>2, <1>6 DEF Sound, Paced
  <2>2. OwnerIsTheMaker'
    BY <1>2, <1>6 DEF Sound, OwnerIsTheMaker
  <2>3. Sound(binding, overlay, identity.committed)'
    BY <1>2, <1>6, <2>1 DEF Sound
  <2>4. (alive \subseteq Identities)' /\ OneHandleOneTaskbar'
    BY <1>2 DEF BInv, OneHandleOneTaskbar
  <2>5. QED
    BY <1>2, <1>6, <2>1, <2>2, <2>3, <2>4 DEF BInv
<1>7. ASSUME binding' = b, overlay' = y, recreate' \in BOOLEAN,
             ~recreate' => ~recreate /\ ~changed'
      PROVE  BInv'
  <2>1. Paced(binding)'
    BY <1>2, <1>7 DEF Paced
  <2>2. /\ (alive \subseteq Identities)' /\ OneHandleOneTaskbar'
        /\ overlay' \in Overlays /\ OwnerIsTheMaker'
    BY <1>2, <1>7 DEF BInv, OneHandleOneTaskbar, OwnerIsTheMaker
  <2>3. ~recreate' => Sound(binding, overlay, identity.committed)'
    BY <1>2, <1>7, <2>1 DEF Sound
  <2>4. QED
    BY <1>2, <1>7, <2>1, <2>2, <2>3 DEF BInv
<1>8. CASE pending' /\ binding' = b /\ overlay' = y /\ UNCHANGED recreate
  BY <1>3, <1>7, <1>8 DEF BInv
<1>9. CASE recreate' = TRUE /\ binding' = b /\ overlay' = y
  BY <1>7, <1>9
<1>10. CASE /\ recreate' = FALSE
            /\ \E r \in Ensured(NoBinding, NoOverlay) :
                 binding' = r[1] /\ overlay' = r[2]
  BY <1>5, <1>6, <1>10, NothingIsSound
<1>11. CASE /\ ~RecreateRequired(c) /\ UNCHANGED recreate
            /\ \E r \in Ensured(b, y) :
                 binding' = r[1] /\ overlay' = r[2]
  <2>1. Sound(b, y, c)
    BY <1>2, <1>11 DEF RecreateRequired
  <2>2. recreate' \in BOOLEAN
    BY <1>11 DEF BInv
  <2>3. PICK r \in Ensured(b, y) : binding' = r[1] /\ overlay' = r[2]
    BY <1>11
  <2> HIDE DEF c, Ensured
  <2>4. Sound(binding', overlay', c)
    BY <1>5, <2>1, <2>3
  <2>5. QED
    BY <1>6, <2>2, <2>4
<1>12. QED
  BY <1>8, <1>9, <1>10, <1>11 DEF Pass

(* A recovery arms a verification against the committed taskbar, or finds  *)
(* that it is not there.                                                   *)
LEMMA RecoveryIsSound == BInv /\ RecoverTaskbar => BInv'
<1> SUFFICES ASSUME BInv, RecoverTaskbar PROVE BInv'
  OBVIOUS
<1> DEFINE c == identity.committed
           b == Armed(binding, overlay, c.hwnd, 0)
           y == [overlay EXCEPT !.confirmed = FALSE]
<1>1. c \in Lookups /\ now \in Nat /\ overlay \in Overlays
  BY DEF BInv, IInv, TypeOK
<1>2. Paced(b) /\ (overlay.exists /\ IsWindow(c.hwnd) =>
                     b.pending /\ b.target = c.hwnd)
  BY <1>1, KnownHandles, ArmedIsPaced
<1>3. Pass(b, y)
  BY DEF RecoverTaskbar
<1>4. /\ y \in Overlays /\ y.exists = overlay.exists
      /\ y.madeFor = overlay.madeFor /\ y.owner = overlay.owner
      /\ y.confirmed = FALSE
  BY <1>1 DEF Overlays
<1> HIDE DEF b, y
<1>5. ~recreate => Sound(b, y, c)
  BY <1>2, <1>4 DEF BInv, Sound, IsWindow
<1>6. QED
  BY <1>2, <1>3, <1>4, <1>5, PassIsSound

-----------------------------------------------------------------------------
(* The steps of Windows and of Explorer.                                   *)

LEMMA EnvironmentStep ==
  ASSUME BInv,
         \/ OverlayVanishes \/ ShellClearsOwner \/ OwnerShows \/ TimePasses
         \/ \E t \in alive : TaskbarDies(t)
         \/ \E t \in Identities : TaskbarAppears(t)
  PROVE  BInv'
<1> USE DEF BInv
<1>1. CASE OverlayVanishes
  <2>1. /\ vars' = vars /\ alive' = alive /\ recreate' = recreate
        /\ overlay' = NoOverlay /\ binding' = NoBinding
    BY <1>1 DEF OverlayVanishes, WM_DESTROY
  <2>2. IInv' /\ now' = now
    BY <2>1, NextIInv DEF vars
  <2>3. Sound(NoBinding, NoOverlay, identity.committed)'
    BY NothingIsSound, <2>1, <2>2 DEF Sound, Paced, NoOverlay, NoBinding
  <2>4. (alive \subseteq Identities)' /\ OneHandleOneTaskbar'
    BY <2>1 DEF OneHandleOneTaskbar
  <2>5. Paced(binding)' /\ overlay' \in Overlays /\ OwnerIsTheMaker'
    BY <2>1, <2>3 DEF Sound, OwnerIsTheMaker, NoOverlay
  <2>6. QED
    BY <2>1, <2>2, <2>3, <2>4, <2>5
<1>2. CASE OwnerShows
  <2> DEFINE m == overlay.madeFor
  <2>1. /\ vars' = vars /\ alive' = alive /\ recreate' = recreate
        /\ binding' = binding /\ overlay.exists /\ m \in alive
        /\ overlay' = [overlay EXCEPT !.owner = m.hwnd]
    BY <1>2 DEF OwnerShows
  <2>2. IInv' /\ now' = now /\ identity' = identity
    BY <2>1, NextIInv DEF vars
  <2>3. m \in Lookups /\ m.hwnd \in Handles /\ m.hwnd # 0
    BY <2>1, KnownHandles DEF Overlays
  <2>4. /\ overlay' \in Overlays /\ overlay'.exists = overlay.exists
        /\ overlay'.madeFor = m /\ overlay'.owner = m.hwnd
        /\ overlay'.confirmed = overlay.confirmed
    BY <2>1, <2>3 DEF Overlays
  <2>5. Paced(binding)'
    BY <2>1, <2>2 DEF Paced
  <2>6. OneHandleOneTaskbar' /\ OwnerIsTheMaker'
    BY <2>1, <2>4 DEF OneHandleOneTaskbar, OwnerIsTheMaker
  <2>7. ~recreate' => Sound(binding, overlay, identity.committed)'
    BY <2>1, <2>2, <2>3, <2>4, <2>5 DEF Sound
  <2>8. QED
    BY <2>1, <2>2, <2>4, <2>5, <2>6, <2>7
<1>3. CASE TimePasses
  <2>1. /\ Tick /\ alive' = alive /\ recreate' = recreate
        /\ binding' = binding /\ overlay' = overlay
    BY <1>3 DEF TimePasses
  <2>2. IInv' /\ now' = now + 1 /\ identity' = identity
    BY <2>1, NextIInv DEF Tick, Next
  <2>3. Paced(binding)'
    <3>1. /\ now \in Nat /\ binding.since \in Nat
          /\ MaxAttempts * RetryInterval \in Nat
      BY BindingAssumption DEF IInv, TypeOK, Paced, Bindings
    <3>2. QED
      BY <2>1, <2>2, <3>1 DEF Paced
  <2>4. OneHandleOneTaskbar' /\ OwnerIsTheMaker'
    BY <2>1 DEF OneHandleOneTaskbar, OwnerIsTheMaker
  <2>5. ~recreate' => Sound(binding, overlay, identity.committed)'
    BY <2>1, <2>2, <2>3 DEF Sound
  <2>6. QED
    BY <2>1, <2>2, <2>3, <2>4, <2>5
<1>4. ASSUME NEW t \in Identities, TaskbarAppears(t) PROVE BInv'
  <2>1. /\ vars' = vars /\ recreate' = recreate
        /\ binding' = binding /\ overlay' = overlay
        /\ alive' = alive \cup {t} /\ ~IsWindow(t.hwnd)
        /\ t # identity.committed /\ t # overlay.madeFor
    BY <1>4 DEF TaskbarAppears
  <2>2. IInv' /\ now' = now /\ identity' = identity
    BY <2>1, NextIInv DEF vars
  <2>3. Paced(binding)'
    BY <2>1, <2>2 DEF Paced
  <2>4. (alive \subseteq Identities)' /\ OneHandleOneTaskbar'
    BY <2>1 DEF OneHandleOneTaskbar, IsWindow
  <2>5. OwnerIsTheMaker'
    BY <2>1 DEF OwnerIsTheMaker
  <2>6. ~recreate' => Sound(binding, overlay, identity.committed)'
    BY <2>1, <2>2, <2>3 DEF Sound
  <2>7. QED
    BY <2>1, <2>2, <2>3, <2>4, <2>5, <2>6
<1>5. ASSUME NEW t \in alive, TaskbarDies(t) PROVE BInv'
  <2>1. /\ vars' = vars /\ recreate' = recreate /\ alive' = alive \ {t}
    BY <1>5 DEF TaskbarDies
  <2>2. IInv' /\ now' = now /\ identity' = identity
    BY <2>1, NextIInv DEF vars
  <2>3. (alive \subseteq Identities)' /\ OneHandleOneTaskbar'
    BY <2>1 DEF OneHandleOneTaskbar
  <2>4. t.hwnd # 0
    BY KnownHandles
  <2>5. CASE overlay.owner # t.hwnd /\ UNCHANGED <<overlay, binding>>
    <3>1. Paced(binding)'
      BY <2>2, <2>5 DEF Paced
    <3>2. OwnerIsTheMaker'
      BY <2>1, <2>5 DEF OwnerIsTheMaker
    <3>3. ~recreate' => Sound(binding, overlay, identity.committed)'
      BY <2>1, <2>2, <2>5, <3>1 DEF Sound
    <3>4. QED
      BY <2>1, <2>2, <2>3, <2>5, <3>1, <3>2, <3>3
  <2>6. CASE WM_DESTROY
    <3>1. overlay' = NoOverlay /\ binding' = NoBinding
      BY <2>6 DEF WM_DESTROY
    <3>2. Sound(NoBinding, NoOverlay, identity.committed)'
      BY NothingIsSound, <2>2 DEF Sound, Paced, NoOverlay, NoBinding
    <3>3. Paced(binding)' /\ overlay' \in Overlays /\ OwnerIsTheMaker'
      BY <3>1, <3>2 DEF Sound, OwnerIsTheMaker, NoOverlay
    <3>4. QED
      BY <2>1, <2>2, <2>3, <3>1, <3>2, <3>3
  \* The overlay that loses its owner was made for it, so that its maker is
  \* gone.
  <2>7. CASE /\ overlay.owner = t.hwnd
             /\ overlay' = [overlay EXCEPT !.owner = 0]
             /\ UNCHANGED binding
    <3>1. /\ overlay' \in Overlays /\ overlay'.exists = overlay.exists
          /\ overlay'.madeFor = overlay.madeFor /\ overlay'.owner = 0
          /\ overlay'.confirmed = overlay.confirmed
      BY <2>7 DEF Overlays
    <3>2. Paced(binding)'
      BY <2>2, <2>7 DEF Paced
    <3>3. OwnerIsTheMaker'
      BY <3>1 DEF OwnerIsTheMaker
    <3>4. ~recreate' => Sound(binding, overlay, identity.committed)'
      BY <2>1, <2>2, <2>4, <2>7, <3>1, <3>2 DEF Sound, OneHandleOneTaskbar
    <3>5. QED
      BY <2>1, <2>2, <2>3, <3>1, <3>2, <3>3, <3>4
  <2>8. QED
    BY <1>5, <2>5, <2>6, <2>7 DEF TaskbarDies
\* Who has lost its owner to the Shell is as verified as before.
<1>6. CASE ShellClearsOwner
  <2>1. /\ vars' = vars /\ alive' = alive /\ recreate' = recreate
        /\ binding' = binding /\ overlay' = [overlay EXCEPT !.owner = 0]
    BY <1>6 DEF ShellClearsOwner
  <2>2. IInv' /\ now' = now /\ identity' = identity
    BY <2>1, NextIInv DEF vars
  <2>3. /\ overlay' \in Overlays /\ overlay'.exists = overlay.exists
        /\ overlay'.madeFor = overlay.madeFor /\ overlay'.owner = 0
        /\ overlay'.confirmed = overlay.confirmed
    BY <2>1 DEF Overlays
  <2>4. Paced(binding)'
    BY <2>1, <2>2 DEF Paced
  <2>5. OneHandleOneTaskbar' /\ OwnerIsTheMaker'
    BY <2>1, <2>3 DEF OneHandleOneTaskbar, OwnerIsTheMaker
  <2>6. ~recreate' => Sound(binding, overlay, identity.committed)'
    BY <2>1, <2>2, <2>3, <2>4 DEF Sound
  <2>7. QED
    BY <2>1, <2>2, <2>3, <2>4, <2>5, <2>6
<1>7. QED
  BY <1>1, <1>2, <1>3, <1>4, <1>5, <1>6

-----------------------------------------------------------------------------
(* The theorems.                                                           *)

LEMMA BindingInitBInv == BindingInit => BInv
<1> SUFFICES ASSUME BindingInit PROVE BInv
  OBVIOUS
<1>1. IInv
  BY InitIInv DEF BindingInit
<1>2. alive \subseteq Identities /\ OneHandleOneTaskbar
  BY DEF BindingInit, OneHandleOneTaskbar
<1>3. overlay = NoOverlay /\ binding = NoBinding /\ recreate = FALSE
  BY DEF BindingInit
<1>4. Sound(NoBinding, NoOverlay, identity.committed)
  BY NothingIsSound
<1>5. Paced(NoBinding) /\ NoOverlay \in Overlays
  BY <1>4 DEF Sound
<1>6. OwnerIsTheMaker
  BY <1>3 DEF OwnerIsTheMaker, NoOverlay
<1>7. QED
  BY <1>1, <1>2, <1>3, <1>4, <1>5, <1>6 DEF BInv

LEMMA BindingNextBInv == BInv /\ [BindingNext]_bindingVars => BInv'
<1> SUFFICES ASSUME BInv, [BindingNext]_bindingVars PROVE BInv'
  OBVIOUS
<1>1. CASE ReconcileOverlayState
  BY <1>1, PassIsSound DEF ReconcileOverlayState, BInv
<1>2. CASE RecoverTaskbar
  BY <1>2, RecoveryIsSound
<1>3. CASE UNCHANGED bindingVars
  <2>1. /\ UNCHANGED vars /\ UNCHANGED now /\ UNCHANGED identity
        /\ UNCHANGED <<alive, overlay, recreate, binding>>
    BY <1>3 DEF bindingVars, vars
  <2>2. IInv'
    BY <2>1, NextIInv DEF BInv
  <2>3. QED
    BY <2>1, <2>2 DEF BInv, OneHandleOneTaskbar, OwnerIsTheMaker, Sound, Paced
<1>4. QED
  BY <1>1, <1>2, <1>3, EnvironmentStep DEF BindingNext

LEMMA AlwaysBInv == BindingSpec => []BInv
BY BindingInitBInv, BindingNextBInv, PTL DEF BindingSpec

(* Overlay, binding and taskbars stay well-formed, and so does the         *)
(* identity record, for all handles, processes, delays and attempts.       *)
THEOREM BindingTypeCorrect == BindingSpec => [](TypeOK /\ BindingTypeOK)
<1>1. BInv => TypeOK /\ BindingTypeOK
  BY DEF BInv, IInv, BindingTypeOK, Paced, Bindings, Overlays
<1>2. QED
  BY <1>1, AlwaysBInv, PTL

(* Whoever owns the overlay is the living Explorer it was made for.        *)
THEOREM OwnerHeld == BindingSpec => []OwnedByItsMaker
<1>1. BInv => OwnedByItsMaker
  BY DEF BInv, OwnerIsTheMaker, OwnedByItsMaker
<1>2. QED
  BY <1>1, AlwaysBInv, PTL

(* What creating an overlay or recovering starts to verify is followed     *)
(* through to a reading or given up, and is not taken up again by itself   *)
(* when the Shell clears the owner.                                        *)
THEOREM VerificationHeld == BindingSpec => []VerifiedUntilConfirmed
<1>1. BInv => VerifiedUntilConfirmed
  BY DEF BInv, Sound, VerifiedUntilConfirmed
<1>2. QED
  BY <1>1, AlwaysBInv, PTL

(* Giving up takes all attempts, whatever was armed before.                *)
THEOREM PatienceHeld == BindingSpec => []PatienceIsKept
<1>1. BInv => PatienceIsKept
  BY DEF BInv, Paced, PatienceIsKept
<1>2. QED
  BY <1>1, AlwaysBInv, PTL

(* Whatever Explorer, the overlay and the binding do, the identity of the  *)
(* taskbar behaves as TaskbarIdentityPolicy alone says: every theorem above *)
(* holds of the composition.                                               *)
THEOREM BindingImplementsIdentity == BindingSpec => Spec
<1>1. BindingInit => Init
  BY DEF BindingInit
<1>2. [BindingNext]_bindingVars => [Next]_vars
  <2> SUFFICES ASSUME [BindingNext]_bindingVars PROVE [Next]_vars
    OBVIOUS
  <2>1. CASE ReconcileOverlayState \/ RecoverTaskbar
    BY <2>1 DEF ReconcileOverlayState, RecoverTaskbar, Pass, Next
  <2>2. CASE TimePasses
    BY <2>2 DEF TimePasses, Next
  <2>3. CASE UNCHANGED vars
    BY <2>3
  <2>4. QED
    BY <2>1, <2>2, <2>3 DEF BindingNext, OverlayVanishes, OwnerShows,
         ShellClearsOwner,
         TaskbarDies, TaskbarAppears, bindingVars
<1>3. QED
  BY <1>1, <1>2, PTL DEF BindingSpec, Spec

(* In the composition, too, a pass that works on the overlay has just seen *)
(* the committed taskbar.                                                  *)
THEOREM BindingWorkHeld == BindingSpec => []WorksOnlyOnTheCommitted
BY BindingImplementsIdentity, WorkHeld, PTL

(* And the identity it serves is a StableDecision about the sightings.     *)
THEOREM BindingRefines == BindingSpec => ImplementsStableDecision
BY BindingImplementsIdentity, Refines, PTL
=============================================================================
