------------------------ MODULE TaskbarIdentityPolicy ------------------------
(***************************************************************************)
(* ReduceTaskbarIdentity as the machine the reconciler drives: every pass  *)
(* looks the taskbar up (CurrentTaskbarIdentity) and learns whether it may *)
(* work on the overlay, has to wait, or has a new Explorer to serve.       *)
(* run and lastSeen are history variables, as in SuppressionPolicy.        *)
(***************************************************************************)
EXTENDS OverlayPolicy

CONSTANTS
    Handles,    \* window handles Explorer's taskbar may have
    Pids,       \* process ids Explorer may have
    MaxTime     \* bound on the clock

ASSUME IdentityAssumption ==
    /\ Handles \subseteq Nat \ {0} /\ Pids \subseteq Nat \ {0}
    /\ MaxTime \in Nat

VARIABLES
    identity,   \* PlacementState::taskbar_identity
    pending,    \* the latest result's pending
    changed,    \* the latest result's committed_changed
    now, run, lastSeen

vars == <<identity, pending, changed, now, run, lastSeen>>

Identities == [hwnd : Handles, pid : Pids]

\* FindWindow may find nothing, and a window's process may be gone already.
Lookups == Identities \cup {NoIdentity} \cup [hwnd : Handles, pid : {0}]

\* A failed lookup says nothing whichever field is missing.
Evidence(observed) == IF IdentityKnown(observed) THEN observed ELSE NoIdentity

\* InitializeMonitor commits whatever it finds without settling.
Init ==
    /\ \E found \in Lookups : identity = SettledIdentity(found)
    /\ pending = TRUE /\ changed = FALSE      \* no result yet
    /\ now = 0 /\ lastSeen = 0
    /\ run = [obs |-> NoIdentity, since |-> 0]

UpdateTaskbarIdentity(observed) ==
    LET result == ReduceTaskbarIdentity(identity, observed, now)
    IN  /\ identity' = result.state
        /\ pending' = result.pending
        /\ changed' = result.changed
        /\ run' = IF Evidence(observed) = run.obs
                    THEN run ELSE [obs |-> Evidence(observed), since |-> now]
        /\ lastSeen' = now
        /\ UNCHANGED now

Tick ==
    /\ now < MaxTime
    /\ now' = now + 1
    /\ UNCHANGED <<identity, pending, changed, run, lastSeen>>

Next == Tick \/ \E o \in Lookups : UpdateTaskbarIdentity(o)

Spec == Init /\ [][Next]_vars

-----------------------------------------------------------------------------
(* Type correctness of the identity record and of the latest result.       *)
TypeOK ==
    /\ identity \in [committed : Lookups, candidate : Lookups, since : Nat,
                     active : BOOLEAN]
    /\ pending \in BOOLEAN /\ changed \in BOOLEAN
    /\ now \in Nat /\ lastSeen \in Nat
    /\ run \in [obs : Identities \cup {NoIdentity}, since : Nat]

(* The candidate is exactly the unbroken run of sightings of an identity   *)
(* other than the committed one, from the run's first sighting on.         *)
CandidateIsTheRun ==
    /\ run.since <= lastSeen /\ lastSeen <= now
    /\ identity.active <=>
         IdentityKnown(run.obs) /\ run.obs # identity.committed
    /\ identity.active =>
         identity.candidate = run.obs /\ identity.since = run.since
    /\ ~identity.active => identity = SettledIdentity(identity.committed)

(* Promptness: an Explorer that has been seen for the settle delay is the  *)
(* committed one; the overlay cannot wait for it forever.                  *)
NoOverdueIdentity ==
    IdentityKnown(run.obs) /\ lastSeen - run.since >= SettleDelay
        => identity.committed = run.obs

(* A pass that is not told to wait looked up the very taskbar, window and  *)
(* process, that is committed: the overlay is never worked on against an   *)
(* Explorer that was not just seen.                                        *)
WorksOnlyOnTheCommitted ==
    ~pending => IdentityKnown(run.obs) /\ run.obs = identity.committed

(* Every change of generation is reported to the pass that made it, and    *)
(* nothing else is reported: a missed report would leave an overlay owned  *)
(* by a dead Explorer, a false one would rebuild a good overlay.           *)
EveryGenerationIsReported ==
    [][identity'.committed # identity.committed => changed']_vars

-----------------------------------------------------------------------------
(* Refinement: the committed identity is a StableDecision about the        *)
(* sightings, a failed lookup being the observation that says nothing.     *)
Stable == INSTANCE StableDecision WITH
    ValueOf <- [i \in Identities |-> i],
    Delay <- [i \in Identities |-> SettleDelay],
    value <- identity.committed

StableInit == Stable!Init(Lookups, NoIdentity)
StableNext == Stable!Next(Identities \cup {NoIdentity})

ImplementsStableDecision ==
    StableInit /\ [][StableNext]_<<identity.committed, run, now>>
=============================================================================
