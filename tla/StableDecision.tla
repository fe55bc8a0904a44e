--------------------------- MODULE StableDecision ---------------------------
(***************************************************************************)
(* What both reducers of overlay_policy.h promise, with no word about      *)
(* candidates: a value changes only on evidence that stayed the same for   *)
(* its whole delay, and it changes at the first look at which the evidence *)
(* is that old.  An observation outside DOMAIN ValueOf says nothing; it    *)
(* leaves the value alone and breaks the run of evidence.                  *)
(***************************************************************************)
EXTENDS Naturals

CONSTANTS
    ValueOf,   \* the value an observation speaks for
    Delay,     \* how long it has to be seen without interruption
    MaxTime    \* bound on the clock

VARIABLES
    value,     \* the decision in force
    run,       \* the latest observation and when its unbroken run began
    now        \* the clock

vars == <<value, run, now>>

Known == DOMAIN ValueOf

Extend(observation) ==
    IF observation = run.obs THEN run ELSE [obs |-> observation, since |-> now]

Mature(r) == r.obs \in Known /\ now - r.since >= Delay[r.obs]

Observe(observation) ==
    /\ run' = Extend(observation)
    /\ value' = IF Mature(run') THEN ValueOf[observation] ELSE value
    /\ UNCHANGED now

Tick ==
    /\ now < MaxTime
    /\ now' = now + 1
    /\ UNCHANGED <<value, run>>

\* The first look has not happened: the run is of something that says nothing.
Init(values, nothing) ==
    /\ value \in values
    /\ run = [obs |-> nothing, since |-> 0]
    /\ now = 0

Next(observations) == Tick \/ \E o \in observations : Observe(o)
=============================================================================
