------------------------------ MODULE PdhGroup ------------------------------
(***************************************************************************)
(* One PDH counter group of main-dev.cpp (GPU or disk): its query, what    *)
(* happens when a call of the provider fails at any of its stages, and the *)
(* attempts to build the group anew, paced by a tick count that wraps.     *)
(*                                                                         *)
(* pc is where SampleMetrics is, from one PDH call to the next.  A value   *)
(* is reduced to where it comes from: "measured" with the present query,   *)
(* "before" with an earlier one, or nowhere ("none", the code's -1).       *)
(***************************************************************************)
EXTENDS Integers

CONSTANTS
    TickRange,      \* 2^32, the range of GetTickCount
    RetryInterval,  \* kPdhRetryIntervalMs
    MaxGap,         \* bound: ticks between two samples
    VisibleGap,     \* the same while the overlay is visible
    WildcardArray   \* the group's mode: an array of instances, or one value

HalfRange == TickRange \div 2

ASSUME PdhAssumption ==
    /\ TickRange \in Nat /\ TickRange = 2 * HalfRange
    /\ RetryInterval \in 1 .. HalfRange - 2
    /\ MaxGap \in Nat /\ VisibleGap \in 0 .. MaxGap
    /\ WildcardArray \in BOOLEAN

InitStages == {"open_query", "add_counter", "initial_collect"}
Stages == InitStages \cup
          {"collect", "format_array", "format_value", "sample_transient"}

VARIABLES
    pc,         \* where SampleMetrics is
    now,        \* GetTickCount()
    group,      \* the group's fields
    value,      \* group.value
    shown,      \* metrics.current: what the overlay displays
    provider,   \* "free", or for good: "works", "broken" (no value to be read)
    queries,    \* the queries the provider holds open for the group
    gap,        \* ticks since the last sample
    waited,     \* history: ticks since the last failure or attempt
    collected,  \* history: when the present query was last collected
    failing     \* history: the stages whose failure period is open

vars == <<pc, now, group, value, shown, provider, queries, gap, waited,
          collected, failing>>

NoGroup == [ready |-> FALSE, query |-> FALSE, counter |-> FALSE,
            second |-> FALSE, last |-> 0, known |-> FALSE, available |-> FALSE]

Init ==
    /\ pc = "off" /\ now \in 0 .. TickRange - 1
    /\ group = NoGroup /\ value = "none" /\ shown = "none"
    /\ provider = "free" /\ queries = 0
    /\ gap = 0 /\ waited = 0 /\ collected = "never" /\ failing = {}

CanFail == provider # "works"

\* 0 means "no attempt yet", so a tick of 0 is taken for 1.
\* (Faulty variant: it is not.)
FaultyStamp(tick) == tick
Stamp(tick) == IF tick = 0 THEN 1 ELSE tick

-----------------------------------------------------------------------------
(* InitPdhGroup, from RebuildPdhGroup or at startup.  In both cases the    *)
(* group is sampled next: at startup RecoverPdhGroupIfNeeded looks at it   *)
(* once more, right after the attempt, and has nothing to do.              *)

HasUsableHandles == group.query /\ group.counter

\* ReportPdhFailure.
Failed(g) == [g EXCEPT !.known = TRUE, !.available = FALSE, !.ready = FALSE,
                       !.last = Stamp(now)]

\* (Faulty variant: the query of a group that failed is forgotten, not closed.)
FaultyAfterReset == queries
AfterReset == IF group.query THEN queries - 1 ELSE queries

StartInit ==
    /\ pc' = "open"
    /\ group' = [group EXCEPT !.query = FALSE, !.counter = FALSE,
                              !.ready = FALSE, !.second = FALSE,
                              !.last = Stamp(now)]
    /\ queries' = AfterReset
    /\ value' = IF value = "measured" THEN "before" ELSE value
    /\ waited' = 0 /\ collected' = "never"
    /\ UNCHANGED <<now, shown, provider, gap, failing>>

Initialize == pc = "off" /\ StartInit

Recovered(stage) == failing' = failing \ {stage}

OpenQuery ==
    /\ pc = "open"
    /\ pc' = "add" /\ Recovered("open_query")
    /\ group' = [group EXCEPT !.query = TRUE] /\ queries' = queries + 1
    /\ UNCHANGED <<now, value, shown, provider, gap, waited, collected>>

OpenFails ==
    /\ pc = "open" /\ CanFail
    /\ pc' = "sample" /\ failing' = failing \cup {"open_query"}
    /\ group' = Failed(group) /\ waited' = 0
    /\ UNCHANGED <<now, value, shown, provider, queries, gap, collected>>

AddCounter ==
    /\ pc = "add"
    /\ pc' = "first" /\ Recovered("add_counter")
    /\ group' = [group EXCEPT !.counter = TRUE]
    /\ UNCHANGED <<now, value, shown, provider, queries, gap, waited, collected>>

\* The query of an attempt that fails is closed at once.
Abandoned(g) == [Failed(g) EXCEPT !.query = FALSE, !.counter = FALSE]

AttemptFails(stage) ==
    /\ CanFail
    /\ pc' = "sample" /\ failing' = failing \cup {stage}
    /\ group' = Abandoned(group) /\ queries' = queries - 1 /\ waited' = 0
    /\ UNCHANGED <<now, value, shown, provider, gap, collected>>

AddFails == pc = "add" /\ AttemptFails("add_counter")

\* (Faulty variant: the next collection is taken for a second one.)
FaultyInitialized(g) ==
    [g EXCEPT !.ready = TRUE, !.known = TRUE, !.available = TRUE]

Initialized(g) ==
    [g EXCEPT !.ready = TRUE, !.second = TRUE, !.known = TRUE, !.available = TRUE]

InitialCollect ==
    /\ pc = "first"
    /\ pc' = "sample" /\ Recovered("initial_collect")
    /\ group' = Initialized(group) /\ collected' = "now"
    /\ UNCHANGED <<now, value, shown, provider, queries, gap, waited>>

InitialCollectFails == pc = "first" /\ AttemptFails("initial_collect")

-----------------------------------------------------------------------------
(* SampleMetrics, as far as it is about the group.                         *)

SampleMetrics ==
    /\ pc = "idle"
    /\ pc' = "recover" /\ gap' = 0
    /\ collected' = IF collected = "now" THEN "earlier" ELSE collected
    /\ UNCHANGED <<now, group, value, shown, provider, queries, waited, failing>>

Usable == group.ready /\ HasUsableHandles

\* (Faulty variant: ticks are compared as if they never wrapped.)
FaultyTickPassed(deadline) == now >= deadline

\* static_cast<int32_t>(now - deadline) >= 0.
TickPassed(deadline) == (now - deadline) % TickRange < HalfRange

\* ShouldReinitializePdhGroup.
ShouldReinitialize ==
    /\ ~Usable
    /\ group.last = 0 \/ TickPassed((group.last + RetryInterval) % TickRange)

RebuildPdhGroup == pc = "recover" /\ ShouldReinitialize /\ StartInit

LeavePdhGroup ==
    /\ pc = "recover" /\ ~ShouldReinitialize
    /\ pc' = "sample"
    /\ UNCHANGED <<now, group, value, shown, provider, queries, gap, waited,
                   collected, failing>>

\* SamplePdhGroup.
SampleUnusable ==
    /\ pc = "sample" /\ ~Usable
    /\ pc' = "idle" /\ shown' = "none"
    /\ UNCHANGED <<now, group, value, provider, queries, gap, waited, collected,
                   failing>>

\* A failure, after the stages in passed have been reported recovered.
SampleFails(stage, passed) ==
    /\ pc' = "idle" /\ shown' = "none"
    /\ group' = Failed(group) /\ waited' = 0
    /\ failing' = (failing \ passed) \cup {stage}
    /\ UNCHANGED <<now, value, provider, queries, gap, collected>>

CollectFails == pc = "sample" /\ Usable /\ CanFail /\ SampleFails("collect", {})

\* After the collection of the attempt itself, this one is too early for a
\* value: the previous one stays.
CollectSecond ==
    /\ pc = "sample" /\ Usable /\ group.second
    /\ pc' = "idle" /\ shown' = value
    /\ group' = [group EXCEPT !.second = FALSE]
    /\ collected' = "now" /\ Recovered("collect")
    /\ UNCHANGED <<now, value, provider, queries, gap, waited>>

\* From here on "now" in collected would be this collection: what matters is
\* the one before it.
Collect ==
    /\ pc = "sample" /\ Usable /\ ~group.second
    /\ pc' = "format" /\ Recovered("collect")
    /\ UNCHANGED <<now, group, value, shown, provider, queries, gap, waited,
                   collected>>

\* ReadFormattedCounterArray.
ArrayRead == IF WildcardArray THEN {"format_array"} ELSE {}

FormatFails ==
    /\ pc = "format" /\ CanFail
    /\ \/ WildcardArray /\ SampleFails("format_array", {})
       \/ SampleFails("format_value", ArrayRead)

\* A calculation that is negative for once: the previous value stays.
FormatTransient ==
    /\ pc = "format" /\ provider = "free"
    /\ pc' = "idle" /\ shown' = value /\ collected' = "now"
    /\ failing' = (failing \ ArrayRead) \cup {"sample_transient"}
    /\ UNCHANGED <<now, group, value, provider, queries, gap, waited>>

\* (Faulty variant: a sample that was held is never reported recovered.)
FaultyValueRead == ArrayRead \cup {"format_value"}
ValueRead == ArrayRead \cup {"format_value", "sample_transient"}

FormatValue ==
    /\ pc = "format" /\ provider # "broken"
    /\ pc' = "idle" /\ value' = "measured" /\ shown' = "measured"
    /\ group' = [group EXCEPT !.known = TRUE, !.available = TRUE]
    /\ collected' = "now" /\ failing' = failing \ ValueRead
    /\ UNCHANGED <<now, provider, queries, gap, waited>>

-----------------------------------------------------------------------------
\* Beyond this the retry may be taken for one that lies ahead.
Forever == RetryInterval + HalfRange

\* What the gaps may be is a matter of the overlay alone; it is visible for good
\* where the provider works for good.
LongestGap == IF provider = "works" THEN VisibleGap ELSE MaxGap

\* PDH calls take their time, too; the readings of one RecoverPdhGroupIfNeeded
\* are taken for one.
Tick ==
    /\ pc \notin {"off", "recover"} /\ gap < LongestGap
    /\ now' = (now + 1) % TickRange /\ gap' = gap + 1
    /\ waited' = IF waited < Forever THEN waited + 1 ELSE waited
    /\ UNCHANGED <<pc, group, value, shown, provider, queries, collected, failing>>

Settles ==
    /\ provider = "free"
    /\ provider' \in {"works", "broken"}
    /\ UNCHANGED <<pc, now, group, value, shown, queries, gap, waited, collected,
                   failing>>

InitPdhGroup ==
    \/ OpenQuery \/ OpenFails \/ AddCounter \/ AddFails
    \/ InitialCollect \/ InitialCollectFails

SamplePdhGroup ==
    \/ SampleUnusable \/ CollectFails \/ CollectSecond \/ Collect
    \/ FormatFails \/ FormatTransient \/ FormatValue

Step == RebuildPdhGroup \/ LeavePdhGroup \/ InitPdhGroup \/ SamplePdhGroup

Next == Initialize \/ SampleMetrics \/ Step \/ Tick \/ Settles

Spec == Init /\ [][Next]_vars

(* The providers are initialized (ReconcileQueue), time passes, an overlay *)
(* that is visible is sampled with every refresh, and a sample is carried  *)
(* through.  Time is strongly fair: it cannot stand still while samples    *)
(* follow each other.                                                      *)
FairSpec ==
    /\ Spec /\ WF_vars(Initialize) /\ WF_vars(SampleMetrics) /\ WF_vars(Step)
    /\ SF_vars(Tick)

-----------------------------------------------------------------------------
(* Properties.                                                             *)

(* Type correctness.                                                       *)
TypeOK ==
    /\ pc \in {"off", "idle", "recover", "open", "add", "first", "sample", "format"}
    /\ now \in 0 .. TickRange - 1
    /\ group \in [ready : BOOLEAN, query : BOOLEAN, counter : BOOLEAN,
                  second : BOOLEAN, last : 0 .. TickRange - 1,
                  known : BOOLEAN, available : BOOLEAN]
    /\ value \in {"none", "before", "measured"}
    /\ shown \in {"none", "before", "measured"}
    /\ provider \in {"free", "works", "broken"}
    /\ queries \in Nat /\ gap \in 0 .. MaxGap /\ waited \in 0 .. Forever
    /\ collected \in {"never", "now", "earlier"}
    /\ failing \subseteq Stages

(* The provider holds no query but the group's, through attempts that fail *)
(* at any stage and groups that failed with their query open.              *)
NoQueryLeaks == queries = (IF group.query THEN 1 ELSE 0)

(* Between two samples the log's last word on the provider (available or   *)
(* not) is whether the group is in use.                                    *)
AvailabilityIsTrue ==
    pc = "idle" => group.known /\ group.available = Usable

(* A rate needs two collections some time apart: a value is never computed *)
(* from two collections of one SampleMetrics.                              *)
MeasuresOverAnInterval == pc = "format" => collected = "earlier"

(* However often the group is sampled and wherever the tick count wraps,   *)
(* it is built anew no sooner than the interval after the last failure.    *)
BackoffIsKept ==
    [][pc = "recover" /\ pc' = "open" => waited >= RetryInterval]_vars

(* A group that is out of use is built anew by the first sample after the  *)
(* interval, wherever the tick count wraps, unless nothing was sampled for *)
(* half its range (almost 25 days).                                        *)
DueIsRetried ==
    [][/\ pc = "recover" /\ pc' # pc /\ ~Usable
       /\ waited \in RetryInterval + 1 .. Forever - 1
       => pc' = "open"]_vars

(* Once the provider works, values are measured for good and every failure *)
(* has been reported recovered.                                            *)
Recovers == provider = "works" ~>
    [](group.available /\ value = "measured" /\ shown = value /\ failing = {})

(* src/README.md 93-94: a counter that is unavailable is shown as "--".    *)
(* A counter from which no value can be read any more, and that is shown   *)
(* so, should stay so.                                                     *)
UnavailableIsShown ==
    [][provider = "broken" /\ shown = "none" => shown' = "none"]_vars
=============================================================================
