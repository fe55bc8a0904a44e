----------------------------- MODULE RateLimiter -----------------------------
(***************************************************************************)
(* The rate limiter of logging.cpp: which failures get a line of the log,  *)
(* which are only counted, which recoveries are recorded, and when a key   *)
(* gives up its slot of the bounded table.  Failures that find the table   *)
(* full share one entry, Overflow.                                         *)
(*                                                                         *)
(* A time point of the code is kept as the time left until it, and 0 when  *)
(* it is unset or over: the code never tells those two apart.  The totals  *)
(* and durations a line carries are left out, and so is the minimum level, *)
(* taken to be one that lets failures pass.                                *)
(***************************************************************************)
EXTENDS Naturals, FiniteSets

CONSTANTS
    Keys,               \* what failures are filed under
    Repeated,           \* those whose component keeps saying that it works
    Overflow,           \* the entry of those the table has no room for
    Capacity,           \* kMaxRateLimitEntries
    Interval,           \* interval_ms of the callers
    OverflowInterval,   \* kOverflowLogInterval
    RetryInterval,      \* kRecoveryRetryInterval
    MaxPending          \* bound: failures an entry has counted at once

ASSUME LimiterAssumption ==
    /\ Overflow \notin Keys /\ Repeated \subseteq Keys
    /\ Capacity \in Nat /\ MaxPending \in Nat
    /\ Interval \in Nat /\ OverflowInterval \in Nat /\ RetryInterval \in Nat

Places == Keys \cup {Overflow}
Warning == 1
Error == 2
Levels == {Warning, Error}

VARIABLES
    enabled,    \* g_logging.enabled
    table,      \* the keys of g_logging.rate_limits
    entry,      \* their entries, and overflow_rate_limit
    calm,       \* from here on nothing fails, not even the writing
    reported,   \* history: keys with a failure line and no recovery record since
    cooling,    \* history: the time left of the cooldown of the latest line
    untold      \* history: failures no line has told of, and the worst of them

vars == <<enabled, table, entry, calm, reported, cooling, untold>>

\* RateLimitEntry{}.
FreshEntry == [level |-> Warning, wait |-> 0, retry |-> 0, pending |-> 0,
               active |-> FALSE, logged |-> FALSE]

Entries == [level : Levels, wait : Nat, retry : Nat, pending : Nat,
            active : BOOLEAN, logged : BOOLEAN]

AllTold == [count |-> 0, worst |-> Warning]
Worse(a, b) == IF a > b THEN a ELSE b
Telling(u, level) == [count |-> u.count + 1, worst |-> Worse(u.worst, level)]

\* What a write may come to: the lock is not had in time, the file cannot be
\* opened, the disk is full.
Writes == IF ~enabled THEN {FALSE} ELSE IF calm THEN {TRUE} ELSE BOOLEAN

\* StartSessionLocked.
NewSession ==
    /\ table' = {}
    /\ entry' = [p \in Places |-> FreshEntry]
    /\ reported' = {}
    /\ cooling' = [p \in Places |-> 0]
    /\ untold' = [p \in Places |-> AllTold]

Init ==
    /\ enabled \in BOOLEAN /\ calm = FALSE
    /\ table = {} /\ entry = [p \in Places |-> FreshEntry]
    /\ reported = {}
    /\ cooling = [p \in Places |-> 0]
    /\ untold = [p \in Places |-> AllTold]

-----------------------------------------------------------------------------
(* LogRateLimitedMessage.                                                  *)

PlaceFor(k) ==
    IF k \in table \/ Cardinality(table) < Capacity THEN k ELSE Overflow

\* (Faulty variant: the level of a period is that of its first failure.)
FaultyOpened(e, level) ==
    IF e.active THEN e
    ELSE [e EXCEPT !.active = TRUE, !.logged = FALSE, !.level = level]

\* The first failure of a period sets the level, a later one may raise it.
\* first_seen is set exactly while the entry is active.
Opened(e, level) ==
    IF e.active THEN [e EXCEPT !.level = Worse(@, level)]
    ELSE [e EXCEPT !.active = TRUE, !.logged = FALSE, !.level = level]

Files(k) ==
    /\ enabled /\ ~calm
    /\ entry[PlaceFor(k)].pending < MaxPending
    /\ table' = table \cup ({PlaceFor(k)} \cap Keys)

Counted(e) == [e EXCEPT !.pending = @ + 1]

\* Within the cooldown a failure is only counted.
SuppressFailure(k, level) ==
    /\ Files(k)
    /\ LET p == PlaceFor(k)
       IN  /\ entry[p].wait > 0
           /\ entry' = [entry EXCEPT ![p] = Counted(Opened(@, level))]
           /\ untold' = [untold EXCEPT ![p] = Telling(@, level)]
    /\ UNCHANGED <<enabled, calm, reported, cooling>>

CooldownOf(p) == IF p = Overflow THEN OverflowInterval ELSE Interval

\* (Faulty variant: a line counts as written although it could not be.)
FaultyAfterLine(e, p, written) ==
    [e EXCEPT !.wait = CooldownOf(p), !.logged = TRUE,
              !.pending = IF written THEN 0 ELSE @ + 1]

\* A line tells of the failures suppressed before it as well; one that cannot
\* be written is itself suppressed.
AfterLine(e, p, written) ==
    IF written
      THEN [e EXCEPT !.wait = CooldownOf(p), !.logged = TRUE, !.pending = 0,
                     !.level = IF p = Overflow THEN Warning ELSE @]
      ELSE [e EXCEPT !.wait = CooldownOf(p), !.pending = @ + 1]

LogFailure(k, level) ==
    /\ Files(k)
    /\ LET p == PlaceFor(k)
       IN  /\ entry[p].wait = 0
           /\ \E written \in Writes :
                /\ entry' = [entry EXCEPT ![p] =
                               AfterLine(Opened(@, level), p, written)]
                /\ untold' = [untold EXCEPT ![p] =
                                IF written THEN AllTold ELSE Telling(@, level)]
                /\ reported' = IF written THEN reported \cup ({p} \cap Keys)
                                          ELSE reported
           /\ cooling' = [cooling EXCEPT ![p] = CooldownOf(p)]
    /\ UNCHANGED <<enabled, calm>>

-----------------------------------------------------------------------------
(* LogFailureRecovered.                                                    *)

\* A closed entry stays as long as its cooldown: without it a component that
\* flaps would get a line for every failure.
\* (Faulty variant: a closed entry is dropped at once.)
FaultyForgettable(e) == ~e.active

Forgettable(e) == ~e.active /\ e.wait = 0

ForgetKey(k) ==
    /\ k \in table /\ Forgettable(entry[k])
    /\ table' = table \ {k}
    /\ entry' = [entry EXCEPT ![k] = FreshEntry]
    /\ UNCHANGED <<enabled, calm, reported, cooling, untold>>

\* The cooldown is all that is left of a period that is over.
\* (Faulty variant: the period is not marked as over.)
FaultyClosed(e) == [e EXCEPT !.logged = FALSE, !.pending = 0]

Closed(e) == [FreshEntry EXCEPT !.wait = e.wait]

\* A period no line told of is closed without one.
CloseSilently(k) ==
    /\ k \in table /\ entry[k].active /\ ~entry[k].logged
    /\ entry' = [entry EXCEPT ![k] = Closed(@)]
    /\ untold' = [untold EXCEPT ![k] = AllTold]
    /\ UNCHANGED <<enabled, calm, table, reported, cooling>>

RecordRecovery(k) ==
    /\ k \in table /\ entry[k].active /\ entry[k].logged /\ entry[k].retry = 0
    /\ \E written \in Writes :
         IF written
           THEN /\ entry' = [entry EXCEPT ![k] = Closed(@)]
                /\ reported' = reported \ {k}
                /\ untold' = [untold EXCEPT ![k] = AllTold]
           ELSE /\ entry' = [entry EXCEPT ![k].retry = RetryInterval]
                /\ UNCHANGED <<reported, untold>>
    /\ UNCHANGED <<enabled, calm, table, cooling>>

LogFailureRecovered(k) == ForgetKey(k) \/ CloseSilently(k) \/ RecordRecovery(k)

-----------------------------------------------------------------------------
(* ReloadConfigAndRefresh, as far as it is about the log.                  *)

Flushes(p) == entry[p].active /\ entry[p].pending > 0

\* FlushLogSummaries, for one entry.
Flushed(p, written) ==
    LET told == Flushes(p) /\ written
    IN  [entry[p] EXCEPT
           !.pending = IF told THEN 0 ELSE @,
           !.level = IF p = Overflow /\ (told \/ entry[p].pending = 0)
                       THEN Warning ELSE @]

\* Switched off: what has been counted is told before.
DisableLog ==
    /\ enabled /\ ~calm
    /\ \E written \in [Places -> Writes] :
         /\ entry' = [p \in Places |-> Flushed(p, written[p])]
         /\ untold' = [p \in Places |-> IF Flushes(p) /\ written[p]
                                          THEN AllTold ELSE untold[p]]
    /\ enabled' = FALSE
    /\ UNCHANGED <<calm, table, reported, cooling>>

\* Switched on: ResetLog starts a session.
EnableLog ==
    /\ ~enabled /\ ~calm
    /\ enabled' = TRUE
    /\ NewSession
    /\ UNCHANGED calm

-----------------------------------------------------------------------------
Less(n) == IF n = 0 THEN 0 ELSE n - 1

Aged(e) == [e EXCEPT !.wait = Less(@), !.retry = Less(@)]

Tick ==
    /\ \E p \in Places : entry[p].wait > 0 \/ entry[p].retry > 0
    /\ entry' = [p \in Places |-> Aged(entry[p])]
    /\ cooling' = [p \in Places |-> Less(cooling[p])]
    /\ UNCHANGED <<enabled, table, calm, reported, untold>>

ComesToRest ==
    /\ enabled /\ ~calm
    /\ calm' = TRUE
    /\ UNCHANGED <<enabled, table, entry, reported, cooling, untold>>

Next ==
    \/ \E k \in Keys :
         \/ \E level \in Levels : SuppressFailure(k, level) \/ LogFailure(k, level)
         \/ LogFailureRecovered(k)
    \/ DisableLog \/ EnableLog
    \/ Tick \/ ComesToRest

Spec == Init /\ [][Next]_vars

(* Time passes, and a component with a key of Repeated says again and      *)
(* again that it works: the samplers do at every sample, painting in every *)
(* render.  The other keys (of a window that is created, of a query that   *)
(* is opened) are reported recovered once, and nothing is promised for     *)
(* them.                                                                   *)
FairSpec ==
    /\ Spec /\ WF_vars(Tick)
    /\ \A k \in Repeated : WF_vars(LogFailureRecovered(k))

-----------------------------------------------------------------------------
(* Properties.                                                             *)

(* Type correctness; what is not in the table has no entry.                *)
TypeOK ==
    /\ enabled \in BOOLEAN /\ calm \in BOOLEAN
    /\ table \subseteq Keys
    /\ entry \in [Places -> Entries]
    /\ reported \subseteq Keys
    /\ cooling \in [Places -> Nat]
    /\ untold \in [Places -> [count : Nat, worst : Levels]]
    /\ \A k \in Keys \ table : entry[k] = FreshEntry

(* The cooldown after a line outlives recoveries, silent closings and the  *)
(* dropping of entries: however a component flaps, the next line comes no  *)
(* sooner than one that keeps failing would get it.                        *)
CooldownIsKept == \A p \in Places : entry[p].wait = cooling[p]

(* A recovery record is still due for exactly those keys whose failure got *)
(* a line: none is recorded twice or without a failure line, and no slot   *)
(* is given up while a record is due (README.md: one recovery record for   *)
(* each reported failure period).                                          *)
RecordIsDueForReported ==
    \A k \in Keys :
        k \in reported <=> k \in table /\ entry[k].active /\ entry[k].logged

(* Every failure of an open period that no line has told of is in the      *)
(* count the next line will tell, and a summary is written at the level of *)
(* the worst of them, through writes that fail and the shared entry.       *)
NothingIsUncounted ==
    \A p \in Places :
        /\ entry[p].pending = untold[p].count
        /\ entry[p].pending > 0 => /\ entry[p].active
                                   /\ entry[p].level >= untold[p].worst

(* Once everything works again, the recovery of every key of Repeated is   *)
(* recorded, and its place in the table becomes free for other keys.       *)
TableDrains == calm ~> [](Repeated \cap (table \cup reported) = {})
=============================================================================
