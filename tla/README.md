# Simple Monitor: specifications and proofs

TLA+ modules about the overlay program in `src/`: what its policies decide, what
its reconciler does to the overlay window while Explorer, the desktop and the
Win32 calls misbehave, how its requests reach the reconciler, how its counters
come back after failures, what its log tells of them and how its processes share the
log's file, and what the released program does without a reconciler. TLC checks every
module on small instances; TLAPS proves the results named below for every value of
the constants.

Contents: [1 The system](#1-the-system) - [2 Modules](#2-modules) -
[3 Runs](#3-runs-bounds-and-results) - [4 Fairness](#4-fairness) -
[5 Proofs](#5-proofs) - [6 Abstractions](#6-abstractions) -
[7 Observations](#7-observations-about-the-code) - [8 Plan](#8-plan)

## 1 The system

Two programs are built from the repository: `simple_monitor.exe` (stable,
`src/main.cpp`) and `simple_monitor_dev.exe` (`src/main-dev.cpp` with
`src/overlay_policy.h` and `src/metric_refresh_policy.h`). Both link
`src/logging.cpp` and `src/app_support.cpp`. Each is a single-threaded Win32 program
with a hidden controller window that receives timers, tray messages and Shell
notifications, and a layered overlay window placed over the taskbar. What is hard
in it is not parallel threads but the outside: Explorer exits and restarts with
a new (or the same) window handle, calls fail, windows are destroyed by others, messages
are sent into the middle of a pass, and decisions are delayed by dwell times.

### Inventory

| Component (source) | State | Operations | Interacts with |
|---|---|---|---|
| Suppression policy (`overlay_policy.h` 7-162; `main-dev.cpp` 879-1170, 4181-4260) | `SuppressionPolicyState`: committed reason, candidate, profile, since, active | `ObserveSuppression`, `ReduceSuppressionPolicy` | called once by every pass; its committed reason also steers what `ObservePresentation` looks at |
| Taskbar identity policy (`overlay_policy.h` 272-344; `main-dev.cpp` 845-865, 2907-2942) | committed and candidate (handle, process), since, active | `CurrentTaskbarIdentity`, `ReduceTaskbarIdentity` | first step of every pass: wait, go on, or a new generation |
| Overlay reconciler (`main-dev.cpp` 1810-1834, 2225-2368, 2756-3151, 3832-4475, 4530-4697, 4978-5008) | overlay handle, its owner, deferred flags, retry ticks, freeze and resume of screenshots, click-through | `ReconcileOverlayStateOnce`, `EnsureOverlayWindow`, `PrepareOverlayForShow`, `RepairOverlayInvariant`, `DestroyOverlayWindow` | the only code that shows, hides, creates or destroys the overlay; it reads both policies |
| Reconcile queue (`main-dev.cpp` 4477-4528, 1836-1892, 4705-4976) | active, pending and queued flags, message_queued, tray-layout latch, task-view transition and stabilisation | `ReconcileOverlayState`, `RequestOverlayReconcile`, the message and timer handlers, `TrayEventProc` | starts passes, also from messages that are sent into a running pass |
| Initial owner binding (`main-dev.cpp` 2614-2748, `overlay_policy.h` 30-60) | pending, exhausted, attempts, target, next retry | `ReconcileInitialOwnerBinding` | called by a pass after the overlay exists; restarted by a new overlay and a manual recovery |
| Metric samplers (`main-dev.cpp` 1300-1807, `metric_refresh_policy.h`) | PDH queries and counters, invalid streaks, backoff ticks, previous CPU and adapter counters | `SampleMetrics` and the group's initialise / rebuild / recover | called by a visible pass and by the refresh timer |
| Logging (`logging.cpp`) | rate-limit table, failure periods, session header, log files, interprocess mutex | `LogRateLimitedMessage`, `LogFailureRecovered`, `WriteMessageLocked`, `RotateLogLocked` | called by everything; shared with the other process |
| Configuration and startup helpers (`app_support.cpp`) | configuration path, startup registry value | `ResolveConfigPath`, parsing | read at start |
| Stable overlay (`main.cpp`) | visibility and freeze flags, timers, z-order burst | `HandleTimer`, `RepositionWindow`, `KeepOverlayOnTop`, suppression updates | the released build's simpler overlay, without a reconciler |
| Rendering, layout, tray menu, theme | fonts, colours, rectangles | drawing and measuring | their success or failure is an outcome of the reconciler's calls |

### What makes it correct, and where that is hard

* *Policies.* A decision changes only on evidence that lasted its delay, and does so
  at the first look at which it has; a run of evidence broken by an unknown
  observation, by a change of profile or by another candidate starts anew. The
  profile depends on the reason already committed, so an overlay hidden with the
  taskbar must not return on PowerPoint's fast exit. Handles are reused, so a
  generation is a handle with a process.
* *Reconciler.* One overlay at most; it belongs to the committed Explorer; nothing
  visible is unpainted; nothing is shown against the decision in force or hidden without
  a reason; a click-through toggle and a lost tray icon are never forgotten by one
  of a pass's early returns; and once the disturbances end, the overlay is restored.
* *Queue.* Passes never nest, no request is lost although messages arrive inside a
  pass and posts fail, and a task-view switch ends in a stabilising pass.
* *Owner binding.* The overlay's owner is the Explorer it was made for, window and process,
  or nobody. A new overlay, and one somebody asks to recover, is verified until that owner has been read
  once, or is given up after all its attempts. After that nothing watches the owner: the Shell clears it
  while Start or Search is open (`main-dev.cpp` 2509-2512), and that must not start a repair
  (`tests/overlay_policy_tests.cpp` 331-334).
* *Logging.* One line for each lasting failure, one record of its recovery; every failure counted until it is
  told or its period ends without a line ever written of it (`logging.cpp` 676-685); records of two
  processes in one piece; nothing lost but by a rotation or counted.
* *Stable overlay.* Its handlers run nested in one another, as Windows sends messages from
  within `ShowWindow` and `SetWindowPos`: what one has hidden another must not show, and whatever
  they leave behind is put right by the timers.
* *The rest*: see the hazards of `PROJECT.json`, each at its line, with the
  properties that cover it or the reason why none does yet.

## 2 Modules

`OverlayPolicy.tla` holds the pure functions of `overlay_policy.h` and the observation
functions of `main-dev.cpp` that feed them, as operators over small sets of
enumerated values: one operator per function, the delays (`kSuppressionEnterDelayMs`
...) as constants with `DelayAssumption`. Operators whose name starts with
`Faulty` are variants with a plausible bug; no specification uses them, they exist
to check that the properties notice.

`StableDecision.tla` is the abstract specification of both reducers, without
candidates: a value changes exactly when the current observation has been made
without interruption for its delay.

`SuppressionPolicy.tla` and `TaskbarIdentityPolicy.tla` drive one reducer each with every
stream of observations and any timing of the passes. `policy` and `identity` are the
code's records; `run` and `lastSeen` are history variables that say what the reducer
should have noticed. Both state that they implement `StableDecision`
(`run` and the committed value are the refinement mapping).
`SuppressionPolicyProofs.tla` proves the properties of the first, `OwnerBindingProofs.tla` those of the
second.

`OwnerBinding.tla` composes the identity with the owner binding: each pass looks the taskbar up, lets
the reducer judge, destroys and creates the overlay, and verifies its owner. A pass is one step here.
`alive` are the taskbars there are (two while Explorer is replaced; never two with one handle),
`madeFor` and `since` history. `BindingSpec` is shown to implement `TaskbarIdentityPolicy!Spec`.

| action, operator | code (`main-dev.cpp`) |
|---|---|
| `Pass` (`ReconcileOverlayState`, `RecoverTaskbar`) | 4285-4351: wait; a destruction that fails or is postponed; a new generation; the same again. 3269-3282: arm, then a pass |
| `EnsureOverlayWindow` | 2782-2905: the overlay serves the committed taskbar, stands for another, or is created |
| `Armed` | 2618-2645, on creation (with a delay) and on a recovery (without) |
| `DecideInitialOwnerBindingAction` | `overlay_policy.h` 38-60 |
| `ReconcileInitialOwnerBinding`, `Refused`, `GivenUp`, `ReadOwner` | 2647-2748 |
| `WM_DESTROY`, in `OverlayVanishes` and `TaskbarDies` | 4987-5005 |
| `TaskbarDies`, `TaskbarAppears` | Explorer and Windows: an owned window goes with its owner or loses it |
| `ShellClearsOwner`, `OwnerShows` | the Shell clears the owner at any time and gives it back, or not (2509-2512); an owner set may show late |

`overlay.confirmed` is history: whether a verification since the latest arming has read the maker as the owner.

`OverlayReconciler.tla` is `ReconcileOverlayStateOnce` with everything it calls that
changes the overlay. `pc` is where a pass is; one step of it is one Win32 call,
or a block without a call that another party could get between.

| pc | action | code (`main-dev.cpp`) |
|---|---|---|
| idle | `Begin`, `ToggleClickThrough` | a trigger with its flags; 4273-4285 |
| wait, judge | `WaitForTaskbar`, `JudgeTaskbar` | 4293-4304 |
| recreate | `PostponeDestroy`, `DestroyFails`, `DestroyOverlay` | 4305-4329 |
| tray | `RefreshTrayIcon`, `KeepTrayIcon` | 4330-4333 |
| ensure | `TaskbarUnavailable`, `EnsureOverlay` | 4335-4348, 2782-2905 |
| observe | `ObserveDesktop` | 4349-4364 |
| style | `ApplyStyle` | 4366-4372 |
| commit | `HideSuppressed`, `HoldFrozen`, `GoOnVisible` | 4374-4412 |
| choose | `PostponeShow`, `StartPrepare`, `KeepShown` | 4414-4470 |
| hide, dress, paint, show | `PrepareHide` ... `PrepareShow` | 4441-4450, 4066-4164 |
| repair | `LeaveUnrepaired`, `RepairOverlay` | 2944-3151 |

`window` is what the system holds under each handle (existence, visibility, styles,
owner, and `fresh`: painted since it was created, hidden or reset). `shell` is the
running Explorer. Between any two steps Explorer may exit or start
(`ExplorerExits`, `ExplorerStarts`), the overlay may be destroyed or damaged
(`OverlayVanishes`, `OverlayDamaged`), and a delay may end (`Elapse`). `May(call)`
gives the outcomes of a call that may fail. `ComesToRest` starts the calm: from then
on nothing fails or disturbs. The module uses the two reducers of
`OverlayPolicy` unchanged, with all delays one or zero: a stamp is either recent or
old, which is all a single comparison can tell.

`MCOverlayReconciler.tla` gives the small instances, and
`OverlayReconcilerProofs.tla` proves the safety properties for all of them.

`PassService.tla` is what whoever asks for a pass may rely on: passes run one at a
time, and an action asked for stays owed until a pass takes it over.

`ReconcileQueue.tla` implements it with the code's `ReconcileState`, the posted messages
and the loops of `ReconcileOverlayState` that are on the stack. A pass is here only a call
that begins and returns; what it does is the reconciler's. A record of
`loops` says how many passes its loop may still start and which flags the pass it is
in has taken. Properties and proofs show that there is never a second record; the
model does not take that for granted.

| action | code (`main-dev.cpp`) |
|---|---|
| `ReconcileOverlayState`, `RunPass`, `PassReturns`, `LoopEnds` | 4477-4499: the entry, a turn of the loop, its pass returning, and the follow-up after it |
| `RequestOverlayReconcile` | 4501-4519, part of the actions that call it |
| `HandleQueuedOverlayReconcile` | 4521-4528 |
| `InitializeMonitor`, `RequestMetricProviderInitialization`, `InitializeMetricProviders` | 4719-4800 |
| `HandleControllerDestroy` | 4950-4976 |
| `SentReconcile`, `SentRequest` | `TaskbarCreated` and DPI; display, device and setting changes, an overlay destroyed by others |
| `TrayLayoutEvent`, `ForegroundEvent` | `TrayEventProc`, 1836-1892 |
| `HandleTrayLayoutChanged`, `HandleTaskViewSwitch`, `HandleOtherForeground`, `HandleInitializeMetrics` | the posted messages, 4887-4939 and 5053-5055 |
| `StateTimer`, `StabilizingTimer`, `RefreshOrPlacementTimer`, `StabilizeDelayPasses` | `HandleTimer`, 4802-4853 |
| `UserCommand` | the tray menu's commands and the double click |

`ReconcileQueueProofs.tla` proves its safety and the refinement.

`PdhGroup.tla` is one counter group (`PdhGroup` in `main-dev.cpp`; GPU and disk are two
independent instances): `pc` goes through `SampleMetrics` from one PDH call to the next, and every
call may fail. A measured value is reduced to the query it comes from. `provider` is the outside:
free to fail, or for good working or unreadable.

| pc | action | code (`main-dev.cpp`) |
|---|---|---|
| off | `Initialize` | 4719-4741 |
| open, add, first | `OpenQuery`, `AddCounter`, `InitialCollect` and their failures | `InitPdhGroup`, 1499-1543 |
| idle | `SampleMetrics` | 1797-1807 |
| recover | `RebuildPdhGroup`, `LeavePdhGroup` | 1582-1596; `metric_refresh_policy.h` 71-86 |
| sample | `SampleUnusable`, `CollectFails`, `CollectSecond`, `Collect` | 1680-1695 |
| format | `FormatFails`, `FormatTransient`, `FormatValue` | 1697-1774 |

`PdhGroupProofs.tla` proves its safety.

`RateLimiter.tla` is the rate limiter of `logging.cpp`: `table` the keys of `rate_limits`, `entry`
their entries and, under `Overflow`, the shared one.

| action | code (`logging.cpp`) |
|---|---|
| `SuppressFailure`, `LogFailure` | `LogRateLimitedMessage`, 437-525: within and after the cooldown |
| `ForgetKey`, `CloseSilently`, `RecordRecovery` | the three outcomes of `LogFailureRecovered`, 654-726 |
| `DisableLog` | `FlushLogSummaries`, 728-761, from `ReloadConfigAndRefresh` |
| `EnableLog` | `ResetLog` and `StartSessionLocked`, 166-190 and 572-602 |

`reported`, `cooling` and `untold` are history: what the log's reader knows. `RateLimiterProofs.tla`
proves that the entries agree with it.

`StableOverlay.tla` is the released program (`main.cpp`). It has no reconciler: each message is handled
on the spot, and a handler is one action. The operations are functions from a monitor `s` and what a
handler sees, `e` (the desktop, the tick count, which calls fail), to a monitor; the messages that `ShowWindow`
and `SetWindowPos` send are nested in them, as far as `maintaining_z_order` lets them.

| action, operator | code (`main.cpp`) |
|---|---|
| `Create` | 2968-3080: a start by hand, or at logon with the startup timer |
| `StartupInitTimer`, `BurstTimer`, `StateTimer`, `RefreshTimer`, `PlacementTimer` | `HandleTimer`, 2679-2725 |
| `TrayLayoutChanged`, `ForegroundChanged`, `TaskbarCreated` | posted messages, 2797-2861 and 2619-2633 |
| `DisplayChanged`, `DpiChanged`, `ReloadConfig`, `RecoverTaskbar`, `DoubleClick` | 2727-2760, 1631-1672, 2863-2870 |
| `TrayEvent`, `ForegroundEvent` | `TrayEventProc`, 1090-1136 |
| `OutsideHide`, `OutsideShow`, `Exit` | other processes; 2872-2893 |
| `ShowWindow`, `HandleShowWindow`, `KeepOverlayOnTop`, `ShownOnTop` | 2769-2795 and 992-1031, nested |
| `Suppress`, `Unsuppress`, `FreezeGuard`, `Deferred`, `HandleOverlayStateGuards` | 2387-2457 |
| `RepositionWindow`, `ResetLayeredSurface`, `RenderOverlay`, `ReapplyLastFrame` | 1435-1568, 2341-2385, 2459-2611, 2334-2339 |

`StableOverlayProofs.tla` proves its safety.

`LogFile.tla` is the file below the rate limiter: several processes (two instances of one build), each at a
`pc`, a mutex, the active file and its backup as sequences of half records. A process may end at
every step and leaves the mutex abandoned.

| pc | action | code (`logging.cpp`) |
|---|---|---|
| off, idle | `Start`, `EnableLog`, `DisableLog`, `Log` | 546-579, 288-293 |
| reset_wait | `ResetEnters`, `ResetTimesOut` | 579-585; the lock is 94-111 |
| reset | `ResetRotates`, `ResetRotationFails` | 585-587, with `RotateLogLocked`, 223-264 |
| create | `CreateFile` | 589-602 |
| wait | `WriteEnters`, `WriteTimesOut` | 293-299 |
| rotate | `Rotate` | 300 |
| open, write | `OpenAndWrite`, `WriteRest`, `WriteFails` | 353-418 |
| any | `Ends`, `RetryIsDue` | a process ends or crashes; 229-232 |

`LogFileProofs.tla` proves its safety.

## 3 Runs, bounds and results

Every run passes, except where it is said otherwise.

| Run | Question | Bounds |
|---|---|---|
| `suppression` | hysteresis, promptness, the slow return from a hidden taskbar, refinement of `StableDecision` | delays 5, 10, 0, 2 (250, 500, 0 and 100 ms in steps of 50); 26 ticks, enough to enter, leave and enter again |
| `owner_binding` | the composition of identity, overlay and owner verification: hysteresis of the identity (refinement of `StableDecision`), whose overlay it is, retries and giving up | two handles and two processes, so that either may be reused alone; settle delay 2, two attempts one tick apart, 6 ticks: enough to settle, use all attempts up, be recovered or replaced, and use them up again |
| `reconciler_shell` | one overlay, its owner, the tray icon and the click-through toggle, while Explorer comes and goes and every call may fail | two handles (SingleOverlay needs a second), three Explorers, two of them with the same handle |
| `reconciler_desktop` | what may be shown and hidden | one Explorer, every reason and profile, screenshots, failing surface calls, all triggers |
| `queue` | requests in the message loop and in the middle of a pass, posts that fail: true marks, no lost wake-up, passes one at a time, every request served, the metric providers started | two foreground messages under way (the marks allow one of each other kind); two are needed to enter Task View and leave it again while a stabilisation waits |
| `reconciler_recovery` | `calm ~> []Restored` | one handle (two never coexist, `SingleOverlay`), two Explorers, a failing destruction and a failing paint, an overlay destroyed, pushed down or unlayered; no other fault or damage, and no toggle, so that the click-through mode in `Restored` cannot go wrong in this run (`reconciler_shell` has `ClickThroughIsAppliedOrOwed` for it) |
| `pdh_group` | queries, availability, backoff and retry, and that a group comes back (`Recovers`) | a tick count of three bits and an interval of 2, so that it wraps often; up to `MaxGap` = 8 ticks between samples, more than "half the range" can tell, and `VisibleGap` = 2 once the provider works: a visible overlay is sampled every second, far below half the range |
| `pdh_group_display` | **violated**: a counter that stays unreadable is not always shown as `--` (section 7) | scalar mode, 4 ticks |
| `rate_limiter` | cooldowns, recovery records, counts, a table that drains | two keys for one place, so that one overflows; a cooldown longer than a retry |
| `log_file` | records in one piece, losses counted, files moved whole | two processes that both have the mutex, a file that is full after one record, fewer than three pieces in it when a record is begun, two failures owed by each; 4 million states |
| `stable_overlay` | what is hidden stays hidden, and everything is put right within a tick of calm | four disturbances or failing calls (`MaxTrouble`): two nested handlers that each fail, or an event during a freeze during a suppression; a tick count of two bits, so that each deadline is passed and passes again |
| `stable_warmup` | **violated**: the warm-up does not stay over (section 7) | 8 ticks, no disturbances |

The reconciler's state is finite without a bound on its length: all its times are
ages of two values. Only the reducers' machines have a clock, and `MaxTime` is
its bound. The queue has one bound, `MaxForeground`: a foreground event that would
exceed it does not happen. Its run does not check for deadlock: the program may
exit, and is then at rest; so it is with both stable runs. Nor does `rate_limiter`, where with everything
recorded and the table empty nothing is left to do. `MaxPending` bounds the failures an entry counts, `MaxGap`
the ticks between two samples, `MaxLength` and `MaxFailures` what a log file and a process may hold before
another record is begun. Handles are symmetric where only safety is checked. The three instances of
the reconciler split the environment, not the program: every instance runs every
action of a pass whose trigger is in its environment, and the properties checked
under each are those its disturbances threaten.

Type correctness and the invariants that only carry a proof (section 5) are proved rather than
run; so are `NoOverdueDecision`, `NoOverdueIdentity`, `EveryGenerationIsReported` and
`AvailabilityIsTrue`. The promptness of the reducers is in the runs as part of
`ImplementsStableDecision`.

Properties and what they rule out:

* `NoOverdueDecision` / `NoOverdueIdentity`, `CommitAfterDwell`: a
  candidate that is kept across a change of profile, restarted, or forgotten.
* `SlowReturnFromHiddenTaskbar`: the fast profile leaking into the taskbar's reason.
* `WorksOnlyOnTheCommitted`, `EveryGenerationIsReported`: a pass that serves an
  Explorer it has not just seen; a generation nobody rebuilds the overlay for.
* `OwnedByItsMaker`: an owner set on a reused handle, or an overlay kept for a new Explorer with the
  old handle.
* `VerifiedUntilConfirmed`: a verification that is dropped before the owner was ever read, or that goes on against
  a taskbar the overlay was not made for; and one that starts again by itself, so that the program fights the
  Shell for the owner whenever Start is open. An overlay that the Shell leaves unowned after it was
  confirmed is as it should be, and reached.
* `PatienceIsKept`: attempts that are counted across a recovery, or made without their interval.
* `SingleOverlay`, `OwnedByTheCommittedTaskbar`: a window the program lost after a
  failed destruction; an overlay owned by a dead Explorer and not about to be destroyed.
* `TrayIconIsThereOrOwed`: an icon lost when a generation changes around
  the `TaskbarCreated` message.
* `PresentedBeforeShown`, `ShownOnlyWhenIntended`, `HiddenOnlyForAReason`,
  `SuppressedIsHidden`: the promises of `src/README.md` lines 30-39 about visibility.
* `ClickThroughIsAppliedOrOwed`: any of the six early returns forgetting the toggle.
* `Recovers`: every retry and repair that has to happen does.
* `MarkIsTrue`, `LatchIsTrue`: a mark that stays after a post that failed would silence
  every later request; one that is lost would let messages pile up.
* `WaitingWorkIsAnnounced`, `RequestsAreServed`: what a message sent into the last of four
  passes asks for, and what is queued while another message is under way.
* `NoStabilizationUnderTaskView`: the delayed promotion of a switch that was undone.
* `ProvidersAreInitialized`: the fallback when the deferring message cannot be posted.
* `ImplementsPassService`: nested passes, and flags overwritten instead of collected.
* `NoQueryLeaks`: a group that failed with its query open and was built anew without closing it.
* `AvailabilityIsTrue`: a failure the log was not told of, or a group that works unnoticed.
* `MeasuresOverAnInterval`: a rate computed from two collections in the same sample.
* `BackoffIsKept`, `DueIsRetried`: both sides of the comparison of wrapped ticks, with 0 meaning
  "no attempt yet".
* `CooldownIsKept`: a flapping component that gets a line for every failure, because recovering
  resets its cooldown.
* `RecordIsDueForReported`: recovery records for failures nobody read of, or twice, or never.
* `NothingIsUncounted`: counts lost when a line cannot be written, and a summary below the level of
  what it sums up.
* `TableDrains`: entries of components that work which fill the table for good.
* `LinesAreWhole`: two processes in the file at once, after a time-out or next to a crash.
* `LossIsCounted`: a record that is neither in the file nor in the count of logger failures.
* `RecordsMoveWhole`: a reset that empties a file its failed rotation has left in place.
* `MarkHasItsMessage`: a mark that outlives its message (a post that failed) would drop every later
  event of the tray.
* `HiddenStaysHidden`: a timer, a nested message or a command that shows a suppressed overlay. The two
  handlers that do so in the code, on purpose or not, are named in it.
* `SuppressionSettles`: an overlay that one of those two has shown, or that a handler nested in a show
  suppressed too early, and that no timer hides again.
* `Restored`: a freeze, deferral, lost timer, z-order burst or unpainted surface that outlives its cause.

## 4 Fairness

`FairSpec` has weak fairness of `Step` (a pass is a sequence of calls on one thread:
once started it is carried through), of `Start` (the state timer fires every 100 ms
as long as the program runs), and of each delay (time passes). Nothing outside the
program is fair: no disturbance has to happen, and `ComesToRest` need not. The
reconciler needs no strong fairness: a delay that ended stays ended until the step it allows.

The queue's `FairSpec` has weak fairness of `Looping` (a loop of passes runs to its end; each
pass returns) and strong fairness of `Dispatch`: a posted message is enabled only
while the thread is in its message loop, which it leaves for every handler. It
returns there again and again, and `GetMessage` retrieves posted messages in order and
before any timer, so one that waits is retrieved in the end. That sent messages and hooks
cannot keep a thread from its posted messages forever is the assumption in it. Timers,
hooks and commands are not fair: nothing served depends on them.

The group's `FairSpec` assumes that the providers are initialised (what `ReconcileQueue` shows), that
samples are begun (the refresh timer of a visible overlay, which is also why at most `MaxGap` ticks
pass between two) and carried through; time is strongly fair, so that samples cannot follow each other
without any. The rate limiter's has weak fairness of `Tick` and of `LogFailureRecovered(k)` for the
keys of `Repeated` only: `metric.cpu.sample` is reported recovered at every sample, but
`overlay.create_window` or `metric.pdh.gpu.open_query` only by the next creation or initialisation.

`StableOverlay` needs fairness only for `stable_warmup` (weak, of `Tick`: time goes on). Its two
properties of settling are invariants over the number of quiet ticks: that the timers of 16, 100 and 1000 ms
fire in each tick is in the guard of `Tick`, as soon as nothing interferes.

## 5 Proofs

*Suppression policy* (`SuppressionPolicyProofs`). From `DelayAssumption` (delays are
natural numbers and the identity's settle delay is positive; no order between fast and
default delays is needed) the inductive invariant is type correctness with
`CandidateIsTheRun` and `NoOverdueDecision`.
`NoOverdueDecision` is not inductive alone: that a look commits an old run needs to
know that the candidate's stamp is the run's. `CommitAfterDwell` and
`SlowReturnFromHiddenTaskbar` follow for each step from that invariant; `Refines`
maps each step to a step of `StableDecision`.

*Taskbar identity and owner binding* (`OwnerBindingProofs`). For any handles, process ids, delays and
numbers of attempts. The identity is proved by the argument of the suppression, with one lemma on the
evidence a lookup gives (a lookup that is missing a field says nothing) and one that an
update is a look of `StableDecision`. `WorkHeld` and `ReportHeld` are about the result
handed to the pass. `BindingImplementsIdentity` then carries all of it over to the composition, whose
inductive invariant `BInv` adds

* `OneHandleOneTaskbar`, without which an owner would be a handle and not an Explorer;
* `OwnerIsTheMaker`, whatever waits to be destroyed;
* `Paced`: the next attempt is at least as many intervals after the arming as attempts were made;
* `Sound`, unless a destruction is pending: the overlay was made for the committed Explorer, and is either
  confirmed, with an empty binding, or verified against it or given up. A binding that verifies an overlay of a former Explorer would break it, and a change
  of generation makes the destruction pending in the same pass.

*Overlay reconciler* (`OverlayReconcilerProofs`). For any set of handles, Explorers,
desktops, triggers, failing calls and damages (`ConstantsAssumption`: every element is of its
kind, the null handle is no window, a known taskbar has a handle and a process; nothing has
to be finite). All nine safety properties of the module are proved. The inductive invariant `IInv` is

* `TypeOK` and `Control`, what being at a `pc` implies about the locals and the policies:
  after the judgement a pending destruction is not passed by (`RecreationIsDecided`), a show
  that is being prepared is one the decision allows (`ShowIsIntended`), and its click-through
  mode has been applied (`StyleIsApplied`);
* `SingleOverlay` and `OverlayIsTheHandle` (the overlay a pass works on is the handle, or is
  gone), which carry each other: a window is created only where `EnsureOverlayWindow` found none;
* `PresentedBeforeShown` with `VisibleExists` and `ReadyToShow`: from the presentation to the show
  the overlay is painted, or is gone;
* `OwnedByTheCommittedTaskbar`, whose only exception is the moment between a change of the
  committed identity and the judgement that makes the destruction pending;
* `ClickThroughIsAppliedOrOwed`;
* `HiddenUntilObserved`: `SuppressedIsHidden` from the end of a pass up to the next
  observation;
* `TrayIconIsAccountedFor`: `TrayIconIsThereOrOwed` with what the running pass still owes.

A case for every action under every conjunct would hide the argument, so the proof goes through a
classification. `Tended(w, v)` says what every call but a creation and a show does
to the windows at most; one lemma per call shows it, and `StepOnWindows` that a step of a pass
tends the windows, creates one, or shows one. `KindsOfSteps` says the same of everything else: a pass
starts, the surroundings disturb, or time passes. `WindowsKept`, `HandleKept` and the
others then argue by kind, and look into an action only where the property depends on it.
`ShownAsIntended` and `HiddenForAReason` are about single steps: only a show makes a window
visible (`ShowsAsIntended`), and every call but a hide, a destruction and a creation keeps what
is visible (`KeepsVisible`).

`RestoredStays` is the second half of `Recovers`: from `Rested` on the overlay is restored for good. `Rested` is
`Restored` in calm surroundings, with nothing suppressed, no destruction pending and no surface reset asked
for. Every call but a hide, a destruction and a reset leaves a good window good (`RaisedStaysGood` and the
like), whether it succeeds or not; a pass that starts sees the committed taskbar (`StartKeepsRest`), finds the
overlay that serves it, which is `OwnedByTheCommittedTaskbar`, and decides nothing new on a clear desktop
(`ClearDesktopKeepsShown`). That rest is reached is the other half, which is left to TLC: `Recovers` is
`calm ~> []Restored`.

*Reconcile queue* (`ReconcileQueueProofs`). For queues of any length, with or without failing
posts (`QueueAssumption`). The inductive invariant `IInv` is

* `TypeOK`: at most one loop, and at most four passes in it;
* `LoopIsActive`: the code's `active` is true exactly while a loop is on the stack, which is
  why a nested call returns at once and `TypeOK` holds;
* `MarkIsTrue` and `LatchIsTrue`, which say that at most one of their messages is queued: so
  handling it leaves none, and taking the mark back is right;
* `WaitingWorkIsAnnounced`, which needs `MarkIsTrue` when the message is handled, and
  `LoopIsActive` when a request meets a loop;
* `StabilizationIsCurrent`: a stabilisation waits only outside Task View.

The facts about queues (append, tail, drop) are lemmas on `InQueue` and `NeverTwice`.
`Refines` maps `RunPass` to `StartPass`, `PassReturns` to `EndPass`, and every other step to
`Ask` (which may ask for nothing): flags move between queued and pending, never out of both.

*PDH group* (`PdhGroupProofs`). For every even range of the tick count and every interval at least 2
below half of it (`PdhAssumption`; 2^32 and 5000 in the code), in either mode. The inductive
invariant `IInv` is `TypeOK`, `NoQueryLeaks` and

* `HandlesAreControlled`: which handles exist at each `pc`, which is what a failure has to close;
* `UseIsKnown`: availability is what the group's use says, outside an attempt;
* `CollectionIsKnown`: a group in use outside its second collection has an earlier one;
* `StampIsKnown`: the stamp is the tick count `waited` ticks ago, as long as `waited` is below
  `Forever` (the interval and half the range).

`Wrapped` evaluates the remainder of a number at most a range away, from the defining property of
quotient and remainder; `TestIsTrue` concludes from `StampIsKnown` that the signed comparison says what
`waited` says, up to the one tick that a stamp of 0 is moved by. `BackoffHeld` and `RetryHeld` are
about the step that leaves `recover`. `MeasuredStays` is the second half of `Recovers`: a group in use whose
provider works leaves no stage that fails, and is not built anew.

*Rate limiter* (`RateLimiterProofs`). For any keys, capacity and intervals (`LimiterAssumption`). The
inductive invariant `IInv` is `EveryPlaceIsSound` (of each place: the cooldown is the one of its latest
line, the count that of the untold failures, the level at least their worst, and nothing is counted
outside an open period), `TableIsSound` (what is not in the table has no entry) and
`RecordIsDueForReported`. What a handler makes of one entry is a lemma on that entry; the
step lemmas put it into the table. `CooldownIsKept` needs that a closed entry keeps its `wait` and that
an entry is forgotten only when it has none, `NothingIsUncounted` that silence closes nothing that
was told.

*Log file* (`LogFileProofs`). For any processes and sizes (`LogFileAssumption`). `LossCounted` needs nothing
more; `LinesHeld` and `RecordsMoved` assume that all processes have the mutex (`AllSerialized`: section 7).
The inductive invariant `IInv` is `TypeOK`, `LossIsCounted`, `LinesAreWhole` and

* `MutexHeld`: whoever is between entering and leaving is the holder, so at most one is;
* `MovedBeforeCreated`: the file is empty where `CREATE_ALWAYS` would empty it;
* `HalfRecordIsLast`: the record a writer has begun is at the end of the file. Half a record of a process that
  failed or crashed may be there as well, but only before a beginning.

Steps are classified by whether they change the files (`KeepsFiles`, `ChangesFiles`); five of them do.

*Stable overlay* (`StableOverlayProofs`). For any tick range, delays, reasons, faults and damages
(`StableAssumption`). Each operation has a lemma: it keeps the type of the monitor and, where a reason
stands, leaves the overlay hidden if it looks at the reason at all (`UpdateOverlaySuppressionType`,
`GuardsType`, `RefreshedType`). `TimersKeep`, `MessagesKeep` and `CommandsKeep` put them into the handlers;
`HiddenHeld` follows, and says that the two exceptions it names are the only ones, nesting included. `MarkHeld`
needs no more than itself and the type.

`SettlesHeld` and `RestoredHeld` are about what is left of any disturbance once it is over. Their inductive
invariant `SettlingInv` adds to the type

* `Quieted`: after the first tick of quiet nothing is queued, and only timers fire (`QuietSteps`);
* `UninitializedIsBare`: before its window is initialised the monitor has no freeze, no deferral and only
  the startup timer, so that the startup of a window in quiet begins from nothing;
* `HidingSettles`: with a reason to hide, the state timer has still to fire in this tick, or the overlay is covered;
* `FirstTick`: on a clear desktop the first guard of a tick takes away the suppression and the second the freeze,
  and a deferral that is then left lies ahead by no more than the ticks quiet has left. This is where the
  signed comparison of tick counts comes in: a deadline left behind reads as ahead for at most
  half the range, and `MaxQuiet` is one tick more;
* `LaterTicks`: from the second tick on a refresh paints, unless a deferral is in force.

The operations nest, and none is followed through its callers. Each is shown to improve the monitor on a clear
desktop (`Improves`: what another put right it does not undo, and it defers no further), to cover it under a
reason (`Covered`), and to keep a bare one bare (`KeepsBare`); these compose, so that a handler has the property
of what it calls, and a tick that of its timers in any order. `LeftIs`, `AheadIs` and `TickTakesOne` are the
arithmetic of the wrapped count.

Left to TLC: `Recovers` (both, of which `RestoredStays` and `MeasuredStays` are the safety half: that what is
reached stays), `RequestsAreServed`, `ProvidersAreInitialized` and `TableDrains`, which are liveness,
and the reconciler's delays beyond "recent" and "old" (section 2), which the machines
of the two reducers have in full. Every safety property of a passing run is a theorem.


## 6 Abstractions

* A check and the call it guards are one step (`IsWindow(h)` and then a call on `h`):
  a window that dies between the two makes the call fail, which is an outcome
  of its own. The calls of one step (for example style, position and
  z-order in `PrepareDress`) are atomic.
* A new Explorer differs from the committed one in handle or process. An
  Explorer that reused both would be the same to the program.
* `Raised` stands for `RepositionWindow`: of its placement only the topmost
  flag and success matter. Geometry, DPI and text are left out.
* The owner binding is a free outcome (`rebinds`, `bound`) in the reconciler; its attempts are counted
  in `OwnerBinding`, where in turn a pass is one step and only its outcomes count.
* In `OwnerBinding` a taskbar that appears differs from the committed one and from the overlay's in handle or
  process, and `TaskbarDies` lets Windows destroy the owned overlay or only take its owner: it does either,
  depending on how Explorer ends. Whether `SetWindowLongPtr` is honoured is free, and the Shell may clear the
  owner of a window whose owner lives between any two passes.
* In `StableOverlay` the desktop, the clock and the failing calls stay the same within one handler, and calls
  of at most one kind fail in it. A tick is about a refresh interval; before the calm, timers may be late by any time.
  `ShowWindow` sends `WM_SHOWWINDOW` and then `WM_WINDOWPOSCHANGED`, `SetWindowPos` only the second. The
  geometry, click-through, the tray icon and the samplers are left out; `CreateWindowExW` names Explorer's
  taskbar as the owner, and a window is destroyed with its owner (`ExplorerDies`).
* In `LogFile` a record is two pieces (`WriteFile` may write less than asked), a missing file and an empty one are
  the same, sizes are counted in pieces, and a time-out is possible whenever another process holds the mutex.
* An external hide leaves the surface as painted; a hide of the program or a reset does
  not (`fresh`).
* In the queue, sent messages and hooks come in the message loop or in the middle of a pass,
  any number of times; a pass is one interval (what it has done when they come
  does not matter to the queue). The window is not destroyed in the middle of a pass: that
  happens only on a command of the tray menu, which the message loop dispatches. The names of
  triggers, used for logging, are left out. Which window came to the front is chosen when the
  message is handled, not when it is posted.
* The queue drops the messages of a destroyed window with it (`posted` becomes empty).
* PDH: the aggregation over GPU engines, the CPU, memory and network samplers are left out. The
  outcome of a formatting is one of failure, held value (a negative calculation) and value. The two
  readings of the tick count in one `RecoverPdhGroupIfNeeded` are one.
* Rate limiter: a time point is the time left until it (0 when unset or over). Totals, durations, the
  text and the minimum level are left out; whether a write succeeds is free (`Writes`): the
  interprocess lock, rotation and the file are `LogFile`'s. Calls without a
  key or an interval do not touch the table. A failure that was only told of through the shared entry
  gets no recovery record: it has no place of its own.
* Metric sampling, the key widget, DWM cloaking, diagnostics and logging do not change
  the state modelled and are left out.
* `hideFailed` and `addFailed` are history: the code does not keep them.

## 7 Observations about the code

* A style that cannot be applied returns (4366-4372) before the hide (4374): a
  suppressed overlay then stays visible until a later pass. `SuppressedIsHidden`
  counts that as a hide that was not carried out.
* A deferred surface reset is consumed by the attempt that fails before it resets
  anything (4441-4450); the show that follows repaints in any case.
* The hide in the failed branch of `PrepareOverlayForShow` (4117-4123) never has an
  effect: the overlay is not visible there.
* If `WM_RECONCILE` cannot be posted (4513), the queued flags wait until something else calls
  `RequestOverlayReconcile`: the timers' passes do not take them over. `refused` in
  `WaitingWorkIsAnnounced` is exactly this case.
* **`src/README.md` 93-94** says that an unavailable counter is shown as `--`. A group that has
  measured once and whose counter becomes unreadable while its query can still be opened and collected
  shows the old value again for one sample after every rebuild, every five seconds: `ResetPdhGroup`
  keeps `value`, and 1692-1694 returns it. Run `pdh_group_display` shows it.
* A group that is not sampled for 2^31 ms after its retry is due (an overlay hidden for 25 days) is
  not built anew until as much time again has passed: the bound in `DueIsRetried`.
* A key that is reported recovered once (window creation, the stages of `InitPdhGroup`) keeps its place
  in the rate-limit table after its recovery record, and if the record cannot be written at that
  moment it is not written before the next creation: `TableDrains` promises nothing for it.
* `GetTickCount() + 800` may be 0, which reads as "no resume pending" (4176).
* **`src/README.md` 188-189** promises a short startup warm-up. `startup_warmup_until` (`main.cpp` 2979) is never
  cleared, and `StartupWarmupActive` compares it with the tick count by the sign of their difference: after
  2^31 ms, 24.9 days, the warm-up is active again, for as long, and a full-screen window does not hide the
  overlay. Run `stable_warmup` shows it.
* In the stable program a change of the foreground and a double click reposition the window, suppressed or
  not (`main.cpp` 1482): it flashes up until the state timer hides it. `HiddenStaysHidden` names both.
* A suppression returns before the line that clears a deferral that has passed (2450): one that is left
  behind becomes a deferral again after 2^31 ms. `Restored` allows for it.
* The stable window is created with Explorer's taskbar as its owner and is not made again: if Windows
  destroys it along with Explorer, `HandleDestroy` ends the program (`main.cpp` 3040, `ExplorerDies`).
* A process whose `CreateMutexW` failed takes itself for the holder (`logging.cpp` 97), where
  `src/README.md` 144 lets all instances share the log: the assumption `AllSerialized` of two theorems.

## 8 Plan

Done: the policies, the reconciler, the queue, the owner binding, the counter groups, the rate limiter,
the log file and the stable overlay, each with its safety proved; recovery and service checked
by TLC.

Left, in this order:
1. `NetworkSampler`: differences over changing adapter sets and counters that restart (1404); `ConfigPath`.
2. The composition of `RateLimiter` with `LogFile`: that `Writes` may be any outcome is assumed in the one and
   allowed by the other.

Not planned: drawing and measuring, menus and theming, the build. The hazards of `PROJECT.json` without a property
say each why none covers it.
