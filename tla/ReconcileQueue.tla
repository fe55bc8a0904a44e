---------------------------- MODULE ReconcileQueue ----------------------------
(***************************************************************************)
(* How requests become passes in main-dev.cpp: ReconcileOverlayState with  *)
(* its loop of at most four passes, RequestOverlayReconcile with its       *)
(* message, and the handlers that call them.  Everything runs on one       *)
(* thread; but while a pass waits in a call, messages are sent to the      *)
(* windows and hooks are called, and they may ask for passes again.        *)
(*                                                                         *)
(* What a pass does is OverlayReconciler's subject; here it begins, may be *)
(* interrupted, and returns.                                               *)
(***************************************************************************)
EXTENDS Naturals, Sequences

CONSTANTS
    MaxForeground,   \* bound on the foreground messages in the queue
    PostFails        \* whether PostMessage may fail

ASSUME QueueAssumption == MaxForeground \in Nat /\ PostFails \in BOOLEAN

Flags == {"SampleMetrics", "SampleKeys", "Reposition", "Render", "ResetSurface",
          "RefreshTrayIcon", "ApplyStyle", "PromoteForTaskView"}

Messages == {"reconcile", "tray", "foreground", "metrics"}

PassLimit == 4

VARIABLES
    monitor,         \* waiting for the startup delay, initialized, or gone
    initializing,    \* InitializeMonitor waits for its pass
    active, pending, pendingFlags,              \* of ReconcileState
    queuedFlags, messageQueued,                 \* of ReconcileState
    loops,           \* the calls of ReconcileOverlayState that are looping
    posted,          \* the posted messages, in order
    latch,           \* placement.tray_layout_update_pending
    metricsPending, providersInitialized,       \* of MetricsState
    taskView,        \* reconcile.task_view_transition_pending
    stabilize,       \* reconcile.task_view_stabilize_pending
    stabilizeDue,    \* reconcile.task_view_stabilize_after_ms has come
    refused          \* history: the latest WM_RECONCILE could not be posted

loopState == <<active, pending, pendingFlags, loops>>
requests == <<queuedFlags, messageQueued, refused>>
metrics == <<metricsPending, providersInitialized>>
switches == <<taskView, stabilize, stabilizeDue>>
vars == <<monitor, initializing, active, pending, pendingFlags, loops, queuedFlags,
          messageQueued, refused, posted, latch, metricsPending,
          providersInitialized, taskView, stabilize, stabilizeDue>>

\* A call of ReconcileOverlayState that loops: how many passes it may still
\* start, and the flags of the pass it is in.
Loop == [left : 0 .. PassLimit, running : BOOLEAN, flags : SUBSET Flags]

Top == loops[Len(loops)]

Running == loops # <<>> /\ Top.running

\* The thread is in its message loop; or it may be reached by sent messages.
Idle == loops = <<>> /\ ~initializing /\ monitor # "gone"
Reachable == monitor = "initialized" /\ (Idle \/ Running)

Init ==
    /\ monitor = "waiting" /\ initializing = FALSE
    /\ active = FALSE /\ pending = FALSE /\ pendingFlags = {} /\ loops = <<>>
    /\ queuedFlags = {} /\ messageQueued = FALSE /\ refused = FALSE
    /\ posted = <<>> /\ latch = FALSE
    /\ metricsPending = FALSE /\ providersInitialized = FALSE
    /\ taskView = FALSE /\ stabilize = FALSE /\ stabilizeDue = FALSE

-----------------------------------------------------------------------------
(* ReconcileOverlayState and RequestOverlayReconcile.                      *)

PostOutcomes == IF PostFails THEN BOOLEAN ELSE {TRUE}

\* (Faulty variant: a second call loops inside the first.)
FaultyMayLoop == TRUE

MayLoop == ~active

ReconcileOverlayState(flags) ==
    /\ pending' = TRUE
    /\ pendingFlags' = pendingFlags \cup flags
    /\ IF MayLoop
         THEN /\ active' = TRUE
              /\ loops' = Append(loops, [left |-> PassLimit, running |-> FALSE,
                                         flags |-> {}])
         ELSE UNCHANGED <<active, loops>>

\* (Faulty variant: the mark of a message that could not be posted stays.)
FaultyAfterFailedPost == TRUE

AfterFailedPost == FALSE

\* At most one message is under way; the flags wait for it.  queue holds the
\* messages without the one that is being handled.
RequestOverlayReconcile(flags, queue) ==
    /\ queuedFlags' = queuedFlags \cup flags
    /\ IF messageQueued
         THEN posted' = queue /\ UNCHANGED <<messageQueued, refused>>
         ELSE \E ok \in PostOutcomes :
                /\ messageQueued' = (ok \/ AfterFailedPost)
                /\ refused' = ~ok
                /\ posted' = IF ok THEN Append(queue, "reconcile") ELSE queue

RunPass ==
    /\ loops # <<>> /\ ~Top.running
    /\ pending /\ Top.left > 0
    /\ pending' = FALSE /\ pendingFlags' = {}
    /\ loops' = [loops EXCEPT ![Len(loops)] =
                   [left |-> Top.left - 1, running |-> TRUE, flags |-> pendingFlags]]
    /\ UNCHANGED <<monitor, initializing, active, requests, posted, latch, metrics,
                   switches>>

PassReturns ==
    /\ Running
    /\ loops' = [loops EXCEPT ![Len(loops)].running = FALSE,
                              ![Len(loops)].flags = {}]
    /\ UNCHANGED <<monitor, initializing, active, pending, pendingFlags, requests,
                   posted, latch, metrics, switches>>

\* What the last pass left pending is asked for by message.
\* (Faulty variant: it is left to whoever asks next.)
FaultyNeedsFollowUp == FALSE

NeedsFollowUp == pending

LoopEnds ==
    /\ loops # <<>> /\ ~Top.running
    /\ ~pending \/ Top.left = 0
    /\ active' = FALSE
    /\ loops' = SubSeq(loops, 1, Len(loops) - 1)
    /\ IF NeedsFollowUp THEN RequestOverlayReconcile({}, posted)
                        ELSE UNCHANGED <<requests, posted>>
    /\ UNCHANGED <<monitor, initializing, pending, pendingFlags, latch, metrics,
                   switches>>

-----------------------------------------------------------------------------
(* Startup and shutdown.                                                   *)

\* HandleControllerCreate, at once or after the startup delay; the message may
\* also be the startup timer's.
InitializeMonitor ==
    /\ monitor = "waiting" /\ Idle
    /\ monitor' = "initialized" /\ initializing' = TRUE
    /\ ReconcileOverlayState({"Reposition", "Render"})
    /\ UNCHANGED <<requests, posted, latch, metrics, switches>>

InitializeMetricProviders ==
    /\ metricsPending' = FALSE
    /\ providersInitialized' = TRUE
    /\ IF providersInitialized THEN UNCHANGED loopState
                               ELSE ReconcileOverlayState({"Render"})

\* (Faulty variant: nothing is done when the message cannot be posted.)
FaultyInitializesAtOnce(ok) == FALSE

InitializesAtOnce(ok) == ~ok

\* The end of InitializeMonitor.
RequestMetricProviderInitialization ==
    /\ initializing /\ loops = <<>>
    /\ initializing' = FALSE
    /\ \E ok \in PostOutcomes :
         /\ posted' = IF ok THEN Append(posted, "metrics") ELSE posted
         /\ IF InitializesAtOnce(ok)
              THEN InitializeMetricProviders
              ELSE /\ metricsPending' = TRUE
                   /\ UNCHANGED <<loopState, providersInitialized>>
    /\ UNCHANGED <<monitor, requests, latch, switches>>

\* ID_EXIT: the messages of the destroyed window are dropped.
HandleControllerDestroy ==
    /\ Idle
    /\ monitor' = "gone"
    /\ posted' = <<>>
    /\ UNCHANGED <<initializing, loopState, requests, latch, metrics, switches>>

-----------------------------------------------------------------------------
(* Sent messages and hooks: in the message loop or in the middle of a pass.*)

\* taskbar_created, and dpi_change of the overlay.
SentReconcile ==
    /\ Reachable
    /\ \E flags \in {{"Reposition", "Render"},
                     {"Reposition", "Render", "RefreshTrayIcon"}} :
         ReconcileOverlayState(flags)
    /\ UNCHANGED <<monitor, initializing, requests, posted, latch, metrics, switches>>

\* A display, device or setting change, and an overlay destroyed unexpectedly.
SentRequest ==
    /\ Reachable
    /\ RequestOverlayReconcile({"Reposition", "Render"}, posted)
    /\ UNCHANGED <<monitor, initializing, loopState, latch, metrics, switches>>

\* (Faulty variant: the latch stays although nothing was posted.)
FaultyLatchAfter(ok) == TRUE

LatchAfter(ok) == ok

\* TrayEventProc, about the taskbar's layout and about the foreground.
TrayLayoutEvent ==
    /\ Reachable /\ ~latch
    /\ \E ok \in PostOutcomes :
         /\ latch' = LatchAfter(ok)
         /\ posted' = IF ok THEN Append(posted, "tray") ELSE posted
    /\ UNCHANGED <<monitor, initializing, loopState, requests, metrics, switches>>

ForegroundEvent ==
    /\ Reachable
    /\ Len(SelectSeq(posted, LAMBDA m : m = "foreground")) < MaxForeground
    /\ posted' = Append(posted, "foreground")
    /\ UNCHANGED <<monitor, initializing, loopState, requests, latch, metrics,
                   switches>>

-----------------------------------------------------------------------------
(* The message loop.                                                       *)

Handling(message) == Idle /\ posted # <<>> /\ Head(posted) = message

\* (Faulty variant: the mark of the message is not taken back.)
FaultyMarkWhileHandled == TRUE

MarkWhileHandled == FALSE

HandleQueuedOverlayReconcile ==
    /\ Handling("reconcile")
    /\ posted' = Tail(posted)
    /\ messageQueued' = MarkWhileHandled /\ queuedFlags' = {}
    /\ ReconcileOverlayState(queuedFlags)
    /\ UNCHANGED <<monitor, initializing, refused, latch, metrics, switches>>

\* Task View may be in front when the message is handled.
HandleTrayLayoutChanged ==
    /\ Handling("tray")
    /\ latch' = FALSE
    /\ \E promotion \in SUBSET {"PromoteForTaskView"} :
         RequestOverlayReconcile({"Reposition"} \cup promotion, Tail(posted))
    /\ UNCHANGED <<monitor, initializing, loopState, metrics, switches>>

\* The window that came to the front belongs to Task View, or it is the first
\* that does not.
\* (Faulty variant: Task View leaves a stabilisation that waits alone.)
FaultyStabilizesAfter(inTaskView) == stabilize \/ ~inTaskView

StabilizesAfter(inTaskView) == ~inTaskView

HandleTaskViewSwitch ==
    /\ Handling("foreground")
    /\ \E inTaskView \in BOOLEAN :
         /\ inTaskView \/ taskView
         /\ taskView' = inTaskView
         /\ stabilize' = StabilizesAfter(inTaskView)
    /\ stabilizeDue' = FALSE
    /\ RequestOverlayReconcile({"Reposition", "PromoteForTaskView"}, Tail(posted))
    /\ UNCHANGED <<monitor, initializing, loopState, latch, metrics>>

HandleOtherForeground ==
    /\ Handling("foreground") /\ ~taskView
    /\ posted' = Tail(posted)
    /\ UNCHANGED <<monitor, initializing, loopState, requests, latch, metrics,
                   switches>>

HandleInitializeMetrics ==
    /\ Handling("metrics")
    /\ posted' = Tail(posted)
    /\ InitializeMetricProviders
    /\ UNCHANGED <<monitor, initializing, requests, latch, switches>>

\* WM_TIMER is retrieved when nothing is posted.
TimerFires == Idle /\ monitor = "initialized" /\ posted = <<>>

StateTimer ==
    /\ TimerFires /\ ~(stabilize /\ stabilizeDue)
    /\ ReconcileOverlayState({"SampleKeys"})
    /\ UNCHANGED <<monitor, initializing, requests, posted, latch, metrics, switches>>

StabilizingTimer ==
    /\ TimerFires /\ stabilize /\ stabilizeDue
    /\ stabilize' = FALSE /\ stabilizeDue' = FALSE
    /\ ReconcileOverlayState({"SampleKeys", "Reposition", "PromoteForTaskView"})
    /\ UNCHANGED <<monitor, initializing, requests, posted, latch, metrics, taskView>>

RefreshOrPlacementTimer ==
    /\ TimerFires
    /\ \E flags \in {{"SampleMetrics", "Render"}, {"Reposition"}} :
         ReconcileOverlayState(flags)
    /\ UNCHANGED <<monitor, initializing, requests, posted, latch, metrics, switches>>

\* config_reload, manual_recovery, click_through, and a double click on the icon.
UserCommand ==
    /\ Idle /\ monitor = "initialized"
    /\ \E flags \in {{"Reposition", "Render"},
                     {"Reposition", "Render", "ResetSurface", "RefreshTrayIcon"},
                     {"ApplyStyle"}, {"Reposition"}} :
         ReconcileOverlayState(flags)
    /\ UNCHANGED <<monitor, initializing, requests, posted, latch, metrics, switches>>

StabilizeDelayPasses ==
    /\ stabilize /\ ~stabilizeDue
    /\ stabilizeDue' = TRUE
    /\ UNCHANGED <<monitor, initializing, loopState, requests, posted, latch, metrics,
                   taskView, stabilize>>

-----------------------------------------------------------------------------
Looping == RunPass \/ PassReturns \/ LoopEnds \/ RequestMetricProviderInitialization

Dispatch ==
    \/ HandleQueuedOverlayReconcile \/ HandleTrayLayoutChanged
    \/ HandleTaskViewSwitch \/ HandleOtherForeground \/ HandleInitializeMetrics

Timer == StateTimer \/ StabilizingTimer \/ RefreshOrPlacementTimer

Outside ==
    \/ SentReconcile \/ SentRequest \/ TrayLayoutEvent \/ ForegroundEvent
    \/ UserCommand \/ StabilizeDelayPasses \/ HandleControllerDestroy

Next == InitializeMonitor \/ Looping \/ Dispatch \/ Timer \/ Outside

Spec == Init /\ [][Next]_vars

(* A loop goes on and its passes return; the message loop, reached again   *)
(* and again, in the end retrieves a message that waits in the queue.      *)
Fairness == WF_vars(Looping) /\ SF_vars(Dispatch)

FairSpec == Spec /\ Fairness

-----------------------------------------------------------------------------
(* Properties.                                                             *)

(* Type correctness; in particular a loop never starts a fifth pass, and   *)
(* there is never more than one loop.                                      *)
TypeOK ==
    /\ monitor \in {"waiting", "initialized", "gone"} /\ initializing \in BOOLEAN
    /\ active \in BOOLEAN /\ pending \in BOOLEAN /\ pendingFlags \subseteq Flags
    /\ loops \in Seq(Loop) /\ Len(loops) <= 1
    /\ queuedFlags \subseteq Flags /\ messageQueued \in BOOLEAN
    /\ refused \in BOOLEAN
    /\ posted \in Seq(Messages) /\ latch \in BOOLEAN
    /\ metricsPending \in BOOLEAN /\ providersInitialized \in BOOLEAN
    /\ taskView \in BOOLEAN /\ stabilize \in BOOLEAN /\ stabilizeDue \in BOOLEAN

InQueue(queue, message) == \E i \in 1 .. Len(queue) : queue[i] = message

NeverTwice(queue, message) ==
    \A i, j \in 1 .. Len(queue) : queue[i] = message /\ queue[j] = message => i = j

(* message_queued says whether a WM_RECONCILE is in the queue, whatever    *)
(* was asked for in the middle of a pass and whether or not posting        *)
(* failed; so there is never a second one, and never none that is believed *)
(* to be under way.                                                        *)
MarkIsTrue ==
    monitor # "gone" =>
        /\ messageQueued <=> InQueue(posted, "reconcile")
        /\ NeverTwice(posted, "reconcile")

(* The same of the latch of the event hook: a layout change after a lost   *)
(* message is posted again.                                                *)
LatchIsTrue ==
    monitor # "gone" =>
        /\ latch <=> InQueue(posted, "tray")
        /\ NeverTwice(posted, "tray")

(* No lost wake-up: whatever waits for a pass - flags queued, or a request *)
(* left over by the limit of four passes - has a message or a loop under   *)
(* way, unless the latest message could not be posted.                     *)
WaitingWorkIsAnnounced ==
    \/ refused \/ monitor = "gone"
    \/ /\ queuedFlags # {} => messageQueued
       /\ pending => messageQueued \/ loops # <<>>

(* The pass that settles the overlay after Task View never runs while Task *)
(* View is in front again: a new switch calls the old stabilisation off.   *)
NoStabilizationUnderTaskView ==
    [][StabilizingTimer => ~taskView]_vars

(* Every request is served: an action asked for is taken over by a pass,   *)
(* if the message that announces it can be posted.                         *)
RequestsAreServed ==
    \A f \in Flags : f \in pendingFlags \cup queuedFlags
        ~> f \notin pendingFlags \cup queuedFlags \/ refused \/ monitor = "gone"

(* The metric providers are initialised, whether or not the message that   *)
(* defers them can be posted.                                              *)
ProvidersAreInitialized ==
    monitor = "initialized" ~> providersInitialized \/ monitor = "gone"

-----------------------------------------------------------------------------
(* Refinement: whoever asks for a pass is served by a PassService.  What   *)
(* is owed is what is pending and what is queued.                          *)
Service == INSTANCE PassService WITH
    Actions <- Flags,
    owed <- pendingFlags \cup queuedFlags,
    busy <- Running,
    serving <- IF Running THEN Top.flags ELSE {}

(* Passes run one at a time, none interrupted by another, and no action    *)
(* that was asked for is forgotten before a pass has taken it over.        *)
ImplementsPassService == Service!Spec
=============================================================================
