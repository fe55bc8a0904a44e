------------------------- MODULE ReconcileQueueProofs -------------------------
(***************************************************************************)
(* Proofs about ReconcileQueue, for any number of messages under way and   *)
(* whether or not posting may fail.                                        *)
(***************************************************************************)
EXTENDS ReconcileQueue, SequenceTheorems, TLAPS

-----------------------------------------------------------------------------
(* Lemmas on the message queue.                                            *)

(* Posting a message adds it and nothing else.                             *)
LEMMA AppendedMessage ==
    ASSUME NEW queue \in Seq(Messages), NEW m \in Messages, NEW x
    PROVE  /\ Append(queue, m) \in Seq(Messages)
           /\ InQueue(Append(queue, m), x) <=> InQueue(queue, x) \/ x = m
           /\ NeverTwice(queue, x) /\ (x = m => ~InQueue(queue, x))
                => NeverTwice(Append(queue, m), x)
<1> DEFINE longer == Append(queue, m)
<1>1. /\ longer \in Seq(Messages) /\ Len(longer) = Len(queue) + 1
      /\ \A i \in 1 .. Len(queue) : longer[i] = queue[i]
      /\ longer[Len(queue) + 1] = m /\ Len(queue) \in Nat
  OBVIOUS
<1> HIDE DEF longer
<1>2. InQueue(longer, x) <=> InQueue(queue, x) \/ x = m
  BY <1>1 DEF InQueue
<1>3. ASSUME NeverTwice(queue, x), x = m => ~InQueue(queue, x)
      PROVE  NeverTwice(longer, x)
  BY <1>1, <1>3 DEF NeverTwice, InQueue
<1>4. QED
  BY <1>1, <1>2, <1>3 DEF longer

(* Retrieving a message removes its first occurrence.                      *)
LEMMA RetrievedMessage ==
    ASSUME NEW queue \in Seq(Messages), queue # <<>>, NEW x
    PROVE  /\ Tail(queue) \in Seq(Messages)
           /\ NeverTwice(queue, x) => NeverTwice(Tail(queue), x)
           /\ Head(queue) # x => (InQueue(Tail(queue), x) <=> InQueue(queue, x))
           /\ Head(queue) = x /\ NeverTwice(queue, x) => ~InQueue(Tail(queue), x)
<1> DEFINE rest == Tail(queue)
<1>1. /\ rest \in Seq(Messages) /\ Len(rest) = Len(queue) - 1
      /\ \A i \in 1 .. Len(rest) : rest[i] = queue[i + 1]
      /\ Head(queue) = queue[1] /\ Len(queue) \in Nat \ {0}
  OBVIOUS
<1> HIDE DEF rest
<1>2. \A i \in 1 .. Len(queue) : i = 1 \/ (i - 1 \in 1 .. Len(rest) /\ rest[i - 1] = queue[i])
  BY <1>1
<1>3. \A i \in 1 .. Len(rest) : i + 1 \in 1 .. Len(queue)
  BY <1>1
<1>4. NeverTwice(queue, x) => NeverTwice(rest, x)
  BY <1>1, <1>3 DEF NeverTwice
<1>5. Head(queue) # x => (InQueue(rest, x) <=> InQueue(queue, x))
  BY <1>1, <1>2, <1>3 DEF InQueue
<1>6. Head(queue) = x /\ NeverTwice(queue, x) => ~InQueue(rest, x)
  BY <1>1, <1>3 DEF InQueue, NeverTwice
<1>7. QED
  BY <1>1, <1>4, <1>5, <1>6 DEF rest

-----------------------------------------------------------------------------
(* The inductive invariant: the parts that talk of the loops, and the      *)
(* parts that talk of the messages.                                        *)

(* active says whether a loop is under way: this is why there is only one. *)
LoopIsActive == active <=> loops # <<>>

(* A stabilisation waits only while Task View is not in front.             *)
StabilizationIsCurrent == stabilize => ~taskView

IInv ==
    /\ TypeOK /\ LoopIsActive /\ StabilizationIsCurrent
    /\ MarkIsTrue /\ LatchIsTrue /\ WaitingWorkIsAnnounced

LEMMA InitIInv == Init => IInv
<1>1. <<>> \in Seq(Loop) /\ <<>> \in Seq(Messages) /\ Len(<<>>) = 0
  OBVIOUS
<1>2. ASSUME Init PROVE TypeOK
  <2>1. loops = <<>> /\ posted = <<>>
    BY <1>2 DEF Init
  <2>2. loops \in Seq(Loop) /\ Len(loops) <= 1 /\ posted \in Seq(Messages)
    BY <1>1, <2>1
  <2>3. pendingFlags \subseteq Flags /\ queuedFlags \subseteq Flags
    BY <1>2 DEF Init
  <2>4. QED
    BY <1>2, <2>2, <2>3 DEF Init, TypeOK
<1>3. Init => MarkIsTrue /\ LatchIsTrue
  BY <1>1 DEF Init, MarkIsTrue, LatchIsTrue, InQueue, NeverTwice
<1>4. QED
  BY <1>2, <1>3 DEF Init, IInv, LoopIsActive, StabilizationIsCurrent,
                    WaitingWorkIsAnnounced

(* The state ReconcileOverlayState works on.                               *)
LoopState ==
    /\ active \in BOOLEAN /\ pending \in BOOLEAN /\ pendingFlags \subseteq Flags
    /\ loops \in Seq(Loop) /\ Len(loops) <= 1
    /\ LoopIsActive

LEMMA SameLoop == LoopState /\ UNCHANGED loopState => LoopState'
  BY DEF LoopState, LoopIsActive, loopState

(* A call of ReconcileOverlayState keeps the one loop there is, or begins  *)
(* one; the pass that runs, if any, goes on undisturbed.                   *)
LEMMA ReconcileKeeps ==
    ASSUME LoopState, NEW flags \in SUBSET Flags, ReconcileOverlayState(flags)
    PROVE  /\ LoopState' /\ loops' # <<>>
           /\ Running' <=> Running
           /\ Running => Top' = Top
           /\ pendingFlags' = pendingFlags \cup flags
<1>1. CASE active
  BY <1>1 DEF LoopState, LoopIsActive, ReconcileOverlayState, MayLoop, Running, Top
<1>2. CASE ~active
  <2> DEFINE loop == [left |-> PassLimit, running |-> FALSE, flags |-> {}]
  <2>1. loop \in Loop /\ loop.running = FALSE
    BY DEF Loop, PassLimit
  <2> HIDE DEF loop
  <2>2. loops = <<>> /\ loops' = Append(loops, loop) /\ active'
    BY <1>2 DEF LoopState, LoopIsActive, ReconcileOverlayState, MayLoop, loop
  <2>3. loops' \in Seq(Loop) /\ Len(loops') = 1 /\ loops'[1] = loop /\ loops' # <<>>
    BY <2>1, <2>2
  <2>4. ~Running /\ ~Running'
    BY <2>1, <2>2, <2>3 DEF Running, Top
  <2>5. QED
    <3>1. pending' = TRUE /\ pendingFlags' = pendingFlags \cup flags
      BY DEF ReconcileOverlayState
    <3>2. QED
      BY <2>2, <2>3, <2>4, <3>1 DEF LoopState, LoopIsActive
<1>3. QED
  BY <1>1, <1>2 DEF LoopState

(* A request for a later pass: the mark is true of the new queue, other    *)
(* messages are left alone, and the request is announced or refused.       *)
LEMMA RequestKeeps ==
    ASSUME NEW queue \in Seq(Messages), NEW flags \in SUBSET Flags,
           queuedFlags \subseteq Flags, messageQueued \in BOOLEAN,
           refused \in BOOLEAN,
           messageQueued <=> InQueue(queue, "reconcile"),
           NeverTwice(queue, "reconcile"),
           RequestOverlayReconcile(flags, queue)
    PROVE  /\ posted' \in Seq(Messages) /\ queuedFlags' \subseteq Flags
           /\ messageQueued' \in BOOLEAN /\ refused' \in BOOLEAN
           /\ messageQueued' <=> InQueue(posted', "reconcile")
           /\ NeverTwice(posted', "reconcile")
           /\ InQueue(posted', "tray") <=> InQueue(queue, "tray")
           /\ NeverTwice(queue, "tray") => NeverTwice(posted', "tray")
           /\ messageQueued' \/ refused'
           /\ queuedFlags' = queuedFlags \cup flags
<1>1. CASE messageQueued
  BY <1>1 DEF RequestOverlayReconcile
<1>2. CASE ~messageQueued
  <2>1. PICK ok \in BOOLEAN :
          /\ messageQueued' = ok /\ refused' = ~ok
          /\ posted' = IF ok THEN Append(queue, "reconcile") ELSE queue
    BY <1>2 DEF RequestOverlayReconcile, PostOutcomes, AfterFailedPost
  <2>2. "reconcile" \in Messages
    BY DEF Messages
  <2>3. CASE ok
    BY <1>2, <2>1, <2>2, <2>3, AppendedMessage DEF RequestOverlayReconcile
  <2>4. CASE ~ok
    BY <1>2, <2>1, <2>4 DEF RequestOverlayReconcile
  <2>5. QED
    BY <2>3, <2>4
<1>3. QED
  BY <1>1, <1>2

(* What neither kind of call touches.                                      *)
RestTypeOK ==
    /\ monitor \in {"waiting", "initialized", "gone"} /\ initializing \in BOOLEAN
    /\ latch \in BOOLEAN
    /\ metricsPending \in BOOLEAN /\ providersInitialized \in BOOLEAN
    /\ taskView \in BOOLEAN /\ stabilize \in BOOLEAN /\ stabilizeDue \in BOOLEAN

QueueTypeOK ==
    /\ queuedFlags \subseteq Flags /\ messageQueued \in BOOLEAN
    /\ refused \in BOOLEAN /\ posted \in Seq(Messages)

LEMMA PartsOfTypeOK ==
    TypeOK /\ LoopIsActive <=> LoopState /\ RestTypeOK /\ QueueTypeOK
  BY DEF TypeOK, LoopState, RestTypeOK, QueueTypeOK

(* A handler that starts a pass and leaves the messages alone.             *)
LEMMA ReconcileKeepsIInv ==
    ASSUME IInv, NEW flags \in SUBSET Flags, ReconcileOverlayState(flags),
           UNCHANGED <<requests, posted, latch>>, monitor # "gone",
           RestTypeOK', StabilizationIsCurrent'
    PROVE  IInv'
<1>1. LoopState /\ QueueTypeOK
  BY PartsOfTypeOK DEF IInv
<1>2. LoopState' /\ loops' # <<>>
  BY <1>1, ReconcileKeeps
<1>3. QueueTypeOK' /\ MarkIsTrue' /\ LatchIsTrue'
  BY <1>1 DEF IInv, QueueTypeOK, MarkIsTrue, LatchIsTrue, requests
<1>4. WaitingWorkIsAnnounced'
  BY <1>2 DEF IInv, WaitingWorkIsAnnounced, requests
<1>5. TypeOK' /\ LoopIsActive'
  BY <1>2, <1>3, PartsOfTypeOK DEF TypeOK, LoopState, RestTypeOK, QueueTypeOK
<1>6. QED
  BY <1>3, <1>4, <1>5 DEF IInv

(* A handler that asks for a later pass.                                   *)
LEMMA RequestKeepsIInv ==
    ASSUME IInv, monitor # "gone", NEW flags \in SUBSET Flags,
           NEW queue \in Seq(Messages),
           InQueue(queue, "reconcile") <=> InQueue(posted, "reconcile"),
           NeverTwice(queue, "reconcile"), NeverTwice(queue, "tray"),
           latch' <=> InQueue(queue, "tray"),
           RequestOverlayReconcile(flags, queue),
           LoopState', RestTypeOK', StabilizationIsCurrent'
    PROVE  IInv'
<1>1. /\ queuedFlags \subseteq Flags /\ messageQueued \in BOOLEAN
      /\ refused \in BOOLEAN
      /\ messageQueued <=> InQueue(queue, "reconcile")
  BY DEF IInv, TypeOK, MarkIsTrue
<1>2. /\ posted' \in Seq(Messages) /\ queuedFlags' \subseteq Flags
      /\ messageQueued' \in BOOLEAN /\ refused' \in BOOLEAN
      /\ messageQueued' <=> InQueue(posted', "reconcile")
      /\ NeverTwice(posted', "reconcile") /\ NeverTwice(posted', "tray")
      /\ InQueue(posted', "tray") <=> InQueue(queue, "tray")
      /\ messageQueued' \/ refused'
  BY <1>1, RequestKeeps
<1>3. TypeOK' /\ LoopIsActive'
  BY <1>2 DEF TypeOK, LoopState, RestTypeOK
<1>4. MarkIsTrue' /\ LatchIsTrue'
  BY <1>2 DEF MarkIsTrue, LatchIsTrue
<1>5. WaitingWorkIsAnnounced'
  BY <1>2 DEF WaitingWorkIsAnnounced
<1>6. QED
  BY <1>3, <1>4, <1>5 DEF IInv

-----------------------------------------------------------------------------
(* The loop.                                                               *)

(* What the state of the loop is when there is one.                        *)
LEMMA TheLoop ==
    ASSUME LoopState, loops # <<>>
    PROVE  /\ Len(loops) = 1 /\ Top = loops[1] /\ Top \in Loop /\ active
           /\ Running <=> Top.running
<1>1. loops \in Seq(Loop) /\ Len(loops) <= 1 /\ active
  BY DEF LoopState, LoopIsActive
<1>2. Len(loops) = 1 /\ loops[1] \in Loop
  <2> DEFINE n == Len(loops)
  <2>1. n \in Nat \ {0} /\ n <= 1
    BY <1>1, EmptySeq
  <2> HIDE DEF n
  <2>2. n = 1
    BY <2>1
  <2> USE DEF n
  <2>3. QED
    BY <1>1, <2>2, ElementOfSeq
<1>3. QED
  BY <1>1, <1>2 DEF Top, Running

LEMMA RunPassKeeps ==
    ASSUME LoopState, RunPass
    PROVE  /\ LoopState' /\ ~Running /\ Running' /\ loops' # <<>>
           /\ Top'.flags = pendingFlags /\ pendingFlags' = {}
<1>1. /\ Len(loops) = 1 /\ Top = loops[1] /\ Top \in Loop /\ active /\ loops # <<>>
      /\ ~Top.running /\ Top.left > 0 /\ ~Running
  BY TheLoop DEF RunPass
<1> DEFINE loop == [left |-> Top.left - 1, running |-> TRUE, flags |-> pendingFlags]
<1>2. loop \in Loop /\ loop.running /\ loop.flags = pendingFlags
  BY <1>1 DEF Loop, LoopState, PassLimit
<1>3. loops' = [loops EXCEPT ![1] = loop]
  BY <1>1 DEF RunPass
<1> HIDE DEF loop
<1>4. loops' \in Seq(Loop) /\ Len(loops') = 1 /\ loops'[1] = loop /\ loops' # <<>>
  BY <1>1, <1>2, <1>3 DEF LoopState
<1>5. Top' = loop
  BY <1>4 DEF Top
<1>6. active' = active /\ pending' = FALSE /\ pendingFlags' = {}
  BY DEF RunPass
<1>7. LoopState'
  BY <1>1, <1>4, <1>6 DEF LoopState, LoopIsActive
<1>8. Running'
  BY <1>2, <1>4, <1>5 DEF Running
<1>9. QED
  BY <1>1, <1>2, <1>4, <1>5, <1>6, <1>7, <1>8

LEMMA PassReturnsKeeps ==
    ASSUME LoopState, PassReturns
    PROVE  LoopState' /\ Running /\ ~Running' /\ loops' # <<>>
<1>1. /\ Len(loops) = 1 /\ Top = loops[1] /\ Top \in Loop /\ active /\ loops # <<>>
      /\ Running
  BY TheLoop DEF PassReturns, Running
<1> DEFINE loop == [Top EXCEPT !.running = FALSE, !.flags = {}]
<1>2. loop \in Loop /\ loop.running = FALSE
  BY <1>1 DEF Loop
<1>3. loops' = [loops EXCEPT ![1] = loop]
  BY <1>1 DEF PassReturns, Loop
<1> HIDE DEF loop
<1>4. loops' \in Seq(Loop) /\ Len(loops') = 1 /\ loops'[1] = loop /\ loops' # <<>>
  BY <1>1, <1>2, <1>3 DEF LoopState
<1>5. LoopState'
  BY <1>1, <1>4 DEF LoopState, LoopIsActive, PassReturns
<1>6. ~Running'
  BY <1>2, <1>4 DEF Running, Top
<1>7. QED
  BY <1>1, <1>4, <1>5, <1>6

LEMMA LoopEndsKeeps ==
    ASSUME LoopState, LoopEnds
    PROVE  LoopState' /\ ~Running /\ ~Running' /\ loops' = <<>>
<1>1. /\ Len(loops) = 1 /\ Top = loops[1] /\ Top \in Loop /\ active /\ loops # <<>>
      /\ ~Running
  BY TheLoop DEF LoopEnds
<1>2. loops' = SubSeq(loops, 1, 0) /\ active' = FALSE
  BY <1>1 DEF LoopEnds
<1>3. loops' = <<>>
  BY <1>1, <1>2 DEF LoopState
<1>4. loops' \in Seq(Loop) /\ Len(loops') <= 1
  BY <1>3
<1>5. LoopState'
  BY <1>2, <1>3, <1>4 DEF LoopState, LoopIsActive, LoopEnds
<1>6. QED
  BY <1>1, <1>3, <1>5 DEF Running

-----------------------------------------------------------------------------
(* Every step keeps the inductive invariant.                               *)
LEMMA LoopingIInv == ASSUME IInv, Looping PROVE IInv'
<1>1. LoopState /\ RestTypeOK /\ QueueTypeOK
  BY PartsOfTypeOK DEF IInv
<1>2. CASE RunPass
  <2>1. LoopState' /\ loops' # <<>>
    BY <1>1, <1>2, RunPassKeeps
  <2>2. RestTypeOK' /\ QueueTypeOK' /\ pending' = FALSE
    BY <1>1, <1>2 DEF RunPass, RestTypeOK, QueueTypeOK, requests, metrics, switches
  <2>3. TypeOK' /\ LoopIsActive'
    BY <2>1, <2>2 DEF TypeOK, LoopState, RestTypeOK, QueueTypeOK
  <2>4. QED
    BY <1>2, <2>2, <2>3 DEF IInv, RunPass, StabilizationIsCurrent, MarkIsTrue,
       LatchIsTrue, WaitingWorkIsAnnounced, requests, metrics, switches
<1>3. CASE PassReturns
  <2>1. LoopState' /\ loops' # <<>>
    BY <1>1, <1>3, PassReturnsKeeps
  <2>2. RestTypeOK' /\ QueueTypeOK'
    BY <1>1, <1>3 DEF PassReturns, RestTypeOK, QueueTypeOK, requests, metrics, switches
  <2>3. TypeOK' /\ LoopIsActive'
    BY <2>1, <2>2 DEF TypeOK, LoopState, RestTypeOK, QueueTypeOK
  <2>4. QED
    BY <1>3, <2>1, <2>3 DEF IInv, PassReturns, StabilizationIsCurrent, MarkIsTrue,
       LatchIsTrue, WaitingWorkIsAnnounced, requests, metrics, switches
<1>4. CASE LoopEnds
  <2>1. LoopState' /\ loops' = <<>>
    BY <1>1, <1>4, LoopEndsKeeps
  <2>2. RestTypeOK' /\ StabilizationIsCurrent'
    BY <1>1, <1>4 DEF IInv, LoopEnds, RestTypeOK, metrics, switches,
                      StabilizationIsCurrent
  <2>3. CASE pending /\ monitor # "gone"
    BY <1>1, <1>4, <2>1, <2>2, <2>3, RequestKeepsIInv
       DEF IInv, LoopEnds, NeedsFollowUp, MarkIsTrue, LatchIsTrue, QueueTypeOK
  <2>4. CASE pending /\ monitor = "gone"
    <3>1. QueueTypeOK'
      <4>1. RequestOverlayReconcile({}, posted)
        BY <1>4, <2>4 DEF LoopEnds, NeedsFollowUp
      <4>2. queuedFlags' = queuedFlags
        BY <4>1 DEF RequestOverlayReconcile
      <4>3. CASE messageQueued
        BY <1>1, <4>1, <4>2, <4>3 DEF RequestOverlayReconcile, QueueTypeOK
      <4>4. CASE ~messageQueued
        <5>1. PICK ok \in BOOLEAN :
                /\ messageQueued' = ok /\ refused' = ~ok
                /\ posted' = IF ok THEN Append(posted, "reconcile") ELSE posted
          BY <4>1, <4>4 DEF RequestOverlayReconcile, PostOutcomes, AfterFailedPost
        <5>2. "reconcile" \in Messages
          BY DEF Messages
        <5>3. QED
          BY <1>1, <4>2, <5>1, <5>2, AppendedMessage DEF QueueTypeOK
      <4>5. QED
        BY <4>3, <4>4
    <3>2. TypeOK' /\ LoopIsActive'
      BY <2>1, <2>2, <3>1 DEF TypeOK, LoopState, RestTypeOK, QueueTypeOK
    <3>3. monitor' = "gone"
      BY <1>4, <2>4 DEF LoopEnds
    <3>4. QED
      BY <2>2, <3>2, <3>3 DEF IInv, MarkIsTrue, LatchIsTrue, WaitingWorkIsAnnounced
  <2>5. CASE ~pending
    <3>1. /\ QueueTypeOK' /\ UNCHANGED <<requests, posted>> /\ pending' = FALSE
          /\ UNCHANGED <<monitor, latch>>
      BY <1>1, <1>4, <2>5 DEF LoopEnds, NeedsFollowUp, QueueTypeOK, requests, LoopState
    <3>2. TypeOK' /\ LoopIsActive'
      BY <2>1, <2>2, <3>1 DEF TypeOK, LoopState, RestTypeOK, QueueTypeOK
    <3>3. QED
      BY <2>2, <3>1, <3>2 DEF IInv, MarkIsTrue, LatchIsTrue, WaitingWorkIsAnnounced,
                              requests
  <2>6. QED
    BY <2>3, <2>4, <2>5
<1>5. CASE RequestMetricProviderInitialization
  <2>1. PICK ok \in BOOLEAN :
          /\ posted' = IF ok THEN Append(posted, "metrics") ELSE posted
          /\ IF InitializesAtOnce(ok)
               THEN InitializeMetricProviders
               ELSE /\ metricsPending' = TRUE
                    /\ UNCHANGED <<loopState, providersInitialized>>
    BY <1>5 DEF RequestMetricProviderInitialization, PostOutcomes
  <2>2. /\ UNCHANGED <<monitor, requests, latch, switches>> /\ loops = <<>>
        /\ initializing' = FALSE
    BY <1>5 DEF RequestMetricProviderInitialization
  <2>3. /\ posted' \in Seq(Messages)
        /\ \A m \in {"reconcile", "tray"} :
             /\ InQueue(posted', m) <=> InQueue(posted, m)
             /\ NeverTwice(posted, m) => NeverTwice(posted', m)
    <3>1. "metrics" \in Messages
      BY DEF Messages
    <3>2. QED
      BY <1>1, <2>1, <3>1, AppendedMessage DEF QueueTypeOK
  <2>4. LoopState' /\ (loops' # <<>> \/ pending' = pending)
    <3>1. CASE InitializesAtOnce(ok) /\ ~providersInitialized
      <4>1. ReconcileOverlayState({"Render"})
        BY <2>1, <3>1 DEF InitializeMetricProviders
      <4>2. QED
        BY <1>1, <4>1, ReconcileKeeps DEF Flags
    <3>2. CASE ~(InitializesAtOnce(ok) /\ ~providersInitialized)
      BY <1>1, <2>1, <3>2 DEF InitializeMetricProviders, loopState, LoopState, LoopIsActive
    <3>3. QED
      BY <3>1, <3>2
  <2>5. RestTypeOK' /\ StabilizationIsCurrent'
    BY <1>1, <2>1, <2>2 DEF IInv, RestTypeOK, switches, InitializeMetricProviders,
                            StabilizationIsCurrent
  <2>6. QueueTypeOK'
    BY <1>1, <2>2, <2>3 DEF QueueTypeOK, requests
  <2>7. TypeOK' /\ LoopIsActive'
    BY <2>4, <2>5, <2>6 DEF TypeOK, LoopState, RestTypeOK, QueueTypeOK
  <2>8. MarkIsTrue' /\ LatchIsTrue'
    BY <2>2, <2>3 DEF IInv, MarkIsTrue, LatchIsTrue, requests
  <2>9. WaitingWorkIsAnnounced'
    BY <2>2, <2>4 DEF IInv, WaitingWorkIsAnnounced, requests
  <2>10. QED
    BY <2>5, <2>7, <2>8, <2>9 DEF IInv
<1>6. QED
  BY <1>2, <1>3, <1>4, <1>5 DEF Looping

LEMMA HandlersIInv == ASSUME IInv, InitializeMonitor \/ Dispatch \/ Timer PROVE IInv'
<1>1. LoopState /\ RestTypeOK /\ QueueTypeOK
  BY PartsOfTypeOK DEF IInv
<1>2. {"Render"} \in SUBSET Flags /\ {"Reposition", "Render"} \in SUBSET Flags
      /\ {"SampleKeys"} \in SUBSET Flags /\ {"SampleMetrics", "Render"} \in SUBSET Flags
      /\ {"Reposition"} \in SUBSET Flags
      /\ {"Reposition", "PromoteForTaskView"} \in SUBSET Flags
      /\ {"SampleKeys", "Reposition", "PromoteForTaskView"} \in SUBSET Flags
  BY DEF Flags
<1>3. CASE InitializeMonitor
  <2>1. /\ ReconcileOverlayState({"Reposition", "Render"}) /\ monitor # "gone"
        /\ UNCHANGED <<requests, posted, latch>>
    BY <1>3 DEF InitializeMonitor
  <2>2. RestTypeOK' /\ StabilizationIsCurrent'
    BY <1>1, <1>3 DEF IInv, InitializeMonitor, RestTypeOK, metrics, switches,
                      StabilizationIsCurrent
  <2>3. QED
    BY <1>2, <2>1, <2>2, ReconcileKeepsIInv
<1>4. ASSUME NEW message \in Messages, Handling(message)
      PROVE  /\ monitor # "gone" /\ loops = <<>>
             /\ Tail(posted) \in Seq(Messages)
             /\ NeverTwice(Tail(posted), "reconcile")
             /\ NeverTwice(Tail(posted), "tray")
             /\ message # "reconcile" =>
                  (InQueue(Tail(posted), "reconcile") <=> InQueue(posted, "reconcile"))
             /\ message # "tray" =>
                  (InQueue(Tail(posted), "tray") <=> InQueue(posted, "tray"))
             /\ ~InQueue(Tail(posted), message)
                  \/ message \notin {"reconcile", "tray"}
  <2>1. posted \in Seq(Messages) /\ posted # <<>> /\ Head(posted) = message
        /\ monitor # "gone" /\ loops = <<>>
    BY <1>1, <1>4 DEF QueueTypeOK, Handling, Idle
  <2>2. NeverTwice(posted, "reconcile") /\ NeverTwice(posted, "tray")
    BY <2>1 DEF IInv, MarkIsTrue, LatchIsTrue
  <2>3. QED
    BY <2>1, <2>2, RetrievedMessage
<1>5. CASE HandleQueuedOverlayReconcile
  <2>1. /\ Handling("reconcile") /\ posted' = Tail(posted)
        /\ messageQueued' = FALSE /\ queuedFlags' = {}
        /\ ReconcileOverlayState(queuedFlags)
        /\ UNCHANGED <<monitor, initializing, refused, latch, metrics, switches>>
    BY <1>5 DEF HandleQueuedOverlayReconcile, MarkWhileHandled
  <2>2. /\ monitor # "gone" /\ posted' \in Seq(Messages)
        /\ NeverTwice(posted', "reconcile") /\ NeverTwice(posted', "tray")
        /\ ~InQueue(posted', "reconcile")
        /\ InQueue(posted', "tray") <=> InQueue(posted, "tray")
    BY <2>1, <1>4 DEF Messages
  <2>3. LoopState' /\ loops' # <<>>
    BY <1>1, <2>1, ReconcileKeeps DEF QueueTypeOK
  <2>4. RestTypeOK' /\ QueueTypeOK' /\ StabilizationIsCurrent'
    BY <1>1, <2>1, <2>2 DEF IInv, RestTypeOK, QueueTypeOK, metrics, switches,
                            StabilizationIsCurrent
  <2>5. TypeOK' /\ LoopIsActive'
    BY <2>3, <2>4 DEF TypeOK, LoopState, RestTypeOK, QueueTypeOK
  <2>6. MarkIsTrue' /\ LatchIsTrue' /\ WaitingWorkIsAnnounced'
    BY <2>1, <2>2, <2>3 DEF IInv, MarkIsTrue, LatchIsTrue, WaitingWorkIsAnnounced
  <2>7. QED
    BY <2>4, <2>5, <2>6 DEF IInv
<1>6. CASE HandleTrayLayoutChanged
  <2>1. PICK promotion \in SUBSET {"PromoteForTaskView"} :
          RequestOverlayReconcile({"Reposition"} \cup promotion, Tail(posted))
    BY <1>6 DEF HandleTrayLayoutChanged
  <2>2. /\ Handling("tray") /\ latch' = FALSE
        /\ UNCHANGED <<monitor, initializing, loopState, metrics, switches>>
    BY <1>6 DEF HandleTrayLayoutChanged
  <2>3. {"Reposition"} \cup promotion \in SUBSET Flags
    BY DEF Flags
  <2>4. LoopState' /\ RestTypeOK' /\ StabilizationIsCurrent'
    BY <1>1, <2>2 DEF IInv, LoopState, LoopIsActive, RestTypeOK, loopState, metrics,
                      switches, StabilizationIsCurrent
  <2>5. /\ monitor # "gone" /\ Tail(posted) \in Seq(Messages)
        /\ InQueue(Tail(posted), "reconcile") <=> InQueue(posted, "reconcile")
        /\ NeverTwice(Tail(posted), "reconcile") /\ NeverTwice(Tail(posted), "tray")
        /\ ~InQueue(Tail(posted), "tray")
    BY <2>2, <1>4 DEF Messages
  <2>6. QED
    BY <2>1, <2>2, <2>3, <2>4, <2>5, RequestKeepsIInv
<1>7. CASE HandleTaskViewSwitch
  <2>1. /\ Handling("foreground")
        /\ RequestOverlayReconcile({"Reposition", "PromoteForTaskView"}, Tail(posted))
        /\ UNCHANGED <<monitor, initializing, loopState, latch, metrics>>
    BY <1>7 DEF HandleTaskViewSwitch
  <2>2. \E inTaskView \in BOOLEAN :
          taskView' = inTaskView /\ stabilize' = ~inTaskView /\ stabilizeDue' = FALSE
    BY <1>7 DEF HandleTaskViewSwitch, StabilizesAfter
  <2>3. LoopState' /\ RestTypeOK' /\ StabilizationIsCurrent'
    <3>1. taskView' \in BOOLEAN /\ stabilize' \in BOOLEAN /\ stabilizeDue' \in BOOLEAN
          /\ StabilizationIsCurrent'
      <4>1. PICK inTaskView \in BOOLEAN :
              taskView' = inTaskView /\ stabilize' = ~inTaskView /\ stabilizeDue' = FALSE
        BY <2>2
      <4>2. CASE inTaskView = TRUE
        BY <4>1, <4>2 DEF StabilizationIsCurrent
      <4>3. CASE inTaskView = FALSE
        BY <4>1, <4>3 DEF StabilizationIsCurrent
      <4>4. QED
        BY <4>2, <4>3
    <3>2. RestTypeOK'
      BY <1>1, <2>1, <3>1 DEF RestTypeOK, metrics
    <3>3. QED
      BY <1>1, <2>1, <3>1, <3>2, SameLoop
  <2>4. /\ monitor # "gone" /\ Tail(posted) \in Seq(Messages)
        /\ InQueue(Tail(posted), "reconcile") <=> InQueue(posted, "reconcile")
        /\ InQueue(Tail(posted), "tray") <=> InQueue(posted, "tray")
        /\ NeverTwice(Tail(posted), "reconcile") /\ NeverTwice(Tail(posted), "tray")
    BY <2>1, <1>4 DEF Messages
  <2>5. latch' <=> InQueue(Tail(posted), "tray")
    BY <2>1, <2>4 DEF IInv, LatchIsTrue
  <2>6. QED
    BY <1>2, <2>1, <2>3, <2>4, <2>5, RequestKeepsIInv
<1>8. CASE HandleOtherForeground \/ HandleInitializeMetrics
  <2>1. /\ posted' = Tail(posted)
        /\ Handling("foreground") \/ Handling("metrics")
        /\ UNCHANGED <<monitor, initializing, requests, latch, switches>>
    BY <1>8 DEF HandleOtherForeground, HandleInitializeMetrics
  <2>2. /\ monitor # "gone" /\ posted' \in Seq(Messages)
        /\ NeverTwice(posted', "reconcile") /\ NeverTwice(posted', "tray")
        /\ InQueue(posted', "reconcile") <=> InQueue(posted, "reconcile")
        /\ InQueue(posted', "tray") <=> InQueue(posted, "tray")
    BY <2>1, <1>4 DEF Messages
  <2>3. \/ UNCHANGED <<loopState, metrics>>
        \/ HandleInitializeMetrics /\ providersInitialized /\ UNCHANGED loopState
        \/ HandleInitializeMetrics /\ ReconcileOverlayState({"Render"})
    BY <1>8 DEF HandleOtherForeground, HandleInitializeMetrics,
                InitializeMetricProviders
  <2>4. LoopState' /\ (loops' # <<>> \/ (pending' = pending /\ loops' = loops))
    <3>1. CASE UNCHANGED loopState
      BY <1>1, <3>1 DEF LoopState, LoopIsActive, loopState
    <3>2. CASE ReconcileOverlayState({"Render"})
      BY <1>1, <1>2, <3>2, ReconcileKeeps
    <3>3. QED
      BY <2>3, <3>1, <3>2
  <2>5. RestTypeOK' /\ StabilizationIsCurrent'
    BY <1>1, <1>8, <2>1 DEF IInv, RestTypeOK, switches, metrics,
       HandleOtherForeground, HandleInitializeMetrics, InitializeMetricProviders,
       StabilizationIsCurrent
  <2>6. QueueTypeOK'
    BY <1>1, <2>1, <2>2 DEF QueueTypeOK, requests
  <2>7. TypeOK' /\ LoopIsActive'
    BY <2>4, <2>5, <2>6 DEF TypeOK, LoopState, RestTypeOK, QueueTypeOK
  <2>8. MarkIsTrue' /\ LatchIsTrue'
    BY <2>1, <2>2 DEF IInv, MarkIsTrue, LatchIsTrue, requests
  <2>9. WaitingWorkIsAnnounced'
    BY <2>1, <2>4 DEF IInv, WaitingWorkIsAnnounced, requests
  <2>10. QED
    BY <2>5, <2>7, <2>8, <2>9 DEF IInv
<1>9. CASE Timer
  <2>1. PICK flags \in SUBSET Flags : ReconcileOverlayState(flags)
    BY <1>2, <1>9 DEF Timer, StateTimer, StabilizingTimer, RefreshOrPlacementTimer
  <2>2. monitor # "gone" /\ UNCHANGED <<requests, posted, latch>>
    BY <1>9 DEF Timer, StateTimer, StabilizingTimer, RefreshOrPlacementTimer,
                TimerFires
  <2>3. RestTypeOK' /\ StabilizationIsCurrent'
    <3>1. UNCHANGED <<monitor, initializing, latch, metrics, taskView>>
      BY <1>9 DEF Timer, StateTimer, StabilizingTimer, RefreshOrPlacementTimer,
                  switches
    <3>2. \/ stabilize' = stabilize /\ stabilizeDue' = stabilizeDue
          \/ stabilize' = FALSE /\ stabilizeDue' = FALSE
      BY <1>9 DEF Timer, StateTimer, StabilizingTimer, RefreshOrPlacementTimer,
                  switches
    <3>3. stabilize' \in BOOLEAN /\ stabilizeDue' \in BOOLEAN
      BY <1>1, <3>2 DEF RestTypeOK
    <3>4. StabilizationIsCurrent'
      BY <3>1, <3>2 DEF IInv, StabilizationIsCurrent
    <3>5. QED
      BY <1>1, <3>1, <3>3, <3>4 DEF RestTypeOK, metrics
  <2>4. QED
    BY <2>1, <2>2, <2>3, ReconcileKeepsIInv
<1>10. QED
  BY <1>3, <1>5, <1>6, <1>7, <1>8, <1>9 DEF Dispatch

LEMMA OutsideIInv == ASSUME IInv, Outside PROVE IInv'
<1>1. LoopState /\ RestTypeOK /\ QueueTypeOK
  BY PartsOfTypeOK DEF IInv
<1>2. CASE SentReconcile \/ UserCommand
  <2>1. PICK flags \in SUBSET Flags : ReconcileOverlayState(flags)
    BY <1>2 DEF SentReconcile, UserCommand, Flags
  <2>2. monitor # "gone" /\ UNCHANGED <<requests, posted, latch>>
    BY <1>2 DEF SentReconcile, UserCommand, Reachable
  <2>3. RestTypeOK' /\ StabilizationIsCurrent'
    BY <1>1, <1>2 DEF IInv, SentReconcile, UserCommand, RestTypeOK, metrics, switches,
                      StabilizationIsCurrent
  <2>4. QED
    BY <2>1, <2>2, <2>3, ReconcileKeepsIInv
<1>3. CASE SentRequest
  <2>1. /\ RequestOverlayReconcile({"Reposition", "Render"}, posted)
        /\ monitor # "gone"
        /\ UNCHANGED <<monitor, initializing, loopState, latch, metrics, switches>>
    BY <1>3 DEF SentRequest, Reachable
  <2>2. {"Reposition", "Render"} \in SUBSET Flags /\ posted \in Seq(Messages)
    BY <1>1 DEF Flags, QueueTypeOK
  <2>3. LoopState' /\ RestTypeOK' /\ StabilizationIsCurrent'
    BY <1>1, <2>1 DEF IInv, LoopState, LoopIsActive, RestTypeOK, loopState, metrics,
                      switches, StabilizationIsCurrent
  <2>4. /\ NeverTwice(posted, "reconcile") /\ NeverTwice(posted, "tray")
        /\ latch' <=> InQueue(posted, "tray")
    BY <2>1 DEF IInv, MarkIsTrue, LatchIsTrue
  <2>5. QED
    BY <2>1, <2>2, <2>3, <2>4, RequestKeepsIInv
<1>4. CASE TrayLayoutEvent \/ ForegroundEvent
  <2>1. /\ UNCHANGED <<monitor, initializing, loopState, requests, metrics, switches>>
        /\ monitor # "gone"
    BY <1>4 DEF TrayLayoutEvent, ForegroundEvent, Reachable
  <2>2. \/ ~latch /\ latch' = TRUE /\ posted' = Append(posted, "tray")
        \/ latch' = latch /\ posted' = posted
        \/ latch' = latch /\ posted' = Append(posted, "foreground")
    <3>1. CASE TrayLayoutEvent
      <4>1. PICK ok \in BOOLEAN :
              /\ ~latch /\ latch' = ok
              /\ posted' = IF ok THEN Append(posted, "tray") ELSE posted
        BY <3>1 DEF TrayLayoutEvent, LatchAfter, PostOutcomes
      <4>2. latch = FALSE
        BY <1>1, <4>1 DEF RestTypeOK
      <4>3. QED
        BY <4>1, <4>2
    <3>2. CASE ForegroundEvent
      BY <3>2 DEF ForegroundEvent
    <3>3. QED
      BY <1>4, <3>1, <3>2
  <2>3. /\ posted' \in Seq(Messages)
        /\ InQueue(posted', "reconcile") <=> InQueue(posted, "reconcile")
        /\ NeverTwice(posted', "reconcile") /\ NeverTwice(posted', "tray")
        /\ latch' <=> InQueue(posted', "tray")
    <3>1. posted \in Seq(Messages) /\ {"tray", "foreground"} \subseteq Messages
      BY <1>1 DEF QueueTypeOK, Messages
    <3>2. /\ NeverTwice(posted, "reconcile") /\ NeverTwice(posted, "tray")
          /\ latch <=> InQueue(posted, "tray")
      BY <2>1 DEF IInv, MarkIsTrue, LatchIsTrue
    <3>3. CASE ~latch /\ latch' = TRUE /\ posted' = Append(posted, "tray")
      BY <3>1, <3>2, <3>3, AppendedMessage
    <3>4. CASE latch' = latch /\ posted' = posted
      BY <3>1, <3>2, <3>4
    <3>5. CASE latch' = latch /\ posted' = Append(posted, "foreground")
      BY <3>1, <3>2, <3>5, AppendedMessage
    <3>6. QED
      BY <2>2, <3>3, <3>4, <3>5
  <2>4. LoopState' /\ RestTypeOK' /\ QueueTypeOK' /\ StabilizationIsCurrent'
    <3>1. LoopState'
      BY <1>1, <2>1, SameLoop
    <3>2. RestTypeOK'
      BY <1>1, <2>1, <2>2 DEF RestTypeOK, metrics, switches
    <3>3. QueueTypeOK' /\ StabilizationIsCurrent'
      BY <1>1, <2>1, <2>3 DEF IInv, QueueTypeOK, requests, switches,
                              StabilizationIsCurrent
    <3>4. QED
      BY <3>1, <3>2, <3>3
  <2>5. TypeOK' /\ LoopIsActive'
    BY <2>4 DEF TypeOK, LoopState, RestTypeOK, QueueTypeOK
  <2>6. MarkIsTrue' /\ LatchIsTrue' /\ WaitingWorkIsAnnounced'
    BY <2>1, <2>3 DEF IInv, MarkIsTrue, LatchIsTrue, WaitingWorkIsAnnounced,
                      requests, loopState
  <2>7. QED
    BY <2>4, <2>5, <2>6 DEF IInv
<1>5. CASE StabilizeDelayPasses \/ HandleControllerDestroy
  <2>1. /\ UNCHANGED <<initializing, loopState, requests, latch, metrics, taskView,
                       stabilize>>
        /\ stabilizeDue' \in BOOLEAN
        /\ \/ monitor' = monitor /\ posted' = posted
           \/ monitor' = "gone" /\ posted' = <<>>
    BY <1>1, <1>5 DEF StabilizeDelayPasses, HandleControllerDestroy, RestTypeOK,
                      switches
  <2>2. posted' \in Seq(Messages)
    <3>1. posted \in Seq(Messages) /\ <<>> \in Seq(Messages)
      BY <1>1, EmptySeq DEF QueueTypeOK
    <3>2. posted' = posted \/ posted' = <<>>
      BY <2>1
    <3>3. QED
      BY <3>1, <3>2
  <2>3. /\ LoopState' /\ RestTypeOK' /\ QueueTypeOK' /\ StabilizationIsCurrent'
    <3>1. LoopState'
      BY <1>1, <2>1, SameLoop
    <3>2. RestTypeOK'
      BY <1>1, <2>1 DEF RestTypeOK, metrics
    <3>3. QueueTypeOK' /\ StabilizationIsCurrent'
      BY <1>1, <2>1, <2>2 DEF IInv, QueueTypeOK, requests, StabilizationIsCurrent
    <3>4. QED
      BY <3>1, <3>2, <3>3
  <2>4. TypeOK' /\ LoopIsActive'
    BY <2>3 DEF TypeOK, LoopState, RestTypeOK, QueueTypeOK
  <2>5. MarkIsTrue' /\ LatchIsTrue' /\ WaitingWorkIsAnnounced'
    BY <2>1 DEF IInv, MarkIsTrue, LatchIsTrue, WaitingWorkIsAnnounced, requests,
                loopState
  <2>6. QED
    BY <2>3, <2>4, <2>5 DEF IInv
<1>6. QED
  BY <1>2, <1>3, <1>4, <1>5 DEF Outside

LEMMA NextIInv == IInv /\ [Next]_vars => IInv'
<1>1. ASSUME IInv, Next PROVE IInv'
  BY <1>1, LoopingIInv, HandlersIInv, OutsideIInv DEF Next
<1>2. ASSUME IInv, UNCHANGED vars PROVE IInv'
  BY <1>2 DEF IInv, TypeOK, LoopIsActive, StabilizationIsCurrent, MarkIsTrue,
              LatchIsTrue, WaitingWorkIsAnnounced, vars
<1>3. QED
  BY <1>1, <1>2

LEMMA AlwaysIInv == Spec => []IInv
  BY InitIInv, NextIInv, PTL DEF Spec

-----------------------------------------------------------------------------
(* The state stays well formed: no fifth pass, and one loop at most.       *)
THEOREM TypeCorrect == Spec => []TypeOK
<1>1. IInv => TypeOK
  BY DEF IInv
<1>2. QED
  BY <1>1, AlwaysIInv, PTL

(* message_queued tells the truth, however often posting fails.            *)
THEOREM MarkHeld == Spec => []MarkIsTrue
<1>1. IInv => MarkIsTrue
  BY DEF IInv
<1>2. QED
  BY <1>1, AlwaysIInv, PTL

(* The latch of the event hook tells the truth.                            *)
THEOREM LatchHeld == Spec => []LatchIsTrue
<1>1. IInv => LatchIsTrue
  BY DEF IInv
<1>2. QED
  BY <1>1, AlwaysIInv, PTL

(* No lost wake-up.                                                        *)
THEOREM WakeUpHeld == Spec => []WaitingWorkIsAnnounced
<1>1. IInv => WaitingWorkIsAnnounced
  BY DEF IInv
<1>2. QED
  BY <1>1, AlwaysIInv, PTL

(* A stabilisation never runs under Task View.                             *)
THEOREM StabilizationHeld == Spec => NoStabilizationUnderTaskView
<1>1. IInv => (StabilizingTimer => ~taskView)
  BY DEF IInv, StabilizationIsCurrent, StabilizingTimer
<1>2. IInv /\ [Next]_vars => [StabilizingTimer => ~taskView]_vars
  BY <1>1
<1>3. QED
  BY <1>2, AlwaysIInv, PTL DEF Spec, NoStabilizationUnderTaskView

-----------------------------------------------------------------------------
(* The refinement.  Only RunPass and PassReturns are a service's own steps;*)
(* every other step asks for something, or for nothing.                    *)

Asks ==
    /\ Running' <=> Running
    /\ Running => Top' = Top
    /\ pendingFlags \cup queuedFlags \subseteq pendingFlags' \cup queuedFlags'

(* A call of either function asks and disturbs nothing.                    *)
LEMMA CallsAsk ==
    ASSUME LoopState
    PROVE  /\ \A flags \in SUBSET Flags :
                ReconcileOverlayState(flags) /\ queuedFlags' = queuedFlags => Asks
           /\ \A flags, queue :
                RequestOverlayReconcile(flags, queue) /\ UNCHANGED loopState => Asks
           /\ UNCHANGED loopState /\ queuedFlags' = queuedFlags => Asks
<1>1. ASSUME NEW flags \in SUBSET Flags, ReconcileOverlayState(flags),
             queuedFlags' = queuedFlags
      PROVE  Asks
  BY <1>1, ReconcileKeeps DEF Asks
<1>2. ASSUME UNCHANGED loopState PROVE (Running' <=> Running) /\ Top' = Top
  BY <1>2 DEF loopState, Running, Top
<1>3. ASSUME NEW flags, NEW queue, RequestOverlayReconcile(flags, queue),
             UNCHANGED loopState
      PROVE  Asks
  BY <1>2, <1>3 DEF Asks, RequestOverlayReconcile, loopState
<1>4. ASSUME UNCHANGED loopState, queuedFlags' = queuedFlags PROVE Asks
  BY <1>2, <1>4 DEF Asks, loopState
<1>5. QED
  BY <1>1, <1>3, <1>4

LEMMA OtherStepsAsk ==
    ASSUME IInv, Next, ~RunPass, ~PassReturns
    PROVE  Asks
<1>1. LoopState /\ QueueTypeOK
  BY PartsOfTypeOK DEF IInv
<1>2. CASE LoopEnds
  <2>1. ~Running /\ ~Running'
    BY <1>1, <1>2, LoopEndsKeeps
  <2>2. queuedFlags' = queuedFlags /\ pendingFlags' = pendingFlags
    BY <1>2 DEF LoopEnds, RequestOverlayReconcile, requests
  <2>3. QED
    BY <2>1, <2>2 DEF Asks
<1>3. CASE \/ InitializeMonitor \/ SentReconcile \/ UserCommand \/ Timer
  <2>1. PICK flags \in SUBSET Flags : ReconcileOverlayState(flags)
    BY <1>3 DEF InitializeMonitor, SentReconcile, UserCommand, Timer, StateTimer,
                StabilizingTimer, RefreshOrPlacementTimer, Flags
  <2>2. queuedFlags' = queuedFlags
    BY <1>3 DEF InitializeMonitor, SentReconcile, UserCommand, Timer, StateTimer,
                StabilizingTimer, RefreshOrPlacementTimer, requests
  <2>3. QED
    BY <1>1, <2>1, <2>2, CallsAsk
<1>4. CASE SentRequest \/ HandleTrayLayoutChanged \/ HandleTaskViewSwitch
  <2>1. UNCHANGED loopState
    BY <1>4 DEF SentRequest, HandleTrayLayoutChanged, HandleTaskViewSwitch
  <2>2. \E flags, queue : RequestOverlayReconcile(flags, queue)
    BY <1>4 DEF SentRequest, HandleTrayLayoutChanged, HandleTaskViewSwitch
  <2>3. QED
    BY <1>1, <2>1, <2>2, CallsAsk
<1>5. CASE HandleQueuedOverlayReconcile
  <2>1. ReconcileOverlayState(queuedFlags) /\ queuedFlags \in SUBSET Flags
    BY <1>1, <1>5 DEF HandleQueuedOverlayReconcile, QueueTypeOK
  <2>2. /\ Running' <=> Running
        /\ Running => Top' = Top
        /\ pendingFlags' = pendingFlags \cup queuedFlags
    BY <1>1, <2>1, ReconcileKeeps
  <2>3. QED
    BY <2>2 DEF Asks
<1>6. CASE HandleInitializeMetrics \/ RequestMetricProviderInitialization
  <2>1. queuedFlags' = queuedFlags
    BY <1>6 DEF HandleInitializeMetrics, RequestMetricProviderInitialization, requests
  <2>2. UNCHANGED loopState \/ ReconcileOverlayState({"Render"})
    BY <1>6 DEF HandleInitializeMetrics, RequestMetricProviderInitialization,
                InitializeMetricProviders
  <2>3. {"Render"} \in SUBSET Flags
    BY DEF Flags
  <2>4. QED
    BY <1>1, <2>1, <2>2, <2>3, CallsAsk
<1>7. CASE \/ HandleOtherForeground \/ TrayLayoutEvent \/ ForegroundEvent
           \/ StabilizeDelayPasses \/ HandleControllerDestroy
  <2>1. UNCHANGED loopState /\ queuedFlags' = queuedFlags
    BY <1>7 DEF HandleOtherForeground, TrayLayoutEvent, ForegroundEvent,
                StabilizeDelayPasses, HandleControllerDestroy, requests
  <2>2. QED
    BY <1>1, <2>1, CallsAsk
<1>8. QED
  BY <1>2, <1>3, <1>4, <1>5, <1>6, <1>7 DEF Next, Looping, Dispatch, Outside

LEMMA AskIsAServiceStep ==
    ASSUME IInv', Asks PROVE Service!Ask
<1>1. pendingFlags' \cup queuedFlags' \subseteq Flags
  BY DEF IInv, TypeOK
<1>2. (Running' = Running)
  <2>1. Running \in BOOLEAN /\ Running' \in BOOLEAN
    BY DEF Running
  <2>2. QED
    BY <2>1 DEF Asks
<1>3. (IF Running THEN Top.flags ELSE {})' = IF Running THEN Top.flags ELSE {}
  BY DEF Asks
<1>4. QED
  BY <1>1, <1>2, <1>3 DEF Asks, Service!Ask

(* Passes run one at a time and no action asked for is forgotten before a  *)
(* pass has taken it over.                                                 *)
THEOREM Refines == Spec => ImplementsPassService
<1>1. Init => Service!Init
  BY DEF Init, Service!Init, Running
<1>2. ASSUME IInv, IInv', Next PROVE Service!Next
  <2>1. LoopState
    BY <1>2, PartsOfTypeOK DEF IInv
  <2>2. CASE RunPass
    <3>1. ~Running /\ Running' /\ Top'.flags = pendingFlags /\ pendingFlags' = {}
      BY <2>1, <2>2, RunPassKeeps
    <3>2. queuedFlags' = queuedFlags
      BY <2>2 DEF RunPass, requests
    <3>3. Service!StartPass
      BY <3>1, <3>2 DEF Service!StartPass
    <3>4. QED
      BY <3>3 DEF Service!Next
  <2>3. CASE PassReturns
    <3>1. Running /\ ~Running'
      BY <2>1, <2>3, PassReturnsKeeps
    <3>2. queuedFlags' = queuedFlags /\ pendingFlags' = pendingFlags
      BY <2>3 DEF PassReturns, requests
    <3>3. Service!EndPass
      BY <3>1, <3>2 DEF Service!EndPass
    <3>4. QED
      BY <3>3 DEF Service!Next
  <2>4. CASE ~RunPass /\ ~PassReturns
    BY <1>2, <2>4, OtherStepsAsk, AskIsAServiceStep DEF Service!Next
  <2>5. QED
    BY <2>2, <2>3, <2>4
<1>3. ASSUME UNCHANGED vars PROVE UNCHANGED Service!vars
  BY <1>3 DEF vars, Service!vars, Running, Top
<1>4. IInv /\ IInv' /\ [Next]_vars => [Service!Next]_(Service!vars)
  BY <1>2, <1>3
<1>5. QED
  BY <1>1, <1>4, AlwaysIInv, PTL DEF Spec, ImplementsPassService, Service!Spec
=============================================================================
