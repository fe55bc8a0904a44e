--------------------------- MODULE PdhGroupProofs ---------------------------
(***************************************************************************)
(* The safety properties of PdhGroup, for every range of the tick count,   *)
(* every retry interval below half of it, and either mode of the group.    *)
(***************************************************************************)
EXTENDS PdhGroup, TLAPS

(* What the remainder does to a number at most one range away from 0 .. R. *)
LEMMA Wrapped ==
    ASSUME NEW R \in Nat, R > 0, NEW x \in Int, -R <= x, x < 2 * R
    PROVE  /\ 0 <= x /\ x < R => x % R = x
           /\ x < 0 => x % R = x + R
           /\ R <= x => x % R = x - R
<1>. DEFINE q == x \div R
            r == x % R
<1>1. q \in Int /\ r \in 0 .. R - 1 /\ x = R * q + r
  BY Z3
<1>. HIDE DEF q, r
<1>2. CASE q >= 2
  <2>1. R * q >= R * 2  BY <1>2, <1>1, Z3
  <2>. QED  BY <2>1, <1>1
<1>3. CASE q <= -2
  <2>1. R * q <= R * (-2)  BY <1>3, <1>1, Z3
  <2>. QED  BY <2>1, <1>1
<1>4. CASE q = 1   BY <1>1, <1>4 DEF r
<1>5. CASE q = 0   BY <1>1, <1>5 DEF r
<1>6. CASE q = -1  BY <1>1, <1>6 DEF r
<1>. QED  BY <1>1, <1>2, <1>3, <1>4, <1>5, <1>6

(* The range of the tick count, and what is known of the interval.         *)
LEMMA Ranges ==
    /\ TickRange \in Nat /\ HalfRange \in Nat /\ RetryInterval \in Nat
    /\ TickRange = HalfRange + HalfRange
    /\ 1 <= RetryInterval /\ RetryInterval <= HalfRange - 2
    /\ Forever \in Nat /\ Forever = RetryInterval + HalfRange
    /\ MaxGap \in Nat /\ VisibleGap \in Nat /\ VisibleGap <= MaxGap
<1>1. TickRange \in Nat /\ TickRange = 2 * HalfRange  BY PdhAssumption
<1>2. HalfRange \in Int  BY <1>1 DEF HalfRange
<1>3. HalfRange \in Nat  BY <1>1, <1>2
<1>. QED  BY <1>1, <1>3, PdhAssumption DEF Forever

-----------------------------------------------------------------------------
(* Where SampleMetrics is tells what it has at hand.                       *)
HandlesAreControlled ==
    /\ pc \in {"off", "open"} => ~group.query /\ ~group.counter
    /\ pc = "add" => group.query /\ ~group.counter
    /\ pc = "first" => group.query /\ group.counter
    /\ pc \in {"off", "open", "add", "first"} => ~group.ready
    /\ pc = "format" => group.ready
    /\ group.ready => group.query /\ group.counter

UseIsKnown ==
    /\ pc = "off" => ~group.known
    /\ pc \in {"idle", "recover", "sample", "format"} =>
         group.known /\ (group.available <=> group.ready)

(* A group in use that does not wait for its second collection had the one *)
(* before in an earlier sample.                                            *)
CollectionIsKnown ==
    /\ pc \in {"recover", "format"} => collected # "now"
    /\ pc \in {"idle", "recover", "format"} /\ group.ready =>
         ~group.second /\ collected # "never"
    /\ pc = "sample" /\ group.ready => group.second \/ collected = "earlier"
    /\ pc = "idle" => ~group.ready \/ ~group.second

(* The tick count waited ticks ago.                                        *)
Back == IF waited <= now THEN now - waited ELSE now - waited + TickRange

(* The stamp of the last failure or attempt, as long as it can be told.    *)
StampIsKnown ==
    pc # "off" => /\ group.last # 0
                  /\ waited < Forever => group.last = Stamp(Back)

IInv == /\ TypeOK /\ HandlesAreControlled /\ NoQueryLeaks
        /\ UseIsKnown /\ CollectionIsKnown /\ StampIsKnown

LEMMA InitInv == Init => IInv
<1>. SUFFICES ASSUME Init PROVE IInv
  OBVIOUS
<1>1. TypeOK
  BY Ranges DEF Init, TypeOK, NoGroup
<1>2. HandlesAreControlled /\ NoQueryLeaks
  BY DEF Init, HandlesAreControlled, NoQueryLeaks, NoGroup
<1>3. UseIsKnown /\ CollectionIsKnown /\ StampIsKnown
  BY DEF Init, UseIsKnown, CollectionIsKnown, StampIsKnown, NoGroup
<1>. QED  BY <1>1, <1>2, <1>3 DEF IInv

LEMMA NowIsAStamp ==
    ASSUME TypeOK
    PROVE  /\ Stamp(now) \in 0 .. TickRange - 1 /\ Stamp(now) # 0
           /\ Stamp(now) = Stamp(IF 0 <= now THEN now - 0 ELSE now - 0 + TickRange)
           /\ TickRange >= 6
BY Ranges DEF TypeOK, Stamp

(* Every step but a tick leaves the tick count alone, and restarts the     *)
(* wait only with a new stamp.                                             *)
LEMMA StampKept ==
    ASSUME IInv, TypeOK', now' = now,
           \/ UNCHANGED waited /\ group'.last = group.last /\ pc # "off"
           \/ waited' = 0 /\ group'.last = Stamp(now)
    PROVE  StampIsKnown'
BY NowIsAStamp, Ranges DEF IInv, TypeOK, StampIsKnown, Back

LEMMA InitStep ==
    ASSUME IInv, Initialize \/ RebuildPdhGroup
    PROVE  IInv'
<1>. StartInit /\ pc' = "open" /\ TypeOK /\ HandlesAreControlled
  BY DEF IInv, Initialize, RebuildPdhGroup, StartInit
<1>1. /\ group'.query = FALSE /\ group'.counter = FALSE /\ group'.ready = FALSE
      /\ group'.last = Stamp(now)
  BY DEF StartInit, TypeOK
<1>2. queries' = 0
  BY DEF StartInit, AfterReset, IInv, NoQueryLeaks, TypeOK
<1>3. TypeOK'
  <2>1. group' \in [ready : BOOLEAN, query : BOOLEAN, counter : BOOLEAN,
                    second : BOOLEAN, last : 0 .. TickRange - 1,
                    known : BOOLEAN, available : BOOLEAN]
    BY NowIsAStamp DEF StartInit, TypeOK
  <2>. QED  BY <2>1, <1>2, Ranges DEF StartInit, TypeOK
<1>4. StampIsKnown'
  BY <1>1, <1>3, StampKept DEF StartInit
<1>5. HandlesAreControlled' /\ NoQueryLeaks'
  BY <1>1, <1>2 DEF HandlesAreControlled, NoQueryLeaks
<1>6. UseIsKnown' /\ CollectionIsKnown'
  BY DEF UseIsKnown, CollectionIsKnown
<1>. QED  BY <1>3, <1>4, <1>5, <1>6 DEF IInv

(* What a step keeps of the type, as long as the tick count stands still:  *)
(* the parts that steps share.                                             *)
Group == [ready : BOOLEAN, query : BOOLEAN, counter : BOOLEAN,
          second : BOOLEAN, last : 0 .. TickRange - 1,
          known : BOOLEAN, available : BOOLEAN]

LEMMA FailedIsAGroup ==
    ASSUME TypeOK
    PROVE  /\ Failed(group) \in Group /\ Failed(group).ready = FALSE
           /\ Failed(group).known = TRUE /\ Failed(group).available = FALSE
           /\ Failed(group).last = Stamp(now)
           /\ Failed(group).query = group.query
           /\ Failed(group).counter = group.counter
           /\ Abandoned(group) \in Group /\ Abandoned(group).ready = FALSE
           /\ Abandoned(group).known = TRUE /\ Abandoned(group).available = FALSE
           /\ Abandoned(group).last = Stamp(now)
           /\ Abandoned(group).query = FALSE
           /\ Abandoned(group).counter = FALSE
<1>1. Failed(group) \in Group
  BY NowIsAStamp DEF TypeOK, Failed, Group
<1>2. Abandoned(group) = [Failed(group) EXCEPT !.query = FALSE, !.counter = FALSE]
  BY DEF Abandoned
<1>3. Abandoned(group) \in Group
  BY <1>1, <1>2 DEF Group
<1>4. /\ Failed(group).ready = FALSE /\ Failed(group).known = TRUE
      /\ Failed(group).available = FALSE /\ Failed(group).last = Stamp(now)
      /\ Failed(group).query = group.query
      /\ Failed(group).counter = group.counter
  BY DEF Failed, TypeOK
<1>5. /\ Abandoned(group).ready = FALSE /\ Abandoned(group).known = TRUE
      /\ Abandoned(group).available = FALSE /\ Abandoned(group).last = Stamp(now)
      /\ Abandoned(group).query = FALSE /\ Abandoned(group).counter = FALSE
  BY <1>1, <1>2, <1>4 DEF Group
<1>. QED  BY <1>1, <1>3, <1>4, <1>5

LEMMA StageStep ==
    ASSUME IInv, InitPdhGroup
    PROVE  IInv'
<1>. TypeOK /\ HandlesAreControlled /\ NoQueryLeaks /\ UseIsKnown /\ CollectionIsKnown
  BY DEF IInv
<1>. now' = now /\ pc # "off"
  BY DEF InitPdhGroup, OpenQuery, OpenFails, AddCounter, AddFails, InitialCollect,
         InitialCollectFails, AttemptFails
<1>1. CASE OpenQuery
  <2>1. /\ group' \in Group /\ group'.query = TRUE /\ group'.counter = FALSE
        /\ group'.ready = FALSE /\ group'.last = group.last
    BY <1>1 DEF OpenQuery, TypeOK, Group, HandlesAreControlled
  <2>2. queries' = 1
    BY <1>1 DEF OpenQuery, NoQueryLeaks, HandlesAreControlled
  <2>3. TypeOK'
    BY <1>1, <2>1, <2>2 DEF OpenQuery, TypeOK, Recovered, Group
  <2>4. StampIsKnown'
    BY <1>1, <2>1, <2>3, StampKept DEF OpenQuery
  <2>5. HandlesAreControlled' /\ NoQueryLeaks' /\ UseIsKnown' /\ CollectionIsKnown'
    BY <1>1, <2>1, <2>2 DEF OpenQuery, HandlesAreControlled, NoQueryLeaks,
         UseIsKnown, CollectionIsKnown
  <2>. QED  BY <2>3, <2>4, <2>5 DEF IInv
<1>2. CASE OpenFails
  <2>. /\ group' \in Group /\ group'.ready = FALSE /\ group'.last = Stamp(now)
       /\ group'.known = TRUE /\ group'.available = FALSE
       /\ group'.query = group.query /\ group'.counter = group.counter
    BY <1>2, FailedIsAGroup DEF OpenFails
  <2>0. failing' \subseteq Stages
    BY <1>2 DEF OpenFails, TypeOK, Stages, InitStages
  <2>1. TypeOK'
    BY <1>2, <2>0, Ranges DEF OpenFails, TypeOK, Group
  <2>2. StampIsKnown'
    BY <1>2, <2>1, StampKept DEF OpenFails
  <2>3. HandlesAreControlled' /\ NoQueryLeaks' /\ UseIsKnown' /\ CollectionIsKnown'
    BY <1>2 DEF OpenFails, HandlesAreControlled, NoQueryLeaks, UseIsKnown,
         CollectionIsKnown
  <2>. QED  BY <2>1, <2>2, <2>3 DEF IInv
<1>3. CASE AddCounter
  <2>1. /\ group' \in Group /\ group'.query = TRUE /\ group'.counter = TRUE
        /\ group'.ready = FALSE /\ group'.last = group.last
    BY <1>3 DEF AddCounter, TypeOK, Group, HandlesAreControlled
  <2>2. TypeOK'
    BY <1>3, <2>1 DEF AddCounter, TypeOK, Recovered, Group
  <2>3. StampIsKnown'
    BY <1>3, <2>1, <2>2, StampKept DEF AddCounter
  <2>4. HandlesAreControlled' /\ NoQueryLeaks' /\ UseIsKnown' /\ CollectionIsKnown'
    BY <1>3, <2>1 DEF AddCounter, HandlesAreControlled, NoQueryLeaks,
         UseIsKnown, CollectionIsKnown
  <2>. QED  BY <2>2, <2>3, <2>4 DEF IInv
<1>4. ASSUME NEW stage \in Stages, AttemptFails(stage), pc \in {"add", "first"}
      PROVE  IInv'
  <2>. /\ group' \in Group /\ group'.ready = FALSE /\ group'.last = Stamp(now)
       /\ group'.known = TRUE /\ group'.available = FALSE
       /\ group'.query = FALSE /\ group'.counter = FALSE
    BY <1>4, FailedIsAGroup DEF AttemptFails
  <2>1. queries' = 0
    BY <1>4 DEF NoQueryLeaks, HandlesAreControlled, AttemptFails
  <2>2. failing' \subseteq Stages
    BY <1>4 DEF AttemptFails, TypeOK
  <2>3. TypeOK'
    BY <1>4, <2>1, <2>2, Ranges DEF AttemptFails, TypeOK, Group
  <2>4. StampIsKnown'
    BY <1>4, <2>3, StampKept DEF AttemptFails
  <2>5. HandlesAreControlled' /\ NoQueryLeaks' /\ UseIsKnown' /\ CollectionIsKnown'
    BY <1>4, <2>1 DEF AttemptFails, HandlesAreControlled, NoQueryLeaks,
         UseIsKnown, CollectionIsKnown
  <2>. QED  BY <2>3, <2>4, <2>5 DEF IInv
<1>5. CASE InitialCollect
  <2>1. /\ group' \in Group /\ group'.query = TRUE /\ group'.counter = TRUE
        /\ group'.ready = TRUE /\ group'.last = group.last /\ group'.second = TRUE
        /\ group'.known = TRUE /\ group'.available = TRUE
    BY <1>5 DEF InitialCollect, Initialized, TypeOK, Group, HandlesAreControlled
  <2>2. TypeOK'
    BY <1>5, <2>1 DEF InitialCollect, TypeOK, Recovered, Group
  <2>3. StampIsKnown'
    BY <1>5, <2>1, <2>2, StampKept DEF InitialCollect
  <2>4. HandlesAreControlled' /\ NoQueryLeaks' /\ UseIsKnown' /\ CollectionIsKnown'
    BY <1>5, <2>1 DEF InitialCollect, HandlesAreControlled, NoQueryLeaks,
         UseIsKnown, CollectionIsKnown
  <2>. QED  BY <2>2, <2>3, <2>4 DEF IInv
<1>. QED
  BY <1>1, <1>2, <1>3, <1>4, <1>5
     DEF InitPdhGroup, AddFails, InitialCollectFails, Stages, InitStages

LEMMA SampleStep ==
    ASSUME IInv, SamplePdhGroup
    PROVE  IInv'
<1>. TypeOK /\ HandlesAreControlled /\ NoQueryLeaks /\ UseIsKnown /\ CollectionIsKnown
  BY DEF IInv
<1>1. CASE SampleUnusable
  <2>1. ~group.ready
    BY <1>1 DEF SampleUnusable, Usable, HasUsableHandles, HandlesAreControlled
  <2>2. TypeOK'
    BY <1>1 DEF SampleUnusable, TypeOK
  <2>3. StampIsKnown'
    BY <1>1, <2>2, StampKept DEF SampleUnusable
  <2>4. HandlesAreControlled' /\ NoQueryLeaks' /\ UseIsKnown' /\ CollectionIsKnown'
    BY <1>1, <2>1 DEF SampleUnusable, HandlesAreControlled, NoQueryLeaks,
         UseIsKnown, CollectionIsKnown
  <2>. QED  BY <2>2, <2>3, <2>4 DEF IInv
<1>2. ASSUME NEW stage \in Stages, NEW passed, SampleFails(stage, passed),
             pc \in {"sample", "format"}, group.ready
      PROVE  IInv'
  <2>. /\ group' \in Group /\ group'.ready = FALSE /\ group'.last = Stamp(now)
       /\ group'.known = TRUE /\ group'.available = FALSE
       /\ group'.query = group.query /\ group'.counter = group.counter
    BY <1>2, FailedIsAGroup DEF SampleFails
  <2>1. failing' \subseteq Stages
    BY <1>2 DEF SampleFails, TypeOK
  <2>2. TypeOK'
    BY <1>2, <2>1, Ranges DEF SampleFails, TypeOK, Group
  <2>3. StampIsKnown'
    BY <1>2, <2>2, StampKept DEF SampleFails
  <2>4. HandlesAreControlled' /\ NoQueryLeaks' /\ UseIsKnown' /\ CollectionIsKnown'
    BY <1>2 DEF SampleFails, HandlesAreControlled, NoQueryLeaks,
         UseIsKnown, CollectionIsKnown
  <2>. QED  BY <2>2, <2>3, <2>4 DEF IInv
<1>3. CASE CollectSecond
  <2>. /\ group' \in Group /\ group'.ready = TRUE /\ group'.last = group.last
       /\ group'.known = group.known /\ group'.available = group.available
       /\ group'.query = group.query /\ group'.counter = group.counter
       /\ group'.second = FALSE
    BY <1>3 DEF CollectSecond, Usable, TypeOK, Group
  <2>1. TypeOK'
    BY <1>3 DEF CollectSecond, TypeOK, Group, Recovered
  <2>2. StampIsKnown'
    BY <1>3, <2>1, StampKept DEF CollectSecond
  <2>3. HandlesAreControlled' /\ NoQueryLeaks' /\ UseIsKnown' /\ CollectionIsKnown'
    BY <1>3 DEF CollectSecond, Usable, HandlesAreControlled, NoQueryLeaks,
         UseIsKnown, CollectionIsKnown
  <2>. QED  BY <2>1, <2>2, <2>3 DEF IInv
<1>4. CASE Collect
  <2>1. TypeOK'
    BY <1>4 DEF Collect, TypeOK, Recovered
  <2>2. StampIsKnown'
    BY <1>4, <2>1, StampKept DEF Collect
  <2>3. HandlesAreControlled' /\ NoQueryLeaks' /\ UseIsKnown' /\ CollectionIsKnown'
    BY <1>4 DEF Collect, Usable, HandlesAreControlled, NoQueryLeaks,
         UseIsKnown, CollectionIsKnown
  <2>. QED  BY <2>1, <2>2, <2>3 DEF IInv
<1>5. CASE FormatTransient
  <2>1. TypeOK'
    BY <1>5 DEF FormatTransient, TypeOK, Stages
  <2>2. StampIsKnown'
    BY <1>5, <2>1, StampKept DEF FormatTransient
  <2>3. HandlesAreControlled' /\ NoQueryLeaks' /\ UseIsKnown' /\ CollectionIsKnown'
    BY <1>5 DEF FormatTransient, HandlesAreControlled, NoQueryLeaks,
         UseIsKnown, CollectionIsKnown
  <2>. QED  BY <2>1, <2>2, <2>3 DEF IInv
<1>6. CASE FormatValue
  <2>. /\ group' \in Group /\ group'.ready = group.ready /\ group'.last = group.last
       /\ group'.known = TRUE /\ group'.available = TRUE
       /\ group'.query = group.query /\ group'.counter = group.counter
       /\ group'.second = group.second
    BY <1>6 DEF FormatValue, TypeOK, Group
  <2>1. TypeOK'
    BY <1>6 DEF FormatValue, TypeOK, Group
  <2>2. StampIsKnown'
    BY <1>6, <2>1, StampKept DEF FormatValue
  <2>3. HandlesAreControlled' /\ NoQueryLeaks' /\ UseIsKnown' /\ CollectionIsKnown'
    BY <1>6 DEF FormatValue, HandlesAreControlled, NoQueryLeaks,
         UseIsKnown, CollectionIsKnown
  <2>. QED  BY <2>1, <2>2, <2>3 DEF IInv
<1>7. CASE CollectFails
  BY <1>2, <1>7 DEF CollectFails, Usable, Stages
<1>8. CASE FormatFails
  BY <1>2, <1>8 DEF FormatFails, HandlesAreControlled, Stages
<1>. QED
  BY <1>1, <1>3, <1>4, <1>5, <1>6, <1>7, <1>8 DEF SamplePdhGroup

LEMMA TickStep ==
    ASSUME IInv, Tick
    PROVE  IInv'
<1>. TypeOK /\ HandlesAreControlled /\ NoQueryLeaks /\ UseIsKnown /\ CollectionIsKnown
  BY DEF IInv
<1>1. now' = (IF now = TickRange - 1 THEN 0 ELSE now + 1)
  <2>1. now \in Int /\ 0 <= now /\ now <= TickRange - 1 /\ TickRange > 0
    BY NowIsAStamp, Ranges DEF TypeOK
  <2>2. 0 <= now + 1 /\ now + 1 < 2 * TickRange /\ now + 1 \in Int
    BY <2>1, Ranges
  <2>3. /\ now + 1 < TickRange => (now + 1) % TickRange = now + 1
        /\ TickRange <= now + 1 => (now + 1) % TickRange = now + 1 - TickRange
    BY <2>1, <2>2, Ranges, Wrapped
  <2>. QED  BY <2>1, <2>3, Ranges DEF Tick
<1>2. TypeOK'
  <2>1. gap + 1 \in 0 .. MaxGap  BY Ranges DEF Tick, LongestGap, TypeOK
  <2>. QED  BY <1>1, <2>1, Ranges, NowIsAStamp DEF Tick, TypeOK
<1>3. StampIsKnown'
  <2>1. pc # "off" /\ pc' = pc /\ group' = group /\ group.last # 0
    BY DEF Tick, IInv, StampIsKnown
  <2>2. ASSUME waited' < Forever
        PROVE  Back' = Back /\ waited < Forever
    BY <2>2, <1>1, Ranges DEF Tick, TypeOK, Back
  <2>. QED  BY <2>1, <2>2 DEF IInv, StampIsKnown, Stamp
<1>4. HandlesAreControlled' /\ NoQueryLeaks' /\ UseIsKnown' /\ CollectionIsKnown'
  BY DEF Tick, HandlesAreControlled, NoQueryLeaks, UseIsKnown, CollectionIsKnown
<1>. QED  BY <1>2, <1>3, <1>4 DEF IInv

LEMMA OtherStep ==
    ASSUME IInv, SampleMetrics \/ LeavePdhGroup \/ Settles \/ UNCHANGED vars
    PROVE  IInv'
<1>. TypeOK /\ HandlesAreControlled /\ NoQueryLeaks /\ UseIsKnown /\ CollectionIsKnown
     /\ StampIsKnown
  BY DEF IInv
<1>1. CASE SampleMetrics
  <2>1. TypeOK'
    BY <1>1, Ranges DEF SampleMetrics, TypeOK
  <2>2. StampIsKnown'
    BY <1>1, <2>1, StampKept DEF SampleMetrics
  <2>3. HandlesAreControlled' /\ NoQueryLeaks' /\ UseIsKnown' /\ CollectionIsKnown'
    BY <1>1 DEF SampleMetrics, HandlesAreControlled, NoQueryLeaks, UseIsKnown,
         CollectionIsKnown
  <2>. QED  BY <2>1, <2>2, <2>3 DEF IInv
<1>2. CASE LeavePdhGroup
  <2>1. TypeOK'
    BY <1>2 DEF LeavePdhGroup, TypeOK
  <2>2. StampIsKnown'
    BY <1>2, <2>1, StampKept DEF LeavePdhGroup
  <2>3. HandlesAreControlled' /\ NoQueryLeaks' /\ UseIsKnown' /\ CollectionIsKnown'
    BY <1>2 DEF LeavePdhGroup, HandlesAreControlled, NoQueryLeaks, UseIsKnown,
         CollectionIsKnown, TypeOK
  <2>. QED  BY <2>1, <2>2, <2>3 DEF IInv
<1>3. CASE Settles \/ UNCHANGED vars
  <2>1. TypeOK'
    BY <1>3 DEF Settles, vars, TypeOK
  <2>2. StampIsKnown'
    BY <1>3 DEF Settles, vars, StampIsKnown, Back, Stamp
  <2>3. HandlesAreControlled' /\ NoQueryLeaks' /\ UseIsKnown' /\ CollectionIsKnown'
    BY <1>3 DEF Settles, vars, HandlesAreControlled, NoQueryLeaks, UseIsKnown,
         CollectionIsKnown
  <2>. QED  BY <2>1, <2>2, <2>3 DEF IInv
<1>. QED  BY <1>1, <1>2, <1>3

LEMMA StepInv == IInv /\ [Next]_vars => IInv'
BY InitStep, StageStep, SampleStep, TickStep, OtherStep DEF Next, Step

LEMMA InvHeld == Spec => []IInv
BY InitInv, StepInv, PTL DEF Spec

-----------------------------------------------------------------------------
(* The test of ShouldReinitialize says what waited says, up to the one     *)
(* tick that a stamp of 0 is moved by.                                     *)
LEMMA TestIsTrue ==
    ASSUME IInv, pc = "recover", waited < Forever
    PROVE  LET passed == TickPassed((group.last + RetryInterval) % TickRange)
           IN  /\ passed => waited >= RetryInterval
               /\ waited >= RetryInterval + 1 => passed
<1>. DEFINE last == group.last
            deadline == (last + RetryInterval) % TickRange
            ahead == (now - deadline) % TickRange
<1>1. /\ now \in Int /\ 0 <= now /\ now <= TickRange - 1
      /\ last \in Int /\ 0 <= last /\ last <= TickRange - 1
      /\ waited \in Int /\ 0 <= waited
  BY Ranges DEF IInv, TypeOK
<1>2. last = (IF Back = 0 THEN 1 ELSE Back)
  BY DEF IInv, StampIsKnown, Stamp
<1>. HIDE DEF last
<1>3. deadline = (IF last + RetryInterval < TickRange
                    THEN last + RetryInterval ELSE last + RetryInterval - TickRange)
  <2>. DEFINE x == last + RetryInterval
  <2>1. /\ x \in Int /\ -TickRange <= x /\ 0 <= x /\ x < 2 * TickRange
        /\ TickRange \in Nat /\ TickRange > 0
    BY <1>1, Ranges
  <2>. HIDE DEF x
  <2>2. /\ x < TickRange => x % TickRange = x
        /\ TickRange <= x => x % TickRange = x - TickRange
    BY <2>1, Wrapped
  <2>3. deadline = x % TickRange
    BY DEF x
  <2>. HIDE DEF deadline
  <2>4. deadline = (IF x < TickRange THEN x ELSE x - TickRange)
    BY <2>1, <2>2, <2>3
  <2>. QED  BY <2>1, <2>4, <1>1, Ranges DEF x
<1>. HIDE DEF deadline
<1>4. deadline \in Int /\ 0 <= deadline /\ deadline < TickRange
  BY <1>1, <1>3, Ranges
<1>5. ahead = (IF 0 <= now - deadline
                 THEN now - deadline ELSE now - deadline + TickRange)
  <2>1. /\ now - deadline \in Int /\ -TickRange <= now - deadline
        /\ now - deadline < TickRange /\ now - deadline < 2 * TickRange
        /\ TickRange > 0
    BY <1>1, <1>4, Ranges
  <2>. QED  BY <2>1, Ranges, Wrapped
<1>. HIDE DEF ahead
<1>6. /\ ahead < HalfRange => waited >= RetryInterval
      /\ waited >= RetryInterval + 1 => ahead < HalfRange
  <2>1. CASE waited <= now /\ Back = 0
    BY <1>1, <1>2, <1>3, <1>5, <2>1, Ranges DEF Back
  <2>2. CASE waited <= now /\ Back # 0
    BY <1>1, <1>2, <1>3, <1>5, <2>2, Ranges DEF Back
  <2>3. CASE ~(waited <= now)
    BY <1>1, <1>2, <1>3, <1>5, <2>3, Ranges DEF Back
  <2>. QED  BY <2>1, <2>2, <2>3
<1>. QED  BY <1>6 DEF TickPassed, ahead, deadline, last

-----------------------------------------------------------------------------
(* The group is well-formed.                                               *)
THEOREM TypeCorrect == Spec => []TypeOK
BY InvHeld, PTL DEF IInv

(* No path through the failures of InitPdhGroup and SamplePdhGroup leaves  *)
(* a query open that the group has forgotten.                              *)
THEOREM QueriesHeld == Spec => []NoQueryLeaks
BY InvHeld, PTL DEF IInv

(* The log's last word on the provider is whether its group is in use.     *)
THEOREM AvailabilityHeld == Spec => []AvailabilityIsTrue
<1>1. IInv => AvailabilityIsTrue
  BY DEF IInv, TypeOK, HandlesAreControlled, UseIsKnown, AvailabilityIsTrue, Usable,
         HasUsableHandles
<1>. QED  BY <1>1, InvHeld, PTL

(* Every value is computed from collections of two samples.                *)
THEOREM IntervalHeld == Spec => []MeasuresOverAnInterval
<1>1. IInv => MeasuresOverAnInterval
  BY DEF IInv, TypeOK, HandlesAreControlled, CollectionIsKnown,
         MeasuresOverAnInterval
<1>. QED  BY <1>1, InvHeld, PTL

(* From recover, only a rebuild opens a query, and only a rebuild or a     *)
(* decision against it leaves.                                             *)
LEMMA LeavesRecover ==
    ASSUME IInv, [Next]_vars, pc = "recover", pc' # pc
    PROVE  RebuildPdhGroup \/ LeavePdhGroup
BY DEF Next, Step, vars, Initialize, SampleMetrics, InitPdhGroup, OpenQuery,
       OpenFails, AddCounter, AddFails, InitialCollect, InitialCollectFails,
       SamplePdhGroup, SampleUnusable, CollectFails, CollectSecond, Collect,
       FormatFails, FormatTransient, FormatValue, Tick, Settles

(* No attempt before the interval is over, wherever the tick wraps.        *)
THEOREM BackoffHeld == Spec => BackoffIsKept
<1>1. ASSUME IInv, [Next]_vars, pc = "recover", pc' = "open"
      PROVE  waited >= RetryInterval
  <2>1. ShouldReinitialize /\ group.last # 0
    BY <1>1, LeavesRecover DEF LeavePdhGroup, RebuildPdhGroup, IInv, StampIsKnown
  <2>2. CASE waited < Forever
    BY <1>1, <2>1, <2>2, TestIsTrue DEF ShouldReinitialize
  <2>3. CASE ~(waited < Forever)
    BY <1>1, <2>3, Ranges DEF IInv, TypeOK
  <2>. QED  BY <2>2, <2>3
<1>2. IInv /\ [Next]_vars => [pc = "recover" /\ pc' = "open" => waited >= RetryInterval]_vars
  BY <1>1
<1>. QED  BY <1>2, InvHeld, PTL DEF Spec, BackoffIsKept

(* An attempt with the first sample after it, unless 25 days went by.      *)
THEOREM RetryHeld == Spec => DueIsRetried
<1>1. ASSUME IInv, [Next]_vars, pc = "recover", pc' # pc, ~Usable,
             waited \in RetryInterval + 1 .. Forever - 1
      PROVE  pc' = "open"
  <2>1. waited < Forever /\ waited >= RetryInterval + 1
    BY <1>1, Ranges
  <2>2. TickPassed((group.last + RetryInterval) % TickRange)
    BY <1>1, <2>1, TestIsTrue
  <2>. QED
    BY <1>1, <2>2, LeavesRecover DEF LeavePdhGroup, RebuildPdhGroup, StartInit,
         ShouldReinitialize
<1>2. IInv /\ [Next]_vars =>
        [/\ pc = "recover" /\ pc' # pc /\ ~Usable
         /\ waited \in RetryInterval + 1 .. Forever - 1
         => pc' = "open"]_vars
  BY <1>1
<1>. QED  BY <1>2, InvHeld, PTL DEF Spec, DueIsRetried

-----------------------------------------------------------------------------
(* What is measured stays so.                                              *)

(* What Recovers promises to reach, and a group that will go on with it.   *)
Measured ==
    group.available /\ value = "measured" /\ shown = value /\ failing = {}

Working ==
    /\ provider = "works" /\ Usable /\ Measured
    /\ pc \in {"idle", "recover", "sample", "format"}

LEMMA WorkGoesOn == IInv /\ Working /\ [Next]_vars => Working'
<1> SUFFICES ASSUME IInv, Working, [Next]_vars PROVE Working'
  OBVIOUS
<1>1. group \in Group /\ ~CanFail
  BY DEF IInv, TypeOK, Group, Working, CanFail
<1>2. ~Initialize /\ ~RebuildPdhGroup /\ ~InitPdhGroup /\ ~Settles
  BY DEF Working, Initialize, RebuildPdhGroup, ShouldReinitialize, InitPdhGroup,
         OpenQuery, OpenFails, AddCounter, AddFails, InitialCollect,
         InitialCollectFails, Settles
<1>3. CASE SampleMetrics \/ LeavePdhGroup \/ Tick \/ UNCHANGED vars
  BY <1>3 DEF SampleMetrics, LeavePdhGroup, Tick, vars, Working, Measured, Usable,
              HasUsableHandles
<1>4. CASE SamplePdhGroup
  <2>1. ~SampleUnusable /\ ~CollectFails /\ ~FormatFails /\ ~FormatTransient
    BY <1>1 DEF SampleUnusable, CollectFails, FormatFails, FormatTransient, Working
  <2>2. CollectSecond \/ Collect \/ FormatValue
    BY <1>4, <2>1 DEF SamplePdhGroup
  <2>3. group' \in {group, [group EXCEPT !.second = FALSE],
                    [group EXCEPT !.known = TRUE, !.available = TRUE]}
    BY <2>2 DEF CollectSecond, Collect, FormatValue
  <2>4. /\ group'.ready = group.ready /\ group'.query = group.query
        /\ group'.counter = group.counter
        /\ group.available => group'.available
    BY <1>1, <2>3 DEF Group
  <2>5. /\ value' = "measured" /\ shown' = "measured" /\ failing' = {}
        /\ provider' = provider /\ pc' \in {"idle", "format"}
    BY <2>2 DEF CollectSecond, Collect, FormatValue, Recovered, Working, Measured
  <2>6. QED
    BY <2>4, <2>5 DEF Working, Measured, Usable, HasUsableHandles
<1>5. QED
  BY <1>2, <1>3, <1>4 DEF Next, Step

(* Once the provider works and a value has been measured, no sample, no    *)
(* lapse of time and no wrapped tick count takes the group out of use or   *)
(* its value off the display again: the second half of Recovers.           *)
THEOREM MeasuredStays == Spec => [](Working => []Measured)
<1>1. Working => Measured
  BY DEF Working
<1>2. QED
  BY InvHeld, WorkGoesOn, <1>1, PTL DEF Spec
=============================================================================
