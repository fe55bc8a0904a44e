-------------------------- MODULE RateLimiterProofs --------------------------
(***************************************************************************)
(* Proofs about RateLimiter, for any keys, capacity and intervals.         *)
(***************************************************************************)
EXTENDS RateLimiter, TLAPS

Tales == [count : Nat, worst : Levels]

(* What has to hold of an entry e, the cooldown c of its latest line, and  *)
(* the failures u that no line has told of.  What has been told is         *)
(* forgotten with its level, so that a count begins anew.                  *)
Sound(e, c, u) ==
    /\ e \in Entries /\ c \in Nat /\ u \in Tales
    /\ e.wait = c
    /\ e.pending = u.count
    /\ e.pending > 0 => e.active /\ e.level >= u.worst
    /\ u.count = 0 => u = AllTold

EveryPlaceIsSound ==
    /\ entry \in [Places -> Entries]
    /\ cooling \in [Places -> Nat]
    /\ untold \in [Places -> Tales]
    /\ \A p \in Places : Sound(entry[p], cooling[p], untold[p])

TableIsSound ==
    /\ enabled \in BOOLEAN /\ calm \in BOOLEAN
    /\ table \subseteq Keys /\ reported \subseteq Keys
    /\ \A k \in Keys \ table : entry[k] = FreshEntry

IInv == EveryPlaceIsSound /\ TableIsSound /\ RecordIsDueForReported

-----------------------------------------------------------------------------
(* What the operators on entries keep.                                     *)

LEMMA CooldownIsTyped == \A p : CooldownOf(p) \in Nat
  BY LimiterAssumption DEF CooldownOf

LEMMA PlaceIsKnown ==
    ASSUME NEW k \in Keys
    PROVE  /\ PlaceFor(k) \in Places /\ PlaceFor(k) \in {k, Overflow}
           /\ {PlaceFor(k)} \cap Keys \subseteq {k}
           /\ PlaceFor(k) = k => {PlaceFor(k)} \cap Keys = {k}
           /\ PlaceFor(k) # k => {PlaceFor(k)} \cap Keys = {} /\ PlaceFor(k) \notin Keys
  BY LimiterAssumption DEF PlaceFor, Places

LEMMA FreshIsSound == Sound(FreshEntry, 0, AllTold)
  BY DEF Sound, FreshEntry, Entries, AllTold, Tales, Levels, Warning

LEMMA OpenedIsTyped ==
    ASSUME NEW e \in Entries, NEW level \in Levels
    PROVE  /\ Opened(e, level) \in Entries
           /\ Opened(e, level).wait = e.wait
           /\ Opened(e, level).pending = e.pending
           /\ Opened(e, level).active
           /\ Opened(e, level).logged => e.active /\ e.logged
           /\ e.active /\ e.logged => Opened(e, level).logged
           /\ Opened(e, level).level >= level
           /\ e.active => Opened(e, level).level >= e.level
<1>1. CASE e.active
  BY <1>1 DEF Opened, Entries, Levels, Warning, Error, Worse
<1>2. CASE ~e.active
  <2> DEFINE o == [e EXCEPT !.active = TRUE, !.logged = FALSE, !.level = level]
  <2>1. Opened(e, level) = o
    BY <1>2 DEF Opened
  <2>2. /\ o \in Entries /\ o.wait = e.wait /\ o.pending = e.pending
        /\ o.active /\ ~o.logged /\ o.level = level
    BY DEF Entries
  <2>3. level >= level
    BY DEF Levels, Warning, Error
  <2> HIDE DEF o
  <2>4. QED
    BY <1>2, <2>1, <2>2, <2>3
<1>3. QED
  BY <1>1, <1>2

LEMMA TellingIsTyped ==
    ASSUME NEW u \in Tales, NEW level \in Levels
    PROVE  /\ Telling(u, level) \in Tales
           /\ Telling(u, level).count = u.count + 1
           /\ Telling(u, level).worst \in {u.worst, level}
           /\ u = AllTold => Telling(u, level).worst = level
  BY DEF Telling, Tales, AllTold, Levels, Warning, Error, Worse

(* One more failure on an entry that has been opened for it.               *)
LEMMA CountedIsSound ==
    ASSUME NEW e \in Entries, NEW c, NEW u, Sound(e, c, u), NEW level \in Levels,
           NEW f \in Entries, NEW d \in Nat,
           f.wait = d, f.pending = e.pending + 1,
           f.active, f.level = Opened(e, level).level
    PROVE  Sound(f, d, Telling(u, level))
<1>1. u \in Tales /\ Telling(u, level) \in Tales
  BY TellingIsTyped DEF Sound
<1>2. f.pending = Telling(u, level).count /\ Telling(u, level).count # 0
  BY <1>1, TellingIsTyped DEF Sound, Tales
<1>3. f.level >= Telling(u, level).worst
  <2>1. CASE e.pending = 0
    BY <1>1, <2>1, TellingIsTyped, OpenedIsTyped DEF Sound
  <2>2. CASE e.pending > 0
    <3>1. f.level >= u.worst /\ f.level >= level
      BY <1>1, <2>2, OpenedIsTyped DEF Sound, Entries, Tales, Levels, Warning, Error
    <3>2. QED
      BY <1>1, <3>1, TellingIsTyped
  <2>3. QED
    BY <2>1, <2>2 DEF Entries
<1>4. QED
  BY <1>1, <1>2, <1>3 DEF Sound

LEMMA SuppressedIsSound ==
    ASSUME NEW e, NEW c, NEW u, Sound(e, c, u), NEW level \in Levels
    PROVE  Sound(Counted(Opened(e, level)), c, Telling(u, level))
<1> DEFINE o == Opened(e, level)
           f == Counted(o)
<1>1. e \in Entries /\ c \in Nat
  BY DEF Sound
<1>2. o \in Entries /\ o.wait = c /\ o.pending = e.pending /\ o.active
  BY <1>1, OpenedIsTyped DEF Sound
<1> HIDE DEF o
<1>3. /\ f \in Entries /\ f.wait = c /\ f.pending = e.pending + 1
      /\ f.active /\ f.level = o.level
  BY <1>2 DEF Entries, Counted
<1> HIDE DEF f
<1>4. f.level = Opened(e, level).level
  BY <1>3 DEF o
<1>5. Sound(f, c, Telling(u, level))
  BY <1>1, <1>3, <1>4, CountedIsSound
<1>6. QED
  BY <1>5 DEF f, o

LEMMA LineIsSound ==
    ASSUME NEW e, NEW c, NEW u, Sound(e, c, u), NEW level \in Levels, NEW p,
           NEW written \in BOOLEAN
    PROVE  Sound(AfterLine(Opened(e, level), p, written), CooldownOf(p),
                 IF written THEN AllTold ELSE Telling(u, level))
<1> DEFINE o == Opened(e, level)
           f == AfterLine(o, p, written)
<1>1. e \in Entries
  BY DEF Sound
<1>2. o \in Entries /\ o.pending = e.pending /\ o.active
  BY <1>1, OpenedIsTyped
<1>3. CooldownOf(p) \in Nat
  BY CooldownIsTyped
<1>4. CASE written
  <2> HIDE DEF o
  <2>1. f \in Entries /\ f.wait = CooldownOf(p) /\ f.pending = 0
    BY <1>2, <1>3, <1>4 DEF AfterLine, Entries, Levels, Warning
  <2> HIDE DEF f
  <2>2. Sound(f, CooldownOf(p), AllTold)
    BY <1>3, <2>1 DEF Sound, AllTold, Tales, Levels, Warning
  <2>3. QED
    BY <1>4, <2>2 DEF f, o
<1>5. CASE ~written
  <2> HIDE DEF o
  <2>1. /\ f \in Entries /\ f.wait = CooldownOf(p) /\ f.pending = e.pending + 1
        /\ f.active /\ f.level = o.level
    <3>1. f = [o EXCEPT !.wait = CooldownOf(p), !.pending = o.pending + 1]
      BY <1>5 DEF AfterLine
    <3>2. o.pending + 1 \in Nat
      BY <1>2 DEF Entries
    <3> HIDE DEF f
    <3>3. QED
      BY <1>2, <1>3, <3>1, <3>2 DEF Entries
  <2> HIDE DEF f
  <2>2. f.level = Opened(e, level).level
    BY <2>1 DEF o
  <2>3. Sound(f, CooldownOf(p), Telling(u, level))
    BY <1>1, <1>3, <2>1, <2>2, CountedIsSound
  <2>4. QED
    BY <1>5, <2>3 DEF f, o
<1>6. QED
  BY <1>4, <1>5

LEMMA LineKeepsTheMark ==
    ASSUME NEW e \in Entries, NEW level \in Levels, NEW p, NEW written \in BOOLEAN
    PROVE  LET f == AfterLine(Opened(e, level), p, written)
           IN  /\ f.active
               /\ f.logged <=> written \/ (e.active /\ e.logged)
<1> DEFINE o == Opened(e, level)
<1>1. o \in Entries /\ o.active /\ (o.logged <=> e.active /\ e.logged)
  BY OpenedIsTyped
<1> HIDE DEF o
<1>2. AfterLine(o, p, written).active /\
        (AfterLine(o, p, written).logged <=> written \/ (e.active /\ e.logged))
  <2>1. CASE written
    <3>1. AfterLine(o, p, written).active /\ AfterLine(o, p, written).logged
      BY <1>1, <2>1 DEF AfterLine, Entries
    <3>2. QED
      BY <2>1, <3>1
  <2>2. CASE ~written
    <3>1. /\ AfterLine(o, p, written).active
          /\ AfterLine(o, p, written).logged = o.logged
      BY <1>1, <2>2 DEF AfterLine, Entries
    <3>2. QED
      BY <1>1, <2>2, <3>1
  <2>3. QED
    BY <2>1, <2>2
<1>3. QED
  BY <1>2 DEF o

LEMMA ClosedIsSound ==
    ASSUME NEW e, NEW c, NEW u, Sound(e, c, u)
    PROVE  Sound(Closed(e), c, AllTold) /\ ~Closed(e).active
<1> DEFINE f == Closed(e)
<1>1. e \in Entries /\ e.wait = c
  BY DEF Sound
<1>2. f \in Entries /\ f.wait = e.wait /\ f.pending = 0 /\ ~f.active
  BY <1>1 DEF Closed, FreshEntry, Entries, Levels, Warning
<1> HIDE DEF f
<1>3. Sound(f, c, AllTold)
  BY <1>1, <1>2 DEF Sound, Entries, Tales, AllTold, Levels, Warning
<1>4. QED
  BY <1>2, <1>3 DEF f

LEMMA AgedIsSound ==
    ASSUME NEW e, NEW c, NEW u, Sound(e, c, u)
    PROVE  /\ Sound(Aged(e), Less(c), u)
           /\ Aged(e).active = e.active /\ Aged(e).logged = e.logged
<1> DEFINE f == Aged(e)
<1>1. e \in Entries /\ e.wait = c
  BY DEF Sound
<1>2. Less(e.wait) \in Nat /\ Less(e.retry) \in Nat
  BY <1>1 DEF Less, Entries
<1>3. /\ f \in Entries /\ f.wait = Less(c) /\ f.pending = e.pending
      /\ f.active = e.active /\ f.level = e.level /\ f.logged = e.logged
  BY <1>1, <1>2 DEF Entries, Aged
<1> HIDE DEF f
<1>4. Sound(f, Less(c), u)
  BY <1>1, <1>2, <1>3 DEF Sound
<1>5. QED
  BY <1>3, <1>4 DEF f

-----------------------------------------------------------------------------
(* Every step keeps the invariant.                                         *)

LEMMA InitIInv == Init => IInv
<1> SUFFICES ASSUME Init PROVE IInv
  OBVIOUS
<1>1. FreshEntry \in Entries /\ AllTold \in Tales /\ ~FreshEntry.active
  BY FreshIsSound DEF Sound, FreshEntry
<1>2. EveryPlaceIsSound
  BY <1>1, FreshIsSound DEF Init, EveryPlaceIsSound
<1>3. TableIsSound
  BY DEF Init, TableIsSound, Places
<1>4. RecordIsDueForReported
  BY DEF Init, RecordIsDueForReported
<1>5. QED
  BY <1>2, <1>3, <1>4 DEF IInv

(* One place changes: what is left to show of it.                          *)
LEMMA OnePlaceChanges ==
    ASSUME EveryPlaceIsSound, NEW p \in Places, NEW e, NEW c, NEW u,
           Sound(e, c, u),
           entry' = [entry EXCEPT ![p] = e],
           cooling' = [cooling EXCEPT ![p] = c],
           untold' = [untold EXCEPT ![p] = u]
    PROVE  EveryPlaceIsSound'
<1>1. e \in Entries /\ c \in Nat /\ u \in Tales
  BY DEF Sound
<1>2. /\ entry' \in [Places -> Entries]
      /\ cooling' \in [Places -> Nat]
      /\ untold' \in [Places -> Tales]
  BY <1>1 DEF EveryPlaceIsSound
<1>3. ASSUME NEW q \in Places PROVE Sound(entry'[q], cooling'[q], untold'[q])
  <2>1. CASE q = p
    BY <2>1 DEF EveryPlaceIsSound
  <2>2. CASE q # p
    BY <2>2 DEF EveryPlaceIsSound
  <2>3. QED
    BY <2>1, <2>2
<1>4. QED
  BY <1>2, <1>3 DEF EveryPlaceIsSound

LEMMA MarksChangeAtOnePlace ==
    ASSUME EveryPlaceIsSound, RecordIsDueForReported, NEW p \in Places, NEW f,
           entry' = [entry EXCEPT ![p] = f],
           \A q \in Keys : q # p => /\ (q \in reported' <=> q \in reported)
                                   /\ (q \in table' <=> q \in table),
           p \in Keys => (p \in reported' <=> p \in table' /\ f.active /\ f.logged)
    PROVE  RecordIsDueForReported'
<1>1. SUFFICES ASSUME NEW q \in Keys
               PROVE  q \in reported'
                        <=> q \in table' /\ entry'[q].active /\ entry'[q].logged
  BY DEF RecordIsDueForReported
<1>2. q \in reported <=> q \in table /\ entry[q].active /\ entry[q].logged
  BY DEF RecordIsDueForReported
<1>3. CASE q = p
  <2>1. entry'[q] = f
    BY <1>3 DEF EveryPlaceIsSound
  <2>2. QED
    BY <1>3, <2>1
<1>4. CASE q # p
  <2>1. entry'[q] = entry[q]
    BY <1>4 DEF EveryPlaceIsSound, Places
  <2>2. QED
    BY <1>2, <1>4, <2>1
<1>5. QED
  BY <1>3, <1>4

LEMMA PlaceIsSound ==
    ASSUME EveryPlaceIsSound, NEW p \in Places
    PROVE  /\ Sound(entry[p], cooling[p], untold[p])
           /\ entry[p] \in Entries
           /\ cooling = [cooling EXCEPT ![p] = cooling[p]]
           /\ untold = [untold EXCEPT ![p] = untold[p]]
<1>1. Sound(entry[p], cooling[p], untold[p]) /\ entry[p] \in Entries
  BY DEF EveryPlaceIsSound
<1>2. cooling = [cooling EXCEPT ![p] = cooling[p]]
  BY DEF EveryPlaceIsSound
<1>3. untold = [untold EXCEPT ![p] = untold[p]]
  BY DEF EveryPlaceIsSound
<1>4. QED
  BY <1>1, <1>2, <1>3

LEMMA SuppressFailureKeeps ==
    ASSUME IInv, NEW k \in Keys, NEW level \in Levels, SuppressFailure(k, level)
    PROVE  IInv'
<1> DEFINE p == PlaceFor(k)
           o == Opened(entry[p], level)
           f == Counted(o)
<1>1. /\ p \in Places /\ (p = k \/ p \notin Keys)
      /\ Sound(entry[p], cooling[p], untold[p]) /\ entry[p] \in Entries
      /\ cooling = [cooling EXCEPT ![p] = cooling[p]]
  BY PlaceIsKnown, PlaceIsSound, LimiterAssumption DEF IInv
<1>2. Sound(f, cooling[p], Telling(untold[p], level))
  BY <1>1, SuppressedIsSound
<1>3. /\ entry' = [entry EXCEPT ![p] = f]
      /\ untold' = [untold EXCEPT ![p] = Telling(untold[p], level)]
      /\ cooling' = cooling
      /\ table' = table \cup ({p} \cap Keys)
      /\ UNCHANGED <<enabled, calm, reported>>
      /\ entry[p].wait > 0
  <2>1. entry' = [entry EXCEPT ![p] = f]
    BY DEF SuppressFailure
  <2>2. /\ untold' = [untold EXCEPT ![p] = Telling(untold[p], level)]
        /\ cooling' = cooling
        /\ UNCHANGED <<enabled, calm, reported>>
        /\ entry[p].wait > 0
    BY DEF SuppressFailure
  <2>3. table' = table \cup ({p} \cap Keys)
    BY DEF SuppressFailure, Files
  <2>4. QED
    BY <2>1, <2>2, <2>3
<1>4. f.active /\ (f.logged <=> entry[p].active /\ entry[p].logged)
  <2>1. o \in Entries /\ o.active /\ (o.logged <=> entry[p].active /\ entry[p].logged)
    BY <1>1, OpenedIsTyped
  <2> HIDE DEF o
  <2>2. f.active = o.active /\ f.logged = o.logged
    BY <2>1 DEF Entries, Counted
  <2>3. QED
    BY <2>1, <2>2
<1>5. p \in Keys => p \in table
  BY <1>3, FreshIsSound DEF IInv, TableIsSound, FreshEntry
<1> HIDE DEF p, o, f
<1>6. EveryPlaceIsSound'
  BY <1>1, <1>2, <1>3, OnePlaceChanges DEF IInv
<1>7. TableIsSound' /\ table' = table
  BY <1>1, <1>3, <1>5 DEF IInv, TableIsSound, EveryPlaceIsSound
<1>8. p \in Keys => (p \in reported' <=> p \in table' /\ f.active /\ f.logged)
  BY <1>3, <1>4, <1>7 DEF IInv, RecordIsDueForReported
<1>9. RecordIsDueForReported'
  BY <1>1, <1>3, <1>7, <1>8, MarksChangeAtOnePlace DEF IInv
<1>10. QED
  BY <1>6, <1>7, <1>9 DEF IInv

LEMMA LogFailureKeeps ==
    ASSUME IInv, NEW k \in Keys, NEW level \in Levels, LogFailure(k, level)
    PROVE  IInv'
<1> DEFINE p == PlaceFor(k)
<1>1. /\ p \in Places /\ (p = k \/ p \notin Keys)
      /\ Sound(entry[p], cooling[p], untold[p]) /\ entry[p] \in Entries
  BY PlaceIsKnown, PlaceIsSound, LimiterAssumption DEF IInv
<1>2. PICK written \in BOOLEAN :
        /\ entry' = [entry EXCEPT ![p] =
                       AfterLine(Opened(entry[p], level), p, written)]
        /\ untold' = [untold EXCEPT ![p] =
                        IF written THEN AllTold ELSE Telling(untold[p], level)]
        /\ reported' = IF written THEN reported \cup ({p} \cap Keys) ELSE reported
  BY DEF LogFailure, Writes
<1>3. /\ cooling' = [cooling EXCEPT ![p] = CooldownOf(p)]
      /\ table' = table \cup ({p} \cap Keys)
      /\ UNCHANGED <<enabled, calm>>
  BY DEF LogFailure, Files
<1> DEFINE f == AfterLine(Opened(entry[p], level), p, written)
           u == IF written THEN AllTold ELSE Telling(untold[p], level)
<1>4. Sound(f, CooldownOf(p), u)
  BY <1>1, LineIsSound
<1>5. f.active /\ (f.logged <=> written \/ (entry[p].active /\ entry[p].logged))
  BY <1>1, LineKeepsTheMark
<1>6. entry' = [entry EXCEPT ![p] = f] /\ untold' = [untold EXCEPT ![p] = u]
  BY <1>2
<1> HIDE DEF f, u, p
<1>7. EveryPlaceIsSound'
  BY <1>1, <1>3, <1>4, <1>6, OnePlaceChanges DEF IInv
<1>8. TableIsSound'
  <2>1. table' \subseteq Keys /\ reported' \subseteq Keys
    BY <1>2, <1>3 DEF IInv, TableIsSound
  <2>2. ASSUME NEW q \in Keys \ table' PROVE entry'[q] = FreshEntry
    <3>1. q # p /\ q \in Keys \ table
      BY <1>3, <2>2
    <3>2. entry'[q] = entry[q]
      BY <1>6, <3>1 DEF IInv, EveryPlaceIsSound, Places
    <3>3. QED
      BY <3>1, <3>2 DEF IInv, TableIsSound
  <2>3. QED
    BY <1>3, <2>1, <2>2 DEF IInv, TableIsSound
<1>9. p \in Keys => (p \in reported' <=> p \in table' /\ f.active /\ f.logged)
  <2>1. SUFFICES ASSUME p \in Keys
                 PROVE  p \in reported' <=> p \in table' /\ f.active /\ f.logged
    OBVIOUS
  <2>2. p \in reported <=> p \in table /\ entry[p].active /\ entry[p].logged
    BY <2>1 DEF IInv, RecordIsDueForReported
  <2>3. p \notin table => ~entry[p].active
    BY <2>1, FreshIsSound DEF IInv, TableIsSound, FreshEntry
  <2>4. QED
    BY <1>2, <1>3, <1>5, <2>1, <2>2, <2>3
<1>10. RecordIsDueForReported'
  <2>1. \A q \in Keys : q # p => /\ (q \in reported' <=> q \in reported)
                                /\ (q \in table' <=> q \in table)
    BY <1>2, <1>3
  <2>2. QED
    BY <1>1, <1>6, <1>9, <2>1, MarksChangeAtOnePlace DEF IInv
<1>11. QED
  BY <1>7, <1>8, <1>10 DEF IInv

LEMMA LogFailureRecoveredKeeps ==
    ASSUME IInv, NEW k \in Keys, LogFailureRecovered(k)
    PROVE  IInv'
<1>1. /\ k \in Places /\ Sound(entry[k], cooling[k], untold[k]) /\ entry[k] \in Entries
      /\ cooling = [cooling EXCEPT ![k] = cooling[k]]
      /\ untold = [untold EXCEPT ![k] = untold[k]]
  BY PlaceIsSound DEF IInv, Places
<1>r. k \in reported <=> k \in table /\ entry[k].active /\ entry[k].logged
  BY DEF IInv, RecordIsDueForReported
<1>o. ASSUME NEW f, entry' = [entry EXCEPT ![k] = f], NEW q \in Keys \ table, q # k
      PROVE  entry'[q] = FreshEntry
  BY <1>o DEF IInv, TableIsSound, EveryPlaceIsSound, Places
<1>2. CASE ForgetKey(k)
  <2>1. /\ ~entry[k].active /\ entry[k].wait = 0
        /\ table' = table \ {k} /\ entry' = [entry EXCEPT ![k] = FreshEntry]
        /\ UNCHANGED <<enabled, calm, reported, cooling, untold>>
    BY <1>2 DEF ForgetKey, Forgettable
  <2>2. cooling[k] = 0 /\ untold[k] = AllTold
    BY <1>1, <2>1 DEF Sound, Entries
  <2>3. EveryPlaceIsSound'
    <3>1. Sound(FreshEntry, cooling[k], untold[k])
      BY <2>2, FreshIsSound
    <3>2. QED
      BY <1>1, <2>1, <3>1, OnePlaceChanges DEF IInv
  <2>4. entry'[k] = FreshEntry
    BY <1>1, <2>1 DEF IInv, EveryPlaceIsSound
  <2>5. TableIsSound'
    BY <1>o, <2>1, <2>4 DEF IInv, TableIsSound
  <2>6. RecordIsDueForReported'
    BY <1>1, <1>r, <2>1, MarksChangeAtOnePlace DEF IInv
  <2>7. QED
    BY <2>3, <2>5, <2>6 DEF IInv
<1>3. ASSUME k \in table, entry' = [entry EXCEPT ![k] = Closed(entry[k])],
             untold' = [untold EXCEPT ![k] = AllTold], reported' = reported \ {k},
             UNCHANGED <<enabled, calm, table, cooling>>
      PROVE  IInv'
  <2>1. Sound(Closed(entry[k]), cooling[k], AllTold) /\ ~Closed(entry[k]).active
    BY <1>1, ClosedIsSound
  <2>2. EveryPlaceIsSound'
    BY <1>1, <1>3, <2>1, OnePlaceChanges DEF IInv
  <2>3. TableIsSound'
    BY <1>o, <1>3 DEF IInv, TableIsSound
  <2>4. RecordIsDueForReported'
    BY <1>1, <1>3, <2>1, MarksChangeAtOnePlace DEF IInv
  <2>5. QED
    BY <2>2, <2>3, <2>4 DEF IInv
<1>4. CASE CloseSilently(k)
  BY <1>r, <1>3, <1>4 DEF CloseSilently
<1>5. CASE RecordRecovery(k)
  <2>1. k \in table /\ entry[k].active /\ entry[k].logged
    BY <1>5 DEF RecordRecovery
  <2>2. \/ /\ entry' = [entry EXCEPT ![k] = Closed(entry[k])]
           /\ untold' = [untold EXCEPT ![k] = AllTold] /\ reported' = reported \ {k}
           /\ UNCHANGED <<enabled, calm, table, cooling>>
        \/ /\ entry' = [entry EXCEPT ![k] = [entry[k] EXCEPT !.retry = RetryInterval]]
           /\ UNCHANGED <<enabled, calm, table, cooling, reported, untold>>
    BY <1>5 DEF RecordRecovery
  <2> DEFINE f == [entry[k] EXCEPT !.retry = RetryInterval]
  <2>3. CASE /\ entry' = [entry EXCEPT ![k] = f]
             /\ UNCHANGED <<enabled, calm, table, cooling, reported, untold>>
    <3>1. /\ f \in Entries /\ f.wait = entry[k].wait /\ f.pending = entry[k].pending
          /\ f.active = entry[k].active /\ f.level = entry[k].level
          /\ f.logged = entry[k].logged
      BY <1>1, LimiterAssumption DEF Entries
    <3> HIDE DEF f
    <3>2. Sound(f, cooling[k], untold[k])
      BY <1>1, <3>1 DEF Sound
    <3>3. EveryPlaceIsSound'
      BY <1>1, <2>3, <3>2, OnePlaceChanges DEF IInv
    <3>4. TableIsSound'
      BY <1>o, <2>1, <2>3 DEF IInv, TableIsSound
    <3>5. RecordIsDueForReported'
      BY <1>1, <1>r, <2>1, <2>3, <3>1, MarksChangeAtOnePlace DEF IInv
    <3>6. QED
      BY <3>3, <3>4, <3>5 DEF IInv
  <2>4. QED
    BY <1>3, <2>1, <2>2, <2>3
<1>6. QED
  BY <1>2, <1>4, <1>5 DEF LogFailureRecovered

LEMMA DisableLogKeeps == ASSUME IInv, DisableLog PROVE IInv'
<1>1. PICK written \in [Places -> Writes] :
        /\ entry' = [p \in Places |-> Flushed(p, written[p])]
        /\ untold' = [p \in Places |-> IF Flushes(p) /\ written[p]
                                         THEN AllTold ELSE untold[p]]
  BY DEF DisableLog
<1>2. enabled' = FALSE /\ UNCHANGED <<calm, table, reported, cooling>>
  BY DEF DisableLog
<1>3. ASSUME NEW p \in Places
      PROVE  /\ Sound(entry'[p], cooling[p], untold'[p])
             /\ entry'[p].active = entry[p].active
             /\ entry'[p].logged = entry[p].logged
             /\ entry[p] = FreshEntry => entry'[p] = FreshEntry
  <2> DEFINE e == entry[p]
             told == Flushes(p) /\ written[p]
  <2>1. Sound(e, cooling[p], untold[p]) /\ e \in Entries
    BY <1>3, PlaceIsSound DEF IInv
  <2>2. Flushes(p) <=> e.active /\ e.pending > 0
    BY DEF Flushes
  <2>3. /\ entry'[p] = Flushed(p, written[p])
        /\ untold'[p] = IF told THEN AllTold ELSE untold[p]
    BY <1>1, <1>3
  <2>4. CASE told
    <3> DEFINE f == [e EXCEPT !.pending = 0,
                              !.level = IF p = Overflow THEN Warning ELSE @]
    <3>1. Flushed(p, written[p]) = f
      BY <2>4 DEF Flushed
    <3>2. /\ f \in Entries /\ f.wait = e.wait /\ f.pending = 0
          /\ f.active = e.active /\ f.logged = e.logged
      BY <2>1 DEF Entries, Levels, Warning
    <3> HIDE DEF f, told, e
    <3>3. Sound(f, cooling[p], AllTold)
      BY <2>1, <3>2 DEF Sound, AllTold, Tales, Levels, Warning
    <3>4. e # FreshEntry
      BY <2>2, <2>4, FreshIsSound DEF told, FreshEntry
    <3>5. QED
      BY <2>3, <2>4, <3>1, <3>2, <3>3, <3>4 DEF e
  <2>5. CASE ~told /\ p = Overflow /\ e.pending = 0
    <3> DEFINE f == [e EXCEPT !.pending = @, !.level = Warning]
    <3>1. Flushed(p, written[p]) = f
      BY <2>5 DEF Flushed
    <3>2. /\ f \in Entries /\ f.wait = e.wait /\ f.pending = 0
          /\ f.active = e.active /\ f.logged = e.logged
      BY <2>1, <2>5 DEF Entries, Levels, Warning
    <3>3. e = FreshEntry => f = e
      <4>1. FreshEntry.level = Warning
        BY DEF FreshEntry
      <4>2. e.level = Warning => f = e
        BY <2>1 DEF Entries
      <4>3. QED
        BY <4>1, <4>2
    <3> HIDE DEF f, told, e
    <3>4. Sound(f, cooling[p], untold[p])
      BY <2>1, <2>5, <3>2 DEF Sound
    <3>5. QED
      BY <2>3, <2>5, <3>1, <3>2, <3>3, <3>4 DEF e
  <2>6. CASE ~told /\ ~(p = Overflow /\ e.pending = 0)
    <3>1. Flushed(p, written[p]) = [e EXCEPT !.pending = e.pending, !.level = e.level]
      BY <2>6 DEF Flushed
    <3>2. [e EXCEPT !.pending = e.pending, !.level = e.level] = e
      BY <2>1 DEF Entries
    <3> HIDE DEF told, e
    <3>3. QED
      BY <2>1, <2>3, <2>6, <3>1, <3>2 DEF e
  <2>7. QED
    BY <2>4, <2>5, <2>6
<1>4. EveryPlaceIsSound'
  <2>1. \A p \in Places : entry'[p] \in Entries /\ untold'[p] \in Tales
    BY <1>3 DEF Sound
  <2>2. entry' \in [Places -> Entries] /\ untold' \in [Places -> Tales]
    <3>1. DOMAIN entry' = Places /\ entry' = [p \in Places |-> entry'[p]]
      BY <1>1
    <3>2. untold' = [p \in Places |-> untold'[p]]
      BY <1>1
    <3>3. QED
      BY <2>1, <3>1, <3>2
  <2>3. QED
    BY <1>2, <1>3, <2>2 DEF EveryPlaceIsSound, IInv
<1>5. TableIsSound'
  BY <1>2, <1>3 DEF IInv, TableIsSound, Places
<1>6. RecordIsDueForReported'
  BY <1>2, <1>3 DEF IInv, RecordIsDueForReported, Places
<1>7. QED
  BY <1>4, <1>5, <1>6 DEF IInv

LEMMA EnableLogKeeps == ASSUME IInv, EnableLog PROVE IInv'
<1>1. FreshEntry \in Entries /\ AllTold \in Tales /\ ~FreshEntry.active
  BY FreshIsSound DEF Sound, FreshEntry
<1>2. EveryPlaceIsSound'
  BY <1>1, FreshIsSound DEF EnableLog, NewSession, EveryPlaceIsSound
<1>3. TableIsSound'
  BY DEF EnableLog, NewSession, IInv, TableIsSound, Places
<1>4. RecordIsDueForReported'
  BY DEF EnableLog, NewSession, RecordIsDueForReported
<1>5. QED
  BY <1>2, <1>3, <1>4 DEF IInv

LEMMA TickKeeps == ASSUME IInv, Tick PROVE IInv'
<1>1. /\ entry' = [p \in Places |-> Aged(entry[p])]
      /\ cooling' = [p \in Places |-> Less(cooling[p])]
      /\ UNCHANGED <<enabled, table, calm, reported, untold>>
  BY DEF Tick
<1>2. ASSUME NEW p \in Places
      PROVE  /\ Sound(entry'[p], cooling'[p], untold'[p])
             /\ entry'[p].active = entry[p].active
             /\ entry'[p].logged = entry[p].logged
  <2>1. /\ entry'[p] = Aged(entry[p]) /\ cooling'[p] = Less(cooling[p])
        /\ untold'[p] = untold[p]
    BY <1>1, <1>2
  <2>2. Sound(entry[p], cooling[p], untold[p])
    BY <1>2, PlaceIsSound DEF IInv
  <2>3. /\ Sound(Aged(entry[p]), Less(cooling[p]), untold[p])
        /\ Aged(entry[p]).active = entry[p].active
        /\ Aged(entry[p]).logged = entry[p].logged
    BY <2>2, AgedIsSound
  <2>4. QED
    BY <2>1, <2>3
<1>3. Aged(FreshEntry) = FreshEntry
  BY DEF Aged, FreshEntry, Less
<1>4. EveryPlaceIsSound'
  <2>1. /\ entry' = [p \in Places |-> entry'[p]] /\ cooling' = [p \in Places |-> cooling'[p]]
        /\ untold' = untold
    BY <1>1
  <2>2. \A p \in Places : entry'[p] \in Entries /\ cooling'[p] \in Nat
    BY <1>2 DEF Sound
  <2>3. QED
    BY <1>2, <2>1, <2>2 DEF IInv, EveryPlaceIsSound
<1>5. TableIsSound'
  BY <1>1, <1>3 DEF IInv, TableIsSound, Places
<1>6. RecordIsDueForReported'
  BY <1>1, <1>2 DEF IInv, RecordIsDueForReported, Places
<1>7. QED
  BY <1>4, <1>5, <1>6 DEF IInv

LEMMA IInvKept == IInv /\ [Next]_vars => IInv'
<1> SUFFICES ASSUME IInv, [Next]_vars PROVE IInv'
  OBVIOUS
<1>1. CASE ComesToRest
  BY <1>1 DEF ComesToRest, IInv, EveryPlaceIsSound, TableIsSound,
              RecordIsDueForReported
<1>2. CASE UNCHANGED vars
  BY <1>2 DEF vars, IInv, EveryPlaceIsSound, TableIsSound, RecordIsDueForReported
<1>3. QED
  BY <1>1, <1>2, SuppressFailureKeeps, LogFailureKeeps, LogFailureRecoveredKeeps,
     DisableLogKeeps, EnableLogKeeps, TickKeeps DEF Next

LEMMA Inductive == Spec => []IInv
  BY InitIInv, IInvKept, PTL DEF Spec

-----------------------------------------------------------------------------
(* The promises.                                                           *)

(* The rate limiter's table, its entries and the shared one stay           *)
(* well-formed.                                                            *)
THEOREM TypeCorrect == Spec => []TypeOK
<1>1. IInv => TypeOK
  BY DEF IInv, TypeOK, EveryPlaceIsSound, TableIsSound, Tales
<1>2. QED
  BY Inductive, <1>1, PTL

(* LogRateLimitedMessage keeps the cooldown after a line, whatever         *)
(* LogFailureRecovered closes or drops meanwhile.                          *)
THEOREM CooldownHeld == Spec => []CooldownIsKept
<1>1. IInv => CooldownIsKept
  BY DEF IInv, CooldownIsKept, EveryPlaceIsSound, Sound
<1>2. QED
  BY Inductive, <1>1, PTL

(* LogFailureRecovered owes a record to exactly the periods that           *)
(* LogRateLimitedMessage wrote a line for.                                 *)
THEOREM RecordHeld == Spec => []RecordIsDueForReported
<1>1. IInv => RecordIsDueForReported
  BY DEF IInv
<1>2. QED
  BY Inductive, <1>1, PTL

(* No failure is lost from the counts, however many writes fail, and none  *)
(* is summed up below its level.                                           *)
THEOREM CountHeld == Spec => []NothingIsUncounted
<1>1. IInv => NothingIsUncounted
  BY DEF IInv, NothingIsUncounted, EveryPlaceIsSound, Sound
<1>2. QED
  BY Inductive, <1>1, PTL
=============================================================================
