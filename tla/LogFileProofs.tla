---------------------------- MODULE LogFileProofs ----------------------------
(***************************************************************************)
(* Proofs about LogFile, for every set of processes that all have the      *)
(* mutex, every size and every bound.                                      *)
(***************************************************************************)
EXTENDS LogFile, SequenceTheorems, TLAPS

(* Where a process is between having the mutex and giving it up.           *)
Inside == {"reset", "create", "rotate", "open", "write"}

(* The strengthening.  Who is inside is the holder, so that at most one    *)
(* is; what a process knows of the file - that its reset has moved it, or  *)
(* that it ends with the process's own half record - stays true for that   *)
(* reason.                                                                 *)
MutexHeld == \A p \in Processes : pc[p] \in Inside <=> holder = p
MovedBeforeCreated == \A p \in Processes : pc[p] = "create" => active = <<>>
HalfRecordIsLast ==
    \A p \in Processes : pc[p] = "write" =>
        Len(active) > 0 /\ active[Len(active)] = Piece(p, "start")

IInv == /\ TypeOK /\ MutexHeld /\ MovedBeforeCreated /\ HalfRecordIsLast
        /\ LinesAreWhole /\ LossIsCounted

(* The processes all have the mutex.                                       *)
AllSerialized == Serialized = Processes

LEMMA InitIInv == Init => IInv
BY LogFileAssumption
   DEF Init, IInv, TypeOK, MutexHeld, MovedBeforeCreated, HalfRecordIsLast,
       LinesAreWhole, WholeRecords, LossIsCounted, Inside, Steps

(* The steps of the machine by what they do to the file.                   *)
KeepsFiles(p) ==
    \/ Start(p) \/ EnableLog(p) \/ DisableLog(p)
    \/ ResetEnters(p) \/ ResetTimesOut(p) \/ ResetRotationFails(p)
    \/ Log(p) \/ WriteEnters(p) \/ WriteTimesOut(p) \/ WriteFails(p)
    \/ RetryIsDue(p) \/ Ends(p)

ChangesFiles(p) ==
    \/ ResetRotates(p) \/ CreateFile(p) \/ Rotate(p) \/ OpenAndWrite(p)
    \/ WriteRest(p)

LEMMA TypeStep == TypeOK /\ [Next]_vars => TypeOK'
<1> SUFFICES ASSUME TypeOK, [Next]_vars PROVE TypeOK'
  OBVIOUS
<1> USE LogFileAssumption
<1>1. CASE UNCHANGED vars
  BY <1>1 DEF TypeOK, vars
<1>2. CASE Next
  <2> PICK p \in Processes : KeepsFiles(p) \/ ChangesFiles(p)
    BY <1>2 DEF Next, KeepsFiles, ChangesFiles
  <2> USE DEF TypeOK, Goes, Enters, Leaves, Steps
  <2>1. CASE Start(p)
    BY <2>1 DEF Start
  <2>2. CASE EnableLog(p)
    BY <2>2 DEF EnableLog
  <2>3. CASE DisableLog(p)
    BY <2>3 DEF DisableLog
  <2>4. CASE ResetEnters(p)
    BY <2>4 DEF ResetEnters
  <2>5. CASE ResetTimesOut(p)
    BY <2>5 DEF ResetTimesOut, ReportInternalFailure
  <2>0. <<>> \in Seq(Pieces)
    BY EmptySeq
  <2>6. CASE ResetRotates(p)
    <3>1. CASE Moves(p)
      BY <2>6, <2>0, <3>1 DEF ResetRotates, Moves
    <3>2. CASE Unneeded(p)
      BY <2>6, <3>2 DEF ResetRotates, Unneeded
    <3>3. QED
      BY <2>6, <3>1, <3>2 DEF ResetRotates
  <2>7. CASE ResetRotationFails(p)
    BY <2>7 DEF ResetRotationFails, StaysPut, ReportInternalFailure,
                AfterFailedReset
  <2>8. CASE CreateFile(p)
    <3>1. CASE active' = <<>> /\ UNCHANGED failures
      BY <2>8, <2>0, <3>1 DEF CreateFile
    <3>2. CASE ReportInternalFailure(p) /\ UNCHANGED active
      BY <2>8, <3>2 DEF CreateFile, ReportInternalFailure
    <3>3. QED
      BY <2>8, <3>1, <3>2 DEF CreateFile
  <2>9. CASE Log(p)
    BY <2>9 DEF Log
  <2>10. CASE WriteEnters(p)
    BY <2>10 DEF WriteEnters
  <2>11. CASE WriteTimesOut(p)
    BY <2>11 DEF WriteTimesOut, ReportInternalFailure, Lost
  <2>12. CASE Rotate(p)
    <3>1. CASE Moves(p) /\ UNCHANGED failures
      BY <2>12, <2>0, <3>1 DEF Rotate, Moves
    <3>2. CASE StaysPut(p) /\ ReportInternalFailure(p)
      BY <2>12, <3>2 DEF Rotate, StaysPut, ReportInternalFailure
    <3>3. CASE UNCHANGED <<active, backup, postponed, failures>>
      BY <2>12, <3>3 DEF Rotate
    <3>4. QED
      BY <2>12, <3>1, <3>2, <3>3 DEF Rotate
  <2>13. CASE OpenAndWrite(p)
    <3>1. Piece(p, "start") \in Pieces
      BY DEF Piece, Pieces
    <3>2. QED
      BY <2>13, <3>1 DEF OpenAndWrite
  <2>14. CASE WriteRest(p)
    <3>1. Piece(p, "end") \in Pieces
      BY DEF Piece, Pieces
    <3>2. QED
      BY <2>14, <3>1 DEF WriteRest
  <2>15. CASE WriteFails(p)
    BY <2>15 DEF WriteFails, ReportInternalFailure, Lost
  <2>16. CASE RetryIsDue(p)
    BY <2>16 DEF RetryIsDue
  <2>17. CASE Ends(p)
    BY <2>17 DEF Ends
  <2>18. QED
    BY <2>1, <2>2, <2>3, <2>4, <2>5, <2>6, <2>7, <2>8, <2>9, <2>10, <2>11,
       <2>12, <2>13, <2>14, <2>15, <2>16, <2>17 DEF KeepsFiles, ChangesFiles
<1>3. QED
  BY <1>1, <1>2

(* Only the process that is inside moves on inside; others enter when      *)
(* nobody is.                                                              *)
LEMMA MutexStep ==
  ASSUME AllSerialized, TypeOK, MutexHeld, [Next]_vars PROVE MutexHeld'
<1> USE LogFileAssumption DEF AllSerialized
<1>1. CASE UNCHANGED vars
  BY <1>1 DEF MutexHeld, vars
<1>2. CASE Next
  <2> PICK p \in Processes : KeepsFiles(p) \/ ChangesFiles(p)
    BY <1>2 DEF Next, KeepsFiles, ChangesFiles
  <2> SUFFICES ASSUME NEW q \in Processes
               PROVE  pc'[q] \in Inside <=> holder' = q
    BY DEF MutexHeld
  <2> USE DEF MutexHeld, TypeOK, Goes, Enters, MayEnter, Leaves, Inside
  <2>1. CASE Start(p) \/ EnableLog(p) \/ DisableLog(p) \/ Log(p)
    BY <2>1 DEF Start, EnableLog, DisableLog, Log
  <2>2. CASE ResetEnters(p)
    BY <2>2 DEF ResetEnters
  <2>3. CASE WriteEnters(p)
    BY <2>3 DEF WriteEnters
  <2>4. CASE ResetTimesOut(p) \/ WriteTimesOut(p)
    BY <2>4 DEF ResetTimesOut, WriteTimesOut
  <2>5. CASE ResetRotationFails(p)
    BY <2>5 DEF ResetRotationFails, AfterFailedReset
  <2>6. CASE WriteFails(p) \/ WriteRest(p)
    BY <2>6 DEF WriteFails, WriteRest
  <2>7. CASE RetryIsDue(p)
    BY <2>7 DEF RetryIsDue
  <2>8. CASE Ends(p)
    BY <2>8 DEF Ends
  <2>9. CASE CreateFile(p)
    BY <2>9 DEF CreateFile
  <2>10. CASE ResetRotates(p) \/ Rotate(p) \/ OpenAndWrite(p)
    BY <2>10 DEF ResetRotates, Rotate, OpenAndWrite
  <2>11. QED
    BY <2>1, <2>2, <2>3, <2>4, <2>5, <2>6, <2>7, <2>8, <2>9, <2>10
    DEF KeepsFiles, ChangesFiles
<1>3. QED
  BY <1>1, <1>2

(* A step that changes the active file is one of the process inside, so    *)
(* that what another process knows of the file is about a file that stays. *)
LEMMA KeepsStep ==
  ASSUME TypeOK, NEW p \in Processes, KeepsFiles(p)
  PROVE  /\ UNCHANGED <<active, backup>>
         /\ \A q \in Processes :
              pc'[q] \in {"create", "write"} => pc'[q] = pc[q]
<1> USE DEF TypeOK, Goes, Leaves
<1>1. CASE Start(p) \/ EnableLog(p) \/ DisableLog(p) \/ Log(p)
  BY <1>1 DEF Start, EnableLog, DisableLog, Log
<1>2. CASE ResetEnters(p) \/ WriteEnters(p)
  BY <1>2 DEF ResetEnters, WriteEnters
<1>3. CASE ResetTimesOut(p) \/ WriteTimesOut(p)
  BY <1>3 DEF ResetTimesOut, WriteTimesOut
<1>4. CASE ResetRotationFails(p)
  BY <1>4 DEF ResetRotationFails, AfterFailedReset, StaysPut
<1>5. CASE WriteFails(p) \/ RetryIsDue(p) \/ Ends(p)
  BY <1>5 DEF WriteFails, RetryIsDue, Ends
<1>6. QED
  BY <1>1, <1>2, <1>3, <1>4, <1>5 DEF KeepsFiles

LEMMA OthersAreOutside ==
  ASSUME TypeOK, MutexHeld, NEW p \in Processes, ChangesFiles(p)
  PROVE  \A q \in Processes \ {p} :
           pc'[q] = pc[q] /\ pc[q] \notin {"create", "write"}
<1>1. pc[p] \in Inside
  BY DEF ChangesFiles, ResetRotates, CreateFile, Rotate, OpenAndWrite,
         WriteRest, Inside
<1>2. \A q \in Processes \ {p} : pc[q] \notin Inside
  BY <1>1 DEF MutexHeld
<1>3. \A q \in Processes \ {p} : pc'[q] = pc[q]
  BY DEF TypeOK, ChangesFiles, ResetRotates, CreateFile, Rotate, OpenAndWrite,
         WriteRest, Goes, Leaves
<1>4. QED
  BY <1>2, <1>3 DEF Inside

LEMMA FileKnowledgeStep ==
  ASSUME TypeOK, MutexHeld, MovedBeforeCreated, HalfRecordIsLast, [Next]_vars
  PROVE  MovedBeforeCreated' /\ HalfRecordIsLast'
<1>1. CASE UNCHANGED vars
  BY <1>1 DEF MovedBeforeCreated, HalfRecordIsLast, vars
<1>2. CASE \E p \in Processes : KeepsFiles(p)
  BY <1>2, KeepsStep DEF MovedBeforeCreated, HalfRecordIsLast
<1>3. ASSUME NEW p \in Processes, ChangesFiles(p)
      PROVE  MovedBeforeCreated' /\ HalfRecordIsLast'
  <2>1. \A q \in Processes \ {p} : pc'[q] \notin {"create", "write"}
    BY <1>3, OthersAreOutside
  <2>2. pc'[p] = "create" => active' = <<>>
    <3>1. CASE ResetRotates(p)
      BY <3>1 DEF ResetRotates, Moves, Unneeded, NeedsRotation, LooksAtFile
    <3>2. CASE ~ResetRotates(p)
      BY <1>3, <3>2 DEF TypeOK, ChangesFiles, CreateFile, Rotate,
                        OpenAndWrite, WriteRest, Goes, Leaves
    <3>3. QED
      BY <3>1, <3>2
  <2>3. pc'[p] = "write" =>
          Len(active') > 0 /\ active'[Len(active')] = Piece(p, "start")
    <3>1. CASE OpenAndWrite(p)
      BY <3>1, LenProperties, AppendProperties
      DEF OpenAndWrite, TypeOK, Piece, Pieces
    <3>2. CASE ~OpenAndWrite(p)
      BY <1>3, <3>2 DEF TypeOK, ChangesFiles, CreateFile, Rotate,
                        ResetRotates, WriteRest, Goes, Leaves
    <3>3. QED
      BY <3>1, <3>2
  <2>4. QED
    BY <2>1, <2>2, <2>3 DEF MovedBeforeCreated, HalfRecordIsLast
<1>4. QED
  BY <1>1, <1>2, <1>3 DEF Next, KeepsFiles, ChangesFiles

(* A piece added to a file of whole records.                               *)
LEMMA StartKeepsRecordsWhole ==
  ASSUME NEW file \in Seq(Pieces), WholeRecords(file), NEW p \in Processes
  PROVE  WholeRecords(Append(file, Piece(p, "start")))
BY AppendProperties DEF WholeRecords, Piece, Pieces

LEMMA EndKeepsRecordsWhole ==
  ASSUME NEW file \in Seq(Pieces), WholeRecords(file), NEW p \in Processes,
         Len(file) > 0, file[Len(file)] = Piece(p, "start")
  PROVE  WholeRecords(Append(file, Piece(p, "end")))
<1> DEFINE longer == Append(file, Piece(p, "end"))
<1>1. /\ Len(longer) = Len(file) + 1 /\ Len(file) \in Nat
      /\ \A i \in 1 .. Len(file) : longer[i] = file[i]
      /\ longer[Len(file) + 1] = Piece(p, "end")
  BY AppendProperties DEF Piece, Pieces
<1>2. Piece(p, "end").by = p
  BY DEF Piece
<1> HIDE DEF longer
<1> SUFFICES ASSUME NEW i \in 1 .. Len(longer), longer[i].part = "end"
             PROVE  i > 1 /\ longer[i - 1] = Piece(longer[i].by, "start")
  BY DEF WholeRecords, longer
<1>3. CASE i = Len(file) + 1
  BY <1>1, <1>2, <1>3
<1>4. CASE i \in 1 .. Len(file)
  BY <1>1, <1>4 DEF WholeRecords
<1>5. QED
  BY <1>1, <1>3, <1>4

LEMMA LinesStep ==
  ASSUME TypeOK, HalfRecordIsLast, LinesAreWhole, [Next]_vars
  PROVE  LinesAreWhole'
<1> USE DEF LinesAreWhole
<1>1. CASE UNCHANGED vars
  BY <1>1 DEF vars
<1>2. CASE \E p \in Processes : KeepsFiles(p)
  BY <1>2, KeepsStep
<1>3. ASSUME NEW p \in Processes, ChangesFiles(p) PROVE LinesAreWhole'
  <2>1. WholeRecords(<<>>)
    BY DEF WholeRecords
  <2>2. CASE ResetRotates(p) \/ CreateFile(p) \/ Rotate(p)
    <3>1. \/ active' = <<>> \/ active' = active
      BY <2>2 DEF ResetRotates, CreateFile, Rotate, Moves, StaysPut, Unneeded
    <3>2. backup' = active \/ backup' = backup
      BY <2>2 DEF ResetRotates, CreateFile, Rotate, Moves, StaysPut, Unneeded
    <3>3. QED
      BY <2>1, <3>1, <3>2
  <2>3. CASE OpenAndWrite(p)
    BY <2>3, StartKeepsRecordsWhole DEF OpenAndWrite, TypeOK
  <2>4. CASE WriteRest(p)
    BY <2>4, EndKeepsRecordsWhole DEF WriteRest, TypeOK, HalfRecordIsLast
  <2>5. QED
    BY <1>3, <2>2, <2>3, <2>4 DEF ChangesFiles
<1>4. QED
  BY <1>1, <1>2, <1>3 DEF Next, KeepsFiles, ChangesFiles

LEMMA LossStep ==
  ASSUME TypeOK, LossIsCounted, [Next]_vars PROVE LossIsCounted'
<1>1. CASE UNCHANGED vars
  BY <1>1 DEF LossIsCounted, vars
<1>2. ASSUME NEW p \in Processes, KeepsFiles(p) \/ ChangesFiles(p),
             NEW q \in Processes
      PROVE  untold'[q] <= failures'[q]
  <2>1. /\ untold[q] \in Nat /\ failures[q] \in Nat
        /\ untold[q] <= failures[q]
    BY DEF TypeOK, LossIsCounted
  <2>2. \/ failures'[q] = failures[q] + 1 /\ untold'[q] = untold[q] + 1
        \/ failures'[q] = failures[q] + 1 /\ untold'[q] = untold[q]
        \/ failures'[q] = 0 /\ untold'[q] = 0
        \/ failures'[q] = failures[q] /\ untold'[q] = untold[q]
    <3> USE DEF TypeOK, ReportInternalFailure
    <3>1. CASE WriteTimesOut(p) \/ WriteFails(p)
      BY <3>1 DEF WriteTimesOut, WriteFails, Lost
    <3>2. CASE WriteRest(p) \/ Ends(p)
      BY <3>2 DEF WriteRest, Ends
    <3>3. CASE ResetTimesOut(p) \/ ResetRotationFails(p)
      BY <3>3 DEF ResetTimesOut, ResetRotationFails
    <3>4. CASE CreateFile(p) \/ Rotate(p)
      BY <3>4 DEF CreateFile, Rotate
    <3>5. CASE UNCHANGED <<failures, untold>>
      BY <3>5
    <3>6. QED
      BY <1>2, <3>1, <3>2, <3>3, <3>4, <3>5
      DEF KeepsFiles, ChangesFiles, Start, EnableLog, DisableLog, ResetEnters,
          ResetRotates, Log, WriteEnters, OpenAndWrite, RetryIsDue
  <2>3. QED
    BY <2>1, <2>2
<1>3. QED
  BY <1>1, <1>2 DEF Next, KeepsFiles, ChangesFiles, LossIsCounted

-----------------------------------------------------------------------------
(* The theorems.                                                           *)

(* What needs no mutex: types, and the count of what was lost.             *)
LEMMA CountedInvariant == Spec => [](TypeOK /\ LossIsCounted)
<1>1. Init => TypeOK /\ LossIsCounted
  BY InitIInv DEF IInv
<1>2. TypeOK /\ LossIsCounted /\ [Next]_vars => (TypeOK /\ LossIsCounted)'
  BY TypeStep, LossStep
<1>3. QED
  BY <1>1, <1>2, PTL DEF Spec

(* The files are sequences of pieces, and every process is at a step of    *)
(* logging.cpp, with counters that are natural numbers.                    *)
THEOREM TypeCorrect == Spec => []TypeOK
BY CountedInvariant, PTL

(* A record that a running process lost is among the failures the process  *)
(* owes, whether or not it has the mutex: AppendPendingFailureSuffix will  *)
(* tell of it in the next record.                                          *)
THEOREM LossCounted == Spec => []LossIsCounted
BY CountedInvariant, PTL

LEMMA Invariant == AllSerialized => (Spec => []IInv)
<1>1. AllSerialized /\ IInv /\ [Next]_vars => IInv'
  BY TypeStep, MutexStep, FileKnowledgeStep, LinesStep, LossStep DEF IInv
<1>2. SUFFICES ASSUME AllSerialized PROVE Spec => []IInv
  OBVIOUS
<1>3. IInv /\ [Next]_vars => IInv'
  BY <1>1, <1>2
<1>4. QED
  BY InitIInv, <1>3, PTL DEF Spec

(* With the mutex, records of any number of processes stay in one piece,   *)
(* through time-outs, crashes, failed writes and failed renames.           *)
THEOREM LinesHeld == AllSerialized => (Spec => []LinesAreWhole)
<1>1. IInv => LinesAreWhole
  BY DEF IInv
<1>2. QED
  BY Invariant, <1>1, PTL

(* With the mutex, no record leaves the active file but with all of it,    *)
(* to the backup (src/README.md 155).                                      *)
THEOREM RecordsMoved == AllSerialized => (Spec => RecordsMoveWhole)
<1> DEFINE Whole ==
      \/ active' = <<>> /\ (active # <<>> => backup' = active)
      \/ /\ Len(active') >= Len(active)
         /\ SubSeq(active', 1, Len(active)) = active
<1>1. IInv /\ [Next]_vars => [Whole]_vars
  <2> SUFFICES ASSUME IInv, [Next]_vars, vars' # vars PROVE Whole
    OBVIOUS
  <2>0. CASE active' = active
    <3>1. active \in Seq(Pieces)
      BY DEF IInv, TypeOK
    <3>2. SubSeq(active, 1, Len(active)) = active /\ Len(active) \in Nat
      BY <3>1, SubSeqFull, LenProperties
    <3>3. QED
      BY <2>0, <3>2
  <2> SUFFICES ASSUME active' # active PROVE Whole
    BY <2>0
  <2> PICK p \in Processes : ChangesFiles(p)
    BY KeepsStep DEF Next, KeepsFiles, ChangesFiles, vars, IInv
  <2>1. CASE ResetRotates(p) \/ Rotate(p)
    BY <2>1 DEF ResetRotates, Rotate, Moves, StaysPut, Unneeded
  <2>2. CASE CreateFile(p)
    BY <2>2 DEF CreateFile, MovedBeforeCreated, IInv
  <2>3. CASE OpenAndWrite(p) \/ WriteRest(p)
    <3>1. PICK x \in Pieces : active' = Append(active, x)
      BY <2>3 DEF OpenAndWrite, WriteRest, Piece, Pieces
    <3>2. active \in Seq(Pieces)
      BY DEF IInv, TypeOK
    <3>3. /\ Len(active') = Len(active) + 1 /\ Len(active) \in Nat
          /\ \A i \in 1 .. Len(active) : active'[i] = active[i]
          /\ active' \in Seq(Pieces)
      BY <3>1, <3>2, AppendProperties, LenProperties
    <3>4. SubSeq(active', 1, Len(active)) = active
      <4> DEFINE front == SubSeq(active', 1, Len(active))
      <4>1. /\ front \in Seq(Pieces) /\ Len(front) = Len(active)
            /\ \A i \in 1 .. Len(active) : front[i] = active'[i]
        BY <3>3
      <4> HIDE DEF front
      <4>2. front = active
        BY <4>1, <3>2, <3>3, SeqEqual
      <4>3. QED
        BY <4>2 DEF front
    <3>5. QED
      BY <3>3, <3>4
  <2>4. QED
    BY <2>1, <2>2, <2>3 DEF ChangesFiles
<1>2. QED
  BY Invariant, <1>1, PTL DEF RecordsMoveWhole, Spec
=============================================================================
