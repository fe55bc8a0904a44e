------------------------------- MODULE LogFile -------------------------------
(***************************************************************************)
(* The file that the log of logging.cpp goes to.  Several instances of one *)
(* build share it; a named mutex lets one at a time write a record, rotate *)
(* the file to its backup or start it anew.  Waiting for the mutex may     *)
(* time out, opening, writing and renaming may fail, a process may crash   *)
(* at any point and leave the mutex abandoned, which counts as free.       *)
(* A record is written in two pieces: WriteFile may write less than asked. *)
(* What is written, and how often, is RateLimiter's subject.               *)
(***************************************************************************)
EXTENDS Naturals, Sequences

CONSTANTS
    Processes,
    Serialized, \* those whose CreateMutexW worked; the others do not wait
    None,       \* not a process
    MaxSize,    \* kMaxLogBytes, in pieces
    MaxLength,  \* bound: no record is started in a file that is this long
    MaxFailures \* bound: nor wanted, nor the log switched on, by a process that
                \* owes so many failures

ASSUME LogFileAssumption ==
    /\ Serialized \subseteq Processes /\ None \notin Processes
    /\ MaxSize \in Nat \ {0} /\ MaxLength \in Nat /\ MaxFailures \in Nat

VARIABLES
    active,     \* the file at LoggingState::path, empty if there is none
    backup,     \* the file at path.1
    holder,     \* who holds the mutex
    pc,         \* where each process is
    enabled,    \* LoggingState::enabled
    failures,   \* LoggingState::pending_internal_failures
    postponed,  \* LoggingState::next_rotation_retry is in the future
    untold      \* history: records lost since the process could write one

vars == <<active, backup, holder, pc, enabled, failures, postponed, untold>>

Pieces == [by : Processes, part : {"start", "end"}]
Steps == {"off", "idle", "reset_wait", "reset", "create", "wait", "rotate",
          "open", "write"}

Init ==
    /\ active = <<>> /\ backup = <<>>
    /\ holder = None
    /\ pc = [p \in Processes |-> "off"]
    /\ enabled = [p \in Processes |-> FALSE]
    /\ failures = [p \in Processes |-> 0]
    /\ postponed = [p \in Processes |-> FALSE]
    /\ untold = [p \in Processes |-> 0]

-----------------------------------------------------------------------------
(* The mutex, and the count of what goes wrong.                            *)

Goes(p, step) == pc' = [pc EXCEPT ![p] = step]

\* InterprocessLogLock: a process without a mutex takes itself for the holder.
\* (Faulty variant first: a time-out passes for an acquired mutex.)
FaultyMayEnter(p) == TRUE

MayEnter(p) == p \in Serialized => holder = None

Enters(p) ==
    /\ MayEnter(p)
    /\ holder' = IF p \in Serialized THEN p ELSE holder

Leaves(p) ==
    /\ holder' = IF holder = p THEN None ELSE holder
    /\ Goes(p, "idle")

\* (Faulty variant: only the latest failure is kept.)
FaultyReportInternalFailure(p) == failures' = [failures EXCEPT ![p] = 1]

ReportInternalFailure(p) == failures' = [failures EXCEPT ![p] = @ + 1]

-----------------------------------------------------------------------------
(* RotateLogLocked.                                                        *)

LooksAtFile(p, force) == force \/ ~postponed[p]

NeedsRotation(p, force) ==
    /\ LooksAtFile(p, force)
    /\ active # <<>>
    /\ force \/ Len(active) >= MaxSize

\* Moved, not moved or, the file's size being unknown, not even tried.  The two
\* that do not move it are failures.  Without need nothing happens, but that a
\* file that is not there is not waited for.
Moves(p) ==
    /\ backup' = active /\ active' = <<>>
    /\ postponed' = [postponed EXCEPT ![p] = FALSE]

StaysPut(p) ==
    /\ UNCHANGED <<active, backup>>
    /\ postponed' = [postponed EXCEPT ![p] = TRUE]

Unneeded(p) ==
    /\ UNCHANGED <<active, backup>>
    /\ postponed' \in {postponed, [postponed EXCEPT ![p] = FALSE]}

-----------------------------------------------------------------------------
(* ResetLog: at the start of the program, and when the log is switched on. *)

Start(p) ==
    /\ pc[p] = "off"
    /\ enabled' = [enabled EXCEPT ![p] = TRUE]
    /\ Goes(p, "reset_wait")
    /\ UNCHANGED <<active, backup, holder, failures, postponed, untold>>

EnableLog(p) ==
    /\ pc[p] = "idle" /\ ~enabled[p] /\ failures[p] < MaxFailures
    /\ enabled' = [enabled EXCEPT ![p] = TRUE]
    /\ Goes(p, "reset_wait")
    /\ UNCHANGED <<active, backup, holder, failures, postponed, untold>>

DisableLog(p) ==
    /\ pc[p] = "idle" /\ enabled[p]
    /\ enabled' = [enabled EXCEPT ![p] = FALSE]
    /\ UNCHANGED <<active, backup, holder, pc, failures, postponed, untold>>

ResetEnters(p) ==
    /\ pc[p] = "reset_wait" /\ Enters(p)
    /\ Goes(p, "reset")
    /\ UNCHANGED <<active, backup, enabled, failures, postponed, untold>>

ResetTimesOut(p) ==
    /\ pc[p] = "reset_wait" /\ p \in Serialized /\ holder # None
    /\ ReportInternalFailure(p)
    /\ Goes(p, "idle")
    /\ UNCHANGED <<active, backup, holder, enabled, postponed, untold>>

ResetRotates(p) ==
    /\ pc[p] = "reset"
    /\ \/ NeedsRotation(p, TRUE) /\ Moves(p)
       \/ ~NeedsRotation(p, TRUE) /\ Unneeded(p)
    /\ Goes(p, "create")
    /\ UNCHANGED <<holder, enabled, failures, untold>>

\* (Faulty variant: the file is started anew although it is not moved.)
FaultyAfterFailedReset(p) == Goes(p, "create") /\ UNCHANGED holder

AfterFailedReset(p) == Leaves(p)

ResetRotationFails(p) ==
    /\ pc[p] = "reset"
    /\ StaysPut(p) /\ ReportInternalFailure(p)
    /\ AfterFailedReset(p)
    /\ UNCHANGED <<enabled, untold>>

\* CREATE_ALWAYS empties whatever file there is.
CreateFile(p) ==
    /\ pc[p] = "create"
    /\ \/ active' = <<>> /\ UNCHANGED failures
       \/ ReportInternalFailure(p) /\ UNCHANGED active
    /\ Leaves(p)
    /\ UNCHANGED <<backup, enabled, postponed, untold>>

-----------------------------------------------------------------------------
(* WriteMessageLocked.                                                     *)

Lost(p) == untold' = [untold EXCEPT ![p] = @ + 1]

Log(p) ==
    /\ pc[p] = "idle" /\ enabled[p]
    /\ failures[p] < MaxFailures
    /\ Goes(p, "wait")
    /\ UNCHANGED <<active, backup, holder, enabled, failures, postponed,
                   untold>>

WriteEnters(p) ==
    /\ pc[p] = "wait" /\ Enters(p)
    /\ Goes(p, "rotate")
    /\ UNCHANGED <<active, backup, enabled, failures, postponed, untold>>

WriteTimesOut(p) ==
    /\ pc[p] = "wait" /\ p \in Serialized /\ holder # None
    /\ ReportInternalFailure(p) /\ Lost(p)
    /\ Goes(p, "idle")
    /\ UNCHANGED <<active, backup, holder, enabled, postponed>>

\* A rotation that fails does not keep the record from being written.
Rotate(p) ==
    /\ pc[p] = "rotate"
    /\ \/ NeedsRotation(p, FALSE) /\ Moves(p) /\ UNCHANGED failures
       \/ LooksAtFile(p, FALSE) /\ StaysPut(p) /\ ReportInternalFailure(p)
       \/ ~NeedsRotation(p, FALSE)
          /\ UNCHANGED <<active, backup, postponed, failures>>
    /\ Goes(p, "open")
    /\ UNCHANGED <<holder, enabled, untold>>

Piece(p, part) == [by |-> p, part |-> part]

\* The file is opened, and created if need be; the first piece is written.
OpenAndWrite(p) ==
    /\ pc[p] = "open" /\ Len(active) < MaxLength
    /\ active' = Append(active, Piece(p, "start"))
    /\ Goes(p, "write")
    /\ UNCHANGED <<backup, holder, enabled, failures, postponed, untold>>

\* The suffix of the record has told of all failures before.
WriteRest(p) ==
    /\ pc[p] = "write"
    /\ active' = Append(active, Piece(p, "end"))
    /\ failures' = [failures EXCEPT ![p] = 0]
    /\ untold' = [untold EXCEPT ![p] = 0]
    /\ Leaves(p)
    /\ UNCHANGED <<backup, enabled, postponed>>

\* Not opened, not encoded, or not written to the end.
WriteFails(p) ==
    /\ pc[p] \in {"open", "write"}
    /\ ReportInternalFailure(p) /\ Lost(p)
    /\ Leaves(p)
    /\ UNCHANGED <<active, backup, enabled, postponed>>

-----------------------------------------------------------------------------
RetryIsDue(p) ==
    /\ postponed[p]
    /\ postponed' = [postponed EXCEPT ![p] = FALSE]
    /\ UNCHANGED <<active, backup, holder, pc, enabled, failures, untold>>

\* Wherever it is, the process ends; Windows abandons the mutex it holds.
Ends(p) ==
    /\ pc[p] # "off"
    /\ Goes(p, "off")
    /\ holder' = IF holder = p THEN None ELSE holder
    /\ enabled' = [enabled EXCEPT ![p] = FALSE]
    /\ failures' = [failures EXCEPT ![p] = 0]
    /\ postponed' = [postponed EXCEPT ![p] = FALSE]
    /\ untold' = [untold EXCEPT ![p] = 0]
    /\ UNCHANGED <<active, backup>>

Next ==
    \E p \in Processes :
        \/ Start(p) \/ EnableLog(p) \/ DisableLog(p)
        \/ ResetEnters(p) \/ ResetTimesOut(p)
        \/ ResetRotates(p) \/ ResetRotationFails(p) \/ CreateFile(p)
        \/ Log(p) \/ WriteEnters(p) \/ WriteTimesOut(p)
        \/ Rotate(p) \/ OpenAndWrite(p) \/ WriteRest(p) \/ WriteFails(p)
        \/ RetryIsDue(p) \/ Ends(p)

Spec == Init /\ [][Next]_vars

-----------------------------------------------------------------------------
(* Type correctness.                                                       *)
TypeOK ==
    /\ active \in Seq(Pieces) /\ backup \in Seq(Pieces)
    /\ holder \in Processes \cup {None}
    /\ pc \in [Processes -> Steps]
    /\ enabled \in [Processes -> BOOLEAN]
    /\ failures \in [Processes -> Nat]
    /\ postponed \in [Processes -> BOOLEAN]
    /\ untold \in [Processes -> Nat]

(* Records of several processes do not run into each other: the rest of a  *)
(* record follows its beginning, whoever waits, times out, crashes or is   *)
(* left with half a record.                                                *)
WholeRecords(file) ==
    \A i \in 1 .. Len(file) :
        file[i].part = "end" =>
            i > 1 /\ file[i - 1] = Piece(file[i].by, "start")

LinesAreWhole == WholeRecords(active) /\ WholeRecords(backup)

(* src/README.md 155: no step loses a record of the active file but by     *)
(* moving the whole file to the backup; a reset that cannot do that leaves *)
(* the file alone, and so does one that is interrupted.                    *)
RecordsMoveWhole ==
    [][\/ active' = <<>> /\ (active # <<>> => backup' = active)
       \/ /\ Len(active') >= Len(active)
          /\ SubSeq(active', 1, Len(active)) = active]_vars

(* Every record that a running process could not write is among the logger *)
(* failures it still owes: the next record it can write tells of it.       *)
LossIsCounted == \A p \in Processes : untold[p] <= failures[p]
=============================================================================
