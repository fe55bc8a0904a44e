----------------------------- MODULE PassService -----------------------------
(***************************************************************************)
(* What whoever asks for a pass may rely on, with no word about messages,  *)
(* queues and limits: passes run one at a time, and an action asked for    *)
(* stays owed until a pass takes it over.  A pass may take over part of    *)
(* what is owed, and what it takes over may have been asked for twice.     *)
(***************************************************************************)
CONSTANT Actions     \* what a pass can be asked to do

VARIABLES
    owed,       \* asked for and not taken over
    busy,       \* a pass is running
    serving     \* what it took over

vars == <<owed, busy, serving>>

Init ==
    /\ owed = {}
    /\ busy = FALSE
    /\ serving = {}

Ask ==
    /\ owed \subseteq owed' /\ owed' \subseteq Actions
    /\ UNCHANGED <<busy, serving>>

StartPass ==
    /\ ~busy /\ busy'
    /\ serving' \subseteq owed
    /\ owed' \subseteq owed /\ owed \subseteq owed' \cup serving'

EndPass ==
    /\ busy /\ ~busy'
    /\ serving' = {}
    /\ UNCHANGED owed

Next == Ask \/ StartPass \/ EndPass

Spec == Init /\ [][Next]_vars
=============================================================================
