---------------------------- MODULE DurableConfig ----------------------------
(***************************************************************************)
(* What atomic_write_with_backup and load_or_default promise together: the *)
(* configuration a start of the program loads is always one that was saved *)
(* whole, it changes only when a write succeeds, and losing the main file  *)
(* costs at most the last write.                                           *)
(***************************************************************************)
CONSTANTS
  Configs,   \* configurations that read_config accepts
  Default,   \* AppConfig::default()
  Nothing    \* no write under way

VARIABLES
  saved,     \* what a start of the program would load
  previous,  \* what it would load if the main file were lost
  writing,   \* the configuration being written, or Nothing
  answer     \* whether the last write succeeded

vars == <<saved, previous, writing, answer>>

Init ==
  /\ saved = Default
  /\ previous = Default
  /\ writing = Nothing
  /\ answer = "none"

Begin ==
  /\ writing = Nothing
  /\ writing' \in Configs
  /\ answer' = "none"
  /\ UNCHANGED <<saved, previous>>

Commit ==
  /\ writing # Nothing
  /\ saved' = writing
  /\ previous' = saved
  /\ writing' = Nothing
  /\ answer' = "ok"

Fail ==
  /\ writing # Nothing
  /\ writing' = Nothing
  /\ answer' = "err"
  /\ UNCHANGED <<saved, previous>>

\* A write gives up the older of the two generations for a copy of the newer.
Rotate ==
  /\ writing # Nothing
  /\ previous' = saved
  /\ UNCHANGED <<saved, writing, answer>>

\* The program ends, whatever it was doing.
Crash ==
  /\ writing' = Nothing
  /\ answer' = "none"
  /\ UNCHANGED <<saved, previous>>

\* The main file becomes unreadable.
LoseFile ==
  /\ writing = Nothing
  /\ saved' = previous
  /\ UNCHANGED <<previous, writing, answer>>

Next == Begin \/ Commit \/ Fail \/ Rotate \/ Crash \/ LoseFile

Spec == Init /\ [][Next]_vars

=============================================================================
