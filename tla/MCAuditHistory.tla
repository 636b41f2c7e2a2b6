---------------------------- MODULE MCAuditHistory ----------------------------
(***************************************************************************)
(* An instance of AuditHistory for TLC.                                    *)
(***************************************************************************)
EXTENDS AuditHistory

Stamps == [id : 0 .. MaxEvents, at : Times \cup {Malformed}]

Logs == UNION {[1 .. n -> Stamps] : n \in 0 .. MAX_AUDIT_EVENTS + 1}

Histories == [events : Logs, days : RetentionDays]

Fresh == [events |-> <<>>, days |-> 1]

Imported(t) == [id |-> 0, at |-> t]

\* One event more than is kept, one of them with a timestamp of an older program.
TheFile == [events |-> <<Imported(0), Imported(1), Imported(Malformed)>>, days |-> 1]

Files == {TheFile}
=============================================================================
