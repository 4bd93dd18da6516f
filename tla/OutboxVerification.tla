--------------------------- MODULE OutboxVerification --------------------------
(***************************************************************************)
(* Opening the SQLite outbox while it is in use.  SQLiteOutboxRepository   *)
(* verifies the retained evidence when it is constructed, which            *)
(* OutboxWorker does in every cycle and the command line does in every     *)
(* command.  _verify_retained_evidence runs two SELECTs outside of any     *)
(* transaction: outbox_events first, outbox_delivery_evidence second.      *)
(***************************************************************************)
EXTENDS Outbox

VARIABLES
    seen,       \* the ids and rows the first SELECT returned
    verdict     \* of the verification: "none" before and during it

readerVars == <<seen, verdict>>

ReaderInit ==
    /\ Init
    /\ seen = [ids |-> {}, rows |-> [e \in Events |-> FreshRow], read |-> FALSE]
    /\ verdict = "none"

ReadEvents ==
    /\ ~seen.read
    /\ seen' = [ids |-> stored, rows |-> row, read |-> TRUE]
    /\ UNCHANGED <<vars, verdict>>

ReadEvidence ==
    /\ seen.read /\ verdict = "none"
    /\ verdict' = IF ValidStorage(seen.ids, seen.rows, evidence)
                  THEN "accepted" ELSE "refused"
    /\ UNCHANGED <<vars, seen>>

ReaderNext ==
    \/ ReadEvents
    \/ ReadEvidence
    \/ Next /\ UNCHANGED readerVars

ReaderSpec == ReaderInit /\ [][ReaderNext]_<<vars, readerVars>>

\* Storage is refused only if its evidence cannot prove continuity, as
\* _verify_retained_evidence says; a store that is valid is not reported as
\* "invalid; restore a verified database".
RefusedOnlyIfDiscontinuous ==
    verdict = "refused" => ~ValidStorage(stored, row, evidence)
=============================================================================
