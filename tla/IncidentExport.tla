--------------------------- MODULE IncidentExport ----------------------------
(***************************************************************************)
(* How a closed incident reaches the store: the exporter close() submits   *)
(* it to (exporter.py: the memory queue of delivery mode "async", or the   *)
(* durable spool), the endpoint that ingests it (api.py, storage.py) and   *)
(* `earshot recover`, which ingests what a journal file replays to.        *)
(*                                                                         *)
(* Ingest is two steps, the catalog transaction and the drop of the live   *)
(* session, which CheckpointUpload holds; one request is served at a time. *)
(* permanent_rejection_policy is its default, "retain".                    *)
(***************************************************************************)
EXTENDS CheckpointJournal

VARIABLES
    copy,       \* the exporter's copy of the incident, and where it is
    worker,     \* whether the exporter waits for the answer to a request
    artifact,   \* what the store holds under the bundle id
    handler     \* whether an ingest is between its commit and its drop_session

exportVars == <<copy, worker, artifact, handler>>

Copies == {"none", "queued", "temporary", "spooled", "rejected", "corrupt"}

ExportInit ==
    /\ copy = "none" /\ worker = "idle"
    /\ artifact = NoIncident /\ handler = "idle"

-----------------------------------------------------------------------------
(* submit, from Recorder.close. The mode is fixed for the process; nothing  *)
(* reads it before. An incident is accepted when it is "queued" in memory,  *)
(* or "spooled".                                                            *)

Answered(value) == recorder' = [recorder EXCEPT !.stage = "submitted", !.accepted = value]

\* The exporter is closed, its queue or spool is full or the policy forbids the export
\* ("no"); or anything else is raised and the recorder has no answer.
SubmitRefused ==
    /\ process = "up" /\ recorder.stage = "built" /\ Fault
    /\ \E value \in {"no", "raised"} : Answered(value)
    /\ UNCHANGED <<process, journal, exportVars>>

SubmitAsync ==
    /\ process = "up" /\ recorder.stage = "built"
    /\ copy' = "queued" /\ Answered("queued")
    /\ UNCHANGED <<process, journal, faults, worker, artifact, handler>>

\* DurableExporter.submit: the record is written and synced under a temporary name ...
SpoolTemporary ==
    /\ process = "up" /\ recorder.stage = "built"
    /\ copy' = "temporary"
    /\ recorder' = [recorder EXCEPT !.stage = "spooling"]
    /\ UNCHANGED <<process, journal, faults, worker, artifact, handler>>

\* ... and renamed; a directory fsync that fails then is answered False with the record
\* in the spool.
SpoolCommit ==
    /\ process = "up" /\ recorder.stage = "spooling"
    /\ \/ Fine /\ copy' = "spooled" /\ Answered("spooled")
       \/ Fault /\ copy' \in {"none", "spooled"} /\ Answered("no")
    /\ UNCHANGED <<process, journal, worker, artifact, handler>>

-----------------------------------------------------------------------------
(* The worker's requests                                                   *)

\* Slip: the worker sends only what this process spooled.
SendingOwn == process = "up" /\ worker = "idle" /\ copy \in {"queued", "spooled"}
              /\ recorder.stage # "gone"

Sending == process = "up" /\ worker = "idle" /\ copy \in {"queued", "spooled"}

\* The incident close() built.
Closed == Incident("final", recorder.admitted, recorder.counted)

\* A copy that failed for good: the spool keeps the record aside, the queue drops it.
Refused == copy' = IF copy = "spooled" THEN "rejected" ELSE "none"

\* The ingest commits, or finds the same artifact there: another one is a conflict.
SendIngested ==
    /\ Sending /\ handler = "idle"
    /\ IF artifact \in {NoIncident, Closed}
       THEN /\ artifact' = Closed
            /\ handler' = "committed" /\ worker' = "waiting"
            /\ UNCHANGED copy
       ELSE Refused /\ UNCHANGED <<artifact, handler, worker>>
    /\ UNCHANGED journalVars

\* Refused for another reason; or not reached, which the queue gives up at its last attempt.
SendFails ==
    /\ Sending /\ Fault /\ Refused
    /\ UNCHANGED <<process, recorder, journal, worker, artifact, handler>>

\* The answer arrives: _delete, or the next item of the queue.
SendSettled ==
    /\ process = "up" /\ worker = "waiting" /\ handler = "idle"
    /\ worker' = "idle" /\ copy' = "none"
    /\ UNCHANGED <<journalVars, artifact, handler>>

\* The answer is lost, or late: the item is sent again.
SendUnanswered ==
    /\ process = "up" /\ worker = "waiting" /\ Fault
    /\ worker' = "idle"
    /\ UNCHANGED <<process, recorder, journal, copy, artifact, handler>>

-----------------------------------------------------------------------------
(* Recovery by an operator, and the exporter across a crash                *)

\* `earshot recover --ingest`, which does not ask whether the writer has left the journal:
\* a refused journal or a conflict changes nothing.
Recover ==
    /\ journal.exists /\ artifact = NoIncident
    /\ artifact' = Assembled(OnDisk, journal.torn)
    /\ UNCHANGED <<journalVars, copy, worker, handler>>

CopyAfterCrash == IF copy = "queued" THEN "none" ELSE copy

\* The next process with the same spool: _recover_temporary_files quarantines.
Restart ==
    /\ process = "down"
    /\ process' = "up"
    /\ copy' = IF copy = "temporary" THEN "corrupt" ELSE copy
    /\ UNCHANGED <<recorder, journal, faults, worker, artifact, handler>>

=============================================================================
