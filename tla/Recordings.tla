----------------------------- MODULE Recordings ------------------------------
(***************************************************************************)
(* Recordings and their upload attempts (storage_recordings.py), with the  *)
(* request handler that runs an attempt (api.py). An attempt's key is      *)
(* journaled before any byte is written; finish_upload takes it out of the *)
(* journal in the transaction that makes the recording its owner; an       *)
(* attempt that did not store discards its own object.                     *)
(*                                                                         *)
(* The handler awaits each blocking call in a thread. A thread cannot be   *)
(* cancelled: when the request is, the call runs on while the handler goes *)
(* to its cleanup. So the calls running for a key are kept apart from what *)
(* its handler awaits.                                                     *)
(*                                                                         *)
(* Deadlines and retry delays are left out: the sweep may find any pending *)
(* recording late, a drain any row due.                                    *)
(***************************************************************************)
EXTENDS BlobJournal

CONSTANTS
    Recs,        \* recordings of one call, named by their recording_id
    Drain,       \* the deleter of the maintenance job
    Purger,      \* the deleter of the purge
    MaxCreates   \* bound of the model: how often recordings are created

ASSUME RecordingsAssumption ==
    /\ {Drain, Purger} \subseteq Deleters
    /\ MaxCreates \in Nat

VARIABLES
    rec,       \* recordings.state, "none" without a row
    blobKey,   \* the key a stored recording names, as a set of at most one
    request,   \* what each key's handler awaits ("unused" before it, "ended" after)
    target,    \* the recording each key's attempt uploads, as a set of at most one
    running,   \* the blocking calls running for each key
    inFlight,  \* _uploads_in_flight
    toDelete,  \* keys the last purge journaled and is about to delete
    cancelled, \* keys whose request was cancelled while it awaited a commit or a finish
    creates

rowVars == <<rec, blobKey>>
attemptVars == <<request, target, running, inFlight>>
sideVars == <<cancelled, creates>>
vars == <<journalVars, rowVars, attemptVars, toDelete, sideVars>>

-----------------------------------------------------------------------------

Init ==
    /\ JournalInit
    /\ rec = [r \in Recs |-> "none"]
    /\ blobKey = [r \in Recs |-> {}]
    /\ request = [k \in Keys |-> "unused"]
    /\ target = [k \in Keys |-> {}]
    /\ running = [k \in Keys |-> {}]
    /\ inFlight = {}
    /\ toDelete = {}
    /\ cancelled = {}
    /\ creates = 0

Owned == {k \in Keys : \E r \in Recs : k \in blobKey[r]}

\* A call ends: the handler that awaited it goes on to next, and starts calls.
Return(k, call, awaited, next, calls) ==
    /\ call \in running[k]
    /\ IF request[k] = awaited
       THEN /\ request' = [request EXCEPT ![k] = next]
            /\ running' = [running EXCEPT ![k] = (@ \ {call}) \cup calls]
       ELSE /\ running' = [running EXCEPT ![k] = @ \ {call}]
            /\ UNCHANGED request

-----------------------------------------------------------------------------
(* Rows                                                                    *)

\* create: a new row, or one for a recording_id whose call was purged.
Create(r) ==
    /\ rec[r] = "none"
    /\ creates < MaxCreates
    /\ creates' = creates + 1
    /\ rec' = [rec EXCEPT ![r] = "pending"]
    /\ UNCHANGED <<journalVars, blobKey, attemptVars, toDelete, cancelled>>

\* fail_stale_uploads, once r's deadline has passed.
FailStale(r) ==
    /\ rec[r] = "pending"
    /\ \A k \in inFlight : r \notin target[k]
    /\ rec' = [rec EXCEPT ![r] = "failed"]
    /\ UNCHANGED <<journalVars, blobKey, attemptVars, toDelete, sideVars>>

\* Slip: the purge does not journal what its rows own.
JournalForgotten == journal

\* What delete_calls makes of the journal: the keys its rows own are due at once.
JournalOwned == Rows(Owned \ Journaled, "fresh")

\* delete_calls: the rows go and what they own is journaled, due at once.
Purge ==
    /\ \E r \in Recs : rec[r] # "none"
    /\ toDelete = {}
    /\ rec' = [r \in Recs |-> "none"]
    /\ blobKey' = [r \in Recs |-> {}]
    /\ journal' = JournalOwned
    /\ toDelete' = Owned
    /\ UNCHANGED <<object, deleter, faults, attemptVars, sideVars>>

-----------------------------------------------------------------------------
(* An upload attempt                                                       *)

\* begin_upload: in flight, and journaled, before any byte.
BeginUpload(k, r) ==
    /\ request[k] = "unused"
    /\ rec[r] = "pending"
    /\ request' = [request EXCEPT ![k] = "body"]
    /\ target' = [target EXCEPT ![k] = {r}]
    /\ inFlight' = inFlight \cup {k}
    /\ journal' = Rows({k}, "fresh")
    /\ UNCHANGED <<object, deleter, faults, rowVars, running, toDelete, sideVars>>

\* The body has arrived: its commit runs.
BodyArrives(k) ==
    /\ request[k] = "body"
    /\ request' = [request EXCEPT ![k] = "commit"]
    /\ running' = [running EXCEPT ![k] = @ \cup {"commit"}]
    /\ UNCHANGED <<journalVars, rowVars, target, inFlight, toDelete, sideVars>>

\* The body is refused, breaks off or times out: the writer is aborted.
BodyFails(k) ==
    /\ request[k] = "body"
    /\ request' = [request EXCEPT ![k] = "discard"]
    /\ running' = [running EXCEPT ![k] = @ \cup {"check"}]
    /\ UNCHANGED <<journalVars, rowVars, target, inFlight, toDelete, sideVars>>

\* writer.commit publishes the object, and finish_upload is called.
Commit(k) ==
    /\ Return(k, "commit", "commit", "finish", {"finish"})
    /\ object' = object \cup {k}
    /\ UNCHANGED <<journal, deleter, faults, rowVars, target, inFlight, toDelete, sideVars>>

\* It raises, perhaps once the object is there.
CommitFails(k) ==
    /\ Return(k, "commit", "commit", "discard", {"check"})
    /\ Fault
    /\ object' \in {object, object \cup {k}}
    /\ UNCHANGED <<journal, deleter, rowVars, target, inFlight, toDelete, sideVars>>

\* Slip: the update does not ask that the recording is still pending.
StoresAnyway(k) == {r \in target[k] : rec[r] # "none"}

\* The row that finish_upload's conditional update stores, if any.
Stores(k) == {r \in target[k] : rec[r] = "pending"}

\* The finish transaction.
StoreRow(k) ==
    /\ rec' = [r \in Recs |-> IF r \in Stores(k) THEN "stored" ELSE rec[r]]
    /\ blobKey' = [r \in Recs |-> IF r \in Stores(k) THEN {k} ELSE blobKey[r]]
    /\ journal' = IF Stores(k) # {} THEN Rows({k}, "none") ELSE journal

\* finish_upload stores the recording, or the attempt lost.
FinishUpload(k) ==
    /\ IF Stores(k) # {} THEN Return(k, "finish", "finish", "over", {})
                         ELSE Return(k, "finish", "finish", "discard", {"check"})
    /\ StoreRow(k)
    /\ UNCHANGED <<object, deleter, faults, target, inFlight, toDelete, sideVars>>

\* It raises: before its commit, or after it.
FinishFails(k) ==
    /\ Return(k, "finish", "finish", "discard", {"check"})
    /\ Fault
    /\ StoreRow(k) \/ UNCHANGED <<rowVars, journal>>
    /\ UNCHANGED <<object, deleter, target, inFlight, toDelete, sideVars>>

\* discard_upload's check under the write lock: an owned object stays, and loses its row.
CheckOwner(k) ==
    /\ IF k \in Owned THEN /\ Return(k, "check", "discard", "over", {})
                           /\ journal' = Rows({k}, "none")
                      ELSE /\ "check" \in running[k]
                           /\ running' = [running EXCEPT ![k] = (@ \ {"check"}) \cup {"delete"}]
                           /\ UNCHANGED <<request, journal>>
    /\ UNCHANGED <<object, deleter, faults, rowVars, target, inFlight, toDelete, sideVars>>

\* Its blobs.delete, outside the lock.
DiscardObject(k) ==
    /\ "delete" \in running[k]
    /\ running' = [running EXCEPT ![k] = (@ \ {"delete"}) \cup {"unjournal"}]
    /\ object' = object \ {k}
    /\ UNCHANGED <<journal, deleter, faults, rowVars, request, target, inFlight, toDelete,
                   sideVars>>

\* Its second transaction.
UnjournalAttempt(k) ==
    /\ Return(k, "unjournal", "discard", "over", {})
    /\ journal' = Rows({k} \ Owned, "none")
    /\ UNCHANGED <<object, deleter, faults, rowVars, target, inFlight, toDelete, sideVars>>

\* Any step of it fails: best effort, the key stays journaled.
DiscardFails(k) ==
    /\ \E call \in {"check", "delete", "unjournal"} : Return(k, call, "discard", "over", {})
    /\ Fault
    /\ UNCHANGED <<journal, object, deleter, rowVars, target, inFlight, toDelete, sideVars>>

\* Slip: an attempt that lost stays in flight.
EndsStored(k) == request[k] = "over" /\ k \in Owned

\* The handler has nothing left but its last finally.
Ends(k) == request[k] = "over"

\* end_upload.
EndUpload(k) ==
    /\ Ends(k)
    /\ request' = [request EXCEPT ![k] = "ended"]
    /\ inFlight' = inFlight \ {k}
    /\ UNCHANGED <<journalVars, rowVars, target, running, toDelete, sideVars>>

\* The request is cancelled while it awaits a commit or a finish, which runs on; the
\* handler goes to its cleanup.
CancelCall(k) ==
    /\ request[k] \in {"commit", "finish"}
    /\ Fault
    /\ request' = [request EXCEPT ![k] = "discard"]
    /\ running' = [running EXCEPT ![k] = @ \cup {"check"}]
    /\ cancelled' = cancelled \cup {k}
    /\ UNCHANGED <<journal, object, deleter, rowVars, target, inFlight, toDelete, creates>>

\* It is cancelled during its cleanup, or as its attempt begins (end_abandoned_upload).
CancelCleanup(k) ==
    /\ request[k] \in {"body", "discard"}
    /\ Fault
    /\ request' = [request EXCEPT ![k] = "over"]
    /\ UNCHANGED <<journal, object, deleter, rowVars, target, running, inFlight, toDelete, sideVars>>

-----------------------------------------------------------------------------
(* Deletions and crashes                                                   *)

\* Slip: the drain does not ask which uploads are in flight.
DrainsInFlight == {}

\* What no deletion may touch: the uploads this process has in flight.
Spared == inFlight

\* drain_blob_deletions of the journaled keys that are due.
DrainClaims(due) ==
    /\ ClaimDeletions(Drain, due, Spared, Owned)
    /\ UNCHANGED <<rowVars, attemptVars, toDelete, sideVars>>

DrainAll == DrainClaims(Journaled)

\* delete_blobs, right after the purge's commit.
PurgeClaims ==
    /\ toDelete # {}
    /\ toDelete' = {}
    /\ \/ ClaimDeletions(Purger, toDelete, Spared, Owned)
       \/ /\ (toDelete \cap Journaled) \ Spared = {}
          /\ UNCHANGED journalVars
    /\ UNCHANGED <<rowVars, attemptVars, sideVars>>

Deletes(d) == DeleterStep(d) /\ UNCHANGED <<rowVars, attemptVars, toDelete, sideVars>>

\* The process dies and another starts: the store and the objects are what is left. A
\* cut-off write leaves at most a spool file or a multipart upload, which sweep removes.
Crash ==
    /\ Fault
    /\ request' = [k \in Keys |-> IF request[k] = "unused" THEN "unused" ELSE "ended"]
    /\ running' = [k \in Keys |-> {}]
    /\ inFlight' = {}
    /\ deleter' = [d \in Deleters |-> Quiet]
    /\ toDelete' = {}
    /\ UNCHANGED <<journal, object, rowVars, target, sideVars>>

-----------------------------------------------------------------------------

RowStep == Purge \/ \E r \in Recs : Create(r) \/ FailStale(r)

AttemptStep(k) ==
    \/ \E r \in Recs : BeginUpload(k, r)
    \/ BodyArrives(k)
    \/ BodyFails(k)
    \/ Commit(k)
    \/ CommitFails(k)
    \/ FinishUpload(k)
    \/ FinishFails(k)
    \/ CheckOwner(k)
    \/ DiscardObject(k)
    \/ UnjournalAttempt(k)
    \/ DiscardFails(k)
    \/ EndUpload(k)
    \/ CancelCall(k)
    \/ CancelCleanup(k)

DeletionStep ==
    \/ \E due \in SUBSET Journaled : DrainClaims(due)
    \/ PurgeClaims
    \/ \E d \in Deleters : Deletes(d)

Next ==
    \/ RowStep
    \/ \E k \in Keys : AttemptStep(k)
    \/ DeletionStep
    \/ Crash

Spec == Init /\ [][Next]_vars

\* The drain runs every second and finds every row due in the end; a call that runs
\* returns, and the API ends every body (its idle and total timeouts).
Fairness ==
    /\ WF_vars(DrainAll)
    /\ WF_vars(PurgeClaims)
    /\ \A d \in Deleters : WF_vars(Deletes(d))
    /\ \A k \in Keys :
         /\ WF_vars(BodyArrives(k) \/ BodyFails(k))
         /\ WF_vars(Commit(k) \/ CommitFails(k))
         /\ WF_vars(FinishUpload(k) \/ FinishFails(k))
         /\ WF_vars(CheckOwner(k) \/ DiscardObject(k) \/ UnjournalAttempt(k))
         /\ WF_vars(EndUpload(k))

FairSpec == Spec /\ Fairness

-----------------------------------------------------------------------------

Calls == {"commit", "finish", "check", "delete", "unjournal"}

TypeOK ==
    /\ JournalTypeOK
    /\ rec \in [Recs -> {"none", "pending", "stored", "failed"}]
    /\ blobKey \in [Recs -> SUBSET Keys]
    /\ request \in [Keys -> {"unused", "body", "commit", "finish", "discard", "over", "ended"}]
    /\ target \in [Keys -> SUBSET Recs]
    /\ running \in [Keys -> SUBSET Calls]
    /\ inFlight \subseteq Keys
    /\ toDelete \subseteq Keys
    /\ cancelled \subseteq Keys
    /\ creates \in Nat

\* "A key stays journaled unless a stored recording owns it": no object is ever left that
\* neither a recording names nor a drain will find, through lost attempts, ambiguous
\* commits, purges and crashes. (Unless its own request was cancelled during the commit.)
NothingLeaks == Leaked(Owned) \subseteq cancelled

\* The object of every stored recording is there: no discard, drain or purge deletes it.
\* (Unless its own request was cancelled during the finish.)
StoredHasObject ==
    \A r \in Recs : rec[r] = "stored" => blobKey[r] # {} /\ blobKey[r] \subseteq object \cup cancelled

\* OneOutcome. Of the sweep and the finishes that race for a recording, one a cancelled
\* request left running included, exactly one wins: what is stored or failed stays so, with
\* its key, until a purge (finish_upload and fail_stale_uploads, "AND state = 'pending'").
OneOutcome ==
    [][\A r \in Recs : rec[r] \in {"stored", "failed"} =>
         rec'[r] = "none" \/ (rec'[r] = rec[r] /\ blobKey'[r] = blobKey[r])]_rowVars

\* An object no recording names (a lost or cut-off attempt's, a purged recording's) is
\* deleted in the end.
UnownedDeleted ==
    \A k \in Keys : (k \in object /\ k \notin Owned) ~>
        (k \notin object \/ k \in Owned \/ k \in cancelled)

\* "An attempt left in flight would never be swept and would hold its call for good":
\* every attempt ends, whatever fails or is cancelled.
AttemptEnds == \A k \in Keys : (k \in inFlight) ~> (k \notin inFlight)

-----------------------------------------------------------------------------
(* Why nothing leaks and nothing owned is deleted: the inductive invariant *)

Busy == {"body", "commit", "finish", "discard", "over"}

\* A stored recording names one key, of an attempt that targeted it; others name none.
RowsOwn ==
    /\ \A r \in Recs : rec[r] = "stored" <=> blobKey[r] # {}
    /\ \A r \in Recs : \A k \in blobKey[r] : r \in target[k] /\ request[k] # "unused"

\* A key that no attempt has taken yet is nowhere.
UnusedNowhere ==
    \A k \in Keys : request[k] = "unused" =>
        k \notin object /\ journal[k] = "none" /\ running[k] = {}

\* An attempt is in flight exactly while its handler runs; deleters have claimed only keys
\* whose attempt is over.
InFlightBusy ==
    /\ inFlight = {k \in Keys : request[k] \in Busy}
    /\ \A d \in Deleters : deleter[d].claimed \cup deleter[d].deleted \subseteq
                               {k \in Keys : request[k] = "ended"}

\* But for cancelled requests, a commit or a finish runs only while its handler awaits it.
CallsAwaited ==
    \A k \in Keys \ cancelled :
        /\ "commit" \in running[k] \/ request[k] = "commit" =>
               request[k] = "commit" /\ running[k] = {"commit"}
        /\ "finish" \in running[k] \/ request[k] = "finish" =>
               request[k] = "finish" /\ running[k] = {"finish"}
        /\ request[k] = "body" => running[k] = {}

\* Until it ends its attempt's key is journaled; a finish has its object.
JournaledUntilStored ==
    \A k \in Keys \ cancelled :
        /\ request[k] \in {"body", "commit", "finish"} => journal[k] # "none" /\ k \notin Owned
        /\ request[k] = "finish" => k \in object

\* What is about to be deleted is not owned, and what was deleted is not there.
DeletesUnowned ==
    \A k \in Keys \ cancelled :
        /\ "delete" \in running[k] => k \notin Owned
        /\ "unjournal" \in running[k] => k \notin object
        /\ \A d \in Deleters : /\ k \in deleter[d].claimed => k \notin Owned
                               /\ k \in deleter[d].deleted => k \notin object

RecordingsInv ==
    /\ TypeOK
    /\ RowsOwn
    /\ UnusedNowhere
    /\ InFlightBusy
    /\ CallsAwaited
    /\ JournaledUntilStored
    /\ DeletesUnowned
    /\ NothingLeaks
    /\ StoredHasObject

-----------------------------------------------------------------------------

\* storage_recordings.py:25: discard_upload "never deletes an object a stored recording
\* names". A finish whose request was cancelled may store the recording after the check.
OwnedObjectsStay == Owned \subseteq object

=============================================================================
