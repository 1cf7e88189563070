----------------------------- MODULE BlobJournal -----------------------------
(***************************************************************************)
(* The blob store's objects and the journal of those to delete             *)
(* (pending_blob_deletions), with the steps of the deleters: the drain job *)
(* and the deletion that follows a purge (storage_recordings.py). A        *)
(* deleter claims journaled keys under the write lock, deletes their       *)
(* objects outside it and removes their rows in a second transaction.      *)
(* Recordings and AnalysisOutputs own the keys.                            *)
(***************************************************************************)
EXTENDS Integers, FiniteSets

CONSTANTS
    Keys,       \* blob keys: each is minted once, for one attempt
    Deleters,   \* the drain job, and each purge that deletes what it journaled
    MaxFaults   \* bound of the model: failures, lost answers, cancellations, crashes

ASSUME JournalAssumption == MaxFaults \in Nat

VARIABLES
    journal,  \* each key's row: "none", "fresh" (attempts = 0) or "tried" (attempts > 0)
    object,   \* the keys whose object is in the blob store
    deleter,  \* per deleter: keys claimed and yet to delete, keys deleted
    faults    \* faults so far

journalVars == <<journal, object, deleter, faults>>

-----------------------------------------------------------------------------

Quiet == [claimed |-> {}, deleted |-> {}]

JournalInit ==
    /\ journal = [k \in Keys |-> "none"]
    /\ object = {}
    /\ deleter = [d \in Deleters |-> Quiet]
    /\ faults = 0

JournalTypeOK ==
    /\ journal \in [Keys -> {"none", "fresh", "tried"}]
    /\ object \subseteq Keys
    /\ deleter \in [Deleters -> [claimed : SUBSET Keys, deleted : SUBSET Keys]]
    /\ faults \in Nat

Fault == faults < MaxFaults /\ faults' = faults + 1

Journaled == {k \in Keys : journal[k] # "none"}

\* The journal with these keys' rows gone, or put in state row.
Rows(keys, row) == [k \in Keys |-> IF k \in keys THEN row ELSE journal[k]]

-----------------------------------------------------------------------------

\* _claim_deletions of the keys due. A key in flight is left alone, and one a recording
\* owns loses its row; the others have their attempt counted.
ClaimDeletions(d, due, inFlight, owned) ==
    LET rows == (due \cap Journaled) \ inFlight
    IN  /\ deleter[d] = Quiet
        /\ rows # {}
        /\ journal' = [k \in Keys |-> IF k \in rows \cap owned THEN "none"
                                      ELSE IF k \in rows THEN "tried" ELSE journal[k]]
        /\ deleter' = [deleter EXCEPT ![d].claimed = rows \ owned]
        /\ UNCHANGED <<object, faults>>

\* blobs.delete of one claimed key, which is idempotent.
DeleteObject(d, k) ==
    /\ k \in deleter[d].claimed
    /\ object' = object \ {k}
    /\ deleter' = [deleter EXCEPT ![d] = [claimed |-> @.claimed \ {k},
                                               deleted |-> @.deleted \cup {k}]]
    /\ UNCHANGED <<journal, faults>>

\* The blob store refuses: the row stays, for a later drain.
DeleteFails(d, k) ==
    /\ k \in deleter[d].claimed
    /\ Fault
    /\ deleter' = [deleter EXCEPT ![d].claimed = @ \ {k}]
    /\ UNCHANGED <<journal, object>>

\* Slip: a row journaled again since its claim goes too.
UnjournalAll(keys) == Rows(keys, "none")

\* The rows of these keys go, but for those journaled again since their claim.
Unjournal(keys) == Rows({k \in keys : journal[k] = "tried"}, "none")

\* finish_blob_deletions.
FinishDeletions(d) ==
    /\ deleter[d].claimed = {}
    /\ deleter[d].deleted # {}
    /\ journal' = Unjournal(deleter[d].deleted)
    /\ deleter' = [deleter EXCEPT ![d] = Quiet]
    /\ UNCHANGED <<object, faults>>

\* That transaction fails (the store stays busy): the rows stay.
FinishDeletionsFails(d) ==
    /\ deleter[d].claimed = {}
    /\ deleter[d].deleted # {}
    /\ Fault
    /\ deleter' = [deleter EXCEPT ![d] = Quiet]
    /\ UNCHANGED <<journal, object>>

DeleterStep(d) ==
    \/ \E k \in Keys : DeleteObject(d, k) \/ DeleteFails(d, k)
    \/ FinishDeletions(d)
    \/ FinishDeletionsFails(d)

\* Objects in the blob store that no row accounts for: nothing will ever delete them.
Leaked(owned) == object \ (owned \cup Journaled)

=============================================================================
