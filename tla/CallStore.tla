------------------------------ MODULE CallStore ------------------------------
(***************************************************************************)
(* One Call of the catalog: its row in `calls`, its stored spans, its      *)
(* recordings and its `call_revisions`, with the operations of             *)
(* storage_calls.py and storage_recordings.py that write evidence to it.   *)
(* CallCloser adds the closer that turns this evidence into Revisions.     *)
(*                                                                         *)
(* Every operation of the code runs in one write transaction under the     *)
(* store's write lock (IncidentStore._mutation), so each is one action.    *)
(*                                                                         *)
(* Time is relative: a due time or a lease is the number of ticks left, an *)
(* age the number of ticks elapsed, counted no further than the last value *)
(* the code tells apart.                                                   *)
(***************************************************************************)
EXTENDS Integers, FiniteSets

CONSTANTS
    Spans,          \* the spans clients may send for the call
    EndMarkers,     \* those that are an end marker (call_capture.is_end_marker)
    TailSpans,      \* those that are tail spans (call_capture.TAIL_SPANS)
    Recordings,     \* the recordings clients may create for it
    MaxRecordings,  \* MAX_REVISION_RECORDINGS
    RevisionCap,    \* REVISION_CAP
    EndGrace, LongQuiet, LateDebounce, UploadHold,  \* CallTimings, in ticks
    MaxUploads      \* bound of the model: upload attempts a recording ever gets

ASSUME StoreAssumption ==
    /\ EndMarkers \subseteq Spans
    /\ TailSpans \subseteq Spans
    /\ Spans \cap Recordings = {}
    /\ RevisionCap \in Nat \ {0}
    /\ MaxRecordings \in Nat
    /\ MaxUploads \in Nat
    /\ EndGrace \in Nat
    /\ LongQuiet \in Nat \ {0}
    /\ LateDebounce \in Nat
    /\ UploadHold \in Nat

VARIABLES
    state,       \* "absent", "open", "closed" (calls.state) or "purged" (no row, tombstoned)
    dirty,       \* calls.dirty
    closeDue,    \* ticks until close_due_unix_nano; NoDue while NULL
    quiet,       \* ticks since last_evidence_unix_nano
    ended,       \* end_signal_unix_nano IS NOT NULL
    latest,      \* latest_revision, 0 while NULL
    pending,     \* pending_revision, 0 while NULL
    leaseLeft,   \* ticks until lease_until_unix_nano; Free once it passed, or NULL
    holder,      \* the closer whose claim wrote lease_token (see CallCloser)
    retryDelay,  \* 2 ^ materialize_attempts, no more than LongQuiet
    pastCap,     \* evidence_after_latest_revision
    capCounted,  \* revision_cap_counted
    capReached,  \* what the call added to the revision_cap_reached counter
    spans,       \* its stored spans
    rec,         \* recordings.state of each recording, "none" without a row
    recAge,      \* ticks since each pending recording's created_unix_nano, else 0
    uploads,     \* upload attempts each recording has had
    inFlight,    \* attempts of each recording in flight (_uploads_in_flight)
    detached,    \* recordings of an ended attempt whose finish_upload thread still runs
    firstRev,    \* first_revision of each span and recording, 0 while NULL
    revisions,   \* the rows of call_revisions, with the evidence each was built from
    server       \* "down", "starting" (leases not yet released) or "up"

capVars == <<pastCap, capCounted, capReached>>
closerVars == <<latest, pending, leaseLeft, holder, retryDelay, firstRev, revisions>>
uploadVars == <<uploads, inFlight, detached>>
evidenceVars == <<state, dirty, closeDue, quiet, ended, spans, rec, recAge, uploadVars>>
storeVars == <<evidenceVars, capVars, closerVars, server>>

-----------------------------------------------------------------------------

NoDue == -1
Free == -1
Min2(a, b) == IF a < b THEN a ELSE b
Max2(a, b) == IF a > b THEN a ELSE b

\* Ages are told apart up to one tick past the longest timing.
AgeCap == Max2(Max2(UploadHold, LongQuiet), Max2(LateDebounce, EndGrace)) + 1

Exists == state \in {"open", "closed"}
StoredRecordings == {r \in Recordings : rec[r] = "stored"}
Evidence == spans \cup StoredRecordings

FinalStored == \E v \in revisions : v.final

\* UNCAPPED_SQL on a call with this latest revision, end signal and these rows.
UncappedWith(lat, end, final) == lat < RevisionCap \/ (end /\ ~final)
Uncapped == UncappedWith(latest, ended, FinalStored)

\* CallStore._close_due, in ticks from now.
CloseDueAfter(end) ==
    LET due == IF end THEN EndGrace ELSE LongQuiet
    IN  IF state = "closed" THEN Max2(LateDebounce, due) ELSE due

\* Slip: the flag does not ask whether the call is dirty.
NotePastCapClean(isDirty, lat, end, final, flagged) ==
    LET flag == ~flagged /\ ~UncappedWith(lat, end, final)
    IN  /\ pastCap' = (flagged \/ flag)
        /\ capCounted' = (capCounted \/ flag)
        /\ capReached' = IF flag /\ ~capCounted THEN capReached + 1 ELSE capReached

\* note_evidence_past_cap: a dirty call at the cap is flagged, and counted once.
NotePastCap(isDirty, lat, end, final, flagged) ==
    LET flag == isDirty /\ ~flagged /\ ~UncappedWith(lat, end, final)
    IN  /\ pastCap' = (flagged \/ flag)
        /\ capCounted' = (capCounted \/ flag)
        /\ capReached' = IF flag /\ ~capCounted THEN capReached + 1 ELSE capReached

\* _add_evidence for a call that received evidence now; giveEnd: it is the call's
\* first end signal.
AddEvidence(giveEnd) ==
    LET end == ended \/ giveEnd
    IN  /\ dirty' = TRUE
        /\ quiet' = 0
        /\ ended' = end
        /\ closeDue' = CloseDueAfter(end)
        /\ IF latest >= RevisionCap
           THEN NotePastCap(TRUE, latest, end, FinalStored, pastCap)
           ELSE UNCHANGED capVars

-----------------------------------------------------------------------------
(* record_spans                                                            *)

\* Slip: the parked spans that join the call are not counted as evidence.
IsEvidenceUnjoined(batch, joined, giveEnd) == batch \ TailSpans # {} \/ giveEnd

\* A batch of tail spans alone is no evidence, unless parked spans joined with it or it
\* gives the call its first end signal.
IsEvidence(batch, joined, giveEnd) == batch \ TailSpans # {} \/ joined # {} \/ giveEnd

\* One request stores the spans of batch, new to the call; joined are spans that were
\* stored parked and whose trace the request names (batch is empty when the span that
\* names it conflicts with a stored one, which is kept).
RecordSpans(batch, joined) ==
    LET giveEnd == ~ended /\ (batch \cup joined) \cap EndMarkers # {}
    IN  /\ server # "down"
        /\ state # "purged"
        /\ batch \cup joined # {}
        /\ (batch \cup joined) \cap spans = {}
        /\ batch \cap joined = {}
        /\ state' = IF state = "absent" THEN "open" ELSE state
        /\ spans' = spans \cup batch \cup joined
        /\ IF IsEvidence(batch, joined, giveEnd)
           THEN AddEvidence(giveEnd)
           ELSE /\ quiet' = IF state = "absent" THEN 0 ELSE quiet
                /\ UNCHANGED <<dirty, ended, closeDue, capVars>>
        /\ UNCHANGED <<rec, recAge, uploadVars, closerVars, server>>

-----------------------------------------------------------------------------
(* Recordings                                                              *)

\* RecordingStore.create: a pending row, and the call when its key names none yet.
CreateRecording(r) ==
    /\ server # "down"
    /\ state # "purged"
    /\ rec[r] = "none"
    /\ Cardinality({q \in Recordings : rec[q] # "none"}) < MaxRecordings
    /\ rec' = [rec EXCEPT ![r] = "pending"]
    /\ recAge' = [recAge EXCEPT ![r] = 0]
    /\ IF state = "absent"
       THEN /\ state' = "open"
            /\ dirty' = TRUE
            /\ quiet' = 0
            /\ closeDue' = LongQuiet
       ELSE UNCHANGED <<state, dirty, quiet, closeDue>>
    /\ UNCHANGED <<ended, spans, uploadVars, capVars, closerVars, server>>

\* begin_upload: a pending recording gets one more attempt in flight.
BeginUpload(r) ==
    /\ server # "down"
    /\ rec[r] = "pending"
    /\ uploads[r] < MaxUploads
    /\ uploads' = [uploads EXCEPT ![r] = @ + 1]
    /\ inFlight' = [inFlight EXCEPT ![r] = @ + 1]
    /\ UNCHANGED <<state, dirty, closeDue, quiet, ended, spans, rec, recAge, detached,
                   capVars, closerVars, server>>

\* finish_upload: conditional on the row still being pending; the call gains evidence
\* in the same transaction.
FinishUpload(r) ==
    /\ server # "down"
    /\ inFlight[r] > 0 \/ r \in detached
    /\ rec[r] = "pending"
    /\ rec' = [rec EXCEPT ![r] = "stored"]
    /\ recAge' = [recAge EXCEPT ![r] = 0]
    /\ detached' = detached \ {r}
    /\ AddEvidence(FALSE)
    /\ UNCHANGED <<state, spans, uploads, inFlight, closerVars, server>>

\* end_upload: the attempt stored, lost, broke off or ran into its deadline; or its
\* request was cancelled while the finish runs on in its thread (still).
EndUpload(r, still) ==
    /\ inFlight[r] > 0
    /\ still => rec[r] = "pending"
    /\ inFlight' = [inFlight EXCEPT ![r] = @ - 1]
    /\ detached' = IF still THEN detached \cup {r} ELSE detached
    /\ UNCHANGED <<state, dirty, closeDue, quiet, ended, spans, rec, recAge, uploads,
                   capVars, closerVars, server>>

\* Ticks since the latest of the recording's creation, the call's last evidence and its
\* end signal (which comes with evidence): pending_deadline without the hold.
HoldAge(r) == Min2(recAge[r], quiet)

Held == \E r \in Recordings : rec[r] = "pending" /\ HoldAge(r) < UploadHold

\* Slip: the sweep looks only at calls that are still open.
StaleOpenUploads ==
    {r \in Recordings : /\ rec[r] = "pending" /\ state = "open"
                        /\ HoldAge(r) > UploadHold /\ inFlight[r] = 0}

\* fail_stale_uploads: every pending recording past its deadline, none still streaming.
StaleUploads ==
    {r \in Recordings : rec[r] = "pending" /\ HoldAge(r) > UploadHold /\ inFlight[r] = 0}

FailStaleUploads ==
    /\ server # "down"
    /\ StaleUploads # {}
    /\ rec' = [r \in Recordings |-> IF r \in StaleUploads THEN "failed" ELSE rec[r]]
    /\ recAge' = [r \in Recordings |-> IF r \in StaleUploads THEN 0 ELSE recAge[r]]
    /\ UNCHANGED <<state, dirty, closeDue, quiet, ended, spans, uploadVars,
                   capVars, closerVars, server>>

-----------------------------------------------------------------------------
(* Purge and time                                                          *)

\* CallPurger._purge_locked: every row of the call and of its evidence goes, and the key's
\* next call is another one. An upload in flight goes on, with no row to store.
PurgeCall ==
    /\ server # "down"
    /\ Exists
    /\ state' = "purged"
    /\ dirty' = FALSE
    /\ closeDue' = NoDue
    /\ quiet' = 0
    /\ ended' = FALSE
    /\ latest' = 0
    /\ pending' = 0
    /\ leaseLeft' = Free
    /\ retryDelay' = 1
    /\ pastCap' = FALSE
    /\ capCounted' = FALSE
    /\ spans' = {}
    /\ rec' = [r \in Recordings |-> "none"]
    /\ recAge' = [r \in Recordings |-> 0]
    /\ firstRev' = [e \in Spans \cup Recordings |-> 0]
    /\ revisions' = {}
    /\ UNCHANGED <<holder, capReached, uploadVars, server>>

Tick ==
    /\ closeDue' = IF closeDue > 0 THEN closeDue - 1 ELSE closeDue
    /\ leaseLeft' = IF leaseLeft > Free THEN leaseLeft - 1 ELSE leaseLeft
    /\ quiet' = IF Exists THEN Min2(quiet + 1, AgeCap) ELSE quiet
    /\ recAge' = [r \in Recordings |->
                    IF rec[r] = "pending" THEN Min2(recAge[r] + 1, AgeCap) ELSE recAge[r]]
    /\ UNCHANGED <<state, dirty, ended, latest, pending, holder, retryDelay, capVars, spans,
                   rec, uploadVars, firstRev, revisions, server>>

=============================================================================
