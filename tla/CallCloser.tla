------------------------------ MODULE CallCloser ------------------------------
(***************************************************************************)
(* The closer (storage_closer.py) on one call: claim its next Revision,    *)
(* materialize it from the claim's snapshot, and finish it, while evidence *)
(* keeps arriving (CallStore), leases expire, other closers take over, the *)
(* call is purged and the server crashes.                                  *)
(*                                                                         *)
(* lease_token: a closer runs one claim at a time and every claim writes a *)
(* new token, so "the row still has my token" is "mine was the last claim  *)
(* of the call": the model keeps that closer in `holder`.                  *)
(***************************************************************************)
EXTENDS CallStore

CONSTANTS
    Closers,    \* closers running on the store (the server runs one)
    LeaseTime,  \* LEASE_SECONDS, in ticks
    MaxFaults   \* bound of the model: crashes, failed builds and store errors

ASSUME CloserAssumption == LeaseTime \in Nat /\ MaxFaults \in Nat

VARIABLES
    job,    \* what each closer is doing: its CallClaim and where close_next stands
    faults  \* faults so far

vars == <<storeVars, job, faults>>

-----------------------------------------------------------------------------

Reasons == {"quiet_period", "end_signal", "late_data"}
Idle == [pc |-> "idle", revision |-> 0, evidence |-> {}, final |-> FALSE,
         reason |-> "quiet_period"]
Jobs == [pc : {"idle", "claimed", "built", "failing"}, revision : Nat,
         evidence : SUBSET (Spans \cup Recordings), final : BOOLEAN, reason : Reasons]

Init ==
    /\ state = "absent"
    /\ dirty = FALSE
    /\ closeDue = NoDue
    /\ quiet = 0
    /\ ended = FALSE
    /\ latest = 0
    /\ pending = 0
    /\ leaseLeft = Free
    /\ holder \in Closers
    /\ retryDelay = 1
    /\ pastCap = FALSE
    /\ capCounted = FALSE
    /\ capReached = 0
    /\ spans = {}
    /\ rec = [r \in Recordings |-> "none"]
    /\ recAge = [r \in Recordings |-> 0]
    /\ uploads = [r \in Recordings |-> 0]
    /\ inFlight = [r \in Recordings |-> 0]
    /\ detached = {}
    /\ firstRev = [e \in Spans \cup Recordings |-> 0]
    /\ revisions = {}
    /\ server = "up"
    /\ job = [c \in Closers |-> Idle]
    /\ faults = 0

Fault == faults < MaxFaults /\ faults' = faults + 1

-----------------------------------------------------------------------------
(* Claim                                                                   *)

\* Slip: a revision left pending is not claimed again.
ClaimableWhenDirty ==
    /\ Exists /\ dirty /\ closeDue = 0 /\ leaseLeft = Free /\ Uncapped /\ ~Held
    /\ \A r \in Recordings : inFlight[r] = 0

\* A row of claim_candidate_queries, not in uploading_calls.
Claimable ==
    /\ Exists
    /\ pending # 0 \/ (dirty /\ closeDue = 0)
    /\ leaseLeft = Free
    /\ Uncapped
    /\ ~Held
    /\ \A r \in Recordings : inFlight[r] = 0

\* _revision_stored: the candidate's pending revision is stored already (set aside).
PendingStored == \E v \in revisions : v.rev = pending

\* Slip: every close after the end marker is an end_signal.
CloseReasonWhenEnded ==
    IF ended THEN "end_signal" ELSE IF latest # 0 THEN "late_data" ELSE "quiet_period"

CloseReason ==
    IF ended /\ ~FinalStored THEN "end_signal"
    ELSE IF latest # 0 THEN "late_data" ELSE "quiet_period"

\* Slip: the marks do not ask for first_revision IS NULL.
MarksAgain(rev) ==
    [e \in Spans \cup Recordings |-> IF e \in Evidence THEN rev ELSE firstRev[e]]

\* MARK_SPANS_SQL and MARK_RECORDINGS_SQL.
Marks(rev) ==
    [e \in Spans \cup Recordings |->
       IF e \in Evidence /\ firstRev[e] = 0 THEN rev ELSE firstRev[e]]

Claim(c) ==
    /\ server = "up"
    /\ job[c].pc = "idle"
    /\ Claimable
    /\ ~PendingStored
    /\ dirty' = FALSE
    /\ pending' = latest + 1
    /\ leaseLeft' = LeaseTime
    /\ holder' = c
    /\ firstRev' = Marks(latest + 1)
    /\ job' = [job EXCEPT ![c] = [pc |-> "claimed", revision |-> latest + 1,
                                  evidence |-> Evidence, final |-> ended,
                                  reason |-> CloseReason]]
    /\ UNCHANGED <<state, closeDue, quiet, ended, spans, rec, recAge, uploadVars,
                   capVars, latest, retryDelay, revisions, server, faults>>

-----------------------------------------------------------------------------
(* Materialize: reads the store outside every lock                         *)

Goto(c, pc) == job' = [job EXCEPT ![c].pc = pc]

\* The snapshot's spans are all still stored and the revision is built (or, with no
\* evidence, there is nothing to build).
Materialize(c) ==
    /\ job[c].pc = "claimed"
    /\ job[c].evidence \cap Spans \subseteq spans
    /\ Goto(c, "built")
    /\ UNCHANGED <<storeVars, faults>>

\* SnapshotGoneError: a purge raced the claim.
SnapshotGone(c) ==
    /\ job[c].pc = "claimed"
    /\ ~(job[c].evidence \cap Spans \subseteq spans)
    /\ Goto(c, "failing")
    /\ UNCHANGED <<storeVars, faults>>

\* The evidence is refused, or the materializer's child dies or does not answer.
BuildFails(c) ==
    /\ job[c].pc = "claimed"
    /\ job[c].evidence # {}
    /\ Fault
    /\ Goto(c, "failing")
    /\ UNCHANGED storeVars

\* A store error while materializing, or while recording a failure, propagates: the claim
\* is dropped with its lease, which then expires.
Abandon(c) ==
    /\ job[c].pc \in {"claimed", "failing"}
    /\ Fault
    /\ job' = [job EXCEPT ![c] = Idle]
    /\ UNCHANGED storeVars

-----------------------------------------------------------------------------
(* Finish                                                                  *)

\* Slip: the finish does not compare the lease token.
HoldsPending(c) == Exists /\ pending = job[c].revision

\* Whether the row still has the claim's lease token and pending revision.
Holds(c) == Exists /\ holder = c /\ pending = job[c].revision

\* _close, but for latest_revision and evidence_after_latest_revision.
CloseRow(c) ==
    /\ Holds(c)
    /\ state' = "closed"
    /\ pending' = 0
    /\ leaseLeft' = Free
    /\ retryDelay' = 1

\* The finish transaction: _close, the call_revisions row, note_evidence_past_cap.
CommitFinish(c) ==
    LET j == job[c]
        row == [rev |-> j.revision, evidence |-> j.evidence, final |-> j.final,
                reason |-> j.reason]
    IN  /\ CloseRow(c)
        /\ IF j.evidence = {}
           THEN /\ pastCap' = FALSE
                /\ UNCHANGED <<latest, revisions, capCounted, capReached>>
           ELSE /\ latest' = j.revision
                /\ revisions' = revisions \cup {row}
                /\ NotePastCap(dirty, j.revision, ended, FinalStored \/ j.final, FALSE)
        /\ UNCHANGED <<dirty, closeDue, quiet, ended, spans, rec, recAge, uploadVars,
                       holder, firstRev, server>>

Finish(c) ==
    /\ job[c].pc = "built"
    /\ CommitFinish(c)
    /\ job' = [job EXCEPT ![c] = Idle]
    /\ UNCHANGED faults

\* A step after the commit raises, or the commit's answer is lost.
FinishThenRaise(c) ==
    /\ job[c].pc = "built"
    /\ Fault
    /\ CommitFinish(c)
    /\ Goto(c, "failing")

\* StaleClaimError: the lease was taken over, or the call purged; nothing commits.
FinishStale(c) ==
    /\ job[c].pc = "built"
    /\ ~Holds(c)
    /\ job' = [job EXCEPT ![c] = Idle]
    /\ UNCHANGED <<storeVars, faults>>

\* The store refuses the revision, or the transaction fails.
FinishFails(c) ==
    /\ job[c].pc = "built"
    /\ Fault
    /\ Goto(c, "failing")
    /\ UNCHANGED storeVars

\* Slip: fail looks at the lease token alone.
FailStandsOnLease(c) == Exists /\ holder = c

\* fail: only while the claim holds its call and its revision is not stored.
FailStands(c) == Holds(c) /\ ~PendingStored

\* Slip: the failed call is not made dirty again.
PutOffClean(delay) ==
    /\ pending' = 0
    /\ leaseLeft' = Free
    /\ retryDelay' = delay
    /\ closeDue' = delay
    /\ UNCHANGED dirty

\* The failed attempt is counted and the call put off, dirty.
PutOff(delay) ==
    /\ dirty' = TRUE
    /\ pending' = 0
    /\ leaseLeft' = Free
    /\ retryDelay' = delay
    /\ closeDue' = delay

Fail(c) ==
    /\ job[c].pc = "failing"
    /\ FailStands(c)
    /\ PutOff(Min2(2 * retryDelay, LongQuiet))
    /\ job' = [job EXCEPT ![c] = Idle]
    /\ UNCHANGED <<state, quiet, ended, spans, rec, recAge, uploadVars, capVars,
                   latest, holder, firstRev, revisions, server, faults>>

\* The claim no longer holds its call: nothing is recorded (_settled only reports).
FailIgnored(c) ==
    /\ job[c].pc = "failing"
    /\ ~FailStands(c)
    /\ job' = [job EXCEPT ![c] = Idle]
    /\ UNCHANGED <<storeVars, faults>>

-----------------------------------------------------------------------------
(* The server process                                                      *)

\* The process dies: what its memory held is gone (claims, uploads in flight).
Crash ==
    /\ server # "down"
    /\ Fault
    /\ server' = "down"
    /\ inFlight' = [r \in Recordings |-> 0]
    /\ detached' = {}
    /\ job' = [c \in Closers |-> Idle]
    /\ UNCHANGED <<state, dirty, closeDue, quiet, ended, spans, rec, recAge, uploads,
                   capVars, closerVars>>

Restart ==
    /\ server = "down"
    /\ server' = "starting"
    /\ UNCHANGED <<evidenceVars, capVars, closerVars, job, faults>>

\* The closer job's first run: release_leases, before it closes any call.
ReleaseLeases ==
    /\ server = "starting"
    /\ server' = "up"
    /\ leaseLeft' = Free
    /\ UNCHANGED <<evidenceVars, capVars, latest, pending, holder, retryDelay, firstRev,
                   revisions, job, faults>>

-----------------------------------------------------------------------------

StoreStep ==
    \/ \E batch, joined \in SUBSET (Spans \ spans) : RecordSpans(batch, joined)
    \/ \E r \in Recordings :
         CreateRecording(r) \/ BeginUpload(r) \/ FinishUpload(r)
         \/ \E still \in BOOLEAN : EndUpload(r, still)
    \/ FailStaleUploads
    \/ PurgeCall
    \/ Tick

CloserStep(c) ==
    \/ Claim(c)
    \/ Materialize(c)
    \/ SnapshotGone(c)
    \/ BuildFails(c)
    \/ Abandon(c)
    \/ Finish(c)
    \/ FinishThenRaise(c)
    \/ FinishStale(c)
    \/ FinishFails(c)
    \/ Fail(c)
    \/ FailIgnored(c)

ServerStep == Crash \/ Restart \/ ReleaseLeases

Next ==
    \/ StoreStep /\ UNCHANGED <<job, faults>>
    \/ \E c \in Closers : CloserStep(c)
    \/ ServerStep

Spec == Init /\ [][Next]_vars

-----------------------------------------------------------------------------
(* Safety                                                                  *)

TypeOK ==
    /\ state \in {"absent", "open", "closed", "purged"}
    /\ dirty \in BOOLEAN /\ ended \in BOOLEAN
    /\ closeDue \in Int /\ closeDue >= NoDue
    /\ quiet \in Nat
    /\ latest \in Nat /\ pending \in Nat
    /\ leaseLeft \in Int /\ leaseLeft >= Free
    /\ holder \in Closers
    /\ retryDelay \in Nat
    /\ pastCap \in BOOLEAN /\ capCounted \in BOOLEAN /\ capReached \in Nat
    /\ spans \subseteq Spans
    /\ rec \in [Recordings -> {"none", "pending", "stored", "failed"}]
    /\ recAge \in [Recordings -> Nat]
    /\ uploads \in [Recordings -> Nat]
    /\ inFlight \in [Recordings -> Nat]
    /\ detached \subseteq Recordings
    /\ firstRev \in [Spans \cup Recordings -> Nat]
    /\ revisions \subseteq [rev : Nat, evidence : SUBSET (Spans \cup Recordings),
                            final : BOOLEAN, reason : Reasons]
    /\ server \in {"down", "starting", "up"}
    /\ job \in [Closers -> Jobs]
    /\ faults \in Nat

LatestEvidence == UNION {v.evidence : v \in {w \in revisions : w.rev = latest}}

\* first_revision lets a projection "read exactly a revision's evidence": revisions are
\* numbered 1..latest, one row each, and revision n was built from exactly the evidence
\* marked 1..n, through takeovers, retries, crashes and stale finishes.
RevisionsExact ==
    /\ {v.rev : v \in revisions} = 1..latest
    /\ \A v, w \in revisions : v.rev = w.rev => v = w
    /\ \A v \in revisions : v.evidence = {e \in Evidence : firstRev[e] \in 1..v.rev}

\* "Evidence that commits after the claim makes the call dirty again, so it is in the next
\* revision, never lost": evidence the latest revision does not show (tail spans aside)
\* leaves the call dirty or with a revision pending.
NoEvidenceLost ==
    Exists /\ ~(Evidence \ TailSpans \subseteq LatestEvidence) => dirty \/ pending # 0

\* An end signal no final revision shows yet leaves the call dirty or with a revision
\* pending, whatever came between them (the last exemption of UNCAPPED_SQL).
EndSignalPending == Exists /\ ended /\ ~FinalStored => dirty \/ pending # 0

\* A revision is stored only for news: it shows all its predecessor shows and something
\* more (a failure recorded after its finish committed would build it twice).
EveryRevisionHasNews ==
    \A v, w \in revisions :
        v.rev < w.rev => v.evidence \subseteq w.evidence /\ v.evidence # w.evidence

\* "A stored revision that is still pending cannot happen": the closer never has to set a
\* call aside with CALL_INTEGRITY.
NeverSetAside == pending # 0 => ~PendingStored

\* At most REVISION_CAP revisions, and one more only as the first final one.
RevisionLimit ==
    \A v \in revisions :
        v.rev > RevisionCap => /\ v.rev = RevisionCap + 1
                              /\ v.final
                              /\ \A w \in revisions : w.final => w = v

\* close_reason and finality, as the revisions' readers take them: final from the end
\* marker on, "end_signal" for the first of those, "quiet_period" for a first close
\* without it and "late_data" for every other one.
CloseReasonsTrue ==
    \A v \in revisions :
        LET firstFinal == v.final /\ \A w \in revisions : w.rev < v.rev => ~w.final
        IN  /\ v.final <=> v.evidence \cap EndMarkers # {}
            /\ v.reason = "end_signal" <=> firstFinal
            /\ v.reason = "quiet_period" <=> v.rev = 1 /\ ~v.final

\* evidence_after_latest_revision: set while a call at the cap holds evidence no revision
\* will show, never without evidence past the latest revision, and counted once a call
\* though its first end-signal close clears it.
PastCapTold ==
    /\ Exists /\ dirty /\ ~Uncapped => pastCap
    /\ pastCap => latest >= RevisionCap /\ ~(Evidence \subseteq LatestEvidence)
    /\ capReached <= 1
    /\ pastCap => capReached = 1

-----------------------------------------------------------------------------
(* Why they hold: the inductive invariant                                  *)

\* Without a row there is nothing of the call.
NoRow ==
    ~Exists => /\ latest = 0 /\ pending = 0 /\ ~dirty /\ ~ended
               /\ spans = {}
               /\ \A r \in Recordings : rec[r] = "none"

\* A pending revision is the next one; the stored ones are 1..latest, one row each.
RowsNumbered ==
    /\ pending \in {0, latest + 1}
    /\ {v.rev : v \in revisions} = 1..latest
    /\ \A v, w \in revisions : v.rev = w.rev => v = w

\* Only evidence is marked, for a stored revision or for the next.
MarksBounded ==
    \A e \in Spans \cup Recordings :
        firstRev[e] <= latest + 1 /\ (firstRev[e] # 0 => e \in Evidence)

RowsShowMarks ==
    \A v \in revisions : v.evidence = {e \in Evidence : firstRev[e] \in 1..v.rev}

Marked == {e \in Evidence : firstRev[e] # 0}

\* The claim that still holds its call has every marked piece of evidence in its snapshot.
SnapshotHeld ==
    \A c \in Closers : job[c].pc # "idle" =>
        /\ job[c].revision # 0
        /\ Holds(c) => job[c].evidence = Marked

\* A revision's mark is on some evidence; a dirty or pending call has evidence for the next.
MarksNew ==
    /\ \A n \in 2..latest : \E e \in Evidence : firstRev[e] = n
    /\ pending # 0 /\ latest # 0 => \E e \in Evidence : firstRev[e] = latest + 1
    /\ pending # 0 /\ dirty => \E e \in Evidence : firstRev[e] = 0
    /\ dirty /\ latest # 0 => \E e \in Evidence : firstRev[e] \notin 1..latest

\* Evidence no claim has marked, tail spans aside, keeps the call dirty; evidence marked
\* for the next revision keeps it dirty or pending.
UnmarkedDirty ==
    /\ \A e \in Evidence \ TailSpans : firstRev[e] = 0 => dirty
    /\ \A e \in Evidence : firstRev[e] = latest + 1 => dirty \/ pending # 0

Numbering ==
    /\ NoRow
    /\ RowsNumbered
    /\ MarksBounded
    /\ RowsShowMarks
    /\ SnapshotHeld
    /\ MarksNew
    /\ UnmarkedDirty

\* The end signal is an end marker's.
EndKnown == ended <=> spans \cap EndMarkers # {}

\* What a claim took down is still what its finish may store: it is final if it saw the
\* end marker, which otherwise came since and made the call dirty, and it is below the cap
\* or the first final revision.
ClaimsTrue ==
    \A c \in Closers : job[c].pc # "idle" =>
        LET j == job[c]
        IN  /\ j.final <=> j.evidence \cap EndMarkers # {}
            /\ Holds(c) =>
                 /\ ended /\ ~j.final => dirty
                 /\ j.reason = "end_signal" <=> j.final /\ ~FinalStored
                 /\ j.reason = "quiet_period" <=> j.revision = 1 /\ ~j.final
                 /\ latest < RevisionCap \/ (j.final /\ ~FinalStored)

\* The call's part of the counter is its mark.
CapCounted ==
    /\ state # "purged" => capReached = IF capCounted THEN 1 ELSE 0
    /\ pastCap => capCounted /\ Exists

\* CloserInv. The numbering of revisions, the marks on the evidence, the snapshots of the
\* claims and the dirty flag agree whatever the interleaving (storage_closer.py claim,
\* finish and fail, storage_calls.py _add_evidence).
CloserInv ==
    /\ TypeOK
    /\ Numbering
    /\ EndKnown /\ ClaimsTrue
    /\ CapCounted

-----------------------------------------------------------------------------
(* What the code implements                                                *)

Row(n) == CHOOSE v \in revisions : v.rev = n

\* The call_revisions rows in the order of their numbers.
Published == [n \in 1..latest |-> [evidence |-> Row(n).evidence, final |-> Row(n).final]]

Promise == INSTANCE CallRevisions WITH
    Items <- Spans \cup Recordings,
    gathered <- Evidence,
    published <- Published,
    erased <- state = "purged"

\* The call row, the closers and their leases implement the abstract Call.
ImplementsPromise == Promise!Spec

-----------------------------------------------------------------------------
(* Liveness                                                                *)

\* The maintenance loop runs every job again and again, the API ends every upload (idle
\* and total timeouts), a server that died is started again, and time passes. Nothing
\* makes clients send, or a purge happen.
Fairness ==
    /\ WF_vars(Tick /\ UNCHANGED <<job, faults>>)
    /\ WF_vars(FailStaleUploads /\ UNCHANGED <<job, faults>>)
    /\ \A r \in Recordings :
         WF_vars(\E still \in BOOLEAN : EndUpload(r, still) /\ UNCHANGED <<job, faults>>)
    /\ WF_vars(Restart)
    /\ WF_vars(ReleaseLeases)
    /\ \A c \in Closers :
         /\ WF_vars(Claim(c))
         /\ WF_vars(Materialize(c) \/ SnapshotGone(c))
         /\ WF_vars(Finish(c) \/ FinishStale(c))
         /\ WF_vars(Fail(c) \/ FailIgnored(c))

FairSpec == Spec /\ Fairness

\* Once faults and uploads stop, everything a call holds (tail spans aside) comes to be
\* shown by its latest revision, unless the cap keeps it out or the call is purged.
EvidenceShown ==
    \A e \in (Spans \ TailSpans) \cup Recordings :
        (e \in Evidence) ~> (e \in LatestEvidence \/ pastCap \/ state = "purged")

\* A pending recording is stored or failed in the end, and never holds its call for good.
RecordingSettles ==
    \A r \in Recordings : (rec[r] = "pending") ~> (rec[r] # "pending")

-----------------------------------------------------------------------------
(* What the documentation says and the code does not do                    *)

\* CONTEXT.md:54: a Call "closes after an end marker or a quiet period".
OpenCallCloses == (state = "open") ~> (state # "open")

=============================================================================
