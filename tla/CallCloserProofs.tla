--------------------------- MODULE CallCloserProofs ---------------------------
(***************************************************************************)
(* Proofs about CallCloser, for any spans, recordings, closers, timings    *)
(* and cap. The argument: TypeOK, then Numbering, is inductive, and the    *)
(* safety properties follow from it in every state.                        *)
(*                                                                         *)
(* Then what its revisions say of the end of the call (EndSignalPending,   *)
(* CloseReasonsTrue, RevisionLimit) and of evidence past the cap           *)
(* (PastCapTold): each is inductive given TypeOK and Numbering.            *)
(*                                                                         *)
(* Last, that CallCloser implements CallRevisions: the initial state maps  *)
(* to an initial state of the promise, and every step to a step of it or   *)
(* to a stutter. A step of the store but a purge gathers, a purge erases,  *)
(* a finish that stores a revision publishes, and nothing else is seen.    *)
(***************************************************************************)
EXTENDS CallCloser, Sequences, TLAPS

Unit == Spans \cup Recordings

-----------------------------------------------------------------------------
(* Types                                                                   *)

\* The variables that only the closer's side writes keep their types when unchanged, and
\* _add_evidence keeps those of what it writes.
LEMMA AddEvidenceType ==
    ASSUME TypeOK, NEW giveEnd \in BOOLEAN, AddEvidence(giveEnd)
    PROVE  /\ dirty' \in BOOLEAN /\ ended' \in BOOLEAN
           /\ closeDue' \in Int /\ closeDue' >= NoDue
           /\ quiet' \in Nat
           /\ pastCap' \in BOOLEAN /\ capCounted' \in BOOLEAN /\ capReached' \in Nat
<1>1. closeDue' \in Int /\ closeDue' >= NoDue
  BY StoreAssumption DEF TypeOK, AddEvidence, CloseDueAfter, Max2, NoDue
<1>2. pastCap' \in BOOLEAN /\ capCounted' \in BOOLEAN
  <2>1. CASE latest >= RevisionCap
    BY <2>1, Zenon DEF TypeOK, AddEvidence, NotePastCap
  <2>2. CASE ~(latest >= RevisionCap)
    BY <2>2 DEF TypeOK, AddEvidence, capVars
  <2>3. QED BY <2>1, <2>2
<1>3. capReached' \in Nat
  BY DEF TypeOK, AddEvidence, NotePastCap, capVars
<1>4. QED
  BY <1>1, <1>2, <1>3 DEF TypeOK, AddEvidence

\* Every operation of the store (clients, the upload sweep, a purge, time) keeps the types.
LEMMA TypeStore ==
    ASSUME TypeOK, StoreStep, UNCHANGED <<job, faults>>
    PROVE  TypeOK'
<1> USE StoreAssumption, CloserAssumption
<1>1. ASSUME NEW batch \in SUBSET (Spans \ spans), NEW joined \in SUBSET (Spans \ spans),
             RecordSpans(batch, joined)
      PROVE  TypeOK'
  <2> DEFINE giveEnd == ~ended /\ (batch \cup joined) \cap EndMarkers # {}
  <2>1. CASE AddEvidence(giveEnd)
    <3>1. giveEnd \in BOOLEAN
      OBVIOUS
    <3>2. /\ dirty' \in BOOLEAN /\ ended' \in BOOLEAN
          /\ closeDue' \in Int /\ closeDue' >= NoDue
          /\ quiet' \in Nat
          /\ pastCap' \in BOOLEAN /\ capCounted' \in BOOLEAN /\ capReached' \in Nat
      BY <2>1, <3>1, AddEvidenceType
    <3>3. QED
      BY <1>1, <3>2 DEF TypeOK, RecordSpans, closerVars, uploadVars
  <2>2. CASE UNCHANGED <<dirty, ended, closeDue, capVars>> /\ quiet' \in {0, quiet}
    BY <1>1, <2>2 DEF TypeOK, RecordSpans, closerVars, uploadVars, capVars
  <2>3. QED
    BY <1>1, <2>1, <2>2 DEF RecordSpans
<1>2. ASSUME NEW r \in Recordings, CreateRecording(r)
      PROVE  TypeOK'
  <2>1. /\ state' \in {"absent", "open", "closed", "purged"}
        /\ dirty' \in BOOLEAN
        /\ closeDue' \in Int /\ closeDue' >= NoDue
        /\ quiet' \in Nat
    <3>1. CASE state = "absent"
      BY <1>2, <3>1 DEF CreateRecording, NoDue
    <3>2. CASE state # "absent"
      BY <1>2, <3>2 DEF TypeOK, CreateRecording
    <3>3. QED
      BY <3>1, <3>2
  <2>2. /\ rec' \in [Recordings -> {"none", "pending", "stored", "failed"}]
        /\ recAge' \in [Recordings -> Nat]
    BY <1>2 DEF TypeOK, CreateRecording
  <2>3. QED
    BY <1>2, <2>1, <2>2 DEF TypeOK, CreateRecording, capVars, closerVars, uploadVars
<1>3. ASSUME NEW r \in Recordings, BeginUpload(r)
      PROVE  TypeOK'
  BY <1>3 DEF TypeOK, BeginUpload, capVars, closerVars
<1>4. ASSUME NEW r \in Recordings, FinishUpload(r)
      PROVE  TypeOK'
  <2>1. /\ dirty' \in BOOLEAN /\ ended' \in BOOLEAN
        /\ closeDue' \in Int /\ closeDue' >= NoDue
        /\ quiet' \in Nat
        /\ pastCap' \in BOOLEAN /\ capCounted' \in BOOLEAN /\ capReached' \in Nat
    BY <1>4, AddEvidenceType DEF FinishUpload
  <2>2. QED
    BY <1>4, <2>1 DEF TypeOK, FinishUpload, closerVars
<1>5. ASSUME NEW r \in Recordings, NEW still \in BOOLEAN, EndUpload(r, still)
      PROVE  TypeOK'
  <2>1. inFlight' \in [Recordings -> Nat]
    BY <1>5 DEF TypeOK, EndUpload
  <2>2. QED
    BY <1>5, <2>1 DEF TypeOK, EndUpload, capVars, closerVars
<1>6. ASSUME FailStaleUploads
      PROVE  TypeOK'
  BY <1>6 DEF TypeOK, FailStaleUploads, capVars, closerVars, uploadVars
<1>7. ASSUME PurgeCall
      PROVE  TypeOK'
  <2>1. /\ rec' \in [Recordings -> {"none", "pending", "stored", "failed"}]
        /\ recAge' \in [Recordings -> Nat]
        /\ firstRev' \in [Spans \cup Recordings -> Nat]
    BY <1>7 DEF PurgeCall
  <2>2. /\ closeDue' \in Int /\ closeDue' >= NoDue
        /\ leaseLeft' \in Int /\ leaseLeft' >= Free
    BY <1>7 DEF PurgeCall, NoDue, Free
  <2>3. QED
    BY <1>7, <2>1, <2>2 DEF TypeOK, PurgeCall, uploadVars
<1>8. ASSUME Tick
      PROVE  TypeOK'
  <2>1. AgeCap \in Nat
    BY DEF AgeCap, Max2
  <2>2. quiet' \in Nat /\ recAge' \in [Recordings -> Nat]
    BY <1>8, <2>1 DEF TypeOK, Tick, Min2
  <2>3. /\ closeDue' \in Int /\ closeDue' >= NoDue
        /\ leaseLeft' \in Int /\ leaseLeft' >= Free
    BY <1>8 DEF TypeOK, Tick, NoDue, Free
  <2>4. QED
    BY <1>8, <2>2, <2>3 DEF TypeOK, Tick, capVars, uploadVars
<1>9. QED
  BY <1>1, <1>2, <1>3, <1>4, <1>5, <1>6, <1>7, <1>8 DEF StoreStep

\* What the finish transaction writes has its type.
LEMMA CommitFinishType ==
    ASSUME TypeOK, NEW c \in Closers, CommitFinish(c), faults' \in Nat,
           job' \in [Closers -> Jobs]
    PROVE  TypeOK'
<1>1. pastCap' \in BOOLEAN /\ capCounted' \in BOOLEAN /\ capReached' \in Nat
  <2>1. CASE job[c].evidence = {}
    BY <2>1 DEF TypeOK, CommitFinish
  <2>2. CASE job[c].evidence # {}
    <3>1. pastCap' \in BOOLEAN /\ capCounted' \in BOOLEAN
      BY <2>2, Zenon DEF TypeOK, CommitFinish, NotePastCap
    <3>2. capReached' \in Nat
      BY <2>2 DEF TypeOK, CommitFinish, NotePastCap
    <3>3. QED BY <3>1, <3>2
  <2>3. QED BY <2>1, <2>2
<1>2. job[c] \in Jobs
  BY DEF TypeOK
<1>3. latest' \in Nat /\ pending' \in Nat
  BY <1>2 DEF TypeOK, CommitFinish, CloseRow, Jobs
<1>4. revisions' \subseteq [rev : Nat, evidence : SUBSET (Spans \cup Recordings),
                           final : BOOLEAN, reason : Reasons]
  <2> DEFINE Rows == [rev : Nat, evidence : SUBSET (Spans \cup Recordings),
                      final : BOOLEAN, reason : Reasons]
             row == [rev |-> job[c].revision, evidence |-> job[c].evidence,
                     final |-> job[c].final, reason |-> job[c].reason]
  <2>1. row \in Rows
    BY <1>2 DEF Jobs
  <2>2. revisions' \in {revisions, revisions \cup {row}}
    BY DEF CommitFinish
  <2>3. revisions \subseteq Rows
    BY DEF TypeOK
  <2> HIDE DEF Rows, row
  <2>4. revisions' \subseteq Rows
    BY <2>1, <2>2, <2>3
  <2>5. QED
    BY <2>4 DEF Rows
<1>5. QED
  BY <1>1, <1>3, <1>4 DEF TypeOK, CommitFinish, CloseRow, Free, uploadVars

\* Every step of a closer keeps the types.
LEMMA TypeCloser ==
    ASSUME TypeOK, NEW c \in Closers, CloserStep(c)
    PROVE  TypeOK'
<1> USE StoreAssumption, CloserAssumption
<1> DEFINE Moved(pc) == [job EXCEPT ![c].pc = pc]
<1>1. Idle \in Jobs
  BY DEF Idle, Jobs, Reasons
<1>2. [job EXCEPT ![c] = Idle] \in [Closers -> Jobs]
  BY <1>1 DEF TypeOK
<1>3. ASSUME NEW pc \in {"built", "failing"}
      PROVE  Moved(pc) \in [Closers -> Jobs]
  BY <1>3 DEF TypeOK, Jobs
<1>4. CASE Claim(c)
  <2>1. CloseReason \in Reasons
    BY DEF CloseReason, Reasons
  <2>2. Evidence \subseteq Spans \cup Recordings
    BY DEF TypeOK, Evidence, StoredRecordings
  <2>3. job' \in [Closers -> Jobs]
    BY <1>4, <2>1, <2>2 DEF TypeOK, Claim, Jobs
  <2>4. firstRev' \in [Spans \cup Recordings -> Nat]
    BY <1>4 DEF TypeOK, Claim, Marks
  <2>5. dirty' \in BOOLEAN /\ holder' \in Closers
    BY <1>4, Zenon DEF Claim
  <2>6. leaseLeft' \in Int /\ leaseLeft' >= Free
    BY <1>4 DEF Claim, Free
  <2>7. UNCHANGED <<state, closeDue, quiet, ended, spans, rec, recAge, uploads, inFlight, detached,
                    pastCap, capCounted, capReached, latest, retryDelay, revisions, server, faults>>
    BY <1>4 DEF Claim, capVars, uploadVars
  <2>8. pending' \in Nat
    BY <1>4 DEF TypeOK, Claim
  <2>9. QED
    BY <2>3, <2>4, <2>5, <2>6, <2>7, <2>8 DEF TypeOK
<1>5. CASE Materialize(c)
  BY <1>3, <1>5 DEF TypeOK, Materialize, Goto, storeVars, evidenceVars, capVars, closerVars,
    uploadVars
<1>6. CASE SnapshotGone(c)
  BY <1>3, <1>6 DEF TypeOK, SnapshotGone, Goto, storeVars, evidenceVars, capVars, closerVars,
    uploadVars
<1>7. CASE BuildFails(c)
  BY <1>3, <1>7 DEF TypeOK, BuildFails, Fault, Goto, storeVars, evidenceVars, capVars,
    closerVars, uploadVars
<1>8. CASE Abandon(c)
  BY <1>2, <1>8 DEF TypeOK, Abandon, Fault, storeVars, evidenceVars, capVars, closerVars,
    uploadVars
<1>9. CASE Finish(c)
  BY <1>2, <1>9, CommitFinishType DEF Finish, TypeOK
<1>10. CASE FinishThenRaise(c)
  <2>1. faults' \in Nat
    BY <1>10 DEF TypeOK, FinishThenRaise, Fault
  <2>2. job' \in [Closers -> Jobs]
    BY <1>3, <1>10 DEF FinishThenRaise, Goto
  <2>3. QED
    BY <1>10, <2>1, <2>2, CommitFinishType DEF FinishThenRaise
<1>11. CASE FinishStale(c)
  BY <1>2, <1>11 DEF TypeOK, FinishStale, storeVars, evidenceVars, capVars, closerVars,
    uploadVars
<1>12. CASE FinishFails(c)
  BY <1>3, <1>12 DEF TypeOK, FinishFails, Fault, Goto, storeVars, evidenceVars, capVars,
    closerVars, uploadVars
<1>13. CASE Fail(c)
  <2>1. Min2(2 * retryDelay, LongQuiet) \in Nat
    BY DEF TypeOK, Min2
  <2>2. QED
    BY <1>2, <1>13, <2>1 DEF TypeOK, Fail, PutOff, NoDue, Free, capVars, uploadVars
<1>14. CASE FailIgnored(c)
  BY <1>2, <1>14 DEF TypeOK, FailIgnored, storeVars, evidenceVars, capVars, closerVars,
    uploadVars
<1>15. QED
  BY <1>4, <1>5, <1>6, <1>7, <1>8, <1>9, <1>10, <1>11, <1>12, <1>13, <1>14 DEF CloserStep

\* A crash, a restart and the release of the leases keep the types.
LEMMA TypeServer ==
    ASSUME TypeOK, ServerStep
    PROVE  TypeOK'
<1>1. Idle \in Jobs
  BY DEF Idle, Jobs, Reasons
<1>2. CASE Crash
  BY <1>1, <1>2 DEF TypeOK, Crash, Fault, capVars, closerVars
<1>3. CASE Restart
  BY <1>3 DEF TypeOK, Restart, evidenceVars, capVars, closerVars, uploadVars
<1>4. CASE ReleaseLeases
  BY <1>4 DEF TypeOK, ReleaseLeases, Free, evidenceVars, capVars, uploadVars
<1>5. QED
  BY <1>2, <1>3, <1>4 DEF ServerStep

\* Every variable of the call, its evidence and its closers keeps its type.
THEOREM TypeCorrect == Spec => []TypeOK
<1>1. Init => TypeOK
  <2> SUFFICES ASSUME Init PROVE TypeOK
    OBVIOUS
  <2>1. Idle \in Jobs
    BY DEF Idle, Jobs, Reasons
  <2>2. job \in [Closers -> Jobs]
    BY <2>1 DEF Init
  <2>3. /\ rec \in [Recordings -> {"none", "pending", "stored", "failed"}]
        /\ recAge \in [Recordings -> Nat]
        /\ uploads \in [Recordings -> Nat]
        /\ inFlight \in [Recordings -> Nat]
        /\ firstRev \in [Spans \cup Recordings -> Nat]
    BY DEF Init
  <2>4. /\ dirty \in BOOLEAN /\ ended \in BOOLEAN
        /\ pastCap \in BOOLEAN /\ capCounted \in BOOLEAN
    BY Zenon DEF Init
  <2>5. /\ closeDue \in Int /\ closeDue >= NoDue
        /\ leaseLeft \in Int /\ leaseLeft >= Free
        /\ quiet \in Nat /\ latest \in Nat /\ pending \in Nat /\ retryDelay \in Nat
        /\ capReached \in Nat /\ faults \in Nat
    BY DEF Init, NoDue, Free
  <2>6. QED
    BY <2>2, <2>3, <2>4, <2>5 DEF Init, TypeOK
<1>2. TypeOK /\ [Next]_vars => TypeOK'
  <2> SUFFICES ASSUME TypeOK, [Next]_vars
               PROVE  TypeOK'
    OBVIOUS
  <2>1. CASE StoreStep /\ UNCHANGED <<job, faults>>
    BY <2>1, TypeStore
  <2>2. CASE \E c \in Closers : CloserStep(c)
    BY <2>2, TypeCloser
  <2>3. CASE ServerStep
    BY <2>3, TypeServer
  <2>4. CASE UNCHANGED vars
    BY <2>4 DEF TypeOK, vars, storeVars, evidenceVars, capVars, closerVars, uploadVars
  <2>5. QED
    BY <2>1, <2>2, <2>3, <2>4 DEF Next
<1>3. QED
  BY <1>1, <1>2, PTL DEF Spec

-----------------------------------------------------------------------------
(* The inductive invariant                                                 *)

\* What a step of the store other than a purge does to what Numbering speaks of: evidence
\* is added, and makes the call dirty unless it is tail spans; only new evidence, or a
\* recording creating the call, makes a clean call dirty.
Gathers ==
    /\ UNCHANGED <<latest, pending, holder, firstRev, revisions, job>>
    /\ Evidence \subseteq Evidence' /\ Evidence' \subseteq Unit
    /\ Exists => Exists'
    /\ NoRow'
    /\ \A e \in Evidence' \ Evidence : e \in TailSpans \/ dirty'
    /\ dirty => dirty'
    /\ dirty' => dirty \/ (\E e \in Evidence' : e \notin Evidence) \/ ~Exists

\* A step that only gathers evidence keeps the invariant.
LEMMA GathersKeeps ==
    ASSUME TypeOK, Numbering, Gathers
    PROVE  Numbering'
<1>1. \A e \in Evidence' : e \notin Evidence => firstRev[e] = 0
  BY DEF Gathers, Numbering, MarksBounded, Unit
<1>2. NoRow' /\ RowsNumbered' /\ MarksBounded'
  BY DEF Gathers, Numbering, RowsNumbered, MarksBounded
<1>3. Marked' = Marked
  BY <1>1 DEF Marked, Gathers
<1>4. RowsShowMarks'
  <2>1. ASSUME NEW v \in revisions
        PROVE  v.evidence = {e \in Evidence' : firstRev[e] \in 1..v.rev}
    <3>1. v.evidence = {e \in Evidence : firstRev[e] \in 1..v.rev}
      BY DEF Numbering, RowsShowMarks
    <3>2. v.rev \in Nat
      BY DEF TypeOK
    <3>3. \A e \in Evidence' : firstRev[e] \in 1..v.rev => e \in Evidence
      BY <1>1, <3>2
    <3>4. QED
      BY <3>1, <3>3 DEF Gathers
  <2>2. QED
    BY <2>1 DEF RowsShowMarks, Gathers
<1>5. SnapshotHeld'
  <2>1. ASSUME NEW c \in Closers, job[c].pc # "idle"
        PROVE  job[c].revision # 0 /\ (Holds(c)' => job[c].evidence = Marked)
    <3>1. job[c].revision # 0 /\ (Holds(c) => job[c].evidence = Marked)
      BY <2>1 DEF Numbering, SnapshotHeld
    <3>2. Holds(c)' => Holds(c)
      BY <3>1 DEF Gathers, Holds, Numbering, NoRow
    <3>3. QED
      BY <3>1, <3>2
  <2>2. QED
    BY <2>1, <1>3 DEF SnapshotHeld, Gathers
<1>6. MarksNew'
  <2>1. \A n \in 2..latest : \E e \in Evidence' : firstRev[e] = n
    BY DEF Gathers, Numbering, MarksNew
  <2>2. pending # 0 /\ latest # 0 => \E e \in Evidence' : firstRev[e] = latest + 1
    BY DEF Gathers, Numbering, MarksNew
  <2>3. pending # 0 /\ dirty' => \E e \in Evidence' : firstRev[e] = 0
    BY <1>1 DEF Gathers, Numbering, MarksNew, NoRow
  <2>4. dirty' /\ latest # 0 => \E e \in Evidence' : firstRev[e] \notin 1..latest
    BY <1>1 DEF Gathers, Numbering, MarksNew, NoRow
  <2>5. QED
    BY <2>1, <2>2, <2>3, <2>4 DEF MarksNew, Gathers
<1>7. UnmarkedDirty'
  <2>1. \A e \in Evidence' \ TailSpans : firstRev[e] = 0 => dirty'
    BY DEF Gathers, Numbering, UnmarkedDirty
  <2>2. \A e \in Evidence' : firstRev[e] = latest + 1 => dirty' \/ pending # 0
    BY <1>1 DEF Gathers, Numbering, UnmarkedDirty, TypeOK
  <2>3. QED
    BY <2>1, <2>2 DEF UnmarkedDirty, Gathers
<1>8. QED
  BY <1>2, <1>4, <1>5, <1>6, <1>7 DEF Numbering

\* Whether and where the closers stand changes, their claims stay or are dropped.
JobsKeep ==
    /\ UNCHANGED <<state, dirty, ended, latest, pending, holder, spans, rec, firstRev, revisions>>
    /\ \A c \in Closers :
         job'[c].pc = "idle" \/ (/\ job[c].pc # "idle"
                                 /\ job'[c].revision = job[c].revision
                                 /\ job'[c].evidence = job[c].evidence)

\* So does one that leaves every job its claim, or drops it, and the call's row alone.
LEMMA JobsKeepKeeps ==
    ASSUME TypeOK, Numbering, JobsKeep
    PROVE  Numbering'
<1>1. Exists' = Exists /\ Evidence' = Evidence /\ Marked' = Marked
  BY DEF JobsKeep, Exists, Evidence, StoredRecordings, Marked
<1>2. NoRow' /\ RowsNumbered' /\ MarksBounded' /\ RowsShowMarks' /\ UnmarkedDirty'
  BY <1>1 DEF JobsKeep, Numbering, NoRow, RowsNumbered, MarksBounded, RowsShowMarks,
    UnmarkedDirty
<1>3. MarksNew'
  BY <1>1 DEF JobsKeep, Numbering, MarksNew
<1>4. SnapshotHeld'
  <2>1. ASSUME NEW c \in Closers, job'[c].pc # "idle"
        PROVE  job'[c].revision # 0 /\ (Holds(c)' => job'[c].evidence = Marked)
    BY <1>1, <2>1 DEF JobsKeep, Numbering, SnapshotHeld, Holds
  <2>2. QED
    BY <1>1, <2>1 DEF SnapshotHeld
<1>5. QED
  BY <1>2, <1>3, <1>4 DEF Numbering

\* Every step of the store but a purge only gathers evidence.
LEMMA StoreGathers ==
    ASSUME TypeOK, Numbering, StoreStep, UNCHANGED <<job, faults>>
    PROVE  Gathers \/ PurgeCall
<1> USE DEF Exists
<1>1. Evidence \subseteq Unit
  BY DEF TypeOK, Evidence, StoredRecordings, Unit
<1>2. ASSUME NEW batch \in SUBSET (Spans \ spans), NEW joined \in SUBSET (Spans \ spans),
             RecordSpans(batch, joined)
      PROVE  Gathers
  <2> DEFINE giveEnd == ~ended /\ (batch \cup joined) \cap EndMarkers # {}
  <2>1. UNCHANGED <<latest, pending, holder, firstRev, revisions, job>>
    BY <1>2 DEF RecordSpans, closerVars
  <2>2. spans' = spans \cup batch \cup joined /\ rec' = rec
    BY <1>2 DEF RecordSpans
  <2>3. Evidence' = Evidence \cup batch \cup joined
    BY <2>2 DEF Evidence, StoredRecordings
  <2>4. Exists' /\ (Exists => Exists')
    BY <1>2 DEF RecordSpans, TypeOK
  <2>5. (batch \cup joined) \cap Evidence = {}
    BY StoreAssumption DEF Evidence, StoredRecordings
  <2>6. CASE AddEvidence(giveEnd)
    <3>1. dirty'
      BY <2>6 DEF AddEvidence
    <3>2. batch \cup joined # {}
      BY <1>2 DEF RecordSpans
    <3>3. \E e \in Evidence' : e \notin Evidence
      BY <2>3, <2>5, <3>2
    <3>4. QED
      BY <1>1, <2>1, <2>3, <2>4, <3>1, <3>3 DEF Gathers, NoRow, Unit
  <2>7. CASE ~IsEvidence(batch, joined, giveEnd) /\ dirty' = dirty
    <3>1. \A e \in Evidence' \ Evidence : e \in TailSpans
      BY <2>3, <2>7 DEF IsEvidence
    <3>2. QED
      BY <1>1, <2>1, <2>3, <2>4, <2>7, <3>1 DEF Gathers, NoRow, Unit
  <2>8. QED
    BY <1>2, <2>6, <2>7 DEF RecordSpans
<1>3. ASSUME NEW r \in Recordings, CreateRecording(r)
      PROVE  Gathers
  <2>1. UNCHANGED <<latest, pending, holder, firstRev, revisions, job>>
    BY <1>3 DEF CreateRecording, closerVars
  <2>2. Evidence' = Evidence
    BY <1>3 DEF CreateRecording, Evidence, StoredRecordings, TypeOK
  <2>3. Exists' /\ (Exists => Exists')
    BY <1>3 DEF CreateRecording, TypeOK
  <2>4. /\ dirty => dirty'
        /\ dirty' => dirty \/ ~Exists
    BY <1>3 DEF CreateRecording, TypeOK
  <2>5. QED
    BY <1>1, <2>1, <2>2, <2>3, <2>4 DEF Gathers, NoRow
<1>4. ASSUME NEW r \in Recordings, FinishUpload(r)
      PROVE  Gathers
  <2>1. UNCHANGED <<latest, pending, holder, firstRev, revisions, job>>
    BY <1>4 DEF FinishUpload, closerVars
  <2>2. Evidence' = Evidence \cup {r} /\ r \notin Evidence
    BY <1>4, StoreAssumption DEF FinishUpload, Evidence, StoredRecordings, TypeOK
  <2>3. Exists /\ Exists'
    BY <1>4 DEF FinishUpload, Numbering, NoRow
  <2>4. dirty'
    BY <1>4 DEF FinishUpload, AddEvidence
  <2>5. QED
    BY <1>1, <2>1, <2>2, <2>3, <2>4 DEF Gathers, NoRow, Unit
<1>5. ASSUME UNCHANGED <<state, dirty, ended, spans, closerVars>>,
             StoredRecordings' = StoredRecordings,
             \A q \in Recordings : rec[q] = "none" => rec'[q] = "none"
      PROVE  Gathers
  <2>1. Evidence' = Evidence
    BY <1>5 DEF Evidence
  <2>2. NoRow'
    BY <1>5 DEF Numbering, NoRow, closerVars
  <2>3. QED
    BY <1>1, <1>5, <2>1, <2>2 DEF Gathers, closerVars
<1>6. ASSUME NEW r \in Recordings, BeginUpload(r)
      PROVE  Gathers
  BY <1>5, <1>6 DEF BeginUpload, StoredRecordings
<1>7. ASSUME NEW r \in Recordings, NEW still \in BOOLEAN, EndUpload(r, still)
      PROVE  Gathers
  BY <1>5, <1>7 DEF EndUpload, StoredRecordings
<1>8. ASSUME FailStaleUploads
      PROVE  Gathers
  <2>1. StoredRecordings' = StoredRecordings
    BY <1>8 DEF FailStaleUploads, StoredRecordings, StaleUploads
  <2>2. \A q \in Recordings : rec[q] = "none" => rec'[q] = "none"
    BY <1>8 DEF FailStaleUploads, StaleUploads
  <2>3. QED
    BY <1>5, <1>8, <2>1, <2>2 DEF FailStaleUploads
<1>9. ASSUME Tick
      PROVE  Gathers
  <2>1. UNCHANGED <<state, dirty, ended, spans, rec>>
    BY <1>9 DEF Tick
  <2>2. UNCHANGED <<latest, pending, holder, firstRev, revisions>>
    BY <1>9 DEF Tick
  <2>3. Evidence' = Evidence /\ NoRow'
    BY <2>1, <2>2 DEF Evidence, StoredRecordings, Numbering, NoRow
  <2>4. QED
    BY <1>1, <2>1, <2>2, <2>3 DEF Gathers
<1>10. QED
  BY <1>2, <1>3, <1>4, <1>6, <1>7, <1>8, <1>9 DEF StoreStep

\* A purge leaves a call with nothing, and claims that hold nothing.
LEMMA PurgeKeeps ==
    ASSUME TypeOK, Numbering, PurgeCall, UNCHANGED job
    PROVE  Numbering'
<1>1. Evidence' = {}
  BY DEF PurgeCall, Evidence, StoredRecordings
<1>2. ~Exists' /\ \A c \in Closers : ~Holds(c)'
  BY DEF PurgeCall, Exists, Holds
<1>3. latest' = 0 /\ pending' = 0 /\ ~dirty' /\ revisions' = {}
  BY DEF PurgeCall
<1>4. NoRow'
  BY <1>3 DEF PurgeCall, NoRow
<1>5. MarksBounded'
  BY <1>3 DEF PurgeCall, MarksBounded
<1>6. RowsNumbered' /\ RowsShowMarks'
  BY <1>3 DEF RowsNumbered, RowsShowMarks
<1>7. SnapshotHeld'
  BY <1>2 DEF Numbering, SnapshotHeld
<1>8. MarksNew' /\ UnmarkedDirty'
  BY <1>1, <1>3 DEF MarksNew, UnmarkedDirty
<1>9. QED
  BY <1>4, <1>5, <1>6, <1>7, <1>8 DEF Numbering

\* claim marks the unmarked evidence for the next revision and takes it all in its snapshot.
LEMMA ClaimKeeps ==
    ASSUME TypeOK, Numbering, NEW c \in Closers, Claim(c)
    PROVE  Numbering'
<1>1. /\ UNCHANGED <<state, latest, ended, spans, rec, revisions>>
      /\ pending' = latest + 1 /\ ~dirty' /\ holder' = c
      /\ Exists
  BY DEF Claim, Claimable
<1>2. Evidence' = Evidence /\ Exists' = Exists
  BY <1>1 DEF Evidence, StoredRecordings, Exists
<1>3. Evidence \subseteq Unit
  BY DEF TypeOK, Evidence, StoredRecordings, Unit
<1>4. firstRev' = Marks(latest + 1)
  BY DEF Claim
<1>5. \A e \in Unit : firstRev[e] \in Nat /\ latest \in Nat
  BY DEF TypeOK, Unit
<1>6. \A e \in Evidence : firstRev'[e] = IF firstRev[e] = 0 THEN latest + 1 ELSE firstRev[e]
  BY <1>3, <1>4 DEF Marks, Unit
<1>7. \A e \in Unit \ Evidence : firstRev'[e] = 0
  BY <1>4 DEF Marks, Unit, Numbering, MarksBounded
<1>8. \A e \in Evidence : firstRev'[e] # 0
  BY <1>3, <1>5, <1>6
<1>9. Marked' = Evidence
  BY <1>2, <1>8 DEF Marked
<1>10. NoRow'
  BY <1>1, <1>2 DEF NoRow
<1>11. RowsNumbered'
  BY <1>1 DEF Numbering, RowsNumbered
<1>12. MarksBounded'
  <2>1. ASSUME NEW e \in Unit
        PROVE  firstRev'[e] <= latest + 1 /\ (firstRev'[e] # 0 => e \in Evidence)
    BY <1>5, <1>6, <1>7 DEF Numbering, MarksBounded, Unit
  <2>2. QED
    BY <1>1, <1>2, <2>1 DEF MarksBounded, Unit
<1>13. RowsShowMarks'
  <2>1. ASSUME NEW v \in revisions
        PROVE  v.evidence = {e \in Evidence : firstRev'[e] \in 1..v.rev}
    <3>1. v.evidence = {e \in Evidence : firstRev[e] \in 1..v.rev}
      BY DEF Numbering, RowsShowMarks
    <3>2. v.rev \in 1..latest
      BY DEF Numbering, RowsNumbered
    <3>3. \A e \in Evidence : firstRev'[e] \in 1..v.rev <=> firstRev[e] \in 1..v.rev
      BY <1>3, <1>5, <1>6, <3>2
    <3>4. QED
      BY <3>1, <3>3
  <2>2. QED
    BY <1>1, <1>2, <2>1 DEF RowsShowMarks
<1>14. SnapshotHeld'
  <2>1. ASSUME NEW d \in Closers, job'[d].pc # "idle"
        PROVE  job'[d].revision # 0 /\ (Holds(d)' => job'[d].evidence = Evidence)
    <3>1. CASE d = c
      <4>1. job'[c].revision = latest + 1 /\ job'[c].evidence = Evidence
        BY DEF Claim, TypeOK
      <4>2. QED
        BY <3>1, <4>1 DEF TypeOK
    <3>2. CASE d # c
      <4>1. job'[d] = job[d]
        BY <3>2 DEF Claim, TypeOK
      <4>2. ~Holds(d)'
        BY <1>1, <3>2 DEF Holds
      <4>3. QED
        BY <2>1, <4>1, <4>2 DEF Numbering, SnapshotHeld
    <3>3. QED
      BY <3>1, <3>2
  <2>2. QED
    BY <1>9, <2>1 DEF SnapshotHeld
<1>15. MarksNew'
  <2>1. ASSUME NEW n \in 2..latest
        PROVE  \E e \in Evidence : firstRev'[e] = n
    <3>1. PICK e \in Evidence : firstRev[e] = n
      BY DEF Numbering, MarksNew
    <3>2. firstRev'[e] = n
      BY <1>5, <1>6, <3>1
    <3>3. QED
      BY <3>2
  <2>2. ASSUME latest # 0
        PROVE  \E e \in Evidence : firstRev'[e] = latest + 1
    <3>1. \E e \in Evidence : firstRev[e] = latest + 1 \/ firstRev[e] \notin 1..latest
      BY <2>2 DEF Claim, Claimable, Numbering, MarksNew
    <3>2. PICK e \in Evidence : firstRev[e] = latest + 1 \/ firstRev[e] \notin 1..latest
      BY <3>1
    <3>3. firstRev[e] \in {0, latest + 1}
      BY <1>3, <1>5, <3>2 DEF Numbering, MarksBounded, Unit
    <3>4. firstRev'[e] = latest + 1
      BY <1>6, <3>3
    <3>5. QED
      BY <3>4
  <2>3. QED
    BY <1>1, <1>2, <2>1, <2>2 DEF MarksNew
<1>16. UnmarkedDirty'
  <2>1. pending' # 0
    BY <1>1 DEF TypeOK
  <2>2. QED
    BY <1>2, <1>8, <2>1 DEF UnmarkedDirty
<1>17. QED
  BY <1>10, <1>11, <1>12, <1>13, <1>14, <1>15, <1>16 DEF Numbering

\* fail leaves the marks of its revision on the evidence, and the call dirty for it.
LEMMA FailKeeps ==
    ASSUME TypeOK, Numbering, NEW c \in Closers, Fail(c)
    PROVE  Numbering'
<1>1. /\ UNCHANGED <<state, latest, ended, spans, rec, revisions, firstRev, holder>>
      /\ pending' = 0 /\ dirty' /\ Exists
      /\ pending = job[c].revision /\ job[c].pc = "failing"
  BY DEF Fail, PutOff, FailStands, Holds
<1>2. Evidence' = Evidence /\ Exists' = Exists /\ Marked' = Marked
  BY <1>1 DEF Evidence, StoredRecordings, Exists, Marked
<1>3. pending # 0
  BY <1>1 DEF Numbering, SnapshotHeld
<1>4. NoRow' /\ RowsNumbered' /\ MarksBounded' /\ RowsShowMarks' /\ UnmarkedDirty'
  BY <1>1, <1>2 DEF Numbering, NoRow, RowsNumbered, MarksBounded, RowsShowMarks, UnmarkedDirty
<1>5. SnapshotHeld'
  <2>1. ASSUME NEW d \in Closers, job'[d].pc # "idle"
        PROVE  job'[d].revision # 0 /\ ~Holds(d)'
    <3>1. job'[d] = job[d]
      BY <2>1 DEF Fail, TypeOK, Idle
    <3>2. job[d].revision # 0
      BY <2>1, <3>1 DEF Numbering, SnapshotHeld
    <3>3. QED
      BY <1>1, <3>1, <3>2 DEF Holds
  <2>2. QED
    BY <2>1 DEF SnapshotHeld
<1>6. MarksNew'
  <2>1. latest # 0 => \E e \in Evidence : firstRev[e] \notin 1..latest
    BY <1>3 DEF Numbering, MarksNew, TypeOK
  <2>2. QED
    BY <1>1, <1>2, <2>1 DEF Numbering, MarksNew
<1>7. QED
  BY <1>4, <1>5, <1>6 DEF Numbering

\* The finish transaction, whatever close_next does next.
LEMMA CommitFinishKeeps ==
    ASSUME TypeOK, Numbering, NEW c \in Closers, CommitFinish(c), job[c].pc = "built",
           \A d \in Closers : job'[d].pc = "idle" \/ (/\ job[d].pc # "idle"
                                                    /\ job'[d].revision = job[d].revision)
    PROVE  Numbering'
<1> DEFINE n == job[c].revision
<1>1. /\ UNCHANGED <<dirty, ended, spans, rec, firstRev, holder>>
      /\ pending' = 0 /\ state' = "closed" /\ Exists /\ pending = n
  BY DEF CommitFinish, CloseRow, Holds
<1>2. n = latest + 1 /\ job[c].evidence = Marked /\ latest \in Nat
  BY <1>1 DEF CommitFinish, CloseRow, Numbering, SnapshotHeld, RowsNumbered, TypeOK
<1>3. Evidence' = Evidence /\ Marked' = Marked /\ Exists'
  BY <1>1 DEF Evidence, StoredRecordings, Marked, Exists
<1>4. Evidence \subseteq Unit /\ \A e \in Unit : firstRev[e] \in Nat
  BY DEF TypeOK, Evidence, StoredRecordings, Unit
<1>5. NoRow'
  BY <1>3 DEF NoRow
<1>6. SnapshotHeld'
  <2>1. ASSUME NEW d \in Closers, job'[d].pc # "idle"
        PROVE  job'[d].revision # 0 /\ ~Holds(d)'
    BY <1>1, <2>1 DEF Numbering, SnapshotHeld, Holds
  <2>2. QED
    BY <2>1 DEF SnapshotHeld
<1>7. CASE job[c].evidence = {}
  <2>1. UNCHANGED <<latest, revisions>>
    BY <1>7 DEF CommitFinish
  <2>2. latest = 0
    BY <1>1, <1>2, <1>7 DEF Marked, Numbering, MarksNew
  <2>3. RowsNumbered' /\ MarksBounded' /\ RowsShowMarks'
    BY <1>1, <1>3, <2>1 DEF Numbering, RowsNumbered, MarksBounded, RowsShowMarks
  <2>4. MarksNew'
    BY <1>1, <1>3, <2>1, <2>2 DEF Numbering, MarksNew
  <2>5. UnmarkedDirty'
    BY <1>1, <1>2, <1>3, <1>7, <2>1 DEF Numbering, UnmarkedDirty, Marked
  <2>6. QED
    BY <1>5, <1>6, <2>3, <2>4, <2>5 DEF Numbering
<1>8. CASE job[c].evidence # {}
  <2> DEFINE row == [rev |-> n, evidence |-> Marked, final |-> job[c].final,
                     reason |-> job[c].reason]
  <2>1. latest' = latest + 1 /\ revisions' = revisions \cup {row}
    BY <1>2, <1>8 DEF CommitFinish
  <2>2. row.rev = latest + 1 /\ row.evidence = Marked
    BY <1>2
  <2> HIDE DEF row
  <2>3. RowsNumbered'
    <3>1. {v.rev : v \in revisions'} = 1..latest'
      <4>1. {v.rev : v \in revisions'} = {v.rev : v \in revisions} \cup {latest + 1}
        BY <2>1, <2>2
      <4>2. {v.rev : v \in revisions} = 1..latest
        BY DEF Numbering, RowsNumbered
      <4>3. 1..(latest + 1) = (1..latest) \cup {latest + 1}
        BY <1>2
      <4>4. QED
        BY <2>1, <4>1, <4>2, <4>3
    <3>2. \A v \in revisions : v.rev # latest + 1
      BY <1>2 DEF Numbering, RowsNumbered
    <3>3. \A v, w \in revisions' : v.rev = w.rev => v = w
      BY <2>1, <2>2, <3>2 DEF Numbering, RowsNumbered
    <3>4. QED
      BY <1>1, <3>1, <3>3 DEF RowsNumbered
  <2>4. MarksBounded'
    BY <1>1, <1>2, <1>3, <1>4, <2>1 DEF Numbering, MarksBounded, Unit
  <2>5. RowsShowMarks'
    <3>1. Marked = {e \in Evidence : firstRev[e] \in 1..(latest + 1)}
      BY <1>2, <1>4 DEF Marked, Numbering, MarksBounded, Unit
    <3>2. \A v \in revisions' : v.evidence = {e \in Evidence : firstRev[e] \in 1..v.rev}
      BY <2>1, <2>2, <3>1 DEF Numbering, RowsShowMarks
    <3>3. QED
      BY <1>1, <1>3, <3>2 DEF RowsShowMarks
  <2>6. MarksNew'
    <3>1. \A m \in 2..(latest + 1) : \E e \in Evidence : firstRev[e] = m
      <4>1. ASSUME NEW m \in 2..(latest + 1)
            PROVE  \E e \in Evidence : firstRev[e] = m
        <5>1. CASE m \in 2..latest
          BY <5>1 DEF Numbering, MarksNew
        <5>2. CASE m = latest + 1
          <6>1. latest # 0 /\ pending # 0
            BY <1>1, <1>2, <5>2
          <6>2. QED
            BY <5>2, <6>1 DEF Numbering, MarksNew
        <5>3. QED
          BY <1>2, <5>1, <5>2
      <4>2. QED
        BY <4>1
    <3>2. dirty => \E e \in Evidence : firstRev[e] = 0
      BY <1>1, <1>2 DEF Numbering, MarksNew
    <3>3. QED
      BY <1>1, <1>2, <1>3, <2>1, <3>1, <3>2 DEF MarksNew
  <2>7. UnmarkedDirty'
    <3>1. \A e \in Evidence : firstRev[e] # latest + 2
      BY <1>2, <1>4 DEF Numbering, MarksBounded, Unit
    <3>2. latest' + 1 = latest + 2
      BY <1>2, <2>1
    <3>3. QED
      BY <1>1, <1>3, <3>1, <3>2 DEF Numbering, UnmarkedDirty
  <2>8. QED
    BY <1>5, <1>6, <2>3, <2>4, <2>5, <2>6, <2>7 DEF Numbering
<1>9. QED
  BY <1>7, <1>8

\* Every step of a closer keeps the invariant.
LEMMA CloserKeeps ==
    ASSUME TypeOK, Numbering, NEW c \in Closers, CloserStep(c)
    PROVE  Numbering'
<1>1. CASE Claim(c)
  BY <1>1, ClaimKeeps
<1>2. CASE Fail(c)
  BY <1>2, FailKeeps
<1>3. CASE Finish(c)
  <2>1. \A d \in Closers : job'[d].pc = "idle" \/ job'[d] = job[d]
    BY <1>3 DEF Finish, TypeOK, Idle
  <2>2. \A d \in Closers : job'[d].pc = "idle" \/ (/\ job[d].pc # "idle"
                                                  /\ job'[d].revision = job[d].revision)
    BY <2>1
  <2>3. QED
    BY <1>3, <2>2, CommitFinishKeeps DEF Finish
<1>4. CASE FinishThenRaise(c)
  <2>1. \A d \in Closers : job'[d].pc = "idle" \/ (/\ job[d].pc # "idle"
                                                  /\ job'[d].revision = job[d].revision)
    BY <1>4 DEF FinishThenRaise, Goto, TypeOK, Jobs
  <2>2. QED
    BY <1>4, <2>1, CommitFinishKeeps DEF FinishThenRaise
<1>5. ASSUME UNCHANGED storeVars,
             \/ job' = [job EXCEPT ![c] = Idle]
             \/ job[c].pc # "idle" /\ \E pc \in {"built", "failing"} : Goto(c, pc)
      PROVE  Numbering'
  <2>1. UNCHANGED <<state, dirty, ended, latest, pending, holder, spans, rec, firstRev, revisions>>
    BY <1>5 DEF storeVars, evidenceVars, closerVars
  <2>2. CASE job' = [job EXCEPT ![c] = Idle]
    <3>1. \A d \in Closers : job'[d].pc = "idle" \/ job'[d] = job[d]
      BY <2>2 DEF TypeOK, Idle
    <3>2. QED
      BY <2>1, <3>1, JobsKeepKeeps DEF JobsKeep
  <2>3. CASE job[c].pc # "idle" /\ \E pc \in {"built", "failing"} : Goto(c, pc)
    <3>1. \A d \in Closers :
            /\ job'[d].revision = job[d].revision
            /\ job'[d].evidence = job[d].evidence
            /\ d # c => job'[d] = job[d]
      BY <2>3 DEF Goto, TypeOK, Jobs
    <3>2. QED
      BY <2>1, <2>3, <3>1, JobsKeepKeeps DEF JobsKeep
  <2>4. QED
    BY <1>5, <2>2, <2>3
<1>6. CASE Materialize(c) \/ SnapshotGone(c) \/ BuildFails(c) \/ Abandon(c)
  BY <1>5, <1>6 DEF Materialize, SnapshotGone, BuildFails, Abandon
<1>7. CASE FinishStale(c) \/ FinishFails(c) \/ FailIgnored(c)
  BY <1>5, <1>7 DEF FinishStale, FinishFails, FailIgnored
<1>8. QED
  BY <1>1, <1>2, <1>3, <1>4, <1>6, <1>7 DEF CloserStep

\* So do a crash, a restart and the release of the leases.
LEMMA ServerKeeps ==
    ASSUME TypeOK, Numbering, ServerStep
    PROVE  Numbering'
<1>1. UNCHANGED <<state, dirty, ended, latest, pending, holder, spans, rec, firstRev, revisions>>
  BY DEF ServerStep, Crash, Restart, ReleaseLeases, evidenceVars, closerVars
<1>2. \A c \in Closers : job'[c].pc = "idle" \/ job'[c] = job[c]
  BY DEF ServerStep, Crash, Restart, ReleaseLeases, Idle
<1>3. QED
  BY <1>1, <1>2, JobsKeepKeeps DEF JobsKeep

\* Numbering is inductive: it holds in every reachable state of every instance.
THEOREM NumberingInvariant == Spec => []Numbering
<1>1. Init => Numbering
  <2> SUFFICES ASSUME Init PROVE Numbering
    OBVIOUS
  <2>1. Evidence = {} /\ ~Exists
    BY DEF Init, Evidence, StoredRecordings, Exists
  <2>2. NoRow
    BY DEF Init, NoRow
  <2>3. RowsNumbered /\ MarksBounded /\ RowsShowMarks
    BY DEF Init, RowsNumbered, MarksBounded, RowsShowMarks
  <2>4. SnapshotHeld
    BY DEF Init, SnapshotHeld, Idle
  <2>5. MarksNew /\ UnmarkedDirty
    BY <2>1 DEF Init, MarksNew, UnmarkedDirty
  <2>6. QED
    BY <2>2, <2>3, <2>4, <2>5 DEF Numbering
<1>2. TypeOK /\ Numbering /\ [Next]_vars => Numbering'
  <2> SUFFICES ASSUME TypeOK, Numbering, [Next]_vars
               PROVE  Numbering'
    OBVIOUS
  <2>1. CASE StoreStep /\ UNCHANGED <<job, faults>>
    BY <2>1, StoreGathers, GathersKeeps, PurgeKeeps
  <2>2. CASE \E c \in Closers : CloserStep(c)
    BY <2>2, CloserKeeps
  <2>3. CASE ServerStep
    BY <2>3, ServerKeeps
  <2>4. CASE UNCHANGED vars
    <3>1. /\ UNCHANGED <<state, dirty, ended, latest, pending, holder, spans, rec, firstRev,
                        revisions>>
          /\ UNCHANGED job
      BY <2>4 DEF vars, storeVars, evidenceVars, closerVars
    <3>2. QED
      BY <3>1, JobsKeepKeeps DEF JobsKeep
  <2>5. QED
    BY <2>1, <2>2, <2>3, <2>4 DEF Next
<1>3. QED
  BY <1>1, <1>2, TypeCorrect, PTL DEF Spec

-----------------------------------------------------------------------------
(* The properties                                                          *)

\* Revisions are 1..latest, one row each, and revision n was built from exactly the
\* evidence marked 1..n.
THEOREM RevisionsExactAlways == Spec => []RevisionsExact
<1>1. Numbering => RevisionsExact
  BY DEF Numbering, RowsNumbered, RowsShowMarks, RevisionsExact
<1>2. QED
  BY <1>1, NumberingInvariant, PTL

\* A pending revision is never stored already, so no call is ever set aside.
THEOREM NeverSetAsideAlways == Spec => []NeverSetAside
<1>1. TypeOK /\ Numbering => NeverSetAside
  BY DEF TypeOK, Numbering, RowsNumbered, NeverSetAside, PendingStored
<1>2. QED
  BY <1>1, TypeCorrect, NumberingInvariant, PTL

\* Every revision shows what its predecessors show, and something more.
THEOREM EveryRevisionHasNewsAlways == Spec => []EveryRevisionHasNews
<1>1. TypeOK /\ Numbering => EveryRevisionHasNews
  <2> SUFFICES ASSUME TypeOK, Numbering,
                      NEW v \in revisions, NEW w \in revisions, v.rev < w.rev
               PROVE  v.evidence \subseteq w.evidence /\ v.evidence # w.evidence
    BY DEF EveryRevisionHasNews
  <2>1. v.rev \in 1..latest /\ w.rev \in 1..latest /\ latest \in Nat
    BY DEF Numbering, RowsNumbered, TypeOK
  <2>2. /\ v.evidence = {e \in Evidence : firstRev[e] \in 1..v.rev}
        /\ w.evidence = {e \in Evidence : firstRev[e] \in 1..w.rev}
    BY DEF Numbering, RowsShowMarks
  <2>3. v.evidence \subseteq w.evidence
    BY <2>1, <2>2
  <2>4. w.rev \in 2..latest
    BY <2>1
  <2>5. PICK e \in Evidence : firstRev[e] = w.rev
    BY <2>4 DEF Numbering, MarksNew
  <2>6. e \in w.evidence /\ e \notin v.evidence
    BY <2>1, <2>2, <2>5
  <2>7. QED
    BY <2>3, <2>6
<1>2. QED
  BY <1>1, TypeCorrect, NumberingInvariant, PTL

\* Evidence the latest revision does not show leaves its call dirty or pending.
THEOREM NoEvidenceLostAlways == Spec => []NoEvidenceLost
<1>1. TypeOK /\ Numbering => NoEvidenceLost
  <2> SUFFICES ASSUME TypeOK, Numbering, ~dirty, pending = 0,
                      NEW e \in Evidence \ TailSpans
               PROVE  e \in LatestEvidence
    BY DEF NoEvidenceLost
  <2>1. latest \in Nat /\ e \in Unit /\ firstRev[e] \in Nat
    BY DEF TypeOK, Evidence, StoredRecordings, Unit
  <2>2. firstRev[e] # 0 /\ firstRev[e] # latest + 1
    BY DEF Numbering, UnmarkedDirty
  <2>3. firstRev[e] \in 1..latest
    BY <2>1, <2>2 DEF Numbering, MarksBounded, Unit
  <2>4. latest \in {v.rev : v \in revisions}
    BY <2>1, <2>3 DEF Numbering, RowsNumbered
  <2>5. PICK v \in revisions : v.rev = latest
    BY <2>4
  <2>6. e \in v.evidence
    BY <2>3, <2>5 DEF Numbering, RowsShowMarks
  <2>7. QED
    BY <2>5, <2>6 DEF LatestEvidence
<1>2. QED
  BY <1>1, TypeCorrect, NumberingInvariant, PTL

-----------------------------------------------------------------------------
(* The end of the call and the cap                                         *)

Final == EndKnown /\ ClaimsTrue /\ EndSignalPending /\ RevisionLimit /\ CloseReasonsTrue
Capped == CapCounted /\ PastCapTold

-----------------------------------------------------------------------------
(* Steps that store no revision                                            *)

\* The call's row keeps its revisions and its holder, and its end signal is an end marker's;
\* an end signal that comes makes the call dirty, and a dirty call is not cleaned.
EndGathers ==
    /\ UNCHANGED <<latest, pending, holder, revisions>>
    /\ Exists' => Exists \/ NoRow
    /\ EndKnown'
    /\ ended => ended'
    /\ ended' /\ ~ended => dirty'
    /\ dirty => dirty'

\* Every claim stays as it is or is dropped.
ClaimsStay ==
    \A c \in Closers :
        job'[c].pc = "idle"
        \/ (/\ job[c].pc # "idle"
            /\ job'[c].revision = job[c].revision /\ job'[c].evidence = job[c].evidence
            /\ job'[c].final = job[c].final /\ job'[c].reason = job[c].reason)

\* A step of which both hold keeps what the revisions say of the end.
LEMMA EndGathersKeeps ==
    ASSUME TypeOK, Numbering, Final, EndGathers, ClaimsStay
    PROVE  Final'
<1>1. FinalStored' = FinalStored /\ RevisionLimit' /\ CloseReasonsTrue'
  BY DEF EndGathers, FinalStored, Final, RevisionLimit, CloseReasonsTrue
<1>2. EndSignalPending'
  <2>1. SUFFICES ASSUME Exists', ended', ~FinalStored
                 PROVE  dirty' \/ pending # 0
    BY <1>1 DEF EndSignalPending, EndGathers
  <2>2. CASE Exists /\ ended
    BY <2>1, <2>2 DEF Final, EndSignalPending, EndGathers
  <2>3. CASE ~ended
    BY <2>1, <2>3 DEF EndGathers
  <2>4. CASE ~Exists /\ ended
    BY <2>4 DEF Numbering, NoRow
  <2>5. QED
    BY <2>2, <2>3, <2>4
<1>3. ClaimsTrue'
  <2> SUFFICES ASSUME NEW c \in Closers, job'[c].pc # "idle"
               PROVE  /\ job'[c].final <=> job'[c].evidence \cap EndMarkers # {}
                      /\ Holds(c)' =>
                           /\ ended' /\ ~job'[c].final => dirty'
                           /\ job'[c].reason = "end_signal" <=> job'[c].final /\ ~FinalStored'
                           /\ job'[c].reason = "quiet_period"
                                <=> job'[c].revision = 1 /\ ~job'[c].final
                           /\ latest' < RevisionCap \/ (job'[c].final /\ ~FinalStored')
    BY DEF ClaimsTrue
  <2>1. /\ job[c].pc # "idle"
        /\ job'[c].revision = job[c].revision /\ job'[c].evidence = job[c].evidence
        /\ job'[c].final = job[c].final /\ job'[c].reason = job[c].reason
    BY DEF ClaimsStay
  <2>2. job[c].revision # 0
    BY <2>1 DEF Numbering, SnapshotHeld
  <2>3. Holds(c)' => Holds(c)
    BY <2>1, <2>2 DEF Holds, EndGathers, Numbering, NoRow
  <2>4. job[c].final <=> job[c].evidence \cap EndMarkers # {}
    BY <2>1 DEF Final, ClaimsTrue
  <2>5. Holds(c) => /\ ended /\ ~job[c].final => dirty
                    /\ job[c].reason = "end_signal" <=> job[c].final /\ ~FinalStored
                    /\ job[c].reason = "quiet_period" <=> job[c].revision = 1 /\ ~job[c].final
                    /\ latest < RevisionCap \/ (job[c].final /\ ~FinalStored)
    BY <2>1 DEF Final, ClaimsTrue
  <2>6. ended' /\ ~ended => dirty'
    BY DEF EndGathers
  <2>7. (dirty => dirty') /\ latest' = latest
    BY DEF EndGathers
  <2>8. QED
    BY <1>1, <2>1, <2>3, <2>4, <2>5, <2>6, <2>7
<1>4. QED
  BY <1>1, <1>2, <1>3 DEF Final, EndGathers

\* Every step of the store but a purge is one.
LEMMA StoreEndGathers ==
    ASSUME TypeOK, Numbering, EndKnown, StoreStep
    PROVE  EndGathers \/ PurgeCall
<1>1. ASSUME NEW batch \in SUBSET (Spans \ spans), NEW joined \in SUBSET (Spans \ spans),
             RecordSpans(batch, joined)
      PROVE  EndGathers
  <2> DEFINE giveEnd == ~ended /\ (batch \cup joined) \cap EndMarkers # {}
  <2>1. UNCHANGED <<latest, pending, holder, revisions>>
    BY <1>1 DEF RecordSpans, closerVars
  <2>2. spans' = spans \cup batch \cup joined
    BY <1>1 DEF RecordSpans
  <2>3. Exists' => Exists \/ NoRow
    BY <1>1 DEF Numbering, NoRow
  <2>4. CASE AddEvidence(giveEnd)
    <3>1. dirty' /\ ended' = (ended \/ giveEnd)
      BY <2>4 DEF AddEvidence
    <3>2. EndKnown'
      BY <2>2, <3>1 DEF EndKnown
    <3>3. QED
      BY <2>1, <2>3, <3>1, <3>2 DEF EndGathers, TypeOK
  <2>5. CASE ~IsEvidence(batch, joined, giveEnd) /\ UNCHANGED <<dirty, ended>>
    <3>1. ~giveEnd
      BY <2>5 DEF IsEvidence
    <3>2. EndKnown'
      BY <2>2, <2>5, <3>1 DEF EndKnown
    <3>3. QED
      BY <2>1, <2>3, <2>5, <3>2 DEF EndGathers
  <2>6. QED
    BY <1>1, <2>4, <2>5 DEF RecordSpans
<1>2. ASSUME NEW r \in Recordings, CreateRecording(r)
      PROVE  EndGathers
  <2>1. UNCHANGED <<latest, pending, holder, revisions, ended, spans>>
    BY <1>2 DEF CreateRecording, closerVars
  <2>2. Exists' => Exists \/ NoRow
    BY DEF Numbering, NoRow
  <2>3. dirty => dirty'
    BY <1>2 DEF CreateRecording
  <2>4. QED
    BY <2>1, <2>2, <2>3 DEF EndGathers, EndKnown
<1>3. ASSUME NEW r \in Recordings, FinishUpload(r)
      PROVE  EndGathers
  <2>1. UNCHANGED <<latest, pending, holder, revisions, spans>>
    BY <1>3 DEF FinishUpload, closerVars
  <2>2. Exists' => Exists \/ NoRow
    BY DEF Numbering, NoRow
  <2>3. dirty' /\ ended' = ended
    BY <1>3 DEF FinishUpload, AddEvidence, TypeOK
  <2>4. QED
    BY <2>1, <2>2, <2>3 DEF EndGathers, EndKnown
<1>4. ASSUME UNCHANGED <<latest, pending, holder, revisions, ended, spans, dirty, state>>
      PROVE  EndGathers
  BY <1>4 DEF EndGathers, EndKnown, Exists
<1>5. ASSUME NEW r \in Recordings, BeginUpload(r) \/ \E still \in BOOLEAN : EndUpload(r, still)
      PROVE  EndGathers
  BY <1>4, <1>5 DEF BeginUpload, EndUpload, closerVars
<1>6. CASE FailStaleUploads
  BY <1>4, <1>6 DEF FailStaleUploads, closerVars
<1>7. CASE Tick
  BY <1>4, <1>7 DEF Tick
<1>8. QED
  BY <1>1, <1>2, <1>3, <1>5, <1>6, <1>7 DEF StoreStep

\* A purge leaves no revision, no end signal and no claim that holds the call.
LEMMA PurgeKeepsFinal ==
    ASSUME Final, PurgeCall, UNCHANGED job
    PROVE  Final'
<1>1. ~Exists' /\ ~ended' /\ revisions' = {} /\ spans' = {}
  BY DEF PurgeCall, Exists
<1>2. EndKnown' /\ EndSignalPending' /\ RevisionLimit' /\ CloseReasonsTrue'
  BY <1>1 DEF EndKnown, EndSignalPending, RevisionLimit, CloseReasonsTrue
<1>3. ClaimsTrue'
  BY <1>1 DEF Final, ClaimsTrue, Holds
<1>4. QED
  BY <1>2, <1>3 DEF Final

-----------------------------------------------------------------------------
(* Claim, finish and fail                                                  *)

\* A claim takes down the finality and the reason of the revision it will store.
LEMMA ClaimKeepsFinal ==
    ASSUME TypeOK, Numbering, Final, NEW c \in Closers, Claim(c)
    PROVE  Final'
<1>1. /\ UNCHANGED <<state, ended, spans, latest, revisions>>
      /\ holder' = c /\ pending' = latest + 1 /\ Uncapped
  BY DEF Claim, Claimable
<1>2. FinalStored' = FinalStored /\ EndKnown' /\ RevisionLimit' /\ CloseReasonsTrue'
  BY <1>1 DEF Final, FinalStored, EndKnown, RevisionLimit, CloseReasonsTrue
<1>3. EndSignalPending'
  BY <1>1 DEF EndSignalPending, TypeOK
<1>4. Evidence \cap EndMarkers = spans \cap EndMarkers
  BY StoreAssumption DEF Evidence, StoredRecordings
<1>5. latest = 0 => ~FinalStored
  BY DEF Numbering, RowsNumbered, FinalStored
<1>6. ClaimsTrue'
  <2> SUFFICES ASSUME NEW d \in Closers, job'[d].pc # "idle"
               PROVE  /\ job'[d].final <=> job'[d].evidence \cap EndMarkers # {}
                      /\ Holds(d)' =>
                           /\ ended' /\ ~job'[d].final => dirty'
                           /\ job'[d].reason = "end_signal" <=> job'[d].final /\ ~FinalStored'
                           /\ job'[d].reason = "quiet_period"
                                <=> job'[d].revision = 1 /\ ~job'[d].final
                           /\ latest' < RevisionCap \/ (job'[d].final /\ ~FinalStored')
    BY DEF ClaimsTrue
  <2>1. CASE d = c
    <3>1. job'[c] = [pc |-> "claimed", revision |-> latest + 1, evidence |-> Evidence,
                     final |-> ended, reason |-> CloseReason]
      BY DEF Claim, TypeOK
    <3>2. ended <=> Evidence \cap EndMarkers # {}
      BY <1>4 DEF Final, EndKnown
    <3>3. /\ CloseReason = "end_signal" <=> ended /\ ~FinalStored
          /\ CloseReason = "quiet_period" <=> latest + 1 = 1 /\ ~ended
      BY <1>5 DEF CloseReason, TypeOK
    <3>4. latest < RevisionCap \/ (ended /\ ~FinalStored)
      BY <1>1 DEF Uncapped, UncappedWith
    <3>5. QED
      BY <1>1, <1>2, <2>1, <3>1, <3>2, <3>3, <3>4
  <2>2. CASE d # c
    <3>1. job'[d] = job[d]
      BY <2>2 DEF Claim, TypeOK
    <3>2. ~Holds(d)'
      BY <1>1, <2>2 DEF Holds
    <3>3. QED
      BY <3>1, <3>2 DEF Final, ClaimsTrue
  <2>3. QED
    BY <2>1, <2>2
<1>7. QED
  BY <1>2, <1>3, <1>6 DEF Final

\* fail leaves the call dirty, and no claim that holds it.
LEMMA FailKeepsFinal ==
    ASSUME TypeOK, Numbering, Final, NEW c \in Closers, Fail(c)
    PROVE  Final'
<1>1. /\ UNCHANGED <<state, ended, spans, latest, revisions, holder>>
      /\ dirty' /\ pending' = 0
  BY DEF Fail, PutOff
<1>2. EndKnown' /\ EndSignalPending' /\ RevisionLimit' /\ CloseReasonsTrue'
  BY <1>1 DEF Final, EndKnown, EndSignalPending, RevisionLimit, CloseReasonsTrue
<1>3. ClaimsTrue'
  <2>1. \A d \in Closers : job'[d].pc = "idle" \/ job'[d] = job[d]
    BY DEF Fail, TypeOK, Idle
  <2>2. \A d \in Closers : job[d].pc # "idle" => job[d].revision # 0
    BY DEF Numbering, SnapshotHeld
  <2>3. \A d \in Closers : job'[d].pc # "idle" => ~Holds(d)'
    BY <1>1, <2>1, <2>2 DEF Holds
  <2>4. QED
    BY <2>1, <2>3 DEF Final, ClaimsTrue
<1>4. QED
  BY <1>2, <1>3 DEF Final

\* The finish stores the revision as the claim took it down.
LEMMA CommitKeepsFinal ==
    ASSUME TypeOK, Numbering, Final, NEW c \in Closers, CommitFinish(c), job[c].pc = "built",
           \A d \in Closers : job'[d].pc = "idle" \/ (/\ job[d].pc # "idle"
                                                    /\ job'[d].revision = job[d].revision
                                                    /\ job'[d].evidence = job[d].evidence
                                                    /\ job'[d].final = job[d].final)
    PROVE  Final'
<1> DEFINE j == job[c]
           row == [rev |-> j.revision, evidence |-> j.evidence, final |-> j.final,
                   reason |-> j.reason]
<1>1. UNCHANGED <<dirty, ended, spans, holder>> /\ pending' = 0 /\ Holds(c)
  BY DEF CommitFinish, CloseRow
<1>2. /\ j.final <=> j.evidence \cap EndMarkers # {}
      /\ ended /\ ~j.final => dirty
      /\ j.reason = "end_signal" <=> j.final /\ ~FinalStored
      /\ j.reason = "quiet_period" <=> j.revision = 1 /\ ~j.final
      /\ latest < RevisionCap \/ (j.final /\ ~FinalStored)
  BY <1>1 DEF Final, ClaimsTrue
<1>3. j.revision = latest + 1 /\ latest \in Nat /\ RevisionCap \in Nat
  BY <1>1, StoreAssumption DEF Holds, Numbering, SnapshotHeld, RowsNumbered, TypeOK
<1>4. \A v \in revisions : v.rev \in 1..latest
  BY DEF Numbering, RowsNumbered
<1>5. EndKnown'
  BY <1>1 DEF Final, EndKnown
<1>6. ClaimsTrue'
  <2>1. \A d \in Closers : job'[d].pc # "idle" => ~Holds(d)'
    BY <1>1 DEF Holds, Numbering, SnapshotHeld
  <2>2. QED
    BY <2>1 DEF Final, ClaimsTrue
<1>7. CASE j.evidence = {}
  <2>1. UNCHANGED <<latest, revisions>>
    BY <1>7 DEF CommitFinish
  <2>2. ended => dirty
    BY <1>2, <1>7
  <2>3. EndSignalPending' /\ RevisionLimit' /\ CloseReasonsTrue'
    BY <1>1, <2>1, <2>2 DEF Final, EndSignalPending, RevisionLimit, CloseReasonsTrue
  <2>4. QED
    BY <1>5, <1>6, <2>3 DEF Final
<1>8. CASE j.evidence # {}
  <2>1. revisions' = revisions \cup {row}
    BY <1>8 DEF CommitFinish
  <2>2. row.rev = latest + 1 /\ row.final = j.final /\ row.evidence = j.evidence
        /\ row.reason = j.reason
    BY <1>3
  <2> HIDE DEF row
  <2>3. EndSignalPending'
    <3>1. j.final => FinalStored'
      BY <2>1, <2>2 DEF FinalStored
    <3>2. QED
      BY <1>1, <1>2, <3>1 DEF EndSignalPending
  <2>4. RevisionLimit'
    <3> SUFFICES ASSUME NEW v \in revisions', v.rev > RevisionCap
                 PROVE  /\ v.rev = RevisionCap + 1
                        /\ v.final
                        /\ \A w \in revisions' : w.final => w = v
      BY DEF RevisionLimit
    <3>1. CASE latest < RevisionCap
      BY <1>3, <1>4, <2>1, <2>2, <3>1
    <3>2. CASE ~(latest < RevisionCap)
      <4>1. j.final /\ ~FinalStored
        BY <1>2, <3>2
      <4>2. \A u \in revisions : ~u.final /\ u.rev <= RevisionCap
        BY <1>3, <1>4, <4>1 DEF Final, RevisionLimit, FinalStored
      <4>3. v = row
        BY <1>3, <1>4, <2>1, <4>2
      <4>4. latest <= RevisionCap
        <5>1. CASE latest = 0
          BY <5>1, StoreAssumption
        <5>2. CASE latest # 0
          <6>1. latest \in {u.rev : u \in revisions}
            BY <1>3, <5>2 DEF Numbering, RowsNumbered
          <6>2. QED
            BY <4>2, <6>1
        <5>3. QED
          BY <5>1, <5>2
      <4>5. v.rev = RevisionCap + 1
        BY <1>3, <2>2, <3>2, <4>3, <4>4
      <4>6. \A w \in revisions' : w.final => w = v
        BY <2>1, <4>2, <4>3
      <4>7. QED
        BY <2>2, <4>1, <4>3, <4>5, <4>6
    <3>3. QED
      BY <3>1, <3>2
  <2>5. CloseReasonsTrue'
    <3>1. \A v \in revisions : \A w \in revisions' : w.rev < v.rev => w \in revisions
      BY <1>3, <1>4, <2>1, <2>2
    <3>2. \A w \in revisions' : w.rev < row.rev <=> w \in revisions
      BY <1>3, <1>4, <2>1, <2>2
    <3>3. ASSUME NEW v \in revisions
          PROVE  /\ v.final <=> v.evidence \cap EndMarkers # {}
                 /\ v.reason = "end_signal"
                      <=> v.final /\ \A w \in revisions' : w.rev < v.rev => ~w.final
                 /\ v.reason = "quiet_period" <=> v.rev = 1 /\ ~v.final
      <4>1. (\A w \in revisions' : w.rev < v.rev => ~w.final)
              <=> (\A w \in revisions : w.rev < v.rev => ~w.final)
        BY <2>1, <3>1
      <4>2. QED
        BY <4>1 DEF Final, CloseReasonsTrue
    <3>4. /\ row.final <=> row.evidence \cap EndMarkers # {}
          /\ row.reason = "end_signal"
               <=> row.final /\ \A w \in revisions' : w.rev < row.rev => ~w.final
          /\ row.reason = "quiet_period" <=> row.rev = 1 /\ ~row.final
      <4>1. (\A w \in revisions' : w.rev < row.rev => ~w.final) <=> ~FinalStored
        BY <2>1, <3>2 DEF FinalStored
      <4>2. QED
        BY <1>2, <1>3, <2>2, <4>1
    <3>5. QED
      BY <2>1, <3>3, <3>4 DEF CloseReasonsTrue
  <2>6. QED
    BY <1>5, <1>6, <2>3, <2>4, <2>5 DEF Final
<1>9. QED
  BY <1>7, <1>8

\* Every step of the specification keeps it.
LEMMA FinalInductive ==
    ASSUME TypeOK, Numbering, Final, [Next]_vars
    PROVE  Final'
<1>1. ASSUME UNCHANGED <<state, dirty, ended, latest, pending, holder, spans, revisions>>
      PROVE  EndGathers
  BY <1>1 DEF EndGathers, Exists, Final, EndKnown
<1>2. CASE StoreStep /\ UNCHANGED <<job, faults>>
  <2>1. ClaimsStay
    BY <1>2 DEF ClaimsStay
  <2>2. EndKnown
    BY DEF Final
  <2>3. QED
    BY <1>2, <2>1, <2>2, StoreEndGathers, EndGathersKeeps, PurgeKeepsFinal
<1>3. ASSUME NEW c \in Closers, CloserStep(c)
      PROVE  Final'
  <2>1. CASE Claim(c)
    BY <2>1, ClaimKeepsFinal
  <2>2. CASE Fail(c)
    BY <2>2, FailKeepsFinal
  <2>3. CASE Finish(c) \/ FinishThenRaise(c)
    <3>1. \A d \in Closers : job'[d].pc = "idle" \/ (/\ job[d].pc # "idle"
                                                    /\ job'[d].revision = job[d].revision
                                                    /\ job'[d].evidence = job[d].evidence
                                                    /\ job'[d].final = job[d].final)
      BY <2>3 DEF Finish, FinishThenRaise, Goto, TypeOK, Jobs, Idle
    <3>2. QED
      BY <2>3, <3>1, CommitKeepsFinal DEF Finish, FinishThenRaise
  <2>4. ASSUME UNCHANGED storeVars,
               \/ job' = [job EXCEPT ![c] = Idle]
               \/ job[c].pc # "idle" /\ \E pc \in {"built", "failing"} : Goto(c, pc)
        PROVE  Final'
    <3>1. EndGathers
      BY <1>1, <2>4 DEF storeVars, evidenceVars, closerVars
    <3>2. ClaimsStay
      BY <2>4 DEF ClaimsStay, Goto, TypeOK, Jobs, Idle
    <3>3. QED
      BY <3>1, <3>2, EndGathersKeeps
  <2>5. CASE Materialize(c) \/ SnapshotGone(c) \/ BuildFails(c) \/ Abandon(c)
    BY <2>4, <2>5 DEF Materialize, SnapshotGone, BuildFails, Abandon
  <2>6. CASE FinishStale(c) \/ FinishFails(c) \/ FailIgnored(c)
    BY <2>4, <2>6 DEF FinishStale, FinishFails, FailIgnored
  <2>7. QED
    BY <1>3, <2>1, <2>2, <2>3, <2>5, <2>6 DEF CloserStep
<1>4. CASE ServerStep
  <2>1. EndGathers
    BY <1>1, <1>4 DEF ServerStep, Crash, Restart, ReleaseLeases, evidenceVars, closerVars
  <2>2. ClaimsStay
    BY <1>4 DEF ServerStep, Crash, Restart, ReleaseLeases, ClaimsStay, Idle
  <2>3. QED
    BY <2>1, <2>2, EndGathersKeeps
<1>5. CASE UNCHANGED vars
  <2>1. EndGathers
    BY <1>1, <1>5 DEF vars, storeVars, evidenceVars, closerVars
  <2>2. ClaimsStay
    BY <1>5 DEF ClaimsStay, vars
  <2>3. QED
    BY <2>1, <2>2, EndGathersKeeps
<1>6. QED
  BY <1>2, <1>3, <1>4, <1>5 DEF Next

-----------------------------------------------------------------------------
(* Evidence past the cap                                                   *)

\* A step that leaves the mark, the counter and the revisions alone, and makes no call past
\* the cap dirty.
LEMMA CapStays ==
    ASSUME Capped, UNCHANGED <<pastCap, capCounted, capReached, latest, revisions>>,
           Exists => Exists', state = "purged" => state' = "purged",
           Evidence \subseteq Evidence',
           Exists' /\ dirty' /\ ~Uncapped' => Exists /\ dirty /\ ~Uncapped
    PROVE  Capped'
<1>1. CapCounted'
  BY DEF Capped, CapCounted
<1>2. LatestEvidence' = LatestEvidence
  BY DEF LatestEvidence
<1>3. PastCapTold'
  BY <1>2 DEF Capped, PastCapTold
<1>4. QED
  BY <1>1, <1>3 DEF Capped

\* note_evidence_past_cap: the mark it leaves, and the counter with it.
LEMMA NotePastCapMarks ==
    ASSUME TypeOK, NEW isDirty \in BOOLEAN, NEW lat, NEW end \in BOOLEAN, NEW final \in BOOLEAN,
           NEW flagged \in BOOLEAN, NotePastCap(isDirty, lat, end, final, flagged),
           flagged => capCounted, capReached = IF capCounted THEN 1 ELSE 0
    PROVE  /\ pastCap' <=> flagged \/ (isDirty /\ ~UncappedWith(lat, end, final))
           /\ pastCap' => capCounted'
           /\ capReached' = IF capCounted' THEN 1 ELSE 0
<1> DEFINE flag == isDirty /\ ~flagged /\ ~UncappedWith(lat, end, final)
<1>1. /\ pastCap' = (flagged \/ flag)
      /\ capCounted' = (capCounted \/ flag)
      /\ capReached' = IF flag /\ ~capCounted THEN capReached + 1 ELSE capReached
  BY DEF NotePastCap
<1>2. flag \in BOOLEAN /\ capCounted \in BOOLEAN
  BY DEF TypeOK
<1>3. (pastCap' <=> flagged \/ flag) /\ (capCounted' <=> capCounted \/ flag)
  BY <1>1, <1>2
<1>4. QED
  <2>1. pastCap' <=> flagged \/ (isDirty /\ ~UncappedWith(lat, end, final))
    BY <1>3
  <2>2. pastCap' => capCounted'
    BY <1>3
  <2> HIDE DEF flag
  <2>3. capReached' = IF capCounted' THEN 1 ELSE 0
    BY <1>1, <1>3
  <2>4. QED
    BY <2>1, <2>2, <2>3

\* What a call's latest revision shows is evidence.
LEMMA LatestShowsEvidence ==
    ASSUME Numbering
    PROVE  LatestEvidence \subseteq Evidence
BY DEF Numbering, RowsShowMarks, LatestEvidence

\* New evidence at the cap is past it.
LEMMA AddEvidenceMarks ==
    ASSUME TypeOK, Numbering, Capped, NEW giveEnd \in BOOLEAN, AddEvidence(giveEnd),
           state # "purged", Exists', UNCHANGED <<latest, revisions>>,
           Evidence \subseteq Evidence', \E e \in Evidence' : e \notin Evidence
    PROVE  Capped'
<1>1. LatestEvidence' = LatestEvidence /\ ~(Evidence' \subseteq LatestEvidence)
  BY LatestShowsEvidence DEF LatestEvidence
<1>2. FinalStored' = FinalStored /\ ended' = (ended \/ giveEnd)
  BY DEF FinalStored, AddEvidence
<1>3. /\ capReached = IF capCounted THEN 1 ELSE 0
      /\ pastCap => capCounted /\ latest >= RevisionCap
  BY DEF Capped, CapCounted, PastCapTold
<1>4. Uncapped' <=> UncappedWith(latest, ended', FinalStored)
  BY <1>2 DEF Uncapped
<1>5. CASE latest >= RevisionCap
  <2>1. NotePastCap(TRUE, latest, ended', FinalStored, pastCap)
    BY <1>2, <1>5 DEF AddEvidence
  <2>2. pastCap \in BOOLEAN /\ ended' \in BOOLEAN /\ FinalStored \in BOOLEAN
    BY <1>2 DEF TypeOK, FinalStored
  <2>3. /\ pastCap' <=> pastCap \/ ~UncappedWith(latest, ended', FinalStored)
        /\ pastCap' => capCounted'
        /\ capReached' = IF capCounted' THEN 1 ELSE 0
    BY <1>3, <2>1, <2>2, NotePastCapMarks
  <2>4. CapCounted'
    BY <2>3 DEF CapCounted
  <2>5. PastCapTold'
    BY <1>1, <1>4, <1>5, <2>3 DEF PastCapTold
  <2>6. QED
    BY <2>4, <2>5 DEF Capped
<1>6. CASE ~(latest >= RevisionCap)
  <2>1. UNCHANGED <<pastCap, capCounted, capReached>> /\ ~pastCap
    BY <1>3, <1>6 DEF AddEvidence, capVars
  <2>2. latest < RevisionCap
    BY <1>6, StoreAssumption DEF TypeOK
  <2>3. Uncapped'
    BY <1>4, <2>2 DEF UncappedWith
  <2>4. CapCounted'
    BY <1>3, <2>1 DEF CapCounted
  <2>5. PastCapTold'
    BY <2>1, <2>3 DEF PastCapTold, Capped
  <2>6. QED
    BY <2>4, <2>5 DEF Capped
<1>7. QED
  BY <1>5, <1>6

\* Every step of the store keeps the mark and the counter right.
LEMMA StoreKeepsCapped ==
    ASSUME TypeOK, Numbering, Capped, StoreStep
    PROVE  Capped'
<1>1. ASSUME NEW batch \in SUBSET (Spans \ spans), NEW joined \in SUBSET (Spans \ spans),
             RecordSpans(batch, joined)
      PROVE  Capped'
  <2> DEFINE giveEnd == ~ended /\ (batch \cup joined) \cap EndMarkers # {}
  <2>1. /\ UNCHANGED <<latest, revisions>> /\ state # "purged" /\ state' # "purged"
        /\ spans' = spans \cup batch \cup joined /\ rec' = rec /\ batch \cup joined # {}
    BY <1>1 DEF RecordSpans, closerVars
  <2>2. Evidence' = Evidence \cup batch \cup joined
    BY <2>1 DEF Evidence, StoredRecordings
  <2>3. (batch \cup joined) \cap Evidence = {}
    BY StoreAssumption DEF Evidence, StoredRecordings
  <2>4. \E e \in Evidence' : e \notin Evidence
    BY <2>1, <2>2, <2>3
  <2>5. Exists'
    BY <1>1 DEF RecordSpans, Exists, TypeOK
  <2>6. CASE AddEvidence(giveEnd)
    <3>1. giveEnd \in BOOLEAN
      OBVIOUS
    <3> HIDE DEF giveEnd
    <3>2. QED
      BY <2>1, <2>2, <2>4, <2>5, <2>6, <3>1, AddEvidenceMarks
  <2>7. CASE UNCHANGED <<dirty, ended, capVars>>
    <3>1. UNCHANGED <<pastCap, capCounted, capReached>>
      BY <2>7 DEF capVars
    <3>2. Uncapped' = Uncapped
      BY <2>1, <2>7 DEF Uncapped, UncappedWith, FinalStored
    <3>3. ~Exists => ~dirty
      BY DEF Numbering, NoRow
    <3>4. QED
      BY <2>1, <2>2, <2>5, <2>7, <3>1, <3>2, <3>3, CapStays
  <2>8. QED
    BY <1>1, <2>6, <2>7 DEF RecordSpans
<1>2. ASSUME NEW r \in Recordings, CreateRecording(r)
      PROVE  Capped'
  <2>1. /\ UNCHANGED <<pastCap, capCounted, capReached, latest, revisions, ended>>
        /\ state # "purged" /\ (Exists => Exists')
    BY <1>2 DEF CreateRecording, closerVars, capVars, Exists
  <2>2. Evidence' = Evidence
    BY <1>2 DEF CreateRecording, Evidence, StoredRecordings, TypeOK
  <2>3. Uncapped' = Uncapped
    BY <2>1 DEF Uncapped, UncappedWith, FinalStored
  <2>4. CASE Exists
    <3>1. dirty' = dirty
      BY <1>2, <2>4 DEF CreateRecording, Exists
    <3>2. QED
      BY <2>1, <2>2, <2>3, <2>4, <3>1, CapStays
  <2>5. CASE ~Exists
    <3>1. latest < RevisionCap
      BY <2>5, StoreAssumption DEF Numbering, NoRow
    <3>2. Uncapped
      BY <3>1 DEF Uncapped, UncappedWith
    <3>3. QED
      BY <2>1, <2>2, <2>3, <3>2, CapStays
  <2>6. QED
    BY <2>4, <2>5
<1>3. ASSUME NEW r \in Recordings, FinishUpload(r)
      PROVE  Capped'
  <2>1. UNCHANGED <<state, latest, revisions>> /\ AddEvidence(FALSE)
    BY <1>3 DEF FinishUpload, closerVars
  <2>2. Evidence' = Evidence \cup {r} /\ r \notin Evidence
    BY <1>3, StoreAssumption DEF FinishUpload, Evidence, StoredRecordings, TypeOK
  <2>3. Exists /\ Exists' /\ state # "purged"
    BY <1>3, <2>1 DEF FinishUpload, Numbering, NoRow, Exists
  <2>4. QED
    BY <2>1, <2>2, <2>3, AddEvidenceMarks
<1>4. ASSUME UNCHANGED <<state, dirty, ended, spans, capVars, latest, revisions>>,
             StoredRecordings' = StoredRecordings
      PROVE  Capped'
  <2>1. Evidence' = Evidence /\ Uncapped' = Uncapped /\ Exists' = Exists
    BY <1>4 DEF Evidence, Uncapped, UncappedWith, FinalStored, Exists
  <2>2. UNCHANGED <<pastCap, capCounted, capReached, latest, revisions>>
    BY <1>4 DEF capVars
  <2>3. QED
    BY <1>4, <2>1, <2>2, CapStays
<1>5. ASSUME NEW r \in Recordings, BeginUpload(r) \/ \E still \in BOOLEAN : EndUpload(r, still)
      PROVE  Capped'
  BY <1>4, <1>5 DEF BeginUpload, EndUpload, closerVars, StoredRecordings
<1>6. CASE FailStaleUploads
  <2>1. StoredRecordings' = StoredRecordings
    BY <1>6 DEF FailStaleUploads, StoredRecordings, StaleUploads
  <2>2. QED
    BY <1>4, <1>6, <2>1 DEF FailStaleUploads, closerVars
<1>7. CASE Tick
  BY <1>4, <1>7 DEF Tick, StoredRecordings
<1>8. CASE PurgeCall
  <2>1. ~Exists' /\ ~pastCap' /\ capReached' = capReached /\ state' = "purged"
    BY <1>8 DEF PurgeCall, Exists
  <2>2. QED
    BY <2>1 DEF Capped, CapCounted, PastCapTold
<1>9. QED
  BY <1>1, <1>2, <1>3, <1>5, <1>6, <1>7, <1>8 DEF StoreStep

\* The finish starts over with the mark: evidence that came since the claim is past the cap
\* if the revision is the last.
LEMMA CommitKeepsCapped ==
    ASSUME TypeOK, Numbering, Final, Capped, NEW c \in Closers, CommitFinish(c),
           job[c].pc = "built"
    PROVE  Capped'
<1> DEFINE j == job[c]
           row == [rev |-> j.revision, evidence |-> j.evidence, final |-> j.final,
                   reason |-> j.reason]
<1>1. /\ UNCHANGED <<dirty, ended, spans, rec, firstRev>>
      /\ Holds(c) /\ Exists /\ state' = "closed" /\ Exists' /\ pending = j.revision
  BY DEF CommitFinish, CloseRow, Holds, Exists
<1>2. j.revision = latest + 1 /\ j.evidence = Marked /\ latest \in Nat
  BY <1>1 DEF Numbering, SnapshotHeld, RowsNumbered, TypeOK
<1>3. capReached = IF capCounted THEN 1 ELSE 0
  BY <1>1 DEF Capped, CapCounted, Exists
<1>4. Evidence' = Evidence
  BY <1>1 DEF Evidence, StoredRecordings
<1>5. CASE j.evidence = {}
  <2>1. pastCap' = FALSE /\ UNCHANGED <<latest, revisions, capCounted, capReached>>
    BY <1>5 DEF CommitFinish
  <2>2. latest = 0
    BY <1>1, <1>2, <1>5 DEF Marked, Numbering, MarksNew
  <2>3. latest' < RevisionCap
    BY <2>1, <2>2, StoreAssumption
  <2>4. Uncapped'
    BY <2>3 DEF Uncapped, UncappedWith
  <2>5. QED
    BY <1>3, <2>1, <2>4 DEF Capped, CapCounted, PastCapTold
<1>6. CASE j.evidence # {}
  <2>1. /\ latest' = j.revision /\ revisions' = revisions \cup {row}
        /\ NotePastCap(dirty, j.revision, ended, FinalStored \/ j.final, FALSE)
    BY <1>6 DEF CommitFinish
  <2>2. row.rev = latest + 1 /\ row.evidence = Marked /\ row.final = j.final
    BY <1>2
  <2> HIDE DEF row
  <2>3. FinalStored' <=> FinalStored \/ j.final
    BY <2>1, <2>2 DEF FinalStored
  <2>4. dirty \in BOOLEAN /\ ended \in BOOLEAN /\ (FinalStored \/ j.final) \in BOOLEAN
    BY DEF TypeOK
  <2>5. /\ pastCap' <=> dirty /\ ~UncappedWith(j.revision, ended, FinalStored \/ j.final)
        /\ pastCap' => capCounted'
        /\ capReached' = IF capCounted' THEN 1 ELSE 0
    BY <1>3, <2>1, <2>4, NotePastCapMarks
  <2>6. UncappedWith(j.revision, ended, FinalStored \/ j.final) <=> Uncapped'
    BY <1>1, <2>1, <2>3 DEF Uncapped, UncappedWith
  <2>7. LatestEvidence' = Marked
    <3>1. \A v \in revisions : v.rev # latest + 1
      BY <1>2 DEF Numbering, RowsNumbered
    <3>2. {w \in revisions' : w.rev = latest'} = {row}
      BY <1>2, <2>1, <2>2, <3>1
    <3>3. QED
      BY <2>2, <3>2 DEF LatestEvidence
  <2>8. dirty => ~(Evidence \subseteq Marked)
    <3>1. dirty => \E e \in Evidence : firstRev[e] = 0
      BY <1>1, <1>2 DEF Numbering, MarksNew
    <3>2. QED
      BY <3>1 DEF Marked
  <2>9. pastCap' => latest' >= RevisionCap
    BY <1>2, <2>1, <2>5, StoreAssumption DEF UncappedWith
  <2>10. CapCounted'
    BY <1>1, <2>5 DEF CapCounted
  <2>11. PastCapTold'
    BY <1>1, <1>4, <2>5, <2>6, <2>7, <2>8, <2>9 DEF PastCapTold
  <2>12. QED
    BY <2>10, <2>11 DEF Capped
<1>7. QED
  BY <1>5, <1>6

\* A claim that fails was below the cap, or is of the first end-signal close.
LEMMA FailKeepsCapped ==
    ASSUME TypeOK, Numbering, Final, Capped, NEW c \in Closers, Fail(c)
    PROVE  Capped'
<1>1. /\ UNCHANGED <<state, ended, spans, rec, latest, revisions>>
      /\ UNCHANGED <<pastCap, capCounted, capReached>>
      /\ Holds(c) /\ job[c].pc = "failing"
  BY DEF Fail, FailStands, capVars
<1>2. /\ job[c].final <=> job[c].evidence \cap EndMarkers # {}
      /\ latest < RevisionCap \/ (job[c].final /\ ~FinalStored)
  BY <1>1 DEF Final, ClaimsTrue
<1>3. job[c].evidence \subseteq Evidence
  BY <1>1 DEF Numbering, SnapshotHeld, Marked
<1>4. job[c].final => ended
  BY <1>2, <1>3, StoreAssumption DEF Final, EndKnown, Evidence, StoredRecordings
<1>5. Uncapped
  BY <1>2, <1>4 DEF Uncapped, UncappedWith
<1>6. Uncapped' = Uncapped /\ Exists' = Exists /\ Evidence' = Evidence
  BY <1>1 DEF Uncapped, UncappedWith, FinalStored, Exists, Evidence, StoredRecordings
<1>7. QED
  BY <1>1, <1>5, <1>6, CapStays

\* Every step of the specification keeps it.
LEMMA CappedInductive ==
    ASSUME TypeOK, Numbering, Final, Capped, [Next]_vars
    PROVE  Capped'
<1>1. ASSUME UNCHANGED <<state, ended, spans, rec, latest, revisions>>,
             UNCHANGED <<pastCap, capCounted, capReached>>, dirty' => dirty
      PROVE  Capped'
  <2>1. Uncapped' = Uncapped /\ Exists' = Exists /\ Evidence' = Evidence
    BY <1>1 DEF Uncapped, UncappedWith, FinalStored, Exists, Evidence, StoredRecordings
  <2>2. QED
    BY <1>1, <2>1, CapStays
<1>2. CASE StoreStep
  BY <1>2, StoreKeepsCapped
<1>3. ASSUME NEW c \in Closers, CloserStep(c)
      PROVE  Capped'
  <2>1. CASE Claim(c)
    BY <1>1, <2>1 DEF Claim, capVars
  <2>2. CASE Fail(c)
    BY <2>2, FailKeepsCapped
  <2>3. CASE Finish(c) \/ FinishThenRaise(c)
    BY <2>3, CommitKeepsCapped DEF Finish, FinishThenRaise
  <2>4. CASE UNCHANGED storeVars
    BY <1>1, <2>4 DEF storeVars, evidenceVars, closerVars, capVars
  <2>5. CASE Materialize(c) \/ SnapshotGone(c) \/ BuildFails(c) \/ Abandon(c)
    BY <2>4, <2>5 DEF Materialize, SnapshotGone, BuildFails, Abandon
  <2>6. CASE FinishStale(c) \/ FinishFails(c) \/ FailIgnored(c)
    BY <2>4, <2>6 DEF FinishStale, FinishFails, FailIgnored
  <2>7. QED
    BY <1>3, <2>1, <2>2, <2>3, <2>5, <2>6 DEF CloserStep
<1>4. CASE ServerStep
  BY <1>1, <1>4 DEF ServerStep, Crash, Restart, ReleaseLeases, evidenceVars, closerVars, capVars
<1>5. CASE UNCHANGED vars
  BY <1>1, <1>5 DEF vars, storeVars, evidenceVars, closerVars, capVars
<1>6. QED
  BY <1>2, <1>3, <1>4, <1>5 DEF Next

-----------------------------------------------------------------------------
(* The properties                                                          *)

LEMMA FinalAndCapped == Spec => [](Final /\ Capped)
<1>1. Init => Final /\ Capped
  <2> SUFFICES ASSUME Init PROVE Final /\ Capped
    OBVIOUS
  <2>1. ~Exists /\ ~ended /\ spans = {} /\ revisions = {} /\ ~pastCap /\ ~capCounted
        /\ capReached = 0 /\ \A c \in Closers : job[c].pc = "idle"
    BY DEF Init, Exists, Idle
  <2>2. Final
    BY <2>1 DEF Final, EndKnown, ClaimsTrue, EndSignalPending, RevisionLimit, CloseReasonsTrue
  <2>3. Capped
    BY <2>1 DEF Capped, CapCounted, PastCapTold
  <2>4. QED
    BY <2>2, <2>3
<1>2. TypeOK /\ Numbering /\ (Final /\ Capped) /\ [Next]_vars => (Final /\ Capped)'
  BY FinalInductive, CappedInductive
<1>3. QED
  BY <1>1, <1>2, TypeCorrect, NumberingInvariant, PTL DEF Spec

\* The whole inductive invariant of the closer (storage_closer.py): numbering, marks, claims
\* and the dirty flag agree whatever the interleaving.
THEOREM CloserInvariant == Spec => []CloserInv
<1>1. TypeOK /\ Numbering /\ Final /\ Capped => CloserInv
  BY DEF CloserInv, Final, Capped
<1>2. QED
  BY <1>1, TypeCorrect, NumberingInvariant, FinalAndCapped, PTL

\* An end signal no final revision shows keeps its call dirty or with a revision pending
\* (the first close after it is never lost to a failure or a takeover).
THEOREM EndSignalPendingAlways == Spec => []EndSignalPending
<1>1. Final => EndSignalPending
  BY DEF Final
<1>2. QED
  BY <1>1, FinalAndCapped, PTL

\* finality and close_reason, read at the claim and stored at the finish, are those of the
\* revision stored.
THEOREM CloseReasonsTrueAlways == Spec => []CloseReasonsTrue
<1>1. Final => CloseReasonsTrue
  BY DEF Final
<1>2. QED
  BY <1>1, FinalAndCapped, PTL

\* REVISION_CAP bounds the revisions of a call, the first final one excepted.
THEOREM RevisionLimitAlways == Spec => []RevisionLimit
<1>1. Final => RevisionLimit
  BY DEF Final
<1>2. QED
  BY <1>1, FinalAndCapped, PTL

\* evidence_after_latest_revision is set for a dirty call past the cap, only while the
\* latest revision does not show all its evidence, and a call is counted once.
THEOREM PastCapToldAlways == Spec => []PastCapTold
<1>1. Capped => PastCapTold
  BY DEF Capped
<1>2. QED
  BY <1>1, FinalAndCapped, PTL

-----------------------------------------------------------------------------
(* The refinement                                                          *)

\* What the promise sees of a step that publishes and gathers nothing.
Unseen == UNCHANGED <<Evidence, latest, revisions, state = "purged">>

\* Rows kept by a step are published as before.
LEMMA PublishedStays ==
    ASSUME UNCHANGED <<latest, revisions>>
    PROVE  Published' = Published
BY DEF Published, Row

\* Such a step is a stutter of the promise.
LEMMA UnseenStutters ==
    ASSUME Unseen
    PROVE  UNCHANGED Promise!vars
<1>1. Published' = Published
  BY PublishedStays DEF Unseen
<1>2. QED
  BY <1>1 DEF Unseen, Promise!vars

\* Row(n) is the row of that number, and the only one.
LEMMA RowIs ==
    ASSUME Numbering, NEW n \in 1..latest
    PROVE  /\ Row(n) \in revisions /\ Row(n).rev = n
           /\ \A v \in revisions : v.rev = n => v = Row(n)
<1>1. \E v \in revisions : v.rev = n
  <2>1. n \in {v.rev : v \in revisions}
    BY DEF Numbering, RowsNumbered
  <2>2. QED
    BY <2>1
<1>2. Row(n) \in revisions /\ Row(n).rev = n
  BY <1>1 DEF Row
<1>3. QED
  BY <1>2 DEF Numbering, RowsNumbered

\* What the promise shows last and whether it shows a final revision, in the call's rows.
LEMMA PublishedShows ==
    ASSUME TypeOK, Numbering
    PROVE  /\ Len(Published) = latest
           /\ latest = 0 => Promise!Shown = {}
           /\ latest # 0 => Promise!Shown = Row(latest).evidence
           /\ Promise!HasFinal <=> FinalStored
<1>1. latest \in Nat
  BY DEF TypeOK
<1>2. Len(Published) = latest /\ DOMAIN Published = 1..latest
  BY <1>1 DEF Published
<1>3. latest = 0 => Published = <<>>
  BY <1>1 DEF Published
<1>4. latest # 0 => Published # <<>>
  BY <1>1, <1>2
<1>5. \A n \in 1..latest : /\ Published[n].evidence = Row(n).evidence
                           /\ Published[n].final = Row(n).final
  BY DEF Published
<1>6. latest # 0 => Promise!Shown = Row(latest).evidence
  BY <1>1, <1>2, <1>4, <1>5 DEF Promise!Shown
<1>7. latest = 0 => Promise!Shown = {}
  BY <1>3 DEF Promise!Shown
<1>8. Promise!HasFinal <=> FinalStored
  <2>1. Promise!HasFinal <=> \E n \in 1..latest : Row(n).final
    BY <1>2, <1>5 DEF Promise!HasFinal
  <2>2. ASSUME NEW n \in 1..latest, Row(n).final
        PROVE  FinalStored
    BY <2>2, RowIs DEF FinalStored
  <2>3. ASSUME NEW v \in revisions, v.final
        PROVE  \E n \in 1..latest : Row(n).final
    <3>1. v.rev \in 1..latest
      BY DEF Numbering, RowsNumbered
    <3>2. v = Row(v.rev)
      BY <3>1, RowIs
    <3>3. QED
      BY <2>3, <3>1, <3>2
  <2>4. QED
    BY <2>1, <2>2, <2>3 DEF FinalStored
<1>9. QED
  BY <1>2, <1>6, <1>7, <1>8

-----------------------------------------------------------------------------
(* The store's steps                                                       *)

\* A purged call stays purged and gathers nothing; any other one is not purged by the way.
LEMMA StorePurged ==
    ASSUME TypeOK, Numbering, StoreStep, ~PurgeCall
    PROVE  /\ (state' = "purged") = (state = "purged")
           /\ state = "purged" => Evidence' = Evidence
<1>1. \A r \in Recordings : rec[r] = "pending" => Exists
  BY DEF Numbering, NoRow
<1>2. ASSUME NEW batch \in SUBSET (Spans \ spans), NEW joined \in SUBSET (Spans \ spans),
             RecordSpans(batch, joined)
      PROVE  state # "purged" /\ state' # "purged"
  BY <1>2 DEF RecordSpans
<1>3. ASSUME NEW r \in Recordings, CreateRecording(r)
      PROVE  state # "purged" /\ state' # "purged"
  BY <1>3 DEF CreateRecording
<1>4. ASSUME NEW r \in Recordings, FinishUpload(r)
      PROVE  state # "purged" /\ state' = state
  BY <1>1, <1>4 DEF FinishUpload, Exists
<1>5. ASSUME NEW r \in Recordings, BeginUpload(r) \/ \E still \in BOOLEAN : EndUpload(r, still)
      PROVE  UNCHANGED <<state, Evidence>>
  BY <1>5 DEF BeginUpload, EndUpload, Evidence, StoredRecordings
<1>6. CASE FailStaleUploads
  BY <1>6 DEF FailStaleUploads, StaleUploads, Evidence, StoredRecordings
<1>7. CASE Tick
  BY <1>7 DEF Tick, Evidence, StoredRecordings
<1>8. QED
  BY <1>2, <1>3, <1>4, <1>5, <1>6, <1>7 DEF StoreStep

\* A step of the store gathers, erases, or is not seen.
LEMMA StoreKeepsPromise ==
    ASSUME TypeOK, Numbering, StoreStep, UNCHANGED <<job, faults>>
    PROVE  [Promise!Next]_(Promise!vars)
<1>1. CASE PurgeCall
  <2>1. Evidence' = {} /\ latest' = 0 /\ state' = "purged"
    BY <1>1 DEF PurgeCall, Evidence, StoredRecordings
  <2>2. Published' = <<>>
    BY <2>1 DEF Published
  <2>3. Promise!Erase
    BY <2>1, <2>2 DEF Promise!Erase
  <2>4. QED
    BY <2>3 DEF Promise!Next
<1>2. CASE ~PurgeCall
  <2>1. Gathers
    BY <1>2, StoreGathers
  <2>2. /\ (state' = "purged") = (state = "purged")
        /\ state = "purged" => Evidence' = Evidence
    BY <1>2, StorePurged
  <2>3. Published' = Published
    BY <2>1, PublishedStays DEF Gathers
  <2>4. CASE state = "purged"
    BY <2>2, <2>3, <2>4 DEF Promise!vars
  <2>5. CASE state # "purged"
    <3>1. Evidence' \in SUBSET (Spans \cup Recordings) /\ Evidence' = Evidence \cup Evidence'
      BY <2>1 DEF Gathers, Unit
    <3>2. \E more \in SUBSET (Spans \cup Recordings) : Evidence' = Evidence \cup more
      BY <3>1
    <3>3. Promise!Gather
      BY <2>2, <2>3, <2>5, <3>2 DEF Promise!Gather
    <3>4. QED
      BY <3>3 DEF Promise!Next
  <2>6. QED
    BY <2>4, <2>5
<1>3. QED
  BY <1>1, <1>2

-----------------------------------------------------------------------------
(* The finish                                                              *)

\* A finish that stores a revision publishes what its claim marked; one without evidence
\* is not seen.
LEMMA CommitPublishes ==
    ASSUME TypeOK, Numbering, Final, NEW c \in Closers, CommitFinish(c), job[c].pc = "built"
    PROVE  Promise!Publish \/ Unseen
<1> DEFINE j == job[c]
           row == [rev |-> j.revision, evidence |-> j.evidence, final |-> j.final,
                   reason |-> j.reason]
<1>1. /\ UNCHANGED <<spans, rec>> /\ state' = "closed" /\ Holds(c)
  BY DEF CommitFinish, CloseRow
<1>2. Evidence' = Evidence /\ state # "purged" /\ state' # "purged"
  BY <1>1 DEF Evidence, StoredRecordings, Holds, Exists
<1>3. /\ pending = j.revision /\ j.revision = latest + 1 /\ latest \in Nat
      /\ j.evidence = Marked
  BY <1>1 DEF Holds, Numbering, SnapshotHeld, RowsNumbered, TypeOK
<1>4. CASE j.evidence = {}
  <2>1. UNCHANGED <<latest, revisions>>
    BY <1>4 DEF CommitFinish
  <2>2. QED
    BY <1>2, <2>1 DEF Unseen
<1>5. CASE j.evidence # {}
  <2>1. latest' = latest + 1 /\ revisions' = revisions \cup {row}
    BY <1>3, <1>5 DEF CommitFinish
  <2>2. /\ row.rev = latest + 1 /\ row.final = j.final /\ row.evidence = Marked
    BY <1>3
  <2> HIDE DEF row
  <2>3. \A v \in revisions : v.rev \in 1..latest
    BY DEF Numbering, RowsNumbered
  <2>4. ASSUME NEW m \in Nat, m = latest + 1
        PROVE  Row(m)' = row
    <3>1. \A v \in revisions' : v.rev = m <=> v = row
      BY <1>3, <2>1, <2>2, <2>3, <2>4
    <3>2. row \in revisions'
      BY <2>1
    <3>3. (CHOOSE v \in revisions' : v.rev = m) = row
      BY <3>1, <3>2
    <3>4. QED
      BY <3>3 DEF Row
  <2>5. \A n \in 1..latest : Row(n)' = Row(n)
    <3> SUFFICES ASSUME NEW n \in 1..latest PROVE Row(n)' = Row(n)
      OBVIOUS
    <3>1. Row(n) \in revisions' /\ Row(n).rev = n
      BY <2>1, RowIs
    <3>2. \A v \in revisions' : v.rev = n => v = Row(n)
      BY <1>3, <2>1, <2>2, RowIs
    <3>3. (CHOOSE v \in revisions' : v.rev = n) = Row(n)
      BY <3>1, <3>2
    <3>4. QED
      BY <3>3 DEF Row
  <2>6. Published' = Append(Published, [evidence |-> Marked, final |-> j.final])
    <3> DEFINE new == [evidence |-> Marked, final |-> j.final]
               shown(r) == [evidence |-> r.evidence, final |-> r.final]
    <3>1. Published' = [n \in 1..(latest + 1) |-> IF n = latest + 1 THEN new ELSE Published[n]]
      <4>1. Published' = [n \in 1..latest' |-> shown(Row(n)')]
        BY DEF Published
      <4>2. \A n \in 1..latest : Published[n] = shown(Row(n))
        BY DEF Published
      <4>3. ASSUME NEW n \in 1..(latest + 1)
            PROVE  shown(Row(n)') = IF n = latest + 1 THEN new ELSE Published[n]
        <5>1. CASE n = latest + 1
          BY <1>3, <2>2, <2>4, <5>1
        <5>2. CASE n # latest + 1
          BY <1>3, <2>5, <4>2, <5>2
        <5>3. QED
          BY <5>1, <5>2
      <4>4. QED
        BY <2>1, <4>1, <4>3
    <3>2. Published \in Seq({Published[n] : n \in 1..latest}) /\ Len(Published) = latest
      BY <1>3 DEF Published
    <3>3. QED
      BY <1>3, <3>1, <3>2
  <2>7. Promise!Shown \subseteq Marked /\ Promise!Shown # Marked
    <3>1. CASE latest = 0
      BY <1>3, <1>5, <3>1, PublishedShows
    <3>2. CASE latest # 0
      <4>1. Promise!Shown = Row(latest).evidence
        BY <3>2, PublishedShows
      <4>2. Row(latest).evidence = {e \in Evidence : firstRev[e] \in 1..latest}
        BY <1>3, <3>2, RowIs DEF Numbering, RowsShowMarks
      <4>3. PICK e \in Evidence : firstRev[e] = latest + 1
        BY <1>3, <3>2 DEF Numbering, MarksNew
      <4>4. QED
        BY <1>3, <4>1, <4>2, <4>3 DEF Marked
    <3>3. QED
      BY <3>1, <3>2
  <2>8. /\ j.final <=> Marked \cap EndMarkers # {}
        /\ latest < RevisionCap \/ (j.final /\ ~FinalStored)
        /\ j.final \in BOOLEAN
    BY <1>1, <1>3 DEF Final, ClaimsTrue, TypeOK, Jobs
  <2>9. Published' = Append(Published, [evidence |-> Marked,
                                        final |-> Marked \cap EndMarkers # {}])
    BY <2>6, <2>8
  <2>10. latest < RevisionCap \/ (Marked \cap EndMarkers # {} /\ ~Promise!HasFinal)
    BY <2>8, PublishedShows
  <2>11. Marked \in SUBSET Evidence /\ Len(Published) = latest
    BY PublishedShows DEF Marked
  <2>12. Promise!Publish
    BY <1>2, <2>7, <2>9, <2>10, <2>11 DEF Promise!Publish
  <2>13. QED
    BY <2>12
<1>6. QED
  BY <1>4, <1>5

-----------------------------------------------------------------------------
(* The refinement                                                          *)

\* The closers' other steps, and the server's, are not seen.
LEMMA NextKeepsPromise ==
    ASSUME TypeOK, Numbering, Final, [Next]_vars
    PROVE  [Promise!Next]_(Promise!vars)
<1>1. ASSUME UNCHANGED <<state, latest, spans, rec, revisions>>
      PROVE  Unseen
  BY <1>1 DEF Unseen, Evidence, StoredRecordings
<1>2. CASE StoreStep /\ UNCHANGED <<job, faults>>
  BY <1>2, StoreKeepsPromise
<1>3. ASSUME NEW c \in Closers, CloserStep(c)
      PROVE  [Promise!Next]_(Promise!vars)
  <2>1. CASE Finish(c) \/ FinishThenRaise(c)
    <3>1. CommitFinish(c) /\ job[c].pc = "built"
      BY <2>1 DEF Finish, FinishThenRaise
    <3>2. Promise!Publish \/ Unseen
      BY <3>1, CommitPublishes
    <3>3. QED
      BY <3>2, UnseenStutters DEF Promise!Next
  <2>2. CASE Claim(c) \/ Fail(c)
    <3>1. UNCHANGED <<state, latest, spans, rec, revisions>>
      BY <2>2 DEF Claim, Fail
    <3>2. QED
      BY <1>1, <3>1, UnseenStutters
  <2>3. CASE Materialize(c) \/ SnapshotGone(c) \/ BuildFails(c) \/ Abandon(c)
             \/ FinishStale(c) \/ FinishFails(c) \/ FailIgnored(c)
    <3>1. UNCHANGED storeVars
      BY <2>3 DEF Materialize, SnapshotGone, BuildFails, Abandon, FinishStale, FinishFails,
                  FailIgnored
    <3>2. QED
      BY <1>1, <3>1, UnseenStutters DEF storeVars, evidenceVars, closerVars
  <2>4. QED
    BY <1>3, <2>1, <2>2, <2>3 DEF CloserStep
<1>4. CASE ServerStep
  <2>1. UNCHANGED <<state, latest, spans, rec, revisions>>
    BY <1>4 DEF ServerStep, Crash, Restart, ReleaseLeases, evidenceVars, closerVars
  <2>2. QED
    BY <1>1, <2>1, UnseenStutters
<1>5. CASE UNCHANGED vars
  BY <1>1, <1>5, UnseenStutters DEF vars, storeVars, evidenceVars, closerVars
<1>6. QED
  BY <1>2, <1>3, <1>4, <1>5 DEF Next

\* ImplementsPromise: the call row, the closers, their leases, retries and crashes
\* implement a call that gathers, publishes and is erased (storage_closer.py claim, finish
\* and fail; storage_calls.py; storage_call_purge.py), whatever the constants.
THEOREM ImplementsPromiseAlways == Spec => ImplementsPromise
<1>1. Init => Promise!Init
  <2> SUFFICES ASSUME Init PROVE Promise!Init
    OBVIOUS
  <2>1. Evidence = {} /\ latest = 0 /\ state # "purged"
    BY DEF Init, Evidence, StoredRecordings
  <2>2. Published = <<>>
    BY <2>1 DEF Published
  <2>3. QED
    BY <2>1, <2>2 DEF Promise!Init
<1>2. TypeOK /\ Numbering /\ Final /\ [Next]_vars => [Promise!Next]_(Promise!vars)
  BY NextKeepsPromise
<1>3. QED
  BY <1>1, <1>2, TypeCorrect, NumberingInvariant, FinalAndCapped, PTL
     DEF Spec, ImplementsPromise, Promise!Spec
=============================================================================
