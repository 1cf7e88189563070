-------------------------- MODULE CheckpointUpload ---------------------------
(***************************************************************************)
(* The live view of an open conversation: the uploader that tails the      *)
(* journal file (checkpoint/uploader.py), the backend's session that takes *)
(* its batches (live.accept_frames and the seal of api.py), and the system *)
(* of the three modules with its crashes.                                  *)
(*                                                                         *)
(* Offsets count whole frames: a batch is cut at a frame boundary and the  *)
(* marker names one. Two flushers can run at once, the uploader's thread   *)
(* and the last pass of close(), which waits for the thread only so long.  *)
(* A session id has one journal, so no batch can rewrite history.          *)
(***************************************************************************)
EXTENDS IncidentExport

CONSTANT BatchFrames   \* max_batch_bytes, in frames

ASSUME UploadAssumption == BatchFrames \in Nat \ {0}

VARIABLES
    uploader,   \* its state, delivered offset, and whether close() was called
    flusher,    \* [Flushers -> a flush() under way]
    marker,     \* the offset marker beside the journal
    acked,      \* history: the longest prefix a backend acknowledged
    session     \* the frames of the live session, <<>> when there is none

uploadVars == <<uploader, flusher, marker, acked, session>>
vars == <<journalVars, exportVars, uploadVars>>

-----------------------------------------------------------------------------

Flushers == {"thread", "close"}
NoFlush == [stage |-> "idle", from |-> 0, to |-> 0]

\* The offset is read only while the uploader is ready.
Stopped(state) == [state |-> state, offset |-> 0, closing |-> FALSE]
NoUploader == Stopped("off")

Init ==
    /\ JournalInit /\ ExportInit
    /\ uploader = NoUploader /\ flusher = [f \in Flushers |-> NoFlush]
    /\ marker = 0 /\ acked = 0
    /\ session = <<>>

Later(m, n) == IF m < n THEN n ELSE m

-----------------------------------------------------------------------------
(* The uploader                                                            *)

\* _load_offset: a marker past the end of the file is not trusted.
LoadOffset == IF journal.exists /\ marker <= journal.kept THEN marker ELSE 0

StartUploader ==
    /\ process = "up" /\ uploader.state = "off" /\ recorder.stage \in {"open", "gone"}
    /\ uploader' = [state |-> "ready", offset |-> LoadOffset, closing |-> FALSE]
    /\ UNCHANGED <<journalVars, exportVars, flusher, marker, acked, session>>

\* close; its last pass is a flush that comes, or without drain does not.
CloseUploader ==
    /\ process = "up" /\ uploader.state = "ready" /\ ~uploader.closing
    /\ uploader' = [uploader EXCEPT !.closing = TRUE]
    /\ UNCHANGED <<journalVars, exportVars, flusher, marker, acked, session>>

\* _plan_batch over the first `seen` frames: whole frames while they are within the budget
\* and before the first that no upload may carry.
PlanEnd(from, seen) ==
    LET fits(n) == n <= from + BatchFrames /\ \A m \in (from + 1)..n : journal.frames[m] # "big"
    IN  from + Cardinality({n \in (from + 1)..seen : fits(n)})

\* Slip: a frame no upload may carry is waited for.
UndeliverableWaits(from, seen) == from < seen /\ FALSE

Undeliverable(from, seen) == from < seen /\ journal.frames[from + 1] = "big"

\* The thread polls until close(), whose own pass is the last flush; close() waits for the
\* thread, unless a request of it is slower than the join (a fault).
MayFlush(f) ==
    /\ process = "up" /\ uploader.state = "ready" /\ flusher[f].stage = "idle"
    /\ uploader.closing <=> f = "close"
    /\ IF f = "close" /\ flusher["thread"].stage # "idle" THEN Fault ELSE Fine

\* Slip: the marker is written before the batch is sent.
FlushMarksFirst(f) ==
    /\ MayFlush(f) /\ journal.exists
    /\ LET to == PlanEnd(uploader.offset, journal.kept)
       IN  /\ to > uploader.offset
           /\ flusher' = [flusher EXCEPT ![f] = [stage |-> "posted", from |-> uploader.offset,
                                                 to |-> to]]
           /\ marker' = to
    /\ UNCHANGED <<process, recorder, journal, exportVars, uploader, acked, session>>

\* flush up to its request: the journal is gone, there is nothing to send, the next frame
\* cannot be sent, or a batch leaves.
Flush(f) ==
    /\ MayFlush(f)
    /\ LET from == uploader.offset
           to == PlanEnd(from, journal.kept)
       IN  IF ~journal.exists
           THEN uploader' = Stopped("degraded") /\ UNCHANGED flusher
           ELSE IF to = from
           THEN /\ Undeliverable(from, journal.kept) \/ f = "close"
                /\ uploader' = Stopped(IF Undeliverable(from, journal.kept)
                                       THEN "undeliverable_frame" ELSE "closed")
                /\ UNCHANGED flusher
           ELSE /\ flusher' = [flusher EXCEPT ![f] =
                     [stage |-> "posted", from |-> from, to |-> to]]
                /\ UNCHANGED uploader
    /\ UNCHANGED <<process, recorder, journal, exportVars, marker, acked, session>>

Degrade == uploader' = IF uploader.state = "ready" THEN Stopped("degraded") ELSE uploader

\* No answer in time, a refused connection, the session quota: never tried again.
PostFails(f) ==
    /\ process = "up" /\ flusher[f].stage \in {"posted", "accepted", "gap", "lost_session"}
    /\ Fault /\ Degrade
    /\ flusher' = [flusher EXCEPT ![f] = NoFlush]
    /\ UNCHANGED <<process, recorder, journal, exportVars, marker, acked, session>>

-----------------------------------------------------------------------------
(* accept_frames                                                           *)

\* A batch may start at the header, or at any frame up to the next one expected.
Continues(from) == from <= Len(session)

\* Slip: what the batch repeats is taken again, and what follows it is cut off.
AcceptOverwrites(from, to) == SubSeq(session, 1, from) \o SubSeq(journal.frames, from + 1, to)

\* What it repeats is held already; what it adds is taken, up to the end of the journal.
Accept(from, to) == session \o SubSeq(journal.frames, Later(from, Len(session)) + 1, to)

\* The batch is served, whole: 202, or the gap with the sequence expected.
Served(f) ==
    /\ flusher[f].stage = "posted"
    /\ LET b == flusher[f]
       IN  IF Continues(b.from)
           THEN /\ session' = Accept(b.from, b.to)
                /\ flusher' = [flusher EXCEPT ![f] = [stage |-> "accepted", from |-> 0, to |-> b.to]]
                /\ acked' = Later(acked, b.to)
           ELSE /\ flusher' = [flusher EXCEPT ![f].stage =
                                 IF session = <<>> THEN "lost_session" ELSE "gap"]
                /\ UNCHANGED <<session, acked>>
    /\ UNCHANGED <<journalVars, exportVars, uploader, marker>>

\* A gap that expects the header: the backend lost the session, and the first batch of the
\* same snapshot is replayed; a batch that ended below the budget ended with the snapshot,
\* or before a frame no upload may carry. Any other gap is a failure.
Refusal(f) ==
    /\ process = "up"
    /\ \/ /\ flusher[f].stage = "lost_session"
          /\ LET to == PlanEnd(0, flusher[f].to)
             IN  IF to > 0
                 THEN /\ flusher' = [flusher EXCEPT ![f].stage = "posted", ![f].from = 0,
                                                    ![f].to = to]
                      /\ UNCHANGED uploader
                 ELSE Degrade /\ flusher' = [flusher EXCEPT ![f] = NoFlush]
       \/ /\ flusher[f].stage = "gap"
          /\ Degrade /\ flusher' = [flusher EXCEPT ![f] = NoFlush]
    /\ UNCHANGED <<journalVars, exportVars, marker, acked, session>>

\* The answer: the delivered offset moves, then the marker; one that cannot be written is
\* left as it was. A crash in between leaves what one before the answer does, and the
\* marker of a flush that overtakes this one here what a failed write of it does.
Acknowledged(f) ==
    /\ process = "up" /\ flusher[f].stage = "accepted"
    /\ uploader' = IF f = "close" THEN Stopped("closed")
                   ELSE IF uploader.state = "ready" THEN [uploader EXCEPT !.offset = flusher[f].to]
                   ELSE uploader
    /\ \/ Fine /\ marker' = flusher[f].to
       \/ Fault /\ UNCHANGED marker
    /\ flusher' = [flusher EXCEPT ![f] = NoFlush]
    /\ UNCHANGED <<process, recorder, journal, exportVars, acked, session>>

-----------------------------------------------------------------------------
(* The end of a live session                                               *)

\* The backend restarts, or expires the session: nothing of it is kept.
ForgetSession ==
    /\ session # <<>> /\ Fault
    /\ session' = <<>>
    /\ UNCHANGED <<process, recorder, journal, exportVars, uploader, flusher, marker, acked>>

\* The end of an ingest and of a seal: the artifact supersedes the live session.
DropSuperseded ==
    /\ handler = "committed"
    /\ handler' = "idle" /\ session' = <<>>
    /\ UNCHANGED <<journalVars, copy, worker, artifact,
                   uploader, flusher, marker, acked>>

\* A seal of a session that saw the close, which no longer changes between the snapshot and
\* the ingest: refused, in conflict, or stored or there. A seal of one that did not makes a
\* provisional artifact under a bundle id of its own, which nothing here reads.
Seal ==
    /\ Finalized(session) /\ handler = "idle"
    /\ LET made == Assembled(session, FALSE)
       IN  /\ made # NoIncident /\ artifact \in {NoIncident, made}
           /\ artifact' = made
    /\ handler' = "committed"
    /\ UNCHANGED <<journalVars, copy, worker, uploadVars>>

-----------------------------------------------------------------------------
(* Crashes of the producer's process and of its host                       *)

Dead ==
    /\ process' = "down" /\ recorder' = GoneRecorder
    /\ copy' = CopyAfterCrash /\ worker' = "idle"
    /\ uploader' = NoUploader /\ flusher' = [f \in Flushers |-> NoFlush]
    /\ UNCHANGED <<artifact, handler, acked, session>>

ProcessCrash ==
    /\ process = "up" /\ Fault /\ Dead
    /\ journal' = AfterCrash
    /\ UNCHANGED marker

HostFailure ==
    /\ process = "up" /\ Fault /\ Dead
    /\ journal' \in AfterHostFailure
    /\ marker' \in {0, marker}

-----------------------------------------------------------------------------

RecorderStep ==
    \/ OpenJournal \/ \E fact \in Facts : Admit(fact)
    \/ SyncJournal \/ Close \/ ReleaseInvalid \/ Release \/ SyncRemoval
ExportStep ==
    \/ SubmitRefused \/ SubmitAsync \/ SpoolTemporary \/ SpoolCommit
    \/ SendIngested \/ SendFails \/ SendSettled \/ SendUnanswered
    \/ Recover \/ Restart
UploadStep ==
    \/ StartUploader \/ CloseUploader
    \/ \E f \in Flushers : Flush(f) \/ PostFails(f) \/ Served(f) \/ Refusal(f)
                           \/ Acknowledged(f)
    \/ ForgetSession \/ DropSuperseded \/ Seal
    \/ ProcessCrash \/ HostFailure

Next ==
    \/ RecorderStep /\ UNCHANGED <<exportVars, uploadVars>>
    \/ ExportStep /\ UNCHANGED uploadVars
    \/ UploadStep

Spec == Init /\ [][Next]_vars

\* The worker and the uploader's thread loop, the server ends what it began, and a
\* producer with a spool is started again. Nothing makes an operator recover or seal, nor
\* close() of the uploader make its pass.
ThreadStep ==
    LET f == "thread" IN Flush(f) \/ Served(f) \/ Refusal(f) \/ Acknowledged(f)

Fairness ==
    /\ WF_vars((SendIngested \/ SendSettled) /\ UNCHANGED uploadVars)
    /\ WF_vars(Restart /\ UNCHANGED uploadVars)
    /\ WF_vars(DropSuperseded)
    /\ WF_vars(ThreadStep)

FairSpec == Spec /\ Fairness

-----------------------------------------------------------------------------
(* Properties                                                              *)

Stages == {"new", "open", "built", "spooling", "submitted", "invalid", "done", "gone"}

Journals ==
    [frames : Seq(Kinds), kept : Nat, torn : BOOLEAN, exists : BOOLEAN,
     synced : Nat, named : BOOLEAN, ghost : BOOLEAN,
     complete : BOOLEAN, degraded : BOOLEAN, finalized : BOOLEAN, closed : BOOLEAN]

TypeOK ==
    /\ process \in {"up", "down"} /\ faults \in 0..MaxFaults
    /\ recorder \in [stage : Stages, admitted : 0..MaxFacts, counted : Nat,
                     accepted : {"unasked", "no", "raised", "queued", "spooled"}]
    /\ journal \in Journals
    /\ copy \in Copies /\ worker \in {"idle", "waiting"} /\ handler \in {"idle", "committed"}
    /\ artifact \in [finality : {"none", "provisional", "final"}, facts : Nat, records : Nat]
    /\ uploader \in [state : {"off", "ready", "closed", "degraded", "undeliverable_frame"},
                     offset : Nat, closing : BOOLEAN]
    /\ flusher \in [Flushers -> [stage : {"idle", "posted", "accepted", "gap",
                                        "lost_session"}, from : Nat, to : Nat]]
    /\ session \in Seq(Kinds) /\ marker \in Nat /\ acked \in Nat

\* Nothing follows a torn frame, the finalize frame or, but for it, the full journal's
\* marker; the journal holds every fact admitted unless it failed or was full.
JournalEnds ==
    /\ journal.torn /\ ~journal.closed => journal.degraded
    /\ \A n \in 1..Len(journal.frames) :
         /\ journal.frames[n] = "open" <=> n = 1
         /\ journal.frames[n] = "finalize" => n = Len(journal.frames)
         /\ journal.frames[n] = "exhausted" =>
              \A m \in (n + 1)..Len(journal.frames) : journal.frames[m] = "finalize"
    /\ journal.finalized => Finalized(journal.frames) /\ ~journal.torn
    /\ Writable(journal) \/ Finalized(journal.frames) =>
         Has(journal.frames, "exhausted") \/ Replayed(journal.frames) = Closed

\* The file is whole while its writer lives, and what the writer still writes to has its
\* header, and the marker once it is full; what it declared finalized it had synced.
WriterTrue ==
    /\ journal.synced <= journal.kept /\ journal.kept <= Len(journal.frames)
    /\ recorder.stage = "new" =>
         journal = NoJournal /\ recorder.admitted = 0 /\ recorder.counted = 0
    /\ recorder.stage # "gone" => journal.kept = Len(journal.frames)
    /\ recorder.stage = "gone" => journal.closed
    /\ journal.closed => recorder.stage \in {"done", "gone"}
    /\ Writable(journal) =>
         journal.frames # <<>> /\ (journal.complete <=> ~Has(journal.frames, "exhausted"))
    /\ journal.finalized => journal.synced = Len(journal.frames)

\* The backend's session, and every batch on its way to it, are prefixes of the journal;
\* the marker names a prefix some backend acknowledged.
StreamTrue ==
    /\ Len(session) <= Len(journal.frames)
    /\ session = SubSeq(journal.frames, 1, Len(session))
    /\ marker <= acked /\ acked <= Len(journal.frames)
    /\ uploader.offset <= acked
    /\ \A f \in Flushers :
         /\ flusher[f].from <= acked /\ flusher[f].to <= Len(journal.frames)
         /\ flusher[f].stage = "accepted" => flusher[f].to <= acked

Kept == copy \in {"spooled", "rejected"} \/ artifact = Closed

\* FinalIsCounted. The artifact stored as final is the one close() built, whichever of the
\* exporter, a recovery and a seal stored it (docs/sdk.md:325 "byte-identical"); but for a
\* journal that was full, whose replay holds every record and may lack facts that
\* superseded one, for the cross check only counts (assembler.py:458).
FinalIsCounted ==
    artifact.finality = "final" =>
        /\ artifact.records = recorder.counted
        /\ artifact = Closed \/ Has(journal.frames, "exhausted")

\* Nothing is sent of an open recorder, and nothing final stored; a journal whose name is
\* on the disk goes only with its recorder's answer; what the exporter accepted it keeps.
ClosedTrue ==
    /\ recorder.stage \in {"new", "open"} =>
         ~Finalized(journal.frames) /\ ~journal.finalized /\ artifact.finality # "final"
    /\ copy # "none" => recorder.stage \in {"spooling", "submitted", "done", "gone"}
    /\ recorder.stage \in {"new", "open", "built", "spooling", "invalid"} =>
         recorder.accepted = "unasked"
    /\ recorder.stage = "submitted" => recorder.accepted # "unasked"
    /\ journal.finalized /\ journal.named /\ ~journal.exists =>
         recorder.accepted \notin {"unasked", "no"}
    /\ worker = "waiting" => artifact = Closed
    /\ copy = "queued" => recorder.accepted = "queued"
    /\ recorder.accepted = "spooled" => Kept
    /\ FinalIsCounted

\* CheckpointInv. Journal, live session, exporter and store agree on what was recorded
\* through crashes, host failures and repeated batches (writer.py:519, uploader.py:223,
\* live.py:1137, recorder.py:1941).
CheckpointInv == TypeOK /\ JournalEnds /\ WriterTrue /\ StreamTrue /\ ClosedTrue

WholeOnDisk == journal.exists /\ Assembled(OnDisk, journal.torn) = Closed

\* What close() may count on: an incident in the spool; or, until the memory queue has it
\* or submit has raised, a finalized journal that was never full and whose name the
\* directory's fsync has put on the disk.
Promised ==
    \/ recorder.accepted = "spooled"
    \/ /\ journal.finalized /\ journal.named /\ ~Has(journal.frames, "exhausted")
       /\ recorder.accepted \notin {"queued", "raised"}

\* EvidenceKept. A closed incident is, at every instant and across crashes of the process
\* and of its host, whole in the journal, in the spool or in the store (recorder.py:2031
\* "Anything else keeps the evidence on disk"), but for one that was left to memory.
EvidenceKept == Promised => WholeOnDisk \/ Kept

\* StreamExtends. A batch extends the live session or repeats it, and never edits it
\* (docs/backend-api.md:727), whatever is retried, replayed or sent twice.
StreamExtends ==
    [][\/ session' = <<>>
       \/ Len(session) <= Len(session') /\ session = SubSeq(session', 1, Len(session))]_session

\* SpoolSettles. A spooled incident is sent, or set aside once it is refused for good.
SpoolSettles == copy = "spooled" ~> copy # "spooled"

Behind == uploader.state = "ready" /\ ~uploader.closing /\ uploader.offset < journal.kept

\* StreamCatchesUp. While the uploader is ready it catches up with the journal: it never
\* stalls without saying so (docs/sdk.md:374).
StreamCatchesUp == Behind ~> ~Behind

=============================================================================
