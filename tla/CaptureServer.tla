---------------------------- MODULE CaptureServer ----------------------------
(***************************************************************************)
(* The server's half of one continuous browser call (capture/calls.py,     *)
(* capture/durable.py and the capture parts of live.py): the ownership     *)
(* ledger (sidecar) and the journal on disk, the call and its live session *)
(* in memory, and the steps one drain takes between the write of its       *)
(* intent and its acknowledgement.                                         *)
(*                                                                         *)
(* Drains, seals and expiries of a call hold its transaction lock, so one  *)
(* piece of work is under way at a time. A step ends where a crash or an   *)
(* I/O error can part it from the next: each durable write is a step.      *)
(*                                                                         *)
(* A drain is its sequence number, the loss it declares (resync: from and  *)
(* through, 0 when none), whether it ends the call and whether its frames  *)
(* would push the journal past its byte limit (big); its digest is the     *)
(* drain itself. The frames it adds are one chunk, which a crash may tear. *)
(***************************************************************************)
EXTENDS Integers, Sequences, FiniteSets

CONSTANTS
    Drains,      \* what a client may post
    RingSize,    \* DIGEST_RING_SIZE
    MaxFaults    \* bound of the model: crashes, I/O errors, lost and denied requests

ASSUME ServerAssumption ==
    /\ \A d \in Drains : /\ DOMAIN d = {"seq", "from", "through", "end", "big"}
                         /\ d.seq \in Nat \ {0}
                         /\ d.from \in 0..(d.seq - 1) /\ d.through \in {0, d.seq - 1}
                         /\ d.end \in BOOLEAN /\ d.big \in BOOLEAN
    /\ RingSize \in Nat \ {0} /\ MaxFaults \in Nat

VARIABLES
    sidecar,    \* the call's ledger file
    journal,    \* its journal file
    artifact,   \* the final artifact the incident store holds, as the chunks it was made of
    call,       \* CaptureCallRegistry._calls: the CaptureCall
    live,       \* the live session, and what its observers were shown
    refusal,    \* _journal_limit_refusals
    work,       \* the drain holding the transaction lock, and how far it is
    request,    \* the client's attempt at hand: on its way, held by the server, or its answer
    seal,       \* a seal request under way
    faults

disk == <<sidecar, journal, artifact>>
memory == <<call, live, refusal>>
serverVars == <<disk, memory, work, request, seal, faults>>

-----------------------------------------------------------------------------

NoDrain == [seq |-> 0]
NoIntent == [size |-> 0, drain |-> NoDrain]

NoLedger == [exists |-> FALSE, applied |-> 0, digests |-> <<>>, finalized |-> FALSE,
             pending |-> NoIntent, retry |-> NoDrain, sealed |-> FALSE, expired |-> FALSE]
NoJournal == [exists |-> FALSE, chunks |-> <<>>]
NoCall == [held |-> FALSE, applied |-> 0, digests |-> <<>>, retry |-> NoDrain, finalized |-> FALSE]
NoLive == [open |-> FALSE, chunks |-> <<>>]
NoSeal == [stage |-> "none", chunks |-> <<>>]

\* down: no process. idle: the lock is free. process, append, commit: a drain's stages.
\* recover: an intent is to be undone, "truncated" once the journal is; `after` is what
\* the recovery is for: the start, the drain's lookup, or its failure with that status.
Working(stage, drain) == [stage |-> stage, drain |-> drain, after |-> "none"]
Idle == Working("idle", NoDrain)
Down == Working("down", NoDrain)

ServerInit ==
    /\ sidecar = NoLedger /\ journal = NoJournal /\ artifact = <<>>
    /\ call = NoCall /\ live = NoLive /\ refusal = NoDrain
    /\ work = Idle /\ request = "none" /\ seal = NoSeal
    /\ faults = 0

Fault == faults < MaxFaults /\ faults' = faults + 1
Fine == UNCHANGED faults

Closed(chunks) == chunks # <<>> /\ chunks[Len(chunks)].drain.end

\* _capture_journal_entries: a journal that is missing or torn is refused, never repaired.
Replayable == journal.exists /\ \A n \in 1..Len(journal.chunks) : journal.chunks[n].whole
Recoverable == sidecar.applied = 0 \/ Replayable

Remember(digests, d) ==
    LET all == Append(digests, d)
    IN  IF Len(all) > RingSize THEN Tail(all) ELSE all

Remembered(digests, d) == \E n \in 1..Len(digests) : digests[n] = d

-----------------------------------------------------------------------------
(* Sequencing                                                              *)

Declares(d) == d.from # 0

\* _classify.
Classify(d) ==
    CASE d.seq <= call.applied -> IF Remembered(call.digests, d) THEN "replay" ELSE "conflict"
      [] d.seq > call.applied /\ call.retry # NoDrain /\ call.retry # d -> "conflict"
      [] d.seq = call.applied + 1 /\ call.retry \in {NoDrain, d} -> "apply"
      [] OTHER -> IF Declares(d) /\ d.through = d.seq - 1 /\ d.from <= call.applied + 1
                  THEN "apply" ELSE "gap"

\* _preflight_sidecar_drain: a changed retry is refused before anything is rebuilt.
Preflight(d) ==
    /\ d.seq <= sidecar.applied => Remembered(sidecar.digests, d)
    /\ LET fence == IF sidecar.retry # NoDrain THEN sidecar.retry ELSE sidecar.pending.drain
       IN  fence \in {NoDrain, d}

\* Slip: the claim as it came.
LostAsClaimed(d) == IF d.seq = call.applied + 1 THEN {} ELSE d.from..d.through

\* The numbers declared lost: the claim, less the prefix already applied.
Lost(d) == IF d.seq = call.applied + 1 THEN {}
           ELSE {n \in d.from..d.through : n > call.applied}

Chunk(d) == [drain |-> d, lost |-> Lost(d), whole |-> TRUE]

-----------------------------------------------------------------------------
(* A drain finds its call                                                  *)

\* _rebuild_call, once the ledger holds no intent: the live session is made of the journal
\* unless one stands, and the call is what the ledger and that session say.
Rebuilt(ledger) ==
    LET shown == IF live.open THEN live.chunks ELSE journal.chunks
    IN  IF ledger.applied = 0
        THEN /\ call' = [NoCall EXCEPT !.held = TRUE, !.retry = ledger.retry]
             /\ UNCHANGED live
        ELSE /\ live' = [open |-> TRUE, chunks |-> shown]
             /\ call' = [held |-> TRUE, applied |-> ledger.applied, digests |-> ledger.digests,
                         retry |-> ledger.retry, finalized |-> Closed(shown)]

\* rebuild_finalized_ledger: the journal is gone; what is left refuses and replays.
RebuiltSealed ==
    /\ call' = [held |-> TRUE, applied |-> sidecar.applied, digests |-> sidecar.digests,
                retry |-> NoDrain, finalized |-> TRUE]
    /\ UNCHANGED live

InMemory == call.held /\ (call.finalized \/ live.open)

\* _refuse_cached_journal_limit.
CachedRefusal(d) == refusal = d /\ live.open

ReplayExpired == ~call.held /\ ~sidecar.exists /\ artifact # <<>>

\* What _refuse_cached_journal_limit leaves of the remembered refusal.
RefusalAfter(d) ==
    IF IF live.open THEN d.seq = refusal.seq /\ d # refusal
                    ELSE refusal # NoDrain /\ d.seq >= refusal.seq
    THEN NoDrain ELSE refusal

\* No drain, expiry or seal of the call holds its transaction lock.
LockFree == work.stage = "idle" /\ seal.stage # "marked"

\* The answer reaches the client's attempt, unless what is served is an earlier duplicate.
Answer(status) == request' = IF request = "held" THEN status ELSE request

\* drain, _drain_serialized, _call_for: the call in memory, a new one, the one the ledger
\* tells of, or a refusal. `mine`: d is the client's attempt, not a late duplicate of one.
FindCall(d, mine) ==
    LET Refuse(status) == /\ request' = IF mine THEN status ELSE request
                          /\ UNCHANGED <<live, work>>
        Take(stage, after) ==
            /\ request' = IF mine THEN "held" ELSE request
            /\ work' = [Working(stage, d) EXCEPT !.after = after]
    IN  /\ LockFree
        /\ refusal' = IF ReplayExpired THEN refusal ELSE RefusalAfter(d)
        /\ UNCHANGED <<disk, seal, faults>>
        /\ \/ /\ ReplayExpired
              /\ Refuse("refused") /\ UNCHANGED call
           \/ /\ ~ReplayExpired /\ CachedRefusal(d)
              /\ Refuse("too_large") /\ UNCHANGED call
           \/ /\ ~ReplayExpired /\ ~CachedRefusal(d) /\ InMemory
              /\ Take("process", "none") /\ UNCHANGED <<call, live>>
           \/ /\ ~ReplayExpired /\ ~CachedRefusal(d) /\ ~InMemory
              /\ IF ~sidecar.exists
                 THEN /\ call' = [NoCall EXCEPT !.held = TRUE]
                      /\ Take("process", "none") /\ UNCHANGED live
                 ELSE IF ~Preflight(d)
                 THEN Refuse("refused") /\ call' = NoCall
                 ELSE IF sidecar.pending # NoIntent
                 THEN Take("recover", "lookup") /\ call' = NoCall /\ UNCHANGED live
                 ELSE IF ~sidecar.sealed /\ ~Recoverable
                 THEN Refuse("retry") /\ call' = NoCall
                 ELSE /\ Take("process", "none")
                      /\ IF sidecar.sealed THEN RebuiltSealed ELSE Rebuilt(sidecar)

-----------------------------------------------------------------------------
(* A drain is classified, its intent written, its frames appended, its     *)
(* ledger committed, and only then shown and acknowledged.                 *)

\* _process_drain up to the intent: a replay and a refusal change nothing. Of the write of
\* the intent, os.replace or the fsync of the directory after it may fail: the second
\* leaves an intent to undo.
Process ==
    LET d == work.drain
        intent == [sidecar EXCEPT !.exists = TRUE, !.expired = FALSE,
                                  !.pending = [size |-> Len(journal.chunks), drain |-> d]]
    IN  /\ work.stage = "process"
        /\ UNCHANGED <<journal, artifact, call, live, seal>>
        /\ refusal' = IF Classify(d) = "replay" THEN NoDrain ELSE refusal
        /\ \/ /\ Classify(d) # "apply" \/ call.finalized
              /\ Answer(IF Classify(d) = "replay" THEN "ok" ELSE "refused")
              /\ work' = Idle
              /\ UNCHANGED sidecar /\ Fine
           \/ /\ Classify(d) = "apply" /\ ~call.finalized
              /\ \/ /\ sidecar' = intent /\ Fine
                    /\ work' = [work EXCEPT !.stage = "append"]
                    /\ UNCHANGED request
                 \/ /\ UNCHANGED sidecar /\ Fault
                    /\ work' = Idle /\ Answer("retry")
                 \/ /\ sidecar' = intent /\ Fault
                    /\ work' = [work EXCEPT !.stage = "recover", !.after = "retry"]
                    /\ UNCHANGED request

Failed(status) == work' = [work EXCEPT !.stage = "recover", !.after = status]
Torn(d) == [Chunk(d) EXCEPT !.whole = FALSE]
Extended(chunk) == [exists |-> TRUE, chunks |-> Append(journal.chunks, chunk)]

\* Slip: list and tails are shown the frames before the commit marker is durable.
AppendShowsFrames ==
    LET d == work.drain
    IN  /\ work.stage = "append" /\ ~d.big
        /\ journal' = Extended(Chunk(d))
        /\ live' = [open |-> TRUE, chunks |-> Append(live.chunks, Chunk(d))]
        /\ work' = [work EXCEPT !.stage = "commit"]
        /\ UNCHANGED <<sidecar, artifact, call, refusal, request, seal, faults>>

\* _accept_durable_records_locked up to before_publish: a failed write is truncated at
\* once, or leaves a torn chunk when that fails too.
AppendFrames ==
    LET d == work.drain
    IN  /\ work.stage = "append"
        /\ UNCHANGED <<sidecar, artifact, memory, request, seal>>
        /\ \/ /\ d.big
              /\ Failed("too_large") /\ UNCHANGED journal /\ Fine
           \/ /\ ~d.big
              /\ \/ journal' = Extended(Chunk(d)) /\ work' = [work EXCEPT !.stage = "commit"] /\ Fine
                 \/ UNCHANGED journal /\ Failed("retry") /\ Fault
                 \/ journal' = Extended(Torn(d)) /\ Failed("retry") /\ Fault

Committed(d) ==
    [sidecar EXCEPT !.applied = d.seq, !.digests = Remember(sidecar.digests, d),
                    !.finalized = d.end, !.pending = NoIntent, !.retry = NoDrain]

\* commit_capture_ledger, then the publication to list and tails and the answer. When the
\* ledger was renamed and the fsync after it failed, the drain is committed and the
\* client is told to retry (committed_before_failure).
Commit ==
    LET d == work.drain
    IN  /\ work.stage = "commit"
        /\ UNCHANGED <<journal, artifact, seal>>
        /\ \/ /\ sidecar' = Committed(d) /\ Fine
              /\ live' = [open |-> TRUE, chunks |-> Append(live.chunks, Chunk(d))]
              /\ call' = [held |-> TRUE, applied |-> d.seq, retry |-> NoDrain,
                          digests |-> Remember(call.digests, d), finalized |-> d.end]
              /\ refusal' = NoDrain
              /\ work' = Idle /\ Answer("ok")
           \/ /\ UNCHANGED <<sidecar, memory, request>> /\ Fault
              /\ Failed("retry")
           \/ /\ sidecar' = Committed(d) /\ Fault
              /\ live' = NoLive /\ call' = NoCall /\ UNCHANGED refusal
              /\ work' = Idle /\ Answer("retry")

-----------------------------------------------------------------------------
(* An intent is undone                                                     *)

Shortened(n) == IF n = 0 THEN NoJournal
                ELSE [journal EXCEPT !.chunks = SubSeq(@, 1, n)]

\* Slip: the journal keeps the frames of the interrupted drain.
TruncateNothing ==
    /\ work.stage = "recover"
    /\ work' = [work EXCEPT !.stage = "truncated"]
    /\ UNCHANGED <<disk, memory, request, seal, faults>>

\* recover_pending_sidecar: the journal back to the size the intent recorded.
Truncate ==
    /\ work.stage = "recover"
    /\ journal' = Shortened(sidecar.pending.size)
    /\ work' = [work EXCEPT !.stage = "truncated"]
    /\ UNCHANGED <<sidecar, artifact, memory, request, seal, faults>>

Undone == [sidecar EXCEPT !.pending = NoIntent, !.retry = sidecar.pending.drain]

\* The rest of recover_pending_sidecar, and what it was for: the start's replay of the
\* journal, the lookup's, a failed drain's memory rolled back and its client told to
\* retry, or an oversized drain forgotten.
Undo ==
    /\ work.stage = "truncated"
    /\ UNCHANGED <<journal, artifact, seal>> /\ Fine
    /\ \/ /\ work.after = "start"
          /\ sidecar' = Undone /\ UNCHANGED <<call, refusal, request>>
          /\ live' = IF sidecar.applied = 0 \/ sidecar.expired \/ ~Replayable THEN NoLive
                     ELSE [open |-> TRUE, chunks |-> journal.chunks]
          /\ work' = Idle
       \/ /\ work.after = "lookup"
          /\ sidecar' = Undone /\ UNCHANGED refusal
          /\ IF Recoverable
             THEN Rebuilt(Undone) /\ work' = Working("process", work.drain) /\ UNCHANGED request
             ELSE work' = Idle /\ Answer("retry") /\ UNCHANGED <<call, live>>
       \/ /\ work.after = "retry"
          /\ sidecar' = Undone /\ UNCHANGED refusal
          /\ live' = NoLive /\ call' = NoCall
          /\ work' = Idle /\ Answer("retry")
       \/ /\ work.after = "too_large"
          /\ IF sidecar.applied = 0
             THEN sidecar' = NoLedger /\ live' = NoLive /\ UNCHANGED refusal
             ELSE /\ sidecar' = [Undone EXCEPT !.retry = NoDrain] /\ UNCHANGED live
                  /\ refusal' = IF live.open THEN work.drain ELSE refusal
          /\ call' = NoCall
          /\ work' = Idle /\ Answer("too_large")

\* What a stop or an error in the second half leaves of the ledger.
HalfUndone == {sidecar} \cup (IF work.stage = "truncated" THEN {Undone} ELSE {})

\* An OSError in either half: the intent stands, or it was replaced and the fsync after it
\* failed. A drain's memory is rolled back; the start leaves the call for its retry.
UndoFails ==
    /\ work.stage \in {"recover", "truncated"}
    /\ Fault
    /\ sidecar' \in HalfUndone
    /\ live' = NoLive /\ call' = NoCall
    /\ work' = Idle /\ Answer("retry")
    /\ UNCHANGED <<journal, artifact, refusal, seal>>

-----------------------------------------------------------------------------
(* The process stops and starts                                            *)

Crash ==
    /\ work.stage # "down"
    /\ Fault
    /\ journal' \in {journal} \cup (IF work.stage = "append" /\ ~work.drain.big
                                   THEN {Extended(Torn(work.drain))} ELSE {})
    /\ call' = NoCall /\ live' = NoLive /\ refusal' = NoDrain
    /\ work' = Down /\ seal' = NoSeal
    /\ Answer("retry")   \* the connection is gone
    /\ sidecar' \in HalfUndone
    /\ UNCHANGED artifact

\* rebuild_from_disk.
Start ==
    /\ work.stage = "down"
    /\ UNCHANGED <<sidecar, artifact, call, refusal, request, seal, faults>>
    /\ journal' = IF sidecar.sealed THEN NoJournal ELSE journal
    /\ IF sidecar.pending # NoIntent
       THEN work' = [Working("recover", NoDrain) EXCEPT !.after = "start"] /\ UNCHANGED live
       ELSE /\ work' = Idle
            /\ live' = IF sidecar.applied = 0 \/ sidecar.sealed \/ sidecar.expired
                          \/ ~Replayable
                       THEN NoLive
                       ELSE [open |-> TRUE, chunks |-> journal.chunks]

\* expire_session: an abandoned call is made dormant, and its live session dropped.
Expire ==
    /\ LockFree
    /\ live.open /\ ~Closed(live.chunks)
    /\ ~sidecar.finalized /\ ~sidecar.sealed
    /\ sidecar' = [sidecar EXCEPT !.expired = TRUE]
    /\ live' = NoLive
    /\ UNCHANGED <<journal, artifact, call, refusal, work, request, seal, faults>>

-----------------------------------------------------------------------------
(* An ended call is sealed                                                 *)

\* live_seal_endpoint: the snapshot, between two drains.
SealSnapshot ==
    /\ LockFree /\ seal = NoSeal
    /\ Closed(live.chunks)
    /\ seal' = [stage |-> "taken", chunks |-> live.chunks]
    /\ UNCHANGED <<disk, memory, work, request, faults>>

\* assemble_incident and repository.ingest, with no lock of the call held.
SealIngest ==
    /\ seal.stage = "taken" /\ work.stage # "down"
    /\ artifact' = seal.chunks
    /\ seal' = [seal EXCEPT !.stage = "ingested"]
    /\ UNCHANGED <<sidecar, journal, memory, work, request, faults>>

\* mark_sealed: the ledger says so before the journal goes; it refuses a ledger that is not
\* one of a finished call.
SealMark ==
    /\ seal.stage = "ingested" /\ work.stage = "idle"
    /\ IF sidecar.finalized /\ sidecar.pending = NoIntent /\ sidecar.retry = NoDrain
       THEN /\ sidecar' = [sidecar EXCEPT !.sealed = TRUE, !.expired = FALSE]
            /\ seal' = [seal EXCEPT !.stage = "marked"]
       ELSE seal' = NoSeal /\ UNCHANGED sidecar
    /\ UNCHANGED <<journal, artifact, memory, work, request, faults>>

\* remove_sealed_journal and the call forgotten, the lock still held.
SealRemove ==
    /\ seal.stage = "marked"
    /\ journal' = NoJournal /\ call' = NoCall
    /\ seal' = [seal EXCEPT !.stage = "removed"]
    /\ UNCHANGED <<sidecar, artifact, live, refusal, work, request, faults>>

\* live.drop_session, after the lock.
SealDrop ==
    /\ seal.stage = "removed" /\ work.stage # "down"
    /\ live' = NoLive /\ seal' = NoSeal
    /\ UNCHANGED <<disk, call, refusal, work, request, faults>>

\* prune_sealed_sidecars, at the seal of another call: past the retained number, the
\* replay fence goes too.
Prune ==
    /\ work.stage = "idle" /\ seal = NoSeal
    /\ sidecar.sealed /\ ~journal.exists
    /\ sidecar' = NoLedger
    /\ UNCHANGED <<journal, artifact, memory, work, request, seal, faults>>

\* _prune_finalized, when another call of the project begins.
ForgetFinalized ==
    /\ LockFree
    /\ call.finalized /\ ~live.open
    /\ call' = NoCall
    /\ UNCHANGED <<disk, live, refusal, work, request, seal, faults>>

ServerStep ==
    \/ Process \/ AppendFrames \/ Commit
    \/ Truncate \/ Undo
    \/ Start

ServerFault == UndoFails \/ Crash

SealStep == SealSnapshot \/ SealIngest \/ SealMark \/ SealRemove \/ SealDrop

=============================================================================
