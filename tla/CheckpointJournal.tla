-------------------------- MODULE CheckpointJournal --------------------------
(***************************************************************************)
(* One conversation on the producer's side: the recorder's admissions and  *)
(* close (recorder.py), the crash journal they write                       *)
(* (checkpoint/writer.py) and what process crashes and host failures leave *)
(* of the file.                                                            *)
(*                                                                         *)
(* The journal is the sequence of frames the writer has appended; the file *)
(* holds the first `kept` of them, all of them until a host failure. A     *)
(* frame is its kind; a "big" fact is one no upload may carry. Appends are *)
(* made under the writer's lock and are single steps: a crash between a    *)
(* write and its fsync leaves what a crash before, or after, the append    *)
(* may leave.                                                              *)
(***************************************************************************)
EXTENDS Integers, Sequences, FiniteSets

CONSTANTS
    MaxRecords,   \* CheckpointConfig.max_records
    MaxFacts,     \* bound of the model: facts the recorder admits
    BigFacts,     \* bound of the model: which of them may be "big"
    MaxFaults     \* bound of the model: I/O errors, crashes, refusals, lost answers

ASSUME JournalAssumption ==
    /\ MaxRecords \in Nat \ {0} /\ MaxFacts \in Nat
    /\ BigFacts \subseteq 1..MaxFacts /\ MaxFaults \in Nat

VARIABLES
    process,    \* whether the producer's process runs
    recorder,   \* its stage, the facts and records it admitted, its answer
    journal,    \* the CheckpointWriter and its file
    faults

journalVars == <<process, recorder, journal, faults>>

-----------------------------------------------------------------------------

\* A "change" supersedes a coverage record in place; every other fact adds a record.
Facts == {"fact", "big", "change"}
Records == Facts \ {"change"}
Kinds == {"open", "exhausted", "finalize"} \cup Facts

\* How a write ends: whole, short, refused by the system, or whole with a failed fsync.
Outcomes == {"written", "short", "failed", "unsynced"}

NoJournal ==
    [frames |-> <<>>, kept |-> 0, torn |-> FALSE, exists |-> FALSE,
     synced |-> 0, named |-> FALSE, ghost |-> FALSE,
     complete |-> TRUE, degraded |-> FALSE, finalized |-> FALSE, closed |-> FALSE]

JournalInit ==
    /\ process = "up"
    /\ recorder = [stage |-> "new", admitted |-> 0, counted |-> 0, accepted |-> "unasked"]
    /\ journal = NoJournal
    /\ faults = 0

Fault == faults < MaxFaults /\ faults' = faults + 1
Fine == UNCHANGED faults

\* What a reader of the file finds: whole frames, then perhaps a torn one.
OnDisk == SubSeq(journal.frames, 1, journal.kept)
Has(frames, kind) == \E n \in 1..Len(frames) : frames[n] = kind
Count(frames, kinds) == Cardinality({n \in 1..Len(frames) : frames[n] \in kinds})
Finalized(frames) == Has(frames, "finalize")

-----------------------------------------------------------------------------
(* The writer                                                              *)

\* _append_locked after its guards; `sync` is force_fsync.
Put(j, kind, how, sync) ==
    LET frames == Append(j.frames, kind)
        whole == [j EXCEPT !.frames = frames, !.kept = Len(frames)]
    IN  CASE how = "written" -> IF sync THEN [whole EXCEPT !.synced = Len(frames)] ELSE whole
          [] how = "unsynced" -> [whole EXCEPT !.degraded = TRUE, !.complete = FALSE]
          [] how = "short" -> [j EXCEPT !.torn = TRUE, !.degraded = TRUE, !.complete = FALSE]
          [] OTHER -> [j EXCEPT !.degraded = TRUE, !.complete = FALSE]

Writable(j) == j.exists /\ ~j.degraded /\ ~j.closed

\* A write that does not end well is a fault, and one without an fsync cannot lose it.
Writes(how, sync) == IF how = "written" THEN Fine ELSE (how # "unsynced" \/ sync) /\ Fault

\* open_journal: the header frame, then the fsync of the directory that keeps the name,
\* whose failure nobody is told of: the writer stays healthy. O_EXCL and a failing open
\* leave no journal at all, and a writer that never writes.
OpenJournal ==
    /\ process = "up" /\ recorder.stage = "new"
    /\ recorder' = [recorder EXCEPT !.stage = "open"]
    /\ \/ \E how \in Outcomes :
            /\ Writes(how, TRUE)
            /\ journal' = [Put([journal EXCEPT !.exists = TRUE], "open", how, TRUE)
                             EXCEPT !.named = (how = "written")]
       \/ /\ Fault
          /\ journal' = Put([journal EXCEPT !.exists = TRUE], "open", "written", TRUE)
       \/ Fault /\ journal' = [journal EXCEPT !.degraded = TRUE, !.complete = FALSE]
    /\ UNCHANGED process

\* _exhaust_locked: the marker goes past the caps, once.
Exhaust(j, how) == Put([j EXCEPT !.complete = FALSE], "exhausted", how, TRUE)

\* A coverage record is superseded once, by one that says "available".
Admissible(fact) ==
    /\ fact = "big" => recorder.admitted + 1 \in BigFacts
    /\ fact = "change" => recorder.admitted < 2 * recorder.counted

\* append_record and its kin: the recorder admits the fact whatever the journal does with it.
Admit(fact) ==
    /\ process = "up" /\ recorder.stage = "open" /\ recorder.admitted < MaxFacts
    /\ Admissible(fact)
    /\ recorder' = [recorder EXCEPT !.admitted = @ + 1,
                                    !.counted = IF fact \in Records THEN @ + 1 ELSE @]
    /\ \/ /\ ~(Writable(journal) /\ journal.complete)
          /\ UNCHANGED <<journal, faults>>
       \/ /\ Writable(journal) /\ journal.complete
          /\ \E how \in Outcomes :
               IF Len(journal.frames) >= MaxRecords
               THEN Writes(how, TRUE) /\ journal' = Exhaust(journal, how)
               ELSE Writes(how, FALSE) /\ journal' = Put(journal, fact, how, FALSE)
    /\ UNCHANGED process

\* _run_fsync, fsync_mode "interval".
SyncJournal ==
    /\ process = "up" /\ journal.exists /\ ~journal.closed
    /\ journal.synced < Len(journal.frames) /\ ~journal.degraded
    /\ \/ Fine /\ journal' = [journal EXCEPT !.synced = Len(journal.frames)]
       \/ Fault /\ journal' = [journal EXCEPT !.degraded = TRUE, !.complete = FALSE]
    /\ UNCHANGED <<process, recorder>>

\* finalize: past the caps, and declared written only if it was, fsync included.
Finalize(j, how) == [Put(j, "finalize", how, TRUE) EXCEPT !.finalized = (how = "written")]

\* Slip: a finalized journal goes whatever became of the incident.
ReleasedUnasked(delivered) ==
    IF journal.exists /\ journal.finalized
    THEN [journal EXCEPT !.closed = TRUE, !.synced = Len(journal.frames),
                         !.exists = FALSE, !.ghost = TRUE]
    ELSE [journal EXCEPT !.closed = TRUE]

\* release: the journal goes only if it is finalized and delivered. Its name is gone for
\* the running system at once, and from the disk with the directory's fsync.
Released(delivered) ==
    IF journal.exists /\ journal.finalized /\ delivered
    THEN [journal EXCEPT !.closed = TRUE, !.synced = Len(journal.frames),
                         !.exists = FALSE, !.ghost = TRUE]
    ELSE [journal EXCEPT !.closed = TRUE,
                         !.synced = IF journal.exists THEN Len(journal.frames) ELSE @]

\* Nobody is told of an fsync or an unlink that fails: the file stays as it is.
LeftBehind == [journal EXCEPT !.closed = TRUE]

-----------------------------------------------------------------------------
(* Recorder.close                                                          *)

\* The finalize frame and the closed artifact, under the recorder's lock. An artifact that
\* fails validation ends the recorder; its journal is kept.
Close ==
    /\ process = "up" /\ recorder.stage = "open"
    /\ \/ ~Writable(journal) /\ UNCHANGED <<journal, faults>>
       \/ /\ Writable(journal)
          /\ \E how \in Outcomes : Writes(how, TRUE) /\ journal' = Finalize(journal, how)
    /\ \/ recorder' = [recorder EXCEPT !.stage = "built"]
       \/ recorder' = [recorder EXCEPT !.stage = "invalid"]
    /\ UNCHANGED process

ReleaseInvalid ==
    /\ process = "up" /\ recorder.stage = "invalid"
    /\ recorder' = [recorder EXCEPT !.stage = "done"]
    /\ \/ Fine /\ journal' = Released(FALSE)
       \/ Fault /\ journal' = LeftBehind
    /\ UNCHANGED process

\* The finally of close(): only a refusal keeps the journal; no answer, for submit raised,
\* counts as delivered.
Release ==
    /\ process = "up" /\ recorder.stage = "submitted"
    /\ recorder' = [recorder EXCEPT !.stage = "done"]
    /\ \/ Fine /\ journal' = Released(recorder.accepted # "no")
       \/ Fault /\ journal' = LeftBehind
    /\ UNCHANGED process

SyncRemoval ==
    /\ process = "up" /\ journal.ghost
    /\ journal' = [journal EXCEPT !.ghost = FALSE]
    /\ UNCHANGED <<process, recorder, faults>>

-----------------------------------------------------------------------------
(* Crashes. No recorder outlives its process, and no writer reopens a       *)
(* journal it did not create.                                               *)

GoneRecorder == [recorder EXCEPT !.stage = "gone"]

\* A process crash loses nothing of the file, for every append reached the kernel; what
\* the writer knew of it goes with the process.
AfterCrash == [journal EXCEPT !.closed = TRUE, !.complete = TRUE, !.degraded = FALSE]

\* A host failure keeps what was synced, any part of the rest, and a name that was; a
\* removal that was not synced may be undone. A name found afterwards is on the disk.
AfterHostFailure ==
    LET upTo(n) == [AfterCrash EXCEPT !.kept = n, !.torn = @ \/ n < journal.kept,
                                      !.synced = n, !.named = TRUE, !.ghost = FALSE]
        found == {upTo(n) : n \in {m \in 0..journal.kept : m >= journal.synced}}
        lost == {[AfterCrash EXCEPT !.exists = FALSE, !.ghost = FALSE]}
    IN  IF journal.exists THEN found \cup (IF journal.named THEN {} ELSE lost)
        ELSE IF journal.ghost THEN lost \cup {[j EXCEPT !.exists = TRUE] : j \in found}
        ELSE lost

-----------------------------------------------------------------------------
(* assemble_incident, without --best-effort                                *)

Incident(finality, facts, records) ==
    [finality |-> finality, facts |-> facts, records |-> records]
NoIncident == Incident("none", 0, 0)

\* Slip: the replay is only checked for records too many.
CountersBound(frames) == Count(frames, Records) <= recorder.counted

\* _cross_check: the replay against the totals the finalize frame carries, which count
\* records and do not tell a record from the one it superseded.
CountersAgree(frames) == Count(frames, Records) = recorder.counted

\* Nothing tells one provisional artifact from another.
Provisional == Incident("provisional", 0, 0)
Replayed(frames) == Incident("final", Count(frames, Facts), Count(frames, Records))

\* What a journal's frames replay to, NoIncident when they are refused.
Assembled(frames, torn) ==
    IF frames = <<>> THEN NoIncident
    ELSE IF ~Finalized(frames) THEN Provisional
    ELSE IF torn \/ ~CountersAgree(frames) THEN NoIncident
    ELSE Replayed(frames)

=============================================================================
