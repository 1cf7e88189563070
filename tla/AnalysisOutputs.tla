-------------------------- MODULE AnalysisOutputs ----------------------------
(***************************************************************************)
(* Recording analyses (storage_analysis.py): the audio_analysis rows as    *)
(* leased jobs, the runner that works them, and the blobs they derive.     *)
(* Before any byte is written the runner reserves its output key in the    *)
(* deletion journal, due only a grace after its lease; the result is       *)
(* stored only while its claim holds the job and the reservation is        *)
(* untouched. The drain does not ask what an analysis owns.                *)
(*                                                                         *)
(* One output (the peaks) stands for a claim's outputs; renditions of mono *)
(* pairs are left out. A server has one runner. The retry delays of a      *)
(* journal row are left out: the drain may find any row due.               *)
(***************************************************************************)
EXTENDS LeasedJobs, BlobJournal

CONSTANTS
    Drain,        \* the deleter of the maintenance job
    Purger,       \* the deleter of the purge
    Grace,        \* OUTPUT_RESERVE_GRACE_SECONDS, in ticks
    MaxSchedules  \* bound of the model: how often recordings are stored

ASSUME AnalysisAssumption ==
    /\ Deleters = {Drain, Purger}
    /\ Drain # Purger
    /\ Grace \in 1..Memory
    /\ MaxSchedules \in Nat

VARIABLES
    peaks,      \* peaks_blob_key per row, as a set of at most one
    dueIn,      \* ticks until each journaled key is due
    step,       \* what each runner is about to do
    claim,      \* the job of its claim, as a set of at most one
    output,     \* the key it reserved, as a set of at most one
    toDelete,   \* keys the last purge journaled and is about to delete
    phase,      \* of the maintenance job: "release", then "requeue", then "run"
    outlived,   \* keys whose reservation the drain took while their runner went on
    schedules

runnerVars == <<step, claim, output>>
vars == <<jobVars, journalVars, peaks, dueIn, runnerVars, toDelete, phase, outlived, schedules>>

-----------------------------------------------------------------------------

Init ==
    /\ JobsInit
    /\ JournalInit
    /\ peaks = [j \in Jobs |-> {}]
    /\ dueIn = [k \in Keys |-> 0]
    /\ step = [w \in Workers |-> "idle"]
    /\ claim = [w \in Workers |-> {}]
    /\ output = [w \in Workers |-> {}]
    /\ toDelete = {}
    /\ phase = "release"
    /\ outlived = {}
    /\ schedules = 0

Owned == {k \in Keys : \E j \in Jobs : k \in peaks[j]}
Reservations == {k \in Keys : \E w \in Workers : k \in output[w]}
Claimed == {k \in Keys : \E d \in Deleters : k \in deleter[d].claimed \cup deleter[d].deleted}

\* output_keys: a new uuid, so a key that nothing names any more may stand for it.
NewKeys == Keys \ (Owned \cup Reservations \cup Journaled \cup object \cup Claimed \cup toDelete)

HoldsClaim(w) == \E j \in claim[w] : Holds(w, j)

\* The runner is done with its claim.
Finished(w) ==
    /\ step' = [step EXCEPT ![w] = "idle"]
    /\ claim' = [claim EXCEPT ![w] = {}]
    /\ output' = [output EXCEPT ![w] = {}]

\* Its attempt has an outcome to report.
Reports(w, outcome) ==
    /\ step' = [step EXCEPT ![w] = outcome]
    /\ output' = [output EXCEPT ![w] = {}]
    /\ UNCHANGED claim

-----------------------------------------------------------------------------
(* Rows                                                                    *)

\* schedule_analysis, in the transaction that stores the recording.
Schedule(j) ==
    /\ state[j] = "none"
    /\ schedules < MaxSchedules
    /\ schedules' = schedules + 1
    /\ Enqueue({j})
    /\ UNCHANGED <<journalVars, peaks, dueIn, runnerVars, toDelete, phase, outlived>>

\* delete_calls: the row goes with its recording; the key it owns is journaled, due at once.
Purge(j) ==
    /\ state[j] # "none"
    /\ toDelete = {}
    /\ Forget(j)
    /\ peaks' = [peaks EXCEPT ![j] = {}]
    /\ journal' = Rows(peaks[j] \ Journaled, "fresh")
    /\ dueIn' = [k \in Keys |-> IF k \in peaks[j] \ Journaled THEN 0 ELSE dueIn[k]]
    /\ toDelete' = peaks[j]
    /\ UNCHANGED <<object, deleter, faults, runnerVars, phase, outlived, schedules>>

-----------------------------------------------------------------------------
(* The runner                                                              *)

\* claim: attempts of expired holders are counted, and one due job is leased.
Claim(w) ==
    /\ phase = "run"
    /\ step[w] = "idle"
    /\ \E claimed \in SUBSET Jobs :
         /\ ClaimDue(w, claimed)
         /\ claim' = [claim EXCEPT ![w] = claimed]
         /\ step' = [step EXCEPT ![w] = IF claimed = {} THEN "idle" ELSE "child"]
    /\ UNCHANGED <<journalVars, peaks, dueIn, output, toDelete, phase, outlived, schedules>>

\* The spool, the child or its answer fails, for good or to be tried again.
ChildFails(w) ==
    /\ step[w] = "child"
    /\ \E outcome \in {"unavailable", "failing"} : Reports(w, outcome)
    /\ UNCHANGED <<jobVars, journalVars, peaks, dueIn, toDelete, phase, outlived, schedules>>

\* reserve_outputs, once the child has answered: nothing is journaled for a lost claim.
Reserve(w) ==
    /\ step[w] = "child"
    /\ IF HoldsClaim(w)
       THEN \E k \in NewKeys, j \in claim[w] :
              /\ journal' = Rows({k}, "fresh")
              /\ dueIn' = [dueIn EXCEPT ![k] = IF leaseLeft[j] + Grace > 0 THEN leaseLeft[j] + Grace
                                               ELSE 0]
              /\ output' = [output EXCEPT ![w] = {k}]
              /\ step' = [step EXCEPT ![w] = "put"]
              /\ UNCHANGED claim
              /\ outlived' = outlived \ {k}
       ELSE Finished(w) /\ UNCHANGED <<journal, dueIn, outlived>>
    /\ UNCHANGED <<jobVars, object, deleter, faults, peaks, toDelete, phase, schedules>>

\* _put publishes the output.
Put(w) ==
    /\ step[w] = "put"
    /\ object' = object \cup output[w]
    /\ step' = [step EXCEPT ![w] = "store"]
    /\ UNCHANGED <<jobVars, journal, deleter, faults, peaks, dueIn, claim, output, toDelete, phase,
                   outlived, schedules>>

\* The blob store refuses it, perhaps once it is there.
PutFails(w) ==
    /\ step[w] = "put"
    /\ Fault
    /\ object' \in {object, object \cup output[w]}
    /\ Reports(w, "failing")
    /\ UNCHANGED <<jobVars, journal, deleter, peaks, dueIn, toDelete, phase, outlived, schedules>>

\* _reserved: the reservation is there, and the drain has not touched it.
Reserved(w) == \A k \in output[w] : journal[k] = "fresh"

\* Slip: a replaced result's peaks are forgotten.
ReplacedForgotten(w) == {}

\* The peaks of the result that this one replaces.
Replaced(w) == {k \in Keys \ Journaled : \E j \in claim[w] : k \in peaks[j]}

\* The result is stored: its row owns the key, and the replaced one is due for deletion.
Stored(w) ==
    /\ \E j \in claim[w] :
         /\ Holds(w, j)
         /\ Complete(j, "stored")
         /\ peaks' = [peaks EXCEPT ![j] = output[w]]
    /\ journal' = [k \in Keys |-> IF k \in output[w] THEN "none"
                                  ELSE IF k \in Replaced(w) THEN "fresh" ELSE journal[k]]
    /\ dueIn' = [k \in Keys |-> IF k \in output[w] \cup Replaced(w) THEN 0 ELSE dueIn[k]]
    /\ UNCHANGED outlived

\* _journal_due: the job or its reservation was lost, and the key is journaled, again if
\* need be, due at once.
JournalDue(w) ==
    /\ journal' = Rows(output[w], "fresh")
    /\ dueIn' = [k \in Keys |-> IF k \in output[w] THEN 0 ELSE dueIn[k]]
    /\ outlived' = outlived \ output[w]
    /\ UNCHANGED <<jobVars, peaks>>

\* store_result's transaction.
StoreResult(w) == IF Reserved(w) /\ HoldsClaim(w) THEN Stored(w) ELSE JournalDue(w)

\* It returns: the runner is done, or has to report that the lease expired.
Store(w) ==
    /\ step[w] = "store"
    /\ StoreResult(w)
    /\ IF Reserved(w) /\ HoldsClaim(w) THEN Finished(w) ELSE Reports(w, "failing")
    /\ UNCHANGED <<object, deleter, faults, toDelete, phase, schedules>>

\* It raises, before its commit or after it.
StoreFails(w) ==
    /\ step[w] = "store"
    /\ Fault
    /\ StoreResult(w) \/ UNCHANGED <<jobVars, peaks, journal, dueIn, outlived>>
    /\ Reports(w, "failing")
    /\ UNCHANGED <<object, deleter, toDelete, phase, schedules>>

\* fail: the outcome of a claim that still holds its job is written.
Fail(w) ==
    /\ step[w] \in {"failing", "unavailable"}
    /\ \/ \E j \in claim[w] : /\ Holds(w, j)
                              /\ IF step[w] = "failing" THEN Retry(j) ELSE Complete(j, "unavailable")
       \/ ~HoldsClaim(w) /\ UNCHANGED jobVars
    /\ Finished(w)
    /\ UNCHANGED <<journalVars, peaks, dueIn, toDelete, phase, outlived, schedules>>

\* The store stays busy past every pause, or the child is closed: the job stays leased.
Abandon(w) ==
    /\ step[w] \in {"child", "store", "failing", "unavailable"}
    /\ Finished(w)
    /\ UNCHANGED <<jobVars, journalVars, peaks, dueIn, toDelete, phase, outlived, schedules>>

-----------------------------------------------------------------------------
(* Deletions, time, crashes                                                *)

\* drain_blob_deletions of due keys, none of which it takes for a recording's.
DrainClaims(due) ==
    /\ \A k \in due : dueIn[k] = 0
    /\ ClaimDeletions(Drain, due, {}, {})
    /\ outlived' = outlived \cup (due \cap Reservations)
    /\ UNCHANGED <<jobVars, peaks, dueIn, runnerVars, toDelete, phase, schedules>>

DrainAll == DrainClaims({k \in Journaled : dueIn[k] = 0})

\* delete_blobs, right after the purge's commit.
PurgeClaims ==
    /\ toDelete # {}
    /\ toDelete' = {}
    /\ \/ ClaimDeletions(Purger, toDelete, {}, {})
       \/ toDelete \cap Journaled = {} /\ UNCHANGED journalVars
    /\ UNCHANGED <<jobVars, peaks, dueIn, runnerVars, phase, outlived, schedules>>

Deletes(d) ==
    /\ DeleterStep(d)
    /\ UNCHANGED <<jobVars, peaks, dueIn, runnerVars, toDelete, phase, outlived, schedules>>

\* Reservations come due as leases run.
Tick ==
    /\ JobsTick
    /\ dueIn' = [k \in Keys |-> IF dueIn[k] > 0 THEN dueIn[k] - 1 ELSE 0]
    /\ UNCHANGED <<journalVars, peaks, runnerVars, toDelete, phase, outlived, schedules>>

\* The process dies and another starts.
Crash ==
    /\ Fault
    /\ step' = [w \in Workers |-> "idle"]
    /\ claim' = [w \in Workers |-> {}]
    /\ output' = [w \in Workers |-> {}]
    /\ deleter' = [d \in Deleters |-> Quiet]
    /\ toDelete' = {}
    /\ phase' = "release"
    /\ UNCHANGED <<jobVars, journal, object, peaks, dueIn, outlived, schedules>>

\* release_leases, before the first claim of a process.
ReleaseLeases ==
    /\ phase = "release"
    /\ Release
    /\ phase' = "requeue"
    /\ UNCHANGED <<journalVars, peaks, dueIn, runnerVars, toDelete, outlived, schedules>>

\* requeue: a new algorithm, or an extra that now imports, puts ended jobs back.
Requeue ==
    /\ phase = "requeue"
    /\ phase' = "run"
    /\ \E again \in {{}, {j \in Jobs : state[j] \in Terminal}} : Enqueue(again)
    /\ UNCHANGED <<journalVars, peaks, dueIn, runnerVars, toDelete, outlived, schedules>>

-----------------------------------------------------------------------------

RunnerStep(w) ==
    \/ Claim(w)
    \/ ChildFails(w)
    \/ Reserve(w)
    \/ Put(w)
    \/ PutFails(w)
    \/ Store(w)
    \/ StoreFails(w)
    \/ Fail(w)
    \/ Abandon(w)

DeletionStep ==
    \/ \E due \in SUBSET Journaled : DrainClaims(due)
    \/ PurgeClaims
    \/ \E d \in Deleters : Deletes(d)

StartStep == ReleaseLeases \/ Requeue

Next ==
    \/ \E j \in Jobs : Schedule(j) \/ Purge(j)
    \/ \E w \in Workers : RunnerStep(w)
    \/ DeletionStep
    \/ StartStep
    \/ Tick
    \/ Crash

Spec == Init /\ [][Next]_vars

\* The maintenance loop runs the analysis job and the drain every second, the child has a
\* timeout and its calls return, time passes.
Fairness ==
    /\ WF_vars(StartStep)
    /\ WF_vars(Tick)
    /\ WF_vars(DrainAll)
    /\ WF_vars(PurgeClaims)
    /\ \A d \in Deleters : WF_vars(Deletes(d))
    /\ \A w \in Workers : WF_vars(RunnerStep(w))

FairSpec == Spec /\ Fairness

-----------------------------------------------------------------------------

TypeOK ==
    /\ JobsTypeOK
    /\ JournalTypeOK
    /\ peaks \in [Jobs -> SUBSET Keys]
    /\ dueIn \in [Keys -> 0..(Lease + Grace)]
    /\ step \in [Workers -> {"idle", "child", "put", "store", "failing", "unavailable"}]
    /\ claim \in [Workers -> SUBSET Jobs]
    /\ output \in [Workers -> SUBSET Keys]
    /\ toDelete \subseteq Keys
    /\ phase \in {"release", "requeue", "run"}
    /\ outlived \subseteq Keys
    /\ schedules \in Nat

\* No derived blob is ever left that neither a row owns nor a drain will find, through
\* lost leases, purges under a running job, replaced results and crashes. (Unless its
\* runner outlived the reservation and has not written its outcome.)
DerivedAccounted == Leaked(Owned) \subseteq outlived

\* A stored result's peaks are there and nothing is about to delete them, though the
\* drain never asks what an analysis owns.
StoredPeaksExist == Owned \subseteq object /\ Owned \cap (Journaled \cup toDelete) = {}

\* "Even a job no holder can finish ends failed": every job ends, or its recording goes.
JobEnds ==
    \A j \in Jobs : (state[j] \in {"pending", "running"}) ~> (state[j] \in Terminal \cup {"none"})

\* "No derived blob of a purged recording survives": what no row owns is deleted in the end.
DerivedDeleted ==
    \A k \in Keys : (k \in object /\ k \notin Owned) ~>
        (k \notin object \/ k \in Owned \/ k \in outlived)

-----------------------------------------------------------------------------
(* Why: the inductive invariant                                            *)

\* The keys of the last purges, until their deletion is over.
Purged == toDelete \cup deleter[Purger].claimed \cup deleter[Purger].deleted

\* A runner has an output exactly while it writes or stores it.
OutputHeld == \A w \in Workers : output[w] # {} <=> step[w] \in {"put", "store"}

\* It works on one job at a time.
OneClaim == \A w \in Workers : \A i, j \in claim[w] : i = j

\* A key has one place: a row, a runner, or a purge's deletion.
OnePlace ==
    /\ \A v, w \in Workers : v # w => output[v] \cap output[w] = {}
    /\ \A i, j \in Jobs : i # j => peaks[i] \cap peaks[j] = {}
    /\ Owned \cap (Reservations \cup outlived \cup Purged) = {}
    /\ Purged \cap (Reservations \cup outlived) = {}

\* A reservation the drain has not taken is as the runner left it; one it has is not fresh.
ReservationsHeld ==
    \A w \in Workers : \A k \in output[w] :
        IF k \in outlived THEN journal[k] # "fresh"
        ELSE /\ journal[k] = "fresh"
             /\ k \notin Claimed
             /\ step[w] = "store" => k \in object

\* The drain has claimed nothing a row owns.
DrainUnowned == Owned \cap (deleter[Drain].claimed \cup deleter[Drain].deleted) = {}

\* What a deleter deleted is not there, unless its runner wrote it again, outlived or journaled.
DeletedGone ==
    /\ deleter[Purger].deleted \cap object = {}
    /\ \A k \in deleter[Drain].deleted \cap object :
         k \in outlived \/ (journal[k] = "fresh" /\ k \notin Purged)

\* A job that may still run has an attempt left.
AttemptLeft == \A j \in Jobs : state[j] \in {"pending", "running"} => attempts[j] <= Retries

AnalysisInv ==
    /\ TypeOK
    /\ AttemptLeft
    /\ OutputHeld
    /\ OneClaim
    /\ OnePlace
    /\ ReservationsHeld
    /\ DrainUnowned
    /\ DeletedGone
    /\ DerivedAccounted
    /\ StoredPeaksExist

-----------------------------------------------------------------------------

\* storage_analysis.py:834: "A failure from here on leaves reserved keys journaled: the
\* drain deletes them once the lease is over."
FailureLeavesJournaled ==
    \A k \in object \ Owned : journal[k] # "none" \/ k \in Reservations

=============================================================================
