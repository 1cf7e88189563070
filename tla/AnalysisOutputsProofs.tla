------------------------ MODULE AnalysisOutputsProofs -------------------------
(***************************************************************************)
(* Proofs about AnalysisOutputs, for any jobs, runners, keys, leases,      *)
(* delays and retries. Two halves: the jobs keep their types and their     *)
(* attempts are counted (JobsKeep), and each derived key has one place     *)
(* (Places), which gives DerivedAccounted and StoredPeaksExist.            *)
(***************************************************************************)
EXTENDS AnalysisOutputs, TLAPS

\* What AnalysisInv says of the jobs.
JobsRight == JobsTypeOK /\ AttemptLeft

\* What it says of the variables that hold keys.
KeysTyped ==
    /\ JournalTypeOK
    /\ peaks \in [Jobs -> SUBSET Keys]
    /\ step \in [Workers -> {"idle", "child", "put", "store", "failing", "unavailable"}]
    /\ claim \in [Workers -> SUBSET Jobs]
    /\ output \in [Workers -> SUBSET Keys]
    /\ toDelete \subseteq Keys
    /\ outlived \subseteq Keys

\* What it says of the rest.
ClockTyped ==
    /\ dueIn \in [Keys -> 0..(Lease + Grace)]
    /\ phase \in {"release", "requeue", "run"}
    /\ schedules \in Nat

\* Where the keys are.
Places ==
    /\ KeysTyped
    /\ OutputHeld
    /\ OneClaim
    /\ OnePlace
    /\ ReservationsHeld
    /\ DrainUnowned
    /\ DeletedGone
    /\ DerivedAccounted
    /\ StoredPeaksExist

\* The halves make up the invariant.
LEMMA Halves == AnalysisInv <=> JobsRight /\ ClockTyped /\ Places
BY DEF AnalysisInv, JobsRight, ClockTyped, Places, KeysTyped, TypeOK

USE DEF KeysTyped, JournalTypeOK, OutputHeld, OneClaim, OnePlace, ReservationsHeld, DrainUnowned,
        DeletedGone, DerivedAccounted, StoredPeaksExist

-----------------------------------------------------------------------------
(* The jobs                                                                *)

\* Every write of the helper keeps the rows right.
LEMMA JobsKeep ==
    ASSUME JobsRight,
           \/ UNCHANGED jobVars
           \/ \E jobs \in SUBSET Jobs : Enqueue(jobs)
           \/ \E w \in Workers : \E claimed \in SUBSET Jobs : ClaimDue(w, claimed)
           \/ \E j \in Jobs : state[j] = "running" /\ Retry(j)
           \/ \E j \in Jobs : \E terminal \in Terminal : Complete(j, terminal)
           \/ \E j \in Jobs : Forget(j)
           \/ Release
           \/ JobsTick
    PROVE  JobsRight'
<1> USE JobsAssumption DEF JobsRight, JobsTypeOK, AttemptLeft, Terminal
<1>1. CASE UNCHANGED jobVars
  BY <1>1 DEF jobVars
<1>2. ASSUME NEW jobs \in SUBSET Jobs, Enqueue(jobs)
      PROVE  JobsRight'
  BY <1>2 DEF Enqueue
<1>3. ASSUME NEW w \in Workers, NEW claimed \in SUBSET Jobs, ClaimDue(w, claimed)
      PROVE  JobsRight'
  BY <1>3 DEF ClaimDue, Expired, Due, AfterFailure, Counted
<1>4. ASSUME NEW j \in Jobs, state[j] = "running", Retry(j)
      PROVE  JobsRight'
  BY <1>4 DEF Retry, AfterFailure, Counted
<1>5. ASSUME NEW j \in Jobs, NEW terminal \in Terminal, Complete(j, terminal)
      PROVE  JobsRight'
  BY <1>5 DEF Complete
<1>6. ASSUME NEW j \in Jobs, Forget(j)
      PROVE  JobsRight'
  BY <1>6 DEF Forget
<1>7. CASE Release
  BY <1>7 DEF Release
<1>8. CASE JobsTick
  BY <1>8 DEF JobsTick
<1>9. QED
  BY <1>1, <1>2, <1>3, <1>4, <1>5, <1>6, <1>7, <1>8

\* Clocks and counters keep their types.
LEMMA ClockKeeps ==
    ASSUME JobsRight, ClockTyped, KeysTyped, Next
    PROVE  ClockTyped'
<1> USE JobsAssumption, AnalysisAssumption DEF ClockTyped
<1>1. ASSUME NEW j \in Jobs, Schedule(j) \/ Purge(j)
      PROVE  ClockTyped'
  BY <1>1 DEF Schedule, Purge
<1>2. ASSUME NEW w \in Workers, RunnerStep(w)
      PROVE  ClockTyped'
  <2>1. CASE Reserve(w) /\ HoldsClaim(w)
    <3>1. PICK k \in NewKeys, j \in claim[w] :
            dueIn' = [dueIn EXCEPT ![k] = IF leaseLeft[j] + Grace > 0 THEN leaseLeft[j] + Grace
                                          ELSE 0]
      BY <2>1 DEF Reserve
    <3>2. leaseLeft[j] \in (-Memory)..Lease
      BY DEF JobsRight, JobsTypeOK
    <3>3. (IF leaseLeft[j] + Grace > 0 THEN leaseLeft[j] + Grace ELSE 0) \in 0..(Lease + Grace)
      BY <3>2
    <3>4. dueIn' \in [Keys -> 0..(Lease + Grace)]
      BY <3>1, <3>3
    <3>5. QED
      BY <2>1, <3>4 DEF Reserve
  <2>2. CASE Reserve(w) /\ ~HoldsClaim(w)
    BY <2>2 DEF Reserve
  <2>3. CASE Store(w) \/ StoreFails(w)
    <3>1. dueIn' \in [Keys -> 0..(Lease + Grace)]
      BY <2>3 DEF Store, StoreFails, StoreResult, Stored, JournalDue
    <3>2. QED
      BY <2>3, <3>1 DEF Store, StoreFails
  <2>4. CASE Claim(w) \/ ChildFails(w) \/ Put(w) \/ PutFails(w) \/ Fail(w) \/ Abandon(w)
    BY <2>4 DEF Claim, ChildFails, Put, PutFails, Fail, Abandon
  <2>5. QED
    BY <1>2, <2>1, <2>2, <2>3, <2>4 DEF RunnerStep
<1>3. CASE DeletionStep \/ StartStep \/ Tick \/ Crash
  BY <1>3 DEF DeletionStep, DrainClaims, PurgeClaims, Deletes, StartStep, ReleaseLeases, Requeue,
     Tick, Crash
<1>4. QED
  BY <1>1, <1>2, <1>3 DEF Next

-----------------------------------------------------------------------------
(* The keys                                                                *)

\* A step that touches no key keeps Places; a runner may let its output go.
LEMMA LetGo ==
    ASSUME Places,
           UNCHANGED <<journal, object, deleter, peaks, toDelete, outlived>>, faults' \in Nat,
           claim' \in [Workers -> SUBSET Jobs], OneClaim',
           output' \in [Workers -> SUBSET Keys],
           step' \in [Workers -> {"idle", "child", "put", "store", "failing", "unavailable"}],
           \A w \in Workers :
               \/ output'[w] = output[w] /\ step'[w] = step[w]
               \/ output'[w] = {} /\ step'[w] \notin {"put", "store"}
    PROVE  Places'
<1> USE DEF Places
<1>1. /\ Owned' = Owned /\ Purged' = Purged /\ Claimed' = Claimed /\ Journaled' = Journaled
      /\ Reservations' \subseteq Reservations
  BY DEF Owned, Reservations, Claimed, Purged, Journaled
<1>2. \A w \in Workers : output'[w] \subseteq output[w]
  OBVIOUS
<1>3. OutputHeld'
  OBVIOUS
<1>4. OnePlace' /\ DrainUnowned' /\ DeletedGone' /\ StoredPeaksExist'
  BY <1>1, <1>2
<1>5. ReservationsHeld'
  BY <1>1, <1>2
<1>6. DerivedAccounted'
  BY <1>1 DEF Leaked
<1>7. QED
  BY <1>3, <1>4, <1>5, <1>6

\* Rows come and go; a purge journals what its row owned.
LEMMA RowsKeep ==
    ASSUME Places, NEW j \in Jobs, Schedule(j) \/ Purge(j)
    PROVE  Places'
<1>1. CASE Schedule(j)
  BY <1>1, LetGo DEF Schedule, Places, runnerVars, journalVars
<1>2. CASE Purge(j)
  <2> USE DEF Places
  <2>1. /\ Owned' = Owned \ peaks[j]
        /\ peaks[j] \subseteq Owned
        /\ peaks[j] \cap Journaled = {}
    BY <1>2 DEF Purge, Owned
  <2>2. QED
    BY <1>2, <2>1 DEF Purge, Owned, Rows, Reservations, Claimed, Purged, Leaked, Journaled, runnerVars
<1>3. QED
  BY <1>1, <1>2

\* A reservation takes a key that nothing names.
LEMMA ReserveKeeps ==
    ASSUME Places, NEW w \in Workers, Reserve(w)
    PROVE  Places'
<1>1. CASE HoldsClaim(w)
  <2> USE DEF Places
  <2>1. PICK k \in NewKeys : /\ journal' = Rows({k}, "fresh")
                             /\ output' = [output EXCEPT ![w] = {k}]
                             /\ step' = [step EXCEPT ![w] = "put"]
                             /\ UNCHANGED claim
                             /\ outlived' = outlived \ {k}
    BY <1>1 DEF Reserve
  <2>2. k \in Keys /\ k \notin object /\ k \notin Claimed /\ k \notin toDelete /\ k \notin Owned
        /\ journal[k] = "none" /\ k \notin Reservations /\ output[w] = {}
    BY <1>1 DEF NewKeys, Reserve, Journaled
  <2>3. k \notin Purged /\ Purged' = Purged /\ Owned' = Owned /\ Claimed' = Claimed
    BY <1>1, <2>2, AnalysisAssumption DEF Purged, Claimed, Reserve, Owned
  <2>4. Reservations' = Reservations \cup {k}
    BY <2>1, <2>2 DEF Reservations
  <2>5. QED
    BY <1>1, <2>1, <2>2, <2>3, <2>4 DEF Reserve, Rows, Leaked, Journaled, Reservations
<1>2. CASE ~HoldsClaim(w)
  BY <1>2, LetGo DEF Reserve, Finished, Places, journalVars
<1>3. QED
  BY <1>1, <1>2

\* What the runner publishes is journaled, or its reservation was outlived.
LEMMA PutKeeps ==
    ASSUME Places, NEW w \in Workers, Put(w) \/ PutFails(w)
    PROVE  Places'
<1> USE DEF Places
<1>1. Owned' = Owned /\ Purged' = Purged /\ Claimed' = Claimed /\ Journaled' = Journaled
  BY DEF Put, PutFails, Owned, Purged, Claimed, Journaled
<1>2. object' \in {object, object \cup output[w]} /\ output[w] \subseteq Reservations
  BY DEF Put, PutFails, Reservations
<1>3. output' \in [Workers -> SUBSET Keys] /\ \A v \in Workers : output'[v] \subseteq output[v]
  BY DEF Put, PutFails, Reports
<1>4. Reservations' \subseteq Reservations
  BY <1>3 DEF Reservations
<1>5. \A k \in output[w] : k \in outlived \/ (journal[k] = "fresh" /\ k \notin Claimed)
  OBVIOUS
<1>6. \A k \in deleter[Drain].deleted \cup deleter[Purger].deleted : k \in Claimed
  BY AnalysisAssumption DEF Claimed
<1>7. OutputHeld'
  BY DEF Put, PutFails, Reports
<1>8. OnePlace' /\ DrainUnowned' /\ StoredPeaksExist'
  BY <1>1, <1>2, <1>3, <1>4 DEF Put, PutFails
<1>9. DeletedGone'
  BY <1>1, <1>2, <1>5, <1>6 DEF Put, PutFails, Purged
<1>10. DerivedAccounted'
  BY <1>1, <1>2, <1>5 DEF Put, PutFails, Leaked, Journaled
<1>11. ReservationsHeld'
  BY <1>1, <1>2, <1>3 DEF Put, PutFails, Reports
<1>12. KeysTyped' /\ OneClaim'
  BY <1>2, <1>3 DEF Put, PutFails, Reports, Fault
<1>13. QED
  BY <1>7, <1>8, <1>9, <1>10, <1>11, <1>12

\* A result owns its key from the transaction that takes it out of the journal, and the
\* result it replaces is journaled there.
LEMMA StoredKeeps ==
    ASSUME Places, NEW w \in Workers, step[w] = "store", Reserved(w), Stored(w),
           UNCHANGED <<object, deleter, toDelete>>, faults' \in Nat,
           claim' \in [Workers -> SUBSET Jobs], OneClaim',
           output' = [output EXCEPT ![w] = {}],
           step' \in {[step EXCEPT ![w] = "idle"], [step EXCEPT ![w] = "failing"]}
    PROVE  Places'
<1> USE DEF Places
<1>1. PICK j \in claim[w] : peaks' = [peaks EXCEPT ![j] = output[w]]
  BY DEF Stored
<1>2. j \in Jobs
  OBVIOUS
<1>3. /\ journal' = [k \in Keys |-> IF k \in output[w] THEN "none"
                                    ELSE IF k \in Replaced(w) THEN "fresh" ELSE journal[k]]
      /\ outlived' = outlived
  BY DEF Stored
<1>4. \A k \in output[w] : /\ k \in Reservations /\ k \in object /\ k \notin Claimed
                            /\ k \notin outlived /\ k \notin Owned
  BY DEF Reserved, Reservations
<1>5. \A k \in Keys : k \in deleter[Drain].deleted \cup deleter[Purger].deleted
                         \cup deleter[Drain].claimed \cup deleter[Purger].claimed => k \in Claimed
  BY AnalysisAssumption DEF Claimed
<1>6. Purged' = Purged /\ Claimed' = Claimed
  BY DEF Purged, Claimed
<1>7. Owned' = (Owned \ peaks[j]) \cup output[w]
  BY <1>1, <1>2, <1>4 DEF Owned
<1>8. Reservations' = Reservations \ output[w]
  BY DEF Reservations
<1>9. peaks[j] \subseteq Owned /\ peaks[j] \subseteq Replaced(w) /\ Replaced(w) \subseteq Owned
  BY <1>1, <1>2 DEF Owned, Replaced
<1>10. \A k \in output[w] : k \notin Purged
  BY <1>4
<1>11. KeysTyped' /\ OutputHeld'
  BY <1>1, <1>2, <1>3
<1>12. /\ \A i \in Jobs : i # j => peaks'[i] = peaks[i] /\ peaks[i] \subseteq Owned
       /\ peaks'[j] = output[w]
  BY <1>1, <1>2 DEF Owned
<1>13. \A v \in Workers : output'[v] \subseteq output[v]
  OBVIOUS
<1>14. OnePlace'
  BY <1>3, <1>4, <1>6, <1>7, <1>8, <1>10, <1>12, <1>13
<1>15. ReservationsHeld'
  <2> SUFFICES ASSUME NEW v \in Workers, NEW k \in output'[v]
               PROVE  IF k \in outlived' THEN journal'[k] # "fresh"
                      ELSE /\ journal'[k] = "fresh"
                           /\ k \notin Claimed'
                           /\ step'[v] = "store" => k \in object'
    OBVIOUS
  <2>1. v # w /\ k \in output[v] /\ k \notin output[w] /\ k \in Keys /\ step'[v] = step[v]
    OBVIOUS
  <2>2. k \notin Replaced(w)
    BY <1>9, <2>1 DEF Reservations
  <2>3. QED
    BY <1>3, <1>6, <2>1, <2>2
<1>16. DrainUnowned' /\ DeletedGone'
  BY <1>3, <1>4, <1>5, <1>6, <1>7, <1>9
<1>17. DerivedAccounted'
  BY <1>3, <1>4, <1>7, <1>9 DEF Leaked, Journaled
<1>18. StoredPeaksExist'
  <2>1. Replaced(w) \subseteq peaks[j]
    BY <1>1 DEF Replaced
  <2>2. \A k \in Owned \ peaks[j] : journal'[k] = IF k \in output[w] THEN "none" ELSE journal[k]
    BY <1>3, <2>1 DEF Owned
  <2>3. \A k \in Owned \ peaks[j] : journal'[k] = "none"
    BY <2>2 DEF Journaled, Owned
  <2>4. \A k \in Owned' : k \in Keys /\ journal'[k] = "none"
    BY <1>3, <1>7, <2>3 DEF Owned
  <2>5. Owned' \subseteq object' /\ Owned' \cap Journaled' = {}
    BY <1>4, <1>7, <2>4 DEF Journaled
  <2>6. Owned' \cap toDelete' = {}
    BY <1>7, <1>10 DEF Purged
  <2>7. QED
    BY <2>5, <2>6
<1>19. QED
  BY <1>11, <1>14, <1>15, <1>16, <1>17, <1>18

\* A result that lost its job, or its reservation, leaves its key journaled.
LEMMA JournalDueKeeps ==
    ASSUME Places, NEW w \in Workers, step[w] = "store", JournalDue(w),
           UNCHANGED <<object, deleter, toDelete>>, faults' \in Nat,
           claim' \in [Workers -> SUBSET Jobs], OneClaim',
           output' = [output EXCEPT ![w] = {}],
           step' \in {[step EXCEPT ![w] = "idle"], [step EXCEPT ![w] = "failing"]}
    PROVE  Places'
<1> USE DEF Places
<1>1. /\ journal' = [k \in Keys |-> IF k \in output[w] THEN "fresh" ELSE journal[k]]
      /\ outlived' = outlived \ output[w]
      /\ UNCHANGED peaks
  BY DEF JournalDue, Rows
<1>2. /\ Owned' = Owned /\ Purged' = Purged /\ Claimed' = Claimed
      /\ Reservations' \subseteq Reservations
  BY <1>1 DEF Owned, Purged, Claimed, Reservations
<1>3. output[w] \subseteq Reservations /\ \A v \in Workers : output'[v] \subseteq output[v]
  BY DEF Reservations
<1>4. KeysTyped' /\ OutputHeld'
  BY <1>1
<1>5. OnePlace' /\ DrainUnowned'
  BY <1>1, <1>2, <1>3
<1>6. ReservationsHeld'
  BY <1>1, <1>2, <1>3
<1>7. DeletedGone'
  BY <1>1, <1>2, <1>3
<1>8. DerivedAccounted' /\ StoredPeaksExist'
  BY <1>1, <1>2, <1>3 DEF Leaked, Journaled
<1>9. QED
  BY <1>4, <1>5, <1>6, <1>7, <1>8

\* store_result and its failures.
LEMMA StoreKeeps ==
    ASSUME Places, NEW w \in Workers, Store(w) \/ StoreFails(w)
    PROVE  Places'
<1>1. /\ claim' \in [Workers -> SUBSET Jobs] /\ OneClaim'
      /\ output' = [output EXCEPT ![w] = {}]
      /\ step' \in {[step EXCEPT ![w] = "idle"], [step EXCEPT ![w] = "failing"]}
  BY DEF Store, StoreFails, Finished, Reports, Places
<1>2. faults' \in Nat /\ UNCHANGED <<object, deleter, toDelete>> /\ step[w] = "store"
  BY DEF Store, StoreFails, Fault, Places
<1>3. CASE StoreResult(w)
  BY <1>1, <1>2, <1>3, StoredKeeps, JournalDueKeeps DEF StoreResult
<1>4. CASE UNCHANGED <<peaks, journal, outlived>>
  <2>1. output' \in [Workers -> SUBSET Keys]
    BY <1>1 DEF Places
  <2>2. step' \in [Workers -> {"idle", "child", "put", "store", "failing", "unavailable"}]
    <3>1. step \in [Workers -> {"idle", "child", "put", "store", "failing", "unavailable"}]
      BY DEF Places
    <3>2. [step EXCEPT ![w] = "idle"] \in
            [Workers -> {"idle", "child", "put", "store", "failing", "unavailable"}]
      BY <3>1
    <3>3. [step EXCEPT ![w] = "failing"] \in
            [Workers -> {"idle", "child", "put", "store", "failing", "unavailable"}]
      BY <3>1
    <3>4. QED
      BY <1>1, <3>2, <3>3
  <2>3. \A v \in Workers : \/ output'[v] = output[v] /\ step'[v] = step[v]
                           \/ output'[v] = {} /\ step'[v] \notin {"put", "store"}
    BY <1>1 DEF Places
  <2>4. QED
    BY <1>1, <1>2, <1>4, <2>1, <2>2, <2>3, LetGo
<1>5. QED
  BY <1>3, <1>4 DEF Store, StoreFails

\* A deleter's claim takes no key that a row or an untaken reservation needs.
LEMMA ClaimsKeep ==
    ASSUME Places, PurgeClaims \/ \E due \in SUBSET Journaled : DrainClaims(due)
    PROVE  Places'
<1> USE AnalysisAssumption DEF Places
<1>1. UNCHANGED <<object, faults, peaks, step, claim, output>>
  BY DEF PurgeClaims, DrainClaims, ClaimDeletions, runnerVars, journalVars
<1>2. Owned' = Owned /\ Reservations' = Reservations
  BY <1>1 DEF Owned, Reservations
<1>3. ASSUME NEW due \in SUBSET Journaled, DrainClaims(due)
      PROVE  Places'
  <2>1. /\ deleter[Drain] = Quiet
        /\ journal' = [k \in Keys |-> IF k \in due THEN "tried" ELSE journal[k]]
        /\ deleter' = [deleter EXCEPT ![Drain].claimed = due]
        /\ outlived' = outlived \cup (due \cap Reservations)
        /\ toDelete' = toDelete
    <3> DEFINE rows == (due \cap Journaled) \ {}
    <3>1. /\ deleter[Drain] = Quiet
          /\ journal' = [k \in Keys |-> IF k \in rows \cap {} THEN "none"
                                        ELSE IF k \in rows THEN "tried" ELSE journal[k]]
          /\ deleter' = [deleter EXCEPT ![Drain].claimed = rows \ {}]
          /\ outlived' = outlived \cup (due \cap Reservations)
          /\ toDelete' = toDelete
      BY <1>3 DEF DrainClaims, ClaimDeletions
    <3>2. rows = due /\ rows \ {} = due /\ rows \cap {} = {}
      OBVIOUS
    <3> HIDE DEF rows
    <3>3. QED
      BY <3>1, <3>2
  <2>2. /\ deleter'[Drain].claimed = due /\ deleter'[Drain].deleted = {}
        /\ deleter'[Purger] = deleter[Purger]
        /\ Purged' = Purged
    <3>1. /\ deleter[Drain].claimed = {} /\ deleter[Drain].deleted = {}
          /\ deleter'[Drain].claimed = due /\ deleter'[Drain].deleted = {}
      BY <2>1 DEF Quiet
    <3>2. deleter'[Purger] = deleter[Purger]
      BY <2>1
    <3>3. QED
      BY <2>1, <3>1, <3>2 DEF Purged
  <2>3. Claimed' = Claimed \cup due /\ due \subseteq Keys
    BY <2>1, <2>2 DEF Claimed, Quiet, Journaled
  <2>4. due \cap Owned = {}
    BY DEF Journaled
  <2>5. KeysTyped' /\ OutputHeld' /\ OneClaim'
    BY <1>1, <2>1, <2>3
  <2>6. OnePlace' /\ DrainUnowned'
    BY <1>1, <1>2, <2>1, <2>2, <2>4
  <2>7. ReservationsHeld'
    BY <1>1, <1>2, <2>1, <2>3 DEF Reservations
  <2>8. DeletedGone'
    BY <1>1, <2>2
  <2>9. DerivedAccounted'
    BY <1>1, <1>2, <2>1 DEF Leaked, Journaled
  <2>10. StoredPeaksExist'
    BY <1>1, <1>2, <2>1, <2>4 DEF Journaled
  <2>11. QED
    BY <2>5, <2>6, <2>7, <2>8, <2>9, <2>10
<1>4. ASSUME PurgeClaims, ClaimDeletions(Purger, toDelete, {}, {})
      PROVE  Places'
  <2> DEFINE rows == toDelete \cap Journaled
  <2>1. /\ deleter[Purger] = Quiet
        /\ journal' = [k \in Keys |-> IF k \in rows THEN "tried" ELSE journal[k]]
        /\ deleter' = [deleter EXCEPT ![Purger].claimed = rows]
        /\ outlived' = outlived
        /\ toDelete' = {}
    BY <1>4 DEF PurgeClaims, ClaimDeletions
  <2>2. /\ deleter'[Purger].claimed = rows /\ deleter'[Purger].deleted = {}
        /\ deleter'[Drain] = deleter[Drain]
        /\ rows \subseteq Purged
        /\ Purged' \subseteq Purged
    <3>1. /\ deleter[Purger].claimed = {} /\ deleter[Purger].deleted = {}
          /\ deleter'[Purger].claimed = rows /\ deleter'[Purger].deleted = {}
      BY <2>1 DEF Quiet
    <3>2. deleter'[Drain] = deleter[Drain]
      BY <2>1
    <3>3. QED
      BY <2>1, <3>1, <3>2 DEF Purged
  <2>3. Claimed' = Claimed \cup rows /\ rows \subseteq Keys
    BY <2>1, <2>2 DEF Claimed, Quiet, Journaled
  <2>4. rows \cap (Owned \cup Reservations \cup outlived) = {}
    BY <2>2
  <2> HIDE DEF rows
  <2>5. KeysTyped' /\ OutputHeld' /\ OneClaim'
    BY <1>1, <2>1, <2>3
  <2>6. OnePlace' /\ DrainUnowned'
    BY <1>1, <1>2, <2>1, <2>2, <2>4
  <2>7. ReservationsHeld'
    BY <1>1, <1>2, <2>1, <2>3, <2>4 DEF Reservations
  <2>8. DeletedGone'
    BY <1>1, <2>1, <2>2
  <2>9. DerivedAccounted'
    BY <1>1, <1>2, <2>1 DEF Leaked, Journaled
  <2>10. StoredPeaksExist'
    BY <1>1, <1>2, <2>1, <2>4 DEF Journaled
  <2>11. QED
    BY <2>5, <2>6, <2>7, <2>8, <2>9, <2>10
<1>5. ASSUME PurgeClaims, UNCHANGED journalVars
      PROVE  Places'
  <2>1. UNCHANGED <<journal, object, deleter, outlived>> /\ toDelete' = {}
    BY <1>5 DEF PurgeClaims, journalVars
  <2>2. Purged' \subseteq Purged /\ Claimed' = Claimed /\ Journaled' = Journaled
    BY <2>1 DEF Purged, Claimed, Journaled
  <2>3. QED
    BY <1>1, <1>2, <2>1, <2>2 DEF Leaked
<1>6. QED
  BY <1>3, <1>4, <1>5 DEF PurgeClaims

\* A deletion removes an object that no row owns, and then its journal row, unless the key
\* was journaled again.
LEMMA DeletesKeep ==
    ASSUME Places, NEW d \in Deleters, Deletes(d)
    PROVE  Places'
<1> USE AnalysisAssumption DEF Places
<1>1. UNCHANGED <<peaks, step, claim, output, toDelete, outlived>>
  BY DEF Deletes, runnerVars
<1>2. Owned' = Owned /\ Reservations' = Reservations
  BY <1>1 DEF Owned, Reservations
<1>3. \A k \in Keys : \A e \in Deleters :
        k \in deleter[e].claimed \cup deleter[e].deleted => k \in Claimed /\ k \notin Owned
  BY DEF Claimed, Purged
<1>4. ASSUME NEW k \in Keys, DeleteObject(d, k)
      PROVE  Places'
  <2>1. /\ k \in deleter[d].claimed
        /\ object' = object \ {k}
        /\ deleter'[d].claimed = deleter[d].claimed \ {k}
        /\ deleter'[d].deleted = deleter[d].deleted \cup {k}
        /\ \A e \in Deleters \ {d} : deleter'[e] = deleter[e]
        /\ UNCHANGED <<journal, faults>>
    BY <1>4 DEF DeleteObject
  <2>2. deleter' \in [Deleters -> [claimed : SUBSET Keys, deleted : SUBSET Keys]]
    BY <1>4 DEF DeleteObject
  <2>3. Claimed' = Claimed /\ Purged' = Purged
    BY <1>1, <2>1 DEF Claimed, Purged
  <2>4. KeysTyped' /\ OutputHeld' /\ OneClaim' /\ OnePlace'
    BY <1>1, <1>2, <2>1, <2>2, <2>3
  <2>5. ReservationsHeld'
    BY <1>1, <1>3, <2>1, <2>3
  <2>6. DrainUnowned' /\ StoredPeaksExist'
    BY <1>1, <1>2, <1>3, <2>1, <2>3 DEF Journaled
  <2>7. DeletedGone'
    BY <1>1, <2>1, <2>3
  <2>8. DerivedAccounted'
    BY <1>1, <1>2, <2>1 DEF Leaked, Journaled
  <2>9. QED
    BY <2>4, <2>5, <2>6, <2>7, <2>8
<1>5. ASSUME NEW k \in Keys, DeleteFails(d, k)
      PROVE  Places'
  <2>1. /\ deleter'[d].claimed = deleter[d].claimed \ {k}
        /\ deleter'[d].deleted = deleter[d].deleted
        /\ \A e \in Deleters \ {d} : deleter'[e] = deleter[e]
        /\ deleter' \in [Deleters -> [claimed : SUBSET Keys, deleted : SUBSET Keys]]
        /\ faults' \in Nat
        /\ UNCHANGED <<journal, object>>
    BY <1>5 DEF DeleteFails, Fault
  <2>2. Claimed' \subseteq Claimed /\ Purged' \subseteq Purged /\ Journaled' = Journaled
    BY <1>1, <2>1 DEF Claimed, Purged, Journaled
  <2>3. DeletedGone' /\ DrainUnowned'
    BY <1>1, <1>2, <2>1, <2>2
  <2>4. OnePlace' /\ ReservationsHeld'
    BY <1>1, <1>2, <2>1, <2>2
  <2>5. QED
    BY <1>1, <1>2, <2>1, <2>2, <2>3, <2>4 DEF Leaked
<1>6. ASSUME FinishDeletions(d) \/ FinishDeletionsFails(d)
      PROVE  Places'
  <2>1. /\ deleter'[d].claimed = {} /\ deleter'[d].deleted = {}
        /\ \A e \in Deleters \ {d} : deleter'[e] = deleter[e]
        /\ deleter' \in [Deleters -> [claimed : SUBSET Keys, deleted : SUBSET Keys]]
        /\ faults' \in Nat
        /\ UNCHANGED object
    BY <1>6 DEF FinishDeletions, FinishDeletionsFails, Fault, Quiet
  <2>2. Claimed' \subseteq Claimed /\ Purged' \subseteq Purged
    BY <1>1, <2>1 DEF Claimed, Purged
  <2>3. /\ journal' \in [Keys -> {"none", "fresh", "tried"}]
        /\ \A k \in Keys : journal'[k] = journal[k]
                            \/ (journal[k] = "tried" /\ journal'[k] = "none" /\ k \in deleter[d].deleted)
    BY <1>6 DEF FinishDeletions, FinishDeletionsFails, Unjournal, Rows
  <2>4. DeletedGone' /\ DrainUnowned'
    BY <1>1, <1>2, <2>1, <2>2, <2>3
  <2>5. OnePlace' /\ ReservationsHeld'
    BY <1>1, <1>2, <2>1, <2>2, <2>3
  <2>6. DerivedAccounted'
    BY <1>1, <1>2, <2>1, <2>3 DEF Leaked, Journaled
  <2>7. StoredPeaksExist'
    BY <1>1, <1>2, <2>1, <2>3 DEF Journaled
  <2>8. QED
    BY <1>1, <2>1, <2>3, <2>4, <2>5, <2>6, <2>7
<1>7. QED
  BY <1>4, <1>5, <1>6 DEF Deletes, DeleterStep

\* A new process has no claim, no output and no deletion under way.
LEMMA CrashKeeps ==
    ASSUME Places, Crash
    PROVE  Places'
<1> USE AnalysisAssumption DEF Places
<1>1. /\ UNCHANGED <<journal, object, peaks, outlived>>
      /\ toDelete' = {} /\ faults' \in Nat
      /\ deleter' = [d \in Deleters |-> Quiet]
      /\ step' = [w \in Workers |-> "idle"]
      /\ claim' = [w \in Workers |-> {}]
      /\ output' = [w \in Workers |-> {}]
  BY DEF Crash, Fault
<1>2. Owned' = Owned /\ Reservations' = {} /\ Purged' = {} /\ Journaled' = Journaled
  BY <1>1 DEF Owned, Reservations, Purged, Journaled, Quiet
<1>3. KeysTyped'
  BY <1>1 DEF Quiet
<1>4. DrainUnowned' /\ DeletedGone'
  BY <1>1 DEF Quiet
<1>5. QED
  BY <1>1, <1>2, <1>3, <1>4 DEF Leaked

\* Every step keeps each key in its place.
LEMMA PlacesKeep ==
    ASSUME Places, Next
    PROVE  Places'
<1>1. ASSUME NEW w \in Workers, Claim(w)
      PROVE  Places'
  <2>1. PICK claimed \in SUBSET Jobs : /\ ClaimDue(w, claimed)
                                       /\ claim' = [claim EXCEPT ![w] = claimed]
                                       /\ step' = [step EXCEPT ![w] = IF claimed = {} THEN "idle"
                                                                      ELSE "child"]
    BY <1>1 DEF Claim
  <2>2. \A i, j \in claimed : i = j
    BY <2>1 DEF ClaimDue
  <2>3. output[w] = {} /\ output' = output
    BY <1>1 DEF Claim, Places
  <2>4. step' \in [Workers -> {"idle", "child", "put", "store", "failing", "unavailable"}]
        /\ step'[w] \notin {"put", "store"} /\ \A v \in Workers \ {w} : step'[v] = step[v]
    BY <2>1 DEF Places
  <2>5. claim' \in [Workers -> SUBSET Jobs] /\ OneClaim'
    BY <2>1, <2>2 DEF Places
  <2>6. QED
    BY <1>1, <2>3, <2>4, <2>5, LetGo DEF Claim, Places, journalVars
<1>2. ASSUME NEW w \in Workers, ChildFails(w) \/ Fail(w) \/ Abandon(w)
      PROVE  Places'
  BY <1>2, LetGo DEF ChildFails, Fail, Abandon, Finished, Reports, Places, journalVars
<1>3. ASSUME StartStep \/ Tick
      PROVE  Places'
  BY <1>3, LetGo DEF StartStep, ReleaseLeases, Requeue, Tick, Places, journalVars, runnerVars
<1>4. QED
  BY <1>1, <1>2, <1>3, RowsKeep, ReserveKeeps, PutKeeps, StoreKeeps, ClaimsKeep, DeletesKeep,
     CrashKeeps DEF Next, RunnerStep, DeletionStep

\* What each step does to the jobs is one of the helper's writes.
LEMMA JobsStep ==
    ASSUME JobsRight, KeysTyped, Next
    PROVE  JobsRight'
<1>1. ASSUME NEW j \in Jobs, Schedule(j) \/ Purge(j)
      PROVE  JobsRight'
  <2>1. {j} \in SUBSET Jobs
    OBVIOUS
  <2>2. QED
    BY <1>1, <2>1, JobsKeep DEF Schedule, Purge
<1>2. ASSUME NEW w \in Workers, RunnerStep(w)
      PROVE  JobsRight'
  <2>1. CASE Claim(w)
    BY <2>1, JobsKeep DEF Claim
  <2>2. CASE Store(w) \/ StoreFails(w)
    <3>1. CASE \E j \in claim[w] : Complete(j, "stored")
      BY <3>1, JobsKeep DEF Terminal
    <3>2. CASE UNCHANGED jobVars
      BY <3>2, JobsKeep
    <3>3. QED
      BY <2>2, <3>1, <3>2 DEF Store, StoreFails, StoreResult, Stored, JournalDue
  <2>3. CASE Fail(w)
    <3>1. CASE \E j \in claim[w] : Holds(w, j) /\ Retry(j)
      BY <3>1, JobsKeep DEF Holds
    <3>2. CASE \E j \in claim[w] : Complete(j, "unavailable")
      BY <3>2, JobsKeep DEF Terminal
    <3>3. CASE UNCHANGED jobVars
      BY <3>3, JobsKeep
    <3>4. QED
      BY <2>3, <3>1, <3>2, <3>3 DEF Fail
  <2>4. CASE ChildFails(w) \/ Reserve(w) \/ Put(w) \/ PutFails(w) \/ Abandon(w)
    BY <2>4, JobsKeep DEF ChildFails, Reserve, Put, PutFails, Abandon
  <2>5. QED
    BY <1>2, <2>1, <2>2, <2>3, <2>4 DEF RunnerStep
<1>3. ASSUME DeletionStep \/ Crash
      PROVE  JobsRight'
  BY <1>3, JobsKeep DEF DeletionStep, DrainClaims, PurgeClaims, Deletes, Crash
<1>4. ASSUME StartStep \/ Tick
      PROVE  JobsRight'
  <2>1. CASE Requeue
    <3>1. PICK again \in {{}, {j \in Jobs : state[j] \in Terminal}} : Enqueue(again)
      BY <2>1 DEF Requeue
    <3>2. again \in SUBSET Jobs
      OBVIOUS
    <3>3. QED
      BY <3>1, <3>2, JobsKeep
  <2>2. CASE ReleaseLeases \/ Tick
    BY <2>2, JobsKeep DEF ReleaseLeases, Tick
  <2>3. QED
    BY <1>4, <2>1, <2>2 DEF StartStep
<1>5. QED
  BY <1>1, <1>2, <1>3, <1>4 DEF Next

\* At first there is no row, no object and nothing journaled.
LEMMA InitHolds ==
    ASSUME Init
    PROVE  AnalysisInv
<1>1. JobsRight /\ ClockTyped
  BY JobsAssumption, AnalysisAssumption
     DEF Init, JobsInit, JobsRight, JobsTypeOK, AttemptLeft, ClockTyped, Terminal
<1>2. Places
  BY AnalysisAssumption, JournalAssumption
     DEF Init, JournalInit, Quiet, Places, Owned, Reservations, Claimed, Purged, Leaked, Journaled
<1>3. QED
  BY <1>1, <1>2, Halves

\* The stuttering step.
LEMMA StutterKeeps ==
    ASSUME AnalysisInv, UNCHANGED vars
    PROVE  AnalysisInv'
BY DEF AnalysisInv, vars, jobVars, journalVars, runnerVars, TypeOK, JobsTypeOK, AttemptLeft,
   Owned, Reservations, Claimed, Purged, Leaked, Journaled

-----------------------------------------------------------------------------

\* The jobs and every derived key stay in their place, whatever the runner, the purges,
\* the drain and the crashes of storage_analysis.py do.
THEOREM AnalysisInvariant == Spec => []AnalysisInv
<1>1. AnalysisInv /\ [Next]_vars => AnalysisInv'
  <2>1. ASSUME AnalysisInv, Next
        PROVE  AnalysisInv'
    <3>1. JobsRight /\ ClockTyped /\ Places
      BY <2>1, Halves
    <3>2. JobsRight' /\ ClockTyped' /\ Places'
      BY <2>1, <3>1, JobsStep, ClockKeeps, PlacesKeep DEF Places
    <3>3. QED
      BY <3>2 DEF AnalysisInv, JobsRight, ClockTyped, Places, TypeOK
  <2>2. QED
    BY <2>1, StutterKeeps
<1>2. QED
  BY InitHolds, <1>1, PTL DEF Spec

\* No derived blob is left that neither a row owns nor the drain will find, unless its
\* runner outlived its reservation and never wrote its outcome.
THEOREM DerivedAccountedAlways == Spec => []DerivedAccounted
<1>1. AnalysisInv => DerivedAccounted
  BY DEF AnalysisInv
<1>2. QED
  BY AnalysisInvariant, <1>1, PTL

\* A stored result's peaks are in the blob store, and no journal row names them.
THEOREM StoredPeaksExistAlways == Spec => []StoredPeaksExist
<1>1. AnalysisInv => StoredPeaksExist
  BY DEF AnalysisInv
<1>2. QED
  BY AnalysisInvariant, <1>1, PTL

=============================================================================
