--------------------------- MODULE RecordingsProofs ---------------------------
(***************************************************************************)
(* Proofs about Recordings, for any keys, recordings and deleters and      *)
(* however many faults and creations. RecordingsInv, which says where each *)
(* key's attempt stands and who may still delete its object, is inductive, *)
(* and contains NothingLeaks and StoredHasObject.                          *)
(***************************************************************************)
EXTENDS Recordings, TLAPS

USE DEF RecordingsInv, TypeOK, JournalTypeOK, RowsOwn, UnusedNowhere, InFlightBusy,
        CallsAwaited, JournaledUntilStored, DeletesUnowned, NothingLeaks, StoredHasObject

-----------------------------------------------------------------------------

\* Nothing is stored, journaled or running at first.
LEMMA InitHolds ==
    ASSUME Init
    PROVE  RecordingsInv
BY JournalAssumption, RecordingsAssumption
   DEF Init, JournalInit, Quiet, Owned, Leaked, Journaled, Busy, Calls

\* Rows: a creation and the sweep own nothing; a purge journals what its rows owned.
LEMMA RowsKeep ==
    ASSUME RecordingsInv, RowStep
    PROVE  RecordingsInv'
<1> USE DEF Owned, Leaked, Journaled, journalVars, attemptVars, sideVars
<1>1. ASSUME NEW r \in Recs, Create(r) \/ FailStale(r)
      PROVE  RecordingsInv'
  BY <1>1 DEF Create, FailStale
<1>2. CASE Purge
  BY <1>2 DEF Purge, JournalOwned, Rows
<1>3. QED
  BY <1>1, <1>2 DEF RowStep

\* The finish transaction of an attempt that lost changes nothing.
LEMMA StoresNothing ==
    ASSUME RecordingsInv, NEW k \in Keys, StoreRow(k), Stores(k) = {}
    PROVE  UNCHANGED <<rec, blobKey, journal>>
<1>1. rec' = [r \in Recs |-> rec[r]] /\ blobKey' = [r \in Recs |-> blobKey[r]]
  BY DEF StoreRow
<1>2. QED
  BY <1>1 DEF StoreRow

\* That of the attempt that wins makes its key owned, and takes it out of the journal.
LEMMA StoresKey ==
    ASSUME RecordingsInv, NEW k \in Keys, StoreRow(k), Stores(k) # {}
    PROVE  /\ Owned' = Owned \cup {k}
           /\ rec' \in [Recs -> {"none", "pending", "stored", "failed"}]
           /\ blobKey' \in [Recs -> SUBSET Keys]
           /\ journal' = Rows({k}, "none")
           /\ \A r \in Recs : rec'[r] = "stored" <=> blobKey'[r] # {}
           /\ \A r \in Recs : blobKey'[r] = blobKey[r] \/ (blobKey'[r] = {k} /\ r \in target[k])
<1>1. \A r \in Stores(k) : r \in Recs /\ rec[r] = "pending" /\ blobKey[r] = {}
  BY DEF Stores
<1>2. \A r \in Recs : /\ rec'[r] = IF r \in Stores(k) THEN "stored" ELSE rec[r]
                      /\ blobKey'[r] = IF r \in Stores(k) THEN {k} ELSE blobKey[r]
  BY DEF StoreRow
<1>3. Owned' = Owned \cup {k}
  BY <1>1, <1>2 DEF Owned
<1>4. QED
  BY <1>1, <1>2, <1>3 DEF StoreRow, Stores

\* The end of a call, key by key: k's handler goes on if it awaited the call.
HandlerMoves(k, call, awaited, next, calls) ==
    /\ call \in running[k]
    /\ request' \in [Keys -> {"unused", "body", "commit", "finish", "discard", "over", "ended"}]
    /\ running' \in [Keys -> SUBSET Calls]
    /\ \A j \in Keys \ {k} : request'[j] = request[j] /\ running'[j] = running[j]
    /\ request[k] = awaited =>
          request'[k] = next /\ running'[k] = (running[k] \ {call}) \cup calls
    /\ request[k] # awaited =>
          request'[k] = request[k] /\ running'[k] = running[k] \ {call}

\* What the end of a call leaves of the handlers and of the calls that run.
LEMMA Returned ==
    ASSUME RecordingsInv, NEW k \in Keys, NEW call, NEW awaited, NEW calls \in SUBSET Calls,
           NEW next \in {"commit", "finish", "discard", "over"},
           Return(k, call, awaited, next, calls)
    PROVE  HandlerMoves(k, call, awaited, next, calls)
BY DEF Return, HandlerMoves

\* The attempt's own steps up to its finish.
LEMMA UploadKeeps ==
    ASSUME RecordingsInv, NEW k \in Keys,
           \/ \E r \in Recs : BeginUpload(k, r)
           \/ BodyArrives(k) \/ BodyFails(k)
           \/ Commit(k) \/ CommitFails(k)
           \/ FinishUpload(k) \/ FinishFails(k)
    PROVE  RecordingsInv'
<1> USE DEF Owned, Leaked, Journaled, Rows, Busy, Calls, journalVars, rowVars, sideVars
<1>1. ASSUME NEW r \in Recs, BeginUpload(k, r)
      PROVE  RecordingsInv'
  BY <1>1 DEF BeginUpload
<1>2. CASE BodyArrives(k) \/ BodyFails(k)
  <2>1. /\ request[k] = "body"
        /\ request' \in [Keys -> {"unused", "body", "commit", "finish", "discard", "over", "ended"}]
        /\ running' \in [Keys -> SUBSET Calls]
        /\ \A j \in Keys \ {k} : request'[j] = request[j] /\ running'[j] = running[j]
        /\ \/ request'[k] = "commit" /\ running'[k] = running[k] \cup {"commit"}
           \/ request'[k] = "discard" /\ running'[k] = running[k] \cup {"check"}
        /\ UNCHANGED <<journalVars, rowVars, target, inFlight, toDelete, sideVars>>
    BY <1>2 DEF BodyArrives, BodyFails
  <2>2. TypeOK' /\ RowsOwn' /\ UnusedNowhere' /\ InFlightBusy'
    BY <2>1
  <2>3. CallsAwaited'
    BY <2>1
  <2>4. JournaledUntilStored' /\ DeletesUnowned'
    BY <2>1
  <2>5. NothingLeaks' /\ StoredHasObject'
    BY <2>1
  <2>6. QED
    BY <2>2, <2>3, <2>4, <2>5
<1>3. CASE Commit(k)
  <2>1. HandlerMoves(k, "commit", "commit", "finish", {"finish"})
    BY <1>3, Returned DEF Commit
  <2>2. TypeOK' /\ RowsOwn' /\ UnusedNowhere' /\ InFlightBusy'
    BY <1>3, <2>1 DEF Commit, HandlerMoves
  <2>3. CallsAwaited'
    BY <1>3, <2>1 DEF Commit, HandlerMoves
  <2>4. JournaledUntilStored' /\ DeletesUnowned'
    BY <1>3, <2>1 DEF Commit, HandlerMoves
  <2>5. NothingLeaks' /\ StoredHasObject'
    BY <1>3, <2>1 DEF Commit, HandlerMoves
  <2>6. QED
    BY <2>2, <2>3, <2>4, <2>5
<1>4. CASE CommitFails(k)
  <2>1. HandlerMoves(k, "commit", "commit", "discard", {"check"})
    BY <1>4, Returned DEF CommitFails
  <2>2. TypeOK' /\ RowsOwn' /\ UnusedNowhere' /\ InFlightBusy'
    BY <1>4, <2>1 DEF CommitFails, Fault, HandlerMoves
  <2>3. CallsAwaited'
    BY <1>4, <2>1 DEF CommitFails, Fault, HandlerMoves
  <2>4. JournaledUntilStored' /\ DeletesUnowned'
    BY <1>4, <2>1 DEF CommitFails, Fault, HandlerMoves
  <2>5. NothingLeaks' /\ StoredHasObject'
    BY <1>4, <2>1 DEF CommitFails, Fault, HandlerMoves
  <2>6. QED
    BY <2>2, <2>3, <2>4, <2>5
<1>5. ASSUME \/ FinishUpload(k) /\ Stores(k) = {}
             \/ FinishFails(k) /\ (UNCHANGED <<rowVars, journal>> \/ (StoreRow(k) /\ Stores(k) = {}))
      PROVE  RecordingsInv'
  <2>1. UNCHANGED <<rec, blobKey, journal>>
    BY <1>5, StoresNothing DEF FinishUpload
  <2>2. HandlerMoves(k, "finish", "finish", "discard", {"check"})
    BY <1>5, Returned DEF FinishUpload, FinishFails
  <2>3. /\ UNCHANGED <<object, deleter, target, inFlight, toDelete, sideVars>>
        /\ faults' \in Nat
    BY <1>5 DEF FinishUpload, FinishFails, Fault
  <2>4. TypeOK' /\ RowsOwn' /\ UnusedNowhere' /\ InFlightBusy'
    BY <2>1, <2>2, <2>3 DEF HandlerMoves
  <2>5. CallsAwaited'
    BY <2>1, <2>2, <2>3 DEF HandlerMoves
  <2>6. JournaledUntilStored' /\ DeletesUnowned'
    BY <2>1, <2>2, <2>3 DEF HandlerMoves
  <2>7. NothingLeaks' /\ StoredHasObject'
    BY <2>1, <2>2, <2>3
  <2>8. QED
    BY <2>4, <2>5, <2>6, <2>7
<1>6. ASSUME FinishUpload(k) \/ (FinishFails(k) /\ StoreRow(k)), Stores(k) # {}
      PROVE  RecordingsInv'
  <2>1. StoreRow(k)
    BY <1>6 DEF FinishUpload
  <2>2. /\ "finish" \in running[k]
        /\ request' \in [Keys -> {"unused", "body", "commit", "finish", "discard", "over", "ended"}]
        /\ running' \in [Keys -> SUBSET Calls]
        /\ \A j \in Keys \ {k} : request'[j] = request[j] /\ running'[j] = running[j]
        /\ request[k] = "finish" => request'[k] \in {"over", "discard"}
        /\ request[k] # "finish" => request'[k] = request[k]
        /\ running'[k] \in {running[k] \ {"finish"}, (running[k] \ {"finish"}) \cup {"check"}}
    BY <1>6 DEF FinishUpload, FinishFails, Return
  <2>3. /\ UNCHANGED <<object, deleter, target, inFlight, toDelete, cancelled, creates>>
        /\ faults' \in Nat
    BY <1>6 DEF FinishUpload, FinishFails, Fault
  <2>4. /\ Owned' = Owned \cup {k}
        /\ k \in Owned'
        /\ journal'[k] = "none" /\ \A j \in Keys \ {k} : journal'[j] = journal[j]
        /\ journal' \in [Keys -> {"none", "fresh", "tried"}]
        /\ rec' \in [Recs -> {"none", "pending", "stored", "failed"}]
        /\ blobKey' \in [Recs -> SUBSET Keys]
        /\ \A r \in Recs : rec'[r] = "stored" <=> blobKey'[r] # {}
        /\ \A r \in Recs : blobKey'[r] = blobKey[r] \/ (blobKey'[r] = {k} /\ r \in target[k])
    BY <2>1, <1>6, StoresKey
  <2> HIDE DEF Owned, Rows, Leaked
  <2>5. TypeOK'
    BY <2>2, <2>3, <2>4
  <2>6. RowsOwn'
    BY <2>2, <2>3, <2>4
  <2>7. UnusedNowhere' /\ InFlightBusy'
    BY <2>2, <2>3, <2>4
  <2>8. CallsAwaited'
    BY <2>2, <2>3
  <2>9. k \in cancelled \/ k \in object
    BY <2>2
  <2>10. JournaledUntilStored'
    BY <2>2, <2>3, <2>4
  <2>11. DeletesUnowned'
    BY <2>2, <2>3, <2>4
  <2>12. NothingLeaks'
    BY <2>3, <2>4 DEF Leaked
  <2>13. StoredHasObject'
    BY <2>3, <2>4, <2>9
  <2>14. QED
    BY <2>5, <2>6, <2>7, <2>8, <2>10, <2>11, <2>12, <2>13
<1>7. QED
  BY <1>1, <1>2, <1>3, <1>4, <1>5, <1>6 DEF FinishFails

\* The steps of its discard, its end, and its cancellation.
LEMMA DiscardKeeps ==
    ASSUME RecordingsInv, NEW k \in Keys,
           \/ CheckOwner(k) \/ DiscardObject(k) \/ UnjournalAttempt(k) \/ DiscardFails(k)
           \/ EndUpload(k) \/ CancelCall(k) \/ CancelCleanup(k)
    PROVE  RecordingsInv'
<1> USE DEF Owned, Leaked, Journaled, Rows, Busy, Calls, journalVars, rowVars, sideVars
<1>1. CASE CheckOwner(k)
  <2>1. CASE k \in Owned
    <3>1. HandlerMoves(k, "check", "discard", "over", {})
      BY <1>1, <2>1, Returned DEF CheckOwner
    <3>2. TypeOK' /\ RowsOwn' /\ UnusedNowhere' /\ InFlightBusy'
      BY <1>1, <2>1, <3>1 DEF CheckOwner, HandlerMoves
    <3>3. CallsAwaited'
      BY <1>1, <2>1, <3>1 DEF CheckOwner, HandlerMoves
    <3>4. JournaledUntilStored' /\ DeletesUnowned'
      BY <1>1, <2>1, <3>1 DEF CheckOwner, HandlerMoves
    <3>5. NothingLeaks' /\ StoredHasObject'
      BY <1>1, <2>1, <3>1 DEF CheckOwner, HandlerMoves
    <3>6. QED
      BY <3>2, <3>3, <3>4, <3>5
  <2>2. CASE k \notin Owned
    BY <1>1, <2>2 DEF CheckOwner
  <2>3. QED
    BY <2>1, <2>2
<1>2. CASE DiscardObject(k)
  BY <1>2 DEF DiscardObject
<1>3. CASE UnjournalAttempt(k)
  <2>1. HandlerMoves(k, "unjournal", "discard", "over", {})
    BY <1>3, Returned DEF UnjournalAttempt
  <2>2. TypeOK' /\ RowsOwn' /\ UnusedNowhere' /\ InFlightBusy'
    BY <1>3, <2>1 DEF UnjournalAttempt, HandlerMoves
  <2>3. CallsAwaited'
    BY <1>3, <2>1 DEF UnjournalAttempt, HandlerMoves
  <2>4. JournaledUntilStored' /\ DeletesUnowned'
    BY <1>3, <2>1 DEF UnjournalAttempt, HandlerMoves
  <2>5. NothingLeaks' /\ StoredHasObject'
    BY <1>3, <2>1 DEF UnjournalAttempt, HandlerMoves
  <2>6. QED
    BY <2>2, <2>3, <2>4, <2>5
<1>4. CASE DiscardFails(k)
  <2>1. PICK call \in {"check", "delete", "unjournal"} : HandlerMoves(k, call, "discard", "over", {})
    BY <1>4, Returned DEF DiscardFails
  <2>2. TypeOK' /\ RowsOwn' /\ UnusedNowhere' /\ InFlightBusy'
    BY <1>4, <2>1 DEF DiscardFails, Fault, HandlerMoves
  <2>3. CallsAwaited'
    BY <1>4, <2>1 DEF DiscardFails, Fault, HandlerMoves
  <2>4. JournaledUntilStored' /\ DeletesUnowned'
    BY <1>4, <2>1 DEF DiscardFails, Fault, HandlerMoves
  <2>5. NothingLeaks' /\ StoredHasObject'
    BY <1>4, <2>1 DEF DiscardFails, Fault, HandlerMoves
  <2>6. QED
    BY <2>2, <2>3, <2>4, <2>5
<1>5. CASE EndUpload(k)
  BY <1>5 DEF EndUpload, Ends
<1>6. CASE CancelCall(k)
  BY <1>6 DEF CancelCall, Fault
<1>7. CASE CancelCleanup(k)
  BY <1>7 DEF CancelCleanup, Fault
<1>8. QED
  BY <1>1, <1>2, <1>3, <1>4, <1>5, <1>6, <1>7

\* A claim of deletions, by the drain or a purge, takes neither what is in flight nor what
\* is owned.
LEMMA ClaimKeeps ==
    ASSUME RecordingsInv, NEW d \in Deleters, NEW due \in SUBSET Keys,
           ClaimDeletions(d, due, Spared, Owned),
           UNCHANGED <<rowVars, attemptVars, sideVars>>,
           toDelete' \subseteq Keys
    PROVE  RecordingsInv'
BY DEF ClaimDeletions, Spared, Quiet, Owned, Leaked, Journaled, Busy, rowVars, attemptVars,
       sideVars

\* The deletions and the rows they take.
LEMMA DeletesKeep ==
    ASSUME RecordingsInv, NEW d \in Deleters, Deletes(d)
    PROVE  RecordingsInv'
<1> USE DEF Owned, Leaked, Journaled, Rows, rowVars, attemptVars, sideVars
<1>1. ASSUME NEW k \in Keys, DeleteObject(d, k)
      PROVE  RecordingsInv'
  <2>1. /\ k \in deleter[d].claimed
        /\ object' = object \ {k}
        /\ \A e \in Deleters : /\ deleter'[e].claimed \subseteq deleter[e].claimed
                               /\ deleter'[e].deleted \subseteq deleter[e].deleted \cup {k}
        /\ UNCHANGED <<journal, faults, rowVars, attemptVars, toDelete, sideVars>>
    BY <1>1, SMTT(30) DEF Deletes, DeleteObject
  <2>2. TypeOK'
    <3>1. deleter' \in [Deleters -> [claimed : SUBSET Keys, deleted : SUBSET Keys]]
      BY <1>1 DEF DeleteObject
    <3>2. QED
      BY <2>1, <3>1
  <2>3. Owned' = Owned /\ Journaled' = Journaled
    BY <2>1
  <2>4. request[k] = "ended" /\ (k \in cancelled \/ k \notin Owned)
    BY <2>1
  <2>5. RowsOwn' /\ UnusedNowhere' /\ CallsAwaited' /\ JournaledUntilStored'
    BY <2>1, <2>3, <2>4
  <2>6. InFlightBusy'
    BY <2>1, <2>4
  <2>7. DeletesUnowned'
    BY <2>1, <2>3
  <2>8. NothingLeaks' /\ StoredHasObject'
    BY <2>1, <2>3, <2>4
  <2>9. QED
    BY <2>2, <2>5, <2>6, <2>7, <2>8
<1>2. ASSUME NEW k \in Keys, DeleteFails(d, k)
      PROVE  RecordingsInv'
  BY <1>2 DEF Deletes, DeleteFails, Fault
<1>3. CASE FinishDeletions(d)
  BY <1>3 DEF Deletes, FinishDeletions, Unjournal, Quiet
<1>4. CASE FinishDeletionsFails(d)
  BY <1>4 DEF Deletes, FinishDeletionsFails, Quiet, Fault
<1>5. QED
  BY <1>1, <1>2, <1>3, <1>4 DEF Deletes, DeleterStep

\* After a crash every attempt is over and its key still journaled, or owned.
LEMMA CrashKeeps ==
    ASSUME RecordingsInv, Crash
    PROVE  RecordingsInv'
BY DEF Crash, Fault, Quiet, Owned, Leaked, Journaled, Busy, Calls, rowVars, sideVars

-----------------------------------------------------------------------------

\* RecordingsInv is inductive: rows, journal, objects, handlers and deleters agree in every
\* reachable state.
THEOREM RecordingsInvariant == Spec => []RecordingsInv
<1>1. Init => RecordingsInv
  BY InitHolds
<1>2. RecordingsInv /\ [Next]_vars => RecordingsInv'
  <2> SUFFICES ASSUME RecordingsInv, [Next]_vars
               PROVE  RecordingsInv'
    OBVIOUS
  <2>1. CASE RowStep
    BY <2>1, RowsKeep
  <2>2. ASSUME NEW k \in Keys, AttemptStep(k)
        PROVE  RecordingsInv'
    BY <2>2, UploadKeeps, DiscardKeeps DEF AttemptStep
  <2>3. CASE DeletionStep
    <3>1. ASSUME NEW due \in SUBSET Journaled, DrainClaims(due)
          PROVE  RecordingsInv'
      BY <3>1, ClaimKeeps, RecordingsAssumption DEF DrainClaims, Journaled
    <3>2. CASE PurgeClaims
      <4>1. CASE ClaimDeletions(Purger, toDelete, Spared, Owned)
        BY <3>2, <4>1, ClaimKeeps, RecordingsAssumption DEF PurgeClaims
      <4>2. CASE UNCHANGED journalVars
        BY <3>2, <4>2 DEF PurgeClaims, journalVars, rowVars, attemptVars, sideVars, Owned,
          Leaked, Journaled
      <4>3. QED
        BY <3>2, <4>1, <4>2 DEF PurgeClaims
    <3>3. QED
      BY <2>3, <3>1, <3>2, DeletesKeep DEF DeletionStep
  <2>4. CASE Crash
    BY <2>4, CrashKeeps
  <2>5. CASE UNCHANGED vars
    BY <2>5 DEF vars, journalVars, rowVars, attemptVars, sideVars, Owned, Leaked, Journaled
  <2>6. QED
    BY <2>1, <2>2, <2>3, <2>4, <2>5 DEF Next
<1>3. QED
  BY <1>1, <1>2, PTL DEF Spec

\* "A key stays journaled unless a stored recording owns it": no object leaks.
THEOREM NothingLeaksAlways == Spec => []NothingLeaks
<1>1. RecordingsInv => NothingLeaks
  OBVIOUS
<1>2. QED
  BY <1>1, RecordingsInvariant, PTL

\* The object of a stored recording is never deleted under it.
THEOREM StoredHasObjectAlways == Spec => []StoredHasObject
<1>1. RecordingsInv => StoredHasObject
  OBVIOUS
<1>2. QED
  BY <1>1, RecordingsInvariant, PTL

\* Of the sweep and the finishes racing for a recording exactly one wins: only a purge undoes
\* what a recording has become.
THEOREM OneOutcomeAlways == Spec => OneOutcome
<1> DEFINE Stays == \A r \in Recs : rec[r] \in {"stored", "failed"} =>
                      rec'[r] = "none" \/ (rec'[r] = rec[r] /\ blobKey'[r] = blobKey[r])
<1>1. ASSUME RecordingsInv, [Next]_vars
      PROVE  [Stays]_rowVars
  <2> USE <1>1
  <2>1. CASE RowStep
    BY <2>1 DEF RowStep, Create, FailStale, Purge, TypeOK
  <2>2. ASSUME NEW k \in Keys, AttemptStep(k)
        PROVE  [Stays]_rowVars
    <3>1. CASE FinishUpload(k) \/ FinishFails(k)
      <4>1. StoreRow(k) \/ UNCHANGED rowVars
        BY <3>1 DEF FinishUpload, FinishFails
      <4>2. QED
        BY <4>1 DEF StoreRow, Stores
    <3>2. CASE UNCHANGED rowVars
      BY <3>2
    <3>3. QED
      BY <2>2, <3>1, <3>2 DEF AttemptStep, BeginUpload, BodyArrives, BodyFails, Commit, CommitFails,
        CheckOwner, DiscardObject, UnjournalAttempt, DiscardFails, EndUpload, CancelCall, CancelCleanup
  <2>3. CASE DeletionStep \/ Crash \/ UNCHANGED vars
    BY <2>3 DEF DeletionStep, DrainClaims, PurgeClaims, Deletes, Crash, vars
  <2>4. QED
    BY <2>1, <2>2, <2>3 DEF Next
<1>2. QED
  BY <1>1, RecordingsInvariant, PTL DEF Spec, OneOutcome

===============================================================================
