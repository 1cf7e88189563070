--------------------------- MODULE ProviderFetches ---------------------------
(***************************************************************************)
(* What a provider's webhook deliveries make of a call, and the fetches    *)
(* they queue: receipts leased under a token and the one mutation that     *)
(* applies a delivery (storage_deliveries.py, connectors/kernel.py), then  *)
(* the fetch jobs and their runner (storage_fetches.py).                   *)
(*                                                                         *)
(* All deliveries are of one call with the full preset; each names every   *)
(* recording of it, whose identity is a function of the provider's call    *)
(* and the track. A job's key is its recording. The objects of an upload   *)
(* attempt are in Recordings; here an attempt stores the recording or not. *)
(***************************************************************************)
EXTENDS LeasedJobs

CONSTANTS
    DeliveryKeys,  \* the events the provider sends of the call
    Handlers,      \* requests of the hook being served at once
    MaxClaims,     \* bound of the model: how often a receipt is claimed
    MaxPurges,     \* bound of the model: how often the call is purged
    MaxFaults      \* bound of the model: failures, leases outlived, crashes

ASSUME FetchesAssumption ==
    MaxClaims \in Nat /\ MaxPurges \in Nat /\ MaxFaults \in Nat

VARIABLES
    receipt,    \* delivery_receipts: state, lease token, and whether its lease is over
    handler,    \* what each request of the hook does, of which delivery, with which token
    written,    \* history: how often each delivery's evidence was written
    call,       \* "none", "held", or "purged" while its tombstone is live
    rec,        \* recordings.state, "none" without a row
    source,     \* recording_fetches.source_kind
    url,        \* a fetch's URL: "none", "live", or "old" past its expiry
    worker,     \* what each worker of the runner does, on which job
    started,    \* whether the fetch job has run since the server started
    purges, faults

receiptVars == <<receipt, handler, written>>
fetchVars == <<jobVars, source, url, worker, started>>
vars == <<receiptVars, call, rec, fetchVars, purges, faults>>

-----------------------------------------------------------------------------

Sources == {"payload_url", "provider_api"}
Requests == [stage : {"idle", "claimed", "failing"}, delivery : DeliveryKeys \cup {"none"},
             token : 0..MaxClaims]
Works == [stage : {"idle", "fetching", "streaming", "completing", "settling"},
          job : Jobs \cup {"none"}]
NoRequest == [stage |-> "idle", delivery |-> "none", token |-> 0]
NoWork == [stage |-> "idle", job |-> "none"]

Init ==
    /\ JobsInit
    /\ receipt = [d \in DeliveryKeys |-> [state |-> "none", token |-> 0, over |-> FALSE]]
    /\ handler = [h \in Handlers |-> NoRequest]
    /\ written = [d \in DeliveryKeys |-> 0]
    /\ call = "none"
    /\ rec = [r \in Jobs |-> "none"]
    /\ source \in [Jobs -> Sources]
    /\ url = [r \in Jobs |-> "none"]
    /\ worker = [w \in Workers |-> NoWork]
    /\ started = FALSE
    /\ purges = 0 /\ faults = 0

Fault == faults < MaxFaults /\ faults' = faults + 1
Fine == UNCHANGED faults

Live == {r \in Jobs : state[r] \in {"pending", "running"}}

-----------------------------------------------------------------------------
(* Receipts                                                                *)

\* A new receipt, one that failed, or one whose holder let its lease run out.
Claimable(d) ==
    \/ receipt[d].state \in {"none", "failed"}
    \/ receipt[d].state = "processing" /\ receipt[d].over

\* DeliveryStore.claim, of a delivery that is not replayed or in progress.
ClaimReceipt(h, d) ==
    /\ handler[h].stage = "idle" /\ Claimable(d) /\ receipt[d].token < MaxClaims
    /\ LET token == receipt[d].token + 1
       IN  /\ receipt' = [receipt EXCEPT ![d] =
                            [state |-> "processing", token |-> token, over |-> FALSE]]
           /\ handler' = [handler EXCEPT ![h] =
                            [stage |-> "claimed", delivery |-> d, token |-> token]]
    /\ UNCHANGED <<written, call, rec, fetchVars, purges, faults>>

ReceiptExpires(d) ==
    /\ receipt[d].state = "processing" /\ ~receipt[d].over
    /\ receipt' = [receipt EXCEPT ![d].over = TRUE]
    /\ UNCHANGED <<handler, written, call, rec, fetchVars, purges, faults>>

\* Slip: any claim of the delivery may write.
OwnsAny(h) == handler[h].stage = "claimed"

\* The request's claim is the receipt's: it is processing, under its token.
Owns(h) ==
    LET d == handler[h].delivery
    IN  receipt[d].state = "processing" /\ receipt[d].token = handler[h].token

Given(r) == IF source[r] = "payload_url" THEN "live" ELSE "none"

\* _refresh_url: a fetch that is not over takes the delivery's URL.
Refreshed(r) == IF r \in Live THEN Given(r) ELSE url[r]

\* _hold_recordings: a recording without a row gets one, and its fetch.
HoldRecordings ==
    LET new == {r \in Jobs : rec[r] = "none"}
    IN  /\ rec' = [r \in Jobs |-> IF r \in new THEN "pending" ELSE rec[r]]
        /\ Enqueue(new)
        /\ url' = [r \in Jobs |-> IF r \in new THEN Given(r) ELSE Refreshed(r)]

\* The mutation of apply: the evidence, the recordings and the receipt, or under a
\* tombstone the receipt alone.
Write(h) ==
    LET d == handler[h].delivery
    IN  /\ receipt' = [receipt EXCEPT ![d].state = "applied", ![d].over = FALSE]
        /\ IF call = "purged"
           THEN UNCHANGED <<written, call, rec, jobVars, url>>
           ELSE /\ written' = [written EXCEPT ![d] = @ + 1]
                /\ call' = "held"
                /\ HoldRecordings

Apply(h) ==
    /\ handler[h].stage = "claimed" /\ Owns(h) /\ Write(h)
    /\ handler' = [handler EXCEPT ![h] = NoRequest]
    /\ UNCHANGED <<source, worker, started, purges, faults>>

\* The lease was lost: another attempt took the delivery over.
ApplyRefused(h) ==
    /\ handler[h].stage = "claimed" /\ ~Owns(h)
    /\ handler' = [handler EXCEPT ![h].stage = "failing"]
    /\ UNCHANGED <<receipt, written, call, rec, fetchVars, purges, faults>>

\* The mutation fails: before its commit, or after it.
ApplyFails(h) ==
    /\ handler[h].stage = "claimed" /\ Owns(h) /\ Fault
    /\ handler' = [handler EXCEPT ![h].stage = "failing"]
    /\ Write(h) \/ UNCHANGED <<receipt, written, call, rec, jobVars, url>>
    /\ UNCHANGED <<source, worker, started, purges>>

\* _fail_claim: it counts for the claim that holds the receipt, and may itself fail.
FailReceipt(h) ==
    /\ handler[h].stage = "failing"
    /\ handler' = [handler EXCEPT ![h] = NoRequest]
    /\ \/ /\ receipt' = IF Owns(h) THEN [receipt EXCEPT ![handler[h].delivery].state = "failed",
                                                      ![handler[h].delivery].over = FALSE]
                        ELSE receipt
          /\ Fine
       \/ Fault /\ UNCHANGED receipt
    /\ UNCHANGED <<written, call, rec, fetchVars, purges>>

\* A replayed delivery: refresh_fetch_urls.
Replay(h, d) ==
    /\ handler[h].stage = "idle" /\ receipt[d].state = "applied"
    /\ url' = [r \in Jobs |-> Refreshed(r)]
    /\ UNCHANGED <<receiptVars, call, rec, jobVars, source, worker, started, purges, faults>>

-----------------------------------------------------------------------------
(* Fetch jobs                                                              *)

\* A URL passes its expiry.
UrlExpires(r) ==
    /\ url[r] = "live"
    /\ url' = [url EXCEPT ![r] = "old"]
    /\ UNCHANGED <<receiptVars, call, rec, jobVars, source, worker, started, purges, faults>>

\* _fail_recording.
FailedRecording(r) == IF rec[r] = "pending" THEN "failed" ELSE rec[r]

\* The fetch is over: its URL is forgotten, and without the recording that fails too.
EndAs(r, how) ==
    /\ Complete(r, how)
    /\ url' = [url EXCEPT ![r] = "none"]
    /\ rec' = [rec EXCEPT ![r] = IF how = "stored" THEN @ ELSE FailedRecording(r)]

\* _settle: as its recording stands.
Settled(r) == EndAs(r, IF rec[r] = "stored" THEN "stored" ELSE "failed")

\* LeasedJobs.claim takes a job over without counting the attempt that was cut off.
TakeLease(w, r) ==
    /\ state' = [state EXCEPT ![r] = "running"]
    /\ holder' = [holder EXCEPT ![r] = {w}]
    /\ leaseLeft' = [leaseLeft EXCEPT ![r] = Lease]
    /\ UNCHANGED <<attempts, wait>>

\* Slip: a running fetch is its worker's until a server starts.
DueOnly == Due

\* The fetches that may be claimed: those whose lease has expired first.
Runnable == IF Expired # {} THEN Expired ELSE Due

\* FetchStore.claim, of the next one; a fetch with nothing left to do is ended.
ClaimFetch(w) ==
    /\ started /\ worker[w].stage = "idle"
    /\ \E r \in Runnable :
         \/ /\ rec[r] # "pending" /\ Settled(r)
            /\ UNCHANGED worker
         \/ /\ rec[r] = "pending" /\ url[r] = "old" /\ EndAs(r, "expired")
            /\ UNCHANGED worker
         \/ /\ rec[r] = "pending" /\ url[r] # "old" /\ TakeLease(w, r)
            /\ worker' = [worker EXCEPT ![w] = [stage |-> "fetching", job |-> r]]
            /\ UNCHANGED <<rec, url>>
    /\ UNCHANGED <<receiptVars, call, source, started, purges, faults>>

Rest(w) == worker' = [worker EXCEPT ![w] = NoWork]

\* The provider answers: begin_upload of a recording that is still pending, or the fetch is
\* settled as the recording stands.
BeginUpload(w) ==
    /\ worker[w].stage = "fetching"
    /\ worker' = [worker EXCEPT ![w].stage =
                    IF rec[worker[w].job] = "pending" THEN "streaming" ELSE "settling"]
    /\ UNCHANGED <<receiptVars, call, rec, jobVars, source, url, started, purges, faults>>

StoredRecording(r) == rec' = IF rec[r] = "pending" THEN [rec EXCEPT ![r] = "stored"] ELSE rec

\* finish_upload.
FinishUpload(w) ==
    /\ worker[w].stage = "streaming"
    /\ StoredRecording(worker[w].job)
    /\ worker' = [worker EXCEPT ![w].stage =
                    IF rec[worker[w].job] = "pending" THEN "completing" ELSE "settling"]
    /\ UNCHANGED <<receiptVars, call, jobVars, source, url, started, purges, faults>>

\* fail, of a claim that holds its job: the attempt counts and the fetch waits for the next,
\* the last of them fails it, or its URL will have expired by then.
Retried(r) ==
    \/ /\ Retry(r)
       /\ IF AfterFailure(r) = "failed"
          THEN /\ url' = [url EXCEPT ![r] = "none"]
               /\ rec' = [rec EXCEPT ![r] = FailedRecording(r)]
          ELSE UNCHANGED <<url, rec>>
    \/ source[r] = "payload_url" /\ EndAs(r, "expired")

\* A FetchError: worth a retry, final, or the provider says it is gone.
FetchFails(w) ==
    /\ worker[w].stage \in {"fetching", "streaming"}
    /\ LET r == worker[w].job
       IN  IF ~Holds(w, r) THEN UNCHANGED <<jobVars, url, rec>>
           ELSE \/ Retried(r)
                \/ EndAs(r, "failed")
                \/ source[r] = "payload_url" /\ EndAs(r, "expired")
    /\ Rest(w)
    /\ UNCHANGED <<receiptVars, call, source, started, purges, faults>>

\* complete_stored.
CompleteStored(w) ==
    /\ worker[w].stage = "completing"
    /\ IF Holds(w, worker[w].job)
       THEN /\ Complete(worker[w].job, "stored")
            /\ url' = [url EXCEPT ![worker[w].job] = "none"]
       ELSE UNCHANGED <<jobVars, url>>
    /\ Rest(w)
    /\ UNCHANGED <<receiptVars, call, rec, source, started, purges, faults>>

\* settle, of a fetch whose recording stopped being pending.
Settle(w) ==
    /\ worker[w].stage = "settling"
    /\ IF Holds(w, worker[w].job) THEN Settled(worker[w].job) ELSE UNCHANGED <<jobVars, url, rec>>
    /\ Rest(w)
    /\ UNCHANGED <<receiptVars, call, source, started, purges, faults>>

\* Anything but a FetchError (the store stays busy, the blob store opens no write, a finish
\* whose answer is lost) leaves the job to its lease.
Escapes(w) ==
    /\ worker[w].stage # "idle" /\ Fault
    /\ \/ worker[w].stage = "streaming" /\ StoredRecording(worker[w].job)
       \/ UNCHANGED rec
    /\ Rest(w)
    /\ UNCHANGED <<receiptVars, call, jobVars, source, url, started, purges>>

\* The first run of the job in a server: release_leases.
StartFetches ==
    /\ ~started
    /\ started' = TRUE
    /\ Release
    /\ UNCHANGED <<receiptVars, call, rec, source, url, worker, purges, faults>>

\* A lease is longer than a fetch may take: that one runs out under its worker is a fault.
Tick ==
    /\ JobsTick
    /\ IF \E w \in Workers, r \in Jobs :
            worker[w].stage # "idle" /\ worker[w].job = r /\ Holds(w, r) /\ leaseLeft[r] = 0
       THEN Fault ELSE Fine
    /\ UNCHANGED <<receiptVars, call, rec, source, url, worker, started, purges>>

-----------------------------------------------------------------------------
(* What else happens to the call and the server                            *)

\* A client uploads the recording itself.
ClientStores(r) ==
    /\ rec[r] = "pending"
    /\ rec' = [rec EXCEPT ![r] = "stored"]
    /\ UNCHANGED <<receiptVars, call, fetchVars, purges, faults>>

\* delete_calls: recordings and fetches go with the call, its key gets a tombstone.
Purge ==
    /\ call = "held" /\ purges < MaxPurges
    /\ purges' = purges + 1
    /\ call' = "purged"
    /\ rec' = [r \in Jobs |-> "none"]
    /\ ForgetAll
    /\ url' = [r \in Jobs |-> "none"]
    /\ UNCHANGED <<receiptVars, source, worker, started, faults>>

\* Evidence of the key makes a new call again. A tombstone outlives every fetch.
TombstoneExpires ==
    /\ call = "purged" /\ \A w \in Workers : worker[w].stage = "idle"
    /\ call' = "none"
    /\ UNCHANGED <<receiptVars, rec, fetchVars, purges, faults>>

Crash ==
    /\ Fault
    /\ handler' = [h \in Handlers |-> NoRequest]
    /\ worker' = [w \in Workers |-> NoWork]
    /\ started' = FALSE
    /\ UNCHANGED <<receipt, written, call, rec, jobVars, source, url, purges>>

-----------------------------------------------------------------------------

HookStep ==
    \/ \E d \in DeliveryKeys : ReceiptExpires(d)
                               \/ \E h \in Handlers : ClaimReceipt(h, d) \/ Replay(h, d)
    \/ \E h \in Handlers : Apply(h) \/ ApplyRefused(h) \/ ApplyFails(h) \/ FailReceipt(h)

FetchStep(w) ==
    \/ BeginUpload(w) \/ FinishUpload(w) \/ FetchFails(w) \/ CompleteStored(w) \/ Settle(w)

Next ==
    \/ HookStep
    \/ \E w \in Workers : ClaimFetch(w) \/ FetchStep(w) \/ Escapes(w)
    \/ \E r \in Jobs : UrlExpires(r) \/ ClientStores(r)
    \/ StartFetches \/ Tick \/ Purge \/ TombstoneExpires \/ Crash

Spec == Init /\ [][Next]_vars

\* The maintenance loop starts fetches while one is due and a worker is free; a fetch ends,
\* for each of its waits has a timeout.
Fairness ==
    /\ WF_vars(Tick) /\ WF_vars(StartFetches)
    /\ \A w \in Workers : WF_vars(ClaimFetch(w)) /\ WF_vars(FetchStep(w))

FairSpec == Spec /\ Fairness

-----------------------------------------------------------------------------
(* Properties                                                              *)

TypeOK ==
    /\ JobsTypeOK
    /\ receipt \in [DeliveryKeys -> [state : {"none", "processing", "failed", "applied"},
                                     token : 0..MaxClaims, over : BOOLEAN]]
    /\ handler \in [Handlers -> Requests]
    /\ \A h \in Handlers : handler[h].stage # "idle" => handler[h].delivery \in DeliveryKeys
    /\ written \in [DeliveryKeys -> Nat]
    /\ call \in {"none", "held", "purged"}
    /\ rec \in [Jobs -> {"none", "pending", "stored", "failed"}]
    /\ source \in [Jobs -> Sources]
    /\ url \in [Jobs -> {"none", "live", "old"}]
    /\ worker \in [Workers -> Works]
    /\ \A w \in Workers : worker[w].stage # "idle" => worker[w].job \in Jobs
    /\ started \in BOOLEAN /\ purges \in 0..MaxPurges /\ faults \in 0..MaxFaults

\* A delivery's evidence is written once, whoever takes it over, and only by the step that
\* makes its receipt applied.
WrittenOnce ==
    \A d \in DeliveryKeys : written[d] <= 1 /\ (written[d] = 1 => receipt[d].state = "applied")

\* The token names one request: two never hold one receipt, and none is issued ahead.
OneHolder ==
    \A g \in Handlers :
        handler[g].stage # "idle" =>
            /\ handler[g].token <= receipt[handler[g].delivery].token
            /\ \A h \in Handlers :
                 handler[h].stage # "idle" /\ handler[h].delivery = handler[g].delivery
                   /\ handler[h].token = handler[g].token => g = h

\* A recording and its fetch go together, and a pending recording always has a live fetch:
\* nothing else would ever end it, for the sweep leaves it to its fetch.
PendingHasFetch ==
    \A r \in Jobs :
        /\ rec[r] = "none" <=> state[r] = "none"
        /\ rec[r] = "pending" => r \in Live
        /\ state[r] = "stored" => rec[r] = "stored"
        /\ r \in Live => rec[r] \in {"pending", "stored"}

\* A payload's URL is a bearer capability: it is kept only while the job can use it.
UrlWhileLive == \A r \in Jobs : url[r] # "none" <=> r \in Live /\ source[r] = "payload_url"

\* A fetch that is not over has an attempt left.
AttemptLeft == \A r \in Live : attempts[r] <= Retries

\* A worker about to report its upload stored, while it holds the job, did store it.
ReportsStored ==
    \A w \in Workers :
        worker[w].stage = "completing" /\ w \in holder[worker[w].job] =>
            rec[worker[w].job] = "stored"

\* FetchesInv. One delivery key writes its evidence once, and what it wrote is consistent:
\* every pending provider recording has a fetch that will end it, and a URL outlives no fetch
\* (storage_fetches.py "A fetch that ends without the recording fails the recording in the
\* same transaction").
FetchesInv ==
    /\ TypeOK
    /\ WrittenOnce
    /\ OneHolder
    /\ PendingHasFetch
    /\ UrlWhileLive
    /\ AttemptLeft
    /\ ReportsStored

\* FetchSettles. Whatever the provider answers, a fetch is over in the end: stored, failed,
\* expired or purged (storage_fetches.py "is terminal").
FetchSettles == \A r \in Jobs : (r \in Live) ~> (r \notin Live)

=============================================================================
