------------------------ MODULE ProviderFetchesProofs ------------------------
(***************************************************************************)
(* Proofs about ProviderFetches: FetchesInv is inductive. It falls in two: *)
(* what the requests of the hook do to the receipts, and what deliveries,  *)
(* workers and purges do to the recordings and their fetches. A step of    *)
(* one part leaves the other alone, but for the mutation of apply.         *)
(***************************************************************************)
EXTENDS ProviderFetches, TLAPS

-----------------------------------------------------------------------------
(* The two parts                                                           *)

ReceiptTypes ==
    /\ receipt \in [DeliveryKeys -> [state : {"none", "processing", "failed", "applied"},
                                     token : 0..MaxClaims, over : BOOLEAN]]
    /\ handler \in [Handlers -> Requests]
    /\ \A h \in Handlers : handler[h].stage # "idle" => handler[h].delivery \in DeliveryKeys
    /\ written \in [DeliveryKeys -> Nat]

ReceiptsOK == ReceiptTypes /\ WrittenOnce /\ OneHolder

FetchTypes ==
    /\ JobsTypeOK
    /\ rec \in [Jobs -> {"none", "pending", "stored", "failed"}]
    /\ source \in [Jobs -> Sources]
    /\ url \in [Jobs -> {"none", "live", "old"}]
    /\ worker \in [Workers -> Works]
    /\ \A w \in Workers : worker[w].stage # "idle" => worker[w].job \in Jobs

\* What FetchesInv says of one recording and its fetch.
FetchOK(r) ==
    /\ rec[r] = "none" <=> state[r] = "none"
    /\ rec[r] = "pending" => state[r] \in {"pending", "running"}
    /\ state[r] = "stored" => rec[r] = "stored"
    /\ state[r] \in {"pending", "running"} => rec[r] \in {"pending", "stored"}
    /\ url[r] # "none" <=> state[r] \in {"pending", "running"} /\ source[r] = "payload_url"
    /\ state[r] \in {"pending", "running"} => attempts[r] <= Retries

FetchesOK == FetchTypes /\ (\A r \in Jobs : FetchOK(r)) /\ ReportsStored

RestTypes ==
    /\ call \in {"none", "held", "purged"}
    /\ started \in BOOLEAN /\ purges \in 0..MaxPurges /\ faults \in 0..MaxFaults

\* The invariant is the two parts and the rest.
LEMMA Parts == FetchesInv <=> ReceiptsOK /\ FetchesOK /\ RestTypes
<1>1. TypeOK <=> ReceiptTypes /\ FetchTypes /\ RestTypes
  BY DEF TypeOK, ReceiptTypes, FetchTypes, RestTypes
<1>2. PendingHasFetch /\ UrlWhileLive /\ AttemptLeft <=> \A r \in Jobs : FetchOK(r)
  BY DEF PendingHasFetch, UrlWhileLive, AttemptLeft, FetchOK, Live
<1>3. QED
  BY <1>1, <1>2 DEF FetchesInv, ReceiptsOK, FetchesOK

-----------------------------------------------------------------------------
(* The requests of the hook                                                *)

\* Claiming a receipt issues a token no other request has.
LEMMA ClaimReceiptKeeps ==
    ASSUME ReceiptsOK, NEW h \in Handlers, NEW d \in DeliveryKeys, ClaimReceipt(h, d)
    PROVE  ReceiptsOK'
<1> DEFINE token == receipt[d].token + 1
<1> DEFINE row == [state |-> "processing", token |-> token, over |-> FALSE]
<1> DEFINE request == [stage |-> "claimed", delivery |-> d, token |-> token]
<1>1. /\ receipt' = [receipt EXCEPT ![d] = row]
      /\ handler' = [handler EXCEPT ![h] = request]
      /\ handler[h].stage = "idle" /\ written' = written
      /\ receipt[d].state # "applied" /\ receipt[d].token < MaxClaims
  BY DEF ClaimReceipt, Claimable
<1>2. token \in 0..MaxClaims /\ receipt[d].token \in Nat
  BY <1>1, FetchesAssumption DEF ReceiptsOK, ReceiptTypes
<1>3. row \in [state : {"none", "processing", "failed", "applied"}, token : 0..MaxClaims, over : BOOLEAN]
      /\ request \in Requests
  BY <1>2 DEF Requests
<1>4. /\ receipt'[d] = row /\ handler'[h] = request
      /\ \A e \in DeliveryKeys : e # d => receipt'[e] = receipt[e]
      /\ \A g \in Handlers : g # h => handler'[g] = handler[g]
  BY <1>1 DEF ReceiptsOK, ReceiptTypes
<1>5. ReceiptTypes'
  BY <1>1, <1>3, <1>4 DEF ReceiptsOK, ReceiptTypes
<1>6. WrittenOnce'
  <2> SUFFICES ASSUME NEW e \in DeliveryKeys
               PROVE  written[e] <= 1 /\ (written[e] = 1 => receipt'[e].state = "applied")
    BY <1>1 DEF WrittenOnce
  <2>1. written[e] <= 1 /\ (written[e] = 1 => receipt[e].state = "applied")
    BY DEF ReceiptsOK, WrittenOnce
  <2>2. QED
    BY <1>1, <1>4, <2>1
<1>7. OneHolder'
  <2> SUFFICES ASSUME NEW g \in Handlers, handler'[g].stage # "idle"
               PROVE  /\ handler'[g].token <= receipt'[handler'[g].delivery].token
                      /\ \A i \in Handlers :
                           handler'[i].stage # "idle" /\ handler'[i].delivery = handler'[g].delivery
                             /\ handler'[i].token = handler'[g].token => g = i
    BY DEF OneHolder
  <2>1. \A i \in Handlers \ {h} : handler'[i].stage # "idle" =>
          /\ handler'[i] = handler[i] /\ handler[i].delivery \in DeliveryKeys
          /\ handler[i].token <= receipt[handler[i].delivery].token
          /\ handler[i].token \in Nat /\ receipt[handler[i].delivery].token \in Nat
    BY <1>4 DEF ReceiptsOK, ReceiptTypes, OneHolder, Requests
  <2>2. handler'[h].token = token /\ handler'[h].delivery = d /\ receipt'[d].token = token
    BY <1>4
  <2>3. \A i \in Handlers \ {h} : handler'[i].stage # "idle" /\ handler'[i].delivery = d
          => handler'[i].token < token
    BY <1>2, <2>1
  <2>4. handler'[g].token <= receipt'[handler'[g].delivery].token
    <3>1. CASE g = h
      BY <1>2, <2>2, <3>1
    <3>2. CASE g # h /\ handler'[g].delivery = d
      BY <1>2, <2>1, <2>2, <2>3, <3>2
    <3>3. CASE g # h /\ handler'[g].delivery # d
      BY <1>4, <2>1, <3>3
    <3>4. QED
      BY <3>1, <3>2, <3>3
  <2>5. ASSUME NEW i \in Handlers, handler'[i].stage # "idle",
               handler'[i].delivery = handler'[g].delivery, handler'[i].token = handler'[g].token
        PROVE  g = i
    <3>1. CASE g = h \/ i = h
      BY <1>2, <2>2, <2>3, <2>5, <3>1
    <3>2. CASE g # h /\ i # h
      BY <1>4, <2>5, <3>2 DEF ReceiptsOK, OneHolder
    <3>3. QED
      BY <3>1, <3>2
  <2>6. QED
    BY <2>4, <2>5
<1>8. QED
  BY <1>5, <1>6, <1>7 DEF ReceiptsOK

\* A step that changes a receipt under its token, and in which requests only go on to
\* their failure or end.
RequestsEnd ==
    /\ \A h \in Handlers : handler'[h].stage = "idle"
                           \/ (/\ handler[h].stage # "idle"
                               /\ handler'[h].delivery = handler[h].delivery
                               /\ handler'[h].token = handler[h].token)
    /\ \A d \in DeliveryKeys : receipt'[d].token = receipt[d].token

\* Requests that only end share no token.
LEMMA RequestsEndKeeps ==
    ASSUME ReceiptsOK, RequestsEnd
    PROVE  OneHolder'
BY DEF ReceiptsOK, RequestsEnd, OneHolder, ReceiptTypes

\* Steps of the hook that leave the recordings and their fetches alone.
LEMMA HookOnly ==
    ASSUME FetchesOK, RestTypes, NEW h \in Handlers,
           \/ \E d \in DeliveryKeys : ReceiptExpires(d) \/ ClaimReceipt(h, d)
           \/ ApplyRefused(h) \/ FailReceipt(h)
    PROVE  FetchesOK' /\ RestTypes'
<1>1. UNCHANGED <<call, rec, fetchVars, purges>> /\ faults' \in 0..MaxFaults
  BY FetchesAssumption DEF ReceiptExpires, ClaimReceipt, ApplyRefused, FailReceipt, Fine, Fault, RestTypes
<1>2. UNCHANGED <<state, holder, leaseLeft, attempts, wait, source, url, worker, started, rec>>
  BY <1>1 DEF fetchVars, jobVars
<1>3. FetchTypes' /\ ReportsStored'
  BY <1>2 DEF FetchesOK, FetchTypes, JobsTypeOK, ReportsStored
<1>4. \A r \in Jobs : FetchOK(r)'
  BY <1>2 DEF FetchesOK, FetchOK
<1>5. QED
  BY <1>1, <1>2, <1>3, <1>4 DEF FetchesOK, RestTypes

\* A lease running out leaves its token.
LEMMA ReceiptExpiresKeeps ==
    ASSUME ReceiptsOK, NEW d \in DeliveryKeys, ReceiptExpires(d)
    PROVE  ReceiptsOK'
<1>1. /\ receipt' = [receipt EXCEPT ![d].over = TRUE]
      /\ handler' = handler /\ written' = written
  BY DEF ReceiptExpires
<1>2. \A e \in DeliveryKeys : /\ receipt'[e].token = receipt[e].token
                              /\ receipt'[e].state = receipt[e].state
  BY <1>1 DEF ReceiptsOK, ReceiptTypes
<1>3. ReceiptTypes'
  BY <1>1 DEF ReceiptsOK, ReceiptTypes
<1>4. RequestsEnd
  BY <1>1, <1>2 DEF RequestsEnd
<1>5. WrittenOnce'
  BY <1>1, <1>2 DEF ReceiptsOK, WrittenOnce
<1>6. QED
  BY <1>3, <1>4, <1>5, RequestsEndKeeps DEF ReceiptsOK

\* So does a request that lost its receipt.
LEMMA ApplyRefusedKeeps ==
    ASSUME ReceiptsOK, NEW h \in Handlers, ApplyRefused(h)
    PROVE  ReceiptsOK'
<1>1. /\ handler' = [handler EXCEPT ![h].stage = "failing"] /\ handler[h].stage = "claimed"
      /\ receipt' = receipt /\ written' = written
  BY DEF ApplyRefused
<1>2. ReceiptTypes'
  BY <1>1 DEF ReceiptsOK, ReceiptTypes, Requests
<1>3. RequestsEnd
  BY <1>1 DEF RequestsEnd, ReceiptsOK, ReceiptTypes
<1>4. WrittenOnce'
  BY <1>1 DEF ReceiptsOK, WrittenOnce
<1>5. QED
  BY <1>2, <1>3, <1>4, RequestsEndKeeps DEF ReceiptsOK

\* And a failure, which counts only for the request that holds the receipt.
LEMMA FailReceiptKeeps ==
    ASSUME ReceiptsOK, NEW h \in Handlers, FailReceipt(h)
    PROVE  ReceiptsOK'
<1> DEFINE d == handler[h].delivery
<1>1. /\ handler' = [handler EXCEPT ![h] = NoRequest] /\ handler[h].stage = "failing"
      /\ \/ receipt' = receipt
         \/ Owns(h) /\ receipt' = [receipt EXCEPT ![d].state = "failed", ![d].over = FALSE]
      /\ written' = written
  BY DEF FailReceipt
<1>2. NoRequest \in Requests /\ NoRequest.stage = "idle"
  BY FetchesAssumption DEF NoRequest, Requests
<1>3. d \in DeliveryKeys
  BY <1>1 DEF ReceiptsOK, ReceiptTypes
<1>4. receipt' \in [DeliveryKeys -> [state : {"none", "processing", "failed", "applied"},
                                     token : 0..MaxClaims, over : BOOLEAN]]
      /\ \A e \in DeliveryKeys : receipt'[e].token = receipt[e].token
  BY <1>1, <1>3 DEF ReceiptsOK, ReceiptTypes
<1>5. ReceiptTypes'
  BY <1>1, <1>2, <1>4 DEF ReceiptsOK, ReceiptTypes
<1>6. RequestsEnd
  BY <1>1, <1>2, <1>4 DEF RequestsEnd, ReceiptsOK, ReceiptTypes
<1>7. WrittenOnce'
  <2> SUFFICES ASSUME NEW e \in DeliveryKeys
               PROVE  written[e] <= 1 /\ (written[e] = 1 => receipt'[e].state = "applied")
    BY <1>1 DEF WrittenOnce
  <2>1. written[e] <= 1 /\ (written[e] = 1 => receipt[e].state = "applied")
    BY DEF ReceiptsOK, WrittenOnce
  <2>2. receipt'[e].state = receipt[e].state \/ receipt[e].state = "processing"
    BY <1>1, <1>3 DEF ReceiptsOK, ReceiptTypes, Owns
  <2>3. QED
    BY <2>1, <2>2
<1>8. QED
  BY <1>5, <1>6, <1>7, RequestsEndKeeps DEF ReceiptsOK

\* The mutation of apply, by the request that holds the receipt: its evidence had not been
\* written, and the receipt is applied with it.
LEMMA WriteKeepsReceipts ==
    ASSUME ReceiptsOK, NEW h \in Handlers, handler[h].stage = "claimed", Owns(h), Write(h),
           \/ handler' = [handler EXCEPT ![h] = NoRequest]
           \/ handler' = [handler EXCEPT ![h].stage = "failing"]
    PROVE  ReceiptsOK'
<1> DEFINE d == handler[h].delivery
<1>1. NoRequest \in Requests /\ NoRequest.stage = "idle"
  BY FetchesAssumption DEF NoRequest, Requests
<1>2. d \in DeliveryKeys /\ receipt[d].state = "processing" /\ handler[h] \in Requests
  BY DEF ReceiptsOK, ReceiptTypes, Owns
<1>3. /\ receipt' = [receipt EXCEPT ![d].state = "applied", ![d].over = FALSE]
      /\ written' = written \/ written' = [written EXCEPT ![d] = @ + 1]
  BY DEF Write
<1>4. receipt' \in [DeliveryKeys -> [state : {"none", "processing", "failed", "applied"},
                                     token : 0..MaxClaims, over : BOOLEAN]]
      /\ receipt'[d].state = "applied"
      /\ \A e \in DeliveryKeys : /\ receipt'[e].token = receipt[e].token
                                 /\ e # d => receipt'[e].state = receipt[e].state
  BY <1>2, <1>3 DEF ReceiptsOK, ReceiptTypes
<1>5. /\ handler' \in [Handlers -> Requests]
      /\ \A g \in Handlers : handler'[g].stage # "idle" =>
           /\ handler[g].stage # "idle" /\ handler'[g].delivery = handler[g].delivery
           /\ handler'[g].token = handler[g].token
  <2>1. handler \in [Handlers -> Requests]
    BY DEF ReceiptsOK, ReceiptTypes
  <2>2. CASE handler' = [handler EXCEPT ![h] = NoRequest]
    BY <1>1, <2>1, <2>2
  <2>3. CASE handler' = [handler EXCEPT ![h].stage = "failing"]
    BY <1>2, <2>1, <2>3 DEF Requests
  <2>4. QED
    BY <2>2, <2>3
<1>6. written' \in [DeliveryKeys -> Nat]
  BY <1>2, <1>3 DEF ReceiptsOK, ReceiptTypes
<1>7. ReceiptTypes'
  BY <1>4, <1>5, <1>6 DEF ReceiptsOK, ReceiptTypes
<1>8. RequestsEnd
  BY <1>4, <1>5 DEF RequestsEnd
<1>9. WrittenOnce'
  <2> SUFFICES ASSUME NEW e \in DeliveryKeys
               PROVE  written'[e] <= 1 /\ (written'[e] = 1 => receipt'[e].state = "applied")
    BY DEF WrittenOnce
  <2>1. written[e] <= 1 /\ (written[e] = 1 => receipt[e].state = "applied") /\ written[e] \in Nat
    BY DEF ReceiptsOK, ReceiptTypes, WrittenOnce
  <2>2. CASE e # d
    <3>1. written'[e] = written[e]
      BY <1>2, <1>3, <2>2 DEF ReceiptsOK, ReceiptTypes
    <3>2. QED
      BY <1>4, <2>1, <2>2, <3>1
  <2>3. CASE e = d
    <3>1. written[e] = 0
      BY <1>2, <2>1, <2>3
    <3>2. written'[e] \in {0, 1}
      BY <1>2, <1>3, <2>3, <3>1 DEF ReceiptsOK, ReceiptTypes
    <3>3. QED
      BY <1>4, <2>3, <3>2
  <2>4. QED
    BY <2>2, <2>3
<1>10. QED
  BY <1>7, <1>8, <1>9, RequestsEndKeeps DEF ReceiptsOK

\* So does its recordings' and fetches' part.
LEMMA WriteKeepsFetches ==
    ASSUME FetchesOK, NEW h \in Handlers, Write(h), UNCHANGED <<source, worker>>
    PROVE  FetchesOK' /\ call' \in {call, "held"}
<1>1. CASE call = "purged"
  <2>1. UNCHANGED <<state, holder, leaseLeft, attempts, wait, source, url, worker, rec, call>>
    BY <1>1 DEF Write, jobVars
  <2>2. FetchTypes' /\ ReportsStored'
    BY <2>1 DEF FetchesOK, FetchTypes, JobsTypeOK, ReportsStored
  <2>3. \A r \in Jobs : FetchOK(r)'
    BY <2>1 DEF FetchesOK, FetchOK
  <2>4. QED
    BY <2>1, <2>2, <2>3 DEF FetchesOK
<1>2. CASE call # "purged"
  <2> DEFINE new == {r \in Jobs : rec[r] = "none"}
  <2>1. /\ call' = "held"
        /\ rec' = [r \in Jobs |-> IF r \in new THEN "pending" ELSE rec[r]]
        /\ Enqueue(new)
        /\ url' = [r \in Jobs |-> IF r \in new THEN Given(r) ELSE Refreshed(r)]
    BY <1>2 DEF Write, HoldRecordings
  <2>2. new \subseteq Jobs /\ \A r \in Jobs : r \in new <=> rec[r] = "none"
    OBVIOUS
  <2> HIDE DEF new
  <2>3. /\ state' = [r \in Jobs |-> IF r \in new THEN "pending" ELSE state[r]]
        /\ holder' = [r \in Jobs |-> IF r \in new THEN {} ELSE holder[r]]
        /\ leaseLeft' = [r \in Jobs |-> IF r \in new THEN 0 ELSE leaseLeft[r]]
        /\ attempts' = [r \in Jobs |-> IF r \in new THEN 0 ELSE attempts[r]]
        /\ wait' = [r \in Jobs |-> IF r \in new THEN 0 ELSE wait[r]]
    BY <2>1 DEF Enqueue
  <2>4. JobsTypeOK
    BY DEF FetchesOK, FetchTypes
  <2>5. JobsTypeOK'
    <3>1. state' \in [Jobs -> {"none", "pending", "running"} \cup Terminal]
          /\ holder' \in [Jobs -> SUBSET Workers]
      BY <2>3, <2>4 DEF JobsTypeOK
    <3>2. leaseLeft' \in [Jobs -> (-Memory)..Lease] /\ attempts' \in [Jobs -> 0..(Retries + 1)]
          /\ wait' \in [Jobs -> 0..Delay]
      <4>1. 0 \in (-Memory)..Lease /\ 0 \in 0..(Retries + 1) /\ 0 \in 0..Delay
        BY JobsAssumption
      <4>2. QED
        BY <2>3, <2>4, <4>1 DEF JobsTypeOK
    <3>3. QED
      BY <3>1, <3>2 DEF JobsTypeOK
  <2>6. \A r \in Jobs : Given(r) \in {"none", "live"} /\ (Given(r) # "none" <=> source[r] = "payload_url")
    BY DEF Given
  <2>7. FetchTypes'
    <3>1. rec' \in [Jobs -> {"none", "pending", "stored", "failed"}]
      BY <2>1 DEF FetchesOK, FetchTypes
    <3>2. url' \in [Jobs -> {"none", "live", "old"}]
      BY <2>1, <2>6 DEF FetchesOK, FetchTypes, Refreshed
    <3>3. QED
      BY <2>5, <3>1, <3>2 DEF FetchesOK, FetchTypes
  <2>8. ASSUME NEW r \in Jobs
        PROVE  FetchOK(r)'
    <3>1. FetchOK(r)
      BY DEF FetchesOK
    <3>2. CASE r \in new
      <4>1. state'[r] = "pending" /\ rec'[r] = "pending" /\ attempts'[r] = 0 /\ url'[r] = Given(r)
        BY <2>1, <2>3, <3>2
      <4>2. QED
        BY <2>6, <4>1, JobsAssumption DEF FetchOK
    <3>3. CASE r \notin new
      <4>1. state'[r] = state[r] /\ rec'[r] = rec[r] /\ attempts'[r] = attempts[r]
            /\ url'[r] = Refreshed(r)
        BY <2>1, <2>3, <3>3
      <4>2. QED
        BY <2>6, <3>1, <4>1 DEF FetchOK, Refreshed, Live
    <3>4. QED
      BY <3>2, <3>3
  <2>9. ReportsStored'
    <3> SUFFICES ASSUME NEW w \in Workers, worker[w].stage = "completing",
                        w \in holder'[worker[w].job]
                 PROVE  rec'[worker[w].job] = "stored"
      BY DEF ReportsStored
    <3>1. worker[w].job \in Jobs
      BY DEF FetchesOK, FetchTypes
    <3>2. worker[w].job \notin new /\ w \in holder[worker[w].job]
      BY <2>3, <3>1
    <3>3. QED
      BY <2>1, <3>1, <3>2 DEF FetchesOK, ReportsStored
  <2>10. QED
    BY <2>1, <2>7, <2>8, <2>9 DEF FetchesOK
<1>3. QED
  BY <1>1, <1>2

-----------------------------------------------------------------------------
(* Recordings and fetches                                                  *)

\* All of FetchesOK but what concerns the workers.
RowsOK ==
    /\ JobsTypeOK
    /\ rec \in [Jobs -> {"none", "pending", "stored", "failed"}]
    /\ source \in [Jobs -> Sources]
    /\ url \in [Jobs -> {"none", "live", "old"}]
    /\ \A r \in Jobs : FetchOK(r)

\* No worker comes to report, and no holder of a fetch comes or loses its stored recording.
NoNewReport ==
    /\ worker' \in [Workers -> Works]
    /\ \A w \in Workers : worker'[w].stage # "idle" => worker'[w].job \in Jobs
    /\ \A w \in Workers : worker'[w].stage = "completing" => worker'[w] = worker[w]
    /\ \A r \in Jobs : \/ holder'[r] = {}
                       \/ holder'[r] \subseteq holder[r] /\ (rec[r] = "stored" => rec'[r] = "stored")

\* With the rows in order, a step that brings no report is.
LEMMA NoNewReportKeeps ==
    ASSUME FetchesOK, RowsOK', NoNewReport
    PROVE  FetchesOK'
<1>1. FetchTypes'
  BY DEF RowsOK, NoNewReport, FetchTypes
<1>2. ReportsStored'
  <2> SUFFICES ASSUME NEW w \in Workers, worker'[w].stage = "completing",
                      w \in holder'[worker'[w].job]
               PROVE  rec'[worker'[w].job] = "stored"
    BY DEF ReportsStored
  <2>1. worker'[w] = worker[w] /\ worker[w].job \in Jobs
    BY DEF NoNewReport
  <2>2. w \in holder[worker[w].job] /\ (rec[worker[w].job] = "stored" => rec'[worker[w].job] = "stored")
    BY <2>1 DEF NoNewReport
  <2>3. QED
    BY <2>1, <2>2 DEF FetchesOK, ReportsStored
<1>3. QED
  BY <1>1, <1>2 DEF FetchesOK, RowsOK

\* The rows' part of it.
LEMMA RowsAreOK == FetchesOK => RowsOK
BY DEF FetchesOK, FetchTypes, RowsOK

\* The same workers, or one fewer at work.
LEMMA RestWorks ==
    ASSUME FetchesOK, NEW w \in Workers, worker' = worker \/ Rest(w)
    PROVE  /\ worker' \in [Workers -> Works]
           /\ \A v \in Workers : worker'[v].stage # "idle" => worker'[v].job \in Jobs
           /\ \A v \in Workers : worker'[v].stage = "completing" => worker'[v] = worker[v]
<1>1. NoWork \in Works /\ NoWork.stage = "idle"
  BY DEF NoWork, Works
<1>2. worker \in [Workers -> Works]
      /\ \A v \in Workers : worker[v].stage # "idle" => worker[v].job \in Jobs
  BY DEF FetchesOK, FetchTypes
<1>3. QED
  BY <1>1, <1>2 DEF Rest

\* A fetch ends as its recording stands: stored with a stored recording, or failed or
\* expired, and then the recording is not left pending.
LEMMA EndAsKeeps ==
    ASSUME RowsOK, NEW r \in Jobs, state[r] \in {"pending", "running"}, NEW how \in Terminal,
           how = "stored" => rec[r] = "stored", EndAs(r, how), source' = source
    PROVE  /\ RowsOK'
           /\ \A q \in Jobs : holder'[q] \subseteq holder[q] /\ (rec[q] = "stored" => rec'[q] = "stored")
<1>1. /\ state' = [state EXCEPT ![r] = how] /\ holder' = [holder EXCEPT ![r] = {}]
      /\ leaseLeft' = [leaseLeft EXCEPT ![r] = 0] /\ attempts' = attempts /\ wait' = wait
      /\ url' = [url EXCEPT ![r] = "none"]
      /\ rec' = [rec EXCEPT ![r] = IF how = "stored" THEN rec[r] ELSE FailedRecording(r)]
  BY DEF EndAs, Complete, RowsOK
<1>2. 0 \in (-Memory)..Lease
  BY JobsAssumption
<1>3. JobsTypeOK'
  BY <1>1, <1>2 DEF RowsOK, JobsTypeOK
<1>4. FailedRecording(r) \in {"none", "stored", "failed"}
      /\ (rec[r] = "stored" => FailedRecording(r) = "stored")
      /\ (rec[r] # "none" => FailedRecording(r) # "none")
  BY DEF FailedRecording, RowsOK
<1>5. /\ rec' \in [Jobs -> {"none", "pending", "stored", "failed"}]
      /\ url' \in [Jobs -> {"none", "live", "old"}]
  BY <1>1, <1>4 DEF RowsOK
<1>6. /\ state'[r] = how /\ url'[r] = "none"
      /\ rec'[r] = IF how = "stored" THEN rec[r] ELSE FailedRecording(r)
      /\ \A q \in Jobs : q # r => /\ state'[q] = state[q] /\ url'[q] = url[q] /\ rec'[q] = rec[q]
                                  /\ holder'[q] = holder[q]
      /\ holder'[r] = {} /\ attempts' = attempts
  BY <1>1 DEF RowsOK, JobsTypeOK
<1>7. ASSUME NEW q \in Jobs
      PROVE  FetchOK(q)'
  <2>1. FetchOK(q)
    BY DEF RowsOK
  <2>2. CASE q # r
    BY <1>6, <2>1, <2>2 DEF FetchOK
  <2>3. CASE q = r
    <3>1. rec[r] \in {"pending", "stored"}
      BY <2>1, <2>3 DEF FetchOK
    <3>2. how \notin {"pending", "running", "none"}
      BY DEF Terminal
    <3>3. QED
      BY <1>4, <1>6, <2>3, <3>1, <3>2 DEF FetchOK
  <2>4. QED
    BY <2>2, <2>3
<1>8. QED
  BY <1>3, <1>4, <1>5, <1>6, <1>7 DEF RowsOK

\* A fetch is put off, or its last attempt failed it, and its recording with it.
LEMMA RetriedKeeps ==
    ASSUME RowsOK, NEW r \in Jobs, state[r] = "running", Retried(r), source' = source
    PROVE  /\ RowsOK'
           /\ \A q \in Jobs : holder'[q] \subseteq holder[q] /\ (rec[q] = "stored" => rec'[q] = "stored")
<1>1. CASE EndAs(r, "expired")
  BY <1>1, EndAsKeeps DEF Terminal
<1>2. CASE /\ Retry(r)
           /\ IF AfterFailure(r) = "failed"
              THEN /\ url' = [url EXCEPT ![r] = "none"]
                   /\ rec' = [rec EXCEPT ![r] = FailedRecording(r)]
              ELSE UNCHANGED <<url, rec>>
  <2>1. attempts[r] \in 0..Retries /\ attempts[r] + 1 \in 0..(Retries + 1)
    BY JobsAssumption DEF RowsOK, FetchOK, JobsTypeOK
  <2>2. /\ AfterFailure(r) = "failed" \/ (AfterFailure(r) = "pending" /\ attempts[r] + 1 <= Retries)
        /\ AfterFailure(r) = "failed" => AfterFailure(r) # "pending"
    BY <2>1, JobsAssumption DEF AfterFailure, Counted
  <2>3. /\ state' = [state EXCEPT ![r] = AfterFailure(r)] /\ holder' = [holder EXCEPT ![r] = {}]
        /\ leaseLeft' = [leaseLeft EXCEPT ![r] = 0]
        /\ attempts' = [attempts EXCEPT ![r] = attempts[r] + 1]
        /\ wait' = [wait EXCEPT ![r] = IF AfterFailure(r) = "pending" THEN Delay ELSE 0]
    BY <1>2 DEF Retry, Counted
  <2>4. 0 \in (-Memory)..Lease /\ 0 \in 0..Delay /\ Delay \in 0..Delay
    BY JobsAssumption
  <2>5. JobsTypeOK'
    <3>1. state' \in [Jobs -> {"none", "pending", "running"} \cup Terminal]
      BY <2>2, <2>3 DEF RowsOK, JobsTypeOK, Terminal
    <3>2. holder' \in [Jobs -> SUBSET Workers] /\ leaseLeft' \in [Jobs -> (-Memory)..Lease]
      BY <2>3, <2>4 DEF RowsOK, JobsTypeOK
    <3>3. attempts' \in [Jobs -> 0..(Retries + 1)] /\ wait' \in [Jobs -> 0..Delay]
      BY <2>1, <2>3, <2>4 DEF RowsOK, JobsTypeOK
    <3>4. QED
      BY <3>1, <3>2, <3>3 DEF JobsTypeOK
  <2>6. /\ state'[r] = AfterFailure(r) /\ attempts'[r] = attempts[r] + 1 /\ holder'[r] = {}
        /\ \A q \in Jobs : q # r => /\ state'[q] = state[q] /\ attempts'[q] = attempts[q]
                                    /\ holder'[q] = holder[q]
    BY <2>3 DEF RowsOK, JobsTypeOK
  <2>7. rec[r] \in {"pending", "stored"} /\ FetchOK(r)
    BY DEF RowsOK, FetchOK
  <2>8. CASE AfterFailure(r) = "failed"
    <3>1. FailedRecording(r) \in {"stored", "failed"} /\ (rec[r] = "stored" => FailedRecording(r) = "stored")
      BY <2>7 DEF FailedRecording
    <3>2. /\ url' = [url EXCEPT ![r] = "none"] /\ rec' = [rec EXCEPT ![r] = FailedRecording(r)]
      BY <1>2, <2>8
    <3>3. /\ rec' \in [Jobs -> {"none", "pending", "stored", "failed"}]
          /\ url' \in [Jobs -> {"none", "live", "old"}]
          /\ rec'[r] = FailedRecording(r) /\ url'[r] = "none"
          /\ \A q \in Jobs : q # r => rec'[q] = rec[q] /\ url'[q] = url[q]
      BY <3>1, <3>2 DEF RowsOK
    <3>4. \A q \in Jobs : FetchOK(q)'
      BY <2>6, <2>8, <3>1, <3>3 DEF RowsOK, FetchOK
    <3>5. QED
      BY <2>5, <2>6, <3>1, <3>3, <3>4 DEF RowsOK
  <2>9. CASE AfterFailure(r) # "failed"
    <3>1. url' = url /\ rec' = rec /\ AfterFailure(r) = "pending" /\ attempts[r] + 1 <= Retries
      BY <1>2, <2>2, <2>9
    <3>2. \A q \in Jobs : FetchOK(q)'
      BY <2>6, <2>7, <3>1 DEF RowsOK, FetchOK
    <3>3. QED
      BY <2>5, <2>6, <3>1, <3>2 DEF RowsOK
  <2>10. QED
    BY <2>8, <2>9
<1>3. QED
  BY <1>1, <1>2 DEF Retried

\* What an ended fetch's recording is, in the row's words.
LEMMA SettledKeeps ==
    ASSUME RowsOK, NEW r \in Jobs, state[r] \in {"pending", "running"}, Settled(r), source' = source
    PROVE  /\ RowsOK'
           /\ \A q \in Jobs : holder'[q] \subseteq holder[q] /\ (rec[q] = "stored" => rec'[q] = "stored")
BY EndAsKeeps DEF Settled, Terminal

\* Rows that no one touched.
LEMMA RowsStay ==
    ASSUME RowsOK, UNCHANGED <<jobVars, rec, source, url>>
    PROVE  /\ RowsOK'
           /\ \A q \in Jobs : holder'[q] \subseteq holder[q] /\ (rec[q] = "stored" => rec'[q] = "stored")
<1>1. UNCHANGED <<state, holder, leaseLeft, attempts, wait, rec, source, url>>
  BY DEF jobVars
<1>2. JobsTypeOK'
  BY <1>1 DEF RowsOK, JobsTypeOK
<1>3. \A r \in Jobs : FetchOK(r)'
  BY <1>1 DEF RowsOK, FetchOK
<1>4. QED
  BY <1>1, <1>2, <1>3 DEF RowsOK

\* A recording is stored, by its client or by a fetch's upload.
LEMMA StoredKeeps ==
    ASSUME RowsOK, NEW r \in Jobs, StoredRecording(r), UNCHANGED <<jobVars, source, url>>
    PROVE  /\ RowsOK'
           /\ \A q \in Jobs : holder'[q] \subseteq holder[q] /\ (rec[q] = "stored" => rec'[q] = "stored")
<1>1. UNCHANGED <<state, holder, leaseLeft, attempts, wait, source, url>>
  BY DEF jobVars
<1>2. JobsTypeOK'
  BY <1>1 DEF RowsOK, JobsTypeOK
<1>3. /\ rec' \in [Jobs -> {"none", "pending", "stored", "failed"}]
      /\ \A q \in Jobs : rec'[q] = rec[q] \/ (rec[q] = "pending" /\ rec'[q] = "stored")
  BY DEF StoredRecording, RowsOK
<1>4. \A q \in Jobs : FetchOK(q)'
  BY <1>1, <1>3 DEF RowsOK, FetchOK
<1>5. QED
  BY <1>1, <1>2, <1>3, <1>4 DEF RowsOK

\* A URL is refreshed by a replayed delivery, or passes its expiry.
LEMMA UrlKeeps ==
    ASSUME FetchesOK, \/ \E h \in Handlers, d \in DeliveryKeys : Replay(h, d)
                      \/ \E r \in Jobs : UrlExpires(r)
    PROVE  FetchesOK' /\ UNCHANGED <<receiptVars, call, started, purges, faults>>
<1>1. UNCHANGED <<receiptVars, call, rec, jobVars, source, worker, started, purges, faults>>
  BY DEF Replay, UrlExpires
<1>2. UNCHANGED <<state, holder, leaseLeft, attempts, wait, rec, source, worker>>
  BY <1>1 DEF jobVars
<1>3. /\ url' \in [Jobs -> {"none", "live", "old"}]
      /\ \A q \in Jobs : \/ url'[q] = url[q]
                         \/ url[q] = "live" /\ url'[q] = "old"
                         \/ q \in Live /\ url'[q] = Given(q)
  <2>1. CASE \E h \in Handlers, d \in DeliveryKeys : Replay(h, d)
    BY <2>1 DEF Replay, Refreshed, Given, FetchesOK, FetchTypes
  <2>2. CASE \E r \in Jobs : UrlExpires(r)
    BY <2>2 DEF UrlExpires, FetchesOK, FetchTypes
  <2>3. QED
    BY <2>1, <2>2
<1>4. JobsTypeOK'
  BY <1>2 DEF FetchesOK, FetchTypes, JobsTypeOK
<1>5. \A q \in Jobs : FetchOK(q)'
  BY <1>2, <1>3 DEF FetchesOK, FetchOK, Given, Live
<1>6. RowsOK'
  BY <1>2, <1>3, <1>4, <1>5 DEF RowsOK, FetchesOK, FetchTypes
<1>7. NoNewReport
  BY <1>2 DEF NoNewReport, FetchesOK, FetchTypes
<1>8. QED
  BY <1>1, <1>6, <1>7, NoNewReportKeeps

\* A worker takes a fetch that is due or whose lease expired, or ends it.
LEMMA ClaimFetchKeeps ==
    ASSUME FetchesOK, NEW w \in Workers, ClaimFetch(w)
    PROVE  FetchesOK' /\ UNCHANGED <<receiptVars, call, started, purges, faults>>
<1>0. UNCHANGED <<receiptVars, call, source, started, purges, faults>>
  BY DEF ClaimFetch
<1>1. PICK r \in Runnable :
         \/ rec[r] # "pending" /\ Settled(r) /\ UNCHANGED worker
         \/ rec[r] = "pending" /\ url[r] = "old" /\ EndAs(r, "expired") /\ UNCHANGED worker
         \/ /\ rec[r] = "pending" /\ url[r] # "old" /\ TakeLease(w, r)
            /\ worker' = [worker EXCEPT ![w] = [stage |-> "fetching", job |-> r]]
            /\ UNCHANGED <<rec, url>>
  BY DEF ClaimFetch
<1>2. r \in Jobs /\ state[r] \in {"pending", "running"} /\ RowsOK
  BY RowsAreOK DEF Runnable, Expired, Due
<1>3. CASE UNCHANGED worker /\ (Settled(r) \/ (rec[r] = "pending" /\ EndAs(r, "expired")))
  <2>1. /\ RowsOK'
        /\ \A q \in Jobs : holder'[q] \subseteq holder[q] /\ (rec[q] = "stored" => rec'[q] = "stored")
    BY <1>0, <1>2, <1>3, SettledKeeps, EndAsKeeps DEF Terminal
  <2>2. NoNewReport
    BY <1>3, <2>1, RestWorks DEF NoNewReport
  <2>3. QED
    BY <1>0, <2>1, <2>2, NoNewReportKeeps
<1>4. CASE /\ TakeLease(w, r)
           /\ worker' = [worker EXCEPT ![w] = [stage |-> "fetching", job |-> r]]
           /\ UNCHANGED <<rec, url>>
  <2>1. /\ state' = [state EXCEPT ![r] = "running"] /\ holder' = [holder EXCEPT ![r] = {w}]
        /\ leaseLeft' = [leaseLeft EXCEPT ![r] = Lease] /\ attempts' = attempts /\ wait' = wait
    BY <1>4 DEF TakeLease
  <2>2. Lease \in (-Memory)..Lease
    BY JobsAssumption
  <2>3. JobsTypeOK'
    BY <1>2, <2>1, <2>2 DEF RowsOK, JobsTypeOK
  <2>4. /\ state'[r] = "running" /\ holder'[r] = {w}
        /\ \A q \in Jobs : q # r => state'[q] = state[q] /\ holder'[q] = holder[q]
    BY <1>2, <2>1 DEF RowsOK, JobsTypeOK
  <2>5. \A q \in Jobs : FetchOK(q)'
    BY <1>0, <1>2, <1>4, <2>1, <2>4 DEF RowsOK, FetchOK
  <2>6. [stage |-> "fetching", job |-> r] \in Works
    BY <1>2 DEF Works
  <2>7. /\ worker' \in [Workers -> Works] /\ worker'[w] = [stage |-> "fetching", job |-> r]
        /\ \A v \in Workers : v # w => worker'[v] = worker[v]
    BY <1>4, <2>6 DEF FetchesOK, FetchTypes
  <2>8. FetchTypes'
    BY <1>0, <1>2, <1>4, <2>3, <2>7 DEF FetchesOK, FetchTypes
  <2>9. ReportsStored'
    <3> SUFFICES ASSUME NEW v \in Workers, worker'[v].stage = "completing",
                        v \in holder'[worker'[v].job]
                 PROVE  rec'[worker'[v].job] = "stored"
      BY DEF ReportsStored
    <3>1. v # w /\ worker'[v] = worker[v] /\ worker[v].job \in Jobs
      BY <2>7 DEF FetchesOK, FetchTypes
    <3>2. worker[v].job # r /\ v \in holder[worker[v].job]
      BY <2>4, <3>1
    <3>3. QED
      BY <1>4, <3>1, <3>2 DEF FetchesOK, ReportsStored
  <2>10. QED
    BY <1>0, <2>5, <2>8, <2>9 DEF FetchesOK
<1>5. QED
  BY <1>1, <1>3, <1>4

\* The provider answers.
LEMMA BeginUploadKeeps ==
    ASSUME FetchesOK, NEW w \in Workers, BeginUpload(w)
    PROVE  FetchesOK' /\ UNCHANGED <<receiptVars, call, started, purges, faults>>
<1>1. /\ UNCHANGED <<receiptVars, call, rec, jobVars, source, url, started, purges, faults>>
      /\ \E to \in {"streaming", "settling"} : worker' = [worker EXCEPT ![w].stage = to]
      /\ worker[w].stage = "fetching"
  BY DEF BeginUpload
<1>2. RowsOK' /\ \A q \in Jobs : holder'[q] \subseteq holder[q] /\ (rec[q] = "stored" => rec'[q] = "stored")
  BY <1>1, RowsAreOK, RowsStay
<1>3. /\ worker' \in [Workers -> Works]
      /\ \A v \in Workers : v # w => worker'[v] = worker[v]
      /\ worker'[w].stage # "completing" /\ worker'[w].job = worker[w].job
  BY <1>1 DEF FetchesOK, FetchTypes, Works
<1>4. NoNewReport
  BY <1>1, <1>2, <1>3 DEF NoNewReport, FetchesOK, FetchTypes
<1>5. QED
  BY <1>1, <1>2, <1>4, NoNewReportKeeps

\* The upload of a fetch that goes on to report it did store the recording.
LEMMA FinishUploadKeeps ==
    ASSUME FetchesOK, NEW w \in Workers, FinishUpload(w)
    PROVE  FetchesOK' /\ UNCHANGED <<receiptVars, call, started, purges, faults>>
<1> DEFINE r == worker[w].job
<1>1. /\ StoredRecording(r) /\ worker[w].stage = "streaming"
      /\ UNCHANGED <<receiptVars, call, jobVars, source, url, started, purges, faults>>
      /\ worker' = [worker EXCEPT ![w].stage = IF rec[r] = "pending" THEN "completing" ELSE "settling"]
  BY DEF FinishUpload
<1>2. r \in Jobs
  BY <1>1 DEF FetchesOK, FetchTypes
<1>3. RowsOK' /\ \A q \in Jobs : holder'[q] \subseteq holder[q] /\ (rec[q] = "stored" => rec'[q] = "stored")
  BY <1>1, <1>2, RowsAreOK, StoredKeeps
<1>4. /\ worker' \in [Workers -> Works]
      /\ \A v \in Workers : v # w => worker'[v] = worker[v]
      /\ worker'[w].stage = (IF rec[r] = "pending" THEN "completing" ELSE "settling")
      /\ worker'[w].job = r
  BY <1>1 DEF FetchesOK, FetchTypes, Works
<1>5. FetchTypes'
  BY <1>2, <1>3, <1>4 DEF FetchesOK, FetchTypes, RowsOK
<1>6. rec[r] = "pending" => rec'[r] = "stored"
  BY <1>1, <1>2 DEF StoredRecording, FetchesOK, FetchTypes
<1>7. ReportsStored'
  <2> SUFFICES ASSUME NEW v \in Workers, worker'[v].stage = "completing",
                      v \in holder'[worker'[v].job]
               PROVE  rec'[worker'[v].job] = "stored"
    BY DEF ReportsStored
  <2>1. CASE v = w
    BY <1>4, <1>6, <2>1
  <2>2. CASE v # w
    <3>1. worker'[v] = worker[v] /\ worker[v].job \in Jobs
      BY <1>4, <2>2 DEF FetchesOK, FetchTypes
    <3>2. v \in holder[worker[v].job]
      BY <1>3, <3>1
    <3>3. QED
      BY <1>3, <3>1, <3>2 DEF FetchesOK, ReportsStored
  <2>3. QED
    BY <2>1, <2>2
<1>8. QED
  BY <1>1, <1>3, <1>5, <1>7 DEF FetchesOK, RowsOK

\* A fetch that fails, for the worker that holds it.
LEMMA FetchFailsKeeps ==
    ASSUME FetchesOK, NEW w \in Workers, FetchFails(w)
    PROVE  FetchesOK' /\ UNCHANGED <<receiptVars, call, started, purges, faults>>
<1> DEFINE r == worker[w].job
<1>1. /\ UNCHANGED <<receiptVars, call, source, started, purges, faults>>
      /\ Rest(w) /\ worker[w].stage # "idle"
      /\ \/ UNCHANGED <<jobVars, url, rec>>
         \/ Holds(w, r) /\ (Retried(r) \/ \E how \in {"failed", "expired"} : EndAs(r, how))
  BY DEF FetchFails
<1>2. r \in Jobs /\ RowsOK
  BY <1>1, RowsAreOK DEF FetchesOK, FetchTypes
<1>3. RowsOK' /\ \A q \in Jobs : holder'[q] \subseteq holder[q] /\ (rec[q] = "stored" => rec'[q] = "stored")
  <2>1. CASE UNCHANGED <<jobVars, url, rec>>
    BY <1>1, <1>2, <2>1, RowsStay
  <2>2. CASE Holds(w, r) /\ Retried(r)
    BY <1>1, <1>2, <2>2, RetriedKeeps DEF Holds
  <2>3. CASE Holds(w, r) /\ \E how \in {"failed", "expired"} : EndAs(r, how)
    BY <1>1, <1>2, <2>3, EndAsKeeps DEF Holds, Terminal
  <2>4. QED
    BY <1>1, <2>1, <2>2, <2>3
<1>4. NoNewReport
  BY <1>1, <1>3, RestWorks DEF NoNewReport
<1>5. QED
  BY <1>1, <1>3, <1>4, NoNewReportKeeps

\* A worker that holds its fetch reports what it stored.
LEMMA CompleteStoredKeeps ==
    ASSUME FetchesOK, NEW w \in Workers, CompleteStored(w)
    PROVE  FetchesOK' /\ UNCHANGED <<receiptVars, call, started, purges, faults>>
<1> DEFINE r == worker[w].job
<1>1. /\ UNCHANGED <<receiptVars, call, rec, source, started, purges, faults>>
      /\ Rest(w) /\ worker[w].stage = "completing"
      /\ IF Holds(w, r) THEN Complete(r, "stored") /\ url' = [url EXCEPT ![r] = "none"]
         ELSE UNCHANGED <<jobVars, url>>
  BY DEF CompleteStored
<1>2. r \in Jobs /\ RowsOK
  BY <1>1, RowsAreOK DEF FetchesOK, FetchTypes
<1>3. RowsOK' /\ \A q \in Jobs : holder'[q] \subseteq holder[q] /\ (rec[q] = "stored" => rec'[q] = "stored")
  <2>1. CASE ~Holds(w, r)
    BY <1>1, <1>2, <2>1, RowsStay
  <2>2. CASE Holds(w, r)
    <3>1. rec[r] = "stored" /\ state[r] = "running"
      BY <1>1, <2>2 DEF FetchesOK, ReportsStored, Holds
    <3>2. EndAs(r, "stored")
      BY <1>1, <1>2, <2>2 DEF EndAs, RowsOK
    <3>3. QED
      BY <1>1, <1>2, <3>1, <3>2, EndAsKeeps DEF Terminal
  <2>3. QED
    BY <2>1, <2>2
<1>4. NoNewReport
  BY <1>1, <1>3, RestWorks DEF NoNewReport
<1>5. QED
  BY <1>1, <1>3, <1>4, NoNewReportKeeps

\* A fetch whose recording was settled by someone else.
LEMMA SettleKeeps ==
    ASSUME FetchesOK, NEW w \in Workers, Settle(w)
    PROVE  FetchesOK' /\ UNCHANGED <<receiptVars, call, started, purges, faults>>
<1> DEFINE r == worker[w].job
<1>1. /\ UNCHANGED <<receiptVars, call, source, started, purges, faults>>
      /\ Rest(w) /\ worker[w].stage # "idle"
      /\ IF Holds(w, r) THEN Settled(r) ELSE UNCHANGED <<jobVars, url, rec>>
  BY DEF Settle
<1>2. r \in Jobs /\ RowsOK
  BY <1>1, RowsAreOK DEF FetchesOK, FetchTypes
<1>3. RowsOK' /\ \A q \in Jobs : holder'[q] \subseteq holder[q] /\ (rec[q] = "stored" => rec'[q] = "stored")
  BY <1>1, <1>2, RowsStay, SettledKeeps DEF Holds
<1>4. NoNewReport
  BY <1>1, <1>3, RestWorks DEF NoNewReport
<1>5. QED
  BY <1>1, <1>3, <1>4, NoNewReportKeeps

\* A worker's error leaves the fetch to its lease, perhaps with its recording stored.
LEMMA EscapesKeeps ==
    ASSUME FetchesOK, NEW w \in Workers, Escapes(w)
    PROVE  FetchesOK' /\ UNCHANGED <<receiptVars, call, started, purges>>
<1> DEFINE r == worker[w].job
<1>1. /\ UNCHANGED <<receiptVars, call, jobVars, source, url, started, purges>>
      /\ Rest(w) /\ worker[w].stage # "idle"
      /\ StoredRecording(r) \/ UNCHANGED rec
  BY DEF Escapes
<1>2. r \in Jobs /\ RowsOK
  BY <1>1, RowsAreOK DEF FetchesOK, FetchTypes
<1>3. RowsOK' /\ \A q \in Jobs : holder'[q] \subseteq holder[q] /\ (rec[q] = "stored" => rec'[q] = "stored")
  BY <1>1, <1>2, RowsStay, StoredKeeps
<1>4. NoNewReport
  BY <1>1, <1>3, RestWorks DEF NoNewReport
<1>5. QED
  BY <1>1, <1>3, <1>4, NoNewReportKeeps

\* The first run in a server takes every lease back.
LEMMA StartFetchesKeeps ==
    ASSUME FetchesOK, StartFetches
    PROVE  FetchesOK' /\ UNCHANGED <<receiptVars, call, purges, faults>> /\ started' = TRUE
<1>1. /\ UNCHANGED <<receiptVars, call, rec, source, url, worker, purges, faults>> /\ started' = TRUE
      /\ state' = [j \in Jobs |-> IF state[j] = "running" THEN "pending" ELSE state[j]]
      /\ holder' = [j \in Jobs |-> {}] /\ leaseLeft' = [j \in Jobs |-> 0]
      /\ attempts' = attempts /\ wait' = wait
  BY DEF StartFetches, Release
<1>2. 0 \in (-Memory)..Lease
  BY JobsAssumption
<1>3. JobsTypeOK'
  BY <1>1, <1>2 DEF FetchesOK, FetchTypes, JobsTypeOK
<1>4. \A q \in Jobs : FetchOK(q)'
  BY <1>1 DEF FetchesOK, FetchOK
<1>5. RowsOK'
  BY <1>1, <1>3, <1>4 DEF RowsOK, FetchesOK, FetchTypes
<1>6. NoNewReport
  BY <1>1 DEF NoNewReport, FetchesOK, FetchTypes
<1>7. QED
  BY <1>1, <1>5, <1>6, NoNewReportKeeps

\* Leases run and delays pass.
LEMMA TickKeeps ==
    ASSUME FetchesOK, Tick
    PROVE  FetchesOK' /\ UNCHANGED <<receiptVars, call, started, purges>>
<1>1. /\ UNCHANGED <<receiptVars, call, rec, source, url, worker, started, purges, state, holder, attempts>>
      /\ leaseLeft' = [j \in Jobs |-> IF state[j] = "running" /\ leaseLeft[j] > -Memory
                                      THEN leaseLeft[j] - 1 ELSE leaseLeft[j]]
      /\ wait' = [j \in Jobs |-> IF wait[j] > 0 THEN wait[j] - 1 ELSE 0]
  BY DEF Tick, JobsTick
<1>2. JobsTypeOK'
  <2>1. leaseLeft' \in [Jobs -> (-Memory)..Lease]
    BY <1>1, JobsAssumption DEF FetchesOK, FetchTypes, JobsTypeOK
  <2>2. wait' \in [Jobs -> 0..Delay]
    BY <1>1, JobsAssumption DEF FetchesOK, FetchTypes, JobsTypeOK
  <2>3. QED
    BY <1>1, <2>1, <2>2 DEF FetchesOK, FetchTypes, JobsTypeOK
<1>3. \A q \in Jobs : FetchOK(q)'
  BY <1>1 DEF FetchesOK, FetchOK
<1>4. RowsOK'
  BY <1>1, <1>2, <1>3 DEF RowsOK, FetchesOK, FetchTypes
<1>5. NoNewReport
  BY <1>1 DEF NoNewReport, FetchesOK, FetchTypes
<1>6. QED
  BY <1>1, <1>4, <1>5, NoNewReportKeeps

\* A client's own upload.
LEMMA ClientStoresKeeps ==
    ASSUME FetchesOK, NEW r \in Jobs, ClientStores(r)
    PROVE  FetchesOK' /\ UNCHANGED <<receiptVars, call, started, purges, faults>>
<1>1. UNCHANGED <<receiptVars, call, jobVars, source, url, worker, started, purges, faults>>
      /\ StoredRecording(r)
  BY DEF ClientStores, fetchVars, StoredRecording
<1>2. RowsOK' /\ \A q \in Jobs : holder'[q] \subseteq holder[q] /\ (rec[q] = "stored" => rec'[q] = "stored")
  BY <1>1, RowsAreOK, StoredKeeps
<1>3. NoNewReport
  BY <1>1, <1>2 DEF NoNewReport, FetchesOK, FetchTypes
<1>4. QED
  BY <1>1, <1>2, <1>3, NoNewReportKeeps

\* The call's recordings and fetches go together.
LEMMA PurgeKeeps ==
    ASSUME FetchesOK, RestTypes, Purge
    PROVE  FetchesOK' /\ RestTypes' /\ UNCHANGED receiptVars
<1>1. /\ UNCHANGED <<receiptVars, source, worker, started, faults>>
      /\ call' = "purged" /\ purges < MaxPurges /\ purges' = purges + 1
      /\ rec' = [r \in Jobs |-> "none"] /\ url' = [r \in Jobs |-> "none"]
      /\ state' = [j \in Jobs |-> "none"] /\ holder' = [j \in Jobs |-> {}]
      /\ leaseLeft' = [j \in Jobs |-> 0] /\ attempts' = [j \in Jobs |-> 0]
      /\ wait' = [j \in Jobs |-> 0]
  BY DEF Purge, ForgetAll
<1>2. 0 \in (-Memory)..Lease /\ 0 \in 0..(Retries + 1) /\ 0 \in 0..Delay
  BY JobsAssumption
<1>3. JobsTypeOK'
  BY <1>1, <1>2 DEF JobsTypeOK
<1>4. \A q \in Jobs : FetchOK(q)'
  BY <1>1 DEF FetchOK
<1>5. RowsOK'
  BY <1>1, <1>3, <1>4 DEF RowsOK, FetchesOK, FetchTypes
<1>6. NoNewReport
  BY <1>1 DEF NoNewReport, FetchesOK, FetchTypes
<1>7. RestTypes'
  BY <1>1, FetchesAssumption DEF RestTypes
<1>8. QED
  BY <1>1, <1>5, <1>6, <1>7, NoNewReportKeeps

\* The server dies, and its requests and workers with it.
LEMMA CrashKeeps ==
    ASSUME ReceiptsOK, FetchesOK, Crash
    PROVE  ReceiptsOK' /\ FetchesOK' /\ UNCHANGED <<call, purges>> /\ started' = FALSE
<1>1. /\ handler' = [h \in Handlers |-> NoRequest] /\ worker' = [w \in Workers |-> NoWork]
      /\ started' = FALSE
      /\ UNCHANGED <<receipt, written, call, rec, jobVars, source, url, purges>>
  BY DEF Crash
<1>2. NoRequest \in Requests /\ NoRequest.stage = "idle" /\ NoWork \in Works /\ NoWork.stage = "idle"
  BY FetchesAssumption DEF NoRequest, Requests, NoWork, Works
<1>3. ReceiptTypes' /\ WrittenOnce'
  BY <1>1, <1>2 DEF ReceiptsOK, ReceiptTypes, WrittenOnce
<1>4. RequestsEnd
  BY <1>1, <1>2 DEF RequestsEnd
<1>5. RowsOK' /\ \A q \in Jobs : holder'[q] \subseteq holder[q] /\ (rec[q] = "stored" => rec'[q] = "stored")
  BY <1>1, RowsAreOK, RowsStay
<1>6. NoNewReport
  BY <1>1, <1>2, <1>5 DEF NoNewReport
<1>7. QED
  BY <1>1, <1>3, <1>4, <1>5, <1>6, RequestsEndKeeps, NoNewReportKeeps DEF ReceiptsOK

\* The call's key may name a call again.
LEMMA TombstoneExpiresKeeps ==
    ASSUME FetchesOK, TombstoneExpires
    PROVE  FetchesOK' /\ UNCHANGED <<receiptVars, started, purges, faults>> /\ call' = "none"
<1>1. UNCHANGED <<receiptVars, rec, jobVars, source, url, worker, started, purges, faults>>
      /\ call' = "none"
  BY DEF TombstoneExpires, fetchVars
<1>2. RowsOK' /\ \A q \in Jobs : holder'[q] \subseteq holder[q] /\ (rec[q] = "stored" => rec'[q] = "stored")
  BY <1>1, RowsAreOK, RowsStay
<1>3. NoNewReport
  BY <1>1, <1>2 DEF NoNewReport, FetchesOK, FetchTypes
<1>4. QED
  BY <1>1, <1>2, <1>3, NoNewReportKeeps

-----------------------------------------------------------------------------
(* Every step                                                              *)

\* A step that leaves the receipts alone keeps what is said of them.
LEMMA ReceiptsStay ==
    ASSUME ReceiptsOK, UNCHANGED receiptVars
    PROVE  ReceiptsOK'
BY DEF ReceiptsOK, ReceiptTypes, WrittenOnce, OneHolder, receiptVars

\* The model's bound on faults.
LEMMA FaultCounted ==
    ASSUME RestTypes, Fault \/ Fine
    PROVE  faults' \in 0..MaxFaults
BY FetchesAssumption DEF RestTypes, Fault, Fine

\* Every step keeps the two parts.
LEMMA NextKeeps ==
    ASSUME ReceiptsOK, FetchesOK, RestTypes, [Next]_vars
    PROVE  ReceiptsOK' /\ FetchesOK' /\ RestTypes'
<1> USE DEF RestTypes
<1>1. ASSUME NEW h \in Handlers, NEW d \in DeliveryKeys, ClaimReceipt(h, d)
      PROVE  ReceiptsOK' /\ FetchesOK' /\ RestTypes'
  BY <1>1, ClaimReceiptKeeps, HookOnly
<1>2. ASSUME NEW d \in DeliveryKeys, ReceiptExpires(d)
      PROVE  ReceiptsOK' /\ FetchesOK' /\ RestTypes'
  <2>1. UNCHANGED <<call, rec, fetchVars, purges, faults>>
    BY <1>2 DEF ReceiptExpires
  <2>2. FetchesOK'
    <3>1. UNCHANGED <<jobVars, rec, source, url, worker>>
      BY <2>1 DEF fetchVars
    <3>2. RowsOK' /\ \A q \in Jobs : holder'[q] \subseteq holder[q] /\ (rec[q] = "stored" => rec'[q] = "stored")
      BY <3>1, RowsAreOK, RowsStay
    <3>3. NoNewReport
      BY <3>1, <3>2 DEF NoNewReport, FetchesOK, FetchTypes
    <3>4. QED
      BY <3>2, <3>3, NoNewReportKeeps
  <2>3. QED
    BY <1>2, <2>1, <2>2, ReceiptExpiresKeeps DEF fetchVars
<1>3. ASSUME NEW h \in Handlers, ApplyRefused(h) \/ FailReceipt(h)
      PROVE  ReceiptsOK' /\ FetchesOK' /\ RestTypes'
  BY <1>3, ApplyRefusedKeeps, FailReceiptKeeps, HookOnly
<1>4. ASSUME NEW h \in Handlers, Apply(h)
      PROVE  ReceiptsOK' /\ FetchesOK' /\ RestTypes'
  <2>1. /\ handler[h].stage = "claimed" /\ Owns(h) /\ Write(h)
        /\ handler' = [handler EXCEPT ![h] = NoRequest]
        /\ UNCHANGED <<source, worker, started, purges, faults>>
    BY <1>4 DEF Apply
  <2>2. QED
    BY <2>1, WriteKeepsReceipts, WriteKeepsFetches
<1>5. ASSUME NEW h \in Handlers, ApplyFails(h)
      PROVE  ReceiptsOK' /\ FetchesOK' /\ RestTypes'
  <2>1. /\ handler[h].stage = "claimed" /\ Owns(h)
        /\ handler' = [handler EXCEPT ![h].stage = "failing"]
        /\ Write(h) \/ UNCHANGED <<receipt, written, call, rec, jobVars, url>>
        /\ UNCHANGED <<source, worker, started, purges>>
        /\ Fault
    BY <1>5 DEF ApplyFails
  <2>2. CASE Write(h)
    BY <2>1, <2>2, WriteKeepsReceipts, WriteKeepsFetches, FaultCounted
  <2>3. CASE UNCHANGED <<receipt, written, call, rec, jobVars, url>>
    <3>1. ReceiptTypes' /\ WrittenOnce'
      BY <2>1, <2>3 DEF ReceiptsOK, ReceiptTypes, Requests, WrittenOnce
    <3>2. RequestsEnd
      BY <2>1, <2>3 DEF RequestsEnd, ReceiptsOK, ReceiptTypes
    <3>3. ReceiptsOK'
      BY <3>1, <3>2, RequestsEndKeeps DEF ReceiptsOK
    <3>4. RowsOK' /\ \A q \in Jobs : holder'[q] \subseteq holder[q] /\ (rec[q] = "stored" => rec'[q] = "stored")
      BY <2>1, <2>3, RowsAreOK, RowsStay
    <3>5. NoNewReport
      BY <2>1, <3>4 DEF NoNewReport, FetchesOK, FetchTypes
    <3>6. QED
      BY <2>1, <2>3, <3>3, <3>4, <3>5, NoNewReportKeeps, FaultCounted
  <2>4. QED
    BY <2>1, <2>2, <2>3
<1>6. ASSUME NEW h \in Handlers, NEW d \in DeliveryKeys, Replay(h, d)
      PROVE  ReceiptsOK' /\ FetchesOK' /\ RestTypes'
  BY <1>6, UrlKeeps, ReceiptsStay
<1>7. ASSUME NEW r \in Jobs, UrlExpires(r) \/ ClientStores(r)
      PROVE  ReceiptsOK' /\ FetchesOK' /\ RestTypes'
  BY <1>7, UrlKeeps, ClientStoresKeeps, ReceiptsStay
<1>8. ASSUME NEW w \in Workers, ClaimFetch(w) \/ FetchStep(w)
      PROVE  ReceiptsOK' /\ FetchesOK' /\ RestTypes'
  <2>1. FetchesOK' /\ UNCHANGED <<receiptVars, call, started, purges, faults>>
    BY <1>8, ClaimFetchKeeps, BeginUploadKeeps, FinishUploadKeeps, FetchFailsKeeps,
       CompleteStoredKeeps, SettleKeeps DEF FetchStep
  <2>2. QED
    BY <2>1, ReceiptsStay
<1>9. ASSUME NEW w \in Workers, Escapes(w)
      PROVE  ReceiptsOK' /\ FetchesOK' /\ RestTypes'
  <2>1. Fault
    BY <1>9 DEF Escapes
  <2>2. QED
    BY <1>9, <2>1, EscapesKeeps, ReceiptsStay, FaultCounted
<1>10. CASE StartFetches
  BY <1>10, StartFetchesKeeps, ReceiptsStay
<1>11. CASE Tick
  <2>1. Fault \/ Fine
    BY <1>11 DEF Tick
  <2>2. QED
    BY <1>11, <2>1, TickKeeps, ReceiptsStay, FaultCounted
<1>12. CASE Purge
  BY <1>12, PurgeKeeps, ReceiptsStay
<1>13. CASE TombstoneExpires
  BY <1>13, TombstoneExpiresKeeps, ReceiptsStay
<1>14. CASE Crash
  <2>1. Fault
    BY <1>14 DEF Crash
  <2>2. QED
    BY <1>14, <2>1, CrashKeeps, FaultCounted
<1>15. CASE UNCHANGED vars
  <2>1. UNCHANGED <<receiptVars, call, rec, jobVars, source, url, worker, started, purges, faults>>
    BY <1>15 DEF vars, fetchVars
  <2>2. RowsOK' /\ \A q \in Jobs : holder'[q] \subseteq holder[q] /\ (rec[q] = "stored" => rec'[q] = "stored")
    BY <2>1, RowsAreOK, RowsStay
  <2>3. NoNewReport
    BY <2>1, <2>2 DEF NoNewReport, FetchesOK, FetchTypes
  <2>4. QED
    BY <2>1, <2>2, <2>3, NoNewReportKeeps, ReceiptsStay
<1>16. QED
  BY <1>1, <1>2, <1>3, <1>4, <1>5, <1>6, <1>7, <1>8, <1>9, <1>10, <1>11, <1>12, <1>13, <1>14,
     <1>15 DEF Next, HookStep

\* Nothing was delivered at first.
LEMMA InitOK == Init => FetchesInv
<1> SUFFICES ASSUME Init
             PROVE  ReceiptsOK /\ FetchesOK /\ RestTypes
  BY Parts
<1>1. NoRequest \in Requests /\ NoRequest.stage = "idle" /\ NoWork \in Works /\ NoWork.stage = "idle"
  BY FetchesAssumption DEF NoRequest, Requests, NoWork, Works
<1>2. ReceiptsOK
  BY <1>1, FetchesAssumption DEF Init, ReceiptsOK, ReceiptTypes, WrittenOnce, OneHolder
<1>3. 0 \in (-Memory)..Lease /\ 0 \in 0..(Retries + 1) /\ 0 \in 0..Delay
  BY JobsAssumption
<1>4. FetchTypes
  BY <1>1, <1>3 DEF Init, JobsInit, FetchTypes, JobsTypeOK
<1>5. (\A r \in Jobs : FetchOK(r)) /\ ReportsStored
  BY <1>1 DEF Init, JobsInit, FetchOK, ReportsStored
<1>6. RestTypes
  <2>1. call \in {"none", "held", "purged"} /\ started \in BOOLEAN
    BY DEF Init
  <2>2. purges \in 0..MaxPurges /\ faults \in 0..MaxFaults
    BY FetchesAssumption DEF Init
  <2>3. QED
    BY <2>1, <2>2 DEF RestTypes
<1>7. QED
  BY <1>2, <1>4, <1>5, <1>6 DEF FetchesOK

\* A delivery's evidence is written once, every pending recording of a provider has a fetch
\* that can end it, and a bearer URL is kept only with a fetch that can use it, whatever
\* leases expire, requests race, calls are purged and servers die (storage_deliveries.py,
\* storage_fetches.py).
THEOREM FetchesAlways == Spec => []FetchesInv
<1>1. Init => FetchesInv
  BY InitOK
<1>2. FetchesInv /\ [Next]_vars => FetchesInv'
  <2>1. FetchesInv /\ [Next]_vars => ReceiptsOK' /\ FetchesOK' /\ RestTypes'
    BY Parts, NextKeeps
  <2>2. ReceiptsOK' /\ FetchesOK' /\ RestTypes' => FetchesInv'
    BY Parts, PTL
  <2>3. QED
    BY <2>1, <2>2
<1>3. QED
  BY <1>1, <1>2, PTL DEF Spec

=============================================================================
