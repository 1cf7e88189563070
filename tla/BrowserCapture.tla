---------------------------- MODULE BrowserCapture ---------------------------
(***************************************************************************)
(* One browser session's capture transport (packages/browser transport.ts) *)
(* with the network between it and the capture endpoint. The transport     *)
(* posts one payload at a time and keeps of what failed either the exact   *)
(* request, to be posted again (pendingExactRetry), or the range of        *)
(* sequence numbers the next payload declares lost (pendingResync).        *)
(*                                                                         *)
(* Everything between two awaits is one step. The network may lose a       *)
(* request or its answer, deliver a request after the transport stopped    *)
(* waiting for it, or refuse it before it reaches the server.              *)
(***************************************************************************)
EXTENDS CaptureServer

CONSTANTS
    MaxAttempts,   \* maxAttempts
    MaxQueued      \* maxQueuedPayloads

\* prepareResync attaches to a payload whatever range is missing before it.
ASSUME ClientAssumption ==
    /\ MaxAttempts \in Nat \ {0} /\ MaxQueued \in Nat \ {0}
    /\ \A d \in Drains : \A first \in 1..(d.seq - 1) :
           [d EXCEPT !.from = first, !.through = d.seq - 1] \in Drains

VARIABLES
    recorder,    \* its next sequence, and whether endCall() gave its final payload
    client,      \* the transport's queue, retained request, resync range and drain run
    delivery,    \* the payload being delivered, with the one waiting behind an exact retry
    late,        \* attempts the transport stopped waiting for, still on their way
    accepted,    \* the requests the transport saw accepted (history)
    gaveUp       \* the sequences it reported as lost (history)

clientVars == <<recorder, client, delivery, late, accepted, gaveUp>>
vars == <<serverVars, clientVars>>

\* An empty range of lost sequences, and a finished delivery.
NoResync == [from |-> 0, through |-> 0]
NoDelivery == [drain |-> NoDrain, waiting |-> NoDrain, attempts |-> 0]

Init ==
    /\ ServerInit
    /\ recorder = [next |-> 1, ended |-> FALSE]
    /\ client = [queue |-> <<>>, retained |-> NoDrain, resync |-> NoResync,
                 attempted |-> FALSE, stopped |-> FALSE]
    /\ delivery = NoDelivery
    /\ late = {} /\ accepted = {} /\ gaveUp = {}

Least(a, b) == IF a < b THEN a ELSE b
Greatest(a, b) == IF a > b THEN a ELSE b

-----------------------------------------------------------------------------
(* The resync range                                                        *)

\* Slip: a new loss replaces the range instead of widening it.
Replaced(r, d) == [from |-> d.seq, through |-> d.seq]

\* rememberDroppedDrain: what was not declared yet, the loss itself, and the loss the
\* dropped payload would have declared.
Widened(r, d) ==
    LET first == IF Declares(d) THEN Least(d.seq, d.from) ELSE d.seq
    IN  IF r = NoResync THEN [from |-> first, through |-> d.seq]
        ELSE [from |-> Least(r.from, first), through |-> Greatest(r.through, d.seq)]

\* The same for a queue, which is in the order of its sequences and declares nothing yet.
WidenedByAll(r, q) == IF q = <<>> THEN r ELSE Widened(Widened(r, Head(q)), q[Len(q)])

\* clearResync: a delivered payload has declared the range up to itself.
Cleared(r, d) ==
    IF r = NoResync \/ d.seq < r.from THEN r
    ELSE IF d.seq >= r.through THEN NoResync
    ELSE [from |-> d.seq + 1, through |-> r.through]

\* prepareResync.
Declaring(d, r) ==
    LET through == Least(r.through, d.seq - 1)
    IN  IF r = NoResync \/ r.from > through THEN d
        ELSE [d EXCEPT !.from = r.from, !.through = through]

-----------------------------------------------------------------------------
(* drain: the loop over the queue                                          *)

Sequences(q) == {q[n].seq : n \in 1..Len(q)}

Post(d, waiting) ==
    /\ delivery' = [drain |-> d, waiting |-> waiting, attempts |-> 1]
    /\ request' = "flying"

Rest(c) ==
    /\ client' = [c EXCEPT !.attempted = FALSE]
    /\ delivery' = NoDelivery
    /\ request' = "none"

\* From here to the next await: nothing is left; or the exact request was tried in this run
\* and still stands, and what is queued behind it is given up; or it is tried now; or the
\* next payload is delivered. `lost` is what was given up on the way here.
RunOn(c, lost) ==
    \/ /\ c.queue = <<>>
       /\ Rest(c)
       /\ gaveUp' = gaveUp \cup lost
    \/ /\ c.queue # <<>> /\ c.retained # NoDrain /\ c.attempted
       /\ Rest([c EXCEPT !.queue = <<>>, !.resync = WidenedByAll(c.resync, c.queue)])
       /\ gaveUp' = gaveUp \cup lost \cup Sequences(c.queue)
    \/ /\ c.queue # <<>> /\ c.retained # NoDrain /\ ~c.attempted
       /\ client' = [c EXCEPT !.queue = Tail(c.queue), !.attempted = TRUE]
       /\ Post(c.retained, Head(c.queue))
       /\ gaveUp' = gaveUp \cup lost
    \/ /\ c.queue # <<>> /\ c.retained = NoDrain
       /\ client' = [c EXCEPT !.queue = Tail(c.queue)]
       /\ Post(Declaring(Head(c.queue), c.resync), NoDrain)
       /\ gaveUp' = gaveUp \cup lost

\* The payload that waited for the exact request is delivered next, ahead of the queue.
GoOn(c, lost) ==
    IF delivery.waiting = NoDrain THEN RunOn(c, lost)
    ELSE /\ client' = c
         /\ Post(Declaring(delivery.waiting, c.resync), NoDrain)
         /\ gaveUp' = gaveUp \cup lost

Exact == client.retained # NoDrain /\ client.retained.seq = delivery.drain.seq

\* recorder.drain or endCall, and send: a full queue gives up its oldest payload.
Send(d) ==
    /\ ~recorder.ended
    /\ d.seq = recorder.next /\ ~Declares(d)
    /\ recorder' = [next |-> d.seq + 1, ended |-> d.end]
    /\ UNCHANGED <<disk, memory, work, seal, faults, late, accepted>>
    /\ \/ /\ client.stopped
          /\ client' = [client EXCEPT !.resync = Widened(@, d)]
          /\ gaveUp' = gaveUp \cup {d.seq}
          /\ UNCHANGED <<delivery, request>>
       \/ /\ ~client.stopped /\ delivery = NoDelivery
          /\ RunOn([client EXCEPT !.queue = <<d>>], {})
       \/ /\ ~client.stopped /\ delivery # NoDelivery
          /\ UNCHANGED <<delivery, request>>
          /\ IF Len(client.queue) < MaxQueued
             THEN /\ client' = [client EXCEPT !.queue = Append(@, d)]
                  /\ UNCHANGED gaveUp
             ELSE /\ client' = [client EXCEPT !.queue = Append(Tail(@), d),
                                              !.resync = Widened(@, Head(client.queue))]
                  /\ gaveUp' = gaveUp \cup {Head(client.queue).seq}

\* flush, when no run is under way: one attempt at the retained request.
Flush ==
    /\ delivery = NoDelivery /\ client.retained # NoDrain
    /\ client' = [client EXCEPT !.attempted = TRUE]
    /\ Post(client.retained, NoDrain)
    /\ UNCHANGED <<disk, memory, work, seal, faults, recorder, late, accepted, gaveUp>>

\* stop.
Stop ==
    /\ ~client.stopped
    /\ client' = [client EXCEPT !.stopped = TRUE, !.queue = <<>>,
                                !.resync = WidenedByAll(@, client.queue)]
    /\ gaveUp' = gaveUp \cup Sequences(client.queue)
    /\ UNCHANGED <<serverVars, recorder, delivery, late, accepted>>

-----------------------------------------------------------------------------
(* The network                                                             *)

\* The client's attempt, or a duplicate of an earlier one, reaches the endpoint.
Arrive ==
    /\ request = "flying"
    /\ FindCall(delivery.drain, TRUE)
    /\ UNCHANGED clientVars

ArriveLate ==
    \E d \in late :
        /\ FindCall(d, FALSE)
        /\ late' = late \ {d}
        /\ UNCHANGED <<recorder, client, delivery, accepted, gaveUp>>

\* The transport's fetch fails: the request was dropped, or it is still on its way, or it
\* is at the server, or its answer is lost. The server being down is reason enough.
ConnectionLost ==
    /\ request \in {"flying", "held", "ok", "refused", "too_large"}
    /\ IF work.stage = "down" THEN Fine ELSE Fault
    /\ request' = "retry"
    /\ late' \in {late} \cup (IF request = "flying" /\ work.stage # "down"
                              THEN {late \cup {delivery.drain}} ELSE {})
    /\ UNCHANGED <<disk, memory, work, seal, recorder, client, delivery, accepted, gaveUp>>

\* A proxy or the application's backend refuses the attempt, for good, on its own account.
Denied ==
    /\ request = "flying" /\ Fault
    /\ request' = "refused"
    /\ UNCHANGED <<disk, memory, work, seal, clientVars>>

-----------------------------------------------------------------------------
(* deliver: the answer                                                     *)

\* Slip: a delivered retry stays retained.
AcceptedKeepsRetained ==
    /\ request = "ok"
    /\ accepted' = accepted \cup {delivery.drain}
    /\ GoOn([client EXCEPT !.resync = Cleared(@, delivery.drain)], {})
    /\ UNCHANGED <<disk, memory, work, seal, faults, recorder, late>>

Accepted ==
    /\ request = "ok"
    /\ accepted' = accepted \cup {delivery.drain}
    /\ GoOn([client EXCEPT !.retained = IF Exact THEN NoDrain ELSE @,
                           !.resync = Cleared(@, delivery.drain)], {})
    /\ UNCHANGED <<disk, memory, work, seal, faults, recorder, late>>

TryAgain ==
    /\ request = "retry" /\ delivery.attempts < MaxAttempts
    /\ delivery' = [delivery EXCEPT !.attempts = @ + 1]
    /\ request' = "flying"
    /\ UNCHANGED <<disk, memory, work, seal, faults, recorder, client, late, accepted, gaveUp>>

\* retainExactRetry; when it was the retained request that failed again, the payload that
\* waited for it is given up with the queue behind it.
Retain ==
    /\ request = "retry" /\ delivery.attempts = MaxAttempts
    /\ LET waiting == IF delivery.waiting = NoDrain THEN <<>> ELSE <<delivery.waiting>>
       IN  RunOn([client EXCEPT !.retained = delivery.drain, !.queue = waiting \o @], {})
    /\ UNCHANGED <<disk, memory, work, seal, faults, recorder, late, accepted>>

\* giveUp: an answer not to be retried.
GiveUp ==
    /\ request \in {"refused", "too_large"}
    /\ GoOn([client EXCEPT !.retained = IF Exact THEN NoDrain ELSE @,
                           !.resync = Widened(@, delivery.drain)], {delivery.drain.seq})
    /\ UNCHANGED <<disk, memory, work, seal, faults, recorder, late, accepted>>

-----------------------------------------------------------------------------

Next ==
    \/ \E d \in Drains : Send(d)
    \/ Flush \/ Stop
    \/ Arrive \/ ArriveLate \/ ConnectionLost \/ Denied
    \/ Accepted \/ TryAgain \/ Retain \/ GiveUp
    \/ ServerStep /\ UNCHANGED clientVars
    \/ ServerFault /\ UNCHANGED clientVars
    \/ SealStep /\ UNCHANGED clientVars
    \/ (Expire \/ Prune \/ ForgetFinalized) /\ UNCHANGED clientVars

Spec == Init /\ [][Next]_vars

\* The host flushes while a retry is pending (packages/browser/README.md:74), the transport
\* takes the answer of its fetch or its time-out, and the server, when it is down, is
\* started and serves what reaches it. Nobody owes a send, a seal or an expiry.
Fairness ==
    /\ WF_vars(Flush) /\ WF_vars(Arrive)
    /\ WF_vars(Accepted \/ TryAgain \/ Retain \/ GiveUp)
    /\ WF_vars(ServerStep /\ UNCHANGED clientVars)
    /\ WF_vars(SealRemove /\ UNCHANGED clientVars)

FairSpec == Spec /\ Fairness

-----------------------------------------------------------------------------
(* What the endpoint holds of the call                                     *)

\* The frames before the intent, if one stands: what a commit marker covers.
CommittedChunks ==
    IF sidecar.pending # NoIntent THEN SubSeq(journal.chunks, 1, sidecar.pending.size)
    ELSE journal.chunks

\* The call as a log: of its journal, or of its artifact once that took its place.
Logged ==
    LET chunks == IF artifact # <<>> /\ ~journal.exists THEN artifact ELSE CommittedChunks
    IN  [n \in 1..Len(chunks) |-> [drain |-> chunks[n].drain, lost |-> chunks[n].lost]]

CapturePromise == INSTANCE CaptureLog WITH log <- Logged, acknowledged <- accepted

\* The endpoint keeps the promise of CaptureLog under crashes, I/O errors and duplicates:
\* a drain is in the call once, in order, with the numbers before it that are missing and
\* no others declared lost, and what the transport saw accepted is in it (durable.py:428,
\* calls.py:784, live.py:1458).
ImplementsLog == CapturePromise!Spec

TypeOK ==
    /\ sidecar.retry \in Drains \cup {NoDrain} /\ sidecar.pending.drain \in Drains \cup {NoDrain}
    /\ \A n \in 1..Len(journal.chunks) : journal.chunks[n].drain \in Drains
    /\ delivery.drain \in Drains \cup {NoDrain}
    /\ client.retained \in Drains \cup {NoDrain}
    /\ late \subseteq Drains /\ accepted \subseteq Drains

\* The ledger tells what the journal holds: its last sequence, its end, the newest digests.
LedgerTrue ==
    sidecar.exists /\ ~sidecar.sealed =>
        LET chunks == CommittedChunks
        IN  /\ sidecar.applied = IF chunks = <<>> THEN 0 ELSE chunks[Len(chunks)].drain.seq
            /\ sidecar.finalized = Closed(chunks)
            /\ \A n \in 1..Len(chunks) : chunks[n].whole
            /\ Len(sidecar.digests) = Least(RingSize, Len(chunks))
            /\ \A n \in 1..Len(sidecar.digests) :
                   sidecar.digests[n] = chunks[Len(chunks) - Len(sidecar.digests) + n].drain

\* A journal is never without its ledger, and a fence is never of a drain already applied.
Owned == journal.exists => sidecar.exists
FenceAhead == \A d \in {sidecar.retry, sidecar.pending.drain} \ {NoDrain} : d.seq > sidecar.applied

\* A call in memory that a drain may use agrees with the ledger.
CallTrue ==
    InMemory /\ work.stage \in {"idle", "process"} /\ seal = NoSeal /\ sidecar.exists =>
        /\ call.applied = sidecar.applied /\ call.digests = sidecar.digests
        /\ call.finalized = sidecar.finalized
        /\ sidecar.pending = NoIntent /\ call.retry = sidecar.retry

\* Between drains, crashes and recoveries, the ledger, the journal and the call in memory
\* are of one and the same prefix of the call (recover_pending_sidecar, durable.py:428;
\* _drain_serialized, calls.py:1976).
CaptureInv == TypeOK /\ LedgerTrue /\ Owned /\ FenceAhead /\ CallTrue

\* Lists and tails never show a frame whose commit marker may still fail: what the live
\* session shows is what a restart would show (before_publish, live.py:1600).
LiveIsCommitted ==
    live.open =>
        IF artifact # <<>> /\ ~journal.exists THEN live.chunks = artifact
        ELSE live.chunks = CommittedChunks

\* Every sequence the transport reported lost is in the call after all, declared lost in
\* it, or in the range the next payload declares; and what it posts is never a gap to the
\* server (rememberDroppedDrain, prepareResync and clearResync, transport.ts:759-827).
Told(n) ==
    \/ \E k \in 1..Len(Logged) : Logged[k].drain.seq = n \/ n \in Logged[k].lost
    \/ client.resync.from <= n /\ n <= client.resync.through
LossesDeclared ==
    /\ \A n \in gaveUp : Told(n)
    /\ work.stage = "process" /\ request = "held" => Classify(work.drain) # "gap"

\* A request the transport retained is posted again until the server takes it or refuses
\* it: no fence of an interrupted drain holds it for ever (flush, transport.ts:422).
RetrySettles == client.retained # NoDrain ~> client.retained = NoDrain

=============================================================================
