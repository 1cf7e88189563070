----------------------------- MODULE TraceBinding -----------------------------
(***************************************************************************)
(* Which call a span belongs to, over all the traces and session keys of   *)
(* one project: traces bound to calls, parked, promoted or discarded       *)
(* (storage_calls.py), the purge of a call with its key's generation and   *)
(* its tombstones (storage_call_purge.py), and the deletion of the whole   *)
(* project in batches (storage.py). CallStore has what one call then makes *)
(* of its evidence.                                                        *)
(*                                                                         *)
(* Every operation is one write transaction under the store's write lock,  *)
(* so one action, but for the collection of expired tombstones, which      *)
(* reads them before it takes the lock. Times are ticks left, or elapsed.  *)
(***************************************************************************)
EXTENDS Integers, FiniteSets

CONSTANTS
    Keys,          \* session keys
    NoKey,         \* what a span that names none is sent with
    Traces,
    NoCall,        \* call_traces.call_id IS NULL
    Spans,         \* the spans clients may send
    TraceOf,       \* the trace of each
    SessionSpans,  \* those that are a framework's session span (is_session_span)
    LongQuiet,     \* LONG_QUIET, in ticks
    TombstoneGrace,  \* TOMBSTONE_GRACE_NANO
    ParkedBatch,   \* PARKED_TRACE_BATCH_SIZE
    DeleteBatchSize,  \* batch_size of delete_project_data
    MaxPurges      \* bound of the model: how many calls are ever purged

\* What a call is keyed by: a session key, or the trace it was promoted from. A call's id
\* is that and the key's generation (call_id, trace_call_id).
Owners == Keys \cup Traces
CallIds == Owners \X Nat

ASSUME BindingAssumption ==
    /\ Keys \cap Traces = {}
    /\ NoKey \notin Keys
    /\ NoCall \notin CallIds
    /\ IsFiniteSet(Spans)
    /\ TraceOf \in [Spans -> Traces]
    /\ SessionSpans \subseteq Spans
    /\ LongQuiet \in Nat \ {0}
    /\ TombstoneGrace \in Nat
    /\ MaxPurges \in Nat

VARIABLES
    project,     \* projects.lifecycle_state
    traces,      \* those with a row in call_traces
    bound,       \* call_traces.call_id
    session,     \* those whose has_session_span is set
    quiet,       \* ticks since a parked trace's last_span_received, at most LongQuiet
    older,       \* pairs of parked traces whose last_span_received differ, the earlier first
    spans,       \* the stored spans
    calls,       \* span_count of each row of calls, by call id
    generation,  \* call_key_generations, 0 without a row
    tombstones,  \* ticks until each row of call_tombstones expires, 0 once it has
    expired,     \* the expired rows the collection in progress has read
    purged,      \* history: the calls a call purge deleted
    covered      \* history: ticks for which a key's last purge still holds

traceVars == <<traces, bound, session, quiet, older>>
keyVars == <<generation, tombstones>>
purgeVars == <<purged, covered>>
vars == <<project, traceVars, spans, calls, keyVars, expired, purgeVars>>

-----------------------------------------------------------------------------

TombstoneTime == LongQuiet + TombstoneGrace

Parked == {t \in traces : bound[t] = NoCall}

\* _tombstoned: some generation of the key has a tombstone that has not expired.
Tombstoned(o) == \E x \in DOMAIN tombstones : x[1] = o /\ tombstones[x] > 0

SpansOf(S) == {s \in spans : TraceOf[s] \in S}

\* The id a key's next call gets, and its current one has.
CallOf(o) == <<o, generation[o]>>

\* The limit rows of S a batch takes when their order is not told apart.
Batches(S, limit) ==
    {B \in SUBSET S : Cardinality(B) = IF Cardinality(S) < limit THEN Cardinality(S) ELSE limit}

Init ==
    /\ project = "active"
    /\ traces = {}
    /\ bound = [t \in Traces |-> NoCall]
    /\ session = {}
    /\ quiet = [t \in Traces |-> 0]
    /\ older = {}
    /\ spans = {}
    /\ calls = [c \in {} |-> 0]
    /\ generation = [o \in Owners |-> 0]
    /\ tombstones = [x \in {} |-> 0]
    /\ expired = {}
    /\ purged = {}
    /\ covered = [o \in Owners |-> 0]

-----------------------------------------------------------------------------
(* Spans                                                                   *)

\* What one request may carry: some spans, each with the session key it names. A span sent
\* twice may name another key (its payload then conflicts, and the stored one is kept).
Requests == UNION {[S -> Keys \cup {NoKey}] : S \in SUBSET Spans \ {{}}}

TracesIn(request) == {TraceOf[s] : s \in DOMAIN request}

\* The keys a trace's spans name in the request; the first of them counts.
Named(request, t) == {request[s] : s \in {q \in DOMAIN request : TraceOf[q] = t}} \ {NoKey}

FirstKeys(request) ==
    {first \in [TracesIn(request) -> Keys \cup {NoKey}] :
        \A t \in TracesIn(request) :
            IF Named(request, t) = {} THEN first[t] = NoKey ELSE first[t] \in Named(request, t)}

\* _resolve_targets: a new trace of a purged call, or an unbound one whose first key is
\* purged, is dropped, ...
Dropped(t, key) ==
    /\ bound[t] = NoCall
    /\ (t \notin traces /\ Tombstoned(t)) \/ (key # NoKey /\ Tombstoned(key))

\* Slip: a later span that names another key takes its trace along.
TargetRenamed(t, key) == IF key # NoKey THEN CallOf(key) ELSE bound[t]

\* ... a bound trace stays with its call, whatever its spans name, and any other one goes
\* to the call its first key names now, or is parked.
Target(t, key) ==
    IF bound[t] # NoCall THEN bound[t] ELSE IF key = NoKey THEN NoCall ELSE CallOf(key)

\* Those in received got a span now; parked are the traces parked after the step, the only
\* ones whose age matters.
KeepOrder(received, parked) ==
    /\ quiet' = [t \in Traces |->
                   IF t \in received \/ t \notin parked THEN 0 ELSE quiet[t]]
    /\ older' = {p \in older : p[1] \in parked \ received /\ p[2] \in parked \ received}
                  \cup ((parked \ received) \X (received \cap parked))

\* record_spans, with first the first key of each trace. The parked spans of a trace that
\* is named join its call; the trace of a purged key goes with its parked spans.
RecordSpans(request, first) ==
    LET dropped == {t \in TracesIn(request) : Dropped(t, first[t])}
        kept == TracesIn(request) \ dropped
        to == [t \in kept |-> Target(t, first[t])]
        new == {s \in DOMAIN request \ spans : TraceOf[s] \in kept}
        joining == {t \in kept \cap Parked : to[t] # NoCall}
        credited(c) == {s \in new \cup SpansOf(joining) : to[TraceOf[s]] = c}
        gone == dropped \cap traces
    IN  /\ project = "active"
        /\ traces' = (traces \ gone) \cup kept
        /\ bound' = [t \in Traces |-> IF t \in kept THEN to[t] ELSE bound[t]]
        /\ spans' = (spans \ SpansOf(gone)) \cup new
        /\ session' = (session \ gone) \cup {TraceOf[s] : s \in new \cap SessionSpans}
        /\ calls' = [c \in DOMAIN calls \cup {to[t] : t \in {k \in kept : to[k] # NoCall}} |->
                       Cardinality(credited(c)) + IF c \in DOMAIN calls THEN calls[c] ELSE 0]
        /\ KeepOrder({TraceOf[s] : s \in new}, {t \in traces' : bound'[t] = NoCall})
        /\ UNCHANGED <<project, keyVars, expired, purgeVars>>

\* recording_call: the call a recording names is created if there is none, unless a live
\* tombstone covers the key.
RecordingCall(k) ==
    /\ project = "active"
    /\ ~Tombstoned(k)
    /\ CallOf(k) \notin DOMAIN calls
    /\ calls' = [c \in DOMAIN calls \cup {CallOf(k)} |-> IF c \in DOMAIN calls THEN calls[c] ELSE 0]
    /\ UNCHANGED <<project, traceVars, spans, keyVars, expired, purgeVars>>

-----------------------------------------------------------------------------
(* Parked traces                                                           *)

Due == {t \in Parked : quiet[t] = LongQuiet}

\* Slip: whichever traces are due, in no order.
DueInAnyOrder == Batches(Due, ParkedBatch)

\* _due_parked_traces: the oldest deadlines first.
DueBatches ==
    {B \in Batches(Due, ParkedBatch) : \A t \in Due \ B, b \in B : <<t, b>> \notin older}

\* Rows of traces, with their spans (_delete_trace, _delete_traces).
DeleteTraces(gone) ==
    /\ traces' = traces \ gone
    /\ spans' = spans \ SpansOf(gone)
    /\ session' = session \ gone

\* collect_parked_traces: a due trace with a session span becomes a call of its own, unless
\* its own key is purged; any other one is deleted. The INSERT of a call whose id is taken
\* would fail the whole batch, and the project is not asked whether it is being deleted.
CollectParked ==
    \E batch \in DueBatches :
        LET promoted == {t \in batch : t \in session /\ ~Tombstoned(t)}
            gone == batch \ promoted
        IN  /\ batch # {}
            /\ \A t \in promoted : CallOf(t) \notin DOMAIN calls
            /\ DeleteTraces(gone)
            /\ bound' = [t \in Traces |-> IF t \in promoted THEN CallOf(t) ELSE bound[t]]
            /\ calls' = [c \in DOMAIN calls \cup {CallOf(t) : t \in promoted} |->
                           IF c \in DOMAIN calls THEN calls[c]
                           ELSE Cardinality(SpansOf({c[1]}))]
            /\ KeepOrder({}, Parked \ batch)
            /\ UNCHANGED <<project, keyVars, expired, purgeVars>>

-----------------------------------------------------------------------------
(* Purge                                                                   *)

WithoutCalls(C) == [c \in DOMAIN calls \ C |-> calls[c]]
TracesOf(C) == {t \in Traces : bound[t] \in C}

\* _purge_locked: everything of the call goes, its key moves to the next generation, and
\* the key and each of the call's traces are tombstoned, the traces under generation 0.
PurgeCall(c) ==
    LET gone == TracesOf({c})
        buried == {c} \cup {<<t, 0>> : t \in gone}
    IN  /\ c \in DOMAIN calls
        /\ Cardinality(purged) < MaxPurges
        /\ DeleteTraces(gone)
        /\ bound' = [t \in Traces |-> IF t \in gone THEN NoCall ELSE bound[t]]
        /\ calls' = WithoutCalls({c})
        /\ generation' = [generation EXCEPT ![c[1]] = IF @ = 0 THEN c[2] + 1 ELSE @ + 1]
        /\ tombstones' = [x \in DOMAIN tombstones \cup buried |->
                            IF x \in buried THEN TombstoneTime ELSE tombstones[x]]
        /\ purged' = purged \cup {c}
        /\ covered' = [o \in Owners |->
                         IF o = c[1] \/ o \in gone THEN TombstoneTime ELSE covered[o]]
        /\ UNCHANGED <<project, quiet, older, expired>>

\* collect_expired_tombstones: read which have expired, ...
ReadExpired ==
    /\ expired = {}
    /\ expired' = {x \in DOMAIN tombstones : tombstones[x] = 0}
    /\ expired' # {}
    /\ UNCHANGED <<project, traceVars, spans, calls, keyVars, purgeVars>>

\* Slip: what was read as expired is deleted.
DeleteAsRead ==
    /\ expired # {}
    /\ tombstones' = [x \in DOMAIN tombstones \ expired |-> tombstones[x]]
    /\ expired' = {}
    /\ UNCHANGED <<project, traceVars, spans, calls, generation, purgeVars>>

\* ... then take the lock and delete those that still are: "a purge since the read may
\* have renewed one".
DeleteExpired ==
    /\ expired # {}
    /\ tombstones' = [x \in {y \in DOMAIN tombstones : y \notin expired \/ tombstones[y] > 0}
                        |-> tombstones[x]]
    /\ expired' = {}
    /\ UNCHANGED <<project, traceVars, spans, calls, generation, purgeVars>>

-----------------------------------------------------------------------------
(* Project deletion                                                        *)

\* begin_project_deletion: the durable fence.
BeginDeletion ==
    /\ project = "active"
    /\ project' = "deleting"
    /\ UNCHANGED <<traceVars, spans, calls, keyVars, expired, purgeVars>>

\* Slip: the generations are not among the tables.
DeleteTombstoneRows ==
    /\ UNCHANGED generation
    /\ \E T \in Batches(DOMAIN tombstones, DeleteBatchSize) :
          tombstones' = [x \in DOMAIN tombstones \ T |-> tombstones[x]]

\* _PROJECT_CALL_KEY_TABLES, "what only calls referred to, once no call is left": a batch of
\* one table, and of the next once that is empty.
DeleteKeyRows ==
    \E G \in Batches({o \in Owners : generation[o] # 0}, DeleteBatchSize) :
        /\ generation' = [o \in Owners |-> IF o \in G THEN 0 ELSE generation[o]]
        /\ IF \E o \in Owners : generation'[o] # 0
           THEN UNCHANGED tombstones
           ELSE \E T \in Batches(DOMAIN tombstones, DeleteBatchSize) :
                    tombstones' = [x \in DOMAIN tombstones \ T |-> tombstones[x]]

\* One batch of delete_project_data, once the project's incidents are gone: calls with all
\* their evidence, then parked traces (delete_project_calls), and with none left their keys.
DeleteBatch ==
    /\ project = "deleting"
    /\ \E C \in Batches(DOMAIN calls, DeleteBatchSize), P \in Batches(Parked, DeleteBatchSize) :
          LET gone == TracesOf(C) \cup P
          IN  /\ DeleteTraces(gone)
              /\ bound' = [t \in Traces |-> IF t \in gone THEN NoCall ELSE bound[t]]
              /\ calls' = WithoutCalls(C)
              /\ KeepOrder({}, Parked \ P)
              /\ IF C = DOMAIN calls /\ traces \subseteq gone
                 THEN DeleteKeyRows
                 ELSE UNCHANGED keyVars
    /\ UNCHANGED <<project, expired, purgeVars>>

NothingLeft ==
    /\ traces = {} /\ spans = {} /\ DOMAIN calls = {}
    /\ DOMAIN tombstones = {}
    /\ \A o \in Owners : generation[o] = 0

\* mark_project_deleted, which looks again at every table the project owns.
MarkDeleted ==
    /\ project = "deleting"
    /\ NothingLeft
    /\ project' = "deleted"
    /\ UNCHANGED <<traceVars, spans, calls, keyVars, expired, purgeVars>>

-----------------------------------------------------------------------------

Less(n) == IF n = 0 THEN 0 ELSE n - 1

Tick ==
    /\ quiet' = [t \in Traces |-> IF t \in Parked /\ quiet[t] < LongQuiet
                                  THEN quiet[t] + 1 ELSE quiet[t]]
    /\ tombstones' = [x \in DOMAIN tombstones |-> Less(tombstones[x])]
    /\ covered' = [o \in Owners |-> Less(covered[o])]
    /\ UNCHANGED <<project, traces, bound, session, older, spans, calls, generation, expired,
                   purged>>

Next ==
    \/ \E request \in Requests : \E first \in FirstKeys(request) : RecordSpans(request, first)
    \/ \E k \in Keys : RecordingCall(k)
    \/ CollectParked
    \/ \E c \in DOMAIN calls : PurgeCall(c)
    \/ ReadExpired \/ DeleteExpired
    \/ BeginDeletion \/ DeleteBatch \/ MarkDeleted
    \/ Tick

Spec == Init /\ [][Next]_vars

-----------------------------------------------------------------------------
(* Properties                                                              *)

TypeOK ==
    /\ project \in {"active", "deleting", "deleted"}
    /\ traces \subseteq Traces
    /\ bound \in [Traces -> CallIds \cup {NoCall}]
    /\ session \subseteq Traces
    /\ quiet \in [Traces -> 0..LongQuiet]
    /\ older \subseteq Traces \X Traces
    /\ spans \subseteq Spans
    /\ DOMAIN calls \subseteq CallIds /\ calls \in [DOMAIN calls -> Nat]
    /\ generation \in [Owners -> Nat]
    /\ DOMAIN tombstones \subseteq CallIds /\ tombstones \in [DOMAIN tombstones -> 0..TombstoneTime]
    /\ expired \subseteq CallIds
    /\ purged \subseteq CallIds
    /\ covered \in [Owners -> 0..TombstoneTime]

\* A trace is bound to a call that exists, and a call a trace was promoted to has that trace
\* and no other: so a parked trace's call can always be inserted.
BindingTrue ==
    /\ \A t \in Traces : bound[t] # NoCall =>
         /\ t \in traces /\ bound[t] \in DOMAIN calls
         /\ bound[t][1] \in Traces => bound[t][1] = t
    /\ \A c \in DOMAIN calls : c[1] \in Traces => bound[c[1]] = c

\* No span is stored without its trace's row, no row without a span, and the flag a quiet
\* trace is promoted by is that of its spans.
SpansTrue ==
    /\ traces = {TraceOf[s] : s \in spans}
    /\ session = {TraceOf[s] : s \in spans \cap SessionSpans}

\* span_count is the number of the call's stored spans: parked spans that join are counted,
\* spans sent again are not.
CountsTrue ==
    \A c \in DOMAIN calls : calls[c] = Cardinality({s \in spans : bound[TraceOf[s]] = c})

\* A key has one call, of its current generation; neither that call nor a stored trace has
\* a live tombstone (so collect_parked_traces never meets one).
KeysTrue ==
    /\ \A c \in DOMAIN calls : c = CallOf(c[1]) /\ ~Tombstoned(c[1])
    /\ \A t \in traces : ~Tombstoned(t)

\* A project that is being deleted and has no call and no trace left will have none again.
Over == project # "active" /\ traces = {} /\ DOMAIN calls = {}

\* What a purge leaves behind, until a project's deletion has no more use for it.
TombstonesTrue ==
    /\ \A c \in purged : c[2] < generation[c[1]] \/ Over
    /\ \A o \in Owners : covered[o] > 0 =>
         Over \/ \E x \in DOMAIN tombstones : x[1] = o /\ tombstones[x] >= covered[o]
    /\ project = "deleted" => NothingLeft

\* The structure all of it keeps, whatever is sent, collected, purged and deleted in
\* between: each part above, with the types.
BindingInv == TypeOK /\ BindingTrue /\ SpansTrue /\ CountsTrue /\ KeysTrue /\ TombstonesTrue

\* "A purged call is never rebuilt" (storage_calls.py:14), and for as long as its purge says
\* nothing of its key, or of its traces, is stored again: not by late spans, a recording, a
\* promotion, a collection of tombstones that read an older one, or a deletion under way.
PurgeHolds ==
    /\ purged \cap DOMAIN calls = {}
    /\ \A o \in Owners : covered[o] > 0 => o \notin traces /\ \A c \in DOMAIN calls : c[1] # o

-----------------------------------------------------------------------------
(* Liveness                                                                *)

\* The maintenance loop runs the parked-trace job for ever; and the client of a deletion
\* repeats its request, as the 202 answer asks.
Fairness == WF_vars(Tick) /\ WF_vars(CollectParked) /\ WF_vars(DeleteBatch) /\ WF_vars(MarkDeleted)

FairSpec == Spec /\ Fairness

\* A parked trace is resolved in the end, whatever is sent again for ever and however few a
\* batch takes: it joins a call, becomes one, or is deleted.
ParkedSettles == \A t \in Traces : t \in Parked ~> t \notin Parked

\* A deletion under way ends, though traces are promoted and calls purged meanwhile.
DeletionEnds == project = "deleting" ~> project = "deleted"

=============================================================================
