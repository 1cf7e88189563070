--------------------------- MODULE CallProjections ---------------------------
(***************************************************************************)
(* The call projection job (storage_call_projections.py): which calls are  *)
(* stale, the snapshot a pass reads, what it computes outside every lock,  *)
(* and the compare-and-set that writes it, while revisions are finished,   *)
(* analyses move, prices are added, calls are purged and the project is    *)
(* deleted.                                                                *)
(*                                                                         *)
(* A projector is one server process's CallProjector. A server holds its   *)
(* database's lock for its lifetime, but one that lost it exits only when  *)
(* its watchdog notices, and may still be in a pass when the next server   *)
(* runs its own: the lapsing projectors.                                   *)
(*                                                                         *)
(* A projection is a pure function of what its snapshot read, so it is     *)
(* represented by that: the revision, its recording's analysis, what the   *)
(* prices say of its usage, and the version of the computation. Its digest *)
(* is what the sha256 covers: a whole projection, then one price list for  *)
(* each reprice since.                                                     *)
(***************************************************************************)
EXTENDS Integers, Sequences, FiniteSets

CONSTANTS
    Calls,       \* the project's calls: numbers, in key order
    Projectors,
    Lapsing,     \* those whose server lost its lock: they begin one pass at most
    Tariffs,     \* what the price rows may say of a call's usage
    Broken,      \* the calls and revisions whose inputs cannot be projected
    BatchSize,   \* PROJECTION_BATCH_SIZE
    RetryTicks,  \* PROJECTION_RETRY_SECONDS, in ticks
    MaxChanges,  \* bound of the model: changes to the calls
    MaxPrices,   \* bound of the model: price rows added, and releases installed
    MaxFaults    \* bound of the model: crashes, store errors, refused writes

ASSUME ProjectionAssumption ==
    /\ Calls \subseteq Nat \ {0}
    /\ Lapsing \subseteq Projectors
    /\ Broken \subseteq Calls \X Nat
    /\ BatchSize \in Nat \ {0}
    /\ RetryTicks \in Seq(Nat) /\ RetryTicks # <<>>
    /\ MaxChanges \in Nat /\ MaxPrices \in Nat /\ MaxFaults \in Nat

VARIABLES
    lifecycle,  \* projects.lifecycle_state
    present,    \* the calls that exist (their rows in `calls`)
    latest,     \* latest_revision, 0 while NULL
    analysis,   \* state of the call's recording's analysis
    result,     \* which result it stored last, 0 before the first
    seq,        \* projection_seq
    tariff,     \* what the price rows say now
    prices,     \* projects.price_version
    builtin,    \* builtin_price_version
    defaults,   \* the release whose built-in prices are seeded
    version,    \* CALL_PROJECTION_VERSION of the installed release
    rows,       \* call_projections
    job,        \* what each projector is doing
    failed,     \* CallProjector._failed of each
    lapsed,     \* the lapsing projectors that began their last pass
    changes, faults

inputs == <<lifecycle, present, latest, analysis, result, seq>>
priceVars == <<tariff, prices, builtin, defaults, version>>
vars == <<inputs, priceVars, rows, job, failed, lapsed, changes, faults>>

-----------------------------------------------------------------------------

None == [none |-> TRUE]
States == {"pending", "running", "stored", "failed"}
Shows == [rev : Nat, analysis : States, result : Nat, cost : Tariffs, version : Nat]
Digests == [full : Shows, repriced : Seq(Tariffs)]
Rows == [shows : Shows, seq : Nat, prices : Nat, builtin : Nat, version : Nat, digest : Digests]

\* A snapshot, with what `compute` makes of it.
Snapshots == [call : Calls, kind : {"full", "reprice"}, shows : Shows, seq : Nat,
              prices : Nat, builtin : Nat, stored : Digests \cup {None}]
NoSnapshot == None

\* stopped: the process died. idle: between passes. list: about to read stale calls.
\* batch: on a batch. write: with a snapshot, computing and writing.
Idle(seeded) == [pc |-> "idle", seeded |-> seeded, more |-> FALSE, after |-> 0, examined |-> 0,
                 batch |-> {}, aside |-> {}, snap |-> NoSnapshot]
Jobs == [pc : {"idle", "list", "batch", "write"}, seeded : BOOLEAN, more : BOOLEAN,
         after : Nat, examined : Nat, batch : SUBSET [call : Calls, seq : Nat],
         aside : SUBSET Calls, snap : Snapshots \cup {NoSnapshot}]
Failures == [seq : Nat, attempts : 0..Len(RetryTicks), due : Nat]
NoFailure == [seq |-> 0, attempts |-> 0, due |-> 0]

\* Calls whose evidence is still arriving; the analyses of their recordings are under way.
Init ==
    /\ lifecycle = "active"
    /\ present = Calls
    /\ latest = [c \in Calls |-> 0]
    /\ analysis = [c \in Calls |-> "running"]
    /\ result = [c \in Calls |-> 0]
    /\ seq = [c \in Calls |-> 0]
    /\ tariff \in Tariffs
    /\ prices = 0 /\ builtin = 0
    /\ defaults = 1 /\ version = 1
    /\ rows = [c \in Calls |-> None]
    /\ job = [p \in Projectors |-> Idle(FALSE)]
    /\ failed = [p \in Projectors |-> [c \in Calls |-> NoFailure]]
    /\ lapsed = {}
    /\ changes = 0 /\ faults = 0

Change == changes < MaxChanges /\ changes' = changes + 1
Fault == faults < MaxFaults /\ faults' = faults + 1

-----------------------------------------------------------------------------
(* What a projection is computed from                                      *)

Touch(c) == seq' = [seq EXCEPT ![c] = @ + 1]

\* The closer's finish transaction.
FinishRevision(c) ==
    /\ lifecycle = "active"
    /\ c \in present
    /\ Change
    /\ latest' = [latest EXCEPT ![c] = @ + 1]
    /\ Touch(c)
    /\ UNCHANGED <<lifecycle, present, analysis, result, priceVars, rows, job, failed, faults, lapsed>>

MoveAnalysis(c, from, to) ==
    /\ c \in present
    /\ Change
    /\ analysis[c] = from
    /\ analysis' = [analysis EXCEPT ![c] = to]
    /\ UNCHANGED <<lifecycle, present, latest, priceVars, rows, job, failed, faults, lapsed>>

\* AnalysisStore.claim, and a failed attempt that is put off: the call is not touched.
ClaimAnalysis(c) == MoveAnalysis(c, "pending", "running") /\ UNCHANGED <<seq, result>>
PutOffAnalysis(c) == MoveAnalysis(c, "running", "pending") /\ UNCHANGED <<seq, result>>

\* Slip: the call is not touched when its recording's analysis fails for good.
FailAnalysisUntouched(c) == MoveAnalysis(c, "running", "failed") /\ UNCHANGED <<seq, result>>

\* fail, past the last retry; store_result; requeue.
FailAnalysis(c) == MoveAnalysis(c, "running", "failed") /\ Touch(c) /\ UNCHANGED result
StoreAnalysis(c) ==
    /\ MoveAnalysis(c, "running", "stored")
    /\ Touch(c)
    /\ result' = [result EXCEPT ![c] = @ + 1]
RequeueAnalysis(c) ==
    \E from \in {"stored", "failed"} :
        MoveAnalysis(c, from, "pending") /\ Touch(c) /\ UNCHANGED result

PricesAdded == prices + builtin < MaxPrices

\* PriceStore.add, for the project or (scope) as a built-in.
AddPrice(builtIn) ==
    /\ PricesAdded
    /\ IF builtIn THEN builtin' = builtin + 1 /\ UNCHANGED prices
       ELSE lifecycle = "active" /\ prices' = prices + 1 /\ UNCHANGED builtin
    /\ tariff' \in Tariffs
    /\ UNCHANGED <<inputs, defaults, version, rows, job, failed, changes, faults, lapsed>>

\* CallPurger: the call goes, and its projection with it (ON DELETE CASCADE); so does
\* every call once the project is deleting (delete_project_calls, in batches).
PurgeCall(c) ==
    /\ c \in present
    /\ Change
    /\ present' = present \ {c}
    /\ rows' = [rows EXCEPT ![c] = None]
    /\ UNCHANGED <<lifecycle, latest, analysis, result, seq, priceVars, job, failed, faults, lapsed>>

\* begin_project_deletion.
DeleteProject ==
    /\ lifecycle = "active"
    /\ Change
    /\ lifecycle' = "deleting"
    /\ UNCHANGED <<present, latest, analysis, result, seq, priceVars, rows, job, failed, faults, lapsed>>

-----------------------------------------------------------------------------
(* Stale calls                                                             *)

\* Slip: a projection of older prices counts as current.
CurrentWhateverPrices(row, c) ==
    /\ row # None
    /\ row.seq >= seq[c] /\ row.version >= version

\* projection_state, and _STALE_SQL: none of its stamps is behind.
Current(row, c) ==
    /\ row # None
    /\ row.seq >= seq[c] /\ row.version >= version
    /\ row.prices >= prices /\ row.builtin >= builtin

Stale(c) ==
    /\ c \in present
    /\ latest[c] # 0
    /\ lifecycle = "active"
    /\ ~Current(rows[c], c)

\* The first BatchSize of them after the cursor.
StaleAfter(after) ==
    LET late == {c \in Calls : Stale(c) /\ c > after}
    IN  {c \in late : Cardinality({d \in late : d < c}) < BatchSize}

-----------------------------------------------------------------------------
(* The job                                                                 *)

\* A run of the job: the built-in prices are seeded first, once a start, then a pass
\* begins. Which failed calls are still put off is told by the time it begins.
SeedBuiltins(p) ==
    /\ job[p].pc = "idle"
    /\ ~job[p].seeded
    /\ IF defaults < version
       THEN builtin' = builtin + 1 /\ defaults' = version /\ tariff' \in Tariffs
       ELSE UNCHANGED <<builtin, defaults, tariff>>
    /\ job' = [job EXCEPT ![p].seeded = TRUE]
    /\ UNCHANGED <<inputs, prices, version, rows, failed, changes, faults, lapsed>>

\* stale(limit, after): on to the batch of calls found, or out of the pass.
Listed(j, found) ==
    IF found = {} THEN Idle(TRUE)
    ELSE [j EXCEPT !.pc = "batch", !.batch = {[call |-> c, seq |-> seq[c]] : c \in found}]

\* The time is read, then the first batch; no step of another comes between that matters.
BeginPass(p) ==
    /\ job[p].pc = "idle"
    /\ job[p].seeded
    /\ job' = [job EXCEPT ![p] =
                 Listed([Idle(TRUE) EXCEPT !.aside = {c \in Calls : failed[p][c].due > 0}],
                        StaleAfter(0))]
    /\ p \in Lapsing => p \notin lapsed
    /\ lapsed' = lapsed \cup ({p} \cap Lapsing)
    /\ UNCHANGED <<inputs, priceVars, rows, failed, changes, faults>>

ReadStale(p) ==
    /\ job[p].pc = "list"
    /\ job' = [job EXCEPT ![p] = Listed(@, StaleAfter(job[p].after))]
    /\ UNCHANGED <<inputs, priceVars, rows, failed, changes, faults, lapsed>>

\* The batch's next call: lowest key first.
First(p) == {b \in job[p].batch : \A d \in job[p].batch : b.call <= d.call}

\* _set_aside: it failed at this sequence, and its retry is not due.
SetAside(p, b) == b.call \in job[p].aside /\ failed[p][b.call].seq = b.seq

\* Past the call b: on to the next of the batch, to the next batch, or out of the pass
\* once BatchSize calls were examined.
Past(j, b, examined) ==
    IF examined >= BatchSize
    THEN [Idle(TRUE) EXCEPT !.more = TRUE]
    ELSE [j EXCEPT !.pc = IF j.batch = {b} THEN "list" ELSE "batch",
                   !.batch = @ \ {b}, !.after = b.call, !.examined = examined,
                   !.snap = NoSnapshot]

SkipAside(p) ==
    /\ job[p].pc = "batch"
    /\ \E b \in First(p) :
         /\ SetAside(p, b)
         /\ job' = [job EXCEPT ![p] = Past(@, b, @.examined)]
    /\ UNCHANGED <<inputs, priceVars, rows, failed, changes, faults, lapsed>>

\* snapshot: only prices moved since the stored projection.
OnlyPrices(c) == rows[c] # None /\ rows[c].seq = seq[c] /\ rows[c].version = version

\* What compute makes of the snapshot: the stored projection at the new prices, or all of
\* it anew.
Computed(c) ==
    IF OnlyPrices(c) THEN [rows[c].shows EXCEPT !.cost = tariff]
    ELSE [rev |-> latest[c], analysis |-> analysis[c], result |-> result[c],
          cost |-> tariff, version |-> version]

Snapshot(c) ==
    [call |-> c, kind |-> IF OnlyPrices(c) THEN "reprice" ELSE "full", shows |-> Computed(c),
     seq |-> seq[c], prices |-> prices, builtin |-> builtin,
     stored |-> IF rows[c] = None THEN None ELSE rows[c].digest]

\* The call is gone, or has no revision: it was examined, and that is all.
NoRevision(p) ==
    /\ job[p].pc = "batch"
    /\ \E b \in First(p) :
         /\ ~SetAside(p, b)
         /\ b.call \notin present
         /\ job' = [job EXCEPT ![p] = Past(@, b, @.examined + 1)]
    /\ UNCHANGED <<inputs, priceVars, rows, failed, changes, faults, lapsed>>

TakeSnapshot(p) ==
    /\ job[p].pc = "batch"
    /\ \E b \in First(p) :
         /\ ~SetAside(p, b)
         /\ b.call \in present
         /\ <<b.call, latest[b.call]>> \notin Broken \/ OnlyPrices(b.call)
         /\ job' = [job EXCEPT ![p].pc = "write", ![p].snap = Snapshot(b.call)]
    /\ UNCHANGED <<inputs, priceVars, rows, failed, changes, faults, lapsed>>

Min2(a, b) == IF a < b THEN a ELSE b

\* _fail: attempts in a row at this sequence, and when the call is tried again.
Failure(p, b) ==
    LET before == failed[p][b.call]
        attempts == IF before.attempts > 0 /\ before.seq = b.seq
                    THEN Min2(before.attempts + 1, Len(RetryTicks)) ELSE 1
    IN  [seq |-> b.seq, attempts |-> attempts, due |-> RetryTicks[attempts]]

\* Slip: a failure of a call ends the pass.
PastFailureStops(j, b) == Idle(TRUE)
PastFailure(j, b) == Past(j, b, j.examined + 1)

Fails(p, b) ==
    /\ failed' = [failed EXCEPT ![p][b.call] = Failure(p, b)]
    /\ job' = [job EXCEPT ![p] = PastFailure(@, b)]
    /\ UNCHANGED <<inputs, priceVars, rows, changes, lapsed>>

\* Its inputs cannot be read or projected.
InputInvalid(p) ==
    /\ job[p].pc = "batch"
    /\ \E b \in First(p) :
         /\ ~SetAside(p, b)
         /\ b.call \in present
         /\ <<b.call, latest[b.call]>> \in Broken /\ ~OnlyPrices(b.call)
         /\ Fails(p, b)
    /\ UNCHANGED faults

\* The database refuses the write for its values.
WriteRefused(p) ==
    /\ job[p].pc = "write"
    /\ Fault
    /\ \E b \in First(p) : Fails(p, b)

-----------------------------------------------------------------------------
(* The write                                                               *)

Stored(c) == IF rows[c] = None THEN None ELSE rows[c].digest

\* Slips: the write trusts its snapshot; the compare leaves out the lifecycle.
StillThere(s) == lifecycle = "active" /\ s.call \in present
UnchangedDeleting(s) == /\ s.call \in present /\ seq[s.call] = s.seq
                        /\ latest[s.call] = s.shows.rev /\ Stored(s.call) = s.stored

\* The call is as the snapshot read it, and its project is not deleting.
StillAsRead(s) ==
    /\ lifecycle = "active"
    /\ s.call \in present
    /\ seq[s.call] = s.seq
    /\ latest[s.call] = s.shows.rev
    /\ Stored(s.call) = s.stored

FullDigest(shows) == [full |-> shows, repriced |-> <<>>]

Stamped(row, s) == [row EXCEPT !.seq = s.seq, !.prices = s.prices, !.builtin = s.builtin,
                               !.version = version]

\* A reprice updates the stored row's cost columns and stamps; an unchanged digest moves
\* only the stamps; anything else replaces the row.
Written(row, s) ==
    CASE s.kind = "reprice" ->
           [Stamped(row, s) EXCEPT !.shows.cost = s.shows.cost,
                                   !.digest.repriced = Append(s.stored.repriced, s.shows.cost)]
      [] s.kind = "full" /\ row # None /\ row.digest = FullDigest(s.shows) -> Stamped(row, s)
      [] OTHER -> [shows |-> s.shows, seq |-> s.seq, prices |-> s.prices,
                   builtin |-> s.builtin, version |-> version, digest |-> FullDigest(s.shows)]

Settles(p) ==
    /\ failed' = [failed EXCEPT ![p][job[p].snap.call] = NoFailure]
    /\ \E b \in First(p) : job' = [job EXCEPT ![p] = Past(@, b, @.examined + 1)]
    /\ UNCHANGED <<inputs, priceVars, changes, faults, lapsed>>

Write(p) ==
    /\ job[p].pc = "write"
    /\ LET s == job[p].snap IN
         /\ StillAsRead(s)
         /\ rows' = [rows EXCEPT ![s.call] = Written(@, s)]
    /\ Settles(p)

\* The result is discarded; the call stays stale, for a later pass.
Discard(p) ==
    /\ job[p].pc = "write"
    /\ ~StillAsRead(job[p].snap)
    /\ Settles(p)
    /\ UNCHANGED rows

\* The store is busy, unreachable or closed: the pass ends, a later tick resumes it.
StoreError(p) ==
    /\ job[p].pc # "idle"
    /\ Fault
    /\ job' = [job EXCEPT ![p] = Idle(TRUE)]
    /\ UNCHANGED <<inputs, priceVars, rows, failed, changes, lapsed>>

\* The write commits and its answer is lost.
WriteThenError(p) ==
    /\ job[p].pc = "write"
    /\ Fault
    /\ LET s == job[p].snap IN
         /\ StillAsRead(s)
         /\ rows' = [rows EXCEPT ![s.call] = Written(@, s)]
    /\ job' = [job EXCEPT ![p] = Idle(TRUE)]
    /\ UNCHANGED <<inputs, priceVars, failed, changes, lapsed>>

\* The process dies; the next start may be of a newer release.
Restart(p, upgrade) ==
    /\ Fault
    /\ p \notin Lapsing
    /\ upgrade => PricesAdded /\ version < 2 /\ \A q \in Projectors : job[q].pc = "idle"
    /\ version' = IF upgrade THEN version + 1 ELSE version
    /\ job' = IF upgrade THEN [q \in Projectors |-> Idle(FALSE)]
              ELSE [job EXCEPT ![p] = Idle(FALSE)]
    /\ failed' = IF upgrade THEN [q \in Projectors |-> [c \in Calls |-> NoFailure]]
                 ELSE [failed EXCEPT ![p] = [c \in Calls |-> NoFailure]]
    /\ UNCHANGED <<inputs, tariff, prices, builtin, defaults, rows, changes, lapsed>>

\* A minute passes, the shortest retry delay: not while a pass runs, nor while one that
\* asked to run again at once waits.
Tick ==
    /\ \A p \in Projectors : job[p].pc = "idle" /\ (job[p].more => p \in lapsed)
    /\ \E p \in Projectors, c \in Calls : failed[p][c].due > 0
    /\ failed' = [p \in Projectors |-> [c \in Calls |->
                    IF failed[p][c].due > 0 THEN [failed[p][c] EXCEPT !.due = @ - 1]
                    ELSE failed[p][c]]]
    /\ UNCHANGED <<inputs, priceVars, rows, job, changes, faults, lapsed>>

-----------------------------------------------------------------------------

CallChanges(c) ==
    \/ FinishRevision(c)
    \/ ClaimAnalysis(c)
    \/ PutOffAnalysis(c)
    \/ FailAnalysis(c)
    \/ StoreAnalysis(c)
    \/ RequeueAnalysis(c)
    \/ PurgeCall(c)

JobStep(p) ==
    \/ SeedBuiltins(p)
    \/ BeginPass(p)
    \/ ReadStale(p)
    \/ SkipAside(p)
    \/ NoRevision(p)
    \/ TakeSnapshot(p)
    \/ InputInvalid(p)
    \/ Write(p)
    \/ Discard(p)

JobFaults(p) ==
    \/ WriteRefused(p)
    \/ StoreError(p)
    \/ WriteThenError(p)
    \/ \E upgrade \in BOOLEAN : Restart(p, upgrade)

Next ==
    \/ \E c \in Calls : CallChanges(c)
    \/ \E builtIn \in BOOLEAN : AddPrice(builtIn)
    \/ DeleteProject
    \/ \E p \in Projectors : JobStep(p) \/ JobFaults(p)
    \/ Tick

Spec == Init /\ [][Next]_vars

-----------------------------------------------------------------------------
(* Safety                                                                  *)

TypeOK ==
    /\ lifecycle \in {"active", "deleting"}
    /\ present \subseteq Calls
    /\ latest \in [Calls -> Nat] /\ result \in [Calls -> Nat] /\ seq \in [Calls -> Nat]
    /\ analysis \in [Calls -> States]
    /\ tariff \in Tariffs
    /\ prices \in Nat /\ builtin \in Nat /\ defaults \in Nat /\ version \in Nat
    /\ rows \in [Calls -> Rows \cup {None}]
    /\ job \in [Projectors -> Jobs]
    /\ \A p \in Projectors : job[p].pc = "write" => job[p].snap \in Snapshots
    /\ failed \in [Projectors -> [Calls -> Failures]]
    /\ lapsed \subseteq Lapsing
    /\ changes \in 0..MaxChanges /\ faults \in 0..MaxFaults

\* An analysis still under way is "pending" to the call's summary, whichever of the two it is.
Settled(state) == IF state \in {"pending", "running"} THEN "pending" ELSE state

\* shows is what the call c's revision and its analysis say now.
ShowsCall(shows, c) ==
    /\ shows.rev = latest[c]
    /\ Settled(shows.analysis) = Settled(analysis[c])
    /\ shows.analysis = "stored" => shows.result = result[c]

\* "current: none of those": a projection readers are told is current says what the call's
\* latest revision, its analysis and the prices say, whatever passes overlapped.
CurrentIsTrue ==
    \A c \in present :
        Current(rows[c], c) => ShowsCall(rows[c].shows, c) /\ rows[c].shows.cost = tariff

\* "A counter, not a flag, so a change landing mid-computation is never lost": a projection
\* is never replaced by one of an older revision, or of an earlier state of the call.
NeverOlder ==
    [][\A c \in Calls : rows[c] # None /\ rows'[c] # None =>
            rows'[c].seq >= rows[c].seq /\ rows'[c].shows.rev >= rows[c].shows.rev]_vars

\* "A project deleting since the snapshot gets no projection."
NoneOnceDeleting ==
    [][lifecycle # "active" => \A c \in Calls : rows'[c] \in {rows[c], None}]_vars

-----------------------------------------------------------------------------
(* Why they hold: the inductive invariant                                  *)

\* What a digest is the hash of.
ShowsOf(digest) ==
    IF digest.repriced = <<>> THEN digest.full
    ELSE [digest.full EXCEPT !.cost = digest.repriced[Len(digest.repriced)]]

\* A stored projection is what its digest says, of no later state than the call's and the
\* prices', and true of what its stamps name.
RowTrue(c) ==
    LET row == rows[c]
    IN  /\ row.shows = ShowsOf(row.digest)
        /\ row.seq <= seq[c] /\ row.shows.rev <= latest[c]
        /\ row.prices <= prices /\ row.builtin <= builtin /\ row.version <= version
        /\ row.seq = seq[c] => ShowsCall(row.shows, c)
        /\ row.prices = prices /\ row.builtin = builtin => row.shows.cost = tariff

\* So is what a projector is about to write.
SnapshotTrue(s) ==
    /\ s.seq <= seq[s.call]
    /\ s.seq = seq[s.call] => ShowsCall(s.shows, s.call)
    /\ s.prices <= prices /\ s.builtin <= builtin
    /\ s.prices = prices /\ s.builtin = builtin => s.shows.cost = tariff
    /\ s.kind = "reprice" =>
         s.stored # None /\ s.shows = [ShowsOf(s.stored) EXCEPT !.cost = s.shows.cost]

ProjectionInv ==
    /\ TypeOK
    /\ \A c \in Calls : rows[c] # None => RowTrue(c)
    /\ \A p \in Projectors : job[p].pc = "write" => SnapshotTrue(job[p].snap)

-----------------------------------------------------------------------------
(* Liveness                                                                *)

\* The maintenance loop runs the job again and again, a second apart when it has nothing
\* more to do, and minutes pass between its runs.
Fairness == SF_vars(Tick) /\ \A p \in Projectors : WF_vars(JobStep(p))

FairSpec == Spec /\ Fairness

\* A stale call is projected in the end, whatever other calls fail, unless it cannot be, is
\* purged, or its project is deleted.
StaleIsProjected ==
    \A c \in Calls :
        Stale(c) ~> (~Stale(c) \/ <<c, latest[c]>> \in Broken)

=============================================================================
