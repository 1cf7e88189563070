------------------------ MODULE CallProjectionsProofs ------------------------
(***************************************************************************)
(* Proofs about CallProjections: ProjectionInv is inductive, and what      *)
(* readers and writers rely on follows from it.                            *)
(***************************************************************************)
EXTENDS CallProjections, TLAPS

RowsTrue == \A c \in Calls : rows[c] # None => RowTrue(c)
SnapshotsTrue == \A p \in Projectors : job[p].pc = "write" => SnapshotTrue(job[p].snap)

-----------------------------------------------------------------------------
(* Types of the operators the actions are built from                       *)

\* No stored digest, and no row, is taken for the absence of one.
LEMMA NoneIsNothing == None \notin Digests /\ None \notin Rows
<1>1. DOMAIN None = {"none"}
  BY DEF None
<1>2. \A d \in Digests : DOMAIN d = {"full", "repriced"}
  BY DEF Digests
<1>3. \A r \in Rows : DOMAIN r = {"shows", "seq", "prices", "builtin", "version", "digest"}
  BY DEF Rows
<1>4. "full" \notin {"none"} /\ "shows" \notin {"none"}
  OBVIOUS
<1>5. QED
  BY <1>1, <1>2, <1>3, <1>4

\* A projector between passes is a well-formed job, without a snapshot.
LEMMA IdleType ==
    ASSUME NEW b \in BOOLEAN
    PROVE  /\ Idle(b) \in Jobs /\ Idle(b).pc # "write"
           /\ \A m \in BOOLEAN : [Idle(b) EXCEPT !.more = m] \in Jobs
           /\ \A m \in BOOLEAN : [Idle(b) EXCEPT !.more = m].pc # "write"
           /\ \A a \in SUBSET Calls : [Idle(b) EXCEPT !.aside = a] \in Jobs
           /\ \A a \in SUBSET Calls : [Idle(b) EXCEPT !.aside = a].pc # "write"
BY DEF Idle, Jobs, NoSnapshot

\* Leaving a call of the batch leaves a well-formed job, without a snapshot.
LEMMA PastType ==
    ASSUME NEW j \in Jobs, NEW b \in [call : Calls, seq : Nat], NEW n \in Nat, j.pc \in {"batch", "write"}
    PROVE  Past(j, b, n) \in Jobs /\ Past(j, b, n).pc # "write"
<1>1. CASE n >= BatchSize
  BY <1>1, IdleType DEF Past
<1>2. CASE ~(n >= BatchSize)
  <2>1. Past(j, b, n) = [j EXCEPT !.pc = IF j.batch = {b} THEN "list" ELSE "batch",
                                  !.batch = @ \ {b}, !.after = b.call, !.examined = n,
                                  !.snap = NoSnapshot]
    BY <1>2 DEF Past
  <2>2. b.call \in Nat
    BY ProjectionAssumption
  <2>3. j.batch \ {b} \in SUBSET [call : Calls, seq : Nat]
    BY DEF Jobs
  <2>4. Past(j, b, n).pc \in {"list", "batch"} /\ Past(j, b, n) \in Jobs
    <3> DEFINE pc2 == IF j.batch = {b} THEN "list" ELSE "batch"
    <3> DEFINE rest == j.batch \ {b}
    <3>1. Past(j, b, n) = [j EXCEPT !.pc = pc2, !.batch = rest, !.after = b.call,
                                    !.examined = n, !.snap = NoSnapshot]
      BY <2>1
    <3>2. pc2 \in {"list", "batch"} /\ rest \in SUBSET [call : Calls, seq : Nat]
      BY <2>3
    <3> HIDE DEF pc2, rest
    <3>3. QED
      BY <3>1, <3>2, <2>2 DEF Jobs
  <2>5. QED
    BY <2>4
<1>3. QED
  BY <1>1, <1>2

\* So does reading the next batch.
LEMMA ListedType ==
    ASSUME NEW j \in Jobs, NEW found \in SUBSET Calls, seq \in [Calls -> Nat]
    PROVE  Listed(j, found) \in Jobs /\ Listed(j, found).pc # "write"
<1>1. CASE found = {}
  BY <1>1, IdleType DEF Listed
<1>2. CASE found # {}
  <2>1. Listed(j, found) = [j EXCEPT !.pc = "batch", !.batch = {[call |-> c, seq |-> seq[c]] : c \in found}]
    BY <1>2 DEF Listed
  <2>2. {[call |-> c, seq |-> seq[c]] : c \in found} \in SUBSET [call : Calls, seq : Nat]
    OBVIOUS
  <2>3. QED
    BY <2>1, <2>2 DEF Jobs
<1>3. QED
  BY <1>1, <1>2

\* What the digest says, at given prices, is a projection.
LEMMA ShowsOfType ==
    ASSUME NEW d \in Digests
    PROVE  ShowsOf(d) \in Shows
<1>1. CASE d.repriced = <<>>
  BY <1>1 DEF ShowsOf, Digests
<1>2. CASE d.repriced # <<>>
  <2>1. d.repriced[Len(d.repriced)] \in Tariffs
    BY <1>2 DEF Digests
  <2>2. QED
    BY <1>2, <2>1 DEF ShowsOf, Digests, Shows
<1>3. QED
  BY <1>1, <1>2

\* A whole projection's digest says that projection.
LEMMA ShowsOfFull ==
    ASSUME NEW shows \in Shows
    PROVE  FullDigest(shows) \in Digests /\ ShowsOf(FullDigest(shows)) = shows
BY DEF FullDigest, ShowsOf, Digests

\* A repriced digest says the same at the new prices.
LEMMA ShowsOfRepriced ==
    ASSUME NEW d \in Digests, NEW cost \in Tariffs
    PROVE  /\ [d EXCEPT !.repriced = Append(d.repriced, cost)] \in Digests
           /\ ShowsOf([d EXCEPT !.repriced = Append(d.repriced, cost)])
                = [ShowsOf(d) EXCEPT !.cost = cost]
<1> DEFINE q == Append(d.repriced, cost)
<1> DEFINE e == [d EXCEPT !.repriced = q]
<1>1. d.full \in Shows /\ d.repriced \in Seq(Tariffs)
  BY DEF Digests
<1>2. q \in Seq(Tariffs) /\ q # <<>> /\ q[Len(q)] = cost
  BY <1>1
<1>3. e.full = d.full /\ e.repriced = q /\ e \in Digests
  BY <1>1, <1>2 DEF Digests
<1>4. ShowsOf(e) = [d.full EXCEPT !.cost = cost]
  BY <1>2, <1>3 DEF ShowsOf
<1>5. [ShowsOf(d) EXCEPT !.cost = cost] = [d.full EXCEPT !.cost = cost]
  BY <1>1 DEF ShowsOf, Shows
<1>6. QED
  BY <1>3, <1>4, <1>5

-----------------------------------------------------------------------------
(* Steps that write no projection                                          *)

\* Counters only grow; what a call's sequence does not tell of, its revision and its
\* analysis do not do; nor do the prices without their versions.
Forward ==
    /\ \A c \in Calls :
         /\ seq[c] <= seq'[c] /\ latest[c] <= latest'[c]
         /\ seq'[c] = seq[c] => /\ latest'[c] = latest[c] /\ result'[c] = result[c]
                                /\ Settled(analysis'[c]) = Settled(analysis[c])
    /\ prices <= prices' /\ builtin <= builtin' /\ version <= version'
    /\ prices' = prices /\ builtin' = builtin => tariff' = tariff

\* What shows a call still shows it if its sequence did not move.
LEMMA ShowsCallStays ==
    ASSUME Forward, NEW c \in Calls, seq'[c] = seq[c]
    PROVE  \A shows \in Shows : ShowsCall(shows, c) => ShowsCall(shows, c)'
BY DEF Forward, ShowsCall

\* A stored projection that stays is still true of what its stamps name.
LEMMA RowStays ==
    ASSUME TypeOK, TypeOK', Forward, NEW c \in Calls, rows[c] # None => RowTrue(c),
           rows'[c] \in {rows[c], None}
    PROVE  rows'[c] # None => RowTrue(c)'
<1> SUFFICES ASSUME rows'[c] # None
             PROVE  RowTrue(c)'
  OBVIOUS
<1> DEFINE row == rows[c]
<1>1. rows'[c] = row /\ row \in Rows /\ RowTrue(c)
  BY DEF TypeOK
<1>2. /\ row.shows \in Shows /\ row.seq \in Nat /\ row.shows.rev \in Nat
      /\ row.prices \in Nat /\ row.builtin \in Nat /\ row.version \in Nat
  BY <1>1 DEF Rows, Shows
<1>3. /\ seq[c] \in Nat /\ seq'[c] \in Nat /\ latest[c] \in Nat /\ latest'[c] \in Nat
      /\ prices \in Nat /\ prices' \in Nat /\ builtin \in Nat /\ builtin' \in Nat
      /\ version \in Nat /\ version' \in Nat
  BY DEF TypeOK
<1>4. /\ row.seq <= seq[c] /\ row.shows.rev <= latest[c]
      /\ row.prices <= prices /\ row.builtin <= builtin /\ row.version <= version
      /\ row.shows = ShowsOf(row.digest)
      /\ row.seq = seq[c] => ShowsCall(row.shows, c)
      /\ row.prices = prices /\ row.builtin = builtin => row.shows.cost = tariff
  BY <1>1 DEF RowTrue
<1>5. /\ seq[c] <= seq'[c] /\ latest[c] <= latest'[c]
      /\ prices <= prices' /\ builtin <= builtin' /\ version <= version'
      /\ prices' = prices /\ builtin' = builtin => tariff' = tariff
  BY DEF Forward
<1> HIDE DEF row
<1>6. row.seq = seq'[c] => ShowsCall(row.shows, c)'
  <2> SUFFICES ASSUME row.seq = seq'[c]
               PROVE  ShowsCall(row.shows, c)'
    BY <1>1 DEF row
  <2>1. seq'[c] = seq[c]
    BY <1>2, <1>3, <1>4, <1>5
  <2>2. ShowsCall(row.shows, c)
    BY <1>4, <2>1
  <2>3. QED
    BY <2>1, <2>2, <1>1, <1>2, ShowsCallStays DEF row
<1>7. row.prices = prices' /\ row.builtin = builtin' => row.shows.cost = tariff'
  BY <1>2, <1>3, <1>4, <1>5
<1>8. /\ row.seq <= seq'[c] /\ row.shows.rev <= latest'[c]
      /\ row.prices <= prices' /\ row.builtin <= builtin' /\ row.version <= version'
  BY <1>2, <1>3, <1>4, <1>5
<1>9. QED
  BY <1>1, <1>4, <1>6, <1>7, <1>8 DEF RowTrue, row

\* So is a snapshot a projector holds.
LEMMA SnapshotStays ==
    ASSUME TypeOK, TypeOK', Forward
    PROVE  \A s \in Snapshots : SnapshotTrue(s) => SnapshotTrue(s)'
<1> SUFFICES ASSUME NEW s \in Snapshots, SnapshotTrue(s)
             PROVE  SnapshotTrue(s)'
  OBVIOUS
<1>1. /\ s.call \in Calls /\ s.shows \in Shows /\ s.seq \in Nat
      /\ s.prices \in Nat /\ s.builtin \in Nat
  BY DEF Snapshots
<1>2. /\ seq[s.call] \in Nat /\ seq'[s.call] \in Nat
      /\ prices \in Nat /\ prices' \in Nat /\ builtin \in Nat /\ builtin' \in Nat
  BY <1>1 DEF TypeOK
<1>3. /\ seq[s.call] <= seq'[s.call] /\ prices <= prices' /\ builtin <= builtin'
      /\ prices' = prices /\ builtin' = builtin => tariff' = tariff
  BY <1>1 DEF Forward
<1>4. /\ s.seq <= seq[s.call] /\ s.prices <= prices /\ s.builtin <= builtin
      /\ s.seq = seq[s.call] => ShowsCall(s.shows, s.call)
      /\ s.prices = prices /\ s.builtin = builtin => s.shows.cost = tariff
      /\ s.kind = "reprice" =>
           s.stored # None /\ s.shows = [ShowsOf(s.stored) EXCEPT !.cost = s.shows.cost]
  BY DEF SnapshotTrue
<1>5. s.seq = seq'[s.call] => ShowsCall(s.shows, s.call)'
  <2> SUFFICES ASSUME s.seq = seq'[s.call]
               PROVE  ShowsCall(s.shows, s.call)'
    OBVIOUS
  <2>1. seq'[s.call] = seq[s.call]
    BY <1>2, <1>3, <1>4
  <2>2. ShowsCall(s.shows, s.call)
    BY <1>4, <2>1
  <2>3. QED
    BY <2>1, <2>2, <1>1, ShowsCallStays
<1>6. s.seq <= seq'[s.call] /\ s.prices <= prices' /\ s.builtin <= builtin'
  BY <1>1, <1>2, <1>3, <1>4
<1>7. s.prices = prices' /\ s.builtin = builtin' => s.shows.cost = tariff'
  BY <1>1, <1>2, <1>3, <1>4
<1>8. QED
  BY <1>4, <1>5, <1>6, <1>7 DEF SnapshotTrue

\* Rows stay or go, and a projector that is at its write took its snapshot before.
WritesNothing ==
    /\ \A c \in Calls : rows'[c] \in {rows[c], None}
    /\ \A p \in Projectors :
         job'[p].pc = "write" => job[p].pc = "write" /\ job'[p].snap = job[p].snap

\* A step that writes no projection and takes no snapshot keeps both true.
LEMMA NothingWritten ==
    ASSUME TypeOK, TypeOK', RowsTrue, SnapshotsTrue, Forward, WritesNothing
    PROVE  RowsTrue' /\ SnapshotsTrue'
<1>1. RowsTrue'
  BY RowStays DEF RowsTrue, WritesNothing
<1>2. SnapshotsTrue'
  <2> SUFFICES ASSUME NEW p \in Projectors, job'[p].pc = "write"
               PROVE  SnapshotTrue(job[p].snap)'
    BY DEF SnapshotsTrue
  <2>1. job[p].pc = "write" /\ job'[p].snap = job[p].snap
    BY DEF WritesNothing
  <2>2. job[p].snap \in Snapshots /\ SnapshotTrue(job[p].snap)
    BY <2>1 DEF TypeOK, SnapshotsTrue
  <2>3. PICK s \in Snapshots : s = job[p].snap
    BY <2>2
  <2>4. SnapshotTrue(s)
    BY <2>2, <2>3 DEF SnapshotTrue
  <2>5. SnapshotTrue(s)'
    BY <2>4, SnapshotStays
  <2>6. job'[p].snap = s
    BY <2>1, <2>3
  <2>7. QED
    BY <2>5, <2>6 DEF SnapshotTrue
<1>3. QED
  BY <1>1, <1>2

-----------------------------------------------------------------------------
(* The actions                                                             *)

Quiet == TypeOK' /\ Forward /\ WritesNothing

\* What moves without a change to what projections are made of.
LEMMA InputsStay ==
    ASSUME TypeOK, UNCHANGED <<inputs, priceVars>>
    PROVE  Forward
BY DEF TypeOK, Forward, inputs, priceVars

\* The closer's, the analyses' and the purge's steps.
LEMMA CallChangesQuiet ==
    ASSUME TypeOK, NEW c \in Calls, CallChanges(c)
    PROVE  Quiet
<1>0. UNCHANGED priceVars /\ UNCHANGED <<lifecycle, job, failed, faults, lapsed>>
  BY DEF CallChanges, FinishRevision, ClaimAnalysis, PutOffAnalysis, FailAnalysis, StoreAnalysis,
         RequeueAnalysis, MoveAnalysis, PurgeCall
<1>1. changes' \in 0..MaxChanges
  <2>1. Change
    BY DEF CallChanges, FinishRevision, ClaimAnalysis, PutOffAnalysis, FailAnalysis, StoreAnalysis,
           RequeueAnalysis, MoveAnalysis, PurgeCall
  <2>2. QED
    BY <2>1, ProjectionAssumption DEF TypeOK, Change
<1>2. present' \subseteq present /\ rows' \in {rows, [rows EXCEPT ![c] = None]}
  BY DEF CallChanges, FinishRevision, ClaimAnalysis, PutOffAnalysis, FailAnalysis, StoreAnalysis,
         RequeueAnalysis, MoveAnalysis, PurgeCall
<1>3. /\ seq' \in {seq, [seq EXCEPT ![c] = @ + 1]}
      /\ latest' \in {latest, [latest EXCEPT ![c] = @ + 1]}
      /\ result' \in {result, [result EXCEPT ![c] = @ + 1]}
  BY DEF CallChanges, FinishRevision, ClaimAnalysis, PutOffAnalysis, FailAnalysis, StoreAnalysis,
         RequeueAnalysis, MoveAnalysis, PurgeCall, Touch
<1>4. analysis' = analysis \/ \E to \in States : analysis' = [analysis EXCEPT ![c] = to]
  BY DEF CallChanges, FinishRevision, ClaimAnalysis, PutOffAnalysis, FailAnalysis, StoreAnalysis,
         RequeueAnalysis, MoveAnalysis, PurgeCall, States
<1>5. \/ seq' = [seq EXCEPT ![c] = @ + 1]
      \/ /\ UNCHANGED <<seq, latest, result>>
         /\ \/ UNCHANGED analysis
            \/ \E to \in {"pending", "running"} :
                 analysis[c] \in {"pending", "running"} /\ analysis' = [analysis EXCEPT ![c] = to]
  BY DEF CallChanges, FinishRevision, ClaimAnalysis, PutOffAnalysis, FailAnalysis, StoreAnalysis,
         RequeueAnalysis, MoveAnalysis, PurgeCall, Touch
<1>6. seq \in [Calls -> Nat] /\ latest \in [Calls -> Nat] /\ result \in [Calls -> Nat]
      /\ analysis \in [Calls -> States] /\ rows \in [Calls -> Rows \cup {None}]
  BY DEF TypeOK
<1>7. /\ seq' \in [Calls -> Nat] /\ latest' \in [Calls -> Nat] /\ result' \in [Calls -> Nat]
      /\ analysis' \in [Calls -> States] /\ rows' \in [Calls -> Rows \cup {None}]
  BY <1>2, <1>3, <1>4, <1>6
<1>8. TypeOK'
  BY <1>0, <1>1, <1>2, <1>7 DEF TypeOK, priceVars
<1>9. Forward
  <2> SUFFICES ASSUME NEW d \in Calls
               PROVE  /\ seq[d] <= seq'[d] /\ latest[d] <= latest'[d]
                      /\ seq'[d] = seq[d] => /\ latest'[d] = latest[d] /\ result'[d] = result[d]
                                             /\ Settled(analysis'[d]) = Settled(analysis[d])
    BY <1>0 DEF Forward, priceVars, TypeOK
  <2>1. seq[d] <= seq'[d] /\ latest[d] <= latest'[d]
    BY <1>3, <1>6
  <2>2. CASE d # c
    BY <2>1, <2>2, <1>3, <1>4, <1>6
  <2>3. CASE d = c /\ seq' = [seq EXCEPT ![c] = @ + 1]
    BY <2>1, <2>3, <1>6
  <2>4. CASE d = c /\ UNCHANGED <<seq, latest, result>>
    BY <2>1, <2>4, <1>5, <1>6 DEF Settled
  <2>5. QED
    BY <2>2, <2>3, <2>4, <1>5
<1>10. WritesNothing
  BY <1>0, <1>2, <1>6 DEF WritesNothing
<1>11. QED
  BY <1>8, <1>9, <1>10 DEF Quiet

\* A price row moves its version with it.
LEMMA AddPriceQuiet ==
    ASSUME TypeOK, NEW builtIn \in BOOLEAN, AddPrice(builtIn)
    PROVE  Quiet
<1>1. /\ \/ builtin' = builtin + 1 /\ prices' = prices
         \/ prices' = prices + 1 /\ builtin' = builtin
      /\ tariff' \in Tariffs
      /\ UNCHANGED <<inputs, defaults, version, rows, job, failed, changes, faults, lapsed>>
  BY DEF AddPrice
<1>2. TypeOK'
  BY <1>1 DEF TypeOK, inputs
<1>3. Forward /\ WritesNothing
  BY <1>1 DEF TypeOK, Forward, WritesNothing, inputs
<1>4. QED
  BY <1>2, <1>3 DEF Quiet

\* The project's deletion begins.
LEMMA DeleteProjectQuiet ==
    ASSUME TypeOK, DeleteProject
    PROVE  Quiet
<1>1. TypeOK'
  <2>1. changes' \in 0..MaxChanges
    BY ProjectionAssumption DEF TypeOK, DeleteProject, Change
  <2>2. lifecycle' \in {"active", "deleting"}
    BY DEF DeleteProject
  <2>3. UNCHANGED <<present, latest, analysis, result, seq, priceVars, rows, job, failed, faults, lapsed>>
    BY DEF DeleteProject
  <2>4. QED
    BY <2>1, <2>2, <2>3 DEF TypeOK, priceVars
<1>2. Forward /\ WritesNothing
  BY DEF TypeOK, DeleteProject, Forward, WritesNothing, priceVars
<1>3. QED
  BY <1>1, <1>2 DEF Quiet

\* A minute passes.
LEMMA TickQuiet ==
    ASSUME TypeOK, Tick
    PROVE  Quiet
<1>1. failed' \in [Projectors -> [Calls -> Failures]]
  <2> DEFINE After(p, c) == IF failed[p][c].due > 0 THEN [failed[p][c] EXCEPT !.due = @ - 1]
                            ELSE failed[p][c]
  <2>1. ASSUME NEW p \in Projectors, NEW c \in Calls
        PROVE  After(p, c) \in Failures
    <3>1. failed[p][c] \in Failures
      BY DEF TypeOK
    <3>2. QED
      BY <3>1 DEF Failures
  <2>2. failed' = [p \in Projectors |-> [c \in Calls |-> After(p, c)]]
    BY DEF Tick
  <2> HIDE DEF After
  <2>3. QED
    BY <2>1, <2>2
<1>2. UNCHANGED <<inputs, priceVars, rows, job, changes, faults, lapsed>>
  BY DEF Tick
<1>3. TypeOK'
  BY <1>1, <1>2 DEF TypeOK, inputs, priceVars
<1>4. Forward /\ WritesNothing
  BY <1>2, InputsStay DEF WritesNothing, TypeOK
<1>5. QED
  BY <1>3, <1>4 DEF Quiet

\* The job of p leaves its write, or was not at one; the others' stay.
LEMMA JobLeaves ==
    ASSUME TypeOK, NEW p \in Projectors, NEW j \in Jobs, j.pc # "write",
           job' = [job EXCEPT ![p] = j]
    PROVE  /\ job' \in [Projectors -> Jobs]
           /\ \A q \in Projectors : job'[q].pc = "write" => job'[q] = job[q]
BY DEF TypeOK

\* A step of the jobs that only reads the calls and the prices.
LEMMA JobStepQuiet ==
    ASSUME TypeOK, job' \in [Projectors -> Jobs],
           \A q \in Projectors : job'[q].pc = "write" => job'[q] = job[q],
           failed' \in [Projectors -> [Calls -> Failures]], lapsed' \subseteq Lapsing,
           faults' \in 0..MaxFaults, UNCHANGED <<inputs, priceVars, rows, changes>>
    PROVE  Quiet
<1>1. \A q \in Projectors : job'[q].pc = "write" => job'[q].snap \in Snapshots
  BY DEF TypeOK
<1>2. TypeOK'
  BY <1>1 DEF TypeOK, inputs, priceVars
<1>3. WritesNothing
  BY DEF WritesNothing, TypeOK
<1>4. QED
  BY <1>2, <1>3, InputsStay DEF Quiet

\* The built-in prices of the release move their version with them.
LEMMA SeedBuiltinsQuiet ==
    ASSUME TypeOK, NEW p \in Projectors, SeedBuiltins(p)
    PROVE  Quiet
<1>1. /\ job[p] \in Jobs /\ job[p].pc = "idle" /\ job' = [job EXCEPT ![p].seeded = TRUE]
      /\ job \in [Projectors -> Jobs]
  BY DEF SeedBuiltins, TypeOK
<1>2. [job[p] EXCEPT !.seeded = TRUE] \in Jobs /\ [job[p] EXCEPT !.seeded = TRUE].pc = "idle"
  BY <1>1 DEF Jobs
<1>3. job' = [job EXCEPT ![p] = [job[p] EXCEPT !.seeded = TRUE]]
  BY <1>1
<1>4. /\ job' \in [Projectors -> Jobs]
      /\ \A q \in Projectors : job'[q].pc = "write" => job'[q] = job[q]
  BY <1>2, <1>3, JobLeaves
<1>5. UNCHANGED <<inputs, prices, version, rows, failed, changes, faults, lapsed>>
  BY DEF SeedBuiltins
<1>6. /\ builtin' \in {builtin, builtin + 1} /\ defaults' \in {defaults, version}
      /\ tariff' \in Tariffs /\ (builtin' = builtin => tariff' = tariff)
  BY DEF SeedBuiltins, TypeOK
<1>7. /\ builtin \in Nat /\ defaults \in Nat /\ version \in Nat
  BY DEF TypeOK
<1>8. \A q \in Projectors : job'[q].pc = "write" => job'[q].snap \in Snapshots
  BY <1>4 DEF TypeOK
<1>9. TypeOK'
  BY <1>4, <1>5, <1>6, <1>7, <1>8 DEF TypeOK, inputs
<1>10. Forward
  BY <1>5, <1>6, <1>7 DEF TypeOK, Forward, inputs
<1>11. WritesNothing
  BY <1>4, <1>5 DEF TypeOK, WritesNothing
<1>12. QED
  BY <1>9, <1>10, <1>11 DEF Quiet

\* A pass begins.
LEMMA BeginPassQuiet ==
    ASSUME TypeOK, NEW p \in Projectors, BeginPass(p)
    PROVE  Quiet
<1> DEFINE aside == {c \in Calls : failed[p][c].due > 0}
<1> DEFINE start == [Idle(TRUE) EXCEPT !.aside = aside]
<1>1. start \in Jobs
  BY IdleType
<1>2. StaleAfter(0) \in SUBSET Calls
  BY DEF StaleAfter
<1> HIDE DEF start
<1>3. Listed(start, StaleAfter(0)) \in Jobs /\ Listed(start, StaleAfter(0)).pc # "write"
  BY <1>1, <1>2, ListedType DEF TypeOK
<1>4. job' = [job EXCEPT ![p] = Listed(start, StaleAfter(0))]
  BY DEF BeginPass, start
<1>5. lapsed' \subseteq Lapsing /\ UNCHANGED <<inputs, priceVars, rows, failed, changes, faults>>
  BY DEF BeginPass, TypeOK
<1>6. QED
  BY <1>3, <1>4, <1>5, JobLeaves, JobStepQuiet DEF TypeOK

\* The next batch is read.
LEMMA ReadStaleQuiet ==
    ASSUME TypeOK, NEW p \in Projectors, ReadStale(p)
    PROVE  Quiet
<1>1. job[p] \in Jobs /\ StaleAfter(job[p].after) \in SUBSET Calls
  BY DEF TypeOK, StaleAfter
<1> DEFINE j == Listed(job[p], StaleAfter(job[p].after))
<1>2. j \in Jobs /\ j.pc # "write"
  BY <1>1, ListedType DEF TypeOK
<1>3. job' = [job EXCEPT ![p] = j]
  BY DEF ReadStale
<1>4. UNCHANGED <<inputs, priceVars, rows, failed, changes, faults, lapsed>>
  BY DEF ReadStale
<1> HIDE DEF j
<1>5. QED
  BY <1>2, <1>3, <1>4, JobLeaves, JobStepQuiet DEF TypeOK

\* What every step past a call of the batch has in common.
LEMMA PastQuiet ==
    ASSUME TypeOK, NEW p \in Projectors, NEW b \in First(p), NEW n \in Nat,
           job[p].pc \in {"batch", "write"}, job' = [job EXCEPT ![p] = Past(@, b, n)]
    PROVE  /\ job' \in [Projectors -> Jobs]
           /\ \A q \in Projectors : job'[q].pc = "write" => job'[q] = job[q]
<1>1. job[p] \in Jobs
  BY DEF TypeOK
<1>2. b \in [call : Calls, seq : Nat]
  BY <1>1 DEF Jobs, First
<1>3. Past(job[p], b, n) \in Jobs /\ Past(job[p], b, n).pc # "write"
  BY <1>1, <1>2, PastType
<1>4. job' = [job EXCEPT ![p] = Past(job[p], b, n)]
  OBVIOUS
<1>5. QED
  BY <1>3, <1>4, JobLeaves

\* How many calls a pass examined is a number.
LEMMA ExaminedType ==
    ASSUME TypeOK, NEW p \in Projectors
    PROVE  job[p].examined \in Nat /\ job[p].examined + 1 \in Nat
BY DEF TypeOK, Jobs

\* A call set aside is passed by.
LEMMA SkipAsideQuiet ==
    ASSUME TypeOK, NEW p \in Projectors, SkipAside(p)
    PROVE  Quiet
<1>1. PICK b \in First(p) : job' = [job EXCEPT ![p] = Past(@, b, @.examined)]
  BY DEF SkipAside
<1>2. UNCHANGED <<inputs, priceVars, rows, failed, changes, faults, lapsed>> /\ job[p].pc = "batch"
  BY DEF SkipAside
<1>3. job' = [job EXCEPT ![p] = Past(@, b, job[p].examined)]
  BY <1>1 DEF TypeOK
<1>4. /\ job' \in [Projectors -> Jobs]
      /\ \A q \in Projectors : job'[q].pc = "write" => job'[q] = job[q]
  BY <1>2, <1>3, PastQuiet, ExaminedType
<1>5. QED
  BY <1>2, <1>4, JobStepQuiet DEF TypeOK

\* So is one that is gone.
LEMMA NoRevisionQuiet ==
    ASSUME TypeOK, NEW p \in Projectors, NoRevision(p)
    PROVE  Quiet
<1>1. PICK b \in First(p) : job' = [job EXCEPT ![p] = Past(@, b, @.examined + 1)]
  BY DEF NoRevision
<1>2. UNCHANGED <<inputs, priceVars, rows, failed, changes, faults, lapsed>> /\ job[p].pc = "batch"
  BY DEF NoRevision
<1>3. job' = [job EXCEPT ![p] = Past(@, b, job[p].examined + 1)]
  BY <1>1 DEF TypeOK
<1>4. /\ job' \in [Projectors -> Jobs]
      /\ \A q \in Projectors : job'[q].pc = "write" => job'[q] = job[q]
  BY <1>2, <1>3, PastQuiet, ExaminedType
<1>5. QED
  BY <1>2, <1>4, JobStepQuiet DEF TypeOK

\* What _fail records of a call's failure.
LEMMA FailureType ==
    ASSUME TypeOK, NEW p \in Projectors, NEW b \in First(p)
    PROVE  Failure(p, b) \in Failures
<1>1. b \in [call : Calls, seq : Nat]
  BY DEF TypeOK, Jobs, First
<1>2. failed[p][b.call] \in Failures
  BY <1>1 DEF TypeOK
<1>3. Len(RetryTicks) \in Nat /\ Len(RetryTicks) > 0 /\ \A i \in 1..Len(RetryTicks) : RetryTicks[i] \in Nat
  BY ProjectionAssumption
<1> DEFINE n == failed[p][b.call].attempts
<1> DEFINE attempts == IF n > 0 /\ failed[p][b.call].seq = b.seq
                       THEN Min2(n + 1, Len(RetryTicks)) ELSE 1
<1>4. n \in 0..Len(RetryTicks)
  BY <1>2 DEF Failures
<1>5. attempts \in 1..Len(RetryTicks)
  BY <1>3, <1>4 DEF Min2
<1>6. Failure(p, b) = [seq |-> b.seq, attempts |-> attempts, due |-> RetryTicks[attempts]]
  BY DEF Failure
<1> HIDE DEF attempts
<1>7. QED
  BY <1>1, <1>3, <1>5, <1>6 DEF Failures

\* A call that fails is recorded and passed by.
LEMMA FailsQuiet ==
    ASSUME TypeOK, NEW p \in Projectors, NEW b \in First(p), Fails(p, b),
           job[p].pc \in {"batch", "write"}, faults' \in 0..MaxFaults
    PROVE  Quiet
<1>1. failed' = [failed EXCEPT ![p][b.call] = Failure(p, b)] /\ Failure(p, b) \in Failures
  BY FailureType DEF Fails
<1>2. failed' \in [Projectors -> [Calls -> Failures]]
  BY <1>1 DEF TypeOK
<1>3. job' = [job EXCEPT ![p] = Past(@, b, job[p].examined + 1)]
  BY DEF Fails, PastFailure, TypeOK
<1>4. /\ job' \in [Projectors -> Jobs]
      /\ \A q \in Projectors : job'[q].pc = "write" => job'[q] = job[q]
  BY <1>3, PastQuiet, ExaminedType
<1>5. UNCHANGED <<inputs, priceVars, rows, changes, lapsed>>
  BY DEF Fails
<1>6. QED
  BY <1>2, <1>4, <1>5, JobStepQuiet DEF TypeOK

\* One whose inputs are invalid.
LEMMA InputInvalidQuiet ==
    ASSUME TypeOK, NEW p \in Projectors, InputInvalid(p)
    PROVE  Quiet
BY FailsQuiet DEF InputInvalid, TypeOK

\* One whose row the database refuses.
LEMMA WriteRefusedQuiet ==
    ASSUME TypeOK, NEW p \in Projectors, WriteRefused(p)
    PROVE  Quiet
<1>1. faults' \in 0..MaxFaults
  BY ProjectionAssumption DEF WriteRefused, Fault, TypeOK
<1>2. QED
  BY <1>1, FailsQuiet DEF WriteRefused

\* Leaving a write with an answer.
LEMMA SettlesQuiet ==
    ASSUME TypeOK, NEW p \in Projectors, Settles(p), job[p].pc = "write"
    PROVE  /\ job' \in [Projectors -> Jobs]
           /\ \A q \in Projectors : job'[q].pc = "write" => job'[q] = job[q]
           /\ failed' \in [Projectors -> [Calls -> Failures]]
           /\ UNCHANGED <<inputs, priceVars, changes, faults, lapsed>>
<1>1. PICK b \in First(p) : job' = [job EXCEPT ![p] = Past(@, b, @.examined + 1)]
  BY DEF Settles
<1>2. job' = [job EXCEPT ![p] = Past(@, b, job[p].examined + 1)]
  BY <1>1 DEF TypeOK
<1>3. /\ job' \in [Projectors -> Jobs]
      /\ \A q \in Projectors : job'[q].pc = "write" => job'[q] = job[q]
  BY <1>2, PastQuiet, ExaminedType
<1>4. failed' = [failed EXCEPT ![p][job[p].snap.call] = NoFailure]
  BY DEF Settles
<1>5. NoFailure \in Failures
  BY ProjectionAssumption DEF NoFailure, Failures
<1>6. failed' \in [Projectors -> [Calls -> Failures]]
  BY <1>4, <1>5 DEF TypeOK
<1>7. QED
  BY <1>3, <1>6 DEF Settles

\* A result that is discarded.
LEMMA DiscardQuiet ==
    ASSUME TypeOK, NEW p \in Projectors, Discard(p)
    PROVE  Quiet
BY SettlesQuiet, JobStepQuiet DEF Discard, TypeOK

\* Leaving a pass for the next one.
LEMMA StopsQuiet ==
    ASSUME TypeOK, NEW p \in Projectors, job' = [job EXCEPT ![p] = Idle(TRUE)]
    PROVE  /\ job' \in [Projectors -> Jobs]
           /\ \A q \in Projectors : job'[q].pc = "write" => job'[q] = job[q]
BY IdleType, JobLeaves

\* The store's error ends the pass.
LEMMA StoreErrorQuiet ==
    ASSUME TypeOK, NEW p \in Projectors, StoreError(p)
    PROVE  Quiet
<1>1. faults' \in 0..MaxFaults
  BY ProjectionAssumption DEF StoreError, Fault, TypeOK
<1>2. UNCHANGED <<inputs, priceVars, rows, failed, changes, lapsed>>
      /\ job' = [job EXCEPT ![p] = Idle(TRUE)]
  BY DEF StoreError
<1>3. QED
  BY <1>1, <1>2, StopsQuiet, JobStepQuiet DEF TypeOK

\* The process dies, and its passes with it.
LEMMA RestartQuiet ==
    ASSUME TypeOK, NEW p \in Projectors, NEW upgrade \in BOOLEAN, Restart(p, upgrade)
    PROVE  Quiet
<1>1. faults' \in 0..MaxFaults
  BY ProjectionAssumption DEF Restart, Fault, TypeOK
<1>2. Idle(FALSE) \in Jobs /\ Idle(FALSE).pc # "write"
  BY IdleType
<1>3. [c \in Calls |-> NoFailure] \in [Calls -> Failures]
  BY ProjectionAssumption DEF NoFailure, Failures
<1>4. /\ job' \in {[q \in Projectors |-> Idle(FALSE)], [job EXCEPT ![p] = Idle(FALSE)]}
      /\ failed' \in {[q \in Projectors |-> [c \in Calls |-> NoFailure]],
                      [failed EXCEPT ![p] = [c \in Calls |-> NoFailure]]}
      /\ version' \in {version, version + 1}
      /\ UNCHANGED <<inputs, tariff, prices, builtin, defaults, rows, changes, lapsed>>
  BY DEF Restart
<1>5. /\ job' \in [Projectors -> Jobs]
      /\ \A q \in Projectors : job'[q].pc = "write" => job'[q] = job[q]
  BY <1>2, <1>4 DEF TypeOK
<1>6. failed' \in [Projectors -> [Calls -> Failures]]
  BY <1>3, <1>4 DEF TypeOK
<1>7. \A q \in Projectors : job'[q].pc = "write" => job'[q].snap \in Snapshots
  BY <1>5 DEF TypeOK
<1>8. version' \in Nat /\ version <= version'
  BY <1>4 DEF TypeOK
<1>9. TypeOK'
  BY <1>1, <1>4, <1>5, <1>6, <1>7, <1>8 DEF TypeOK, inputs
<1>10. Forward
  BY <1>4, <1>8 DEF TypeOK, Forward, inputs
<1>11. WritesNothing
  BY <1>4, <1>5 DEF TypeOK, WritesNothing
<1>12. QED
  BY <1>9, <1>10, <1>11 DEF Quiet

-----------------------------------------------------------------------------
(* The snapshot                                                            *)

\* What a projector is about to write is a projection, and true of what it read.
LEMMA SnapshotIsTrue ==
    ASSUME TypeOK, RowsTrue, NEW c \in Calls
    PROVE  Snapshot(c) \in Snapshots /\ SnapshotTrue(Snapshot(c))
<1> DEFINE s == Snapshot(c)
<1>1. /\ latest[c] \in Nat /\ result[c] \in Nat /\ seq[c] \in Nat /\ analysis[c] \in States
      /\ tariff \in Tariffs /\ prices \in Nat /\ builtin \in Nat /\ version \in Nat
      /\ rows[c] \in Rows \cup {None}
  BY DEF TypeOK
<1>2. /\ s.call = c /\ s.seq = seq[c] /\ s.prices = prices /\ s.builtin = builtin
      /\ s.shows = Computed(c)
      /\ s.kind = (IF OnlyPrices(c) THEN "reprice" ELSE "full")
      /\ s.stored = (IF rows[c] = None THEN None ELSE rows[c].digest)
      /\ s = [call |-> c, kind |-> s.kind, shows |-> s.shows, seq |-> s.seq,
              prices |-> s.prices, builtin |-> s.builtin, stored |-> s.stored]
  BY DEF Snapshot
<1> HIDE DEF s
<1>3. CASE OnlyPrices(c)
  <2> DEFINE row == rows[c]
  <2>1. rows[c] # None /\ rows[c] \in Rows /\ RowTrue(c) /\ rows[c].seq = seq[c]
    BY <1>1, <1>3 DEF OnlyPrices, RowsTrue
  <2>2. row.shows \in Shows /\ row.digest \in Digests
    BY <2>1 DEF Rows
  <2>3. row.shows = ShowsOf(row.digest) /\ ShowsCall(row.shows, c)
    BY <2>1 DEF RowTrue
  <2>4. s.shows = [row.shows EXCEPT !.cost = tariff]
    BY <1>2, <1>3 DEF Computed
  <2>5. s.kind = "reprice" /\ s.stored = row.digest
    BY <1>2, <1>3, <2>1
  <2> HIDE DEF row
  <2>6. s.shows \in Shows /\ s.shows.cost = tariff
    BY <1>1, <2>2, <2>4 DEF Shows
  <2>7. ShowsCall(s.shows, c)
    BY <1>1, <2>2, <2>3, <2>4 DEF ShowsCall, Shows
  <2>8. s \in Snapshots
    BY <1>1, <1>2, <2>2, <2>5, <2>6 DEF Snapshots
  <2>9. s.stored # None
    BY <2>2, <2>5, NoneIsNothing
  <2>10. s.shows = [ShowsOf(s.stored) EXCEPT !.cost = s.shows.cost]
    <3>1. s.shows = [ShowsOf(row.digest) EXCEPT !.cost = tariff]
      BY <2>3, <2>4
    <3>2. QED
      BY <3>1, <2>5, <2>6
  <2>11. SnapshotTrue(s)
    BY <1>1, <1>2, <2>6, <2>7, <2>9, <2>10 DEF SnapshotTrue
  <2>12. QED
    BY <2>8, <2>11 DEF s
<1>4. CASE ~OnlyPrices(c)
  <2>1. s.shows = [rev |-> latest[c], analysis |-> analysis[c], result |-> result[c],
                   cost |-> tariff, version |-> version]
    BY <1>2, <1>4 DEF Computed
  <2>2. s.kind = "full"
    BY <1>2, <1>4
  <2>3. s.stored \in Digests \cup {None}
    <3>1. CASE rows[c] = None
      BY <1>2, <3>1
    <3>2. CASE rows[c] # None
      BY <1>1, <1>2, <3>2 DEF Rows
    <3>3. QED
      BY <3>1, <3>2
  <2>4. s.shows \in Shows
    BY <1>1, <2>1 DEF Shows
  <2>5. ShowsCall(s.shows, c) /\ s.shows.cost = tariff
    BY <2>1 DEF ShowsCall
  <2>6. s \in Snapshots
    BY <1>1, <1>2, <2>2, <2>3, <2>4 DEF Snapshots
  <2>7. SnapshotTrue(s)
    BY <1>1, <1>2, <2>2, <2>5 DEF SnapshotTrue
  <2>8. QED
    BY <2>6, <2>7 DEF s
<1>5. QED
  BY <1>3, <1>4

\* Taking a snapshot writes nothing, and what it holds is true.
LEMMA TakeSnapshotKeeps ==
    ASSUME TypeOK, RowsTrue, SnapshotsTrue, NEW p \in Projectors, TakeSnapshot(p)
    PROVE  TypeOK' /\ RowsTrue' /\ SnapshotsTrue' /\ rows' = rows
<1>1. PICK b \in First(p) : job' = [job EXCEPT ![p].pc = "write", ![p].snap = Snapshot(b.call)]
  BY DEF TakeSnapshot
<1>2. UNCHANGED <<inputs, priceVars, rows, failed, changes, faults, lapsed>>
  BY DEF TakeSnapshot
<1>3. b.call \in Calls /\ job[p] \in Jobs
  BY DEF First, TypeOK, Jobs
<1>4. PICK s : s = Snapshot(b.call)
  OBVIOUS
<1>5. s \in Snapshots /\ SnapshotTrue(s)
  BY <1>3, <1>4, SnapshotIsTrue DEF SnapshotTrue
<1> DEFINE j == [job[p] EXCEPT !.pc = "write", !.snap = s]
<1>6. j \in Jobs /\ j.snap = s
  BY <1>3, <1>5 DEF Jobs
<1>7. job' = [job EXCEPT ![p] = j]
  BY <1>1, <1>4 DEF TypeOK
<1> HIDE DEF j
<1>8. /\ job' \in [Projectors -> Jobs] /\ job'[p] = j
      /\ \A q \in Projectors : q # p => job'[q] = job[q]
  BY <1>6, <1>7 DEF TypeOK
<1>9. \A q \in Projectors : job'[q].pc = "write" => job'[q].snap \in Snapshots
  BY <1>5, <1>6, <1>8 DEF TypeOK
<1>10. TypeOK'
  BY <1>2, <1>8, <1>9 DEF TypeOK, inputs, priceVars
<1>11. Forward
  BY <1>2, InputsStay
<1>12. RowsTrue'
  BY <1>2, <1>10, <1>11, RowStays DEF RowsTrue
<1>13. SnapshotsTrue'
  <2> SUFFICES ASSUME NEW q \in Projectors, job'[q].pc = "write"
               PROVE  SnapshotTrue(job[q].snap)'
    BY DEF SnapshotsTrue
  <2>1. PICK t \in Snapshots : t = job'[q].snap /\ SnapshotTrue(t)
    <3>1. CASE q = p
      BY <1>5, <1>6, <1>8, <3>1
    <3>2. CASE q # p
      <4>1. job'[q] = job[q] /\ job[q].snap \in Snapshots /\ SnapshotTrue(job[q].snap)
        BY <1>8, <3>2 DEF TypeOK, SnapshotsTrue
      <4>2. QED
        BY <4>1 DEF SnapshotTrue
    <3>3. QED
      BY <3>1, <3>2
  <2>2. SnapshotTrue(t)'
    BY <1>10, <1>11, <2>1, SnapshotStays
  <2>3. QED
    BY <2>1, <2>2 DEF SnapshotTrue
<1>14. QED
  BY <1>2, <1>10, <1>12, <1>13

-----------------------------------------------------------------------------
(* The write                                                               *)

\* What RowTrue says, of a row to be.
TrueRow(row, c) ==
    /\ row.shows = ShowsOf(row.digest)
    /\ row.seq <= seq[c] /\ row.shows.rev <= latest[c]
    /\ row.prices <= prices /\ row.builtin <= builtin /\ row.version <= version
    /\ row.seq = seq[c] => ShowsCall(row.shows, c)
    /\ row.prices = prices /\ row.builtin = builtin => row.shows.cost = tariff

\* A write that finds the call as its snapshot read it stores a true projection, no older
\* than the one it replaces.
LEMMA WrittenIsTrue ==
    ASSUME TypeOK, RowsTrue, NEW s \in Snapshots, SnapshotTrue(s), StillAsRead(s)
    PROVE  /\ Written(rows[s.call], s) \in Rows
           /\ TrueRow(Written(rows[s.call], s), s.call)
           /\ rows[s.call] # None =>
                /\ Written(rows[s.call], s).seq >= rows[s.call].seq
                /\ Written(rows[s.call], s).shows.rev >= rows[s.call].shows.rev
<1> DEFINE c == s.call
<1> DEFINE row == rows[c]
<1> DEFINE new == Written(row, s)
<1>1. /\ c \in Calls /\ s.shows \in Shows /\ s.seq \in Nat /\ s.prices \in Nat
      /\ s.builtin \in Nat /\ s.stored \in Digests \cup {None} /\ s.kind \in {"full", "reprice"}
  BY DEF Snapshots
<1>2. /\ latest[c] \in Nat /\ seq[c] \in Nat /\ prices \in Nat /\ builtin \in Nat
      /\ version \in Nat /\ row \in Rows \cup {None}
  BY <1>1 DEF TypeOK
<1>3. /\ seq[c] = s.seq /\ latest[c] = s.shows.rev
      /\ s.stored = (IF row = None THEN None ELSE row.digest)
  BY DEF StillAsRead, Stored
<1>4. /\ s.prices <= prices /\ s.builtin <= builtin
      /\ ShowsCall(s.shows, c)
      /\ s.prices = prices /\ s.builtin = builtin => s.shows.cost = tariff
      /\ s.kind = "reprice" =>
           s.stored # None /\ s.shows = [ShowsOf(s.stored) EXCEPT !.cost = s.shows.cost]
  BY <1>3 DEF SnapshotTrue
<1>5. row # None =>
        /\ row.shows \in Shows /\ row.seq \in Nat /\ row.digest \in Digests
        /\ row = [shows |-> row.shows, seq |-> row.seq, prices |-> row.prices,
                  builtin |-> row.builtin, version |-> row.version, digest |-> row.digest]
        /\ row.shows = ShowsOf(row.digest)
        /\ row.seq <= seq[c] /\ row.shows.rev <= latest[c]
  BY <1>1, <1>2 DEF RowsTrue, RowTrue, Rows
<1>6. s.shows.rev \in Nat /\ s.shows.cost \in Tariffs
  BY <1>1 DEF Shows
<1> HIDE DEF c, row
<1>7. \A shows \in Shows, digest \in Digests :
        /\ shows = s.shows /\ ShowsOf(digest) = s.shows
        /\ new = [shows |-> shows, seq |-> s.seq, prices |-> s.prices, builtin |-> s.builtin,
                  version |-> version, digest |-> digest]
        => /\ new \in Rows /\ TrueRow(new, c)
           /\ row # None => new.seq >= row.seq /\ new.shows.rev >= row.shows.rev
  <2> HIDE DEF new
  <2> SUFFICES ASSUME NEW digest \in Digests, ShowsOf(digest) = s.shows,
                      new = [shows |-> s.shows, seq |-> s.seq, prices |-> s.prices,
                             builtin |-> s.builtin, version |-> version, digest |-> digest]
               PROVE  /\ new \in Rows /\ TrueRow(new, c)
                      /\ row # None => new.seq >= row.seq /\ new.shows.rev >= row.shows.rev
    OBVIOUS
  <2>1. /\ new.shows = s.shows /\ new.seq = s.seq /\ new.prices = s.prices
        /\ new.builtin = s.builtin /\ new.version = version /\ new.digest = digest
    OBVIOUS
  <2>2. new \in Rows
    BY <1>1, <1>2 DEF Rows
  <2>3. TrueRow(new, c)
    BY <1>1, <1>2, <1>3, <1>4, <1>6, <2>1 DEF TrueRow
  <2>4. row # None => new.seq >= row.seq /\ new.shows.rev >= row.shows.rev
    <3>1. row # None => row.seq <= s.seq /\ row.shows.rev <= s.shows.rev
                        /\ row.seq \in Nat /\ row.shows.rev \in Nat
      BY <1>3, <1>5 DEF Shows
    <3>2. QED
      BY <1>1, <1>6, <2>1, <3>1
  <2>5. QED
    BY <2>2, <2>3, <2>4
<1>8. CASE s.kind = "reprice"
  <2>1. row # None /\ row.digest = s.stored /\ s.stored \in Digests
    BY <1>1, <1>3, <1>4, <1>8
  <2> DEFINE digest == [row.digest EXCEPT !.repriced = Append(row.digest.repriced, s.shows.cost)]
  <2>2. digest \in Digests /\ ShowsOf(digest) = [ShowsOf(row.digest) EXCEPT !.cost = s.shows.cost]
    BY <1>6, <2>1, ShowsOfRepriced
  <2>3. s.shows = [row.shows EXCEPT !.cost = s.shows.cost] /\ ShowsOf(digest) = s.shows
    BY <1>4, <1>5, <1>8, <2>1, <2>2
  <2>4. new = [Stamped(row, s) EXCEPT !.shows.cost = s.shows.cost,
                                      !.digest.repriced = Append(s.stored.repriced, s.shows.cost)]
    BY <1>8 DEF Written
  <2>5. new = [shows |-> [row.shows EXCEPT !.cost = s.shows.cost], seq |-> s.seq,
               prices |-> s.prices, builtin |-> s.builtin, version |-> version,
               digest |-> digest]
    BY <1>5, <2>1, <2>4 DEF Stamped
  <2> HIDE DEF digest, new
  <2>6. new = [shows |-> s.shows, seq |-> s.seq, prices |-> s.prices, builtin |-> s.builtin,
               version |-> version, digest |-> digest]
    BY <2>3, <2>5
  <2>7. QED
    BY <1>1, <1>7, <2>2, <2>3, <2>6 DEF new, c, row
<1>9. CASE s.kind = "full" /\ row # None /\ row.digest = FullDigest(s.shows)
  <2>1. new = Stamped(row, s)
    BY <1>9 DEF Written
  <2>2. row.shows = s.shows
    BY <1>1, <1>5, <1>9, ShowsOfFull
  <2>3. new = [shows |-> s.shows, seq |-> s.seq, prices |-> s.prices, builtin |-> s.builtin,
               version |-> version, digest |-> row.digest]
    BY <1>5, <1>9, <2>1, <2>2 DEF Stamped
  <2> HIDE DEF new
  <2>4. QED
    BY <1>1, <1>5, <1>7, <1>9, <2>2, <2>3 DEF new, c, row
<1>10. CASE s.kind = "full" /\ ~(row # None /\ row.digest = FullDigest(s.shows))
  <2>1. new = [shows |-> s.shows, seq |-> s.seq, prices |-> s.prices, builtin |-> s.builtin,
               version |-> version, digest |-> FullDigest(s.shows)]
    BY <1>10 DEF Written
  <2>2. FullDigest(s.shows) \in Digests /\ ShowsOf(FullDigest(s.shows)) = s.shows
    BY <1>1, ShowsOfFull
  <2> HIDE DEF new
  <2>3. QED
    BY <1>1, <1>7, <2>1, <2>2 DEF new, c, row
<1>11. QED
  BY <1>1, <1>8, <1>9, <1>10

\* A write, whether or not its answer arrives.
Writes(p) ==
    /\ job[p].pc = "write"
    /\ StillAsRead(job[p].snap)
    /\ rows' = [rows EXCEPT ![job[p].snap.call] = Written(@, job[p].snap)]

NeverOlderStep ==
    \A c \in Calls : rows[c] # None /\ rows'[c] # None =>
        rows'[c].seq >= rows[c].seq /\ rows'[c].shows.rev >= rows[c].shows.rev

\* A write stores a true projection and leaves the others.
LEMMA WritesKeeps ==
    ASSUME TypeOK, RowsTrue, SnapshotsTrue, NEW p \in Projectors, Writes(p),
           UNCHANGED <<inputs, priceVars, changes, lapsed>>, faults' \in 0..MaxFaults,
           failed' \in [Projectors -> [Calls -> Failures]], job' \in [Projectors -> Jobs],
           \A q \in Projectors : job'[q].pc = "write" => job'[q] = job[q]
    PROVE  TypeOK' /\ RowsTrue' /\ SnapshotsTrue' /\ NeverOlderStep
<1>1. PICK s \in Snapshots : s = job[p].snap /\ SnapshotTrue(s)
  <2>1. job[p].snap \in Snapshots /\ SnapshotTrue(job[p].snap)
    BY DEF Writes, TypeOK, SnapshotsTrue
  <2>2. QED
    BY <2>1 DEF SnapshotTrue
<1>2. StillAsRead(s) /\ rows' = [rows EXCEPT ![s.call] = Written(rows[s.call], s)]
  BY <1>1 DEF Writes, StillAsRead
<1> DEFINE new == Written(rows[s.call], s)
<1>3. /\ new \in Rows /\ TrueRow(new, s.call)
      /\ rows[s.call] # None =>
           new.seq >= rows[s.call].seq /\ new.shows.rev >= rows[s.call].shows.rev
  BY <1>1, <1>2, WrittenIsTrue
<1>4. s.call \in Calls
  BY DEF Snapshots
<1>5. PICK row \in Rows : row = new
  BY <1>3
<1> HIDE DEF new
<1>6. /\ rows' \in [Calls -> Rows \cup {None}] /\ rows'[s.call] = row
      /\ \A c \in Calls : c # s.call => rows'[c] = rows[c]
  BY <1>2, <1>4, <1>5 DEF TypeOK, new
<1>7. \A q \in Projectors : job'[q].pc = "write" => job'[q].snap \in Snapshots
  BY DEF TypeOK
<1>8. TypeOK'
  BY <1>6, <1>7 DEF TypeOK, inputs, priceVars
<1>9. Forward
  BY InputsStay
<1>10. RowsTrue'
  <2> SUFFICES ASSUME NEW c \in Calls, rows'[c] # None
               PROVE  RowTrue(c)'
    BY DEF RowsTrue
  <2>1. CASE c # s.call
    BY <1>6, <1>8, <1>9, <2>1, RowStays DEF RowsTrue
  <2>2. CASE c = s.call
    <3>1. TrueRow(row, c)
      BY <1>3, <1>5, <2>2 DEF TrueRow
    <3>2. TrueRow(row, c)'
      BY <3>1 DEF TrueRow, ShowsCall, inputs, priceVars
    <3>3. QED
      BY <1>6, <2>2, <3>2 DEF TrueRow, RowTrue
  <2>3. QED
    BY <2>1, <2>2
<1>11. SnapshotsTrue'
  <2> SUFFICES ASSUME NEW q \in Projectors, job'[q].pc = "write"
               PROVE  SnapshotTrue(job[q].snap)'
    BY DEF SnapshotsTrue
  <2>1. job'[q] = job[q] /\ job[q].snap \in Snapshots /\ SnapshotTrue(job[q].snap)
    BY DEF TypeOK, SnapshotsTrue
  <2>2. PICK t \in Snapshots : t = job'[q].snap /\ SnapshotTrue(t)
    BY <2>1 DEF SnapshotTrue
  <2>3. SnapshotTrue(t)'
    BY <1>8, <1>9, <2>2, SnapshotStays
  <2>4. QED
    BY <2>2, <2>3 DEF SnapshotTrue
<1>12. NeverOlderStep
  <2> SUFFICES ASSUME NEW c \in Calls, rows[c] # None, rows'[c] # None
               PROVE  rows'[c].seq >= rows[c].seq /\ rows'[c].shows.rev >= rows[c].shows.rev
    BY DEF NeverOlderStep
  <2>1. CASE c # s.call
    <3>1. rows'[c] = rows[c] /\ rows[c].seq \in Nat /\ rows[c].shows.rev \in Nat
      BY <1>6, <2>1 DEF TypeOK, Rows, Shows
    <3>2. QED
      BY <3>1
  <2>2. CASE c = s.call
    BY <1>3, <1>5, <1>6, <2>2 DEF new
  <2>3. QED
    BY <2>1, <2>2
<1>13. QED
  BY <1>8, <1>10, <1>11, <1>12

-----------------------------------------------------------------------------
(* Every step                                                              *)

StepKeeps == TypeOK' /\ RowsTrue' /\ SnapshotsTrue' /\ NeverOlderStep

\* A step that writes nothing replaces no row.
LEMMA QuietKeeps ==
    ASSUME TypeOK, RowsTrue, SnapshotsTrue, Quiet
    PROVE  StepKeeps
<1>1. RowsTrue' /\ SnapshotsTrue'
  BY NothingWritten DEF Quiet
<1>2. NeverOlderStep
  <2> SUFFICES ASSUME NEW c \in Calls, rows[c] # None, rows'[c] # None
               PROVE  rows'[c].seq >= rows[c].seq /\ rows'[c].shows.rev >= rows[c].shows.rev
    BY DEF NeverOlderStep
  <2>1. rows'[c] = rows[c] /\ rows[c].seq \in Nat /\ rows[c].shows.rev \in Nat
    BY DEF Quiet, WritesNothing, TypeOK, Rows, Shows
  <2>2. QED
    BY <2>1
<1>3. QED
  BY <1>1, <1>2 DEF StepKeeps, Quiet

\* Every step keeps the invariant, and replaces no projection by an older one.
LEMMA NextKeeps ==
    ASSUME TypeOK, RowsTrue, SnapshotsTrue, [Next]_vars
    PROVE  StepKeeps
<1>1. ASSUME NEW c \in Calls, CallChanges(c)
      PROVE  StepKeeps
  BY <1>1, CallChangesQuiet, QuietKeeps
<1>2. ASSUME NEW builtIn \in BOOLEAN, AddPrice(builtIn)
      PROVE  StepKeeps
  BY <1>2, AddPriceQuiet, QuietKeeps
<1>3. CASE DeleteProject
  BY <1>3, DeleteProjectQuiet, QuietKeeps
<1>4. CASE Tick
  BY <1>4, TickQuiet, QuietKeeps
<1>5. ASSUME NEW p \in Projectors, JobStep(p)
      PROVE  StepKeeps
  <2>1. CASE SeedBuiltins(p)
    BY <2>1, SeedBuiltinsQuiet, QuietKeeps
  <2>2. CASE BeginPass(p)
    BY <2>2, BeginPassQuiet, QuietKeeps
  <2>3. CASE ReadStale(p)
    BY <2>3, ReadStaleQuiet, QuietKeeps
  <2>4. CASE SkipAside(p)
    BY <2>4, SkipAsideQuiet, QuietKeeps
  <2>5. CASE NoRevision(p)
    BY <2>5, NoRevisionQuiet, QuietKeeps
  <2>6. CASE TakeSnapshot(p)
    <3>1. TypeOK' /\ RowsTrue' /\ SnapshotsTrue' /\ rows' = rows
      BY <2>6, TakeSnapshotKeeps
    <3>2. \A c \in Calls : rows[c] # None => rows[c].seq \in Nat /\ rows[c].shows.rev \in Nat
      BY DEF TypeOK, Rows, Shows
    <3>3. QED
      BY <3>1, <3>2 DEF StepKeeps, NeverOlderStep
  <2>7. CASE InputInvalid(p)
    BY <2>7, InputInvalidQuiet, QuietKeeps
  <2>8. CASE Write(p)
    <3>1. Writes(p) /\ Settles(p) /\ job[p].pc = "write"
      BY <2>8 DEF Write, Writes
    <3>2. faults' \in 0..MaxFaults
      BY <3>1, SettlesQuiet DEF TypeOK
    <3>3. QED
      BY <3>1, <3>2, SettlesQuiet, WritesKeeps DEF StepKeeps
  <2>9. CASE Discard(p)
    BY <2>9, DiscardQuiet, QuietKeeps
  <2>10. QED
    BY <1>5, <2>1, <2>2, <2>3, <2>4, <2>5, <2>6, <2>7, <2>8, <2>9 DEF JobStep
<1>6. ASSUME NEW p \in Projectors, JobFaults(p)
      PROVE  StepKeeps
  <2>1. CASE WriteRefused(p)
    BY <2>1, WriteRefusedQuiet, QuietKeeps
  <2>2. CASE StoreError(p)
    BY <2>2, StoreErrorQuiet, QuietKeeps
  <2>3. CASE WriteThenError(p)
    <3>1. Writes(p) /\ job' = [job EXCEPT ![p] = Idle(TRUE)]
      BY <2>3 DEF WriteThenError, Writes
    <3>2. faults' \in 0..MaxFaults
      BY <2>3, ProjectionAssumption DEF WriteThenError, Fault, TypeOK
    <3>3. UNCHANGED <<inputs, priceVars, failed, changes, lapsed>>
      BY <2>3 DEF WriteThenError
    <3>4. failed' \in [Projectors -> [Calls -> Failures]]
      BY <3>3 DEF TypeOK
    <3>5. QED
      BY <3>1, <3>2, <3>3, <3>4, StopsQuiet, WritesKeeps DEF StepKeeps
  <2>4. ASSUME NEW upgrade \in BOOLEAN, Restart(p, upgrade)
        PROVE  StepKeeps
    BY <2>4, RestartQuiet, QuietKeeps
  <2>5. QED
    BY <1>6, <2>1, <2>2, <2>3, <2>4 DEF JobFaults
<1>7. CASE UNCHANGED vars
  <2>1. TypeOK'
    BY <1>7 DEF TypeOK, vars, inputs, priceVars
  <2>2. Forward
    BY <1>7, InputsStay DEF vars
  <2>3. WritesNothing
    BY <1>7 DEF WritesNothing, vars
  <2>4. QED
    BY <2>1, <2>2, <2>3, QuietKeeps DEF Quiet
<1>8. QED
  BY <1>1, <1>2, <1>3, <1>4, <1>5, <1>6, <1>7 DEF Next

-----------------------------------------------------------------------------
(* The theorems                                                            *)

\* Nothing is stored and nothing is being written at first.
LEMMA InitTrue == Init => ProjectionInv
<1> SUFFICES ASSUME Init
             PROVE  ProjectionInv
  OBVIOUS
<1>1. /\ \A c \in Calls : rows[c] = None
      /\ \A p \in Projectors : job[p] = Idle(FALSE)
  BY DEF Init
<1>2. Idle(FALSE) \in Jobs /\ Idle(FALSE).pc # "write"
  BY IdleType
<1>3. NoFailure \in Failures
  BY ProjectionAssumption DEF NoFailure, Failures
<1>4. job \in [Projectors -> Jobs] /\ failed \in [Projectors -> [Calls -> Failures]]
      /\ rows \in [Calls -> Rows \cup {None}]
  BY <1>2, <1>3 DEF Init
<1>5. \A p \in Projectors : job[p].pc # "write"
  BY <1>1, <1>2
<1>6. TypeOK
  <2>1. /\ lifecycle \in {"active", "deleting"} /\ present \subseteq Calls
        /\ latest \in [Calls -> Nat] /\ result \in [Calls -> Nat] /\ seq \in [Calls -> Nat]
        /\ analysis \in [Calls -> States] /\ tariff \in Tariffs /\ lapsed \subseteq Lapsing
    BY DEF Init, States
  <2>2. /\ prices \in Nat /\ builtin \in Nat /\ defaults \in Nat /\ version \in Nat
        /\ changes \in 0..MaxChanges /\ faults \in 0..MaxFaults
    BY ProjectionAssumption DEF Init
  <2>3. QED
    BY <1>4, <1>5, <2>1, <2>2 DEF TypeOK
<1>7. QED
  BY <1>1, <1>5, <1>6 DEF ProjectionInv

\* Every stored projection, and everything a projector is about to write, is true of the
\* state of the call and of the prices its stamps name, whatever passes overlap
\* (storage_call_projections.py: snapshot, compute and write, outside one another's locks).
THEOREM ProjectionsTrueAlways == Spec => []ProjectionInv
<1>1. Init => ProjectionInv
  BY InitTrue
<1>2. ProjectionInv /\ [Next]_vars => ProjectionInv'
  BY NextKeeps DEF ProjectionInv, RowsTrue, SnapshotsTrue, StepKeeps
<1>3. QED
  BY <1>1, <1>2, PTL DEF Spec

\* What readers are told is current (call_projection.projection_state) says what the call's
\* latest revision, its analysis and the prices say now.
THEOREM CurrentIsTrueAlways == Spec => []CurrentIsTrue
<1>1. ProjectionInv => CurrentIsTrue
  <2> SUFFICES ASSUME ProjectionInv, NEW c \in present, Current(rows[c], c)
               PROVE  ShowsCall(rows[c].shows, c) /\ rows[c].shows.cost = tariff
    BY DEF CurrentIsTrue
  <2>1. c \in Calls /\ rows[c] \in Rows /\ RowTrue(c)
    BY DEF ProjectionInv, TypeOK, Current
  <2>2. /\ rows[c].seq \in Nat /\ rows[c].prices \in Nat /\ rows[c].builtin \in Nat
        /\ seq[c] \in Nat /\ prices \in Nat /\ builtin \in Nat
    BY <2>1 DEF Rows, ProjectionInv, TypeOK
  <2>3. rows[c].seq = seq[c] /\ rows[c].prices = prices /\ rows[c].builtin = builtin
    BY <2>1, <2>2 DEF Current, RowTrue
  <2>4. QED
    BY <2>1, <2>3 DEF RowTrue
<1>2. QED
  BY <1>1, ProjectionsTrueAlways, PTL

\* No write replaces a projection by an older one: the counter the write compares
\* (CallProjector.write) lets nothing computed before a change land after it.
THEOREM NeverOlderAlways == Spec => NeverOlder
<1>1. ProjectionInv /\ [Next]_vars => NeverOlderStep
  BY NextKeeps DEF ProjectionInv, RowsTrue, SnapshotsTrue, StepKeeps
<1>2. NeverOlderStep =>
        [\A c \in Calls : rows[c] # None /\ rows'[c] # None =>
            rows'[c].seq >= rows[c].seq /\ rows'[c].shows.rev >= rows[c].shows.rev]_vars
  BY DEF NeverOlderStep
<1>3. QED
  BY <1>1, <1>2, ProjectionsTrueAlways, PTL DEF Spec, NeverOlder

\* A project that began its deletion gets no projection written, whatever was being
\* computed (CallProjector.write, the lifecycle it compares in its own transaction).
THEOREM NoneOnceDeletingAlways == Spec => NoneOnceDeleting
<1> DEFINE Step == lifecycle # "active" => \A c \in Calls : rows'[c] \in {rows[c], None}
<1>1. TypeOK /\ [Next]_vars => Step
  <2> SUFFICES ASSUME TypeOK, [Next]_vars, lifecycle # "active", NEW c \in Calls
               PROVE  rows'[c] \in {rows[c], None}
    OBVIOUS
  <2>1. \A p \in Projectors : ~Write(p) /\ ~WriteThenError(p)
    BY DEF Write, WriteThenError, StillAsRead
  <2>2. CASE rows' = rows
    BY <2>2
  <2>3. CASE \E d \in Calls : CallChanges(d)
    BY <2>3, CallChangesQuiet DEF Quiet, WritesNothing
  <2>4. ASSUME NEW p \in Projectors, JobStep(p) \/ JobFaults(p)
        PROVE  rows' = rows
    BY <2>1, <2>4 DEF JobStep, SeedBuiltins, BeginPass, ReadStale, SkipAside, NoRevision,
                      TakeSnapshot, InputInvalid, Discard,
                      JobFaults, WriteRefused, Fails, StoreError, Restart
  <2>5. ASSUME UNCHANGED vars \/ (\E builtIn \in BOOLEAN : AddPrice(builtIn)) \/ DeleteProject \/ Tick
        PROVE  rows' = rows
    BY <2>5 DEF vars, AddPrice, DeleteProject, Tick
  <2>6. CASE Next
    BY <2>2, <2>3, <2>4, <2>5, <2>6 DEF Next
  <2>7. QED
    BY <2>2, <2>5, <2>6
<1>2. ProjectionInv => TypeOK
  BY DEF ProjectionInv
<1>3. Step => [Step]_vars
  OBVIOUS
<1>4. QED
  BY <1>1, <1>2, <1>3, ProjectionsTrueAlways, PTL DEF Spec, NoneOnceDeleting

=============================================================================
