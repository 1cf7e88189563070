----------------------------- MODULE CaptureProofs -----------------------------
(***************************************************************************)
(* Proofs about BrowserCapture, for any drains, digest ring, fault and     *)
(* attempt bounds and queue length.                                        *)
(*                                                                         *)
(* The server's half: whatever the order of drains, duplicates, crashes,   *)
(* I/O errors, expiries and seals, the frames that a commit marker covers  *)
(* (Held) are one log of the call, only a commit extends it, and ledger,   *)
(* call in memory, live session, intent and seal agree with it in every    *)
(* stage of a drain (ServerInv). The client's half: every sequence the     *)
(* recorder gave out is settled or in exactly one place of the transport,  *)
(* and the resync range covers what was given up and is not in the log     *)
(* (ClientInv).                                                            *)
(***************************************************************************)
EXTENDS BrowserCapture, SequenceTheorems, TLAPS

\* The frames of the call that a commit marker covers, in the journal or in the artifact.
Held == IF artifact # <<>> /\ ~journal.exists THEN artifact ELSE CommittedChunks

\* The last sequence of a log of chunks, and the digests a ledger keeps of it.
Top(log) == IF log = <<>> THEN 0 ELSE log[Len(log)].drain.seq
Newest(log) ==
    LET size == Least(RingSize, Len(log))
    IN  [n \in 1..size |-> log[Len(log) - size + n].drain]

\* A chunk that may come after the sequence `last`, and a log that leaves out no number.
Follows(chunk, last) ==
    /\ chunk.whole /\ chunk.drain.seq > last
    /\ chunk.lost = (last + 1)..(chunk.drain.seq - 1)
Log(log) ==
    /\ \A n \in 1..Len(log) : log[n].whole /\ log[n].drain.seq <= Top(log)
    /\ \A m \in 1..Top(log) :
           \E n \in 1..Len(log) : log[n].drain.seq = m \/ m \in log[n].lost

MaybeDrain == Drains \cup {NoDrain}
Chunks == [drain : Drains, lost : SUBSET Nat, whole : BOOLEAN]
Ledgers == [exists : BOOLEAN, applied : Nat, digests : Seq(Drains), finalized : BOOLEAN,
            pending : [size : Nat, drain : MaybeDrain], retry : MaybeDrain,
            sealed : BOOLEAN, expired : BOOLEAN]
Works == [stage : {"down", "idle", "process", "append", "commit", "recover", "truncated"},
          drain : MaybeDrain, after : {"none", "start", "lookup", "retry", "too_large"}]

Journals == [exists : BOOLEAN, chunks : Seq(Chunks)]
Calls == [held : BOOLEAN, applied : Nat, digests : Seq(Drains), retry : MaybeDrain,
          finalized : BOOLEAN]
Lives == [open : BOOLEAN, chunks : Seq(Chunks)]
Seals == [stage : {"none", "taken", "ingested", "marked", "removed"}, chunks : Seq(Chunks)]
Requests == {"none", "flying", "held", "ok", "refused", "too_large", "retry"}

ServerType ==
    /\ sidecar \in Ledgers /\ journal \in Journals /\ artifact \in Seq(Chunks)
    /\ call \in Calls /\ live \in Lives /\ refusal \in MaybeDrain
    /\ work \in Works /\ request \in Requests /\ seal \in Seals

LedgerInv ==
    /\ Log(Held)
    /\ ~sidecar.exists => sidecar = NoLedger /\ journal = NoJournal
    /\ sidecar.exists => /\ sidecar.applied = Top(Held)
                         /\ sidecar.digests = Newest(Held)
                         /\ sidecar.finalized = Closed(Held)
    /\ journal.exists <=> journal.chunks # <<>>
    /\ sidecar.retry # NoDrain => sidecar.retry.seq > Top(Held)
    /\ sidecar.pending # NoIntent => /\ sidecar.pending.drain # NoDrain
                                     /\ sidecar.pending.drain.seq > Top(Held)
                                     /\ sidecar.pending.size <= Len(journal.chunks)
    /\ Closed(Held) => sidecar.pending = NoIntent /\ sidecar.retry = NoDrain
    /\ artifact # <<>> => Held = artifact /\ Closed(artifact)
    /\ sidecar.sealed => artifact # <<>> /\ sidecar.exists
    /\ sidecar.exists /\ ~sidecar.sealed /\ artifact # <<>> => journal.exists

MemoryInv ==
    /\ IF call.held THEN /\ call.applied = Top(Held) /\ call.digests = Newest(Held)
                         /\ call.finalized = Closed(Held) /\ call.retry = sidecar.retry
       ELSE call = NoCall
    /\ IF live.open THEN live.chunks = Held /\ Held # <<>> ELSE live = NoLive

\* A drain between its intent, made when the journal had `size` chunks, and its commit.
Applying(size) ==
    /\ work.drain # NoDrain
    /\ call.held /\ ~Closed(Held) /\ live.chunks = Held
    /\ Follows(Chunk(work.drain), Top(Held))
    /\ sidecar.pending = [size |-> size, drain |-> work.drain]

WorkInv ==
    /\ work.stage = "down" => ~call.held /\ ~live.open /\ seal = NoSeal
    /\ work.stage \in {"down", "idle"} => (sidecar.pending # NoIntent => ~call.held)
    /\ work.stage = "process" => /\ work.drain # NoDrain
                                 /\ call.held /\ sidecar.pending = NoIntent
                                 /\ Closed(Held) \/ live.chunks = Held
    /\ work.stage = "append" => Applying(Len(journal.chunks))
    /\ work.stage = "commit" => /\ Applying(Len(journal.chunks) - 1)
                                /\ journal.chunks = Append(Held, Chunk(work.drain))
    /\ work.stage \in {"recover", "truncated"} =>
           /\ sidecar.pending # NoIntent /\ work.after # "none"
           /\ work.after \in {"start", "lookup"} => ~call.held
           /\ work.after # "start" => work.drain # NoDrain
    /\ work.stage = "truncated" => journal.chunks = Held

SealInv ==
    /\ seal.stage = "none" => seal = NoSeal
    /\ seal.stage = "taken" => seal.chunks = Held /\ Closed(Held)
    /\ seal.stage \in {"ingested", "marked", "removed"} => artifact # <<>>
    /\ seal.stage = "marked" => sidecar.sealed /\ work.stage = "idle"

ServerInv == ServerType /\ LedgerInv /\ MemoryInv /\ WorkInv /\ SealInv

-----------------------------------------------------------------------------
(* Logs and their digests                                                  *)

LEMMA DrainFacts ==
    ASSUME NEW d \in Drains
    PROVE  /\ d # NoDrain
           /\ d.seq \in Nat /\ d.seq > 0 /\ d.from \in Nat /\ d.from < d.seq
           /\ d.end \in BOOLEAN /\ d.big \in BOOLEAN
           /\ DOMAIN d = {"seq", "from", "through", "end", "big"}
BY ServerAssumption DEF NoDrain

LEMMA ChunkFacts ==
    ASSUME NEW log \in Seq(Chunks), NEW n \in 1..Len(log)
    PROVE  /\ log[n] \in Chunks /\ log[n].drain \in Drains
           /\ log[n].drain.seq \in Nat /\ log[n].drain.seq > 0
<1>1. log[n] \in Chunks
  BY ElementOfSeq
<1>2. log[n].drain \in Drains
  BY <1>1 DEF Chunks
<1>3. QED BY <1>1, <1>2, DrainFacts

LEMMA TopNat ==
    ASSUME NEW log \in Seq(Chunks)
    PROVE  Top(log) \in Nat /\ (Top(log) = 0 <=> log = <<>>)
<1>1. CASE log = <<>>
  BY <1>1 DEF Top
<1>2. CASE log # <<>>
  <2>1. Len(log) \in 1..Len(log)
    BY <1>2
  <2>2. QED BY <1>2, <2>1, ChunkFacts DEF Top
<1>3. QED BY <1>1, <1>2

LEMMA ClosedLast ==
    ASSUME NEW log \in Seq(Chunks)
    PROVE  /\ Closed(log) \in BOOLEAN
           /\ Closed(log) => log # <<>>
           /\ ~Closed(<<>>)
BY DEF Closed

\* A log extended by a chunk that follows it is a log.
LEMMA LogAppend ==
    ASSUME NEW log \in Seq(Chunks), NEW chunk \in Chunks, Log(log), Follows(chunk, Top(log))
    PROVE  /\ Append(log, chunk) \in Seq(Chunks)
           /\ Log(Append(log, chunk))
           /\ Append(log, chunk) # <<>>
           /\ Top(Append(log, chunk)) = chunk.drain.seq
           /\ Closed(Append(log, chunk)) = chunk.drain.end
<1> DEFINE longer == Append(log, chunk)
<1>1. /\ longer \in Seq(Chunks) /\ Len(longer) = Len(log) + 1 /\ longer # <<>>
      /\ longer[Len(log) + 1] = chunk
      /\ \A n \in 1..Len(log) : longer[n] = log[n]
  BY AppendProperties
<1>2. Top(longer) = chunk.drain.seq /\ Closed(longer) = chunk.drain.end
  <2>1. chunk.drain.end \in BOOLEAN
    BY DrainFacts DEF Chunks
  <2>2. QED BY <1>1, <2>1 DEF Top, Closed
<1>3. chunk.drain.seq \in Nat /\ Top(log) \in Nat /\ Top(log) < chunk.drain.seq
  BY TopNat, DrainFacts DEF Chunks, Follows
<1>4. \A n \in 1..Len(log) : log[n].drain.seq \in Nat
  BY ChunkFacts
<1>5. \A n \in 1..Len(longer) : longer[n].whole /\ longer[n].drain.seq <= Top(longer)
  <2> TAKE n \in 1..Len(longer)
  <2>1. CASE n = Len(log) + 1
    BY <1>1, <1>2, <1>3, <2>1 DEF Follows
  <2>2. CASE n \in 1..Len(log)
    BY <1>1, <1>2, <1>3, <1>4, <2>2 DEF Log
  <2>3. QED BY <1>1, <2>1, <2>2
<1>6. ASSUME NEW m \in 1..Top(longer)
      PROVE  \E n \in 1..Len(longer) : longer[n].drain.seq = m \/ m \in longer[n].lost
  <2>1. CASE m \in 1..Top(log)
    <3>1. PICK n \in 1..Len(log) : log[n].drain.seq = m \/ m \in log[n].lost
      BY <2>1 DEF Log
    <3>2. n \in 1..Len(longer) /\ longer[n] = log[n]
      BY <1>1
    <3>3. QED BY <3>1, <3>2
  <2>2. CASE m > Top(log)
    <3>1. m = chunk.drain.seq \/ m \in chunk.lost
      BY <1>2, <1>3, <1>6, <2>2 DEF Follows
    <3>2. QED BY <1>1, <3>1
  <2>3. QED BY <1>2, <1>3, <2>1, <2>2
<1>7. QED BY <1>1, <1>2, <1>5, <1>6 DEF Log

LEMMA EmptyLog ==
    /\ Log(<<>>) /\ Top(<<>>) = 0 /\ ~Closed(<<>>)
    /\ Newest(<<>>) = <<>>
<1>1. Least(RingSize, 0) = 0
  BY ServerAssumption DEF Least
<1>2. Newest(<<>>) = [n \in 1..0 |-> <<>>[Len(<<>>) - 0 + n].drain]
  BY <1>1 DEF Newest
<1>3. QED BY <1>2 DEF Log, Top, Closed

LEMMA NewestType ==
    ASSUME NEW log \in Seq(Chunks)
    PROVE  /\ Newest(log) \in Seq(Drains)
           /\ Len(Newest(log)) = Least(RingSize, Len(log))
           /\ \A n \in 1..Len(Newest(log)) :
                  /\ Len(log) - Len(Newest(log)) + n \in 1..Len(log)
                  /\ Newest(log)[n] = log[Len(log) - Len(Newest(log)) + n].drain
<1> DEFINE size == Least(RingSize, Len(log))
<1>1. size \in Nat /\ size <= Len(log)
  BY ServerAssumption DEF Least
<1>2. \A n \in 1..size : Len(log) - size + n \in 1..Len(log)
  BY <1>1
<1>3. \A n \in 1..size : log[Len(log) - size + n].drain \in Drains
  BY <1>2, ChunkFacts
<1>4. Newest(log) = [n \in 1..size |-> log[Len(log) - size + n].drain]
  BY DEF Newest
<1>5. Newest(log) \in [1..size -> Drains]
  BY <1>3, <1>4
<1>6. Newest(log) \in Seq(Drains) /\ Len(Newest(log)) = size
  BY <1>1, <1>5
<1>7. QED BY <1>2, <1>4, <1>6

\* What is remembered of a log is in it.
LEMMA NewestHeld ==
    ASSUME NEW log \in Seq(Chunks), NEW d, Remembered(Newest(log), d)
    PROVE  \E n \in 1..Len(log) : log[n].drain = d
BY NewestType DEF Remembered

\* _remember_digest keeps the newest digests of the log.
LEMMA NewestAppend ==
    ASSUME NEW log \in Seq(Chunks), NEW chunk \in Chunks
    PROVE  Newest(Append(log, chunk)) = Remember(Newest(log), chunk.drain)
<1> SUFFICES ASSUME NEW longer, longer = Append(log, chunk)
             PROVE  Newest(longer) = Remember(Newest(log), chunk.drain)
  OBVIOUS
<1> DEFINE old == Newest(log)
           all == Append(old, chunk.drain)
           new == Remember(old, chunk.drain)
<1>1. /\ longer \in Seq(Chunks) /\ Len(longer) = Len(log) + 1
      /\ longer[Len(log) + 1] = chunk
      /\ \A n \in 1..Len(log) : longer[n] = log[n]
  BY AppendProperties
<1>2. chunk.drain \in Drains
  BY DEF Chunks
<1>3. /\ old \in Seq(Drains) /\ Len(old) = Least(RingSize, Len(log))
      /\ \A n \in 1..Len(old) : /\ Len(log) - Len(old) + n \in 1..Len(log)
                                /\ old[n] = log[Len(log) - Len(old) + n].drain
  BY NewestType
<1>4. /\ all \in Seq(Drains) /\ Len(all) = Len(old) + 1
      /\ all[Len(old) + 1] = chunk.drain
      /\ \A n \in 1..Len(old) : all[n] = old[n]
  BY <1>2, <1>3, AppendProperties
<1>5. /\ Newest(longer) \in Seq(Drains)
      /\ Len(Newest(longer)) = Least(RingSize, Len(longer))
      /\ Len(longer) = Len(log) + 1
      /\ \A n \in 1..Len(Newest(longer)) :
             Newest(longer)[n] = longer[Len(longer) - Len(Newest(longer)) + n].drain
  BY <1>1, NewestType
<1>6. CASE Len(log) >= RingSize
  <2>1. Len(old) = RingSize /\ Len(Newest(longer)) = RingSize /\ RingSize \in Nat \ {0}
    BY <1>1, <1>3, <1>5, <1>6, ServerAssumption DEF Least
  <2>2. new = Tail(all)
    BY <1>4, <2>1 DEF Remember
  <2>3. /\ new \in Seq(Drains) /\ Len(new) = RingSize
        /\ \A n \in 1..RingSize : new[n] = all[n + 1]
    BY <1>4, <2>1, <2>2
  <2>4. ASSUME NEW n \in 1..RingSize PROVE Newest(longer)[n] = new[n]
    <3>1. Newest(longer)[n] = longer[Len(log) + 1 - RingSize + n].drain
      <4>1. n \in 1..Len(Newest(longer)) /\ Len(Newest(longer)) = RingSize
        BY <2>1, <2>4
      <4>2. Newest(longer)[n] = longer[Len(longer) - Len(Newest(longer)) + n].drain
        BY <1>5, <4>1
      <4>3. Len(longer) - Len(Newest(longer)) + n = Len(log) + 1 - RingSize + n
        BY <1>1, <4>1
      <4>4. QED BY <4>2, <4>3
    <3>2. CASE n = RingSize
      BY <1>1, <1>4, <2>1, <2>3, <3>1, <3>2
    <3>3. CASE n < RingSize
      <4>1. n + 1 \in 1..Len(old) /\ new[n] = all[n + 1] /\ all[n + 1] = old[n + 1]
        BY <1>4, <2>1, <2>3, <3>3
      <4>2. old[n + 1] = log[Len(log) - RingSize + (n + 1)].drain
        BY <1>3, <2>1, <4>1
      <4>3. /\ Len(log) - RingSize + (n + 1) \in 1..Len(log)
            /\ Len(log) - RingSize + (n + 1) = Len(log) + 1 - RingSize + n
        BY <1>3, <1>6, <2>1, <4>1
      <4>4. QED BY <1>1, <3>1, <4>1, <4>2, <4>3
    <3>4. QED BY <2>1, <3>2, <3>3
  <2>5. QED BY <1>5, <2>1, <2>3, <2>4, SeqEqual
<1>7. CASE Len(log) < RingSize
  <2>1. /\ Len(old) = Len(log) /\ Len(Newest(longer)) = Len(log) + 1 /\ RingSize \in Nat
    BY <1>3, <1>5, <1>7, ServerAssumption DEF Least
  <2>2. new = all
    BY <1>4, <1>7, <2>1 DEF Remember
  <2>3. ASSUME NEW n \in 1..(Len(log) + 1) PROVE Newest(longer)[n] = all[n]
    <3>1. Newest(longer)[n] = longer[n].drain
      BY <1>5, <2>1
    <3>2. CASE n = Len(log) + 1
      BY <1>1, <1>4, <2>1, <3>1, <3>2
    <3>3. CASE n \in 1..Len(log)
      BY <1>1, <1>3, <1>4, <2>1, <3>1, <3>3
    <3>4. n = Len(log) + 1 \/ n \in 1..Len(log)
      BY <1>1, <2>3
    <3>5. QED BY <3>2, <3>3, <3>4
  <2>4. QED BY <1>4, <1>5, <2>1, <2>2, <2>3, SeqEqual
<1>8. QED BY <1>1, <1>6, <1>7, ServerAssumption

-----------------------------------------------------------------------------
(* What the steps of the server leave as it was                            *)

LEMMA EmptyTypes ==
    /\ NoDrain \in MaybeDrain /\ NoDrain \notin Drains
    /\ NoIntent \in [size : Nat, drain : MaybeDrain]
    /\ NoLedger \in Ledgers /\ NoJournal \in Journals
    /\ NoCall \in Calls /\ NoLive \in Lives /\ NoSeal \in Seals
    /\ Idle \in Works /\ Down \in Works
<1>1. NoDrain \in MaybeDrain /\ NoDrain \notin Drains
  BY DrainFacts DEF MaybeDrain
<1>2. NoIntent \in [size : Nat, drain : MaybeDrain]
  BY <1>1 DEF NoIntent
<1>3. NoLedger \in Ledgers /\ NoCall \in Calls
  BY <1>1, <1>2 DEF NoLedger, Ledgers, NoCall, Calls
<1>4. NoJournal \in Journals /\ NoLive \in Lives /\ NoSeal \in Seals
  BY DEF NoJournal, Journals, NoLive, Lives, NoSeal, Seals
<1>5. Idle \in Works /\ Down \in Works
  BY <1>1 DEF Idle, Down, Working, Works
<1>6. QED BY <1>1, <1>2, <1>3, <1>4, <1>5

LEMMA CommittedType ==
    ASSUME ServerType, sidecar.pending # NoIntent => sidecar.pending.size <= Len(journal.chunks)
    PROVE  /\ journal.chunks \in Seq(Chunks) /\ CommittedChunks \in Seq(Chunks)
           /\ Held \in Seq(Chunks)
           /\ sidecar.pending \in [size : Nat, drain : MaybeDrain]
           /\ sidecar.pending # NoIntent =>
                  Len(CommittedChunks) = sidecar.pending.size
<1>1. journal.chunks \in Seq(Chunks) /\ sidecar.pending \in [size : Nat, drain : MaybeDrain]
  BY DEF ServerType, Journals, Ledgers
<1>2. CASE sidecar.pending # NoIntent
  <2>1. sidecar.pending.size \in 0..Len(journal.chunks)
    BY <1>1, <1>2
  <2>2. /\ SubSeq(journal.chunks, 1, sidecar.pending.size) \in Seq(Chunks)
        /\ Len(SubSeq(journal.chunks, 1, sidecar.pending.size)) = sidecar.pending.size
    BY <1>1, <2>1, SubSeqProperties
  <2>3. QED BY <1>1, <1>2, <2>2 DEF CommittedChunks, Held, ServerType
<1>3. CASE sidecar.pending = NoIntent
  BY <1>1, <1>3 DEF CommittedChunks, Held, ServerType
<1>4. QED BY <1>2, <1>3

LEMMA HeldFacts ==
    ASSUME ServerInv
    PROVE  /\ journal.chunks \in Seq(Chunks) /\ CommittedChunks \in Seq(Chunks)
           /\ Held \in Seq(Chunks) /\ Top(Held) \in Nat /\ (Top(Held) = 0 <=> Held = <<>>)
           /\ Closed(Held) \in BOOLEAN /\ (Closed(Held) => Held # <<>>)
           /\ Newest(Held) \in Seq(Drains)
<1>1. Held \in Seq(Chunks) /\ journal.chunks \in Seq(Chunks) /\ CommittedChunks \in Seq(Chunks)
  BY CommittedType DEF ServerInv, LedgerInv
<1>2. QED BY <1>1, TopNat, ClosedLast, NewestType

LEMMA HeldKept ==
    ASSUME UNCHANGED <<journal, artifact>>, sidecar'.pending = sidecar.pending
    PROVE  Held' = Held
BY DEF Held, CommittedChunks

\* A step that touches no file leaves the ledger true.
LEMMA DiskKept ==
    ASSUME ServerInv, UNCHANGED disk
    PROVE  Held' = Held /\ LedgerInv'
<1>1. Held' = Held
  BY HeldKept DEF disk
<1>2. QED BY <1>1 DEF ServerInv, LedgerInv, disk

\* _rebuild_call: from a ledger without an intent the call and the session are those of
\* the log.
LEMMA RebuiltTrue ==
    ASSUME ServerInv, NEW ledger, Rebuilt(ledger),
           ledger.applied = Top(Held), ledger.digests = Newest(Held), ledger.retry \in MaybeDrain,
           journal.chunks = Held
    PROVE  /\ call' \in Calls /\ live' \in Lives
           /\ call'.held /\ call'.applied = Top(Held) /\ call'.digests = Newest(Held)
           /\ call'.finalized = Closed(Held) /\ call'.retry = ledger.retry
           /\ IF live'.open THEN live'.chunks = Held /\ Held # <<>> ELSE live' = NoLive
           /\ live'.chunks = Held
<1>1. CASE ledger.applied = 0
  <2>1. Held = <<>>
    BY <1>1, HeldFacts
  <2>2. call' = [NoCall EXCEPT !.held = TRUE, !.retry = ledger.retry] /\ live' = live
    BY <1>1 DEF Rebuilt
  <2>3. live = NoLive
    BY <2>1 DEF ServerInv, MemoryInv
  <2>4. call' = [held |-> TRUE, applied |-> 0, digests |-> <<>>, retry |-> ledger.retry,
                 finalized |-> FALSE]
    BY <2>2 DEF NoCall
  <2>5. call' \in Calls
    BY <2>4 DEF Calls
  <2>6. Top(Held) = 0 /\ Newest(Held) = <<>> /\ Closed(Held) = FALSE
    BY <2>1, EmptyLog, HeldFacts
  <2>7. live' = [open |-> FALSE, chunks |-> <<>>] /\ live' \in Lives
    BY <2>2, <2>3, EmptyTypes DEF NoLive
  <2>8. /\ call'.held /\ call'.applied = Top(Held) /\ call'.digests = Newest(Held)
        /\ call'.finalized = Closed(Held) /\ call'.retry = ledger.retry
    BY <2>4, <2>6
  <2>9. live' = NoLive /\ ~live'.open /\ live'.chunks = Held
    BY <2>1, <2>2, <2>3, <2>7
  <2>10. QED BY <2>5, <2>7, <2>8, <2>9
<1>2. CASE ledger.applied # 0
  <2>1. Held # <<>>
    BY <1>2, HeldFacts
  <2>2. live' = [open |-> TRUE, chunks |-> Held]
    BY <1>2 DEF Rebuilt, ServerInv, MemoryInv
  <2>3. call' = [held |-> TRUE, applied |-> ledger.applied, digests |-> ledger.digests,
                 retry |-> ledger.retry, finalized |-> Closed(Held)]
    BY <1>2 DEF Rebuilt, ServerInv, MemoryInv
  <2>4. call' \in Calls /\ live' \in Lives
    BY <2>2, <2>3, HeldFacts DEF Calls, Lives
  <2>5. QED BY <2>1, <2>2, <2>3, <2>4
<1>3. QED BY <1>1, <1>2

\* A drain's lookup: what it takes up is of the log, and nothing durable changes.
LEMMA FindCallKeeps ==
    ASSUME ServerInv, NEW d \in Drains, NEW mine \in BOOLEAN, FindCall(d, mine)
    PROVE  ServerInv' /\ Held' = Held
<1> DEFINE Refused == UNCHANGED <<live, work>> /\ (UNCHANGED call \/ call' = NoCall)
           Taken(stage, after) == work' = [stage |-> stage, drain |-> d, after |-> after]
<1>1. /\ work.stage = "idle" /\ seal.stage # "marked" /\ UNCHANGED <<disk, seal>>
      /\ refusal' \in {refusal, NoDrain}
  BY DEF FindCall, LockFree, RefusalAfter
<1>2. Held' = Held /\ LedgerInv'
  BY <1>1, DiskKept
<1>3. \/ Refused
      \/ Taken("process", "none") /\ InMemory /\ UNCHANGED <<call, live>>
      \/ /\ Taken("process", "none") /\ ~sidecar.exists /\ ~InMemory /\ ~ReplayExpired
         /\ call' = [NoCall EXCEPT !.held = TRUE] /\ UNCHANGED live
      \/ /\ Taken("recover", "lookup") /\ sidecar.pending # NoIntent
         /\ call' = NoCall /\ UNCHANGED live
      \/ /\ Taken("process", "none") /\ sidecar.pending = NoIntent /\ sidecar.exists
         /\ IF sidecar.sealed THEN RebuiltSealed ELSE Rebuilt(sidecar)
  BY DEF FindCall, Working
<1>4. request' \in Requests
  BY DEF FindCall, ServerInv, ServerType, Requests
<1>5. UNCHANGED <<sidecar, journal, artifact>> /\ LedgerInv /\ MemoryInv /\ WorkInv /\ SealInv
  BY <1>1 DEF disk, ServerInv
<1>6. d # NoDrain /\ d \in MaybeDrain
  BY DrainFacts DEF MaybeDrain
<1>7. /\ call' \in Calls /\ live' \in Lives /\ work' \in Works
      /\ MemoryInv' /\ WorkInv'
  <2>1. CASE Refused
    <3>1. call' \in Calls /\ live' \in Lives /\ work' \in Works
      BY <2>1, EmptyTypes DEF ServerInv, ServerType
    <3>2. MemoryInv'
      BY <1>2, <1>5, <2>1 DEF MemoryInv, NoCall
    <3>3. WorkInv'
      BY <1>1, <1>5, <2>1 DEF WorkInv, NoCall
    <3>4. QED BY <3>1, <3>2, <3>3
  <2>2. CASE Taken("process", "none") /\ InMemory /\ UNCHANGED <<call, live>>
    <3>1. call' \in Calls /\ live' \in Lives /\ work' \in Works
      BY <1>6, <2>2 DEF ServerInv, ServerType, Works
    <3>2. MemoryInv'
      BY <1>2, <1>5, <2>2 DEF MemoryInv
    <3>3. WorkInv'
      BY <1>1, <1>2, <1>5, <1>6, <2>2 DEF WorkInv, MemoryInv, InMemory
    <3>4. QED BY <3>1, <3>2, <3>3
  <2>3. CASE /\ Taken("process", "none") /\ ~sidecar.exists /\ ~InMemory /\ ~ReplayExpired
             /\ call' = [NoCall EXCEPT !.held = TRUE] /\ UNCHANGED live
    <3>1. call' = [held |-> TRUE, applied |-> 0, digests |-> <<>>, retry |-> NoDrain,
                   finalized |-> FALSE]
      BY <2>3 DEF NoCall
    <3>2. call' \in Calls /\ live' \in Lives /\ work' \in Works
      BY <1>6, <2>3, <3>1, EmptyTypes DEF ServerInv, ServerType, Works, Calls
    <3>3. sidecar = NoLedger /\ journal = NoJournal /\ sidecar.pending = NoIntent
      BY <1>5, <2>3 DEF LedgerInv, NoLedger
    <3>4. artifact = <<>>
      BY <1>5, <2>3 DEF LedgerInv, MemoryInv, ReplayExpired, InMemory
    <3>5. Held = <<>>
      BY <3>3, <3>4 DEF Held, CommittedChunks, NoJournal
    <3>6. Top(Held) = 0 /\ Newest(Held) = <<>> /\ Closed(Held) = FALSE
      BY <3>5, EmptyLog, HeldFacts
    <3>7. MemoryInv'
      <4>1. call'.applied = Top(Held) /\ call'.digests = Newest(Held)
            /\ call'.finalized = Closed(Held) /\ call'.retry = sidecar.retry
        BY <3>1, <3>3, <3>6 DEF NoLedger
      <4>2. QED BY <1>2, <1>5, <2>3, <3>1, <4>1 DEF MemoryInv
    <3>8. live.chunks = Held
      BY <1>5, <3>5 DEF MemoryInv, NoLive
    <3>9. WorkInv'
      BY <1>1, <1>2, <1>5, <1>6, <2>3, <3>1, <3>3, <3>8 DEF WorkInv
    <3>10. QED BY <3>2, <3>7, <3>9
  <2>4. CASE /\ Taken("recover", "lookup") /\ sidecar.pending # NoIntent
             /\ call' = NoCall /\ UNCHANGED live
    <3>1. call' \in Calls /\ live' \in Lives /\ work' \in Works
      BY <1>6, <2>4, EmptyTypes DEF ServerInv, ServerType, Works
    <3>2. MemoryInv'
      BY <1>2, <1>5, <2>4 DEF MemoryInv, NoCall
    <3>3. WorkInv'
      BY <1>1, <1>5, <1>6, <2>4 DEF WorkInv, NoCall
    <3>4. QED BY <3>1, <3>2, <3>3
  <2>5. CASE /\ Taken("process", "none") /\ sidecar.pending = NoIntent /\ sidecar.exists
             /\ sidecar.sealed /\ RebuiltSealed
    <3>1. Closed(Held) /\ sidecar.retry = NoDrain
      BY <1>5, <2>5 DEF LedgerInv
    <3>2. call' = [held |-> TRUE, applied |-> Top(Held), digests |-> Newest(Held),
                   retry |-> NoDrain, finalized |-> TRUE] /\ UNCHANGED live
      BY <1>5, <2>5 DEF LedgerInv, RebuiltSealed
    <3>3. call' \in Calls /\ live' \in Lives /\ work' \in Works
      BY <1>6, <2>5, <3>2, EmptyTypes, HeldFacts DEF ServerInv, ServerType, Works, Calls
    <3>4. MemoryInv'
      BY <1>2, <1>5, <3>1, <3>2, HeldFacts DEF MemoryInv
    <3>5. WorkInv'
      BY <1>1, <1>2, <1>5, <1>6, <2>5, <3>1, <3>2 DEF WorkInv
    <3>6. QED BY <3>3, <3>4, <3>5
  <2>6. CASE /\ Taken("process", "none") /\ sidecar.pending = NoIntent /\ sidecar.exists
             /\ ~sidecar.sealed /\ Rebuilt(sidecar)
    <3>1. journal.chunks = Held
      BY <1>5, <2>6 DEF LedgerInv, Held, CommittedChunks
    <3>2. sidecar.applied = Top(Held) /\ sidecar.digests = Newest(Held)
          /\ sidecar.retry \in MaybeDrain
      BY <1>5, <2>6 DEF LedgerInv, ServerInv, ServerType, Ledgers
    <3>3. /\ call' \in Calls /\ live' \in Lives
          /\ call'.held /\ call'.applied = Top(Held) /\ call'.digests = Newest(Held)
          /\ call'.finalized = Closed(Held) /\ call'.retry = sidecar.retry
          /\ IF live'.open THEN live'.chunks = Held /\ Held # <<>> ELSE live' = NoLive
          /\ live'.chunks = Held
      BY <2>6, <3>1, <3>2, RebuiltTrue
    <3>4. work' \in Works
      BY <1>6, <2>6 DEF Works
    <3>5. MemoryInv'
      BY <1>2, <1>5, <3>3 DEF MemoryInv
    <3>6. WorkInv'
      BY <1>1, <1>2, <1>5, <1>6, <2>6, <3>3 DEF WorkInv
    <3>7. QED BY <3>3, <3>4, <3>5, <3>6
  <2>7. QED BY <1>3, <2>1, <2>2, <2>3, <2>4, <2>5, <2>6
<1>8. SealInv'
  BY <1>1, <1>2, <1>5 DEF SealInv
<1>9. ServerType'
  BY <1>1, <1>4, <1>5, <1>7, EmptyTypes DEF ServerInv, ServerType
<1>10. QED BY <1>2, <1>7, <1>8, <1>9 DEF ServerInv

-----------------------------------------------------------------------------
(* The steps of a drain                                                    *)

LEMMA SubSeqWhole ==
    ASSUME NEW S, NEW s \in Seq(S)
    PROVE  SubSeq(s, 1, Len(s)) = s
BY SubSeqFull

LEMMA SubSeqOfAppend ==
    ASSUME NEW S, NEW s \in Seq(S), NEW e \in S
    PROVE  SubSeq(Append(s, e), 1, Len(s)) = s
<1>1. /\ Append(s, e) \in Seq(S) /\ Len(Append(s, e)) = Len(s) + 1
      /\ \A i \in 1..Len(s) : Append(s, e)[i] = s[i]
  BY AppendProperties
<1>2. /\ SubSeq(Append(s, e), 1, Len(s)) \in Seq(S)
      /\ Len(SubSeq(Append(s, e), 1, Len(s))) = Len(s)
      /\ \A i \in 1..Len(s) : SubSeq(Append(s, e), 1, Len(s))[i] = s[i]
  BY <1>1
<1>3. QED BY <1>2, SeqEqual

\* A drain that may be applied extends the log by exactly what is missing before it.
LEMMA ApplyFollows ==
    ASSUME ServerInv, call.held, NEW d \in Drains, Classify(d) = "apply"
    PROVE  Follows(Chunk(d), Top(Held)) /\ Chunk(d) \in Chunks /\ Chunk(d).drain = d
<1>1. call.applied = Top(Held) /\ Top(Held) \in Nat
  BY HeldFacts DEF ServerInv, MemoryInv
<1>2. d.seq \in Nat /\ d.from \in Nat /\ d.from < d.seq
  BY DrainFacts
<1>3. /\ d.seq > call.applied
      /\ d.seq = call.applied + 1 \/ (d.through = d.seq - 1 /\ d.from <= call.applied + 1)
  <2>1. d.seq > call.applied
    <3>1. ASSUME d.seq <= call.applied PROVE FALSE
      <4>1. Classify(d) = IF Remembered(call.digests, d) THEN "replay" ELSE "conflict"
        BY <1>1, <1>2, <3>1 DEF Classify
      <4>2. QED BY <4>1
    <3>2. QED BY <1>1, <1>2, <3>1
  <2>2. call.retry \in {NoDrain, d}
    <3>1. ASSUME call.retry \notin {NoDrain, d} PROVE FALSE
      <4>1. Classify(d) = "conflict"
        BY <1>1, <1>2, <2>1, <3>1 DEF Classify
      <4>2. QED BY <4>1
    <3>2. QED BY <3>1
  <2>3. ASSUME d.seq # call.applied + 1
        PROVE  d.through = d.seq - 1 /\ d.from <= call.applied + 1
    <3>1. Classify(d) = IF Declares(d) /\ d.through = d.seq - 1 /\ d.from <= call.applied + 1
                        THEN "apply" ELSE "gap"
      BY <1>1, <1>2, <2>1, <2>2, <2>3 DEF Classify
    <3>2. QED BY <3>1
  <2>4. QED BY <2>1, <2>3
<1>4. Lost(d) = (Top(Held) + 1)..(d.seq - 1)
  <2>1. CASE d.seq = call.applied + 1
    BY <1>1, <1>2, <2>1 DEF Lost
  <2>2. CASE d.seq # call.applied + 1
    <3>1. Lost(d) = {n \in d.from..(d.seq - 1) : n > call.applied}
      BY <1>3, <2>2 DEF Lost
    <3>2. \A n : n \in Lost(d) <=> n \in (call.applied + 1)..(d.seq - 1)
      BY <1>1, <1>2, <1>3, <2>2, <3>1
    <3>3. QED BY <1>1, <3>2
  <2>3. QED BY <2>1, <2>2
<1>5. Lost(d) \in SUBSET Nat
  BY <1>1, <1>2, <1>4
<1>6. QED BY <1>1, <1>3, <1>4, <1>5 DEF Chunk, Chunks, Follows

\* While an intent stands, or a drain may still be applied, the call is not over: the
\* journal is all there is of it.
LEMMA StillOpen ==
    ASSUME ServerInv, ~Closed(Held)
    PROVE  /\ artifact = <<>> /\ Held = CommittedChunks /\ ~sidecar.sealed
           /\ sidecar.applied = Top(Held) /\ sidecar.digests = Newest(Held)
           /\ sidecar.finalized = FALSE
<1>1. artifact = <<>>
  BY DEF ServerInv, LedgerInv
<1>2. Held = CommittedChunks /\ ~sidecar.sealed
  BY <1>1 DEF Held, ServerInv, LedgerInv
<1>3. CASE sidecar.exists
  BY <1>1, <1>2, <1>3, HeldFacts DEF ServerInv, LedgerInv
<1>4. CASE ~sidecar.exists
  <2>1. sidecar = NoLedger /\ journal = NoJournal
    BY <1>4 DEF ServerInv, LedgerInv
  <2>2. Held = <<>>
    BY <1>2, <2>1 DEF CommittedChunks, NoLedger, NoJournal
  <2>3. Top(Held) = 0 /\ Newest(Held) = <<>>
    BY <2>2, EmptyLog
  <2>4. QED BY <1>1, <1>2, <2>1, <2>3 DEF NoLedger
<1>5. QED BY <1>3, <1>4

LEMMA IntentOpen ==
    ASSUME ServerInv, sidecar.pending # NoIntent
    PROVE  /\ ~Closed(Held) /\ sidecar.exists
           /\ sidecar.pending.size \in 0..Len(journal.chunks)
           /\ Held = SubSeq(journal.chunks, 1, sidecar.pending.size)
           /\ Len(Held) = sidecar.pending.size
           /\ sidecar.pending.drain \in Drains /\ sidecar.pending.drain.seq > Top(Held)
<1>1. ~Closed(Held) /\ sidecar.exists
  BY DEF ServerInv, LedgerInv, NoLedger
<1>2. Held = CommittedChunks
  BY <1>1, StillOpen
<1>3. sidecar.pending \in [size : Nat, drain : MaybeDrain]
      /\ sidecar.pending.size <= Len(journal.chunks)
      /\ sidecar.pending.drain # NoDrain /\ sidecar.pending.drain.seq > Top(Held)
  BY DEF ServerInv, ServerType, LedgerInv, Ledgers
<1>4. QED BY <1>1, <1>2, <1>3, CommittedType, HeldFacts
          DEF ServerInv, CommittedChunks, MaybeDrain

\* The intent of a drain covers the frames the journal has.
LEMMA IntentKeeps ==
    ASSUME ServerInv, NEW d \in Drains, d.seq > Top(Held), ~Closed(Held),
           sidecar.pending = NoIntent, UNCHANGED <<journal, artifact>>,
           sidecar' = [sidecar EXCEPT !.exists = TRUE, !.expired = FALSE,
                                      !.pending = [size |-> Len(journal.chunks), drain |-> d]]
    PROVE  Held' = Held /\ LedgerInv' /\ sidecar' \in Ledgers /\ sidecar'.pending # NoIntent
<1>1. /\ artifact = <<>> /\ Held = CommittedChunks /\ ~sidecar.sealed
      /\ sidecar.applied = Top(Held) /\ sidecar.digests = Newest(Held)
      /\ sidecar.finalized = FALSE
  BY StillOpen
<1>2. sidecar \in Ledgers /\ journal.chunks \in Seq(Chunks) /\ Len(journal.chunks) \in Nat
  BY HeldFacts DEF ServerInv, ServerType
<1>3. /\ sidecar' \in Ledgers
      /\ sidecar'.pending = [size |-> Len(journal.chunks), drain |-> d]
      /\ sidecar'.exists /\ sidecar'.applied = sidecar.applied
      /\ sidecar'.digests = sidecar.digests /\ sidecar'.finalized = sidecar.finalized
      /\ sidecar'.retry = sidecar.retry /\ sidecar'.sealed = sidecar.sealed
  BY <1>2 DEF Ledgers, MaybeDrain
<1>4. d # NoDrain /\ sidecar'.pending # NoIntent
  BY <1>3, DrainFacts DEF NoIntent
<1>5. Held' = Held
  <2>1. Held = journal.chunks
    BY <1>1 DEF CommittedChunks
  <2>2. Held' = SubSeq(journal.chunks, 1, Len(journal.chunks))
    BY <1>1, <1>3, <1>4 DEF Held, CommittedChunks
  <2>3. QED BY <1>2, <2>1, <2>2, SubSeqWhole
<1>6. LedgerInv'
  <2>1. LedgerInv
    BY DEF ServerInv
  <2>2. /\ Log(Held')
        /\ sidecar'.applied = Top(Held') /\ sidecar'.digests = Newest(Held')
        /\ sidecar'.finalized = Closed(Held') /\ ~Closed(Held')
    BY <1>1, <1>3, <1>5, <2>1, HeldFacts DEF LedgerInv
  <2>3. journal'.exists <=> journal'.chunks # <<>>
    BY <2>1 DEF LedgerInv
  <2>4. sidecar'.retry # NoDrain => sidecar'.retry.seq > Top(Held')
    BY <1>3, <1>5, <2>1 DEF LedgerInv
  <2>5. /\ sidecar'.pending.drain # NoDrain
        /\ sidecar'.pending.drain.seq > Top(Held')
        /\ sidecar'.pending.size <= Len(journal'.chunks)
    BY <1>2, <1>3, <1>4, <1>5
  <2>6. QED BY <1>1, <1>3, <2>2, <2>3, <2>4, <2>5 DEF LedgerInv
<1>7. QED BY <1>3, <1>4, <1>5, <1>6

LEMMA AnswerType ==
    ASSUME ServerInv, NEW status \in Requests, Answer(status)
    PROVE  request' \in Requests
BY DEF Answer, ServerInv, ServerType

LEMMA ProcessKeeps ==
    ASSUME ServerInv, Process
    PROVE  ServerInv' /\ Held' = Held
<1> DEFINE d == work.drain
           intent == [sidecar EXCEPT !.exists = TRUE, !.expired = FALSE,
                                     !.pending = [size |-> Len(journal.chunks), drain |-> d]]
<1>1. /\ work.stage = "process" /\ UNCHANGED <<journal, artifact, call, live, seal>>
      /\ refusal' \in {refusal, NoDrain}
  BY DEF Process
<1>2. /\ ServerType /\ LedgerInv /\ MemoryInv /\ WorkInv /\ SealInv
      /\ d \in Drains /\ call.held /\ sidecar.pending = NoIntent
      /\ Closed(Held) \/ live.chunks = Held
  BY <1>1 DEF ServerInv, ServerType, WorkInv, Works, MaybeDrain
<1>3. \/ UNCHANGED sidecar /\ work' = Idle
      \/ /\ Classify(d) = "apply" /\ ~call.finalized /\ sidecar' = intent
         /\ \/ work' = [work EXCEPT !.stage = "append"]
            \/ work' = [work EXCEPT !.stage = "recover", !.after = "retry"]
  BY DEF Process
<1>4. request' \in Requests
  <2>1. \/ UNCHANGED request
        \/ \E status \in {"ok", "refused", "retry"} : Answer(status)
    BY DEF Process
  <2>2. QED BY <1>2, <2>1, AnswerType DEF Requests, ServerType
<1>5. CASE UNCHANGED sidecar /\ work' = Idle
  <2>1. Held' = Held /\ LedgerInv'
    BY <1>1, <1>5, DiskKept DEF disk
  <2>2. MemoryInv' /\ WorkInv' /\ SealInv'
    BY <1>1, <1>2, <1>5, <2>1 DEF MemoryInv, WorkInv, SealInv, Idle, Working
  <2>3. ServerType'
    BY <1>1, <1>2, <1>4, <1>5, EmptyTypes DEF ServerType
  <2>4. QED BY <2>1, <2>2, <2>3 DEF ServerInv
<1>6. CASE /\ Classify(d) = "apply" /\ ~call.finalized /\ sidecar' = intent
           /\ \/ work' = [work EXCEPT !.stage = "append"]
              \/ work' = [work EXCEPT !.stage = "recover", !.after = "retry"]
  <2>1. Follows(Chunk(d), Top(Held)) /\ Chunk(d).drain = d
    BY <1>2, <1>6, ApplyFollows
  <2>2. ~Closed(Held) /\ d.seq > Top(Held) /\ live.chunks = Held
    BY <1>2, <1>6, <2>1 DEF MemoryInv, Follows
  <2>3. Held' = Held /\ LedgerInv' /\ sidecar' \in Ledgers /\ sidecar'.pending # NoIntent
    BY <1>1, <1>2, <1>6, <2>2, IntentKeeps
  <2>4. /\ sidecar'.pending = [size |-> Len(journal.chunks), drain |-> d]
        /\ sidecar'.retry = sidecar.retry /\ sidecar'.sealed = sidecar.sealed
    BY <1>2, <1>6 DEF ServerType, Ledgers
  <2>5. /\ work' \in Works /\ work'.drain = d
        /\ work'.stage = "append" \/ (work'.stage = "recover" /\ work'.after = "retry")
    BY <1>2, <1>6 DEF ServerType, Works
  <2>6. d # NoDrain
    BY <1>2, DrainFacts
  <2>7. MemoryInv'
    <3>1. call' = call /\ live' = live /\ Held' = Held /\ sidecar'.retry = sidecar.retry
      BY <1>1, <2>3, <2>4
    <3>2. QED BY <1>2, <3>1 DEF MemoryInv
  <2>8. Chunk(work.drain)' = Chunk(d)
    BY <1>1, <2>5 DEF Chunk, Lost
  <2>9. WorkInv'
    BY <1>1, <1>2, <2>1, <2>2, <2>3, <2>4, <2>5, <2>6, <2>8 DEF WorkInv, Applying
  <2>10. SealInv'
    BY <1>1, <1>2, <2>3, <2>4 DEF SealInv
  <2>11. ServerType'
    BY <1>1, <1>2, <1>4, <2>3, <2>5, EmptyTypes DEF ServerType
  <2>12. QED BY <2>3, <2>7, <2>9, <2>10, <2>11 DEF ServerInv
<1>7. QED BY <1>3, <1>5, <1>6

\* Frames past an intent, whole or torn, are no part of the log.
LEMMA ExtendedKeeps ==
    ASSUME ServerInv, NEW chunk \in Chunks, sidecar.pending # NoIntent,
           sidecar.pending.size = Len(journal.chunks),
           UNCHANGED <<sidecar, artifact>>, journal' = Extended(chunk)
    PROVE  Held' = Held /\ LedgerInv' /\ journal' \in Journals
<1>1. /\ ~Closed(Held) /\ artifact = <<>> /\ journal.chunks \in Seq(Chunks)
      /\ Held = SubSeq(journal.chunks, 1, Len(journal.chunks))
  BY IntentOpen, StillOpen, HeldFacts
<1>2. /\ journal'.exists /\ journal'.chunks = Append(journal.chunks, chunk)
      /\ journal'.chunks \in Seq(Chunks) /\ journal'.chunks # <<>>
      /\ Len(journal'.chunks) = Len(journal.chunks) + 1 /\ Len(journal.chunks) \in Nat
  BY <1>1, AppendProperties DEF Extended
<1>3. journal' \in Journals
  BY <1>1, <1>2 DEF Extended, Journals
<1>4. Held' = SubSeq(journal'.chunks, 1, Len(journal.chunks))
  BY <1>1 DEF Held, CommittedChunks
<1>5. Held' = Held
  BY <1>1, <1>2, <1>4, SubSeqOfAppend, SubSeqWhole
<1>6. sidecar'.exists /\ sidecar.exists
  BY DEF ServerInv, LedgerInv, NoLedger
<1>7. sidecar'.pending.size <= Len(journal'.chunks)
  BY <1>2
<1>8. LedgerInv'
  BY <1>1, <1>2, <1>5, <1>6, <1>7 DEF ServerInv, LedgerInv
<1>9. QED BY <1>3, <1>5, <1>8

LEMMA AppendFramesKeeps ==
    ASSUME ServerInv, AppendFrames
    PROVE  ServerInv' /\ Held' = Held
<1> DEFINE d == work.drain
<1>1. /\ work.stage = "append" /\ UNCHANGED <<sidecar, artifact, call, live, refusal, request, seal>>
  BY DEF AppendFrames, memory
<1>2. /\ ServerType /\ LedgerInv /\ MemoryInv /\ WorkInv /\ SealInv
      /\ Applying(Len(journal.chunks)) /\ d \in Drains
  BY <1>1 DEF ServerInv, ServerType, WorkInv, Applying, Works, MaybeDrain
<1>3. /\ sidecar.pending = [size |-> Len(journal.chunks), drain |-> d]
      /\ sidecar.pending # NoIntent /\ sidecar.pending.size = Len(journal.chunks)
      /\ Held = journal.chunks /\ journal.chunks \in Seq(Chunks)
  <2>1. sidecar.pending # NoIntent
    BY <1>2, DrainFacts DEF Applying, NoIntent
  <2>2. /\ sidecar.pending = [size |-> Len(journal.chunks), drain |-> d]
        /\ sidecar.pending.size = Len(journal.chunks)
    BY <1>2 DEF Applying
  <2>3. Held = SubSeq(journal.chunks, 1, Len(journal.chunks)) /\ journal.chunks \in Seq(Chunks)
    BY <2>1, <2>2, IntentOpen, HeldFacts
  <2>4. QED BY <2>1, <2>2, <2>3, SubSeqWhole
<1>4. Chunk(d) \in Chunks /\ Torn(d) \in Chunks
  <2>1. Lost(d) \in SUBSET Nat
    <3>1. d.seq \in Nat /\ Top(Held) \in Nat
      BY <1>2, DrainFacts, HeldFacts
    <3>2. Lost(d) = (Top(Held) + 1)..(d.seq - 1)
      BY <1>2 DEF Applying, Follows, Chunk
    <3>3. QED BY <3>1, <3>2
  <2>2. Chunk(d) \in Chunks
    BY <1>2, <2>1 DEF Chunk, Chunks
  <2>3. Torn(d) \in Chunks
    BY <2>2 DEF Torn, Chunks
  <2>4. QED BY <2>2, <2>3
<1>5. /\ work' \in Works /\ work'.drain = d
      /\ \/ /\ work'.stage = "commit" /\ journal' = Extended(Chunk(d))
         \/ /\ work'.stage = "recover" /\ work'.after \in {"retry", "too_large"}
            /\ journal' = journal \/ journal' = Extended(Torn(d))
  <2>1. \/ /\ work' = [work EXCEPT !.stage = "commit"] /\ journal' = Extended(Chunk(d))
        \/ \E status \in {"retry", "too_large"} :
               /\ work' = [work EXCEPT !.stage = "recover", !.after = status]
               /\ journal' = journal \/ journal' = Extended(Torn(d))
    BY DEF AppendFrames, Failed
  <2>2. QED BY <1>2, <2>1 DEF ServerType, Works
<1>6. Held' = Held /\ LedgerInv' /\ journal' \in Journals
  <2>1. CASE journal' = journal
    BY <1>1, <1>2, <2>1, DiskKept DEF disk, ServerType
  <2>2. CASE \E chunk \in Chunks : journal' = Extended(chunk)
    BY <1>1, <1>3, <2>2, ExtendedKeeps
  <2>3. QED BY <1>4, <1>5, <2>1, <2>2
<1>7. MemoryInv' /\ SealInv'
  BY <1>1, <1>2, <1>5, <1>6 DEF MemoryInv, SealInv
<1>8. WorkInv'
  <2>1. Chunk(work.drain)' = Chunk(d)
    BY <1>1, <1>5 DEF Chunk, Lost
  <2>2. d # NoDrain /\ sidecar'.pending = sidecar.pending /\ call' = call /\ live' = live
    BY <1>1, <1>2 DEF Applying
  <2>3. CASE work'.stage = "commit" /\ journal' = Extended(Chunk(d))
    <3>1. journal'.chunks = Append(Held, Chunk(d)) /\ Len(journal'.chunks) - 1 = Len(journal.chunks)
      BY <1>3, <1>4, <2>3 DEF Extended
    <3>2. QED BY <1>2, <1>5, <1>6, <2>1, <2>2, <2>3, <3>1 DEF WorkInv, Applying
  <2>4. CASE work'.stage = "recover" /\ work'.after \in {"retry", "too_large"}
    BY <1>2, <1>3, <1>5, <2>2, <2>4 DEF WorkInv
  <2>5. QED BY <1>5, <2>3, <2>4
<1>9. ServerType'
  BY <1>1, <1>2, <1>5, <1>6 DEF ServerType
<1>10. QED BY <1>6, <1>7, <1>8, <1>9 DEF ServerInv

\* The commit of a drain: the log is extended by the drain, and by nothing else.
LEMMA CommittedTrue ==
    ASSUME ServerInv, work.stage = "commit", UNCHANGED <<journal, artifact>>,
           sidecar' = Committed(work.drain)
    PROVE  /\ Held' = Append(Held, Chunk(work.drain)) /\ LedgerInv'
           /\ work.drain \in Drains /\ Chunk(work.drain) \in Chunks
           /\ Held' \in Seq(Chunks) /\ Held' # <<>>
           /\ Top(Held') = work.drain.seq /\ Closed(Held') = work.drain.end
           /\ Newest(Held') = Remember(Newest(Held), work.drain)
           /\ sidecar' \in Ledgers /\ sidecar'.pending = NoIntent /\ sidecar'.retry = NoDrain
<1> DEFINE d == work.drain
<1>1. /\ ServerType /\ LedgerInv /\ WorkInv /\ Applying(Len(journal.chunks) - 1)
      /\ journal.chunks = Append(Held, Chunk(d)) /\ d \in Drains
      /\ Follows(Chunk(d), Top(Held)) /\ ~Closed(Held)
  BY DEF ServerInv, ServerType, WorkInv, Applying, Works, MaybeDrain
<1>2. /\ artifact = <<>> /\ ~sidecar.sealed
      /\ sidecar.applied = Top(Held) /\ sidecar.digests = Newest(Held)
  BY <1>1, StillOpen
<1>3. Held \in Seq(Chunks) /\ Top(Held) \in Nat /\ journal.chunks \in Seq(Chunks)
      /\ d.seq \in Nat /\ d.end \in BOOLEAN /\ d # NoDrain
  BY <1>1, HeldFacts, DrainFacts
<1>4. sidecar.pending # NoIntent /\ sidecar.exists
  BY <1>1, <1>3 DEF Applying, NoIntent, LedgerInv, NoLedger
<1>5. Chunk(d).drain = d /\ Chunk(d) \in Chunks
  <2>1. Lost(d) = (Top(Held) + 1)..(d.seq - 1)
    BY <1>1 DEF Follows, Chunk
  <2>2. QED BY <1>1, <1>3, <2>1 DEF Chunk, Chunks
<1>6. /\ Append(Held, Chunk(d)) \in Seq(Chunks)
      /\ Log(Append(Held, Chunk(d))) /\ Append(Held, Chunk(d)) # <<>>
      /\ Top(Append(Held, Chunk(d))) = d.seq /\ Closed(Append(Held, Chunk(d))) = d.end
      /\ Newest(Append(Held, Chunk(d))) = Remember(Newest(Held), d)
  BY <1>1, <1>3, <1>5, LogAppend, NewestAppend DEF LedgerInv
<1>7. /\ sidecar'.exists = sidecar.exists /\ sidecar'.applied = d.seq
      /\ sidecar'.digests = Remember(sidecar.digests, d) /\ sidecar'.finalized = d.end
      /\ sidecar'.pending = NoIntent /\ sidecar'.retry = NoDrain
      /\ sidecar'.sealed = sidecar.sealed
  BY <1>1 DEF Committed, ServerType, Ledgers
<1>8. Held' = Append(Held, Chunk(d))
  BY <1>1, <1>2, <1>7 DEF Held, CommittedChunks
<1>9. Newest(Held') \in Seq(Drains)
  BY <1>6, <1>8, NewestType
<1>10. sidecar' \in Ledgers
  <2>1. sidecar \in Ledgers /\ Remember(sidecar.digests, d) \in Seq(Drains)
    BY <1>1, <1>2, <1>6, <1>8, <1>9 DEF ServerType
  <2>2. QED BY <1>3, <2>1, EmptyTypes DEF Committed, Ledgers
<1>11. /\ sidecar'.exists /\ ~sidecar'.sealed /\ sidecar'.applied = Top(Held')
       /\ sidecar'.digests = Newest(Held') /\ sidecar'.finalized = Closed(Held')
       /\ sidecar'.pending = NoIntent /\ sidecar'.retry = NoDrain
  BY <1>2, <1>4, <1>6, <1>7, <1>8
<1>12. LedgerInv'
  <2>1. Log(Held') /\ artifact' = <<>>
    BY <1>2, <1>6, <1>8
  <2>2. journal'.exists <=> journal'.chunks # <<>>
    BY <1>1 DEF LedgerInv
  <2>3. QED BY <1>11, <2>1, <2>2 DEF LedgerInv
<1>13. QED BY <1>1, <1>5, <1>6, <1>8, <1>10, <1>11, <1>12

LEMMA CommitKeeps ==
    ASSUME ServerInv, Commit
    PROVE  /\ ServerInv'
           /\ \/ Held' = Held
              \/ /\ Held' = Append(Held, Chunk(work.drain)) /\ work.stage = "commit"
                 /\ Held' \in Seq(Chunks) /\ Chunk(work.drain) \in Chunks
                 /\ Top(Held') = work.drain.seq
<1> DEFINE d == work.drain
<1>1. work.stage = "commit" /\ UNCHANGED <<journal, artifact, seal>>
  BY DEF Commit
<1>2. /\ ServerType /\ LedgerInv /\ MemoryInv /\ WorkInv /\ SealInv
      /\ Applying(Len(journal.chunks) - 1) /\ journal.chunks = Append(Held, Chunk(d))
  BY <1>1 DEF ServerInv, WorkInv
<1>3. seal.stage # "marked" /\ seal.stage # "taken"
      /\ seal.stage \notin {"ingested", "marked", "removed"}
  BY <1>1, <1>2, StillOpen DEF SealInv, Applying, ServerInv
<1>4. request' \in Requests
  <2>1. \/ UNCHANGED request
        \/ \E status \in {"ok", "retry"} : Answer(status)
    BY DEF Commit
  <2>2. QED BY <1>2, <2>1, AnswerType DEF Requests, ServerType
<1>5. CASE UNCHANGED <<sidecar, memory>> /\ Failed("retry")
  <2>1. Held' = Held /\ LedgerInv'
    BY <1>1, <1>5, DiskKept DEF disk
  <2>2. MemoryInv' /\ SealInv'
    BY <1>1, <1>2, <1>3, <1>5, <2>1 DEF MemoryInv, SealInv, memory
  <2>3. /\ work' \in Works /\ work'.stage = "recover" /\ work'.after = "retry"
        /\ work'.drain = d
    BY <1>2, <1>5 DEF Failed, ServerType, Works
  <2>4. sidecar'.pending # NoIntent /\ d # NoDrain
    BY <1>2, <1>5 DEF Applying, NoIntent
  <2>5. WorkInv'
    BY <2>3, <2>4 DEF WorkInv
  <2>6. ServerType'
    BY <1>1, <1>2, <1>4, <1>5, <2>3 DEF ServerType, memory
  <2>7. QED BY <2>1, <2>2, <2>5, <2>6 DEF ServerInv
<1>6. CASE sidecar' = Committed(d) /\ work' = Idle
  <2>1. /\ Held' = Append(Held, Chunk(d)) /\ LedgerInv'
        /\ d \in Drains /\ Chunk(d) \in Chunks
        /\ Held' \in Seq(Chunks) /\ Held' # <<>>
        /\ Top(Held') = d.seq /\ Closed(Held') = d.end
        /\ Newest(Held') = Remember(Newest(Held), d)
        /\ sidecar' \in Ledgers /\ sidecar'.pending = NoIntent /\ sidecar'.retry = NoDrain
    BY <1>1, <1>6, CommittedTrue
  <2>2. \/ /\ live' = [open |-> TRUE, chunks |-> Append(live.chunks, Chunk(d))]
           /\ call' = [held |-> TRUE, applied |-> d.seq, retry |-> NoDrain,
                       digests |-> Remember(call.digests, d), finalized |-> d.end]
           /\ refusal' = NoDrain
        \/ live' = NoLive /\ call' = NoCall /\ UNCHANGED refusal
    BY <1>5, <1>6 DEF Commit, Failed, Idle, Working
  <2>3. live.chunks = Held /\ call.digests = Newest(Held)
    BY <1>2 DEF Applying, MemoryInv
  <2>4. Newest(Held') \in Seq(Drains) /\ d.seq \in Nat /\ d.end \in BOOLEAN
    BY <2>1, NewestType, DrainFacts
  <2>5. call' \in Calls /\ live' \in Lives /\ refusal' \in MaybeDrain /\ MemoryInv'
    <3>1. CASE /\ live' = [open |-> TRUE, chunks |-> Held']
               /\ call' = [held |-> TRUE, applied |-> d.seq, retry |-> NoDrain,
                           digests |-> Newest(Held'), finalized |-> d.end]
               /\ refusal' = NoDrain
      <4>1. call' \in Calls /\ live' \in Lives
        BY <2>1, <2>4, <3>1, EmptyTypes DEF Calls, Lives
      <4>2. MemoryInv'
        BY <2>1, <3>1 DEF MemoryInv
      <4>3. QED BY <3>1, <4>1, <4>2, EmptyTypes
    <3>2. CASE live' = NoLive /\ call' = NoCall /\ UNCHANGED refusal
      BY <1>2, <3>2, EmptyTypes DEF MemoryInv, NoLive, NoCall, ServerType
    <3>3. QED BY <2>1, <2>2, <2>3, <3>1, <3>2
  <2>6. WorkInv'
    BY <1>6, <2>1 DEF WorkInv, Idle, Working
  <2>7. SealInv'
    BY <1>1, <1>2, <1>3 DEF SealInv
  <2>8. ServerType'
    BY <1>1, <1>2, <1>4, <1>6, <2>1, <2>5, EmptyTypes DEF ServerType
  <2>9. QED BY <1>1, <2>1, <2>5, <2>6, <2>7, <2>8 DEF ServerInv
<1>7. QED BY <1>5, <1>6 DEF Commit

-----------------------------------------------------------------------------
(* The undoing of an intent, crashes and starts                            *)

\* recover_pending_sidecar's first half gives the journal the frames of the log.
LEMMA TruncateKeeps ==
    ASSUME ServerInv, Truncate
    PROVE  ServerInv' /\ Held' = Held
<1> DEFINE n == sidecar.pending.size
<1>1. /\ work.stage = "recover" /\ journal' = Shortened(n)
      /\ work' = [work EXCEPT !.stage = "truncated"]
      /\ UNCHANGED <<sidecar, artifact, call, live, refusal, request, seal>>
  BY DEF Truncate, memory
<1>2. ServerType /\ LedgerInv /\ MemoryInv /\ WorkInv /\ SealInv /\ sidecar.pending # NoIntent
  BY <1>1 DEF ServerInv, WorkInv
<1>3. /\ ~Closed(Held) /\ sidecar.exists /\ artifact = <<>> /\ ~sidecar.sealed
      /\ n \in 0..Len(journal.chunks) /\ Held = SubSeq(journal.chunks, 1, n) /\ Len(Held) = n
      /\ Held \in Seq(Chunks)
  BY <1>2, IntentOpen, StillOpen, HeldFacts
<1>4. /\ journal' \in Journals /\ journal'.chunks = Held
      /\ journal'.exists <=> journal'.chunks # <<>>
  <2>1. CASE n = 0
    <3>1. journal' = NoJournal
      BY <1>1, <2>1 DEF Shortened
    <3>2. Held = <<>>
      BY <1>3, <2>1
    <3>3. QED BY <3>1, <3>2, EmptyTypes DEF NoJournal
  <2>2. CASE n # 0
    <3>1. journal' = [journal EXCEPT !.chunks = SubSeq(@, 1, n)] /\ journal \in Journals
      BY <1>1, <1>2, <2>2 DEF Shortened, ServerType
    <3>2. /\ journal'.chunks = Held /\ journal'.exists = journal.exists
          /\ journal' = [exists |-> journal.exists, chunks |-> Held]
      BY <1>3, <3>1 DEF Journals
    <3>3. journal.exists /\ Held # <<>>
      <4>1. journal.chunks # <<>>
        BY <1>3, <2>2
      <4>2. QED BY <1>2, <1>3, <2>2, <4>1 DEF LedgerInv
    <3>4. QED BY <1>3, <3>2, <3>3 DEF Journals
  <2>3. QED BY <2>1, <2>2
<1>5. Held' = Held
  <2>1. Held' = SubSeq(journal'.chunks, 1, n)
    BY <1>1, <1>2, <1>3 DEF Held, CommittedChunks
  <2>2. QED BY <1>3, <1>4, <2>1, SubSeqWhole
<1>6. LedgerInv'
  <2>1. n <= Len(journal'.chunks)
    BY <1>3, <1>4
  <2>2. QED BY <1>1, <1>2, <1>3, <1>4, <1>5, <2>1 DEF LedgerInv
<1>7. work' \in Works /\ work'.stage = "truncated" /\ work'.drain = work.drain
      /\ work'.after = work.after
  BY <1>1, <1>2 DEF ServerType, Works
<1>8. MemoryInv' /\ SealInv'
  BY <1>1, <1>2, <1>5, <1>7 DEF MemoryInv, SealInv
<1>9. WorkInv'
  BY <1>1, <1>2, <1>4, <1>5, <1>7 DEF WorkInv
<1>10. ServerType'
  BY <1>1, <1>2, <1>4, <1>7 DEF ServerType
<1>11. QED BY <1>5, <1>6, <1>8, <1>9, <1>10 DEF ServerInv

\* Its second half: the intent goes, and its drain stays as a fence or does not.
LEMMA UndoneTrue ==
    ASSUME ServerInv, work.stage = "truncated", UNCHANGED <<journal, artifact>>,
           sidecar' = Undone \/ sidecar' = [Undone EXCEPT !.retry = NoDrain]
    PROVE  /\ Held' = Held /\ LedgerInv' /\ journal.chunks = Held
           /\ sidecar' \in Ledgers /\ sidecar'.pending = NoIntent
           /\ Undone \in Ledgers
           /\ Undone.applied = Top(Held) /\ Undone.digests = Newest(Held)
           /\ sidecar.pending # NoIntent /\ ~Closed(Held) /\ sidecar.exists
<1>1. ServerType /\ LedgerInv /\ sidecar.pending # NoIntent /\ journal.chunks = Held
  BY DEF ServerInv, WorkInv
<1>2. /\ ~Closed(Held) /\ sidecar.exists /\ artifact = <<>> /\ ~sidecar.sealed
      /\ sidecar.pending.drain \in Drains /\ sidecar.pending.drain.seq > Top(Held)
      /\ sidecar.applied = Top(Held) /\ sidecar.digests = Newest(Held)
      /\ sidecar.finalized = Closed(Held)
  BY <1>1, IntentOpen, StillOpen, HeldFacts
<1>3. /\ Undone \in Ledgers /\ Undone.pending = NoIntent /\ Undone.retry = sidecar.pending.drain
      /\ Undone.exists = sidecar.exists /\ Undone.applied = sidecar.applied
      /\ Undone.digests = sidecar.digests /\ Undone.finalized = sidecar.finalized
      /\ Undone.sealed = sidecar.sealed
  BY <1>1, <1>2, EmptyTypes DEF Undone, ServerType, Ledgers, MaybeDrain
<1>4. /\ sidecar' \in Ledgers /\ sidecar'.pending = NoIntent
      /\ sidecar'.retry = sidecar.pending.drain \/ sidecar'.retry = NoDrain
      /\ sidecar'.exists = sidecar.exists /\ sidecar'.applied = sidecar.applied
      /\ sidecar'.digests = sidecar.digests /\ sidecar'.finalized = sidecar.finalized
      /\ sidecar'.sealed = sidecar.sealed
  <2>1. CASE sidecar' = Undone
    BY <1>3, <2>1
  <2>2. CASE sidecar' = [Undone EXCEPT !.retry = NoDrain]
    BY <1>3, <2>2, EmptyTypes DEF Ledgers
  <2>3. QED BY <2>1, <2>2
<1>5. Held' = Held
  BY <1>1, <1>2, <1>4 DEF Held, CommittedChunks
<1>6. LedgerInv'
  BY <1>1, <1>2, <1>4, <1>5 DEF LedgerInv
<1>7. QED BY <1>1, <1>2, <1>3, <1>4, <1>5, <1>6

LEMMA UndoKeeps ==
    ASSUME ServerInv, Undo
    PROVE  ServerInv' /\ Held' = Held
<1>1. work.stage = "truncated" /\ UNCHANGED <<journal, artifact, seal>>
  BY DEF Undo
<1>2. /\ ServerType /\ LedgerInv /\ MemoryInv /\ WorkInv /\ SealInv
      /\ sidecar.pending # NoIntent /\ journal.chunks = Held
  BY <1>1 DEF ServerInv, WorkInv
<1>3. ~Closed(Held) /\ sidecar.exists /\ artifact = <<>> /\ ~sidecar.sealed /\ Held \in Seq(Chunks)
  BY <1>2, IntentOpen, StillOpen, HeldFacts
<1>4. SealInv' /\ seal.stage = "none"
  BY <1>1, <1>2, <1>3 DEF SealInv, ServerType, Seals
<1>5. request' \in Requests
  <2>1. \/ UNCHANGED request
        \/ \E status \in {"retry", "too_large"} : Answer(status)
    BY DEF Undo
  <2>2. QED BY <1>2, <2>1, AnswerType DEF Requests, ServerType
<1>6. CASE /\ sidecar' = Undone \/ sidecar' = [Undone EXCEPT !.retry = NoDrain]
           /\ call' = NoCall /\ live' \in {NoLive, live, [open |-> TRUE, chunks |-> Held]}
           /\ live' = [open |-> TRUE, chunks |-> Held] => Held # <<>>
           /\ refusal' \in {refusal, work.drain} /\ work' = Idle
  <2>1. Held' = Held /\ LedgerInv' /\ sidecar' \in Ledgers /\ sidecar'.pending = NoIntent
    BY <1>1, <1>6, UndoneTrue
  <2>2. live' \in Lives /\ (IF live'.open THEN live'.chunks = Held /\ Held # <<>> ELSE live' = NoLive)
    <3>1. CASE live' = NoLive
      BY <3>1, EmptyTypes DEF NoLive
    <3>2. CASE live' = live
      BY <1>2, <3>2 DEF ServerType, MemoryInv
    <3>3. CASE live' = [open |-> TRUE, chunks |-> Held]
      BY <1>3, <1>6, <3>3 DEF Lives
    <3>4. QED BY <1>6, <3>1, <3>2, <3>3
  <2>3. MemoryInv'
    BY <1>6, <2>1, <2>2 DEF MemoryInv, NoCall
  <2>4. WorkInv'
    BY <1>6, <2>1 DEF WorkInv, Idle, Working
  <2>5. ServerType'
    BY <1>1, <1>2, <1>5, <1>6, <2>1, <2>2, EmptyTypes DEF ServerType, Works
  <2>6. QED BY <1>4, <2>1, <2>3, <2>4, <2>5 DEF ServerInv
<1>7. CASE /\ work.after = "start"
           /\ sidecar' = Undone /\ UNCHANGED <<call, refusal, request>>
           /\ live' = IF sidecar.applied = 0 \/ sidecar.expired \/ ~Replayable THEN NoLive
                      ELSE [open |-> TRUE, chunks |-> journal.chunks]
           /\ work' = Idle
  <2>1. call = NoCall
    BY <1>1, <1>2, <1>7 DEF WorkInv, MemoryInv
  <2>2. live' \in {NoLive, [open |-> TRUE, chunks |-> Held]}
    BY <1>2, <1>7
  <2>3. live' = [open |-> TRUE, chunks |-> Held] => Held # <<>>
    <3>1. ASSUME live' = [open |-> TRUE, chunks |-> Held] PROVE sidecar.applied # 0
      <4>1. live' # NoLive
        BY <3>1 DEF NoLive
      <4>2. QED BY <1>7, <4>1
    <3>2. sidecar.applied = Top(Held)
      BY <1>2, <1>3 DEF LedgerInv
    <3>3. QED BY <3>1, <3>2, HeldFacts
  <2>4. QED BY <1>6, <1>7, <2>1, <2>2, <2>3
<1>8. CASE /\ work.after = "lookup" /\ sidecar' = Undone /\ UNCHANGED refusal
           /\ Rebuilt(Undone) /\ work' = Working("process", work.drain)
  <2>1. /\ Held' = Held /\ LedgerInv' /\ sidecar' \in Ledgers /\ sidecar'.pending = NoIntent
        /\ Undone \in Ledgers /\ Undone.applied = Top(Held) /\ Undone.digests = Newest(Held)
    BY <1>1, <1>8, UndoneTrue
  <2>2. /\ call' \in Calls /\ live' \in Lives
        /\ call'.held /\ call'.applied = Top(Held) /\ call'.digests = Newest(Held)
        /\ call'.finalized = Closed(Held) /\ call'.retry = Undone.retry
        /\ IF live'.open THEN live'.chunks = Held /\ Held # <<>> ELSE live' = NoLive
        /\ live'.chunks = Held
    <3>1. Undone.retry \in MaybeDrain
      BY <2>1 DEF Ledgers
    <3>2. QED BY <1>2, <1>8, <2>1, <3>1, RebuiltTrue
  <2>3. MemoryInv'
    BY <1>8, <2>1, <2>2 DEF MemoryInv
  <2>4. work.drain # NoDrain /\ work.drain \in MaybeDrain
    BY <1>1, <1>2, <1>8 DEF WorkInv, ServerType, Works
  <2>5. work' \in Works /\ work'.stage = "process" /\ work'.drain = work.drain
    BY <1>8, <2>4 DEF Working, Works
  <2>6. WorkInv'
    BY <2>1, <2>2, <2>4, <2>5 DEF WorkInv
  <2>7. ServerType'
    BY <1>1, <1>2, <1>5, <1>8, <2>1, <2>2, <2>5 DEF ServerType
  <2>8. QED BY <1>4, <2>1, <2>3, <2>6, <2>7 DEF ServerInv
<1>9. CASE /\ work.after = "lookup" /\ sidecar' = Undone /\ UNCHANGED refusal
           /\ work' = Idle /\ UNCHANGED <<call, live>>
  <2>1. call = NoCall
    BY <1>1, <1>2, <1>9 DEF WorkInv, MemoryInv
  <2>2. live = [open |-> TRUE, chunks |-> Held] => Held # <<>>
    BY <1>2 DEF MemoryInv
  <2>3. QED BY <1>6, <1>9, <2>1, <2>2
<1>10. CASE /\ work.after = "retry" /\ sidecar' = Undone /\ UNCHANGED refusal
            /\ live' = NoLive /\ call' = NoCall /\ work' = Idle
  BY <1>6, <1>10 DEF NoLive
<1>11. CASE /\ work.after = "too_large" /\ sidecar.applied # 0
            /\ sidecar' = [Undone EXCEPT !.retry = NoDrain] /\ UNCHANGED live
            /\ refusal' \in {refusal, work.drain}
            /\ call' = NoCall /\ work' = Idle
  <2>1. live = [open |-> TRUE, chunks |-> Held] => Held # <<>>
    BY <1>2 DEF MemoryInv
  <2>2. QED BY <1>6, <1>11, <2>1
<1>12. CASE /\ work.after = "too_large" /\ sidecar.applied = 0
            /\ sidecar' = NoLedger /\ live' = NoLive /\ UNCHANGED refusal
            /\ call' = NoCall /\ work' = Idle
  <2>1. Held = <<>>
    BY <1>2, <1>3, <1>12, HeldFacts DEF LedgerInv
  <2>2. journal.chunks = <<>> /\ ~journal.exists /\ journal = NoJournal
    BY <1>2, <2>1 DEF LedgerInv, ServerType, Journals, NoJournal
  <2>3. Held' = <<>>
    BY <1>1, <1>3, <1>12, <2>2 DEF Held, CommittedChunks, NoLedger
  <2>4. LedgerInv'
    BY <1>1, <1>3, <1>12, <2>2, <2>3, EmptyLog DEF LedgerInv, NoLedger
  <2>5. MemoryInv' /\ WorkInv'
    BY <1>12 DEF MemoryInv, WorkInv, NoCall, NoLive, NoLedger, Idle, Working
  <2>6. ServerType'
    BY <1>1, <1>2, <1>5, <1>12, EmptyTypes DEF ServerType
  <2>7. QED BY <1>4, <2>1, <2>3, <2>4, <2>5, <2>6 DEF ServerInv
<1>13. QED BY <1>7, <1>8, <1>9, <1>10, <1>11, <1>12 DEF Undo

\* The intent stands after a failed or interrupted recovery, or it was undone.
LEMMA HalfUndoneTrue ==
    ASSUME ServerInv, sidecar' \in HalfUndone, UNCHANGED <<journal, artifact>>
    PROVE  /\ Held' = Held /\ LedgerInv' /\ sidecar' \in Ledgers
           /\ sidecar'.sealed = sidecar.sealed
<1>1. CASE sidecar' = sidecar
  BY <1>1, DiskKept DEF disk, ServerInv, ServerType
<1>2. CASE work.stage = "truncated" /\ sidecar' = Undone
  <2>1. Held' = Held /\ LedgerInv' /\ sidecar' \in Ledgers
    BY <1>2, UndoneTrue
  <2>2. sidecar'.sealed = sidecar.sealed
    BY <1>2 DEF Undone, ServerInv, ServerType, Ledgers
  <2>3. QED BY <2>1, <2>2
<1>3. QED BY <1>1, <1>2 DEF HalfUndone

LEMMA UndoFailsKeeps ==
    ASSUME ServerInv, UndoFails
    PROVE  ServerInv' /\ Held' = Held
<1>1. /\ work.stage \in {"recover", "truncated"} /\ sidecar' \in HalfUndone
      /\ live' = NoLive /\ call' = NoCall /\ work' = Idle /\ Answer("retry")
      /\ UNCHANGED <<journal, artifact, refusal, seal>>
  BY DEF UndoFails
<1>2. ServerType /\ SealInv
  BY DEF ServerInv
<1>3. Held' = Held /\ LedgerInv' /\ sidecar' \in Ledgers /\ sidecar'.sealed = sidecar.sealed
  BY <1>1, HalfUndoneTrue
<1>4. MemoryInv' /\ WorkInv'
  BY <1>1 DEF MemoryInv, WorkInv, NoCall, NoLive, Idle, Working
<1>5. SealInv'
  BY <1>1, <1>2, <1>3 DEF SealInv, Idle, Working
<1>6. request' \in Requests
  BY <1>1, AnswerType DEF Requests
<1>7. ServerType'
  BY <1>1, <1>2, <1>3, <1>6, EmptyTypes DEF ServerType
<1>8. QED BY <1>3, <1>4, <1>5, <1>7 DEF ServerInv

\* A crash leaves at most a torn chunk past the intent.
LEMMA CrashKeeps ==
    ASSUME ServerInv, Crash
    PROVE  ServerInv' /\ Held' = Held
<1>1. /\ call' = NoCall /\ live' = NoLive /\ refusal' = NoDrain /\ work' = Down /\ seal' = NoSeal
      /\ Answer("retry") /\ sidecar' \in HalfUndone /\ UNCHANGED artifact
      /\ \/ journal' = journal
         \/ work.stage = "append" /\ journal' = Extended(Torn(work.drain))
  BY DEF Crash
<1>2. ServerType
  BY DEF ServerInv
<1>3. Held' = Held /\ LedgerInv' /\ sidecar' \in Ledgers /\ journal' \in Journals
  <2>1. CASE journal' = journal
    BY <1>1, <1>2, <2>1, HalfUndoneTrue DEF ServerType
  <2>2. CASE work.stage = "append" /\ journal' = Extended(Torn(work.drain))
    <3>1. sidecar' = sidecar
      BY <1>1, <2>2 DEF HalfUndone
    <3>2. /\ sidecar.pending = [size |-> Len(journal.chunks), drain |-> work.drain]
          /\ work.drain \in Drains /\ Follows(Chunk(work.drain), Top(Held))
      BY <2>2 DEF ServerInv, ServerType, WorkInv, Applying, Works, MaybeDrain
    <3>3. sidecar.pending # NoIntent /\ sidecar.pending.size = Len(journal.chunks)
      BY <3>2, DrainFacts DEF NoIntent
    <3>4. Torn(work.drain) \in Chunks
      <4>1. Lost(work.drain) = (Top(Held) + 1)..(work.drain.seq - 1)
        BY <3>2 DEF Follows, Chunk
      <4>2. Lost(work.drain) \in SUBSET Nat
        BY <3>2, <4>1, DrainFacts, HeldFacts
      <4>3. QED BY <3>2, <4>2 DEF Torn, Chunk, Chunks
    <3>5. Held' = Held /\ LedgerInv' /\ journal' \in Journals
      BY <1>1, <2>2, <3>1, <3>3, <3>4, ExtendedKeeps
    <3>6. QED BY <1>2, <3>1, <3>5 DEF ServerType
  <2>3. QED BY <1>1, <2>1, <2>2
<1>4. MemoryInv' /\ WorkInv' /\ SealInv'
  BY <1>1 DEF MemoryInv, WorkInv, SealInv, NoCall, NoLive, NoSeal, Down, Working
<1>5. request' \in Requests
  BY <1>1, AnswerType DEF Requests
<1>6. ServerType'
  BY <1>1, <1>2, <1>3, <1>5, EmptyTypes DEF ServerType
<1>7. QED BY <1>3, <1>4, <1>6 DEF ServerInv

\* rebuild_from_disk shows the log, or nothing.
LEMMA StartKeeps ==
    ASSUME ServerInv, Start
    PROVE  ServerInv' /\ Held' = Held
<1>1. /\ work.stage = "down" /\ UNCHANGED <<sidecar, artifact, call, refusal, request, seal>>
      /\ journal' = IF sidecar.sealed THEN NoJournal ELSE journal
  BY DEF Start
<1>2. /\ ServerType /\ LedgerInv /\ MemoryInv /\ WorkInv
      /\ call = NoCall /\ live = NoLive /\ seal = NoSeal
  BY <1>1 DEF ServerInv, WorkInv, MemoryInv
<1>3. Held' = Held /\ LedgerInv' /\ journal' \in Journals
  <2>1. CASE sidecar.sealed
    <3>1. artifact # <<>> /\ Held = artifact /\ sidecar.exists
      BY <1>2, <2>1 DEF LedgerInv
    <3>2. journal' = NoJournal
      BY <1>1, <2>1
    <3>3. Held' = artifact
      BY <1>1, <3>1, <3>2 DEF Held, NoJournal
    <3>4. sidecar.pending = NoIntent
      BY <1>2, <3>1 DEF LedgerInv
    <3>5. LedgerInv'
      <4>1. /\ sidecar' = sidecar /\ artifact' = artifact /\ Held' = Held
            /\ ~journal'.exists /\ journal'.chunks = <<>>
        BY <1>1, <3>1, <3>2, <3>3 DEF NoJournal
      <4>2. QED BY <1>2, <2>1, <3>1, <3>4, <4>1 DEF LedgerInv
    <3>6. QED BY <3>1, <3>2, <3>3, <3>5, EmptyTypes
  <2>2. CASE ~sidecar.sealed
    BY <1>1, <1>2, <2>2, DiskKept DEF disk, ServerType
  <2>3. QED BY <2>1, <2>2
<1>4. \/ /\ sidecar.pending # NoIntent /\ live' = live
         /\ work' = [stage |-> "recover", drain |-> NoDrain, after |-> "start"]
      \/ /\ sidecar.pending = NoIntent /\ work' = Idle
         /\ live' = IF sidecar.applied = 0 \/ sidecar.sealed \/ sidecar.expired \/ ~Replayable
                    THEN NoLive ELSE [open |-> TRUE, chunks |-> journal.chunks]
  BY DEF Start, Working
<1>5. live' \in Lives /\ (IF live'.open THEN live'.chunks = Held /\ Held # <<>> ELSE live' = NoLive)
  <2>1. CASE live' = NoLive
    BY <2>1, EmptyTypes DEF NoLive
  <2>2. CASE /\ sidecar.pending = NoIntent /\ sidecar.applied # 0 /\ ~sidecar.sealed
             /\ live' = [open |-> TRUE, chunks |-> journal.chunks]
    <3>1. sidecar.exists
      BY <1>2, <2>2 DEF LedgerInv, NoLedger
    <3>2. Held = journal.chunks
      BY <1>2, <2>2, <3>1 DEF LedgerInv, Held, CommittedChunks
    <3>3. sidecar.applied = Top(Held)
      BY <1>2, <3>1 DEF LedgerInv
    <3>4. Held # <<>> /\ Held \in Seq(Chunks)
      BY <2>2, <3>3, HeldFacts
    <3>5. QED BY <2>2, <3>2, <3>4 DEF Lives
  <2>3. QED BY <1>2, <1>4, <2>1, <2>2
<1>6. MemoryInv'
  BY <1>1, <1>2, <1>3, <1>5 DEF MemoryInv, NoCall
<1>7. WorkInv' /\ work' \in Works
  BY <1>1, <1>2, <1>4, EmptyTypes DEF WorkInv, NoCall, Idle, Working, Works
<1>8. SealInv'
  BY <1>1, <1>2 DEF SealInv, NoSeal
<1>9. ServerType'
  BY <1>1, <1>2, <1>3, <1>5, <1>7 DEF ServerType
<1>10. QED BY <1>3, <1>6, <1>7, <1>8, <1>9 DEF ServerInv

LEMMA ExpireKeeps ==
    ASSUME ServerInv, Expire
    PROVE  ServerInv' /\ Held' = Held
<1>1. /\ work.stage = "idle" /\ live.open /\ ~Closed(live.chunks)
      /\ sidecar' = [sidecar EXCEPT !.expired = TRUE] /\ live' = NoLive
      /\ UNCHANGED <<journal, artifact, call, refusal, work, request, seal>>
  BY DEF Expire, LockFree
<1>2. ServerType /\ LedgerInv /\ MemoryInv /\ WorkInv /\ SealInv
  BY DEF ServerInv
<1>3. ~Closed(Held) /\ Held # <<>>
  BY <1>1, <1>2 DEF MemoryInv
<1>4. sidecar.exists
  <2>1. ASSUME ~sidecar.exists PROVE Held = <<>>
    <3>1. artifact = <<>> /\ Held = CommittedChunks
      BY <1>3, StillOpen
    <3>2. sidecar = NoLedger /\ journal = NoJournal
      BY <1>2, <2>1 DEF LedgerInv
    <3>3. QED BY <3>1, <3>2 DEF CommittedChunks, NoLedger, NoJournal
  <2>2. QED BY <1>3, <2>1
<1>5. /\ sidecar' \in Ledgers /\ sidecar'.exists = sidecar.exists
      /\ sidecar'.applied = sidecar.applied /\ sidecar'.digests = sidecar.digests
      /\ sidecar'.finalized = sidecar.finalized /\ sidecar'.pending = sidecar.pending
      /\ sidecar'.retry = sidecar.retry /\ sidecar'.sealed = sidecar.sealed
  BY <1>1, <1>2 DEF ServerType, Ledgers
<1>6. Held' = Held
  BY <1>1, <1>5, HeldKept
<1>7. LedgerInv'
  BY <1>1, <1>2, <1>4, <1>5, <1>6 DEF LedgerInv
<1>8. MemoryInv' /\ WorkInv' /\ SealInv'
  BY <1>1, <1>2, <1>5, <1>6 DEF MemoryInv, WorkInv, SealInv, NoLive
<1>9. ServerType'
  BY <1>1, <1>2, <1>5, EmptyTypes DEF ServerType
<1>10. QED BY <1>6, <1>7, <1>8, <1>9 DEF ServerInv

-----------------------------------------------------------------------------
(* The steps of a seal, and what is forgotten after it                     *)

LEMMA SealStepKeeps ==
    ASSUME ServerInv, SealStep
    PROVE  ServerInv' /\ Held' = Held
<1> USE DEF ServerInv
<1>1. CASE SealSnapshot
  <2>1. /\ UNCHANGED <<disk, call, live, refusal, work, request>>
        /\ Closed(live.chunks) /\ seal' = [stage |-> "taken", chunks |-> live.chunks]
    BY <1>1 DEF SealSnapshot, memory
  <2>2. live.chunks = Held /\ Closed(Held)
    <3>1. live.open
      BY <2>1, EmptyLog DEF MemoryInv, NoLive
    <3>2. QED BY <2>1, <3>1 DEF MemoryInv
  <2>3. Held' = Held /\ LedgerInv'
    BY <2>1, DiskKept
  <2>4. MemoryInv' /\ SealInv' /\ WorkInv'
    <3>1. work.stage # "down"
      BY <1>1 DEF SealSnapshot, LockFree
    <3>2. QED BY <2>1, <2>2, <2>3, <3>1 DEF MemoryInv, SealInv, WorkInv, Applying, Chunk, Lost, disk
  <2>5. ServerType'
    BY <2>1, <2>2, HeldFacts DEF ServerType, Seals, disk
  <2>6. QED BY <2>3, <2>4, <2>5
<1>2. CASE SealIngest
  <2>1. /\ seal.stage = "taken" /\ artifact' = seal.chunks
        /\ seal' = [seal EXCEPT !.stage = "ingested"]
        /\ UNCHANGED <<sidecar, journal, call, live, refusal, work, request>>
        /\ work.stage # "down"
    BY <1>2 DEF SealIngest, memory
  <2>2. seal.chunks = Held /\ Closed(Held) /\ Held # <<>> /\ Held \in Seq(Chunks)
        /\ sidecar.pending = NoIntent
    BY <2>1, HeldFacts DEF SealInv, LedgerInv
  <2>3. Held' = Held
    BY <2>1, <2>2 DEF Held, CommittedChunks
  <2>4. sidecar.exists /\ ~sidecar.sealed => journal.exists
    BY <2>2 DEF LedgerInv, Held, CommittedChunks
  <2>5. LedgerInv'
    BY <2>1, <2>2, <2>3, <2>4 DEF LedgerInv
  <2>6. seal' \in Seals /\ seal'.stage = "ingested"
    BY <2>1 DEF ServerType, Seals
  <2>7. MemoryInv' /\ SealInv'
    BY <2>1, <2>2, <2>3, <2>6 DEF MemoryInv, SealInv
  <2>8. WorkInv'
    <3>1. Chunk(work.drain)' = Chunk(work.drain)
      BY <2>1 DEF Chunk, Lost
    <3>2. QED BY <2>1, <2>3, <3>1 DEF WorkInv, Applying
  <2>9. ServerType'
    BY <2>1, <2>2, <2>6 DEF ServerType
  <2>10. QED BY <2>3, <2>5, <2>7, <2>8, <2>9
<1>3. CASE SealMark
  <2>1. /\ seal.stage = "ingested" /\ work.stage = "idle"
        /\ UNCHANGED <<journal, artifact, call, live, refusal, work, request>>
        /\ \/ /\ sidecar.finalized /\ sidecar.pending = NoIntent
              /\ sidecar' = [sidecar EXCEPT !.sealed = TRUE, !.expired = FALSE]
              /\ seal' = [seal EXCEPT !.stage = "marked"]
           \/ seal' = NoSeal /\ UNCHANGED sidecar
    BY <1>3 DEF SealMark, memory
  <2>2. artifact # <<>>
    BY <2>1 DEF SealInv
  <2>3. CASE seal' = NoSeal /\ UNCHANGED sidecar
    <3>1. Held' = Held /\ LedgerInv'
      BY <2>1, <2>3, DiskKept DEF disk
    <3>2. MemoryInv' /\ SealInv' /\ WorkInv'
      BY <2>1, <2>3, <3>1 DEF MemoryInv, SealInv, WorkInv, NoSeal
    <3>3. ServerType'
      BY <2>1, <2>3, EmptyTypes DEF ServerType
    <3>4. QED BY <3>1, <3>2, <3>3
  <2>4. CASE /\ sidecar.finalized /\ sidecar.pending = NoIntent
             /\ sidecar' = [sidecar EXCEPT !.sealed = TRUE, !.expired = FALSE]
             /\ seal' = [seal EXCEPT !.stage = "marked"]
    <3>1. sidecar.exists
      BY <2>4 DEF LedgerInv, NoLedger
    <3>2. /\ sidecar' \in Ledgers /\ sidecar'.exists = sidecar.exists
          /\ sidecar'.applied = sidecar.applied /\ sidecar'.digests = sidecar.digests
          /\ sidecar'.finalized = sidecar.finalized /\ sidecar'.pending = sidecar.pending
          /\ sidecar'.retry = sidecar.retry /\ sidecar'.sealed
      BY <2>4 DEF ServerType, Ledgers
    <3>3. seal' \in Seals /\ seal'.stage = "marked"
      BY <2>4 DEF ServerType, Seals
    <3>4. Held' = Held
      BY <2>1, <3>2, HeldKept
    <3>5. LedgerInv'
      BY <2>1, <2>2, <3>1, <3>2, <3>4 DEF LedgerInv
    <3>6. MemoryInv' /\ SealInv' /\ WorkInv'
      BY <2>1, <2>2, <3>2, <3>3, <3>4 DEF MemoryInv, SealInv, WorkInv
    <3>7. ServerType'
      BY <2>1, <3>2, <3>3 DEF ServerType
    <3>8. QED BY <3>4, <3>5, <3>6, <3>7
  <2>5. QED BY <2>1, <2>3, <2>4
<1>4. CASE SealRemove
  <2>1. /\ seal.stage = "marked" /\ journal' = NoJournal /\ call' = NoCall
        /\ seal' = [seal EXCEPT !.stage = "removed"]
        /\ UNCHANGED <<sidecar, artifact, live, refusal, work, request>>
    BY <1>4 DEF SealRemove
  <2>2. /\ sidecar.sealed /\ work.stage = "idle" /\ artifact # <<>> /\ Held = artifact
        /\ Closed(Held) /\ sidecar.exists /\ sidecar.pending = NoIntent
    BY <2>1 DEF SealInv, LedgerInv
  <2>3. Held' = Held
    BY <2>1, <2>2 DEF Held, NoJournal
  <2>4. LedgerInv'
    BY <2>1, <2>2, <2>3 DEF LedgerInv, NoJournal
  <2>5. seal' \in Seals /\ seal'.stage = "removed"
    BY <2>1 DEF ServerType, Seals
  <2>6. MemoryInv' /\ SealInv' /\ WorkInv'
    BY <2>1, <2>2, <2>3, <2>5 DEF MemoryInv, SealInv, WorkInv, NoCall
  <2>7. ServerType'
    BY <2>1, <2>5, EmptyTypes DEF ServerType
  <2>8. QED BY <2>3, <2>4, <2>6, <2>7
<1>5. CASE SealDrop
  <2>1. /\ seal.stage = "removed" /\ live' = NoLive /\ seal' = NoSeal
        /\ UNCHANGED <<disk, call, refusal, work, request>>
    BY <1>5 DEF SealDrop
  <2>2. Closed(Held)
    BY <2>1 DEF SealInv, LedgerInv
  <2>3. Held' = Held /\ LedgerInv'
    BY <2>1, DiskKept
  <2>4. MemoryInv' /\ SealInv' /\ WorkInv'
    BY <2>1, <2>2, <2>3 DEF MemoryInv, SealInv, WorkInv, Applying, NoLive, NoSeal, disk
  <2>5. ServerType'
    BY <2>1, EmptyTypes DEF ServerType, disk
  <2>6. QED BY <2>3, <2>4, <2>5
<1>6. QED BY <1>1, <1>2, <1>3, <1>4, <1>5 DEF SealStep

LEMMA ForgettingKeeps ==
    ASSUME ServerInv, Prune \/ ForgetFinalized
    PROVE  ServerInv' /\ Held' = Held
<1> USE DEF ServerInv
<1>1. CASE Prune
  <2>1. /\ work.stage = "idle" /\ seal = NoSeal /\ sidecar.sealed /\ ~journal.exists
        /\ sidecar' = NoLedger
        /\ UNCHANGED <<journal, artifact, call, live, refusal, work, request, seal>>
    BY <1>1 DEF Prune, memory
  <2>2. artifact # <<>> /\ Held = artifact /\ Closed(Held) /\ sidecar.retry = NoDrain
    BY <2>1 DEF LedgerInv
  <2>3. Held' = Held
    BY <2>1, <2>2 DEF Held
  <2>4. journal = NoJournal
    BY <2>1 DEF LedgerInv, ServerType, Journals, NoJournal
  <2>5. LedgerInv'
    BY <2>1, <2>2, <2>3, <2>4 DEF LedgerInv, NoLedger
  <2>6. MemoryInv' /\ WorkInv' /\ SealInv'
    BY <2>1, <2>2, <2>3 DEF MemoryInv, WorkInv, SealInv, NoLedger, NoSeal
  <2>7. ServerType'
    BY <2>1, EmptyTypes DEF ServerType
  <2>8. QED BY <2>3, <2>5, <2>6, <2>7
<1>2. CASE ForgetFinalized
  <2>1. /\ work.stage = "idle" /\ call' = NoCall
        /\ UNCHANGED <<disk, live, refusal, work, request, seal>>
    BY <1>2 DEF ForgetFinalized, LockFree
  <2>2. Held' = Held /\ LedgerInv'
    BY <2>1, DiskKept
  <2>3. MemoryInv' /\ WorkInv' /\ SealInv'
    BY <2>1, <2>2 DEF MemoryInv, WorkInv, SealInv, NoCall, disk
  <2>4. ServerType'
    BY <2>1, EmptyTypes DEF ServerType, disk
  <2>5. QED BY <2>2, <2>3, <2>4
<1>3. QED BY <1>1, <1>2

\* What happens on the network and in the transport leaves the server as it is.
LEMMA NetworkKeeps ==
    ASSUME ServerInv, UNCHANGED <<disk, memory, work, seal>>, request' \in Requests
    PROVE  ServerInv' /\ Held' = Held
<1> USE DEF ServerInv
<1>1. Held' = Held /\ LedgerInv'
  BY DiskKept
<1>2. Chunk(work.drain)' = Chunk(work.drain)
  BY DEF Chunk, Lost, memory
<1>3. MemoryInv' /\ WorkInv' /\ SealInv'
  BY <1>1, <1>2 DEF MemoryInv, WorkInv, Applying, SealInv, memory, disk
<1>4. QED BY <1>1, <1>3 DEF ServerType, memory, disk

-----------------------------------------------------------------------------
(* The log only grows, and what is acknowledged is in it                   *)

InLog(d) == \E n \in 1..Len(Held) : Held[n].drain = d

\* Who is served is who waits, and an acknowledged drain is one of the log.
AnswerInv ==
    /\ request = "held" => /\ work.stage \notin {"down", "idle"} /\ work.after # "start"
                           /\ work.drain = delivery.drain
    /\ request = "ok" => InLog(delivery.drain)
    /\ \A d \in accepted : InLog(d)

Extends(d) ==
    /\ Held' = Append(Held, Chunk(d)) /\ Chunk(d) \in Chunks /\ Chunk(d).drain = d
    /\ Follows(Chunk(d), Top(Held)) /\ ~Closed(Held)
    /\ Held' \in Seq(Chunks) /\ Top(Held') = d.seq
    /\ d \in Drains
Grows == Held' = Held \/ Extends(work.drain)

LEMMA GrowsKeeps ==
    ASSUME ServerInv, Grows
    PROVE  /\ Top(Held) \in Nat /\ Top(Held') \in Nat /\ Top(Held) <= Top(Held')
           /\ \A d : InLog(d) => InLog(d)'
<1>1. Held \in Seq(Chunks) /\ Top(Held) \in Nat
  BY HeldFacts
<1>2. CASE Held' = Held
  BY <1>1, <1>2 DEF InLog
<1>3. CASE Extends(work.drain)
  <2>1. Top(Held') \in Nat /\ Top(Held) <= Top(Held')
    BY <1>1, <1>3, DrainFacts DEF Extends, Follows
  <2>2. ASSUME NEW d, InLog(d) PROVE InLog(d)'
    <3>1. PICK n \in 1..Len(Held) : Held[n].drain = d
      BY <2>2 DEF InLog
    <3>2. n \in 1..Len(Held') /\ Held'[n] = Held[n]
      BY <1>1, <1>3, AppendProperties DEF Extends
    <3>3. QED BY <3>1, <3>2 DEF InLog
  <2>3. QED BY <1>1, <2>1, <2>2
<1>4. QED BY <1>2, <1>3 DEF Grows

LEMMA AnswerChanges ==
    ASSUME NEW status \in {"ok", "refused", "too_large", "retry"}, Answer(status)
    PROVE  /\ request' # "held" /\ (request' = "none" <=> request = "none")
           /\ request' = "ok" => request = "ok" \/ (request = "held" /\ status = "ok")
BY DEF Answer

\* The server's own steps.
LEMMA ServerKeeps ==
    ASSUME ServerInv, AnswerInv, UNCHANGED clientVars,
           ServerStep \/ ServerFault \/ SealStep \/ Expire \/ Prune \/ ForgetFinalized
    PROVE  ServerInv' /\ AnswerInv' /\ Grows /\ (request' = "none" <=> request = "none")
<1>1. UNCHANGED <<delivery, accepted>>
  BY DEF clientVars
<1>2. ASSUME ServerInv', Grows,
             request' = "held" => /\ request = "held" /\ work'.stage \notin {"down", "idle"}
                                  /\ work'.after # "start" /\ work'.drain = work.drain,
             request' = "ok" => request = "ok" \/ InLog(delivery.drain)'
      PROVE  AnswerInv'
  BY <1>1, <1>2, GrowsKeeps DEF AnswerInv
<1>3. CASE Process
  <2>1. ServerInv' /\ Held' = Held /\ work.stage = "process" /\ call.held
    BY <1>3, ProcessKeeps DEF Process, ServerInv, WorkInv
  <2>2. \/ UNCHANGED request /\ work' = [work EXCEPT !.stage = "append"]
        \/ UNCHANGED request /\ work' = [work EXCEPT !.stage = "recover", !.after = "retry"]
        \/ \E status \in {"refused", "retry"} : Answer(status)
        \/ Classify(work.drain) = "replay" /\ Answer("ok")
    BY <1>3 DEF Process
  <2>3. CASE \/ UNCHANGED request /\ work' = [work EXCEPT !.stage = "append"]
             \/ UNCHANGED request /\ work' = [work EXCEPT !.stage = "recover", !.after = "retry"]
    <3>1. /\ work'.stage \notin {"down", "idle"} /\ work'.drain = work.drain
          /\ work'.after \in {work.after, "retry"}
      BY <2>3 DEF ServerInv, ServerType, Works
    <3>2. request' = request /\ (request = "held" => work.after # "start")
      BY <2>3 DEF AnswerInv
    <3>3. QED BY <1>2, <2>1, <3>1, <3>2 DEF Grows
  <2>4. CASE \E status \in {"refused", "retry"} : Answer(status)
    BY <1>2, <2>1, <2>4, AnswerChanges DEF Grows
  <2>5. CASE Classify(work.drain) = "replay" /\ Answer("ok")
    <3>1. ASSUME request = "held" PROVE InLog(delivery.drain)
      <4>1. work.drain = delivery.drain
        BY <3>1 DEF AnswerInv
      <4>2. work.drain \in Drains
        BY <2>1, DrainFacts DEF ServerInv, ServerType, WorkInv, Works, MaybeDrain
      <4>3. call.applied = Top(Held) /\ call.digests = Newest(Held) /\ Top(Held) \in Nat
        BY <2>1, HeldFacts DEF ServerInv, MemoryInv
      <4>4. Remembered(call.digests, work.drain)
        <5>1. work.drain.seq \in Nat
          BY <4>2, DrainFacts
        <5>2. CASE work.drain.seq <= call.applied
          <6>1. Classify(work.drain) =
                    IF Remembered(call.digests, work.drain) THEN "replay" ELSE "conflict"
            BY <4>3, <5>1, <5>2 DEF Classify
          <6>2. QED BY <2>5, <6>1
        <5>3. CASE work.drain.seq > call.applied
          <6>1. Classify(work.drain) # "replay"
            <7>1. CASE call.retry # NoDrain /\ call.retry # work.drain
              BY <4>3, <5>1, <5>3, <7>1 DEF Classify
            <7>2. CASE call.retry \in {NoDrain, work.drain} /\ work.drain.seq = call.applied + 1
              BY <4>3, <5>1, <5>3, <7>2 DEF Classify
            <7>3. CASE call.retry \in {NoDrain, work.drain} /\ work.drain.seq # call.applied + 1
              BY <4>3, <5>1, <5>3, <7>3 DEF Classify
            <7>4. QED BY <7>1, <7>2, <7>3
          <6>2. QED BY <2>5, <6>1
        <5>4. QED BY <4>3, <5>1, <5>2, <5>3
      <4>5. QED BY <4>1, <4>3, <4>4, HeldFacts, NewestHeld DEF InLog
    <3>2. InLog(delivery.drain) => InLog(delivery.drain)'
      BY <1>1, <2>1, GrowsKeeps DEF Grows, InLog
    <3>3. QED BY <1>2, <2>1, <2>5, <3>1, <3>2, AnswerChanges DEF Grows
  <2>6. QED BY <2>2, <2>3, <2>4, <2>5
<1>4. CASE AppendFrames
  <2>1. ServerInv' /\ Held' = Held /\ UNCHANGED request
    BY <1>4, AppendFramesKeeps DEF AppendFrames
  <2>2. \/ work' = [work EXCEPT !.stage = "commit"]
        \/ \E status \in {"retry", "too_large"} :
               work' = [work EXCEPT !.stage = "recover", !.after = status]
    BY <1>4 DEF AppendFrames, Failed
  <2>3. /\ work'.stage \notin {"down", "idle"} /\ work'.drain = work.drain
        /\ work'.after \in {work.after, "retry", "too_large"}
    BY <2>2 DEF ServerInv, ServerType, Works
  <2>4. request = "held" => work.after # "start"
    BY DEF AnswerInv
  <2>5. QED BY <1>2, <2>1, <2>3, <2>4 DEF Grows
<1>5. CASE Commit
  <2>1. /\ ServerInv' /\ work.stage = "commit"
        /\ Held' = Held \/ /\ Held' = Append(Held, Chunk(work.drain))
                           /\ Held' \in Seq(Chunks) /\ Chunk(work.drain) \in Chunks
                           /\ Top(Held') = work.drain.seq
    BY <1>5, CommitKeeps DEF Commit
  <2>2. /\ Follows(Chunk(work.drain), Top(Held)) /\ ~Closed(Held) /\ work.drain \in Drains
        /\ Chunk(work.drain).drain = work.drain /\ Held \in Seq(Chunks)
    BY <2>1, HeldFacts DEF ServerInv, ServerType, WorkInv, Applying, Works, MaybeDrain, Chunk
  <2>3. Grows
    BY <2>1, <2>2 DEF Grows, Extends
  <2>4. \/ /\ UNCHANGED request /\ work' = [work EXCEPT !.stage = "recover", !.after = "retry"]
        \/ Answer("ok") /\ sidecar' = Committed(work.drain) /\ UNCHANGED <<journal, artifact>>
        \/ Answer("retry")
    BY <1>5 DEF Commit, Failed
  <2>5. CASE UNCHANGED request /\ work' = [work EXCEPT !.stage = "recover", !.after = "retry"]
    <3>1. work'.stage = "recover" /\ work'.drain = work.drain /\ work'.after = "retry"
      BY <2>5 DEF ServerInv, ServerType, Works
    <3>2. QED BY <1>2, <2>1, <2>3, <2>5, <3>1
  <2>6. CASE Answer("ok") /\ sidecar' = Committed(work.drain) /\ UNCHANGED <<journal, artifact>>
    <3>1. Held' = Append(Held, Chunk(work.drain))
      BY <2>1, <2>6, CommittedTrue
    <3>2. Len(Held) + 1 \in 1..Len(Held') /\ Held'[Len(Held) + 1] = Chunk(work.drain)
      BY <2>1, <2>2, <3>1, AppendProperties, CommittedTrue, <2>6
    <3>3. request = "held" => InLog(delivery.drain)'
      <4>1. \E n \in 1..Len(Held') : Held'[n].drain = work.drain
        BY <2>2, <3>2
      <4>2. QED BY <1>1, <4>1 DEF InLog, AnswerInv
    <3>4. QED BY <1>2, <2>1, <2>3, <2>6, <3>3, AnswerChanges
  <2>7. CASE Answer("retry")
    BY <1>2, <2>1, <2>3, <2>7, AnswerChanges
  <2>8. QED BY <2>4, <2>5, <2>6, <2>7
<1>6. CASE Truncate
  <2>1. ServerInv' /\ Held' = Held /\ UNCHANGED request
    BY <1>6, TruncateKeeps DEF Truncate
  <2>2. work'.stage = "truncated" /\ work'.drain = work.drain /\ work'.after = work.after
    BY <1>6 DEF Truncate, ServerInv, ServerType, Works
  <2>3. request = "held" => work.after # "start"
    BY DEF AnswerInv
  <2>4. QED BY <1>2, <2>1, <2>2, <2>3 DEF Grows
<1>7. CASE Undo
  <2>1. ServerInv' /\ Held' = Held
    BY <1>7, UndoKeeps
  <2>2. \/ UNCHANGED request /\ work.after = "start"
        \/ UNCHANGED request /\ work' = Working("process", work.drain)
        \/ \E status \in {"retry", "too_large"} : Answer(status)
    BY <1>7 DEF Undo
  <2>3. CASE UNCHANGED request /\ work.after = "start"
    BY <1>2, <2>1, <2>3 DEF Grows, AnswerInv
  <2>4. CASE UNCHANGED request /\ work' = Working("process", work.drain)
    BY <1>2, <2>1, <2>4 DEF Grows, Working
  <2>5. CASE \E status \in {"retry", "too_large"} : Answer(status)
    BY <1>2, <2>1, <2>5, AnswerChanges DEF Grows
  <2>6. QED BY <2>2, <2>3, <2>4, <2>5
<1>8. CASE UndoFails \/ Crash
  <2>1. ServerInv' /\ Held' = Held /\ Answer("retry")
    BY <1>8, UndoFailsKeeps, CrashKeeps DEF UndoFails, Crash
  <2>2. QED BY <1>2, <2>1, AnswerChanges DEF Grows
<1>9. CASE Start
  <2>1. ServerInv' /\ Held' = Held /\ UNCHANGED request /\ work.stage = "down"
    BY <1>9, StartKeeps DEF Start
  <2>2. QED BY <1>2, <2>1 DEF Grows, AnswerInv
<1>10. CASE SealStep \/ Expire \/ Prune \/ ForgetFinalized
  <2>1. ServerInv' /\ Held' = Held
    BY <1>10, SealStepKeeps, ExpireKeeps, ForgettingKeeps
  <2>2. UNCHANGED <<work, request>>
    BY <1>10 DEF SealStep, SealSnapshot, SealIngest, SealMark, SealRemove, SealDrop,
                 Expire, Prune, ForgetFinalized
  <2>3. QED BY <1>2, <2>1, <2>2 DEF Grows, AnswerInv
<1>11. QED BY <1>3, <1>4, <1>5, <1>6, <1>7, <1>8, <1>9, <1>10 DEF ServerStep, ServerFault

-----------------------------------------------------------------------------
(* The client's half: every sequence is settled, or in one place           *)

Clients == [queue : Seq(Drains), retained : MaybeDrain, resync : [from : Nat, through : Nat],
            attempted : BOOLEAN, stopped : BOOLEAN]
Deliveries == [drain : MaybeDrain, waiting : MaybeDrain, attempts : Nat]

\* The sequences the transport is done with, and the first one of its queue or after it.
Settled == gaveUp \cup {d.seq : d \in accepted}
First == recorder.next - Len(client.queue)

\* A payload the server will never take for a gap.
Declared(d) ==
    \/ d.seq <= Top(Held) + 1
    \/ Declares(d) /\ d.through = d.seq - 1 /\ d.from <= Top(Held) + 1

InOrder(queue, first) ==
    \A n \in 1..Len(queue) : queue[n].seq = first + n - 1 /\ ~Declares(queue[n])

\* The range covers what is settled and not in the log, and nothing settled is after it.
Ranges(resync, settled) ==
    /\ resync = NoResync \/ (1 <= resync.from /\ resync.from <= resync.through)
    /\ \A n \in settled :
           /\ n <= Top(Held) \/ (resync.from <= n /\ n <= resync.through)
           /\ resync # NoResync => n <= resync.through

ClientType ==
    /\ recorder \in [next : Nat \ {0}, ended : BOOLEAN]
    /\ client \in Clients /\ delivery \in Deliveries
    /\ late \subseteq Drains /\ accepted \subseteq Drains

QueueInv ==
    /\ First \in Nat \ {0} /\ InOrder(client.queue, First)
    /\ client.stopped => client.queue = <<>>

DeliveryInv ==
    /\ delivery.drain = NoDrain <=> request = "none"
    /\ delivery.drain = NoDrain => delivery = NoDelivery /\ client.queue = <<>>
    /\ client.retained # NoDrain /\ delivery.drain # NoDrain =>
           client.retained = delivery.drain /\ client.attempted
    /\ delivery.waiting # NoDrain => /\ client.retained = delivery.drain
                                     /\ delivery.drain.seq < delivery.waiting.seq
                                     /\ ~Declares(delivery.waiting)

Outstanding == {client.retained, delivery.drain, delivery.waiting} \ {NoDrain}

AccountInv ==
    /\ Settled \subseteq 1..(First - 1)
    /\ \A d \in Outstanding : d.seq < First
    /\ \A n \in 1..(First - 1) : n \in Settled \/ \E d \in Outstanding : d.seq = n
    /\ delivery.waiting # NoDrain =>
           \A n \in 1..(delivery.waiting.seq - 1) : n \in Settled \/ n = delivery.drain.seq
    /\ \A d \in {client.retained, delivery.drain} \ {NoDrain} : Declared(d)

ResyncInv ==
    /\ Ranges(client.resync, Settled)
    /\ client.resync = NoResync => \A d \in Outstanding : \A n \in Settled : n < d.seq

ClientInv == ClientType /\ QueueInv /\ DeliveryInv /\ AccountInv /\ ResyncInv

\* prepareResync: what is posted tells the server of all that is missing before it.
LEMMA DeclaringTold ==
    ASSUME ServerInv, NEW d \in Drains, ~Declares(d), NEW settled \in SUBSET Nat,
           \A n \in 1..(d.seq - 1) : n \in settled,
           NEW r \in [from : Nat, through : Nat], Ranges(r, settled)
    PROVE  /\ Declaring(d, r) \in Drains /\ Declaring(d, r).seq = d.seq
           /\ Declared(Declaring(d, r))
<1>1. /\ d.seq \in Nat /\ d.seq > 0 /\ Top(Held) \in Nat
      /\ DOMAIN d = {"seq", "from", "through", "end", "big"}
  BY DrainFacts, HeldFacts
<1>2. r.from \in Nat /\ r.through \in Nat
  OBVIOUS
<1> DEFINE through == Least(r.through, d.seq - 1)
<1>3. \A n \in 1..(d.seq - 1) : /\ n <= Top(Held) \/ (r.from <= n /\ n <= r.through)
                                /\ r # NoResync => n <= r.through
  BY DEF Ranges
<1>4. CASE r = NoResync \/ r.from > through
  <2>1. Declaring(d, r) = d
    BY <1>4 DEF Declaring
  <2>2. d.seq <= Top(Held) + 1
    <3>1. CASE d.seq = 1
      BY <1>1, <3>1
    <3>2. CASE d.seq > 1
      <4>1. d.seq - 1 \in 1..(d.seq - 1)
        BY <1>1, <3>2
      <4>2. d.seq - 1 <= Top(Held) \/ (r.from <= d.seq - 1 /\ d.seq - 1 <= r.through)
        BY <1>3, <4>1
      <4>3. ~(r.from <= d.seq - 1 /\ d.seq - 1 <= r.through)
        BY <1>1, <1>2, <1>4, <3>2 DEF NoResync, Least
      <4>4. QED BY <1>1, <4>2, <4>3
    <3>3. QED BY <1>1, <3>1, <3>2
  <2>3. QED BY <2>1, <2>2 DEF Declared
<1>5. CASE r # NoResync /\ ~(r.from > through)
  <2>1. r.from >= 1 /\ r.from <= r.through
    BY <1>5 DEF Ranges
  <2>2. through \in Nat /\ r.from <= through /\ through <= d.seq - 1
    BY <1>1, <1>2, <1>5 DEF Least
  <2>3. through = d.seq - 1
    <3>1. d.seq - 1 \in 1..(d.seq - 1)
      BY <1>1, <2>1, <2>2
    <3>2. d.seq - 1 <= r.through
      BY <1>3, <1>5, <3>1
    <3>3. QED BY <1>1, <1>2, <3>2 DEF Least
  <2>4. r.from \in 1..(d.seq - 1)
    BY <1>1, <1>2, <2>1, <2>2, <2>3
  <2>5. Declaring(d, r) = [d EXCEPT !.from = r.from, !.through = d.seq - 1]
    BY <1>5, <2>3 DEF Declaring
  <2>6. Declaring(d, r) \in Drains
    BY <2>4, <2>5, ClientAssumption
  <2>7. /\ Declaring(d, r).seq = d.seq /\ Declaring(d, r).from = r.from
        /\ Declaring(d, r).through = d.seq - 1
    BY <1>1, <2>5
  <2>8. r.from <= Top(Held) + 1
    <3>1. CASE r.from = 1
      BY <1>1, <3>1
    <3>2. CASE r.from > 1
      <4>1. r.from - 1 \in 1..(d.seq - 1)
        BY <1>1, <1>2, <2>4, <3>2
      <4>2. ~(r.from <= r.from - 1)
        BY <1>2
      <4>3. r.from - 1 <= Top(Held)
        BY <1>3, <4>1, <4>2
      <4>4. QED BY <1>1, <1>2, <4>3
    <3>3. QED BY <1>2, <2>1, <3>1, <3>2
  <2>9. QED BY <2>1, <2>6, <2>7, <2>8, <1>2 DEF Declared, Declares
<1>6. QED BY <1>4, <1>5

\* rememberDroppedDrain keeps the range over what is settled, one more payload included.
LEMMA WidenedRanges ==
    ASSUME ServerInv, NEW d \in Drains, NEW settled \in SUBSET Nat,
           NEW r \in [from : Nat, through : Nat], Ranges(r, settled),
           r = NoResync => \A n \in settled : n <= d.seq
    PROVE  LET w == Widened(r, d)
           IN  /\ w \in [from : Nat, through : Nat] /\ w # NoResync
               /\ Ranges(w, settled \cup {d.seq})
               /\ w.from <= d.seq /\ d.seq <= w.through
<1> DEFINE w == Widened(r, d)
           first == IF Declares(d) THEN Least(d.seq, d.from) ELSE d.seq
<1>1. /\ d.seq \in Nat /\ d.seq > 0 /\ d.from \in Nat /\ d.from < d.seq /\ Top(Held) \in Nat
  BY DrainFacts, HeldFacts
<1>2. r.from \in Nat /\ r.through \in Nat
  OBVIOUS
<1>3. first \in Nat /\ 1 <= first /\ first <= d.seq
  BY <1>1 DEF Least, Declares
<1>4. CASE r = NoResync
  <2>1. w = [from |-> first, through |-> d.seq]
    BY <1>4 DEF Widened
  <2>2. w.from = first /\ w.through = d.seq /\ w \in [from : Nat, through : Nat]
    BY <1>1, <1>3, <2>1
  <2>3. w # NoResync
    BY <1>1, <2>1 DEF NoResync
  <2>4. \A n \in settled : n <= Top(Held)
    <3>1. \A n \in settled : n <= Top(Held) \/ (r.from <= n /\ n <= r.through)
      BY DEF Ranges
    <3>2. r.from = 0 /\ r.through = 0
      BY <1>4 DEF NoResync
    <3>3. QED BY <1>1, <3>1, <3>2
  <2>5. \A n \in settled \cup {d.seq} :
            (n <= Top(Held) \/ (w.from <= n /\ n <= w.through)) /\ n <= w.through
    BY <1>1, <1>3, <1>4, <2>2, <2>4
  <2>6. Ranges(w, settled \cup {d.seq})
    BY <1>3, <2>2, <2>5 DEF Ranges
  <2>7. QED BY <1>1, <1>3, <2>2, <2>3, <2>6
<1>5. CASE r # NoResync
  <2>1. w = [from |-> Least(r.from, first), through |-> Greatest(r.through, d.seq)]
    BY <1>5 DEF Widened
  <2>2. /\ w.from = Least(r.from, first) /\ w.through = Greatest(r.through, d.seq)
        /\ w \in [from : Nat, through : Nat]
    BY <1>1, <1>2, <1>3, <2>1 DEF Least, Greatest
  <2>3. 1 <= r.from /\ r.from <= r.through
    BY <1>5 DEF Ranges
  <2>4. /\ 1 <= w.from /\ w.from <= r.from /\ w.from <= d.seq
        /\ r.through <= w.through /\ d.seq <= w.through
    BY <1>1, <1>2, <1>3, <2>2, <2>3 DEF Least, Greatest
  <2>5. w # NoResync
    BY <2>4, <2>2 DEF NoResync
  <2>6. \A n \in settled : (n <= Top(Held) \/ (r.from <= n /\ n <= r.through)) /\ n <= r.through
    BY <1>5 DEF Ranges
  <2>7. w.from \in Nat /\ w.through \in Nat
    BY <2>2
  <2>8. \A n \in settled \cup {d.seq} :
            (n <= Top(Held) \/ (w.from <= n /\ n <= w.through)) /\ n <= w.through
    BY <1>1, <1>2, <2>4, <2>6, <2>7
  <2>9. Ranges(w, settled \cup {d.seq})
    BY <1>1, <2>4, <2>7, <2>8 DEF Ranges
  <2>10. QED BY <2>2, <2>4, <2>5, <2>9
<1>6. QED BY <1>4, <1>5

\* The same for a queue: its first and its last payload are enough.
LEMMA WidenedByAllRanges ==
    ASSUME ServerInv, NEW q \in Seq(Drains), q # <<>>, NEW settled \in SUBSET Nat,
           \A n \in 1..Len(q) : Head(q).seq <= q[n].seq /\ q[n].seq <= q[Len(q)].seq,
           NEW r \in [from : Nat, through : Nat], Ranges(r, settled),
           r = NoResync => \A n \in settled : n <= Head(q).seq
    PROVE  LET w == WidenedByAll(r, q)
           IN  /\ w \in [from : Nat, through : Nat] /\ w # NoResync
               /\ Ranges(w, settled \cup Sequences(q))
<1> DEFINE first == Head(q)
           last == q[Len(q)]
           v == Widened(r, first)
           w == Widened(v, last)
<1>1. 1 \in 1..Len(q) /\ Len(q) \in 1..Len(q) /\ Len(q) \in Nat /\ first = q[1]
  OBVIOUS
<1>2. first \in Drains /\ last \in Drains
  BY <1>1
<1>3. /\ v \in [from : Nat, through : Nat] /\ v # NoResync
      /\ Ranges(v, settled \cup {first.seq}) /\ v.from <= first.seq
  BY <1>2, WidenedRanges
<1>4. first.seq \in Nat /\ last.seq \in Nat /\ first.seq > 0 /\ Top(Held) \in Nat
  BY <1>2, DrainFacts, HeldFacts
<1> DEFINE more == settled \cup {first.seq}
<1>5. more \in SUBSET Nat /\ Ranges(v, more)
  BY <1>3, <1>4
<1> HIDE DEF v, more, last, first
<1>6. /\ w \in [from : Nat, through : Nat] /\ w # NoResync
      /\ Ranges(w, more \cup {last.seq}) /\ last.seq <= w.through
  BY <1>2, <1>3, <1>5, WidenedRanges
<1>7. w.from <= v.from
  <2>1. w = [from |-> Least(v.from, IF Declares(last) THEN Least(last.seq, last.from)
                                                      ELSE last.seq),
             through |-> Greatest(v.through, last.seq)]
    BY <1>3 DEF Widened
  <2>2. last.from \in Nat
    BY <1>2, DrainFacts
  <2>3. QED BY <1>3, <1>4, <2>1, <2>2 DEF Least
<1>8. WidenedByAll(r, q) = w
  BY DEF WidenedByAll, v, last, first
<1>9. ASSUME NEW n \in settled \cup Sequences(q)
      PROVE  (n <= Top(Held) \/ (w.from <= n /\ n <= w.through)) /\ n <= w.through
  <2>1. CASE n \in settled
    BY <1>6, <2>1 DEF Ranges, more
  <2>2. CASE n \in Sequences(q)
    <3>1. PICK k \in 1..Len(q) : n = q[k].seq
      BY <2>2 DEF Sequences
    <3>2. n \in Nat /\ first.seq <= n /\ n <= last.seq
      BY <3>1, DrainFacts DEF first, last
    <3>3. QED BY <1>3, <1>4, <1>6, <1>7, <3>2
  <2>3. QED BY <1>9, <2>1, <2>2
<1>10. 1 <= w.from /\ w.from <= w.through
  BY <1>6 DEF Ranges
<1>11. Ranges(w, settled \cup Sequences(q))
  BY <1>9, <1>10 DEF Ranges
<1>12. QED BY <1>6, <1>8, <1>11

\* clearResync: what the accepted payload is past is in the log.
LEMMA ClearedRanges ==
    ASSUME ServerInv, NEW d \in Drains, d.seq <= Top(Held), NEW settled \in SUBSET Nat,
           NEW r \in [from : Nat, through : Nat], Ranges(r, settled)
    PROVE  LET w == Cleared(r, d)
           IN  /\ w \in [from : Nat, through : Nat]
               /\ Ranges(w, settled \cup {d.seq})
               /\ w = NoResync => r = NoResync \/ \A n \in settled : n <= d.seq
<1> DEFINE w == Cleared(r, d)
<1>1. d.seq \in Nat /\ d.seq > 0 /\ Top(Held) \in Nat
  BY DrainFacts, HeldFacts
<1>2. r.from \in Nat /\ r.through \in Nat
  OBVIOUS
<1>3. /\ r = NoResync \/ (1 <= r.from /\ r.from <= r.through)
      /\ \A n \in settled : /\ n <= Top(Held) \/ (r.from <= n /\ n <= r.through)
                            /\ r # NoResync => n <= r.through
  BY DEF Ranges
<1>4. CASE r = NoResync
  <2>1. w = r
    BY <1>4 DEF Cleared
  <2>2. \A n \in settled \cup {d.seq} : n <= Top(Held) \/ (r.from <= n /\ n <= r.through)
    BY <1>3
  <2>3. Ranges(w, settled \cup {d.seq})
    BY <1>4, <2>1, <2>2 DEF Ranges
  <2>4. QED BY <1>4, <2>1, <2>3
<1>5. CASE r # NoResync /\ d.seq < r.from
  <2>1. w = r
    BY <1>5 DEF Cleared
  <2>2. d.seq <= r.through
    BY <1>1, <1>2, <1>3, <1>5
  <2>3. Ranges(w, settled \cup {d.seq})
    BY <1>3, <1>5, <2>1, <2>2 DEF Ranges
  <2>4. QED BY <1>5, <2>1, <2>3
<1>6. CASE r # NoResync /\ ~(d.seq < r.from) /\ d.seq >= r.through
  <2>1. w = NoResync
    BY <1>6 DEF Cleared
  <2>2. \A n \in settled : n <= d.seq /\ n <= Top(Held)
    BY <1>1, <1>2, <1>3, <1>6
  <2>3. Ranges(w, settled \cup {d.seq})
    BY <2>1, <2>2 DEF Ranges
  <2>4. QED BY <2>1, <2>2, <2>3 DEF NoResync
<1>7. CASE r # NoResync /\ ~(d.seq < r.from) /\ ~(d.seq >= r.through)
  <2>1. w = [from |-> d.seq + 1, through |-> r.through]
    BY <1>7 DEF Cleared
  <2>2. /\ w \in [from : Nat, through : Nat] /\ w.from = d.seq + 1 /\ w.through = r.through
        /\ w # NoResync
    BY <1>1, <1>2, <2>1 DEF NoResync
  <2>3. ASSUME NEW n \in settled \cup {d.seq}
        PROVE  (n <= Top(Held) \/ (w.from <= n /\ n <= w.through)) /\ n <= w.through
    BY <1>1, <1>2, <1>3, <1>7, <2>2
  <2>4. Ranges(w, settled \cup {d.seq})
    BY <1>1, <1>2, <1>7, <2>2, <2>3 DEF Ranges
  <2>5. QED BY <2>2, <2>4
<1>8. QED BY <1>1, <1>2, <1>4, <1>5, <1>6, <1>7

-----------------------------------------------------------------------------
(* drain's loop goes on                                                    *)

\* Between two deliveries: the transport holds `c`, and the sequences before `first` are
\* settled, or the one of its retained request.
Ready(c, settled, first) ==
    /\ c \in Clients /\ first \in Nat \ {0}
    /\ InOrder(c.queue, first)
    /\ c.stopped => c.queue = <<>>
    /\ c.retained # NoDrain => /\ Declared(c.retained) /\ c.retained.seq < first
                               /\ c.resync = NoResync => \A n \in settled : n < c.retained.seq
    /\ settled \subseteq 1..(first - 1)
    /\ \A n \in 1..(first - 1) : n \in settled \/ (c.retained # NoDrain /\ c.retained.seq = n)
    /\ Ranges(c.resync, settled)

\* What no step of the run changes: the history, and the number the recorder is at.
Recorded(next) ==
    /\ recorder' \in [next : Nat \ {0}, ended : BOOLEAN] /\ recorder'.next = next
    /\ late' \subseteq Drains /\ accepted' \subseteq Drains

Answered == {d.seq : d \in accepted'}

LEMMA QueueFacts ==
    ASSUME NEW q \in Seq(Drains), NEW first \in Nat \ {0}, InOrder(q, first), q # <<>>
    PROVE  /\ Head(q) \in Drains /\ Head(q).seq = first /\ ~Declares(Head(q))
           /\ Tail(q) \in Seq(Drains) /\ Len(Tail(q)) = Len(q) - 1 /\ Len(q) \in Nat \ {0}
           /\ InOrder(Tail(q), first + 1)
           /\ \A n \in 1..Len(q) : Head(q).seq <= q[n].seq /\ q[n].seq <= q[Len(q)].seq
           /\ Sequences(q) = first..(first + Len(q) - 1)
<1>1. 1 \in 1..Len(q) /\ Len(q) \in 1..Len(q) /\ Len(q) \in Nat \ {0} /\ Head(q) = q[1]
  OBVIOUS
<1>2. \A n \in 1..Len(q) : q[n].seq = first + n - 1 /\ ~Declares(q[n]) /\ q[n] \in Drains
  BY DEF InOrder
<1>3. Head(q) \in Drains /\ Head(q).seq = first /\ ~Declares(Head(q))
  <2>1. q[1].seq = first + 1 - 1
    BY <1>1, <1>2
  <2>2. QED BY <1>1, <1>2, <2>1
<1>4. /\ Tail(q) \in Seq(Drains) /\ Len(Tail(q)) = Len(q) - 1
      /\ \A n \in 1..Len(Tail(q)) : Tail(q)[n] = q[n + 1] /\ n + 1 \in 1..Len(q)
  OBVIOUS
<1>5. InOrder(Tail(q), first + 1)
  <2> SUFFICES ASSUME NEW n \in 1..Len(Tail(q))
               PROVE  Tail(q)[n].seq = first + 1 + n - 1 /\ ~Declares(Tail(q)[n])
    BY DEF InOrder
  <2>1. Tail(q)[n] = q[n + 1] /\ n + 1 \in 1..Len(q)
    BY <1>4
  <2>2. q[n + 1].seq = first + (n + 1) - 1 /\ ~Declares(q[n + 1])
    BY <1>2, <2>1
  <2>3. first + (n + 1) - 1 = first + 1 + n - 1
    BY <1>4
  <2>4. QED BY <2>1, <2>2, <2>3
<1>6. ASSUME NEW n \in 1..Len(q)
      PROVE  Head(q).seq <= q[n].seq /\ q[n].seq <= q[Len(q)].seq
  <2>1. q[n].seq = first + n - 1 /\ q[Len(q)].seq = first + Len(q) - 1
    BY <1>1, <1>2
  <2>2. QED BY <1>1, <1>3, <2>1
<1>7. Sequences(q) = first..(first + Len(q) - 1)
  <2>1. ASSUME NEW m \in first..(first + Len(q) - 1) PROVE m \in Sequences(q)
    <3>1. m - first + 1 \in 1..Len(q)
      BY <1>1
    <3>2. q[m - first + 1].seq = first + (m - first + 1) - 1
      BY <1>2, <3>1
    <3>3. first + (m - first + 1) - 1 = m
      OBVIOUS
    <3>4. QED BY <3>1, <3>2, <3>3 DEF Sequences
  <2>2. ASSUME NEW n \in 1..Len(q) PROVE q[n].seq \in first..(first + Len(q) - 1)
    <3>1. q[n].seq = first + n - 1
      BY <1>2
    <3>2. QED BY <1>1, <3>1
  <2>3. QED BY <2>1, <2>2 DEF Sequences
<1>8. QED BY <1>1, <1>3, <1>4, <1>5, <1>6, <1>7

\* The exact request was tried in this run and still stands: the queue behind it is given
\* up, whatever was put at its head.
LEMMA GivenUp ==
    ASSUME ServerInv, Held' = Held, NEW next \in Nat \ {0}, Recorded(next),
           NEW c \in Clients, c.retained # NoDrain, c.queue # <<>>,
           Declared(c.retained), c.retained.seq < next,
           NEW settled, settled \subseteq 1..(next - 1), Sequences(c.queue) \subseteq 1..(next - 1),
           \A n \in 1..(next - 1) : n \in settled \cup Sequences(c.queue) \/ c.retained.seq = n,
           \A n \in 1..Len(c.queue) : /\ Head(c.queue).seq <= c.queue[n].seq
                                      /\ c.queue[n].seq <= c.queue[Len(c.queue)].seq,
           Ranges(c.resync, settled),
           c.resync = NoResync => \A n \in settled : n <= Head(c.queue).seq,
           Rest([c EXCEPT !.queue = <<>>, !.resync = WidenedByAll(c.resync, c.queue)]),
           gaveUp' \cup Answered = settled \cup Sequences(c.queue)
    PROVE  ClientInv' /\ request' \in {"none", "flying"}
<1> DEFINE w == WidenedByAll(c.resync, c.queue)
           told == settled \cup Sequences(c.queue)
<1>1. /\ c.queue \in Seq(Drains) /\ c.resync \in [from : Nat, through : Nat]
      /\ c.retained \in MaybeDrain
  BY DEF Clients
<1>2. /\ w \in [from : Nat, through : Nat] /\ w # NoResync
      /\ Ranges(w, told)
  <2>1. settled \in SUBSET Nat
    OBVIOUS
  <2>2. QED BY <1>1, <2>1, WidenedByAllRanges
<1> HIDE DEF w
<1>3. client' = [[c EXCEPT !.queue = <<>>, !.resync = w] EXCEPT !.attempted = FALSE]
  BY DEF Rest, w
<1>4. /\ client' \in Clients /\ client'.queue = <<>> /\ client'.retained = c.retained
      /\ client'.resync = w
  <2> DEFINE b == [c EXCEPT !.queue = <<>>, !.resync = w]
  <2>1. <<>> \in Seq(Drains)
    OBVIOUS
  <2>2. /\ b \in Clients /\ b.queue = <<>> /\ b.retained = c.retained /\ b.resync = w
    BY <1>2, <2>1 DEF Clients
  <2>3. client' = [b EXCEPT !.attempted = FALSE]
    BY <1>3
  <2> HIDE DEF b
  <2>4. QED BY <2>2, <2>3 DEF Clients
<1>5. delivery' = NoDelivery /\ request' = "none"
  BY DEF Rest
<1>6. delivery'.drain = NoDrain /\ delivery'.waiting = NoDrain /\ delivery' \in Deliveries
  BY <1>5, EmptyTypes DEF NoDelivery, Deliveries
<1>7. Settled' = told
  BY DEF Settled, Answered
<1>8. First' = next
  BY <1>4 DEF First, Recorded
<1>9. Outstanding' = {c.retained}
  BY <1>4, <1>6 DEF Outstanding
<1>10. Declared(c.retained)'
  BY <1>4 DEF Declared
<1>11. ClientType' /\ QueueInv' /\ DeliveryInv'
  <2>1. ClientType'
    BY <1>4, <1>6 DEF ClientType, Recorded
  <2>2. QueueInv'
    BY <1>4, <1>8 DEF QueueInv, InOrder
  <2>3. DeliveryInv'
    BY <1>4, <1>5, <1>6 DEF DeliveryInv
  <2>4. QED BY <2>1, <2>2, <2>3
<1>12. AccountInv'
  <2>1. Settled' \subseteq 1..(First' - 1)
    BY <1>7, <1>8
  <2>2. \A d \in Outstanding' : d.seq < First'
    BY <1>8, <1>9
  <2>3. \A n \in 1..(First' - 1) : n \in Settled' \/ \E d \in Outstanding' : d.seq = n
    BY <1>7, <1>8, <1>9
  <2>4. \A d \in {client'.retained, delivery'.drain} \ {NoDrain} : d = c.retained
    BY <1>4, <1>6
  <2>5. QED BY <1>4, <1>6, <1>10, <2>1, <2>2, <2>3, <2>4 DEF AccountInv, Declared
<1>13. ResyncInv'
  <2>1. Ranges(w, told)'
    BY <1>2 DEF Ranges
  <2>2. QED BY <1>2, <1>4, <1>7, <2>1 DEF ResyncInv, Ranges
<1>14. QED BY <1>5, <1>11, <1>12, <1>13 DEF ClientInv

\* A payload goes out: what the transport holds is accounted for, and told to the server.
LEMMA Posted ==
    ASSUME ServerInv, Held' = Held, NEW next \in Nat \ {0}, Recorded(next),
           NEW d \in Drains, NEW waiting \in MaybeDrain, Post(d, waiting),
           client' \in Clients, NEW first \in Nat \ {0}, first = next - Len(client'.queue),
           InOrder(client'.queue, first), client'.stopped => client'.queue = <<>>,
           NEW settled, settled = gaveUp' \cup Answered, settled \subseteq 1..(first - 1),
           d.seq < first, Declared(d),
           client'.retained # NoDrain => client'.retained = d /\ client'.attempted,
           waiting # NoDrain => /\ client'.retained = d /\ ~Declares(waiting)
                                /\ d.seq < waiting.seq /\ waiting.seq < first
                                /\ \A n \in 1..(waiting.seq - 1) : n \in settled \/ n = d.seq,
           \A n \in 1..(first - 1) :
               n \in settled \/ n = d.seq \/ (waiting # NoDrain /\ n = waiting.seq),
           Ranges(client'.resync, settled),
           client'.resync = NoResync => \A n \in settled : n < d.seq
    PROVE  ClientInv' /\ request' = "flying"
<1>1. /\ delivery' = [drain |-> d, waiting |-> waiting, attempts |-> 1]
      /\ request' = "flying"
  BY DEF Post
<1>2. d \in MaybeDrain /\ d # NoDrain /\ d.seq \in Nat
  BY DrainFacts DEF MaybeDrain
<1>3. /\ delivery'.drain = d /\ delivery'.waiting = waiting
      /\ delivery' \in Deliveries
  BY <1>1, <1>2 DEF Deliveries
<1>4. Settled' = settled /\ First' = first
  BY DEF Settled, Answered, First, Recorded
<1>5. Outstanding' = {d, waiting} \ {NoDrain}
  BY <1>2, <1>3 DEF Outstanding
<1>6. Declared(d)'
  BY DEF Declared
<1>7. ClientType'
  BY <1>3 DEF ClientType, Recorded
<1>8. QueueInv'
  BY <1>4 DEF QueueInv, InOrder
<1>9. DeliveryInv'
  BY <1>1, <1>2, <1>3 DEF DeliveryInv
<1>10. AccountInv'
  <2>1. Settled' \subseteq 1..(First' - 1)
    BY <1>4
  <2>2. \A e \in Outstanding' : e.seq < First'
    BY <1>4, <1>5
  <2>3. \A n \in 1..(First' - 1) : n \in Settled' \/ \E e \in Outstanding' : e.seq = n
    BY <1>2, <1>4, <1>5
  <2>4. delivery'.waiting # NoDrain =>
            \A n \in 1..(delivery'.waiting.seq - 1) : n \in Settled' \/ n = delivery'.drain.seq
    BY <1>3, <1>4
  <2>5. \A e \in {client'.retained, delivery'.drain} \ {NoDrain} : e = d
    BY <1>2, <1>3
  <2>6. QED BY <1>6, <2>1, <2>2, <2>3, <2>4, <2>5 DEF AccountInv, Declared
<1>11. ResyncInv'
  <2>1. Ranges(client.resync, Settled)'
    BY <1>4 DEF Ranges
  <2>2. ASSUME client'.resync = NoResync, NEW e \in Outstanding', NEW n \in Settled'
        PROVE  n < e.seq
    <3>1. n < d.seq /\ n \in Nat
      BY <1>4, <2>2
    <3>2. CASE e = d
      BY <3>1, <3>2
    <3>3. CASE e = waiting /\ waiting # NoDrain
      <4>1. e.seq \in Nat /\ d.seq < e.seq
        BY <3>3, DrainFacts DEF MaybeDrain
      <4>2. QED BY <1>2, <3>1, <4>1
    <3>4. QED BY <1>5, <2>2, <3>2, <3>3
  <2>3. QED BY <2>1, <2>2 DEF ResyncInv
<1>12. QED BY <1>1, <1>7, <1>8, <1>9, <1>10, <1>11 DEF ClientInv

LEMMA RunOnKeeps ==
    ASSUME ServerInv, Held' = Held, NEW next \in Nat \ {0}, Recorded(next),
           NEW c, NEW lost, RunOn(c, lost),
           NEW first \in Nat \ {0}, first = next - Len(c.queue),
           NEW settled, settled = gaveUp \cup lost \cup Answered,
           Ready(c, settled, first)
    PROVE  ClientInv' /\ request' \in {"none", "flying"}
<1> DEFINE q == c.queue
<1>1. /\ c \in Clients /\ first \in Nat \ {0} /\ InOrder(q, first)
      /\ c.stopped => q = <<>>
      /\ c.retained # NoDrain => /\ Declared(c.retained) /\ c.retained.seq < first
                                 /\ c.resync = NoResync => \A n \in settled : n < c.retained.seq
      /\ settled \subseteq 1..(first - 1)
      /\ \A n \in 1..(first - 1) : n \in settled \/ (c.retained # NoDrain /\ c.retained.seq = n)
      /\ Ranges(c.resync, settled)
  BY DEF Ready
<1>2. /\ q \in Seq(Drains) /\ c.retained \in MaybeDrain /\ Len(q) \in Nat
      /\ c.resync \in [from : Nat, through : Nat]
  BY <1>1 DEF Clients
<1>3. c.retained # NoDrain => c.retained \in Drains /\ c.retained.seq \in Nat
  BY <1>2, DrainFacts DEF MaybeDrain
<1>4. CASE q = <<>> /\ Rest(c) /\ gaveUp' = gaveUp \cup lost
  <2>1. client' = [c EXCEPT !.attempted = FALSE] /\ delivery' = NoDelivery /\ request' = "none"
    BY <1>4 DEF Rest
  <2>2. /\ client' \in Clients /\ client'.queue = <<>> /\ client'.retained = c.retained
        /\ client'.resync = c.resync
    BY <1>1, <1>4, <2>1 DEF Clients
  <2>3. delivery'.drain = NoDrain /\ delivery'.waiting = NoDrain /\ delivery' \in Deliveries
    BY <2>1, EmptyTypes DEF NoDelivery, Deliveries
  <2>4. Settled' = settled
    BY <1>4 DEF Settled, Answered
  <2>5. First' = first
    BY <1>4, <2>2 DEF First, Recorded
  <2>6. Outstanding' = {c.retained} \ {NoDrain}
    BY <2>2, <2>3 DEF Outstanding
  <2>7. ClientType'
    BY <2>2, <2>3 DEF ClientType, Recorded
  <2>8. QueueInv'
    BY <1>1, <2>2, <2>5 DEF QueueInv, InOrder
  <2>9. DeliveryInv'
    BY <2>1, <2>2, <2>3 DEF DeliveryInv
  <2>10. AccountInv'
    <3>1. Settled' \subseteq 1..(First' - 1)
      BY <1>1, <2>4, <2>5
    <3>2. \A d \in Outstanding' : d.seq < First'
      BY <1>1, <2>5, <2>6
    <3>3. \A n \in 1..(First' - 1) : n \in Settled' \/ \E d \in Outstanding' : d.seq = n
      BY <1>1, <2>4, <2>5, <2>6
    <3>4. \A d \in {client'.retained, delivery'.drain} \ {NoDrain} :
              d = c.retained /\ c.retained # NoDrain
      BY <2>2, <2>3
    <3>5. c.retained # NoDrain => Declared(c.retained)'
      BY <1>1 DEF Declared
    <3>6. QED BY <2>3, <3>1, <3>2, <3>3, <3>4, <3>5 DEF AccountInv, Declared
  <2>11. ResyncInv'
    <3>1. Ranges(client.resync, Settled)'
      BY <1>1, <2>2, <2>4, SMTT(30) DEF Ranges
    <3>2. QED BY <1>1, <2>2, <2>4, <2>6, <3>1 DEF ResyncInv
  <2>12. QED BY <2>1, <2>7, <2>8, <2>9, <2>10, <2>11 DEF ClientInv
<1>5. CASE /\ q # <<>> /\ c.retained # NoDrain
           /\ Rest([c EXCEPT !.queue = <<>>, !.resync = WidenedByAll(c.resync, c.queue)])
           /\ gaveUp' = gaveUp \cup lost \cup Sequences(c.queue)
  <2>1. /\ Head(q).seq = first /\ Len(q) \in Nat \ {0}
        /\ \A n \in 1..Len(q) : Head(q).seq <= q[n].seq /\ q[n].seq <= q[Len(q)].seq
        /\ Sequences(q) = first..(first + Len(q) - 1)
    <3> HIDE DEF q
    <3>1. InOrder(q, first) /\ q \in Seq(Drains) /\ q # <<>>
      BY <1>1, <1>2, <1>5
    <3>2. QED BY <3>1, QueueFacts
  <2>2. first + Len(q) - 1 = next - 1 /\ first <= next /\ first \in Nat \ {0}
    BY <1>1, <1>2, <2>1
  <2>3. Sequences(q) \subseteq 1..(next - 1) /\ settled \subseteq 1..(next - 1)
    BY <1>1, <2>1, <2>2
  <2>4. \A n \in 1..(next - 1) : n \in settled \cup Sequences(q) \/ c.retained.seq = n
    BY <1>1, <2>1, <2>2
  <2>5. \A n \in settled : n <= Head(q).seq
    BY <1>1, <2>1, <2>2
  <2>6. gaveUp' \cup Answered = settled \cup Sequences(q)
    BY <1>5
  <2>7. c.retained.seq < next
    BY <1>1, <1>3, <1>5, <2>2
  <2>8. QED BY <1>1, <1>5, <2>1, <2>3, <2>4, <2>5, <2>6, <2>7, GivenUp
<1>6. CASE /\ q # <<>> /\ c.retained # NoDrain
           /\ client' = [c EXCEPT !.queue = Tail(c.queue), !.attempted = TRUE]
           /\ Post(c.retained, Head(c.queue))
           /\ gaveUp' = gaveUp \cup lost
  <2>0. PICK last \in Nat \ {0} : last = first + 1
    <3>1. first + 1 \in Nat \ {0}
      OBVIOUS
    <3>2. QED BY <3>1
  <2>1. /\ Head(q) \in Drains /\ Head(q).seq = first /\ ~Declares(Head(q))
        /\ Tail(q) \in Seq(Drains) /\ Len(Tail(q)) = Len(q) - 1 /\ Len(q) \in Nat \ {0}
        /\ InOrder(Tail(q), first + 1)
    <3> HIDE DEF q
    <3>1. InOrder(q, first) /\ q \in Seq(Drains) /\ q # <<>>
      BY <1>1, <1>2, <1>6
    <3>2. QED BY <3>1, QueueFacts
  <2>2. /\ client' \in Clients /\ client'.queue = Tail(q) /\ client'.retained = c.retained
        /\ client'.resync = c.resync /\ client'.attempted /\ client'.stopped = c.stopped
    BY <1>1, <1>6, <2>1 DEF Clients
  <2>3. last = next - Len(client'.queue) /\ last \in Nat \ {0} /\ last = first + 1
    <3>1. Len(client'.queue) = Len(q) - 1 /\ first = next - Len(q)
      BY <2>1, <2>2
    <3>2. QED BY <1>1, <2>0, <2>1, <3>1
  <2>4. settled = gaveUp' \cup Answered
    BY <1>6
  <2>5. settled \subseteq 1..(last - 1) /\ c.retained.seq < last
    <3>1. c.retained.seq < last
      BY <1>1, <1>3, <1>6, <2>3
    <3>2. settled \subseteq 1..(last - 1)
      <4>1. 1..(first - 1) \subseteq 1..(last - 1)
        BY <2>3
      <4>2. QED BY <1>1, <4>1
    <3>3. QED BY <3>1, <3>2
  <2>6. Head(q) \in MaybeDrain
    BY <2>1 DEF MaybeDrain
  <2>7. /\ c.retained.seq < Head(q).seq /\ Head(q).seq < last
        /\ \A n \in 1..(Head(q).seq - 1) : n \in settled \/ n = c.retained.seq
    BY <1>1, <1>6, <2>1, <2>3, SMTT(30)
  <2>8. \A n \in 1..(last - 1) : n \in settled \/ n = c.retained.seq \/ n = Head(q).seq
    <3> TAKE n \in 1..(last - 1)
    <3>1. n \in 1..(first - 1) \/ n = first
      BY <2>3
    <3>2. QED BY <1>1, <2>1, <3>1
  <2>9. Head(q) # NoDrain
    BY <2>1, DrainFacts
  <2>10. client'.stopped => client'.queue = <<>>
    BY <1>1, <1>6, <2>2
  <2>11. InOrder(client'.queue, last) /\ Ranges(client'.resync, settled)
    BY <1>1, <2>1, <2>2, <2>3
  <2>12. c.retained \in Drains /\ Declared(c.retained) /\ Post(c.retained, Head(q))
    BY <1>1, <1>3, <1>6
  <2>13. client'.resync = NoResync => \A n \in settled : n < c.retained.seq
    BY <1>1, <1>6, <2>2
  <2>14. client'.retained = c.retained /\ client'.attempted
    BY <2>2
  <2>15. ~Declares(Head(q))
    BY <2>1
  <2>16. c.retained.seq < last /\ settled \subseteq 1..(last - 1)
    BY <2>5
  <2>17. \A n \in 1..(last - 1) :
             n \in settled \/ n = c.retained.seq \/ (Head(q) # NoDrain /\ n = Head(q).seq)
    BY <2>8, <2>9
  <2>18. QED BY <2>2, <2>3, <2>4, <2>6, <2>7, <2>10, <2>11, <2>12, <2>13, <2>14, <2>15, <2>16,
                <2>17, Posted
<1>7. CASE /\ q # <<>> /\ c.retained = NoDrain
           /\ client' = [c EXCEPT !.queue = Tail(c.queue)]
           /\ Post(Declaring(Head(c.queue), c.resync), NoDrain)
           /\ gaveUp' = gaveUp \cup lost
  <2>0. PICK last \in Nat \ {0} : last = first + 1
    <3>1. first + 1 \in Nat \ {0}
      OBVIOUS
    <3>2. QED BY <3>1
  <2> DEFINE d == Declaring(Head(q), c.resync)
  <2>1. /\ Head(q) \in Drains /\ Head(q).seq = first /\ ~Declares(Head(q))
        /\ Tail(q) \in Seq(Drains) /\ Len(Tail(q)) = Len(q) - 1 /\ Len(q) \in Nat \ {0}
        /\ InOrder(Tail(q), first + 1)
    <3> HIDE DEF q
    <3>1. InOrder(q, first) /\ q \in Seq(Drains) /\ q # <<>>
      BY <1>1, <1>2, <1>7
    <3>2. QED BY <3>1, QueueFacts
  <2>2. /\ client' \in Clients /\ client'.queue = Tail(q) /\ client'.retained = NoDrain
        /\ client'.resync = c.resync /\ client'.stopped = c.stopped
    BY <1>1, <1>7, <2>1 DEF Clients
  <2>3. last = next - Len(client'.queue) /\ last \in Nat \ {0} /\ last = first + 1
    <3>1. Len(client'.queue) = Len(q) - 1 /\ first = next - Len(q)
      BY <2>1, <2>2
    <3>2. QED BY <1>1, <2>0, <2>1, <3>1
  <2>4. settled = gaveUp' \cup Answered
    BY <1>7
  <2>5. settled \subseteq 1..(last - 1) /\ settled \in SUBSET Nat
    BY <1>1, <2>3
  <2>6. \A n \in 1..(Head(q).seq - 1) : n \in settled
    BY <1>1, <1>7, <2>1
  <2>7. d \in Drains /\ d.seq = first /\ Declared(d)
    BY <1>1, <1>2, <2>1, <2>5, <2>6, DeclaringTold
  <2>8. \A n \in 1..(last - 1) : n \in settled \/ n = d.seq
    BY <1>1, <1>7, <2>3, <2>7
  <2>9. client'.stopped => client'.queue = <<>>
    BY <1>1, <1>7, <2>2
  <2>10. Ranges(client'.resync, settled)
    BY <1>1, <2>2
  <2>11. \A n \in settled : n < d.seq
    BY <1>1, <2>7
  <2>12. d.seq < last /\ Post(d, NoDrain)
    BY <1>1, <1>7, <2>3, <2>7
  <2>13. InOrder(client'.queue, last)
    BY <2>1, <2>2, <2>3
  <2>14. client' \in Clients /\ client'.retained = NoDrain
    BY <2>2
  <2> HIDE DEF d
  <2>15. QED BY <2>3, <2>4, <2>5, <2>7, <2>8, <2>9, <2>10, <2>11, <2>12, <2>13, <2>14,
                EmptyTypes, Posted
<1>8. QED BY <1>4, <1>5, <1>6, <1>7 DEF RunOn

\* After an answer that ends the delivery, the retained request is the one answered or none.
LEMMA GoOnKeeps ==
    ASSUME ServerInv, ClientInv, Held' = Held, Recorded(recorder.next),
           delivery.drain # NoDrain, NEW resync \in [from : Nat, through : Nat], NEW lost,
           GoOn([client EXCEPT !.retained = IF Exact THEN NoDrain ELSE @, !.resync = resync], lost),
           gaveUp \cup lost \cup Answered = Settled \cup {delivery.drain.seq},
           Ranges(resync, Settled \cup {delivery.drain.seq}),
           resync = NoResync => \/ client.resync = NoResync
                                \/ \A n \in Settled : n <= delivery.drain.seq
    PROVE  ClientInv' /\ request' \in {"none", "flying"}
<1> DEFINE c == [client EXCEPT !.retained = IF Exact THEN NoDrain ELSE @, !.resync = resync]
           settled == Settled \cup {delivery.drain.seq}
<1>1. /\ client \in Clients /\ delivery \in Deliveries /\ recorder.next \in Nat \ {0}
      /\ First \in Nat \ {0} /\ InOrder(client.queue, First)
      /\ client.stopped => client.queue = <<>>
  BY DEF ClientInv, ClientType, QueueInv
<1>2. delivery.drain \in Drains /\ delivery.drain.seq \in Nat \ {0}
  BY <1>1, DrainFacts DEF Deliveries, MaybeDrain
<1>3. client.retained # NoDrain => client.retained = delivery.drain
  BY DEF ClientInv, DeliveryInv
<1>4. /\ c \in Clients /\ c.retained = NoDrain /\ c.resync = resync
      /\ c.queue = client.queue /\ c.stopped = client.stopped
  <2>1. (IF Exact THEN NoDrain ELSE client.retained) = NoDrain
    BY <1>3 DEF Exact
  <2>2. c = [client EXCEPT !.retained = NoDrain, !.resync = resync]
    BY <2>1
  <2>3. QED BY <1>1, <2>2, EmptyTypes DEF Clients
<1>5. /\ delivery.drain \in Outstanding /\ delivery.drain.seq < First
      /\ delivery.waiting # NoDrain =>
             delivery.waiting \in Outstanding /\ delivery.waiting.seq < First
      /\ Settled \subseteq 1..(First - 1)
      /\ \A n \in 1..(First - 1) : n \in Settled \/ \E d \in Outstanding : d.seq = n
  BY DEF ClientInv, AccountInv, Outstanding
<1>6. settled \subseteq 1..(First - 1)
  BY <1>1, <1>2, <1>5
<1>7. \A d \in Outstanding : d = delivery.drain \/ (d = delivery.waiting /\ d # NoDrain)
  BY <1>3 DEF Outstanding
<1>8. GoOn(c, lost)
  OBVIOUS
<1> HIDE DEF c
<1>9. CASE delivery.waiting = NoDrain
  <2>1. RunOn(c, lost)
    BY <1>8, <1>9 DEF GoOn
  <2>2. \A n \in 1..(First - 1) : n \in settled
    BY <1>5, <1>7, <1>9
  <2>3. Ready(c, settled, First)
    BY <1>1, <1>4, <1>6, <2>2 DEF Ready
  <2>4. First = recorder.next - Len(c.queue)
    BY <1>4 DEF First
  <2> HIDE DEF settled
  <2>5. settled = gaveUp \cup lost \cup Answered
    BY DEF settled
  <2>6. QED BY <1>1, <2>1, <2>3, <2>4, <2>5, RunOnKeeps
<1>10. CASE delivery.waiting # NoDrain
  <2> DEFINE d == Declaring(delivery.waiting, resync)
  <2>1. /\ client' = c /\ Post(d, NoDrain) /\ gaveUp' = gaveUp \cup lost
    BY <1>4, <1>8, <1>10 DEF GoOn
  <2>2. delivery.waiting \in Drains /\ delivery.waiting.seq \in Nat \ {0}
    BY <1>1, <1>10, DrainFacts DEF Deliveries, MaybeDrain
  <2>3. delivery.drain.seq < delivery.waiting.seq /\ ~Declares(delivery.waiting)
    BY <1>10 DEF ClientInv, DeliveryInv
  <2>4. \A n \in 1..(delivery.waiting.seq - 1) : n \in settled
    BY <1>10 DEF ClientInv, AccountInv
  <2>5. settled \in SUBSET Nat
    BY <1>6
  <2>6. d \in Drains /\ d.seq = delivery.waiting.seq /\ Declared(d)
    BY <2>2, <2>3, <2>4, <2>5, DeclaringTold
  <2> HIDE DEF d
  <2>7. settled = gaveUp' \cup Answered
    BY <2>1
  <2>8. First = recorder.next - Len(client'.queue)
    BY <1>4, <2>1 DEF First
  <2>9. \A n \in 1..(First - 1) : n \in settled \/ n = d.seq
    BY <1>5, <1>7, <2>6
  <2>10. client'.resync = NoResync => \A n \in settled : n < d.seq
    <3> SUFFICES ASSUME client'.resync = NoResync, NEW n \in settled PROVE n < d.seq
      OBVIOUS
    <3>1. resync = NoResync /\ n \in Nat
      BY <1>4, <2>1, <2>5
    <3>2. CASE n = delivery.drain.seq
      BY <2>3, <2>6, <3>2
    <3>3. CASE n \in Settled /\ client.resync = NoResync
      BY <1>5, <1>10, <2>6, <3>3 DEF ClientInv, ResyncInv
    <3>4. CASE n \in Settled /\ n <= delivery.drain.seq
      BY <1>2, <2>2, <2>3, <2>6, <3>1, <3>4
    <3>5. QED BY <3>1, <3>2, <3>3, <3>4
  <2>11. /\ client' \in Clients /\ client'.retained = NoDrain /\ client'.resync = resync
         /\ client'.queue = client.queue /\ client'.stopped = client.stopped
    BY <1>4, <2>1
  <2>12. d.seq < First
    BY <1>5, <1>10, <2>6
  <2>13. Ranges(client'.resync, settled) /\ InOrder(client'.queue, First)
    BY <1>1, <2>11
  <2>14. client'.stopped => client'.queue = <<>>
    BY <1>1, <2>11
  <2>15. QED BY <1>1, <1>6, <2>1, <2>6, <2>7, <2>8, <2>9, <2>10, <2>11, <2>12, <2>13, <2>14,
                EmptyTypes, Posted
<1>11. QED BY <1>9, <1>10

-----------------------------------------------------------------------------
(* The transport's steps                                                   *)

\* What the transport holds stays true while the server's log grows.
LEMMA ClientGrows ==
    ASSUME ServerInv, ClientInv, UNCHANGED <<recorder, client, delivery, accepted, gaveUp>>,
           late' \subseteq Drains, Top(Held) \in Nat, Top(Held') \in Nat, Top(Held) <= Top(Held'),
           request' = "none" <=> request = "none"
    PROVE  ClientInv'
<1>1. ClientType' /\ QueueInv' /\ DeliveryInv'
  BY DEF ClientInv, ClientType, QueueInv, First, InOrder, DeliveryInv
<1>2. Outstanding' = Outstanding /\ First' = First /\ Settled' = Settled
  BY DEF Outstanding, First, Settled
<1>3. Settled \subseteq Nat /\ First \in Nat
  BY DEF ClientInv, AccountInv, QueueInv
<1>4. \A d \in Drains : Declared(d) => Declared(d)'
  <2> TAKE d \in Drains
  <2>1. d.seq \in Nat /\ d.from \in Nat
    BY DrainFacts
  <2>2. QED BY <2>1 DEF Declared
<1>5. \A d \in {client.retained, delivery.drain} \ {NoDrain} : d \in Drains /\ Declared(d)
  BY DEF ClientInv, ClientType, Clients, Deliveries, MaybeDrain, AccountInv
<1>6. AccountInv'
  BY <1>2, <1>4, <1>5 DEF ClientInv, AccountInv
<1>7. Ranges(client.resync, Settled)'
  <2> DEFINE r == client.resync
  <2>1. /\ r = NoResync \/ (1 <= r.from /\ r.from <= r.through)
        /\ \A n \in Settled : /\ n <= Top(Held) \/ (r.from <= n /\ n <= r.through)
                              /\ r # NoResync => n <= r.through
    BY DEF ClientInv, ResyncInv, Ranges
  <2>2. \A n \in Settled : n <= Top(Held) => n <= Top(Held')
    BY <1>3
  <2>3. r' = r
    OBVIOUS
  <2> HIDE DEF r
  <2>4. /\ r = NoResync \/ (1 <= r.from /\ r.from <= r.through)
        /\ \A n \in Settled : /\ n <= Top(Held') \/ (r.from <= n /\ n <= r.through)
                              /\ r # NoResync => n <= r.through
    BY <2>1, <2>2
  <2>5. QED BY <1>2, <2>3, <2>4 DEF Ranges, r
<1>8. ResyncInv'
  BY <1>2, <1>7 DEF ClientInv, ResyncInv
<1>9. QED BY <1>1, <1>6, <1>8 DEF ClientInv

\* A step that neither answers nor starts a delivery.
LEMMA AnswerStays ==
    ASSUME ServerInv, AnswerInv, Held' = Held, UNCHANGED work,
           \/ UNCHANGED request /\ delivery'.drain = delivery.drain
           \/ request' \notin {"held", "ok"},
           \A d \in accepted' \ accepted : InLog(d)
    PROVE  AnswerInv'
<1>1. \A d : InLog(d)' <=> InLog(d)
  BY DEF InLog
<1>2. InLog(delivery'.drain) <=> InLog(delivery.drain)'
  BY DEF InLog
<1>3. QED BY <1>1, <1>2 DEF AnswerInv, InLog

\* The recorder or the host changes what waits while a delivery goes on.
LEMMA Waits ==
    ASSUME ServerInv, ClientInv, Held' = Held, UNCHANGED <<delivery, request>>,
           NEW next \in Nat \ {0}, Recorded(next),
           client' \in Clients, client'.retained = client.retained,
           client'.attempted = client.attempted,
           NEW first \in Nat \ {0}, first = next - Len(client'.queue), First <= first,
           InOrder(client'.queue, first), client'.stopped => client'.queue = <<>>,
           delivery.drain = NoDrain => client'.queue = <<>>,
           NEW settled, settled = gaveUp' \cup Answered, Settled \subseteq settled,
           settled \subseteq 1..(first - 1), First..(first - 1) \subseteq settled,
           Ranges(client'.resync, settled),
           client'.resync = NoResync => settled = Settled /\ client.resync = NoResync
    PROVE  ClientInv'
<1>1. Settled' = settled /\ First' = first /\ First \in Nat \ {0}
  BY DEF Settled, Answered, First, Recorded, ClientInv, QueueInv
<1>2. Outstanding' = Outstanding
  BY DEF Outstanding
<1>3. ClientType'
  BY DEF ClientInv, ClientType, Recorded
<1>4. QueueInv'
  BY <1>1 DEF QueueInv, InOrder
<1>5. DeliveryInv'
  BY DEF ClientInv, DeliveryInv
<1>6. AccountInv'
  <2>1. \A d \in Outstanding : d.seq \in Nat /\ d.seq < First
    BY DrainFacts DEF ClientInv, ClientType, Clients, Deliveries, MaybeDrain, AccountInv,
                      Outstanding
  <2>2. \A d \in Outstanding' : d.seq < First'
    BY <1>1, <1>2, <2>1
  <2>3. \A n \in 1..(First' - 1) : n \in Settled' \/ \E d \in Outstanding' : d.seq = n
    <3> SUFFICES ASSUME NEW n \in 1..(first - 1)
                 PROVE  n \in settled \/ \E d \in Outstanding : d.seq = n
      BY <1>1, <1>2
    <3>1. CASE n \in 1..(First - 1)
      BY <3>1 DEF ClientInv, AccountInv
    <3>2. CASE n \in First..(first - 1)
      BY <3>2
    <3>3. QED BY <1>1, <3>1, <3>2
  <2>4. delivery'.waiting # NoDrain =>
            \A n \in 1..(delivery'.waiting.seq - 1) : n \in Settled' \/ n = delivery'.drain.seq
    BY <1>1 DEF ClientInv, AccountInv
  <2>5. \A d \in {client'.retained, delivery'.drain} \ {NoDrain} : Declared(d)'
    BY DEF ClientInv, AccountInv, Declared
  <2>6. QED BY <1>1, <2>2, <2>3, <2>4, <2>5 DEF AccountInv, Declared
<1>7. ResyncInv'
  <2>1. Ranges(client.resync, Settled)'
    BY <1>1 DEF Ranges
  <2>2. QED BY <1>1, <1>2, <2>1 DEF ClientInv, ResyncInv
<1>8. QED BY <1>3, <1>4, <1>5, <1>6, <1>7 DEF ClientInv

LEMMA SendKeeps ==
    ASSUME ServerInv, AnswerInv, ClientInv, NEW d \in Drains, Send(d)
    PROVE  ServerInv' /\ Held' = Held /\ AnswerInv' /\ ClientInv'
<1> DEFINE q == client.queue
           r == client.resync
           next == recorder.next + 1
<1>1. /\ d.seq = recorder.next /\ ~Declares(d)
      /\ recorder' = [next |-> d.seq + 1, ended |-> d.end]
      /\ UNCHANGED <<disk, memory, work, seal, late, accepted>>
  BY DEF Send
<1>2. /\ client \in Clients /\ recorder.next \in Nat \ {0} /\ q \in Seq(Drains)
      /\ Len(q) \in Nat /\ r \in [from : Nat, through : Nat]
      /\ First \in Nat \ {0} /\ InOrder(q, First) /\ First = recorder.next - Len(q)
      /\ client.stopped => q = <<>>
      /\ Settled \subseteq 1..(First - 1) /\ Ranges(r, Settled)
  BY DEF ClientInv, ClientType, Clients, QueueInv, AccountInv, ResyncInv, First
<1>3. /\ d.seq \in Nat \ {0} /\ d.end \in BOOLEAN
  BY DrainFacts
<1>4. Recorded(next) /\ next \in Nat \ {0}
  BY <1>1, <1>2, <1>3 DEF Recorded, ClientInv, ClientType
<1>5. Answered = {e.seq : e \in accepted}
  BY <1>1 DEF Answered
<1>6. ASSUME request' \in Requests, UNCHANGED <<request, delivery>> \/ request' \notin {"held", "ok"}
      PROVE  ServerInv' /\ Held' = Held /\ AnswerInv'
  <2>1. ServerInv' /\ Held' = Held
    BY <1>1, <1>6, NetworkKeeps
  <2>2. QED BY <1>1, <1>6, <2>1, AnswerStays
<1>7. request \in Requests
  BY DEF ServerInv, ServerType
<1>8. Held' = Held
  BY <1>1, HeldKept DEF disk
<1>9. CASE /\ client.stopped
           /\ client' = [client EXCEPT !.resync = Widened(@, d)]
           /\ gaveUp' = gaveUp \cup {d.seq}
           /\ UNCHANGED <<delivery, request>>
  <2> DEFINE w == Widened(r, d)
             settled == Settled \cup {d.seq}
  <2>1. q = <<>> /\ First = d.seq
    BY <1>1, <1>2, <1>9
  <2>2. \A n \in Settled : n <= d.seq
    BY <1>2, <2>1
  <2>3. /\ w \in [from : Nat, through : Nat] /\ w # NoResync /\ Ranges(w, settled)
    <3>1. Settled \in SUBSET Nat
      BY <1>2
    <3>2. QED BY <1>2, <2>2, <3>1, WidenedRanges
  <2> HIDE DEF w
  <2>4. client' = [client EXCEPT !.resync = w]
    BY <1>9 DEF w
  <2>5. /\ client' \in Clients /\ client'.resync = w /\ client'.queue = <<>>
        /\ client'.retained = client.retained /\ client'.attempted = client.attempted
    BY <1>2, <2>1, <2>3, <2>4 DEF Clients
  <2>6. next = next - Len(client'.queue) /\ First <= next /\ First..(next - 1) \subseteq settled
    BY <1>1, <1>2, <2>1, <2>5
  <2>7. InOrder(client'.queue, next)
    BY <2>5 DEF InOrder
  <2>8. settled = gaveUp' \cup Answered
    BY <1>5, <1>9 DEF Settled
  <2>9. settled \subseteq 1..(next - 1)
    BY <1>1, <1>2, <2>1
  <2>10. ClientInv'
    BY <1>4, <1>8, <1>9, <2>3, <2>5, <2>6, <2>7, <2>8, <2>9, Waits
  <2>11. QED BY <1>6, <1>7, <1>9, <2>10
<1>10. CASE ~client.stopped /\ delivery = NoDelivery /\ RunOn([client EXCEPT !.queue = <<d>>], {})
  <2> DEFINE c == [client EXCEPT !.queue = <<d>>]
             settled == gaveUp \cup {} \cup Answered
  <2>1. delivery.drain = NoDrain /\ delivery.waiting = NoDrain
    BY <1>10 DEF NoDelivery
  <2>2. q = <<>> /\ First = d.seq
    BY <1>1, <1>2, <2>1 DEF ClientInv, DeliveryInv
  <2>3. /\ c \in Clients /\ c.queue = <<d>> /\ c.retained = client.retained
        /\ c.resync = r /\ c.stopped = client.stopped /\ Len(c.queue) = 1
    <3>1. <<d>> \in Seq(Drains) /\ Len(<<d>>) = 1
      OBVIOUS
    <3>2. QED BY <1>2, <3>1 DEF Clients
  <2>4. settled = Settled
    BY <1>5 DEF Settled
  <2>5. next - Len(c.queue) = First
    BY <1>1, <1>2, <2>2, <2>3
  <2>6. InOrder(c.queue, First)
    BY <1>1, <1>2, <2>2, <2>3 DEF InOrder
  <2>7. Outstanding = {client.retained} \ {NoDrain}
    BY <2>1 DEF Outstanding
  <2>8. c.retained # NoDrain => /\ Declared(c.retained) /\ c.retained.seq < First
                                /\ c.resync = NoResync => \A n \in Settled : n < c.retained.seq
    BY <2>3, <2>7 DEF ClientInv, AccountInv, ResyncInv
  <2>9. \A n \in 1..(First - 1) : n \in Settled \/ (c.retained # NoDrain /\ c.retained.seq = n)
    BY <2>3, <2>7 DEF ClientInv, AccountInv
  <2>10. Ready(c, Settled, First)
    BY <1>2, <1>10, <2>3, <2>6, <2>8, <2>9 DEF Ready
  <2>11. First = next - Len(c.queue) /\ RunOn(c, {})
    BY <1>10, <2>5
  <2> HIDE DEF c
  <2>12. ClientInv' /\ request' \in {"none", "flying"}
    BY <1>2, <1>4, <1>8, <2>4, <2>10, <2>11, RunOnKeeps
  <2>13. QED BY <1>6, <2>12 DEF Requests
<1>11. CASE /\ ~client.stopped /\ delivery # NoDelivery /\ UNCHANGED <<delivery, request>>
            /\ Len(client.queue) < MaxQueued
            /\ client' = [client EXCEPT !.queue = Append(@, d)]
            /\ UNCHANGED gaveUp
  <2>1. delivery.drain # NoDrain
    BY <1>11 DEF ClientInv, DeliveryInv
  <2>2. /\ Append(q, d) \in Seq(Drains) /\ Len(Append(q, d)) = Len(q) + 1
        /\ Append(q, d)[Len(q) + 1] = d
        /\ \A n \in 1..Len(q) : Append(q, d)[n] = q[n]
    BY <1>2, AppendProperties
  <2>3. /\ client' \in Clients /\ client'.queue = Append(q, d) /\ client'.resync = r
        /\ client'.retained = client.retained /\ client'.attempted = client.attempted
        /\ client'.stopped = client.stopped
    BY <1>2, <1>11, <2>2 DEF Clients
  <2>4. First = next - Len(client'.queue)
    BY <1>2, <2>2, <2>3
  <2>5. InOrder(client'.queue, First)
    <3> SUFFICES ASSUME NEW n \in 1..Len(Append(q, d))
                 PROVE  Append(q, d)[n].seq = First + n - 1 /\ ~Declares(Append(q, d)[n])
      BY <2>3 DEF InOrder
    <3>1. CASE n \in 1..Len(q)
      BY <1>2, <2>2, <3>1 DEF InOrder
    <3>2. CASE n = Len(q) + 1
      BY <1>1, <1>2, <2>2, <3>2
    <3>3. QED BY <1>2, <2>2, <3>1, <3>2
  <2>6. Settled = gaveUp' \cup Answered
    BY <1>5, <1>11 DEF Settled
  <2>7. First <= First /\ First..(First - 1) \subseteq Settled
    BY <1>2
  <2>8. client'.stopped => client'.queue = <<>>
    BY <1>11, <2>3
  <2>9. client'.resync = NoResync => client.resync = NoResync
    BY <2>3
  <2>10. Ranges(client'.resync, Settled)
    BY <1>2, <2>3
  <2>11. ClientInv'
    BY <1>2, <1>4, <1>8, <1>11, <2>1, <2>3, <2>4, <2>5, <2>6, <2>7, <2>8, <2>9, <2>10, Waits
  <2>12. QED BY <1>6, <1>7, <1>11, <2>11
<1>12. CASE /\ ~client.stopped /\ delivery # NoDelivery /\ UNCHANGED <<delivery, request>>
            /\ ~(Len(client.queue) < MaxQueued)
            /\ client' = [client EXCEPT !.queue = Append(Tail(@), d),
                                        !.resync = Widened(@, Head(client.queue))]
            /\ gaveUp' = gaveUp \cup {Head(client.queue).seq}
  <2> DEFINE w == Widened(r, Head(q))
             longer == Append(Tail(q), d)
             settled == Settled \cup {First}
  <2>1. delivery.drain # NoDrain
    BY <1>12 DEF ClientInv, DeliveryInv
  <2>2. q # <<>>
    <3>1. MaxQueued \in Nat \ {0}
      BY ClientAssumption
    <3>2. Len(q) # 0
      BY <1>2, <1>12, <3>1
    <3>3. QED BY <3>2
  <2>3. /\ Head(q) \in Drains /\ Head(q).seq = First
        /\ Tail(q) \in Seq(Drains) /\ Len(Tail(q)) = Len(q) - 1 /\ Len(q) \in Nat \ {0}
        /\ InOrder(Tail(q), First + 1)
    BY <1>2, <2>2, QueueFacts
  <2>4. /\ longer \in Seq(Drains) /\ Len(longer) = Len(q)
        /\ longer[Len(q)] = d
        /\ \A n \in 1..(Len(q) - 1) : longer[n] = Tail(q)[n]
    <3>1. /\ longer \in Seq(Drains) /\ Len(longer) = Len(Tail(q)) + 1
          /\ longer[Len(Tail(q)) + 1] = d
          /\ \A n \in 1..Len(Tail(q)) : longer[n] = Tail(q)[n]
      BY <2>3, AppendProperties
    <3>2. Len(Tail(q)) + 1 = Len(q) /\ Len(Tail(q)) = Len(q) - 1
      BY <2>3
    <3>3. QED BY <3>1, <3>2
  <2>5. PICK last \in Nat \ {0} : last = First + 1
    <3>1. First + 1 \in Nat \ {0}
      BY <1>2
    <3>2. QED BY <3>1
  <2>6. Settled \subseteq 1..(last - 1) /\ First \in 1..(last - 1) /\ First \in Nat
    BY <1>2, <2>5
  <2>7. /\ w \in [from : Nat, through : Nat] /\ w # NoResync /\ Ranges(w, settled)
    <3>1. Settled \in SUBSET Nat
      BY <2>6
    <3>2. \A n \in Settled : n <= Head(q).seq
      BY <2>3, <2>5, <2>6
    <3>3. /\ w \in [from : Nat, through : Nat] /\ w # NoResync
          /\ Ranges(w, Settled \cup {Head(q).seq})
      BY <1>2, <2>3, <3>1, <3>2, WidenedRanges
    <3>4. QED BY <2>3, <3>3
  <2> HIDE DEF w, longer
  <2>8. client' = [client EXCEPT !.queue = longer, !.resync = w]
    BY <1>12 DEF w, longer
  <2>9. /\ client' \in Clients /\ client'.queue = longer /\ client'.resync = w
        /\ client'.retained = client.retained /\ client'.attempted = client.attempted
        /\ client'.stopped = client.stopped
    BY <1>2, <2>4, <2>7, <2>8 DEF Clients
  <2>10. last = next - Len(client'.queue) /\ First <= last
    <3>1. Len(client'.queue) = Len(q)
      BY <2>4, <2>9
    <3>2. QED BY <1>2, <2>5, <3>1
  <2>11. First..(last - 1) \subseteq settled
    BY <1>2, <2>5
  <2>12. InOrder(client'.queue, last)
    <3> SUFFICES ASSUME NEW n \in 1..Len(longer)
                 PROVE  longer[n].seq = last + n - 1 /\ ~Declares(longer[n])
      BY <2>9 DEF InOrder
    <3>1. CASE n \in 1..(Len(q) - 1)
      BY <2>3, <2>4, <2>5, <3>1 DEF InOrder
    <3>2. CASE n = Len(q)
      <4>1. longer[n] = d
        BY <2>4, <3>2
      <4>2. recorder.next = last + n - 1
        BY <1>2, <2>5, <3>2
      <4>3. QED BY <1>1, <4>1, <4>2
    <3>3. QED BY <1>2, <2>4, <3>1, <3>2
  <2>13. settled = gaveUp' \cup Answered
    BY <1>5, <1>12, <2>3 DEF Settled
  <2>14. settled \subseteq 1..(last - 1) /\ Settled \subseteq settled
    BY <2>6
  <2>15. client'.stopped => client'.queue = <<>>
    BY <1>12, <2>9
  <2>16. Ranges(client'.resync, settled) /\ client'.resync # NoResync
    BY <2>7, <2>9
  <2> HIDE DEF settled
  <2>17. ClientInv'
    BY <1>4, <1>8, <1>12, <2>1, <2>9, <2>10, <2>11, <2>12, <2>13, <2>14, <2>15, <2>16, Waits
  <2>18. QED BY <1>6, <1>7, <1>12, <2>17
<1>13. QED BY <1>9, <1>10, <1>11, <1>12 DEF Send

LEMMA StopKeeps ==
    ASSUME ServerInv, AnswerInv, ClientInv, Stop
    PROVE  ServerInv' /\ Held' = Held /\ AnswerInv' /\ ClientInv'
<1> DEFINE q == client.queue
           r == client.resync
           w == WidenedByAll(r, q)
           settled == Settled \cup Sequences(q)
<1>1. /\ client' = [client EXCEPT !.stopped = TRUE, !.queue = <<>>, !.resync = w]
      /\ gaveUp' = gaveUp \cup Sequences(q)
      /\ UNCHANGED <<disk, memory, work, seal, request, recorder, delivery, late, accepted>>
  BY DEF Stop, serverVars
<1>2. /\ client \in Clients /\ recorder.next \in Nat \ {0} /\ q \in Seq(Drains)
      /\ Len(q) \in Nat /\ r \in [from : Nat, through : Nat]
      /\ First \in Nat \ {0} /\ InOrder(q, First) /\ First = recorder.next - Len(q)
      /\ Settled \subseteq 1..(First - 1) /\ Ranges(r, Settled)
  BY DEF ClientInv, ClientType, Clients, QueueInv, AccountInv, ResyncInv, First
<1>3. ServerInv' /\ Held' = Held
  BY <1>1, NetworkKeeps DEF ServerInv, ServerType
<1>4. AnswerInv'
  BY <1>1, <1>3, AnswerStays
<1>5. Recorded(recorder.next)
  BY <1>1 DEF Recorded, ClientInv, ClientType
<1>6. /\ w \in [from : Nat, through : Nat] /\ Ranges(w, settled)
      /\ w = NoResync => settled = Settled /\ r = NoResync
      /\ First <= recorder.next /\ First..(recorder.next - 1) \subseteq settled
      /\ settled \subseteq 1..(recorder.next - 1)
  <2>1. CASE q = <<>>
    <3>1. w = r /\ Sequences(q) = {} /\ First = recorder.next
      BY <1>2, <2>1 DEF WidenedByAll, Sequences
    <3>2. settled = Settled
      BY <3>1
    <3>3. QED BY <1>2, <3>1, <3>2
  <2>2. CASE q # <<>>
    <3>1. /\ Head(q).seq = First /\ Len(q) \in Nat \ {0}
          /\ \A n \in 1..Len(q) : Head(q).seq <= q[n].seq /\ q[n].seq <= q[Len(q)].seq
          /\ Sequences(q) = First..(First + Len(q) - 1)
      <4> HIDE DEF q
      <4>1. InOrder(q, First) /\ q \in Seq(Drains) /\ q # <<>> /\ First \in Nat \ {0}
        BY <1>2, <2>2
      <4>2. QED BY <4>1, QueueFacts, SMTT(30)
    <3>2. Settled \in SUBSET Nat /\ \A n \in Settled : n <= Head(q).seq
      BY <1>2, <3>1
    <3>3. /\ w \in [from : Nat, through : Nat] /\ w # NoResync /\ Ranges(w, settled)
      BY <1>2, <2>2, <3>1, <3>2, WidenedByAllRanges
    <3>4. First + Len(q) - 1 = recorder.next - 1 /\ First <= recorder.next
      BY <1>2
    <3>5. settled \subseteq 1..(recorder.next - 1)
      <4>1. Sequences(q) \subseteq 1..(recorder.next - 1)
        BY <1>2, <3>1, <3>4
      <4>2. Settled \subseteq 1..(recorder.next - 1)
        <5>1. 1..(First - 1) \subseteq 1..(recorder.next - 1)
          BY <1>2
        <5>2. QED BY <1>2, <5>1
      <4>3. QED BY <4>1, <4>2
    <3>6. First..(recorder.next - 1) \subseteq settled
      BY <3>1, <3>4
    <3>7. QED BY <3>3, <3>4, <3>5, <3>6
  <2>3. QED BY <2>1, <2>2
<1> HIDE DEF w
<1>7. /\ client' \in Clients /\ client'.queue = <<>> /\ client'.resync = w
      /\ client'.retained = client.retained /\ client'.attempted = client.attempted
  <2>1. <<>> \in Seq(Drains)
    OBVIOUS
  <2>2. QED BY <1>1, <1>2, <1>6, <2>1 DEF Clients
<1>8. recorder.next = recorder.next - Len(client'.queue) /\ InOrder(client'.queue, recorder.next)
  BY <1>2, <1>7 DEF InOrder
<1>9. settled = gaveUp' \cup Answered
  BY <1>1 DEF Settled, Answered
<1>10. ClientInv'
  BY <1>1, <1>2, <1>3, <1>5, <1>6, <1>7, <1>8, <1>9, Waits
<1>11. QED BY <1>3, <1>4, <1>10

LEMMA FlushKeeps ==
    ASSUME ServerInv, AnswerInv, ClientInv, Flush
    PROVE  ServerInv' /\ Held' = Held /\ AnswerInv' /\ ClientInv'
<1> DEFINE d == client.retained
<1>1. /\ delivery = NoDelivery /\ d # NoDrain
      /\ client' = [client EXCEPT !.attempted = TRUE]
      /\ Post(d, NoDrain)
      /\ UNCHANGED <<disk, memory, work, seal, recorder, late, accepted, gaveUp>>
  BY DEF Flush
<1>2. request' = "flying"
  BY <1>1 DEF Post
<1>3. ServerInv' /\ Held' = Held
  BY <1>1, <1>2, NetworkKeeps DEF Requests
<1>4. AnswerInv'
  BY <1>1, <1>2, <1>3, AnswerStays
<1>5. /\ client \in Clients /\ recorder.next \in Nat \ {0}
      /\ First \in Nat \ {0} /\ InOrder(client.queue, First)
      /\ client.stopped => client.queue = <<>>
      /\ Settled \subseteq 1..(First - 1) /\ Ranges(client.resync, Settled)
  BY DEF ClientInv, ClientType, QueueInv, AccountInv, ResyncInv
<1>6. d \in Drains
  BY <1>1, <1>5 DEF Clients, MaybeDrain
<1>7. delivery.drain = NoDrain /\ delivery.waiting = NoDrain
  BY <1>1 DEF NoDelivery
<1>8. Outstanding = {d}
  BY <1>1, <1>7 DEF Outstanding
<1>9. /\ d.seq < First /\ Declared(d)
      /\ \A n \in 1..(First - 1) : n \in Settled \/ n = d.seq
      /\ client.resync = NoResync => \A n \in Settled : n < d.seq
  BY <1>1, <1>8 DEF ClientInv, AccountInv, ResyncInv
<1>10. /\ client' \in Clients /\ client'.queue = client.queue /\ client'.resync = client.resync
       /\ client'.retained = d /\ client'.attempted /\ client'.stopped = client.stopped
  BY <1>1, <1>5 DEF Clients
<1>11. First = recorder.next - Len(client'.queue) /\ Settled = gaveUp' \cup Answered
  BY <1>1, <1>10 DEF First, Settled, Answered
<1>12. Recorded(recorder.next)
  BY <1>1 DEF Recorded, ClientInv, ClientType
<1>13. Ranges(client'.resync, Settled) /\ InOrder(client'.queue, First)
  BY <1>5, <1>10
<1>14. client'.stopped => client'.queue = <<>>
  BY <1>5, <1>10
<1>15. client'.resync = NoResync => \A n \in Settled : n < d.seq
  BY <1>9, <1>10
<1>16. /\ client' \in Clients /\ client'.retained = d /\ client'.attempted
       /\ recorder.next \in Nat \ {0} /\ First \in Nat \ {0}
       /\ Settled \subseteq 1..(First - 1) /\ d.seq < First /\ Declared(d)
       /\ \A n \in 1..(First - 1) : n \in Settled \/ n = d.seq
       /\ Post(d, NoDrain) /\ Held' = Held
  BY <1>1, <1>3, <1>5, <1>9, <1>10
<1> HIDE DEF d
<1>17. ClientInv'
  <2>1. PICK next \in Nat \ {0}, first \in Nat \ {0} : next = recorder.next /\ first = First
    BY <1>16
  <2>2. PICK settled : settled = Settled
    OBVIOUS
  <2>3. /\ first = next - Len(client'.queue) /\ settled = gaveUp' \cup Answered
        /\ Recorded(next) /\ InOrder(client'.queue, first) /\ Ranges(client'.resync, settled)
    BY <1>11, <1>12, <1>13, <2>1, <2>2
  <2>4. /\ settled \subseteq 1..(first - 1) /\ d.seq < first
        /\ \A n \in 1..(first - 1) : n \in settled \/ n = d.seq
        /\ client'.resync = NoResync => \A n \in settled : n < d.seq
    BY <1>15, <1>16, <2>1, <2>2
  <2>5. QED BY <1>6, <1>14, <1>16, <2>3, <2>4, EmptyTypes, Posted
<1>18. QED BY <1>3, <1>4, <1>17

LEMMA AcceptedKeeps ==
    ASSUME ServerInv, AnswerInv, ClientInv, Accepted
    PROVE  ServerInv' /\ Held' = Held /\ AnswerInv' /\ ClientInv'
<1> DEFINE d == delivery.drain
           resync == Cleared(client.resync, d)
<1>1. /\ request = "ok" /\ accepted' = accepted \cup {d}
      /\ GoOn([client EXCEPT !.retained = IF Exact THEN NoDrain ELSE @,
                             !.resync = Cleared(@, d)], {})
      /\ UNCHANGED <<disk, memory, work, seal, recorder, late>>
  BY DEF Accepted
<1>2. /\ client \in Clients /\ client.resync \in [from : Nat, through : Nat]
      /\ Settled \subseteq 1..(First - 1) /\ Ranges(client.resync, Settled)
      /\ delivery \in Deliveries /\ accepted \subseteq Drains
  BY DEF ClientInv, ClientType, Clients, AccountInv, ResyncInv
<1>3. d # NoDrain /\ d \in Drains
  BY <1>1, <1>2 DEF ClientInv, DeliveryInv, Deliveries, MaybeDrain
<1>4. InLog(d) /\ d.seq <= Top(Held)
  <2>1. PICK n \in 1..Len(Held) : Held[n].drain = d
    BY <1>1 DEF AnswerInv, InLog
  <2>2. Held[n].drain.seq <= Top(Held)
    BY DEF ServerInv, LedgerInv, Log
  <2>3. QED BY <2>1, <2>2 DEF InLog
<1>5. Settled \in SUBSET Nat
  BY <1>2
<1>6. /\ resync \in [from : Nat, through : Nat]
      /\ Ranges(resync, Settled \cup {d.seq})
      /\ resync = NoResync => client.resync = NoResync \/ \A n \in Settled : n <= d.seq
  BY <1>2, <1>3, <1>4, <1>5, ClearedRanges
<1>7. Recorded(recorder.next)
  BY <1>1, <1>2, <1>3 DEF Recorded, ClientInv, ClientType
<1>8. gaveUp \cup {} \cup Answered = Settled \cup {d.seq}
  BY <1>1 DEF Settled, Answered
<1>9. Held' = Held
  BY <1>1, HeldKept DEF disk
<1>10. GoOn([client EXCEPT !.retained = IF Exact THEN NoDrain ELSE @, !.resync = resync], {})
  BY <1>1
<1> HIDE DEF resync
<1>11. ClientInv' /\ request' \in {"none", "flying"}
  BY <1>3, <1>6, <1>7, <1>8, <1>9, <1>10, GoOnKeeps
<1>12. ServerInv'
  BY <1>1, <1>11, NetworkKeeps DEF Requests
<1>13. \A e \in accepted' \ accepted : InLog(e)
  BY <1>1, <1>4
<1>14. AnswerInv'
  BY <1>1, <1>9, <1>11, <1>13, AnswerStays
<1>15. QED BY <1>9, <1>11, <1>12, <1>14

LEMMA GiveUpKeeps ==
    ASSUME ServerInv, AnswerInv, ClientInv, GiveUp
    PROVE  ServerInv' /\ Held' = Held /\ AnswerInv' /\ ClientInv'
<1> DEFINE d == delivery.drain
           resync == Widened(client.resync, d)
<1>1. /\ request \in {"refused", "too_large"}
      /\ GoOn([client EXCEPT !.retained = IF Exact THEN NoDrain ELSE @,
                             !.resync = Widened(@, d)], {d.seq})
      /\ UNCHANGED <<disk, memory, work, seal, recorder, late, accepted>>
  BY DEF GiveUp
<1>2. /\ client \in Clients /\ client.resync \in [from : Nat, through : Nat]
      /\ Settled \subseteq 1..(First - 1) /\ Ranges(client.resync, Settled)
      /\ delivery \in Deliveries
  BY DEF ClientInv, ClientType, Clients, AccountInv, ResyncInv
<1>3. d # NoDrain /\ d \in Drains
  BY <1>1, <1>2 DEF ClientInv, DeliveryInv, Deliveries, MaybeDrain
<1>4. Settled \in SUBSET Nat /\ d.seq \in Nat
  BY <1>2, <1>3, DrainFacts
<1>5. client.resync = NoResync => \A n \in Settled : n <= d.seq
  <2>1. d \in Outstanding
    BY <1>3 DEF Outstanding
  <2>2. client.resync = NoResync => \A n \in Settled : n < d.seq
    BY <2>1 DEF ClientInv, ResyncInv
  <2>3. QED BY <1>4, <2>2
<1>6. /\ resync \in [from : Nat, through : Nat] /\ resync # NoResync
      /\ Ranges(resync, Settled \cup {d.seq})
  BY <1>2, <1>3, <1>4, <1>5, WidenedRanges
<1>7. Recorded(recorder.next)
  BY <1>1 DEF Recorded, ClientInv, ClientType
<1>8. gaveUp \cup {d.seq} \cup Answered = Settled \cup {d.seq}
  BY <1>1 DEF Settled, Answered
<1>9. Held' = Held
  BY <1>1, HeldKept DEF disk
<1>10. GoOn([client EXCEPT !.retained = IF Exact THEN NoDrain ELSE @, !.resync = resync],
            {d.seq})
  BY <1>1
<1> HIDE DEF resync
<1>11. ClientInv' /\ request' \in {"none", "flying"}
  BY <1>3, <1>6, <1>7, <1>8, <1>9, <1>10, GoOnKeeps
<1>12. ServerInv'
  BY <1>1, <1>11, NetworkKeeps DEF Requests
<1>13. AnswerInv'
  BY <1>1, <1>9, <1>11, AnswerStays
<1>14. QED BY <1>9, <1>11, <1>12, <1>13

LEMMA RetainKeeps ==
    ASSUME ServerInv, AnswerInv, ClientInv, Retain
    PROVE  ServerInv' /\ Held' = Held /\ AnswerInv' /\ ClientInv'
<1> DEFINE d == delivery.drain
           w == delivery.waiting
           waiting == IF w = NoDrain THEN <<>> ELSE <<w>>
           q == client.queue
           next == recorder.next
           c == [client EXCEPT !.retained = d, !.queue = waiting \o q]
           settled == gaveUp \cup {} \cup Answered
<1>1. /\ request = "retry" /\ RunOn(c, {})
      /\ UNCHANGED <<disk, memory, work, seal, recorder, late, accepted>>
  BY DEF Retain
<1>2. /\ client \in Clients /\ client.resync \in [from : Nat, through : Nat]
      /\ q \in Seq(Drains) /\ Len(q) \in Nat /\ next \in Nat \ {0}
      /\ First \in Nat \ {0} /\ InOrder(q, First) /\ First = next - Len(q)
      /\ client.stopped => q = <<>>
      /\ Settled \subseteq 1..(First - 1) /\ Ranges(client.resync, Settled)
      /\ delivery \in Deliveries
      /\ \A n \in 1..(First - 1) : n \in Settled \/ \E e \in Outstanding : e.seq = n
  BY DEF ClientInv, ClientType, Clients, QueueInv, AccountInv, ResyncInv, First
<1>3. d # NoDrain /\ d \in Drains /\ d \in MaybeDrain /\ d.seq \in Nat
  BY <1>1, <1>2, DrainFacts DEF ClientInv, DeliveryInv, Deliveries, MaybeDrain
<1>4. /\ client.retained # NoDrain => client.retained = d /\ client.attempted
      /\ w # NoDrain => client.retained = d /\ d.seq < w.seq
  BY <1>3 DEF ClientInv, DeliveryInv
<1>5. /\ Declared(d) /\ d.seq < First
      /\ client.resync = NoResync => \A n \in Settled : n < d.seq
  BY <1>3 DEF ClientInv, AccountInv, ResyncInv, Outstanding
<1>6. settled = Settled
  BY <1>1 DEF Settled, Answered
<1>7. Recorded(next)
  BY <1>1 DEF Recorded, ClientInv, ClientType
<1>8. Held' = Held
  BY <1>1, HeldKept DEF disk
<1>9. ClientInv' /\ request' \in {"none", "flying"}
  <2>1. CASE w = NoDrain
    <3>1. waiting \o q = q
      BY <1>2, <2>1
    <3>2. /\ c \in Clients /\ c.retained = d /\ c.queue = q /\ c.resync = client.resync
          /\ c.stopped = client.stopped
      BY <1>2, <1>3, <3>1 DEF Clients
    <3>3. Outstanding = {d}
      BY <1>3, <1>4, <2>1 DEF Outstanding
    <3>4. \A n \in 1..(First - 1) : n \in settled \/ (c.retained # NoDrain /\ c.retained.seq = n)
      BY <1>2, <1>3, <1>6, <3>2, <3>3
    <3> HIDE DEF c
    <3>5. Ready(c, settled, First)
      BY <1>2, <1>5, <1>6, <3>2, <3>4 DEF Ready
    <3>6. First = next - Len(c.queue)
      BY <1>2, <3>2
    <3>7. QED BY <1>1, <1>2, <1>7, <1>8, <3>5, <3>6, RunOnKeeps
  <2>2. CASE w # NoDrain
    <3>1. w \in Drains /\ w.seq \in Nat /\ w \in Outstanding /\ w.seq > 0
      BY <1>2, <2>2, DrainFacts DEF Deliveries, MaybeDrain, Outstanding
    <3> DEFINE all == <<w>> \o q
    <3>2. /\ all \in Seq(Drains) /\ Len(all) = Len(q) + 1 /\ all # <<>> /\ all[1] = w
          /\ Head(all) = w /\ \A n \in 2..Len(all) : all[n] = q[n - 1]
      BY <1>2, <3>1
    <3>3. w.seq < First
      BY <3>1 DEF ClientInv, AccountInv
    <3>4. \A n \in 2..Len(all) : all[n].seq = First + n - 2
      <4> TAKE n \in 2..Len(all)
      <4>1. n - 1 \in 1..Len(q)
        BY <1>2, <3>2
      <4>2. q[n - 1].seq = First + (n - 1) - 1
        BY <1>2, <4>1 DEF InOrder
      <4>3. First + (n - 1) - 1 = First + n - 2
        BY <1>2
      <4>4. QED BY <3>2, <4>2, <4>3
    <3> HIDE DEF all
    <3>5. Sequences(all) \subseteq 1..(next - 1)
      <4> SUFFICES ASSUME NEW n \in 1..Len(all) PROVE all[n].seq \in 1..(next - 1)
        BY DEF Sequences
      <4>1. CASE n = 1
        BY <1>2, <3>1, <3>2, <3>3, <4>1
      <4>2. CASE n \in 2..Len(all)
        <5>1. all[n].seq = First + n - 2
          BY <3>4, <4>2
        <5>2. First \in Nat \ {0} /\ next \in Nat /\ Len(q) \in Nat /\ First = next - Len(q)
          BY <1>2
        <5>3. n \in 2..(Len(q) + 1)
          BY <3>2, <4>2
        <5>4. First + n - 2 \in 1..(next - 1)
          BY <5>2, <5>3
        <5>5. QED BY <5>1, <5>4
      <4>3. QED BY <1>2, <3>2, <4>1, <4>2
    <3>6. \A n \in 1..Len(all) : Head(all).seq <= all[n].seq /\ all[n].seq <= all[Len(all)].seq
      <4>1. CASE Len(q) = 0
        BY <3>1, <3>2, <4>1
      <4>2. CASE Len(q) > 0
        <5> TAKE n \in 1..Len(all)
        <5>1. Len(all) \in 2..Len(all)
          BY <1>2, <3>2, <4>2
        <5>2. all[Len(all)].seq = First + Len(all) - 2
          BY <3>4, <5>1
        <5>3. CASE n = 1
          BY <1>2, <3>1, <3>2, <3>3, <4>2, <5>2, <5>3
        <5>4. CASE n \in 2..Len(all)
          <6>1. all[n].seq = First + n - 2
            BY <3>4, <5>4
          <6>2. First \in Nat /\ Len(all) \in Nat /\ n <= Len(all) /\ n >= 2
            BY <1>2, <3>2, <5>4
          <6>3. w.seq <= First + n - 2 /\ First + n - 2 <= First + Len(all) - 2
            BY <3>1, <3>3, <6>2
          <6>4. QED BY <3>2, <5>2, <6>1, <6>3
        <5>5. QED BY <1>2, <3>2, <5>3, <5>4
      <4>3. QED BY <1>2, <4>1, <4>2
    <3>7. \A n \in 1..(next - 1) : n \in Settled \cup Sequences(all) \/ d.seq = n
      <4> TAKE n \in 1..(next - 1)
      <4>1. CASE n \in 1..(First - 1)
        <5>1. Outstanding = {d, w}
          BY <1>3, <1>4, <2>2 DEF Outstanding
        <5>2. n \in Settled \/ n = d.seq \/ n = w.seq
          BY <1>2, <4>1, <5>1
        <5>3. 1 \in 1..Len(all) /\ all[1].seq = w.seq
          BY <1>2, <3>2
        <5>4. w.seq \in Sequences(all)
          BY <5>3 DEF Sequences
        <5>5. QED BY <5>2, <5>4
      <4>2. CASE n \in First..(next - 1)
        <5>1. n - First + 2 \in 2..Len(all)
          BY <1>2, <3>2, <4>2, SMTT(30)
        <5>2. all[n - First + 2].seq = First + (n - First + 2) - 2
          BY <3>4, <5>1
        <5>3. n - First + 2 \in 1..Len(all) /\ First + (n - First + 2) - 2 = n
          <6>1. First \in Nat /\ n \in Nat
            BY <1>2, <4>2
          <6>2. QED BY <5>1, <6>1
        <5>4. n \in Sequences(all)
          BY <5>2, <5>3 DEF Sequences
        <5>5. QED BY <5>4
      <4>3. QED BY <1>2, <4>1, <4>2
    <3>8. Settled \subseteq 1..(next - 1) /\ d.seq < next
      BY <1>2, <1>3, <1>5
    <3>9. client.resync = NoResync => \A n \in Settled : n <= Head(all).seq
      <4> SUFFICES ASSUME client.resync = NoResync, NEW n \in Settled PROVE n <= w.seq
        BY <3>2
      <4>1. n < w.seq /\ n \in Nat
        BY <1>2, <3>1 DEF ClientInv, ResyncInv
      <4>2. QED BY <3>1, <4>1
    <3>10. waiting \o q = all
      BY <2>2 DEF all
    <3>11. c = [client EXCEPT !.retained = d, !.queue = all]
      BY <3>10
    <3>12. /\ c \in Clients /\ c.retained = d /\ c.queue = all /\ c.resync = client.resync
           /\ c.stopped = client.stopped /\ c.attempted = client.attempted
      BY <1>2, <1>3, <3>2, <3>11 DEF Clients
    <3> HIDE DEF c
    <3>13. /\ Rest([c EXCEPT !.queue = <<>>, !.resync = WidenedByAll(c.resync, c.queue)])
           /\ gaveUp' = gaveUp \cup {} \cup Sequences(c.queue)
      BY <1>1, <1>3, <1>4, <2>2, <3>2, <3>12 DEF RunOn
    <3>14. gaveUp' \cup Answered = Settled \cup Sequences(c.queue)
      BY <1>6, <3>13
    <3>15. /\ c \in Clients /\ c.retained # NoDrain /\ c.queue # <<>> /\ Declared(c.retained)
           /\ c.retained.seq < next /\ Settled \subseteq 1..(next - 1)
           /\ Sequences(c.queue) \subseteq 1..(next - 1)
      BY <1>3, <1>5, <3>2, <3>5, <3>8, <3>12
    <3>16. /\ \A n \in 1..(next - 1) : n \in Settled \cup Sequences(c.queue) \/ c.retained.seq = n
           /\ \A n \in 1..Len(c.queue) : /\ Head(c.queue).seq <= c.queue[n].seq
                                          /\ c.queue[n].seq <= c.queue[Len(c.queue)].seq
      BY <3>6, <3>7, <3>12
    <3>17. /\ Ranges(c.resync, Settled)
           /\ c.resync = NoResync => \A n \in Settled : n <= Head(c.queue).seq
      BY <1>2, <3>9, <3>12
    <3>18. next \in Nat \ {0}
      BY <1>2
    <3>19. QED BY <1>7, <1>8, <3>13, <3>14, <3>15, <3>16, <3>17, <3>18, GivenUp
  <2>3. QED BY <2>1, <2>2
<1>10. ServerInv'
  BY <1>1, <1>9, NetworkKeeps DEF Requests
<1>11. AnswerInv'
  BY <1>1, <1>8, <1>9, AnswerStays
<1>12. QED BY <1>8, <1>9, <1>10, <1>11

-----------------------------------------------------------------------------
(* The network's steps                                                     *)

\* The attempt at hand waits for the answer again, or is answered with a failure.
LEMMA AttemptKeeps ==
    ASSUME ServerInv, AnswerInv, ClientInv, TryAgain \/ ConnectionLost \/ Denied
    PROVE  ServerInv' /\ Held' = Held /\ AnswerInv' /\ ClientInv'
<1>1. delivery.drain \in MaybeDrain /\ delivery.attempts \in Nat /\ late \subseteq Drains
  BY DEF ClientInv, ClientType, Deliveries
<1>2. /\ UNCHANGED <<disk, memory, work, seal, recorder, client, accepted, gaveUp>>
      /\ request' \in {"flying", "retry", "refused"} /\ request # "none"
      /\ delivery' \in {delivery, [delivery EXCEPT !.attempts = @ + 1]}
      /\ late' \in {late, late \cup {delivery.drain}}
  <2>1. CASE TryAgain
    BY <2>1 DEF TryAgain
  <2>2. CASE ConnectionLost
    BY <2>2 DEF ConnectionLost
  <2>3. CASE Denied
    BY <2>3 DEF Denied, clientVars
  <2>4. QED BY <2>1, <2>2, <2>3
<1>3. ServerInv' /\ Held' = Held
  BY <1>2, NetworkKeeps DEF Requests
<1>4. AnswerInv'
  BY <1>2, <1>3, AnswerStays
<1>5. delivery.drain # NoDrain /\ delivery.drain \in Drains
  BY <1>1, <1>2 DEF ClientInv, DeliveryInv, MaybeDrain
<1>6. late' \subseteq Drains
  BY <1>1, <1>2, <1>5
<1>7. /\ delivery' \in Deliveries /\ delivery'.drain = delivery.drain
      /\ delivery'.waiting = delivery.waiting
  BY <1>2 DEF ClientInv, ClientType, Deliveries
<1>8. Outstanding' = Outstanding /\ First' = First /\ Settled' = Settled
  BY <1>2, <1>7 DEF Outstanding, First, Settled
<1>9. ClientType' /\ QueueInv'
  BY <1>2, <1>6, <1>7, <1>8 DEF ClientInv, ClientType, QueueInv, InOrder
<1>10. DeliveryInv'
  BY <1>2, <1>5, <1>7 DEF ClientInv, DeliveryInv
<1>11. AccountInv'
  BY <1>2, <1>3, <1>7, <1>8 DEF ClientInv, AccountInv, Declared
<1>12. ResyncInv'
  <2>1. Ranges(client.resync, Settled)'
    BY <1>2, <1>3, <1>8 DEF ClientInv, ResyncInv, Ranges
  <2>2. QED BY <1>2, <1>8, <2>1 DEF ClientInv, ResyncInv
<1>13. QED BY <1>3, <1>4, <1>9, <1>10, <1>11, <1>12 DEF ClientInv

LEMMA FindCallAnswers ==
    ASSUME NEW d \in Drains, NEW mine \in BOOLEAN, FindCall(d, mine)
    PROVE  /\ work.stage = "idle"
           /\ ~mine => request' = request
           /\ mine => \/ request' \in {"refused", "too_large", "retry"}
                      \/ /\ request' = "held" /\ work'.stage \notin {"down", "idle"}
                         /\ work'.after # "start" /\ work'.drain = d
<1>1. work.stage = "idle"
  BY DEF FindCall, LockFree
<1>2. \/ \E status \in {"refused", "too_large", "retry"} :
             request' = IF mine THEN status ELSE request
      \/ /\ request' = IF mine THEN "held" ELSE request
         /\ \E stage \in {"process", "recover"}, after \in {"none", "lookup"} :
                work' = [Working(stage, d) EXCEPT !.after = after]
  BY DEF FindCall
<1>3. ASSUME NEW stage \in {"process", "recover"}, NEW after \in {"none", "lookup"},
             work' = [Working(stage, d) EXCEPT !.after = after]
      PROVE  work'.stage = stage /\ work'.after = after /\ work'.drain = d
  BY <1>3 DEF Working
<1>4. QED BY <1>1, <1>2, <1>3

LEMMA ArriveKeeps ==
    ASSUME ServerInv, AnswerInv, ClientInv, Arrive \/ ArriveLate
    PROVE  ServerInv' /\ Held' = Held /\ AnswerInv' /\ ClientInv'
<1>1. ASSUME ServerInv', Held' = Held, late' \subseteq Drains,
             UNCHANGED <<recorder, client, delivery, accepted, gaveUp>>,
             request' = "none" <=> request = "none"
      PROVE  ClientInv'
  <2>1. Top(Held) \in Nat /\ Top(Held') \in Nat /\ Top(Held) <= Top(Held')
    BY <1>1, HeldFacts
  <2>2. QED BY <1>1, <2>1, ClientGrows
<1>2. ASSUME Held' = Held, UNCHANGED <<delivery, accepted>>
      PROVE  \A d : InLog(d)' <=> InLog(d)
  BY <1>2 DEF InLog
<1>3. late \subseteq Drains
  BY DEF ClientInv, ClientType
<1>4. CASE Arrive
  <2>1. request = "flying" /\ FindCall(delivery.drain, TRUE) /\ UNCHANGED clientVars
    BY <1>4 DEF Arrive
  <2>2. delivery.drain \in Drains
    BY <2>1 DEF ClientInv, ClientType, DeliveryInv, Deliveries, MaybeDrain
  <2>3. ServerInv' /\ Held' = Held
    BY <2>1, <2>2, FindCallKeeps
  <2>4. \/ request' \in {"refused", "too_large", "retry"}
        \/ /\ request' = "held" /\ work'.stage \notin {"down", "idle"}
           /\ work'.after # "start" /\ work'.drain = delivery.drain
    BY <2>1, <2>2, FindCallAnswers
  <2>5. UNCHANGED <<recorder, client, delivery, late, accepted, gaveUp>>
    BY <2>1 DEF clientVars
  <2>6. AnswerInv'
    BY <1>2, <2>3, <2>4, <2>5 DEF AnswerInv
  <2>7. QED BY <1>1, <1>3, <2>1, <2>3, <2>4, <2>5, <2>6
<1>5. CASE ArriveLate
  <2>1. PICK d \in late : /\ FindCall(d, FALSE) /\ late' = late \ {d}
                          /\ UNCHANGED <<recorder, client, delivery, accepted, gaveUp>>
    BY <1>5 DEF ArriveLate
  <2>2. d \in Drains /\ late' \subseteq Drains
    BY <1>3, <2>1
  <2>3. ServerInv' /\ Held' = Held
    BY <2>1, <2>2, FindCallKeeps
  <2>4. request' = request /\ work.stage = "idle"
    BY <2>1, <2>2, FindCallAnswers
  <2>5. request # "held"
    BY <2>4 DEF AnswerInv
  <2>6. AnswerInv'
    BY <1>2, <2>1, <2>3, <2>4, <2>5 DEF AnswerInv, InLog
  <2>7. QED BY <1>1, <2>1, <2>2, <2>3, <2>4, <2>6
<1>6. QED BY <1>4, <1>5

-----------------------------------------------------------------------------
(* The invariant of the composition                                        *)

IInv == ServerInv /\ AnswerInv /\ ClientInv

LEMMA InitHolds ==
    ASSUME Init
    PROVE  IInv
<1>1. /\ sidecar = NoLedger /\ journal = NoJournal /\ artifact = <<>>
      /\ call = NoCall /\ live = NoLive /\ refusal = NoDrain
      /\ work = Idle /\ request = "none" /\ seal = NoSeal
      /\ recorder = [next |-> 1, ended |-> FALSE]
      /\ client = [queue |-> <<>>, retained |-> NoDrain, resync |-> NoResync,
                   attempted |-> FALSE, stopped |-> FALSE]
      /\ delivery = NoDelivery /\ late = {} /\ accepted = {} /\ gaveUp = {}
  BY DEF Init, ServerInit
<1>2. Held = <<>>
  BY <1>1 DEF Held, CommittedChunks, NoLedger, NoJournal
<1>3. ServerInv
  <2>1. ServerType
    <3>1. <<>> \in Seq(Chunks) /\ "none" \in Requests
      BY DEF Requests
    <3>2. QED BY <1>1, <3>1, EmptyTypes DEF ServerType
  <2>2. LedgerInv
    BY <1>1, <1>2, EmptyLog DEF LedgerInv, NoLedger, NoJournal, NoIntent
  <2>3. MemoryInv /\ WorkInv /\ SealInv
    BY <1>1 DEF MemoryInv, WorkInv, SealInv, NoCall, NoLive, NoSeal, Idle, Working, NoLedger
  <2>4. QED BY <2>1, <2>2, <2>3 DEF ServerInv
<1>4. AnswerInv
  BY <1>1 DEF AnswerInv
<1>5. /\ client.queue = <<>> /\ client.retained = NoDrain /\ client.resync = NoResync
      /\ delivery.drain = NoDrain /\ delivery.waiting = NoDrain /\ recorder.next = 1
  BY <1>1 DEF NoDelivery
<1>6. First = 1 /\ Settled = {} /\ Outstanding = {}
  BY <1>1, <1>5 DEF First, Settled, Outstanding
<1>7. ClientType
  <2>1. <<>> \in Seq(Drains) /\ NoResync \in [from : Nat, through : Nat]
    BY DEF NoResync
  <2>2. client \in Clients
    BY <1>1, <2>1, EmptyTypes DEF Clients
  <2>3. delivery \in Deliveries
    BY <1>1, EmptyTypes DEF Deliveries, NoDelivery
  <2>4. QED BY <1>1, <2>2, <2>3 DEF ClientType
<1>8. QueueInv
  BY <1>5, <1>6 DEF QueueInv, InOrder
<1>9. DeliveryInv
  BY <1>1, <1>5 DEF DeliveryInv
<1>10. AccountInv
  BY <1>5, <1>6 DEF AccountInv
<1>11. ResyncInv
  BY <1>5, <1>6 DEF ResyncInv, Ranges
<1>12. QED BY <1>3, <1>4, <1>7, <1>8, <1>9, <1>10, <1>11 DEF ClientInv, IInv

\* Every step keeps the invariant; the log grows only by the drain at work, and what is
\* newly seen accepted is in it.
LEMMA NextKeeps ==
    ASSUME IInv, [Next]_vars
    PROVE  /\ IInv'
           /\ Held' = Held \/ (Extends(work.drain) /\ UNCHANGED accepted)
           /\ accepted' \in {accepted, accepted \cup {delivery.drain}}
<1> USE DEF IInv
<1>1. ASSUME NEW d \in Drains, Send(d) PROVE IInv' /\ Held' = Held /\ UNCHANGED accepted
  BY <1>1, SendKeeps DEF Send
<1>2. CASE Flush \/ Stop
  <2>1. UNCHANGED accepted
    BY <1>2 DEF Flush, Stop
  <2>2. QED BY <1>2, <2>1, FlushKeeps, StopKeeps
<1>3. CASE Arrive \/ ArriveLate
  <2>1. UNCHANGED accepted
    BY <1>3 DEF Arrive, ArriveLate, clientVars
  <2>2. QED BY <1>3, <2>1, ArriveKeeps
<1>4. CASE TryAgain \/ ConnectionLost \/ Denied
  <2>1. UNCHANGED accepted
    BY <1>4 DEF TryAgain, ConnectionLost, Denied, clientVars
  <2>2. QED BY <1>4, <2>1, AttemptKeeps
<1>5. CASE Accepted
  <2>1. accepted' = accepted \cup {delivery.drain}
    BY <1>5 DEF Accepted
  <2>2. QED BY <1>5, <2>1, AcceptedKeeps
<1>6. CASE Retain \/ GiveUp
  <2>1. UNCHANGED accepted
    BY <1>6 DEF Retain, GiveUp
  <2>2. QED BY <1>6, <2>1, RetainKeeps, GiveUpKeeps
<1>7. CASE /\ ServerStep \/ ServerFault \/ SealStep \/ Expire \/ Prune \/ ForgetFinalized
           /\ UNCHANGED clientVars
  <2>1. ServerInv' /\ AnswerInv' /\ Grows /\ (request' = "none" <=> request = "none")
    BY <1>7, ServerKeeps
  <2>2. UNCHANGED <<recorder, client, delivery, late, accepted, gaveUp>>
    BY <1>7 DEF clientVars
  <2>3. Top(Held) \in Nat /\ Top(Held') \in Nat /\ Top(Held) <= Top(Held')
    BY <2>1, GrowsKeeps
  <2>4. late' \subseteq Drains
    BY <2>2 DEF ClientInv, ClientType
  <2>5. ClientInv'
    BY <2>1, <2>2, <2>3, <2>4, ClientGrows
  <2>6. QED BY <2>1, <2>2, <2>5 DEF Grows
<1>8. CASE UNCHANGED vars
  <2>1. /\ UNCHANGED <<disk, memory, work, seal, request>>
        /\ UNCHANGED <<recorder, client, delivery, late, accepted, gaveUp>>
    BY <1>8 DEF vars, serverVars, clientVars
  <2>2. ServerInv' /\ Held' = Held
    BY <2>1, NetworkKeeps DEF ServerInv, ServerType
  <2>3. AnswerInv'
    BY <2>1, <2>2, AnswerStays
  <2>4. Top(Held) \in Nat /\ Top(Held') \in Nat /\ Top(Held) <= Top(Held')
    BY <2>2, HeldFacts
  <2>5. late' \subseteq Drains
    BY <2>1 DEF ClientInv, ClientType
  <2>6. ClientInv'
    BY <2>1, <2>4, <2>5, ClientGrows
  <2>7. QED BY <2>1, <2>2, <2>3, <2>6
<1>9. QED BY <1>1, <1>2, <1>3, <1>4, <1>5, <1>6, <1>7, <1>8 DEF Next

LEMMA InvAlways == Spec => []IInv
<1>1. Init => IInv
  BY InitHolds
<1>2. IInv /\ [Next]_vars => IInv'
  BY NextKeeps
<1>3. QED BY <1>1, <1>2, PTL DEF Spec

-----------------------------------------------------------------------------
(* Theorems                                                                *)

LEMMA HeldWhileOpen ==
    ASSUME IInv, sidecar.exists, ~sidecar.sealed
    PROVE  Held = CommittedChunks
BY DEF IInv, ServerInv, LedgerInv, Held

\* Between drains, crashes and recoveries, the ledger, the journal and the call in memory
\* are of one prefix of the call (recover_pending_sidecar, _drain_serialized).
THEOREM CaptureInvAlways == Spec => []CaptureInv
<1>1. IInv => CaptureInv
  <2> SUFFICES ASSUME IInv PROVE CaptureInv
    OBVIOUS
  <2> USE DEF IInv
  <2>1. Held \in Seq(Chunks) /\ journal.chunks \in Seq(Chunks)
    BY HeldFacts
  <2>2. TypeOK
    <3>1. sidecar.retry \in MaybeDrain /\ sidecar.pending.drain \in MaybeDrain
      BY DEF ServerInv, ServerType, Ledgers
    <3>2. \A n \in 1..Len(journal.chunks) : journal.chunks[n].drain \in Drains
      BY <2>1, ChunkFacts
    <3>3. /\ delivery.drain \in MaybeDrain /\ client.retained \in MaybeDrain
          /\ late \subseteq Drains /\ accepted \subseteq Drains
      BY DEF ClientInv, ClientType, Clients, Deliveries
    <3>4. QED BY <3>1, <3>2, <3>3 DEF TypeOK, MaybeDrain
  <2>3. LedgerTrue
    <3> SUFFICES ASSUME sidecar.exists, ~sidecar.sealed
                 PROVE  /\ sidecar.applied = Top(Held) /\ sidecar.finalized = Closed(Held)
                        /\ \A n \in 1..Len(Held) : Held[n].whole
                        /\ Len(sidecar.digests) = Least(RingSize, Len(Held))
                        /\ \A n \in 1..Len(sidecar.digests) :
                               sidecar.digests[n] = Held[Len(Held) - Len(sidecar.digests) + n].drain
      BY HeldWhileOpen DEF LedgerTrue, Top
    <3>1. /\ sidecar.applied = Top(Held) /\ sidecar.finalized = Closed(Held)
          /\ sidecar.digests = Newest(Held) /\ Log(Held)
      BY DEF ServerInv, LedgerInv
    <3>2. QED BY <2>1, <3>1, NewestType DEF Log
  <2>4. Owned
    BY DEF ServerInv, LedgerInv, Owned, NoJournal
  <2>5. FenceAhead
    <3> SUFFICES ASSUME NEW d \in {sidecar.retry, sidecar.pending.drain} \ {NoDrain}
                 PROVE  d.seq > sidecar.applied
      BY DEF FenceAhead
    <3>1. sidecar.exists /\ sidecar.applied = Top(Held)
      BY DEF ServerInv, LedgerInv, NoLedger, NoIntent
    <3>2. CASE d = sidecar.retry
      BY <3>1, <3>2 DEF ServerInv, LedgerInv
    <3>3. CASE d = sidecar.pending.drain
      <4>1. sidecar.pending # NoIntent
        BY <3>3 DEF NoIntent
      <4>2. QED BY <3>1, <3>3, <4>1 DEF ServerInv, LedgerInv
    <3>4. QED BY <3>2, <3>3
  <2>6. CallTrue
    BY DEF CallTrue, InMemory, ServerInv, MemoryInv, LedgerInv, WorkInv
  <2>7. QED BY <2>2, <2>3, <2>4, <2>5, <2>6 DEF CaptureInv
<1>2. QED BY <1>1, InvAlways, PTL

\* List and tails are shown what a restart would show: no frame whose commit marker may
\* still fail (before_publish, _publish_durable_records_locked).
THEOREM LiveIsCommittedAlways == Spec => []LiveIsCommitted
<1>1. IInv => LiveIsCommitted
  BY DEF IInv, ServerInv, MemoryInv, LiveIsCommitted, Held
<1>2. QED BY <1>1, InvAlways, PTL

LEMMA LoggedHeld ==
    /\ Len(Logged) = Len(Held)
    /\ Logged = [n \in 1..Len(Held) |-> [drain |-> Held[n].drain, lost |-> Held[n].lost]]
BY DEF Logged, Held

LEMMA NoGap ==
    ASSUME IInv, work.stage = "process", request = "held"
    PROVE  Classify(work.drain) # "gap"
<1> USE DEF IInv
<1>1. /\ call.held /\ call.applied = Top(Held) /\ Top(Held) \in Nat
  BY HeldFacts DEF ServerInv, WorkInv, MemoryInv
<1>2. work.drain = delivery.drain /\ delivery.drain # NoDrain
  BY DEF AnswerInv, ClientInv, DeliveryInv
<1> DEFINE d == work.drain
<1>3. d \in Drains /\ d.seq \in Nat /\ Declared(d)
  <2>1. d \in Drains
    BY <1>2 DEF ClientInv, ClientType, Deliveries, MaybeDrain
  <2>2. QED BY <1>2, <2>1, DrainFacts DEF ClientInv, AccountInv
<1> HIDE DEF d
<1>4. CASE d.seq <= call.applied
  <2>1. Classify(d) = IF Remembered(call.digests, d) THEN "replay" ELSE "conflict"
    BY <1>1, <1>3, <1>4 DEF Classify
  <2>2. QED BY <2>1 DEF d
<1>5. CASE d.seq > call.applied /\ call.retry # NoDrain /\ call.retry # d
  <2>1. Classify(d) = "conflict"
    BY <1>1, <1>3, <1>5 DEF Classify
  <2>2. QED BY <2>1 DEF d
<1>6. CASE d.seq > call.applied /\ call.retry \in {NoDrain, d} /\ d.seq = call.applied + 1
  <2>1. Classify(d) = "apply"
    BY <1>1, <1>3, <1>6 DEF Classify
  <2>2. QED BY <2>1 DEF d
<1>7. CASE d.seq > call.applied /\ call.retry \in {NoDrain, d} /\ d.seq # call.applied + 1
  <2>1. Declares(d) /\ d.through = d.seq - 1 /\ d.from <= call.applied + 1
    BY <1>1, <1>3, <1>7 DEF Declared
  <2>2. Classify(d) = "apply"
    BY <1>1, <1>3, <1>7, <2>1 DEF Classify
  <2>3. QED BY <2>2 DEF d
<1>8. QED BY <1>1, <1>3, <1>4, <1>5, <1>6, <1>7

\* Every sequence the transport gave up is in the call, declared lost in it, or in the
\* range the next payload declares, and what it posts is never a gap
\* (rememberDroppedDrain, prepareResync, clearResync; _classify).
THEOREM LossesDeclaredAlways == Spec => []LossesDeclared
<1>1. IInv => LossesDeclared
  <2> SUFFICES ASSUME IInv PROVE LossesDeclared
    OBVIOUS
  <2> USE DEF IInv
  <2>1. ASSUME NEW n \in gaveUp PROVE Told(n)
    <3>1. n \in Settled /\ n \in Nat /\ n >= 1
      <4>1. n \in Settled
        BY DEF Settled
      <4>2. First \in Nat /\ Settled \subseteq 1..(First - 1)
        BY DEF ClientInv, QueueInv, AccountInv
      <4>3. QED BY <4>1, <4>2
    <3>2. n <= Top(Held) \/ (client.resync.from <= n /\ n <= client.resync.through)
      BY <3>1 DEF ClientInv, ResyncInv, Ranges
    <3>3. CASE n <= Top(Held)
      <4>1. n \in 1..Top(Held)
        BY <3>1, <3>3, HeldFacts
      <4>2. PICK k \in 1..Len(Held) : Held[k].drain.seq = n \/ n \in Held[k].lost
        BY <4>1 DEF ServerInv, LedgerInv, Log
      <4>3. k \in 1..Len(Logged) /\ Logged[k].drain = Held[k].drain /\ Logged[k].lost = Held[k].lost
        BY LoggedHeld
      <4>4. QED BY <4>2, <4>3 DEF Told
    <3>4. QED BY <3>2, <3>3 DEF Told
  <2>2. work.stage = "process" /\ request = "held" => Classify(work.drain) # "gap"
    BY NoGap
  <2>3. QED BY <2>1, <2>2 DEF LossesDeclared
<1>2. QED BY <1>1, InvAlways, PTL

\* Whatever the interleaving, the endpoint is the log of CaptureLog: a commit appends the
\* drain once, after the last one and with exactly the numbers missing before it as lost,
\* and what the transport saw accepted is in it (_drain_serialized, commit_capture_ledger).
THEOREM ImplementsLogAlways == Spec => ImplementsLog
<1>1. Init => CapturePromise!Init
  <2> SUFFICES ASSUME Init PROVE CapturePromise!Init
    OBVIOUS
  <2>1. Held = <<>>
    BY DEF Init, ServerInit, Held, CommittedChunks, NoLedger, NoJournal
  <2>2. Logged = <<>>
    BY <2>1, LoggedHeld
  <2>3. accepted = {}
    BY DEF Init
  <2>4. QED BY <2>2, <2>3 DEF CapturePromise!Init
<1>2. IInv /\ IInv' /\ [Next]_vars => [CapturePromise!Next]_<<Logged, accepted>>
  <2> SUFFICES ASSUME IInv, IInv', [Next]_vars
               PROVE  CapturePromise!Next \/ UNCHANGED <<Logged, accepted>>
    OBVIOUS
  <2>1. /\ Logged' = [n \in 1..Len(Held') |-> [drain |-> Held'[n].drain, lost |-> Held'[n].lost]]
        /\ Len(Logged') = Len(Held')
    BY DEF Logged, Held
  <2>2. Held \in Seq(Chunks)
    BY HeldFacts DEF IInv
  <2>3. CASE Extends(work.drain) /\ UNCHANGED accepted
    <3> DEFINE d == work.drain
               entry == [drain |-> d, lost |-> (CapturePromise!LastOf(Logged) + 1)..(d.seq - 1)]
    <3>1. /\ Held' = Append(Held, Chunk(d)) /\ Chunk(d) \in Chunks /\ Chunk(d).drain = d
          /\ Follows(Chunk(d), Top(Held)) /\ ~Closed(Held) /\ d \in Drains
      BY <2>3 DEF Extends
    <3>2. CapturePromise!LastOf(Logged) = Top(Held) /\ CapturePromise!EndedBy(Logged) = Closed(Held)
      <4>1. CASE Held = <<>>
        <5>1. Logged = <<>>
          BY <4>1, LoggedHeld
        <5>2. QED BY <4>1, <5>1 DEF CapturePromise!LastOf, CapturePromise!EndedBy, Top, Closed
      <4>2. CASE Held # <<>>
        <5>1. Len(Held) \in 1..Len(Held)
          BY <2>2, <4>2
        <5>2. Logged # <<>> /\ Logged[Len(Logged)].drain = Held[Len(Held)].drain
          BY <5>1, LoggedHeld
        <5>3. QED BY <4>2, <5>2 DEF CapturePromise!LastOf, CapturePromise!EndedBy, Top, Closed
      <4>3. QED BY <4>1, <4>2
    <3>3. Chunk(d).lost = entry.lost /\ d.seq > CapturePromise!LastOf(Logged)
      BY <3>1, <3>2 DEF Follows
    <3> HIDE DEF d, entry
    <3>4. Logged' = Append(Logged, entry)
      <4>1. /\ Len(Held') = Len(Held) + 1 /\ Held'[Len(Held) + 1] = Chunk(d)
            /\ \A n \in 1..Len(Held) : Held'[n] = Held[n]
        BY <2>2, <3>1, AppendProperties
      <4>2. entry = [drain |-> Chunk(d).drain, lost |-> Chunk(d).lost]
        BY <3>1, <3>3 DEF entry
      <4>3. Len(Held) \in Nat
        BY <2>2
      <4> DEFINE E == {[drain |-> c.drain, lost |-> c.lost] : c \in Chunks}
      <4>4. Logged \in Seq(E)
        <5>1. \A n \in 1..Len(Held) : Held[n] \in Chunks
          BY <2>2, ElementOfSeq
        <5>2. Logged \in [1..Len(Held) -> E]
          BY <5>1, LoggedHeld
        <5>3. QED BY <4>3, <5>2
      <4>5. entry \in E
        BY <3>1, <4>2
      <4> HIDE DEF E
      <4> DEFINE longer == Append(Logged, entry)
      <4>6. /\ longer \in Seq(E) /\ Len(longer) = Len(Held) + 1
            /\ longer[Len(Held) + 1] = entry
            /\ \A n \in 1..Len(Held) : longer[n] = Logged[n]
        BY <4>4, <4>5, LoggedHeld, AppendProperties
      <4> HIDE DEF longer
      <4>7. \A n \in 1..(Len(Held) + 1) : longer[n] = Logged'[n]
        <5> SUFFICES ASSUME NEW n \in 1..(Len(Held) + 1)
                     PROVE  longer[n] = [drain |-> Held'[n].drain, lost |-> Held'[n].lost]
          BY <2>1, <4>1
        <5>1. CASE n = Len(Held) + 1
          BY <4>1, <4>2, <4>6, <5>1
        <5>2. CASE n \in 1..Len(Held)
          BY <4>1, <4>6, <5>2, LoggedHeld
        <5>3. QED BY <4>3, <5>1, <5>2
      <4>8. Logged' \in Seq(E) /\ Len(Logged') = Len(Held) + 1
        <5>1. Held' \in Seq(Chunks)
          BY <2>3 DEF Extends
        <5>2. \A n \in 1..Len(Held') : Held'[n] \in Chunks
          BY <5>1, ElementOfSeq
        <5>3. Logged' \in [1..Len(Held') -> E]
          BY <2>1, <5>2 DEF E
        <5>4. Len(Held') = Len(Held) + 1 /\ Len(Held) + 1 \in Nat
          BY <4>1, <4>3
        <5>5. Logged' \in Seq(E)
          BY <5>3, <5>4
        <5>6. QED BY <2>1, <5>4, <5>5
      <4>9. Logged' = longer
        BY <4>3, <4>6, <4>7, <4>8, SeqEqual
      <4>10. QED BY <4>9 DEF longer
    <3>5. CapturePromise!Apply(d)
      BY <2>3, <3>1, <3>2, <3>3, <3>4 DEF CapturePromise!Apply, entry
    <3>6. QED BY <3>1, <3>5 DEF CapturePromise!Next
  <2>4. CASE Held' = Held
    <3>1. Logged' = Logged
      BY <2>1, <2>4, LoggedHeld
    <3>2. CASE accepted' = accepted
      BY <3>1, <3>2
    <3>3. CASE accepted' # accepted
      <4>1. accepted' \in {accepted, accepted \cup {delivery.drain}}
        BY NextKeeps
      <4>2. accepted' = accepted \cup {delivery.drain}
        BY <3>3, <4>1
      <4>3. delivery.drain \in accepted'
        BY <4>2
      <4>4. delivery.drain \in Drains
        BY <4>3 DEF IInv, ClientInv, ClientType
      <4>5. PICK n \in 1..Len(Held) : Held[n].drain = delivery.drain
        BY <2>4, <4>3 DEF IInv, AnswerInv, InLog
      <4>6. n \in 1..Len(Logged) /\ Logged[n].drain = delivery.drain
        BY <4>5, LoggedHeld
      <4>7. CapturePromise!Acknowledge(delivery.drain)
        BY <3>1, <4>2, <4>6 DEF CapturePromise!Acknowledge
      <4>8. QED BY <4>4, <4>7 DEF CapturePromise!Next
    <3>4. QED BY <3>2, <3>3
  <2>5. QED BY <2>3, <2>4, NextKeeps
<1>3. Spec => [][CapturePromise!Next]_<<Logged, accepted>>
  BY <1>2, InvAlways, PTL DEF Spec
<1>4. QED BY <1>1, <1>3, PTL DEF Spec, ImplementsLog, CapturePromise!Spec

=============================================================================
