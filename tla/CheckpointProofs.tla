-------------------------- MODULE CheckpointProofs ---------------------------
(***************************************************************************)
(* Proofs about CheckpointUpload: CheckpointInv is inductive, and from it  *)
(* follow what is kept of a closed incident, what a final artifact holds,  *)
(* and how the live session moves. First sequences and counts, then the    *)
(* writer, then each kind of step.                                         *)
(***************************************************************************)
EXTENDS CheckpointUpload, FiniteSetTheorems, SequenceTheorems, TLAPS

-----------------------------------------------------------------------------
(* Counting facts, and the end of a batch                                  *)

\* Where frames of these kinds are.
At(frames, kinds) == {n \in 1..Len(frames) : frames[n] \in kinds}

\* A replay counts as many frames as there are at most.
LEMMA CountNat ==
    ASSUME NEW frames \in Seq(Kinds), NEW kinds
    PROVE  IsFiniteSet(At(frames, kinds)) /\ Count(frames, kinds) \in Nat
<1>1. IsFiniteSet(1..Len(frames))
  BY FS_Interval
<1>2. At(frames, kinds) \subseteq 1..Len(frames)
  BY DEF At
<1>3. IsFiniteSet(At(frames, kinds))
  BY <1>1, <1>2, FS_Subset
<1>4. Count(frames, kinds) = Cardinality(At(frames, kinds))
  BY DEF Count, At
<1>5. QED
  BY <1>3, <1>4, FS_CardinalityType

\* No frames, nothing to count.
LEMMA CountNone == ASSUME NEW kinds PROVE Count(<<>>, kinds) = 0
<1>1. {n \in 1..Len(<<>>) : <<>>[n] \in kinds} = {}
  OBVIOUS
<1>2. QED
  BY <1>1, FS_EmptySet DEF Count

One(kind, kinds) == IF kind \in kinds THEN 1 ELSE 0

\* A frame more is one more, or none if it is of another kind.
LEMMA CountAppend ==
    ASSUME NEW frames \in Seq(Kinds), NEW kind \in Kinds, NEW kinds
    PROVE  Count(Append(frames, kind), kinds) = Count(frames, kinds) + One(kind, kinds)
<1> DEFINE longer == Append(frames, kind)
           last == Len(frames) + 1
<1>1. Len(frames) \in Nat /\ Len(longer) = last /\ longer[last] = kind
      /\ \A n \in 1..Len(frames) : longer[n] = frames[n]
  OBVIOUS
<1>2. Count(longer, kinds) = Cardinality(At(longer, kinds))
      /\ Count(frames, kinds) = Cardinality(At(frames, kinds))
  BY DEF Count, At
<1>3. CASE kind \in kinds
  <2>1. At(longer, kinds) = At(frames, kinds) \cup {last} /\ last \notin At(frames, kinds)
    BY <1>1, <1>3 DEF At
  <2>2. QED
    BY <2>1, <1>2, <1>3, CountNat, FS_AddElement DEF One
<1>4. CASE kind \notin kinds
  <2>1. At(longer, kinds) = At(frames, kinds)
    BY <1>1, <1>4 DEF At
  <2>2. QED
    BY <2>1, <1>2, <1>4, CountNat DEF One
<1>5. QED
  BY <1>3, <1>4

\* The frames hold every fact and every record the recorder r admitted.
Held(frames, r) == Count(frames, Facts) = r.admitted /\ Count(frames, Records) = r.counted

\* What such frames replay to is what a close of r builds.
LEMMA HeldIs ==
    ASSUME NEW frames, NEW r
    PROVE  Replayed(frames) = Incident("final", r.admitted, r.counted) <=> Held(frames, r)
BY DEF Replayed, Incident, Held

\* Frames that hold what r admitted hold what it admits next, once that is appended.
LEMMA HeldAppend ==
    ASSUME NEW frames \in Seq(Kinds), NEW kind \in Kinds, NEW r, NEW s, Held(frames, r),
           s.admitted = r.admitted + One(kind, Facts),
           s.counted = r.counted + One(kind, Records)
    PROVE  Held(Append(frames, kind), s)
BY CountAppend DEF Held

\* A batch ends where it begins, or further and within what was read.
LEMMA PlanEndBounds ==
    ASSUME NEW from \in Nat, NEW seen \in Nat
    PROVE  /\ PlanEnd(from, seen) \in Nat
           /\ from <= PlanEnd(from, seen)
           /\ PlanEnd(from, seen) # from => PlanEnd(from, seen) <= seen
<1> DEFINE taken == {n \in (from + 1)..seen :
                       n <= from + BatchFrames
                         /\ \A m \in (from + 1)..n : journal.frames[m] # "big"}
<1>1. PlanEnd(from, seen) = from + Cardinality(taken)
  BY DEF PlanEnd
<1>2. IsFiniteSet((from + 1)..seen)
      /\ Cardinality((from + 1)..seen) = IF from + 1 > seen THEN 0 ELSE seen - (from + 1) + 1
  BY FS_Interval
<1>3. IsFiniteSet(taken) /\ Cardinality(taken) <= Cardinality((from + 1)..seen)
  BY <1>2, FS_Subset
<1>4. Cardinality(taken) \in Nat
  BY <1>3, FS_CardinalityType
<1>5. QED
  BY <1>1, <1>2, <1>3, <1>4

-----------------------------------------------------------------------------
(* Prefixes                                                                *)

\* A prefix is a sequence of its length, with the same elements.
LEMMA PrefixIs ==
    ASSUME NEW s \in Seq(Kinds), NEW n \in 0..Len(s)
    PROVE  /\ SubSeq(s, 1, n) \in Seq(Kinds)
           /\ Len(SubSeq(s, 1, n)) = n
           /\ \A i \in 1..n : SubSeq(s, 1, n)[i] = s[i]
<1>1. n \in Int /\ 1 \in Int /\ n \in Nat /\ n <= Len(s) /\ Len(s) \in Nat
  OBVIOUS
<1>2. \A i \in 1..n : s[i] \in Kinds
  BY <1>1, ElementOfSeq
<1>3. QED
  BY <1>1, <1>2, SubSeqProperties

\* Appending a frame moves no prefix.
LEMMA PrefixOfAppend ==
    ASSUME NEW s \in Seq(Kinds), NEW kind \in Kinds, NEW n \in 0..Len(s)
    PROVE  SubSeq(Append(s, kind), 1, n) = SubSeq(s, 1, n)
<1>1. Append(s, kind) \in Seq(Kinds) /\ Len(Append(s, kind)) = Len(s) + 1
      /\ (\A i \in 1..Len(s) : Append(s, kind)[i] = s[i])
  OBVIOUS
<1>2. n \in 0..Len(Append(s, kind)) /\ n \in 0..Len(s) /\ Len(s) \in Nat
  BY <1>1
<1>3. \A i \in 1..n : SubSeq(Append(s, kind), 1, n)[i] = SubSeq(s, 1, n)[i]
  BY <1>1, <1>2, PrefixIs
<1>4. QED
  BY <1>1, <1>2, <1>3, PrefixIs, SeqEqual

\* A batch that starts within a prefix makes it the longer of the two.
LEMMA PrefixAccepts ==
    ASSUME NEW s \in Seq(Kinds), NEW k \in 0..Len(s), NEW n \in 0..Len(s)
    PROVE  SubSeq(s, 1, k) \o SubSeq(s, k + 1, n) = SubSeq(s, 1, Later(k, n))
<1>1. Len(s) \in Nat /\ k \in Nat /\ n \in Nat
  OBVIOUS
<1>2. CASE k <= n
  <2>1. 1 \in 1..(Len(s) + 1) /\ k \in 0..Len(s) /\ n \in k..Len(s)
    BY <1>1, <1>2
  <2>2. SubSeq(s, 1, k) \o SubSeq(s, k + 1, n) = SubSeq(s, 1, n)
    BY <2>1, ConcatAdjacentSubSeq
  <2>3. Later(k, n) = n
    BY <1>1, <1>2 DEF Later
  <2>4. QED
    BY <2>2, <2>3
<1>3. CASE n < k
  <2>1. SubSeq(s, k + 1, n) = <<>>
    BY <1>1, <1>3, SubSeqEmpty
  <2>2. Later(k, n) = k
    BY <1>1, <1>3 DEF Later
  <2>3. SubSeq(s, 1, k) \o <<>> = SubSeq(s, 1, k)
    BY PrefixIs, ConcatEmptySeq
  <2>4. QED
    BY <2>1, <2>2, <2>3
<1>4. k <= n \/ n < k
  BY <1>1
<1>5. QED
  BY <1>2, <1>3, <1>4

-----------------------------------------------------------------------------
(* One write                                                               *)

\* What JournalEnds says of the frames alone.
EndsIn(frames) ==
    \A n \in 1..Len(frames) :
        /\ frames[n] = "open" <=> n = 1
        /\ frames[n] = "finalize" => n = Len(frames)
        /\ frames[n] = "exhausted" => \A m \in (n + 1)..Len(frames) : frames[m] = "finalize"

Appended(how) == how \in {"written", "unsynced"}

\* p is the journal j after a write of the frame that ended so, with that much synced.
Wrote(p, j, kind, how, synced) ==
    /\ p \in Journals
    /\ p.exists = j.exists /\ p.named = j.named /\ p.ghost = j.ghost
    /\ p.finalized = j.finalized /\ p.closed = j.closed
    /\ Appended(how) => /\ p.frames = Append(j.frames, kind)
                        /\ p.kept = Len(j.frames) + 1 /\ p.torn = j.torn
    /\ ~Appended(how) => p.frames = j.frames /\ p.kept = j.kept
    /\ p.synced = synced
    /\ how = "written" => p.degraded = j.degraded /\ p.complete = j.complete
    /\ how # "written" => p.degraded /\ ~p.complete

\* _append_locked, outcome by outcome.
LEMMA PutDoes ==
    ASSUME NEW j \in Journals, NEW kind \in Kinds, NEW how \in Outcomes
    PROVE  /\ Wrote(Put(j, kind, how, TRUE), j, kind, how,
                    IF how = "written" THEN Len(j.frames) + 1 ELSE j.synced)
           /\ Wrote(Put(j, kind, how, FALSE), j, kind, how, j.synced)
<1> DEFINE longer == Append(j.frames, kind)
           last == Len(j.frames) + 1
           p == Put(j, kind, how, TRUE)
           q == Put(j, kind, how, FALSE)
<1>1. longer \in Seq(Kinds) /\ Len(longer) = last /\ last \in Nat /\ j.synced \in Nat
  BY DEF Journals
<1>2. /\ how = "written" => p = [j EXCEPT !.frames = longer, !.kept = last, !.synced = last]
      /\ how = "written" => q = [j EXCEPT !.frames = longer, !.kept = last]
      /\ how = "unsynced" => p = [j EXCEPT !.frames = longer, !.kept = last,
                                           !.degraded = TRUE, !.complete = FALSE] /\ q = p
      /\ how = "short" => p = [j EXCEPT !.torn = TRUE, !.degraded = TRUE, !.complete = FALSE]
                            /\ q = p
      /\ how = "failed" => p = [j EXCEPT !.degraded = TRUE, !.complete = FALSE] /\ q = p
  BY <1>1 DEF Put, Journals
<1> HIDE DEF p, q
<1>3. SUFFICES /\ Wrote(p, j, kind, how, IF how = "written" THEN last ELSE j.synced)
               /\ Wrote(q, j, kind, how, j.synced)
  BY DEF p, q
<1>4. longer = Append(j.frames, kind) /\ last = Len(j.frames) + 1
  OBVIOUS
<1> HIDE DEF longer, last
<1>5. CASE how = "written"
  <2>1. p \in Journals /\ q \in Journals
    BY <1>1, <1>2, <1>5 DEF Journals
  <2>2. QED
    BY <2>1, <1>1, <1>2, <1>4, <1>5 DEF Journals, Wrote, Appended
<1>6. CASE how = "unsynced"
  <2>1. Wrote(p, j, kind, how, j.synced)
    BY <1>1, <1>2, <1>4, <1>6 DEF Journals, Wrote, Appended
  <2>2. QED
    BY <2>1, <1>2, <1>6
<1>7. CASE how = "short"
  <2>1. Wrote(p, j, kind, how, j.synced)
    BY <1>1, <1>2, <1>4, <1>7 DEF Journals, Wrote, Appended
  <2>2. QED
    BY <2>1, <1>2, <1>7
<1>8. CASE how = "failed"
  <2>1. Wrote(p, j, kind, how, j.synced)
    BY <1>1, <1>2, <1>4, <1>8 DEF Journals, Wrote, Appended
  <2>2. QED
    BY <2>1, <1>2, <1>8
<1>9. QED
  BY <1>5, <1>6, <1>7, <1>8 DEF Outcomes

\* An append keeps the ends: the header comes first, nothing but the finalize frame
\* follows the full journal's marker, and nothing the finalize frame.
LEMMA AppendEnds ==
    ASSUME NEW frames \in Seq(Kinds), NEW kind \in Kinds, EndsIn(frames),
           ~Finalized(frames), kind = "open" <=> frames = <<>>,
           Has(frames, "exhausted") => kind = "finalize"
    PROVE  EndsIn(Append(frames, kind))
<1> DEFINE longer == Append(frames, kind)
           last == Len(frames) + 1
<1>1. Len(frames) \in Nat /\ Len(longer) = last /\ longer[last] = kind
      /\ \A n \in 1..Len(frames) : longer[n] = frames[n]
  OBVIOUS
<1>2. frames = <<>> <=> Len(frames) = 0
  OBVIOUS
<1>3. ASSUME NEW n \in 1..last
      PROVE  /\ longer[n] = "open" <=> n = 1
             /\ longer[n] = "finalize" => n = last
             /\ longer[n] = "exhausted" => \A m \in (n + 1)..last : longer[m] = "finalize"
  <2>1. CASE n = last
    <3>1. (n + 1)..last = {}
      BY <1>1, <2>1
    <3>2. QED
      BY <1>1, <1>2, <2>1, <3>1
  <2>2. CASE n \in 1..Len(frames)
    <3>1. longer[n] = frames[n] /\ frames[n] # "finalize"
      BY <1>1, <2>2 DEF Finalized, Has
    <3>2. longer[n] = "open" <=> n = 1
      BY <3>1, <2>2 DEF EndsIn
    <3>3. ASSUME longer[n] = "exhausted", NEW m \in (n + 1)..last
          PROVE  longer[m] = "finalize"
      <4>1. kind = "finalize"
        BY <3>1, <3>3, <2>2 DEF Has
      <4>2. CASE m = last
        BY <4>1, <4>2, <1>1
      <4>3. CASE m \in (n + 1)..Len(frames)
        <5>1. frames[m] = "finalize" /\ m \in 1..Len(frames)
          BY <4>3, <3>1, <3>3, <2>2, <1>1 DEF EndsIn
        <5>2. QED
          BY <5>1, <1>1
      <4>4. QED
        BY <4>2, <4>3, <1>1
    <3>4. QED
      BY <3>1, <3>2, <3>3
  <2>3. QED
    BY <2>1, <2>2, <1>1
<1>4. QED
  BY <1>1, <1>3 DEF EndsIn

\* What an append makes of the two questions asked of frames.
LEMMA AppendHas ==
    ASSUME NEW frames \in Seq(Kinds), NEW kind \in Kinds, NEW asked
    PROVE  Has(Append(frames, kind), asked) <=> Has(frames, asked) \/ kind = asked
<1>1. Len(frames) \in Nat /\ Len(Append(frames, kind)) = Len(frames) + 1
      /\ Append(frames, kind)[Len(frames) + 1] = kind
      /\ \A n \in 1..Len(frames) : Append(frames, kind)[n] = frames[n]
  OBVIOUS
<1>2. QED
  BY <1>1 DEF Has

-----------------------------------------------------------------------------
(* The recorder and its journal                                            *)

Answers == {"unasked", "no", "raised", "queued", "spooled"}
Recorders == [stage : Stages, admitted : 0..MaxFacts, counted : Nat, accepted : Answers]

RecorderTypes ==
    /\ process \in {"up", "down"} /\ faults \in 0..MaxFaults
    /\ recorder \in Recorders
    /\ journal \in Journals

OpenUnfinished ==
    recorder.stage \in {"new", "open"} => ~Finalized(journal.frames) /\ ~journal.finalized

\* The frames of a journal that is written to, or was finalized, hold all the recorder
\* admitted, unless the journal was full.
Holds(j, r) ==
    Writable(j) \/ Finalized(j.frames) => Has(j.frames, "exhausted") \/ Held(j.frames, r)

RecorderOK == RecorderTypes /\ JournalEnds /\ WriterTrue /\ OpenUnfinished

\* What a step may do to the frames: nothing, or one more.
Grows ==
    \/ journal'.frames = journal.frames
    \/ \E kind \in Kinds : journal'.frames = Append(journal.frames, kind)

\* Nothing is written yet, so everything holds of it.
LEMMA NoJournalOK == NoJournal \in Journals /\ EndsIn(<<>>) /\ ~Has(<<>>, "finalize")
BY DEF NoJournal, Journals, EndsIn, Has

\* JournalEnds in the words of these lemmas.
EndsParts ==
    /\ journal.torn /\ ~journal.closed => journal.degraded
    /\ EndsIn(journal.frames)
    /\ journal.finalized => Finalized(journal.frames) /\ ~journal.torn
    /\ Holds(journal, recorder)

LEMMA EndsAre == (JournalEnds <=> EndsParts) /\ (JournalEnds' <=> EndsParts')
<1>1. Replayed(journal.frames) = Closed <=> Held(journal.frames, recorder)
  BY HeldIs DEF Closed
<1>2. (Replayed(journal.frames) = Closed)' <=> Held(journal.frames, recorder)'
  BY HeldIs DEF Closed
<1>3. QED
  BY <1>1, <1>2, Zenon DEF JournalEnds, EndsParts, EndsIn, Holds

\* The faults never exceed their bound.
LEMMA FaultKeeps ==
    ASSUME faults \in 0..MaxFaults, Fault \/ Fine
    PROVE  faults' \in 0..MaxFaults
BY JournalAssumption DEF Fault, Fine

\* An open writes the header or nothing; the name may be on the disk with the header.
LEMMA OpenJournalKeeps ==
    ASSUME RecorderOK, OpenJournal
    PROVE  RecorderOK' /\ Grows
<1> USE DEF RecorderOK, RecorderTypes
<1>1. recorder.stage = "new" /\ recorder' = [recorder EXCEPT !.stage = "open"]
      /\ process' = process /\ journal = NoJournal
      /\ recorder.admitted = 0 /\ recorder.counted = 0
  BY DEF OpenJournal, WriterTrue
<1>2. journal.frames = <<>> /\ journal.kept = 0 /\ journal.synced = 0 /\ ~journal.torn
      /\ journal.complete /\ ~journal.finalized /\ ~journal.closed
  BY <1>1 DEF NoJournal
<1>3. recorder' \in Recorders /\ recorder'.stage = "open"
      /\ recorder'.admitted = 0 /\ recorder'.counted = 0
  BY <1>1, JournalAssumption DEF Stages, Recorders
<1> DEFINE before == [journal EXCEPT !.exists = TRUE]
           put(how) == Put(before, "open", how, TRUE)
<1>4. ASSUME NEW how \in Outcomes, NEW named \in BOOLEAN, Fault \/ Fine,
             journal' = [put(how) EXCEPT !.named = named]
      PROVE  RecorderOK' /\ Grows
  <2>1. before \in Journals /\ before.frames = <<>> /\ before.kept = 0 /\ before.synced = 0
        /\ ~before.torn /\ before.complete /\ ~before.finalized /\ ~before.closed
    BY <1>2 DEF Journals
  <2>2. "open" \in Kinds /\ Len(<<>>) = 0 /\ "open" \notin Facts /\ "open" \notin Records
    BY DEF Kinds, Facts, Records
  <2> HIDE DEF before
  <2>3. Wrote(put(how), before, "open", how,
              IF how = "written" THEN Len(before.frames) + 1 ELSE before.synced)
    BY <2>1, <2>2, PutDoes
  <2> HIDE DEF put
  <2>4. /\ (Appended(how) => /\ put(how).frames = Append(<<>>, "open") /\ put(how).kept = 1
                             /\ ~put(how).torn)
        /\ (~Appended(how) => put(how).frames = <<>> /\ put(how).kept = 0)
        /\ put(how).synced = (IF how = "written" THEN 1 ELSE 0)
        /\ (how # "written" => put(how).degraded) /\ put(how) \in Journals
        /\ (how = "written" => put(how).complete) /\ ~put(how).finalized /\ ~put(how).closed
    <3>1. Len(before.frames) = 0
      BY <2>1, <2>2
    <3>2. Appended(how) => put(how).frames = Append(<<>>, "open") /\ ~put(how).torn
      BY <2>1, <2>3 DEF Wrote
    <3>3. /\ Appended(how) => put(how).kept = 1
          /\ ~Appended(how) => put(how).kept = 0 /\ put(how).frames = <<>>
          /\ put(how).synced = (IF how = "written" THEN 1 ELSE 0)
      BY <2>1, <2>3, <3>1 DEF Wrote
    <3>4. /\ (how # "written" => put(how).degraded) /\ put(how) \in Journals
          /\ (how = "written" => put(how).complete) /\ ~put(how).finalized /\ ~put(how).closed
      BY <2>1, <2>3 DEF Wrote
    <3>5. QED
      BY <3>2, <3>3, <3>4
  <2>5. /\ (Appended(how) => /\ journal'.frames = Append(<<>>, "open") /\ journal'.kept = 1
                             /\ ~journal'.torn)
        /\ (~Appended(how) => journal'.frames = <<>> /\ journal'.kept = 0)
        /\ journal'.synced = (IF how = "written" THEN 1 ELSE 0)
        /\ (how # "written" => journal'.degraded) /\ journal' \in Journals
        /\ (how = "written" => journal'.complete) /\ ~journal'.finalized /\ ~journal'.closed
    BY <1>4, <2>4 DEF Journals
  <2>6. Append(<<>>, "open") = <<"open">> /\ Len(<<"open">>) = 1 /\ <<"open">>[1] = "open"
    OBVIOUS
  <2>7. EndsIn(<<"open">>) /\ ~Has(<<"open">>, "finalize") /\ ~Has(<<"open">>, "exhausted")
    BY <2>6 DEF EndsIn, Has
  <2>8. /\ Held(<<>>, recorder') /\ Held(<<"open">>, recorder')
        /\ EndsIn(<<>>) /\ ~Has(<<>>, "finalize") /\ ~Has(<<>>, "exhausted")
    <3>1. Held(<<>>, recorder')
      BY <1>3, CountNone DEF Held
    <3>2. <<>> \in Seq(Kinds) /\ One("open", Facts) = 0 /\ One("open", Records) = 0
      BY <2>2 DEF One
    <3>3. Held(Append(<<>>, "open"), recorder')
      <4>1. \A kinds \in {Facts, Records} :
              Count(Append(<<>>, "open"), kinds) = Count(<<>>, kinds) + One("open", kinds)
        BY <2>2, <3>2, CountAppend
      <4>2. Count(<<>>, Facts) = 0 /\ Count(<<>>, Records) = 0
        BY CountNone
      <4>3. QED
        BY <1>3, <3>2, <4>1, <4>2 DEF Held
    <3>4. QED
      BY <2>6, <3>1, <3>3, NoJournalOK DEF Has
  <2>9. EndsIn(journal'.frames) /\ ~Finalized(journal'.frames)
        /\ ~Has(journal'.frames, "exhausted") /\ Held(journal'.frames, recorder')
    BY <2>5, <2>6, <2>7, <2>8 DEF Finalized
  <2>10. JournalEnds'
    <3>1. journal'.torn => journal'.degraded
      BY <2>5 DEF Appended
    <3>2. QED
      BY <2>5, <2>9, <3>1, EndsAre DEF EndsParts, Holds
  <2>11. WriterTrue'
    <3>1. CASE Appended(how)
      <4>1. journal'.frames = <<"open">> /\ journal'.kept = 1 /\ Len(journal'.frames) = 1
        BY <2>5, <2>6, <3>1
      <4>2. journal'.frames # <<>>
        BY <4>1, <2>2
      <4>3. Writable(journal') => how = "written"
        BY <2>5 DEF Writable
      <4>4. QED
        BY <2>5, <2>9, <4>1, <4>2, <4>3, <1>3 DEF WriterTrue
    <3>2. CASE ~Appended(how)
      <4>1. how # "written"
        BY <3>2 DEF Appended
      <4>2. journal'.frames = <<>> /\ journal'.kept = 0 /\ journal'.synced = 0
            /\ Len(journal'.frames) = 0
        BY <2>2, <2>5, <3>2, <4>1
      <4>3. QED
        BY <2>5, <2>9, <4>1, <4>2, <1>3 DEF WriterTrue, Writable
    <3>3. QED
      BY <3>1, <3>2
  <2>12. faults' \in 0..MaxFaults
    BY <1>4, FaultKeeps
  <2>13. Grows
    BY <2>2, <2>5, <1>2 DEF Grows
  <2>14. QED
    BY <1>1, <1>3, <2>5, <2>9, <2>10, <2>11, <2>12, <2>13 DEF OpenUnfinished
<1>5. CASE \E how \in Outcomes :
             /\ Writes(how, TRUE)
             /\ journal' = [Put([journal EXCEPT !.exists = TRUE], "open", how, TRUE)
                              EXCEPT !.named = (how = "written")]
  <2>1. PICK how \in Outcomes :
             Writes(how, TRUE) /\ journal' = [put(how) EXCEPT !.named = (how = "written")]
    BY <1>5
  <2>2. (how = "written") \in BOOLEAN /\ (Fault \/ Fine)
    BY <2>1 DEF Writes
  <2> HIDE DEF put
  <2>3. PICK named \in BOOLEAN : journal' = [put(how) EXCEPT !.named = named]
    BY <2>1, <2>2, Zenon
  <2>4. QED
    BY <1>4, <2>2, <2>3
<1>6. CASE Fault /\ journal' = put("written")
  <2>1. before \in Journals /\ "open" \in Kinds /\ "written" \in Outcomes
    BY DEF Journals, Kinds, Outcomes
  <2> HIDE DEF before
  <2>2. put("written") \in Journals
    BY <2>1, PutDoes DEF Wrote
  <2> HIDE DEF put
  <2>3. put("written") = [put("written") EXCEPT !.named = put("written").named]
        /\ put("written").named \in BOOLEAN
    BY <2>2 DEF Journals
  <2>4. QED
    BY <1>4, <1>6, <2>1, <2>3
<1>7. CASE Fault /\ journal' = [journal EXCEPT !.degraded = TRUE, !.complete = FALSE]
  <2>1. journal' \in Journals /\ journal'.frames = <<>> /\ journal'.kept = 0
        /\ journal'.synced = 0 /\ journal'.degraded /\ ~journal'.complete
        /\ ~journal'.finalized /\ ~journal'.closed /\ ~journal'.torn
    BY <1>2, <1>7 DEF Journals
  <2>2. EndsIn(journal'.frames) /\ ~Finalized(journal'.frames)
    BY <2>1, NoJournalOK DEF Finalized
  <2>3. JournalEnds'
    BY <2>1, <2>2, EndsAre DEF EndsParts, Holds, Writable
  <2>4. WriterTrue'
    BY <2>1, <1>3 DEF WriterTrue, Writable
  <2>5. faults' \in 0..MaxFaults
    BY <1>7, FaultKeeps
  <2>6. QED
    BY <1>1, <1>2, <1>3, <2>1, <2>2, <2>3, <2>4, <2>5 DEF OpenUnfinished, Grows
<1>8. QED
  BY <1>5, <1>6, <1>7 DEF OpenJournal

\* The journal an open recorder writes to has its header and no end.
LEMMA WritableIs ==
    ASSUME RecorderOK, recorder.stage = "open", Writable(journal)
    PROVE  /\ ~journal.torn /\ ~journal.closed /\ ~journal.finalized
           /\ journal.exists /\ journal.frames \in Seq(Kinds) /\ journal.frames # <<>>
           /\ journal.kept = Len(journal.frames) /\ journal.synced <= journal.kept
           /\ EndsIn(journal.frames) /\ ~Finalized(journal.frames)
           /\ journal.complete <=> ~Has(journal.frames, "exhausted")
           /\ Has(journal.frames, "exhausted") \/ Held(journal.frames, recorder)
<1>1. ~journal.closed /\ ~journal.degraded /\ journal.exists
  BY DEF Writable
<1>2. journal \in Journals /\ journal.torn \in BOOLEAN /\ EndsParts
  BY EndsAre DEF RecorderOK, RecorderTypes, Journals
<1>3. QED
  BY <1>1, <1>2 DEF RecorderOK, EndsParts, Holds, WriterTrue, OpenUnfinished, Journals,
     Writable

\* A write to it, whatever its outcome: only a finalize frame follows the full journal's
\* marker, after the marker no fact is written, and what is declared finalized is synced.
LEMMA WriteKeeps ==
    ASSUME RecorderOK, recorder.stage = "open", Writable(journal),
           NEW kind \in Kinds, kind # "open", NEW how \in Outcomes, NEW synced,
           synced = journal.synced \/ (how = "written" /\ synced = Len(journal.frames) + 1),
           journal' \in Journals,
           journal'.exists = journal.exists,
           journal'.closed = journal.closed, journal'.synced = synced,
           Appended(how) => /\ journal'.frames = Append(journal.frames, kind)
                            /\ journal'.kept = Len(journal.frames) + 1
                            /\ journal'.torn = journal.torn,
           ~Appended(how) => journal'.frames = journal.frames /\ journal'.kept = journal.kept,
           how # "written" => journal'.degraded,
           how = "written" => (journal'.complete <=> journal.complete /\ kind # "exhausted"),
           kind = "finalize" \/ ~Has(journal.frames, "exhausted"),
           journal'.finalized => kind = "finalize" /\ how = "written"
                                   /\ synced = Len(journal.frames) + 1,
           kind = "finalize" => recorder'.stage \in {"built", "invalid"},
           kind # "finalize" => recorder'.stage = "open",
           kind # "exhausted" =>
             /\ recorder'.admitted = recorder.admitted + One(kind, Facts)
             /\ recorder'.counted = recorder.counted + One(kind, Records)
    PROVE  JournalEnds' /\ WriterTrue' /\ OpenUnfinished' /\ Grows
<1> DEFINE frames == journal.frames
           longer == Append(frames, kind)
<1>1. /\ ~journal.torn /\ ~journal.closed /\ ~journal.finalized
      /\ journal.exists /\ frames \in Seq(Kinds) /\ frames # <<>>
      /\ journal.kept = Len(frames) /\ journal.synced <= journal.kept
      /\ EndsIn(frames) /\ ~Finalized(frames)
      /\ journal.complete <=> ~Has(frames, "exhausted")
      /\ Has(frames, "exhausted") \/ Held(frames, recorder)
  BY WritableIs
<1>2. Len(frames) \in Nat /\ longer \in Seq(Kinds) /\ Len(longer) = Len(frames) + 1
      /\ longer # <<>> /\ journal.synced \in Nat
  BY <1>1 DEF RecorderOK, RecorderTypes, Journals
<1>3. /\ journal'.exists /\ ~journal'.closed
      /\ Appended(how) => /\ journal'.frames = longer /\ journal'.kept = Len(frames) + 1
                          /\ ~journal'.torn
      /\ ~Appended(how) => journal'.frames = frames /\ journal'.kept = Len(frames)
      /\ journal'.synced = synced
      /\ how # "written" => journal'.degraded
  BY <1>1
<1>4. CASE Appended(how)
  <2>1. EndsIn(longer)
    BY <1>1, AppendEnds
  <2>2. Has(longer, "exhausted") \/ Held(longer, recorder')
    <3>1. Has(longer, "exhausted") <=> Has(frames, "exhausted") \/ kind = "exhausted"
      BY <1>1, AppendHas
    <3>2. CASE ~Has(longer, "exhausted")
      <4>1. Held(frames, recorder) /\ kind # "exhausted"
        BY <1>1, <3>1, <3>2
      <4>2. Held(longer, recorder')
        BY <1>1, <4>1, HeldAppend
      <4>3. QED
        BY <4>2
    <3>3. QED
      BY <3>2
  <2>3. /\ Finalized(longer) <=> kind = "finalize"
        /\ Has(longer, "exhausted") <=> Has(frames, "exhausted") \/ kind = "exhausted"
    BY <1>1, AppendHas DEF Finalized
  <2>4. synced <= Len(frames) + 1
    BY <1>1, <1>2
  <2>5. /\ journal'.frames = longer /\ journal'.kept = Len(longer) /\ ~journal'.torn
        /\ Len(longer) = Len(frames) + 1 /\ longer # <<>>
    BY <1>2, <1>3, <1>4
  <2>6. Grows
    BY <2>5 DEF Grows
  <2> HIDE DEF longer
  <2>7. JournalEnds'
    <3>1. journal'.finalized => Finalized(longer)
      BY <2>3
    <3>2. EndsIn(journal'.frames) /\ Holds(journal', recorder')
      BY <2>1, <2>2, <2>5 DEF Holds
    <3>3. QED
      BY <2>5, <3>1, <3>2, EndsAre DEF EndsParts
  <2>8. WriterTrue'
    <3>1. journal'.synced <= journal'.kept /\ journal'.kept <= Len(journal'.frames)
      BY <1>2, <1>3, <2>4, <2>5
    <3>2. recorder'.stage \in {"open", "built", "invalid"}
      OBVIOUS
    <3>3. Writable(journal') => (journal'.complete <=> ~Has(longer, "exhausted"))
      BY <1>1, <1>3, <2>3 DEF Writable
    <3>4. journal'.finalized => journal'.synced = Len(longer)
      BY <1>3, <2>5
    <3>5. QED
      BY <1>3, <2>5, <3>1, <3>2, <3>3, <3>4 DEF WriterTrue
  <2>9. QED
    BY <2>3, <2>5, <2>6, <2>7, <2>8 DEF OpenUnfinished
<1>5. CASE ~Appended(how)
  <2>1. how # "written" /\ synced = journal.synced /\ ~journal'.finalized
    BY <1>5 DEF Appended
  <2>2. /\ journal'.frames = frames /\ journal'.kept = Len(frames)
        /\ journal'.degraded /\ ~Writable(journal')
    BY <1>3, <1>5, <2>1 DEF Writable
  <2>3. JournalEnds'
    BY <1>1, <2>1, <2>2, EndsAre DEF EndsParts, Holds
  <2>4. WriterTrue'
    BY <1>1, <1>2, <1>3, <2>1, <2>2 DEF WriterTrue
  <2>5. QED
    BY <1>1, <2>1, <2>2, <2>3, <2>4 DEF OpenUnfinished, Grows
<1>6. QED
  BY <1>4, <1>5

\* A step that leaves the journal as it is to its writer keeps what is said of it; what a
\* journal that is not written to, or is full, does not take needs no room in it.
LEMMA SameJournal ==
    ASSUME RecorderOK, journal' \in Journals,
           journal'.frames = journal.frames, journal'.kept = journal.kept,
           journal'.torn = journal.torn, journal'.exists = journal.exists,
           journal'.finalized = journal.finalized, journal'.closed = journal.closed,
           journal.degraded => journal'.degraded,
           journal'.complete = journal.complete \/ journal'.degraded,
           journal'.synced = journal.synced \/ journal'.synced = Len(journal.frames),
           recorder'.stage # "gone", recorder.stage # "gone", recorder'.stage # "new",
           journal.closed => recorder'.stage = "done",
           recorder'.stage \in {"new", "open"} => recorder.stage \in {"new", "open"},
           \/ recorder'.admitted = recorder.admitted /\ recorder'.counted = recorder.counted
           \/ recorder.stage = "open" /\ ~(Writable(journal) /\ journal.complete)
    PROVE  JournalEnds' /\ WriterTrue' /\ OpenUnfinished' /\ Grows
<1>1. /\ journal.frames \in Seq(Kinds) /\ journal.synced \in Nat /\ journal.kept \in Nat
      /\ Len(journal.frames) \in Nat
  BY DEF RecorderOK, RecorderTypes, Journals
<1>2. Writable(journal') => Writable(journal) /\ journal'.complete = journal.complete
  BY DEF Writable
<1>3. EndsParts /\ WriterTrue /\ OpenUnfinished
  BY EndsAre DEF RecorderOK
<1>4. Holds(journal', recorder')
  <2>1. CASE recorder'.admitted = recorder.admitted /\ recorder'.counted = recorder.counted
    BY <1>2, <1>3, <2>1 DEF EndsParts, Holds, Held
  <2>2. CASE recorder.stage = "open" /\ ~(Writable(journal) /\ journal.complete)
    <3>1. ~Finalized(journal.frames)
      BY <1>3, <2>2 DEF OpenUnfinished
    <3>2. Writable(journal) => Has(journal.frames, "exhausted")
      BY <1>3, <2>2 DEF WriterTrue
    <3>3. QED
      BY <1>2, <3>1, <3>2 DEF Holds
  <2>3. QED
    BY <2>1, <2>2
<1>5. JournalEnds'
  BY <1>3, <1>4, EndsAre DEF EndsParts
<1>6. WriterTrue'
  BY <1>1, <1>2, <1>3 DEF WriterTrue
<1>7. QED
  BY <1>3, <1>5, <1>6 DEF OpenUnfinished, Grows

\* The journal takes the fact, its marker, or nothing; the recorder admits it all the same.
LEMMA AdmitKeeps ==
    ASSUME RecorderOK, NEW fact \in Facts, Admit(fact)
    PROVE  RecorderOK' /\ Grows
<1>1. /\ recorder.stage = "open" /\ recorder.admitted < MaxFacts /\ process' = process
      /\ recorder' = [recorder EXCEPT !.admitted = @ + 1,
                                      !.counted = IF fact \in Records THEN @ + 1 ELSE @]
  BY DEF Admit
<1>2. /\ recorder' \in Recorders /\ recorder'.stage = "open"
      /\ recorder'.admitted = recorder.admitted + One(fact, Facts)
      /\ recorder'.counted = recorder.counted + One(fact, Records)
  <2>1. recorder \in Recorders /\ recorder.admitted \in Nat /\ recorder.counted \in Nat
        /\ MaxFacts \in Nat
    BY JournalAssumption DEF RecorderOK, RecorderTypes, Recorders
  <2>2. /\ recorder.admitted + 1 \in 0..MaxFacts /\ One(fact, Facts) = 1
        /\ recorder.counted + One(fact, Records) \in Nat
    BY <1>1, <2>1 DEF One
  <2>3. (IF fact \in Records THEN recorder.counted + 1 ELSE recorder.counted)
          = recorder.counted + One(fact, Records)
    BY <2>1 DEF One
  <2>4. recorder' = [recorder EXCEPT !.admitted = recorder.admitted + One(fact, Facts),
                                     !.counted = recorder.counted + One(fact, Records)]
    BY <1>1, <2>2, <2>3
  <2>5. QED
    BY <1>1, <2>1, <2>2, <2>4 DEF Recorders
<1>3. journal \in Journals
  BY DEF RecorderOK, RecorderTypes
<1>4. CASE ~(Writable(journal) /\ journal.complete) /\ UNCHANGED <<journal, faults>>
  <2>1. recorder.stage # "new" /\ recorder'.stage # "new"
    BY <1>1, <1>2
  <2>2. ~journal.closed
    BY <1>1 DEF RecorderOK, WriterTrue
  <2>3. JournalEnds' /\ WriterTrue' /\ OpenUnfinished' /\ Grows
    BY <1>1, <1>2, <1>3, <1>4, <2>1, <2>2, SameJournal
  <2>4. QED
    BY <1>1, <1>2, <1>3, <1>4, <2>3 DEF RecorderOK, RecorderTypes
<1>5. CASE Writable(journal) /\ journal.complete
  <2>1. ~Has(journal.frames, "exhausted") /\ Len(journal.frames) \in Nat
    BY <1>1, <1>5, WritableIs
  <2>2. CASE \E how \in Outcomes : Writes(how, TRUE) /\ journal' = Exhaust(journal, how)
    <3> DEFINE before == [journal EXCEPT !.complete = FALSE]
    <3>1. PICK how \in Outcomes :
            Writes(how, TRUE) /\ journal' = Put(before, "exhausted", how, TRUE)
      BY <2>2 DEF Exhaust
    <3> DEFINE synced == IF how = "written" THEN Len(journal.frames) + 1 ELSE journal.synced
    <3>2. before \in Journals /\ before.frames = journal.frames /\ before.kept = journal.kept
          /\ before.torn = journal.torn /\ before.exists = journal.exists
          /\ before.synced = journal.synced /\ before.degraded = journal.degraded
          /\ before.finalized = journal.finalized /\ before.closed = journal.closed
          /\ ~before.complete
      BY <1>3 DEF Journals
    <3> HIDE DEF before
    <3>3. "exhausted" \in Kinds /\ "exhausted" # "open" /\ "exhausted" # "finalize"
      BY DEF Kinds
    <3>4. Wrote(journal', before, "exhausted", how, synced)
      <4>1. Wrote(Put(before, "exhausted", how, TRUE), before, "exhausted", how,
                  IF how = "written" THEN Len(before.frames) + 1 ELSE before.synced)
        BY <3>2, <3>3, PutDoes
      <4>2. QED
        BY <3>1, <3>2, <4>1
    <3>5. synced = journal.synced \/ (how = "written" /\ synced = Len(journal.frames) + 1)
      OBVIOUS
    <3> HIDE DEF synced
    <3>6. ~journal'.finalized /\ journal' \in Journals
      <4>1. ~journal.finalized
        BY <1>1, <1>5, WritableIs
      <4>2. QED
        BY <3>2, <3>4, <4>1 DEF Wrote
    <3>7. /\ journal'.exists = journal.exists
          /\ journal'.closed = journal.closed /\ journal'.synced = synced
          /\ Appended(how) => /\ journal'.frames = Append(journal.frames, "exhausted")
                              /\ journal'.kept = Len(journal.frames) + 1
                              /\ journal'.torn = journal.torn
          /\ ~Appended(how) => journal'.frames = journal.frames /\ journal'.kept = journal.kept
          /\ how # "written" => journal'.degraded
          /\ how = "written" => ~journal'.complete
      BY <3>2, <3>4 DEF Wrote
    <3>8. JournalEnds' /\ WriterTrue' /\ OpenUnfinished' /\ Grows
      BY <1>1, <1>2, <1>5, <2>1, <3>3, <3>5, <3>6, <3>7, WriteKeeps
    <3>9. faults' \in 0..MaxFaults
      BY <3>1, FaultKeeps DEF Writes, RecorderOK, RecorderTypes
    <3>10. QED
      BY <1>1, <1>2, <3>6, <3>8, <3>9 DEF RecorderOK, RecorderTypes
  <2>3. CASE \E how \in Outcomes : Writes(how, FALSE) /\ journal' = Put(journal, fact, how, FALSE)
    <3>1. PICK how \in Outcomes : Writes(how, FALSE) /\ journal' = Put(journal, fact, how, FALSE)
      BY <2>3
    <3>2. fact \in Kinds /\ fact # "open" /\ fact # "exhausted" /\ fact # "finalize"
      BY DEF Kinds, Facts
    <3>3. Wrote(journal', journal, fact, how, journal.synced)
      BY <1>3, <3>1, <3>2, PutDoes
    <3>4. /\ ~journal'.finalized /\ journal' \in Journals
          /\ journal'.exists = journal.exists
          /\ journal'.closed = journal.closed /\ journal'.synced = journal.synced
          /\ Appended(how) => /\ journal'.frames = Append(journal.frames, fact)
                              /\ journal'.kept = Len(journal.frames) + 1
                              /\ journal'.torn = journal.torn
          /\ ~Appended(how) => journal'.frames = journal.frames /\ journal'.kept = journal.kept
          /\ how # "written" => journal'.degraded
          /\ how = "written" => journal'.complete = journal.complete
      <4>1. ~journal.finalized
        BY <1>1, <1>5, WritableIs
      <4>2. QED
        BY <3>3, <4>1 DEF Wrote
    <3>5. how = "written" => (journal'.complete <=> journal.complete /\ fact # "exhausted")
      BY <3>2, <3>4
    <3>6. JournalEnds' /\ WriterTrue' /\ OpenUnfinished' /\ Grows
      BY <1>1, <1>2, <1>5, <2>1, <3>2, <3>4, <3>5, WriteKeeps
    <3>7. faults' \in 0..MaxFaults
      BY <3>1, FaultKeeps DEF Writes, RecorderOK, RecorderTypes
    <3>8. QED
      BY <1>1, <1>2, <3>4, <3>6, <3>7 DEF RecorderOK, RecorderTypes
  <2>4. QED
    BY <1>1, <1>5, <2>2, <2>3 DEF Admit
<1>6. QED
  BY <1>4, <1>5 DEF Admit

\* The close: declared finalized if and only if the frame was written and synced.
LEMMA CloseKeeps ==
    ASSUME RecorderOK, Close
    PROVE  RecorderOK' /\ Grows
<1>1. /\ recorder.stage = "open" /\ process' = process
      /\ \/ recorder' = [recorder EXCEPT !.stage = "built"]
         \/ recorder' = [recorder EXCEPT !.stage = "invalid"]
  BY DEF Close
<1>2. /\ recorder' \in Recorders
      /\ recorder'.stage \in {"built", "invalid"}
      /\ recorder'.admitted = recorder.admitted /\ recorder'.counted = recorder.counted
      /\ recorder.admitted \in Int /\ recorder.counted \in Int
  BY <1>1, JournalAssumption DEF RecorderOK, RecorderTypes, Recorders, Stages
<1>3. journal \in Journals
  BY DEF RecorderOK, RecorderTypes
<1>4. CASE UNCHANGED <<journal, faults>>
  <2>1. recorder'.stage \notin {"new", "open", "gone"} /\ recorder.stage # "gone"
    BY <1>1, <1>2
  <2>2. ~journal.closed
    BY <1>1 DEF RecorderOK, WriterTrue
  <2>3. JournalEnds' /\ WriterTrue' /\ OpenUnfinished' /\ Grows
    BY <1>1, <1>2, <1>3, <1>4, <2>1, <2>2, SameJournal
  <2>4. QED
    BY <1>1, <1>2, <1>3, <1>4, <2>3 DEF RecorderOK, RecorderTypes
<1>5. CASE Writable(journal)
           /\ \E how \in Outcomes : Writes(how, TRUE) /\ journal' = Finalize(journal, how)
  <2> DEFINE put(how) == Put(journal, "finalize", how, TRUE)
             synced(how) == IF how = "written" THEN Len(journal.frames) + 1 ELSE journal.synced
  <2>1. PICK how \in Outcomes :
          Writes(how, TRUE) /\ journal' = [put(how) EXCEPT !.finalized = (how = "written")]
    BY <1>5 DEF Finalize
  <2>2. "finalize" \in Kinds /\ "finalize" # "open" /\ "finalize" # "exhausted"
        /\ One("finalize", Facts) = 0 /\ One("finalize", Records) = 0
    BY DEF Kinds, Facts, Records, One
  <2>3. Wrote(put(how), journal, "finalize", how, synced(how))
    BY <1>3, <2>2, PutDoes
  <2>4. synced(how) = journal.synced \/ (how = "written" /\ synced(how) = Len(journal.frames) + 1)
    OBVIOUS
  <2>5. how = "written" => synced(how) = Len(journal.frames) + 1
    OBVIOUS
  <2> HIDE DEF put, synced
  <2>6. (how = "written") \in BOOLEAN /\ put(how) \in Journals
    BY <2>3 DEF Wrote
  <2>7. /\ journal' \in Journals /\ journal'.finalized = (how = "written")
        /\ journal'.frames = put(how).frames /\ journal'.kept = put(how).kept
        /\ journal'.torn = put(how).torn /\ journal'.exists = put(how).exists
        /\ journal'.closed = put(how).closed
        /\ journal'.synced = put(how).synced /\ journal'.degraded = put(how).degraded
        /\ journal'.complete = put(how).complete
    BY <2>1, <2>6 DEF Journals
  <2>8. /\ journal'.exists = journal.exists
        /\ journal'.closed = journal.closed /\ journal'.synced = synced(how)
        /\ Appended(how) => /\ journal'.frames = Append(journal.frames, "finalize")
                            /\ journal'.kept = Len(journal.frames) + 1
                            /\ journal'.torn = journal.torn
        /\ ~Appended(how) => journal'.frames = journal.frames /\ journal'.kept = journal.kept
        /\ how # "written" => journal'.degraded
        /\ how = "written" => journal'.complete = journal.complete
    BY <2>3, <2>7 DEF Wrote
  <2>9. journal'.finalized => how = "written" /\ synced(how) = Len(journal.frames) + 1
    BY <2>5, <2>7
  <2>10. /\ recorder'.admitted = recorder.admitted + One("finalize", Facts)
         /\ recorder'.counted = recorder.counted + One("finalize", Records)
    BY <1>2, <2>2
  <2>11. how = "written" => (journal'.complete <=> journal.complete /\ "finalize" # "exhausted")
    BY <2>8
  <2>12. JournalEnds' /\ WriterTrue' /\ OpenUnfinished' /\ Grows
    BY <1>1, <1>2, <1>5, <2>2, <2>4, <2>7, <2>8, <2>9, <2>10, <2>11, WriteKeeps
  <2>13. faults' \in 0..MaxFaults
    BY <2>1, FaultKeeps DEF Writes, RecorderOK, RecorderTypes
  <2>14. QED
    BY <1>1, <1>2, <2>7, <2>12, <2>13 DEF RecorderOK, RecorderTypes
<1>6. QED
  BY <1>4, <1>5 DEF Close

\* A periodic sync reaches the end of the file, or the journal degrades.
LEMMA SyncJournalKeeps ==
    ASSUME RecorderOK, SyncJournal
    PROVE  RecorderOK' /\ Grows
<1>1. /\ process' = process /\ recorder' = recorder /\ journal.exists /\ ~journal.closed
      /\ \/ Fine /\ journal' = [journal EXCEPT !.synced = Len(journal.frames)]
         \/ Fault /\ journal' = [journal EXCEPT !.degraded = TRUE, !.complete = FALSE]
  BY DEF SyncJournal
<1>2. journal \in Journals /\ Len(journal.frames) \in Nat
  BY DEF RecorderOK, RecorderTypes, Journals
<1>3. recorder.stage # "gone" /\ recorder.stage # "new"
  BY <1>1 DEF RecorderOK, WriterTrue, NoJournal
<1>4. /\ journal' \in Journals
      /\ journal'.frames = journal.frames /\ journal'.kept = journal.kept
      /\ journal'.torn = journal.torn /\ journal'.exists = journal.exists
      /\ journal'.exists = journal.exists /\ journal'.finalized = journal.finalized
      /\ journal'.closed = journal.closed /\ (journal.degraded => journal'.degraded)
      /\ (journal'.complete = journal.complete \/ journal'.degraded)
      /\ (journal'.synced = journal.synced \/ journal'.synced = Len(journal.frames))
  <2>1. CASE journal' = [journal EXCEPT !.synced = Len(journal.frames)]
    BY <1>2, <2>1 DEF Journals
  <2>2. CASE journal' = [journal EXCEPT !.degraded = TRUE, !.complete = FALSE]
    BY <1>2, <2>2 DEF Journals
  <2>3. QED
    BY <1>1, <2>1, <2>2
<1>5. JournalEnds' /\ WriterTrue' /\ OpenUnfinished' /\ Grows
  BY <1>1, <1>2, <1>3, <1>4, SameJournal
<1>6. faults' \in 0..MaxFaults
  BY <1>1, FaultKeeps DEF RecorderOK, RecorderTypes
<1>7. QED
  BY <1>1, <1>4, <1>5, <1>6 DEF RecorderOK, RecorderTypes

\* The answer of the exporter, and what leads to it, change the recorder alone.
LEMMA AnswerKeeps ==
    ASSUME RecorderOK, NEW stage \in {"spooling", "submitted"},
           NEW value \in Answers,
           recorder.stage \in {"built", "spooling"},
           recorder' = [recorder EXCEPT !.stage = stage, !.accepted = value],
           UNCHANGED <<process, journal>>, faults' \in 0..MaxFaults
    PROVE  RecorderOK' /\ Grows
<1>1. /\ recorder' \in Recorders
      /\ recorder'.stage \in {"spooling", "submitted"} /\ journal \in Journals
      /\ recorder'.admitted = recorder.admitted /\ recorder'.counted = recorder.counted
  <2>1. stage \in Stages
    BY DEF Stages
  <2>2. recorder \in Recorders /\ journal \in Journals
    BY DEF RecorderOK, RecorderTypes
  <2>3. /\ recorder'.stage = stage /\ recorder' \in Recorders
        /\ recorder'.admitted = recorder.admitted /\ recorder'.counted = recorder.counted
    BY <2>1, <2>2 DEF Recorders
  <2>4. QED
    BY <2>2, <2>3
<1>2. ~journal.closed
  BY DEF RecorderOK, WriterTrue
<1>3. JournalEnds' /\ WriterTrue' /\ OpenUnfinished' /\ Grows
  BY <1>1, <1>2, SameJournal
<1>4. QED
  BY <1>1, <1>3 DEF RecorderOK, RecorderTypes

\* A release closes the journal, whole.
LEMMA ReleasedKeeps ==
    ASSUME RecorderOK, NEW delivered, recorder.stage \in {"invalid", "submitted"},
           recorder' = [recorder EXCEPT !.stage = "done"],
           journal' = Released(delivered) \/ journal' = LeftBehind,
           UNCHANGED process, Fault \/ Fine
    PROVE  RecorderOK' /\ Grows
<1>1. /\ recorder' \in Recorders /\ recorder'.stage = "done"
      /\ recorder'.admitted = recorder.admitted /\ recorder'.counted = recorder.counted
      /\ journal \in Journals /\ Len(journal.frames) \in Nat /\ faults' \in 0..MaxFaults
  BY FaultKeeps DEF RecorderOK, RecorderTypes, Recorders, Stages, Journals
<1>2. /\ journal' \in Journals /\ journal'.closed
      /\ journal'.frames = journal.frames /\ journal'.kept = journal.kept
      /\ journal'.torn = journal.torn /\ journal'.finalized = journal.finalized
      /\ (journal'.synced = journal.synced \/ journal'.synced = Len(journal.frames))
  <2>1. CASE journal' = Released(delivered) /\ journal.exists /\ journal.finalized /\ delivered
    BY <1>1, <2>1 DEF Released, Journals
  <2>2. CASE /\ journal' = Released(delivered)
             /\ ~(journal.exists /\ journal.finalized /\ delivered)
    BY <1>1, <2>2 DEF Released, Journals
  <2>3. CASE journal' = LeftBehind
    BY <1>1, <2>3 DEF LeftBehind, Journals
  <2>4. QED
    BY <2>1, <2>2, <2>3
<1>3. JournalEnds'
  BY <1>1, <1>2, EndsAre DEF RecorderOK, EndsParts, Holds, Held, Writable
<1>4. WriterTrue'
  BY <1>1, <1>2 DEF RecorderOK, WriterTrue, Writable, Journals
<1>5. QED
  BY <1>1, <1>2, <1>3, <1>4 DEF RecorderOK, RecorderTypes, OpenUnfinished, Grows

\* The directory's fsync changes nothing but what a host failure may undo.
LEMMA SyncRemovalKeeps ==
    ASSUME RecorderOK, SyncRemoval
    PROVE  RecorderOK' /\ Grows
<1>1. /\ UNCHANGED <<process, recorder, faults>> /\ journal.ghost
      /\ journal' = [journal EXCEPT !.ghost = FALSE] /\ journal \in Journals
  BY DEF SyncRemoval, RecorderOK, RecorderTypes
<1>2. /\ journal' \in Journals
      /\ journal'.frames = journal.frames /\ journal'.kept = journal.kept
      /\ journal'.torn = journal.torn /\ journal'.exists = journal.exists
      /\ journal'.finalized = journal.finalized
      /\ journal'.closed = journal.closed /\ journal'.degraded = journal.degraded
      /\ journal'.complete = journal.complete /\ journal'.synced = journal.synced
  BY <1>1 DEF Journals
<1>3. recorder.stage # "new"
  BY <1>1 DEF RecorderOK, WriterTrue, NoJournal
<1>4. JournalEnds'
  BY <1>1, <1>2, EndsAre DEF RecorderOK, EndsParts, Holds, Held, Writable
<1>5. WriterTrue'
  BY <1>1, <1>2, <1>3 DEF RecorderOK, WriterTrue, Writable
<1>6. QED
  BY <1>1, <1>2, <1>4, <1>5 DEF RecorderOK, RecorderTypes, OpenUnfinished, Grows

\* What a crash of either kind leaves of the journal.
LEMMA CrashKeeps ==
    ASSUME RecorderOK, recorder' = GoneRecorder, process' = "down", faults' \in 0..MaxFaults,
           journal' \in Journals, journal'.closed, journal'.frames = journal.frames,
           journal'.finalized = journal.finalized,
           journal'.synced <= journal'.kept, journal'.kept <= journal.kept,
           journal.synced <= journal'.synced,
           journal'.torn => journal.torn \/ journal'.kept < journal.kept
    PROVE  RecorderOK' /\ Grows
<1>1. /\ recorder' \in Recorders /\ recorder'.stage = "gone"
      /\ recorder'.admitted = recorder.admitted /\ recorder'.counted = recorder.counted
      /\ journal \in Journals /\ Len(journal.frames) \in Nat
  BY DEF RecorderOK, RecorderTypes, Recorders, GoneRecorder, Stages, Journals
<1>2. journal.kept \in Nat /\ journal.synced \in Nat /\ journal'.kept \in Nat
      /\ journal'.synced \in Nat
  BY <1>1 DEF Journals
<1>3. JournalEnds'
  <2>1. EndsParts /\ WriterTrue
    BY EndsAre DEF RecorderOK
  <2>2. journal.finalized => journal'.kept = journal.kept /\ ~journal.torn
    BY <1>1, <1>2, <2>1 DEF WriterTrue, EndsParts
  <2>3. journal'.finalized => ~journal'.torn
    BY <2>2, <1>2
  <2>4. QED
    BY <1>1, <2>1, <2>3, EndsAre DEF EndsParts, Holds, Held, Writable
<1>4. WriterTrue'
  BY <1>1, <1>2 DEF RecorderOK, WriterTrue, Writable
<1>5. QED
  BY <1>1, <1>3, <1>4 DEF RecorderOK, RecorderTypes, OpenUnfinished, Grows

\* A process crash leaves the file; what was finalized and there stays there.
LEMMA ProcessCrashKeeps ==
    ASSUME RecorderOK, ProcessCrash
    PROVE  /\ RecorderOK' /\ Grows
           /\ journal'.exists = journal.exists /\ journal'.finalized = journal.finalized
           /\ journal'.named = journal.named
<1>1. /\ recorder' = GoneRecorder /\ process' = "down" /\ journal' = AfterCrash
      /\ faults' \in 0..MaxFaults
  BY FaultKeeps DEF ProcessCrash, Dead, RecorderOK, RecorderTypes
<1>2. journal \in Journals
  BY DEF RecorderOK, RecorderTypes
<1>3. /\ journal' \in Journals /\ journal'.closed /\ journal'.frames = journal.frames
      /\ journal'.finalized = journal.finalized /\ journal'.named = journal.named
      /\ journal'.synced = journal.synced /\ journal'.kept = journal.kept
      /\ journal'.torn = journal.torn /\ journal'.exists = journal.exists
      /\ journal.kept \in Nat /\ journal.synced \in Nat
  BY <1>1, <1>2 DEF AfterCrash, Journals
<1>4. journal.synced <= journal.kept
  BY DEF RecorderOK, WriterTrue
<1>5. RecorderOK' /\ Grows
  BY <1>1, <1>3, <1>4, CrashKeeps
<1>6. QED
  BY <1>3, <1>5

\* A host failure cuts the file no shorter than what was synced, and loses no name that
\* was; it makes none of a file that is lost.
LEMMA HostFailureKeeps ==
    ASSUME RecorderOK, HostFailure
    PROVE  /\ RecorderOK' /\ Grows
           /\ journal'.finalized = journal.finalized
           /\ journal'.named /\ ~journal'.exists => journal.named /\ ~journal.exists
<1> DEFINE upTo(n) == [AfterCrash EXCEPT !.kept = n, !.torn = @ \/ n < journal.kept,
                                         !.synced = n, !.named = TRUE, !.ghost = FALSE]
           found == {upTo(n) : n \in {m \in 0..journal.kept : m >= journal.synced}}
           gone == [AfterCrash EXCEPT !.exists = FALSE, !.ghost = FALSE]
<1>1. /\ recorder' = GoneRecorder /\ process' = "down" /\ journal' \in AfterHostFailure
      /\ faults' \in 0..MaxFaults
  BY FaultKeeps DEF HostFailure, Dead, RecorderOK, RecorderTypes
<1>2. /\ journal \in Journals /\ journal.kept \in Nat /\ journal.synced \in Nat
      /\ journal.torn \in BOOLEAN /\ journal.synced <= journal.kept
  BY DEF RecorderOK, RecorderTypes, WriterTrue, Journals
<1>3. /\ journal.exists => journal' \in found \/ (~journal.named /\ journal' = gone)
      /\ ~journal.exists => \/ journal' = gone
                            \/ \E j \in found : journal' = [j EXCEPT !.exists = TRUE]
  BY <1>1 DEF AfterHostFailure
<1>4. ASSUME NEW n \in 0..journal.kept, n >= journal.synced
      PROVE  /\ upTo(n) \in Journals /\ upTo(n).closed /\ upTo(n).frames = journal.frames
             /\ upTo(n).finalized = journal.finalized
             /\ upTo(n).synced = n /\ upTo(n).kept = n /\ upTo(n).exists = journal.exists
             /\ upTo(n).torn <=> journal.torn \/ n < journal.kept
  <2> DEFINE cut == journal.torn \/ n < journal.kept
  <2>1. cut \in BOOLEAN /\ n \in Nat
    BY <1>2
  <2>2. AfterCrash \in Journals /\ AfterCrash.torn = journal.torn /\ AfterCrash.closed
        /\ AfterCrash.frames = journal.frames
        /\ AfterCrash.finalized = journal.finalized /\ AfterCrash.exists = journal.exists
    BY <1>2 DEF AfterCrash, Journals
  <2>3. upTo(n) = [AfterCrash EXCEPT !.kept = n, !.torn = cut, !.synced = n,
                                  !.named = TRUE, !.ghost = FALSE]
    BY <2>2
  <2> HIDE DEF cut, upTo
  <2>4. /\ upTo(n) \in Journals /\ upTo(n).closed /\ upTo(n).frames = journal.frames
        /\ upTo(n).finalized = journal.finalized
        /\ upTo(n).synced = n /\ upTo(n).kept = n /\ upTo(n).exists = journal.exists
        /\ upTo(n).torn = cut
    BY <2>1, <2>2, <2>3 DEF Journals
  <2>5. QED
    BY <2>4 DEF cut
<1>5. /\ gone \in Journals /\ gone.closed /\ gone.frames = journal.frames
      /\ gone.finalized = journal.finalized /\ gone.named = journal.named
      /\ gone.synced = journal.synced /\ gone.kept = journal.kept /\ gone.torn = journal.torn
  BY <1>2 DEF AfterCrash, Journals
<1> HIDE DEF upTo, gone
<1>6. ASSUME \E n \in 0..journal.kept : n >= journal.synced /\
               (journal' = upTo(n) \/ journal' = [upTo(n) EXCEPT !.exists = TRUE])
      PROVE  RecorderOK' /\ Grows
  <2>1. PICK n \in 0..journal.kept : n >= journal.synced /\
             (journal' = upTo(n) \/ journal' = [upTo(n) EXCEPT !.exists = TRUE])
    BY <1>6
  <2>2. /\ upTo(n) \in Journals /\ upTo(n).closed /\ upTo(n).frames = journal.frames
        /\ upTo(n).finalized = journal.finalized
        /\ upTo(n).synced = n /\ upTo(n).kept = n
        /\ upTo(n).torn <=> journal.torn \/ n < journal.kept
    BY <1>4, <2>1
  <2>3. /\ journal' \in Journals /\ journal'.closed /\ journal'.frames = journal.frames
        /\ journal'.finalized = journal.finalized
        /\ journal'.synced = n /\ journal'.kept = n
        /\ journal'.torn <=> journal.torn \/ n < journal.kept
    BY <2>1, <2>2 DEF Journals
  <2>4. /\ journal'.synced <= journal'.kept /\ journal'.kept <= journal.kept
        /\ journal.synced <= journal'.synced
    BY <2>1, <2>3, <1>2
  <2>5. journal'.torn => journal.torn \/ journal'.kept < journal.kept
    BY <2>3
  <2>6. QED
    BY <1>1, <2>3, <2>4, <2>5, CrashKeeps
<1>7. ASSUME journal' = gone
      PROVE  RecorderOK' /\ Grows
  <2>1. /\ journal' \in Journals /\ journal'.closed /\ journal'.frames = journal.frames
        /\ journal'.finalized = journal.finalized
        /\ journal'.kept = journal.kept /\ journal'.torn = journal.torn
        /\ journal'.synced = journal.synced
    BY <1>5, <1>7
  <2>2. /\ journal'.synced <= journal'.kept /\ journal'.kept <= journal.kept
        /\ journal.synced <= journal'.synced
    BY <2>1, <1>2
  <2>3. journal'.torn => journal.torn \/ journal'.kept < journal.kept
    BY <2>1, <1>2
  <2>4. QED
    BY <1>1, <2>1, <2>2, <2>3, CrashKeeps
<1>8. RecorderOK' /\ Grows
  BY <1>3, <1>6, <1>7
<1>9. journal'.finalized = journal.finalized
  <2>1. CASE journal' = gone
    BY <1>5, <2>1
  <2>2. CASE journal' # gone
    <3>1. PICK n \in 0..journal.kept : n >= journal.synced /\
               (journal' = upTo(n) \/ journal' = [upTo(n) EXCEPT !.exists = TRUE])
      BY <1>3, <2>2
    <3>2. QED
      BY <1>4, <3>1 DEF Journals
  <2>3. QED
    BY <2>1, <2>2
<1>10. journal'.named /\ ~journal'.exists => journal.named /\ ~journal.exists
  <2>1. SUFFICES ASSUME journal'.named, ~journal'.exists
                 PROVE  journal.named /\ ~journal.exists
    OBVIOUS
  <2>2. CASE journal.exists
    <3>1. ASSUME NEW n \in 0..journal.kept, n >= journal.synced, journal' = upTo(n)
          PROVE  FALSE
      BY <1>4, <2>1, <2>2, <3>1
    <3>2. CASE ~journal.named /\ journal' = gone
      BY <1>5, <2>1, <3>2
    <3>3. QED
      BY <1>3, <2>2, <3>1, <3>2
  <2>3. CASE ~journal.exists
    <3>1. ASSUME NEW n \in 0..journal.kept, n >= journal.synced,
                 journal' = [upTo(n) EXCEPT !.exists = TRUE]
          PROVE  FALSE
      BY <1>4, <2>1, <3>1 DEF Journals
    <3>2. CASE journal' = gone
      BY <1>5, <2>1, <2>3, <3>2
    <3>3. QED
      BY <1>3, <2>3, <3>1, <3>2
  <2>4. QED
    BY <2>2, <2>3
<1>11. QED
  BY <1>8, <1>9, <1>10

\* Every step of the system, from what it does to the recorder and the journal.
LEMMA RecorderKeeps ==
    ASSUME RecorderOK, Next
    PROVE  RecorderOK' /\ Grows
<1>1. CASE RecorderStep
  <2>1. ASSUME ReleaseInvalid \/ Release
        PROVE  RecorderOK' /\ Grows
    <3>1. CASE ReleaseInvalid
      <4>1. /\ recorder.stage = "invalid" /\ recorder' = [recorder EXCEPT !.stage = "done"]
            /\ UNCHANGED process /\ (Fault \/ Fine)
        BY <3>1 DEF ReleaseInvalid
      <4>2. PICK delivered : journal' = Released(delivered) \/ journal' = LeftBehind
        BY <3>1, Zenon DEF ReleaseInvalid
      <4>3. QED
        BY <4>1, <4>2, ReleasedKeeps
    <3>2. CASE Release
      <4>1. /\ recorder.stage = "submitted" /\ recorder' = [recorder EXCEPT !.stage = "done"]
            /\ journal' = Released(recorder.accepted # "no") \/ journal' = LeftBehind
            /\ UNCHANGED process /\ (Fault \/ Fine)
        BY <3>2 DEF Release
      <4>2. QED
        BY <4>1, ReleasedKeeps
    <3>3. QED
      BY <2>1, <3>1, <3>2
  <2>2. QED
    BY <1>1, <2>1, OpenJournalKeeps, AdmitKeeps, SyncJournalKeeps, CloseKeeps,
       SyncRemovalKeeps DEF RecorderStep
<1>2. ASSUME UNCHANGED <<recorder, journal>>, process' \in {"up", "down"}, Fault \/ Fine
      PROVE  RecorderOK' /\ Grows
  <2>1. faults' \in 0..MaxFaults
    BY <1>2, FaultKeeps DEF RecorderOK, RecorderTypes
  <2>2. JournalEnds' /\ WriterTrue' /\ OpenUnfinished' /\ Grows
    BY <1>2, EndsAre DEF RecorderOK, EndsParts, Holds, WriterTrue, OpenUnfinished, Grows
  <2>3. QED
    BY <1>2, <2>1, <2>2 DEF RecorderOK, RecorderTypes
<1>3. CASE ExportStep
  <2>1. recorder.accepted \in Answers /\ process \in {"up", "down"} /\ faults \in 0..MaxFaults
    BY DEF RecorderOK, RecorderTypes, Recorders
  <2>2. ASSUME SubmitRefused \/ SubmitAsync \/ SpoolTemporary \/ SpoolCommit
        PROVE  RecorderOK' /\ Grows
    <3>1. /\ recorder.stage \in {"built", "spooling"} /\ UNCHANGED <<process, journal>>
          /\ Fault \/ Fine
          /\ \E stage \in {"spooling", "submitted"}, value \in Answers :
               recorder' = [recorder EXCEPT !.stage = stage, !.accepted = value]
      <4>1. CASE SubmitRefused \/ SubmitAsync
        BY <4>1 DEF SubmitRefused, SubmitAsync, Answered, Answers, Fine
      <4>2. CASE SpoolTemporary
        <5>1. recorder' = [recorder EXCEPT !.stage = "spooling", !.accepted = recorder.accepted]
          BY <4>2 DEF SpoolTemporary, RecorderOK, RecorderTypes, Recorders
        <5>2. QED
          BY <2>1, <4>2, <5>1 DEF SpoolTemporary, Fine
      <4>3. CASE SpoolCommit
        BY <4>3 DEF SpoolCommit, Answered, Answers
      <4>4. QED
        BY <2>2, <4>1, <4>2, <4>3
    <3>2. faults' \in 0..MaxFaults
      BY <2>1, <3>1, FaultKeeps
    <3>3. QED
      BY <3>1, <3>2, AnswerKeeps
  <2>3. ASSUME \/ SendIngested \/ SendFails \/ SendSettled \/ SendUnanswered
               \/ Recover \/ Restart
        PROVE  UNCHANGED <<recorder, journal>> /\ process' \in {"up", "down"}
                 /\ (Fault \/ Fine)
    BY <2>1, <2>3 DEF SendIngested, SendFails, SendSettled, SendUnanswered, Recover, Restart,
       journalVars, Fine
  <2>4. QED
    BY <1>2, <1>3, <2>2, <2>3 DEF ExportStep
<1>4. CASE UploadStep
  <2>1. process \in {"up", "down"}
    BY DEF RecorderOK, RecorderTypes
  <2>2. ASSUME NEW f \in Flushers,
               Flush(f) \/ PostFails(f) \/ Served(f) \/ Refusal(f) \/ Acknowledged(f)
        PROVE  UNCHANGED <<recorder, journal, process>> /\ (Fault \/ Fine)
    BY <2>2 DEF Flush, MayFlush, PostFails, Served, Refusal, Acknowledged, journalVars,
       Fine
  <2>3. ASSUME StartUploader \/ CloseUploader \/ ForgetSession \/ DropSuperseded \/ Seal
        PROVE  UNCHANGED <<recorder, journal, process>> /\ (Fault \/ Fine)
    BY <2>3 DEF StartUploader, CloseUploader, ForgetSession, DropSuperseded, Seal,
       journalVars, Fine
  <2>4. QED
    BY <1>2, <1>4, <2>1, <2>2, <2>3, ProcessCrashKeeps, HostFailureKeeps DEF UploadStep
<1>5. QED
  BY <1>1, <1>3, <1>4 DEF Next

-----------------------------------------------------------------------------
(* The live session                                                        *)

Uploaders ==
    [state : {"off", "ready", "closed", "degraded", "undeliverable_frame"},
     offset : Nat, closing : BOOLEAN]

Flushes ==
    [stage : {"idle", "posted", "accepted", "gap", "lost_session"},
     from : Nat, to : Nat]

FlushWithin(b) ==
    /\ b \in Flushes /\ b.from <= acked /\ b.to <= Len(journal.frames)
    /\ b.stage = "accepted" => b.to <= acked

StreamOK ==
    /\ uploader \in Uploaders /\ flusher \in [Flushers -> Flushes]
    /\ session \in Seq(Kinds) /\ marker \in Nat /\ acked \in Nat
    /\ StreamTrue

\* What the journal gains is no concern of the stream, which may start over or stop.
LEMMA StreamKeeps ==
    ASSUME StreamOK, journal.frames \in Seq(Kinds), Grows,
           session' \in {session, <<>>}, acked' = acked,
           marker' \in Nat, marker' <= acked,
           uploader' \in Uploaders, uploader'.offset <= acked,
           flusher' \in [Flushers -> Flushes], \A f \in Flushers : FlushWithin(flusher'[f])
    PROVE  StreamOK'
<1>1. /\ session = SubSeq(journal.frames, 1, Len(session)) /\ Len(session) <= Len(journal.frames)
      /\ acked \in Nat /\ acked <= Len(journal.frames) /\ session \in Seq(Kinds)
      /\ Len(session) \in Nat /\ Len(journal.frames) \in Nat
  BY DEF StreamOK, StreamTrue
<1>2. Len(session) \in 0..Len(journal.frames)
  BY <1>1
<1>3. /\ journal'.frames \in Seq(Kinds) /\ Len(journal.frames) <= Len(journal'.frames)
      /\ Len(journal'.frames) \in Nat
      /\ session = SubSeq(journal'.frames, 1, Len(session))
  <2>1. CASE journal'.frames = journal.frames
    BY <1>1, <2>1
  <2>2. CASE \E kind \in Kinds : journal'.frames = Append(journal.frames, kind)
    <3>1. PICK kind \in Kinds : journal'.frames = Append(journal.frames, kind)
      BY <2>2
    <3>2. SubSeq(journal'.frames, 1, Len(session)) = SubSeq(journal.frames, 1, Len(session))
      BY <1>2, <3>1, PrefixOfAppend
    <3>3. QED
      BY <1>1, <3>1, <3>2
  <2>3. QED
    BY <2>1, <2>2 DEF Grows
<1>4. /\ session' \in Seq(Kinds) /\ Len(session') <= Len(journal'.frames)
      /\ session' = SubSeq(journal'.frames, 1, Len(session'))
  <2>1. CASE session' = session
    BY <1>1, <1>3, <2>1
  <2>2. CASE session' = <<>>
    <3>1. Len(session') = 0 /\ session' \in Seq(Kinds)
      BY <2>2
    <3>2. SubSeq(journal'.frames, 1, 0) = <<>>
      BY SubSeqEmpty
    <3>3. QED
      BY <1>3, <2>2, <3>1, <3>2
  <2>3. QED
    BY <2>1, <2>2
<1>5. \A f \in Flushers :
        /\ flusher'[f].from <= acked' /\ flusher'[f].to <= Len(journal'.frames)
        /\ flusher'[f].stage = "accepted" => flusher'[f].to <= acked'
  BY <1>3 DEF FlushWithin, Flushes
<1>6. marker' <= acked' /\ acked' <= Len(journal'.frames) /\ uploader'.offset <= acked'
  BY <1>1, <1>3
<1>7. StreamTrue'
  BY <1>4, <1>5, <1>6 DEF StreamTrue
<1>8. QED
  BY <1>1, <1>4, <1>7 DEF StreamOK

\* One flusher's step.
LEMMA OneFlush ==
    ASSUME StreamOK, NEW f \in Flushers, NEW b, FlushWithin(b),
           flusher' = [flusher EXCEPT ![f] = b]
    PROVE  flusher' \in [Flushers -> Flushes] /\ \A g \in Flushers : FlushWithin(flusher'[g])
<1>1. b \in Flushes
  BY DEF FlushWithin
<1>2. \A g \in Flushers : FlushWithin(flusher[g])
  BY DEF StreamOK, StreamTrue, FlushWithin
<1>3. \A g \in Flushers : flusher'[g] = IF g = f THEN b ELSE flusher[g]
  BY DEF StreamOK
<1>4. \A g \in Flushers : FlushWithin(flusher'[g])
  BY <1>2, <1>3
<1>5. QED
  BY <1>1, <1>4 DEF StreamOK

\* An idle flusher has nothing of the journal in hand.
LEMMA IdleWithin ==
    ASSUME StreamOK
    PROVE  FlushWithin(NoFlush)
BY DEF StreamOK, FlushWithin, NoFlush, Flushes

\* An uploader that stops, or goes on as it was, is within what was acknowledged.
LEMMA UploaderWithin ==
    ASSUME StreamOK
    PROVE  /\ uploader \in Uploaders /\ uploader.offset <= acked
           /\ \A state \in {"off", "closed", "degraded", "undeliverable_frame"} :
                Stopped(state) \in Uploaders /\ Stopped(state).offset <= acked
           /\ Degrade => uploader' \in Uploaders /\ uploader'.offset <= acked
<1>1. uploader \in Uploaders /\ uploader.offset <= acked /\ acked \in Nat
  BY DEF StreamOK, StreamTrue
<1>2. \A state \in {"off", "closed", "degraded", "undeliverable_frame"} :
        Stopped(state) \in Uploaders /\ Stopped(state).offset <= acked
  BY <1>1 DEF Stopped, Uploaders
<1>3. QED
  BY <1>1, <1>2 DEF Degrade

\* The uploader's own steps.
LEMMA UploaderStreams ==
    ASSUME StreamOK, journal \in Journals, StartUploader \/ CloseUploader
    PROVE  StreamOK'
<1>1. /\ UNCHANGED <<journal, session, acked, flusher, marker>>
      /\ \/ uploader' = [state |-> "ready", offset |-> LoadOffset, closing |-> FALSE]
         \/ uploader' = [uploader EXCEPT !.closing = TRUE]
  BY DEF StartUploader, CloseUploader, journalVars
<1>2. marker \in Nat /\ marker <= acked /\ acked \in Nat /\ journal.frames \in Seq(Kinds)
  BY DEF StreamOK, StreamTrue, Journals
<1>3. LoadOffset \in Nat /\ LoadOffset <= acked
  BY <1>2 DEF LoadOffset
<1>4. uploader' \in Uploaders /\ uploader'.offset <= acked
  <2>1. CASE uploader' = [state |-> "ready", offset |-> LoadOffset, closing |-> FALSE]
    BY <1>3, <2>1 DEF Uploaders
  <2>2. CASE uploader' = [uploader EXCEPT !.closing = TRUE]
    BY <2>2, UploaderWithin DEF Uploaders
  <2>3. QED
    BY <1>1, <2>1, <2>2
<1>5. flusher' \in [Flushers -> Flushes] /\ \A g \in Flushers : FlushWithin(flusher'[g])
  BY <1>1 DEF StreamOK, StreamTrue, FlushWithin
<1>6. QED
  BY <1>1, <1>2, <1>4, <1>5, StreamKeeps DEF Grows

\* A batch leaves from the delivered offset and ends within the file.
LEMMA FlushStreams ==
    ASSUME StreamOK, journal \in Journals, journal.kept <= Len(journal.frames),
           NEW f \in Flushers, Flush(f)
    PROVE  StreamOK'
<1> DEFINE from == uploader.offset
           to == PlanEnd(from, journal.kept)
           batch == [stage |-> "posted", from |-> from, to |-> to]
<1>1. /\ UNCHANGED <<journal, session, acked, marker>>
      /\ \/ /\ \E state \in {"closed", "degraded", "undeliverable_frame"} :
                 uploader' = Stopped(state)
            /\ UNCHANGED flusher
         \/ /\ to # from /\ flusher' = [flusher EXCEPT ![f] = batch]
            /\ UNCHANGED uploader
  BY DEF Flush
<1>2. /\ marker \in Nat /\ marker <= acked /\ acked \in Nat /\ journal.frames \in Seq(Kinds)
      /\ journal.kept \in Nat /\ from \in Nat /\ from <= acked /\ Len(journal.frames) \in Nat
  BY DEF StreamOK, StreamTrue, Journals, Uploaders
<1>3. uploader' \in Uploaders /\ uploader'.offset <= acked
  BY <1>1, UploaderWithin
<1>4. flusher' \in [Flushers -> Flushes] /\ \A g \in Flushers : FlushWithin(flusher'[g])
  <2>1. CASE UNCHANGED flusher
    BY <2>1 DEF StreamOK, StreamTrue, FlushWithin
  <2>2. CASE to # from /\ flusher' = [flusher EXCEPT ![f] = batch]
    <3>1. to \in Nat /\ to <= journal.kept
      BY <1>2, <2>2, PlanEndBounds
    <3> HIDE DEF from, to
    <3>2. batch \in Flushes /\ batch.from = from /\ batch.to = to /\ batch.stage = "posted"
      BY <1>2, <3>1 DEF Flushes
    <3>3. FlushWithin(batch)
      BY <1>2, <3>1, <3>2 DEF FlushWithin
    <3> HIDE DEF batch
    <3>4. QED
      BY <2>2, <3>3, OneFlush
  <2>3. QED
    BY <1>1, <2>1, <2>2
<1>5. QED
  BY <1>1, <1>2, <1>3, <1>4, StreamKeeps DEF Grows

\* A batch the backend takes extends the session to its own end, or was held already.
LEMMA ServedStreams ==
    ASSUME StreamOK, journal \in Journals, NEW f \in Flushers, Served(f)
    PROVE  /\ StreamOK'
           /\ session' = session \/ (/\ Len(session) <= Len(session')
                                     /\ session = SubSeq(session', 1, Len(session)))
<1> DEFINE b == flusher[f]
           frames == journal.frames
           k == Len(session)
<1>1. /\ b \in Flushes /\ b.from \in Nat /\ b.to \in Nat /\ FlushWithin(b)
      /\ b.from <= acked /\ b.to <= Len(frames) /\ b.stage = "posted"
  BY DEF Served, StreamOK, StreamTrue, FlushWithin, Flushes
<1>2. /\ frames \in Seq(Kinds) /\ Len(frames) \in Nat /\ session \in Seq(Kinds) /\ k \in Nat
      /\ k <= Len(frames) /\ session = SubSeq(frames, 1, k)
      /\ acked \in Nat /\ acked <= Len(frames) /\ marker \in Nat /\ marker <= acked
  BY DEF StreamOK, StreamTrue, Journals
<1>3. UNCHANGED <<journal, uploader, marker>>
  BY DEF Served, journalVars
<1>4. CASE ~Continues(b.from)
  <2> DEFINE refusal == [b EXCEPT !.stage = IF session = <<>> THEN "lost_session" ELSE "gap"]
  <2>1. flusher' = [flusher EXCEPT ![f] = refusal] /\ UNCHANGED <<session, acked>>
    BY <1>4 DEF Served
  <2>2. FlushWithin(refusal)
    BY <1>1 DEF FlushWithin, Flushes
  <2> HIDE DEF refusal
  <2>3. flusher' \in [Flushers -> Flushes] /\ \A g \in Flushers : FlushWithin(flusher'[g])
    BY <2>1, <2>2, OneFlush
  <2>4. QED
    BY <1>2, <1>3, <2>1, <2>3, UploaderWithin, StreamKeeps DEF Grows
<1>5. CASE Continues(b.from)
  <2> DEFINE n == Later(k, b.to)
             taken == [stage |-> "accepted", from |-> 0, to |-> b.to]
  <2>1. /\ session' = Accept(b.from, b.to) /\ acked' = Later(acked, b.to)
        /\ flusher' = [flusher EXCEPT ![f] = taken]
    BY <1>5 DEF Served
  <2>2. b.from <= k /\ Later(b.from, k) = k
    BY <1>1, <1>2, <1>5 DEF Continues, Later
  <2>3. n \in Nat /\ k <= n /\ n <= Len(frames)
    BY <1>1, <1>2 DEF Later
  <2>4. session' = SubSeq(frames, 1, n)
    <3>1. session' = SubSeq(frames, 1, k) \o SubSeq(frames, k + 1, b.to)
      BY <1>2, <2>1, <2>2 DEF Accept
    <3>2. k \in 0..Len(frames) /\ b.to \in 0..Len(frames)
      BY <1>1, <1>2
    <3>3. QED
      BY <1>2, <3>1, <3>2, PrefixAccepts
  <2>5. acked' \in Nat /\ acked <= acked' /\ b.to <= acked' /\ acked' <= Len(frames)
    BY <1>1, <1>2, <2>1 DEF Later
  <2> HIDE DEF n
  <2>6. /\ session' \in Seq(Kinds) /\ Len(session') = n
        /\ \A i \in 1..n : session'[i] = frames[i]
    BY <1>2, <2>3, <2>4, PrefixIs
  <2>7. /\ flusher' \in [Flushers -> Flushes]
        /\ \A g \in Flushers :
             /\ flusher'[g].from <= acked' /\ flusher'[g].to <= Len(frames)
             /\ flusher'[g].stage = "accepted" => flusher'[g].to <= acked'
    <3>1. /\ taken \in Flushes /\ taken.from <= acked' /\ taken.to <= Len(frames)
          /\ taken.to <= acked'
      BY <1>1, <2>5 DEF Flushes
    <3>2. \A g \in Flushers :
            /\ flusher[g] \in Flushes /\ flusher[g].from <= acked /\ flusher[g].to <= Len(frames)
            /\ flusher[g].stage = "accepted" => flusher[g].to <= acked
      BY DEF StreamOK, StreamTrue
    <3> HIDE DEF taken
    <3>3. \A g \in Flushers : flusher'[g] = IF g = f THEN taken ELSE flusher[g]
      BY <2>1 DEF StreamOK
    <3>4. \A g \in Flushers :
            /\ flusher'[g].from <= acked' /\ flusher'[g].to <= Len(frames)
            /\ flusher'[g].stage = "accepted" => flusher'[g].to <= acked'
      <4>1. TAKE g \in Flushers
      <4>2. CASE g = f
        BY <3>1, <3>3, <4>2
      <4>3. CASE g # f
        BY <1>2, <2>5, <3>2, <3>3, <4>3 DEF Flushes
      <4>4. QED
        BY <4>2, <4>3
    <3>5. QED
      BY <2>1, <3>1, <3>4 DEF StreamOK
  <2>8. uploader' \in Uploaders /\ uploader'.offset <= acked' /\ marker' <= acked'
    BY <1>2, <1>3, <2>5 DEF StreamOK, StreamTrue, Uploaders
  <2>9. StreamTrue'
    BY <1>3, <2>3, <2>4, <2>5, <2>6, <2>7, <2>8 DEF StreamTrue
  <2>10. StreamOK'
    BY <1>2, <1>3, <2>5, <2>6, <2>7, <2>8, <2>9 DEF StreamOK
  <2>11. session = SubSeq(session', 1, k)
    <3>1. k \in 0..n /\ k \in 0..Len(frames)
      BY <1>2, <2>3
    <3>2. \A i \in 1..k : session[i] = frames[i]
      BY <1>2, <3>1, PrefixIs
    <3>3. /\ SubSeq(session', 1, k) \in Seq(Kinds) /\ Len(SubSeq(session', 1, k)) = k
          /\ \A i \in 1..k : SubSeq(session', 1, k)[i] = session'[i]
      BY <2>6, <3>1, PrefixIs
    <3>4. \A i \in 1..k : session[i] = SubSeq(session', 1, k)[i]
      BY <1>2, <2>3, <2>6, <3>2, <3>3
    <3>5. QED
      BY <1>2, <3>3, <3>4, SeqEqual
  <2>12. QED
    BY <2>3, <2>6, <2>10, <2>11
<1>6. QED
  BY <1>4, <1>5

\* What a flusher does of the answer: it gives up, replays from the header, or notes an
\* offset the backend acknowledged.
LEMMA AnswerStreams ==
    ASSUME StreamOK, journal \in Journals, NEW f \in Flushers,
           PostFails(f) \/ Refusal(f) \/ Acknowledged(f)
    PROVE  StreamOK'
<1> DEFINE b == flusher[f]
<1>1. /\ b \in Flushes /\ b.from \in Nat /\ b.to \in Nat /\ FlushWithin(b)
      /\ b.from <= acked /\ b.to <= Len(journal.frames)
      /\ b.stage = "accepted" => b.to <= acked
  BY DEF StreamOK, StreamTrue, FlushWithin, Flushes
<1>2. /\ marker \in Nat /\ marker <= acked /\ acked \in Nat /\ journal.frames \in Seq(Kinds)
      /\ Len(journal.frames) \in Nat
  BY DEF StreamOK, StreamTrue, Journals
<1>3. UNCHANGED <<journal, session, acked>>
  BY DEF PostFails, Refusal, Acknowledged, journalVars
<1>4. ASSUME NEW next, FlushWithin(next), flusher' = [flusher EXCEPT ![f] = next],
             marker' \in Nat, marker' <= acked,
             uploader' \in Uploaders, uploader'.offset <= acked
      PROVE  StreamOK'
  <2>1. flusher' \in [Flushers -> Flushes] /\ \A g \in Flushers : FlushWithin(flusher'[g])
    BY <1>4, OneFlush
  <2>2. QED
    BY <1>2, <1>3, <1>4, <2>1, StreamKeeps DEF Grows
<1>5. CASE PostFails(f)
  <2>1. flusher' = [flusher EXCEPT ![f] = NoFlush] /\ Degrade /\ UNCHANGED marker
    BY <1>5 DEF PostFails
  <2>2. QED
    BY <1>2, <1>4, <2>1, IdleWithin, UploaderWithin
<1>6. CASE Refusal(f)
  <2> DEFINE to == PlanEnd(0, b.to)
             replay == [b EXCEPT !.stage = "posted", !.from = 0, !.to = to]
  <2>1. /\ UNCHANGED marker
        /\ \/ flusher' = [flusher EXCEPT ![f] = NoFlush] /\ Degrade
           \/ to > 0 /\ UNCHANGED uploader /\ flusher' = [flusher EXCEPT ![f] = replay]
    <3>1. \/ flusher' = [flusher EXCEPT ![f] = NoFlush] /\ Degrade
          \/ /\ to > 0 /\ UNCHANGED uploader
             /\ flusher' = [flusher EXCEPT ![f].stage = "posted", ![f].from = 0, ![f].to = to]
      BY <1>6 DEF Refusal
    <3>2. to \in Nat
      BY <1>1, PlanEndBounds
    <3> HIDE DEF to
    <3>3. [flusher EXCEPT ![f].stage = "posted", ![f].from = 0, ![f].to = to]
            = [flusher EXCEPT ![f] = replay]
      BY <1>1, <3>2 DEF StreamOK, Flushes
    <3>4. QED
      BY <1>6, <3>1, <3>3 DEF Refusal
  <2>2. CASE flusher' = [flusher EXCEPT ![f] = NoFlush] /\ Degrade
    BY <1>2, <1>4, <2>1, <2>2, IdleWithin, UploaderWithin
  <2>3. CASE to > 0 /\ UNCHANGED uploader /\ flusher' = [flusher EXCEPT ![f] = replay]
    <3> DEFINE seen == b.to
    <3>1. to \in Nat /\ to <= b.to
      <4>1. seen \in Nat /\ 0 \in Nat
        BY <1>1
      <4> HIDE DEF seen
      <4>2. PlanEnd(0, seen) \in Nat /\ (PlanEnd(0, seen) # 0 => PlanEnd(0, seen) <= seen)
        BY <4>1, PlanEndBounds
      <4> USE DEF seen
      <4>3. to \in Nat /\ (to # 0 => to <= b.to)
        BY <4>2
      <4> HIDE DEF to
      <4>4. QED
        BY <2>3, <4>3
    <3> HIDE DEF to
    <3>2. /\ replay \in Flushes /\ replay.from = 0 /\ replay.to = to
          /\ replay.stage = "posted"
      BY <1>1, <3>1 DEF Flushes
    <3>3. FlushWithin(replay)
      BY <1>1, <1>2, <3>1, <3>2 DEF FlushWithin
    <3> HIDE DEF replay
    <3>4. QED
      BY <1>2, <1>4, <2>1, <2>3, <3>3, UploaderWithin
  <2>4. QED
    BY <2>1, <2>2, <2>3
<1>7. CASE Acknowledged(f)
  <2>1. /\ flusher' = [flusher EXCEPT ![f] = NoFlush] /\ b.to <= acked
        /\ marker' \in {marker, b.to}
        /\ uploader' \in {uploader, Stopped("closed"), [uploader EXCEPT !.offset = b.to]}
    BY <1>1, <1>7 DEF Acknowledged
  <2>2. uploader' \in Uploaders /\ uploader'.offset <= acked
    <3>1. CASE uploader' \in {uploader, Stopped("closed")}
      BY <3>1, UploaderWithin
    <3>2. CASE uploader' = [uploader EXCEPT !.offset = b.to]
      BY <1>1, <2>1, <3>2, UploaderWithin DEF Uploaders
    <3>3. QED
      BY <2>1, <3>1, <3>2
  <2>3. QED
    BY <1>1, <1>2, <1>4, <2>1, <2>2, IdleWithin
<1>8. QED
  BY <1>5, <1>6, <1>7

\* A step that leaves the uploader alone, ends the session, or ends the process.
LEMMA OthersStream ==
    ASSUME StreamOK, journal \in Journals, Grows, session' \in {session, <<>>},
           UNCHANGED acked, marker' \in {0, marker},
           uploader' \in {uploader, NoUploader},
           flusher' \in {flusher, [f \in Flushers |-> NoFlush]}
    PROVE  StreamOK'
<1>1. /\ marker \in Nat /\ marker <= acked /\ acked \in Nat /\ journal.frames \in Seq(Kinds)
  BY DEF StreamOK, StreamTrue, Journals
<1>2. uploader' \in Uploaders /\ uploader'.offset <= acked
  BY UploaderWithin DEF NoUploader
<1>3. flusher' \in [Flushers -> Flushes] /\ \A f \in Flushers : FlushWithin(flusher'[f])
  <2>1. CASE flusher' = flusher
    BY <2>1 DEF StreamOK, StreamTrue, FlushWithin
  <2>2. CASE flusher' = [f \in Flushers |-> NoFlush]
    <3>1. FlushWithin(NoFlush) /\ NoFlush \in Flushes
      BY IdleWithin DEF FlushWithin
    <3>2. \A f \in Flushers : flusher'[f] = NoFlush
      BY <2>2
    <3>3. QED
      BY <2>2, <3>1, <3>2
  <2>3. QED
    BY <2>1, <2>2
<1>4. QED
  BY <1>1, <1>2, <1>3, StreamKeeps

\* Every step of the system, from what it does to the live session, which it only ever
\* extends or ends.
LEMMA StreamsKeep ==
    ASSUME RecorderOK, StreamOK, Next
    PROVE  /\ StreamOK'
           /\ \/ session' = <<>> \/ session' = session
              \/ Len(session) <= Len(session') /\ session = SubSeq(session', 1, Len(session))
<1>1. Grows /\ journal \in Journals /\ journal.kept <= Len(journal.frames)
  BY RecorderKeeps DEF RecorderOK, RecorderTypes, WriterTrue
<1>2. ASSUME \/ UNCHANGED uploadVars
             \/ ForgetSession \/ DropSuperseded \/ Seal \/ ProcessCrash \/ HostFailure
      PROVE  StreamOK' /\ (session' = <<>> \/ session' = session)
  <2>1. /\ session' \in {session, <<>>} /\ UNCHANGED acked /\ marker' \in {0, marker}
        /\ uploader' \in {uploader, NoUploader}
        /\ flusher' \in {flusher, [f \in Flushers |-> NoFlush]}
    BY <1>2 DEF uploadVars, ForgetSession, DropSuperseded, Seal, ProcessCrash, HostFailure, Dead
  <2>2. QED
    BY <1>1, <2>1, OthersStream
<1>3. ASSUME StartUploader \/ CloseUploader
      PROVE  StreamOK' /\ session' = session
  BY <1>1, <1>3, UploaderStreams DEF StartUploader, CloseUploader
<1>4. ASSUME NEW f \in Flushers,
             Flush(f) \/ PostFails(f) \/ Refusal(f) \/ Acknowledged(f)
      PROVE  StreamOK' /\ session' = session
  <2>1. session' = session
    BY <1>4 DEF Flush, PostFails, Refusal, Acknowledged
  <2>2. QED
    BY <1>1, <1>4, <2>1, FlushStreams, AnswerStreams
<1>5. ASSUME NEW f \in Flushers, Served(f)
      PROVE  /\ StreamOK'
             /\ \/ session' = session
                \/ Len(session) <= Len(session') /\ session = SubSeq(session', 1, Len(session))
  BY <1>1, <1>5, ServedStreams
<1>6. QED
  BY <1>2, <1>3, <1>4, <1>5 DEF Next, UploadStep

-----------------------------------------------------------------------------
(* The closed incident                                                     *)

Artifacts == [finality : {"none", "provisional", "final"}, facts : Nat, records : Nat]

ClosedOK ==
    /\ copy \in Copies /\ worker \in {"idle", "waiting"}
    /\ handler \in {"idle", "committed"} /\ artifact \in Artifacts
    /\ ClosedTrue

\* An artifact the store may hold as final: it counts what the recorder counted, and holds
\* what it admitted unless the journal was full.
Countable(stored) ==
    stored.finality = "final" =>
        /\ stored.records = recorder.counted
        /\ stored = Closed \/ Has(journal.frames, "exhausted")

\* A prefix that holds the finalize frame is the whole of the frames.
LEMMA FinalizedPrefix ==
    ASSUME NEW frames \in Seq(Kinds), EndsIn(frames), NEW k \in 0..Len(frames),
           Finalized(SubSeq(frames, 1, k))
    PROVE  SubSeq(frames, 1, k) = frames
<1> DEFINE prefix == SubSeq(frames, 1, k)
<1>1. prefix \in Seq(Kinds) /\ Len(prefix) = k /\ \A i \in 1..k : prefix[i] = frames[i]
  BY PrefixIs
<1>2. PICK n \in 1..Len(prefix) : prefix[n] = "finalize"
  BY DEF Finalized, Has
<1> HIDE DEF prefix
<1>3. n \in 1..Len(frames) /\ frames[n] = "finalize"
  BY <1>1, <1>2
<1>4. k = Len(frames)
  BY <1>1, <1>2, <1>3 DEF EndsIn
<1>5. prefix = frames
  BY <1>1, <1>4, SeqEqual
<1>6. QED
  BY <1>5 DEF prefix

\* What a prefix of the journal replays to counts every record, and is final only if it is
\* the journal, finalized.
LEMMA AssembledIs ==
    ASSUME RecorderOK, NEW k \in 0..Len(journal.frames), NEW torn,
           NEW made, made = Assembled(SubSeq(journal.frames, 1, k), torn)
    PROVE  /\ made \in Artifacts
           /\ Countable(made)
           /\ made.finality = "final" => Finalized(journal.frames)
<1> DEFINE prefix == SubSeq(journal.frames, 1, k)
<1>1. journal.frames \in Seq(Kinds) /\ EndsParts
  BY EndsAre DEF RecorderOK, RecorderTypes, Journals
<1>2. prefix \in Seq(Kinds)
  BY <1>1, PrefixIs
<1>3. Finalized(prefix) => prefix = journal.frames
  BY <1>1, FinalizedPrefix DEF EndsParts
<1> HIDE DEF prefix
<1>4. /\ NoIncident \in Artifacts /\ NoIncident.finality = "none"
      /\ Provisional \in Artifacts /\ Provisional.finality = "provisional"
  BY DEF NoIncident, Provisional, Incident, Artifacts
<1>5. \/ made = NoIncident
      \/ made = Provisional /\ ~Finalized(prefix)
      \/ made = Replayed(prefix) /\ Finalized(prefix) /\ CountersAgree(prefix)
  BY Zenon DEF Assembled, prefix
<1>6. CASE made = NoIncident
  BY <1>4, <1>6 DEF Countable
<1>7. CASE made = Provisional /\ ~Finalized(prefix)
  BY <1>4, <1>7 DEF Countable, prefix
<1>8. CASE made = Replayed(prefix) /\ Finalized(prefix) /\ CountersAgree(prefix)
  <2>1. Count(prefix, Facts) \in Nat /\ Count(prefix, Records) \in Nat
    BY <1>2, CountNat
  <2>2. made \in Artifacts /\ made.finality = "final" /\ made.records = Count(prefix, Records)
    BY <1>8, <2>1 DEF Replayed, Incident, Artifacts
  <2>3. made.records = recorder.counted
    BY <1>8, <2>2 DEF CountersAgree
  <2>4. Has(journal.frames, "exhausted") \/ Held(prefix, recorder)
    BY <1>1, <1>3, <1>8 DEF EndsParts, Holds
  <2>5. Held(prefix, recorder) => made = Closed
    BY <1>8, HeldIs DEF Closed
  <2>6. Countable(made)
    BY <2>3, <2>4, <2>5 DEF Countable
  <2>7. Finalized(journal.frames)
    BY <1>3, <1>8
  <2>8. QED
    BY <2>2, <2>6, <2>7
<1>9. QED
  BY <1>5, <1>6, <1>7, <1>8

\* A stored incident is not the lack of one.
LEMMA ClosedIs == Closed # NoIncident /\ Closed.finality = "final"
                    /\ Closed.records = recorder.counted
BY DEF Closed, Incident, NoIncident

\* What the frames gain, they keep.
LEMMA ExhaustedStays ==
    ASSUME journal.frames \in Seq(Kinds), Grows, Has(journal.frames, "exhausted")
    PROVE  Has(journal'.frames, "exhausted")
<1>1. CASE journal'.frames = journal.frames
  BY <1>1
<1>2. ASSUME NEW kind \in Kinds, journal'.frames = Append(journal.frames, kind)
      PROVE  Has(journal'.frames, "exhausted")
  BY <1>2, AppendHas
<1>3. QED
  BY <1>1, <1>2 DEF Grows

\* A step of the recorder, or a crash, that answers nothing and stores nothing.
LEMMA ClosedKeeps ==
    ASSUME RecorderOK, ClosedOK, OpenUnfinished', Grows, UNCHANGED <<artifact, handler>>,
           copy' \in {copy, CopyAfterCrash}, worker' \in {worker, "idle"},
           recorder'.accepted = recorder.accepted,
           \/ recorder'.admitted = recorder.admitted /\ recorder'.counted = recorder.counted
           \/ recorder.stage = "open",
           recorder'.stage \in {"new", "open"} => recorder.stage \in {"new", "open"},
           recorder'.stage \in {"new", "open", "built", "spooling", "invalid"} =>
             recorder.stage \in {"new", "open", "built", "spooling", "invalid"},
           recorder'.stage = "submitted" => recorder.stage = "submitted",
           recorder.stage \in {"spooling", "submitted", "done", "gone"} =>
             recorder'.stage \in {"spooling", "submitted", "done", "gone"},
           journal'.finalized /\ journal'.named /\ ~journal'.exists =>
             recorder.accepted \notin {"unasked", "no"}
    PROVE  ClosedOK'
<1>1. ClosedTrue
  BY DEF ClosedOK
<1>2. /\ copy' \in Copies
      /\ copy' # "none" => copy # "none"
      /\ copy \in {"spooled", "rejected"} => copy' = copy
      /\ copy' = "queued" => copy = "queued"
  BY DEF CopyAfterCrash, Copies, ClosedOK
<1>3. /\ worker' \in {"idle", "waiting"}
      /\ handler' \in {"idle", "committed"} /\ artifact' \in Artifacts
  BY DEF ClosedOK
<1>4. recorder'.stage \in {"new", "open"} =>
        ~Finalized(journal'.frames) /\ ~journal'.finalized /\ artifact'.finality # "final"
  BY <1>1 DEF ClosedTrue, OpenUnfinished
<1>5. /\ copy' # "none" => recorder'.stage \in {"spooling", "submitted", "done", "gone"}
      /\ copy' = "queued" => recorder'.accepted = "queued"
  BY <1>1, <1>2 DEF ClosedTrue
<1>6. /\ recorder'.stage \in {"new", "open", "built", "spooling", "invalid"} =>
           recorder'.accepted = "unasked"
      /\ recorder'.stage = "submitted" => recorder'.accepted # "unasked"
  BY <1>1 DEF ClosedTrue
<1>7. /\ worker' = "waiting" => artifact' = Closed'
      /\ recorder'.accepted = "spooled" => Kept'
      /\ FinalIsCounted'
  <2>1. CASE recorder.stage = "open"
    <3>1. artifact.finality # "final" /\ recorder.accepted = "unasked" /\ worker # "waiting"
      BY <1>1, <2>1, ClosedIs DEF ClosedTrue
    <3>2. worker' # "waiting" /\ recorder'.accepted # "spooled"
      BY <3>1
    <3>3. QED
      BY <3>1, <3>2 DEF FinalIsCounted
  <2>2. CASE recorder'.admitted = recorder.admitted /\ recorder'.counted = recorder.counted
    <3>1. Closed' = Closed
      BY <2>2 DEF Closed
    <3>2. Kept => Kept'
      BY <1>2, <3>1 DEF Kept
    <3>3. FinalIsCounted'
      <4>1. journal.frames \in Seq(Kinds)
        BY DEF RecorderOK, RecorderTypes, Journals
      <4>2. Has(journal.frames, "exhausted") => Has(journal'.frames, "exhausted")
        BY <4>1, ExhaustedStays
      <4>3. QED
        BY <1>1, <2>2, <3>1, <4>2 DEF ClosedTrue, FinalIsCounted
    <3>4. worker' = "waiting" => artifact' = Closed'
      BY <1>1, <3>1 DEF ClosedTrue
    <3>5. recorder.accepted = "spooled" => Kept
      BY <1>1 DEF ClosedTrue
    <3>6. QED
      BY <3>2, <3>3, <3>4, <3>5
  <2>3. QED
    BY <2>1, <2>2
<1>8. ClosedTrue'
  BY <1>4, <1>5, <1>6, <1>7, Zenon DEF ClosedTrue
<1>9. QED
  BY <1>2, <1>3, <1>8 DEF ClosedOK

\* A close that declares its journal finalized has a journal.
LEMMA FinalizedExists ==
    ASSUME RecorderOK, Close, journal'.finalized
    PROVE  journal'.exists
<1>1. recorder.stage = "open" /\ ~journal.finalized /\ journal \in Journals
  BY DEF Close, RecorderOK, RecorderTypes, OpenUnfinished
<1>2. PICK how \in Outcomes : Writable(journal) /\ journal' = Finalize(journal, how)
  BY <1>1 DEF Close
<1> DEFINE put == Put(journal, "finalize", how, TRUE)
<1>3. "finalize" \in Kinds
  BY DEF Kinds
<1>4. Wrote(put, journal, "finalize", how,
            IF how = "written" THEN Len(journal.frames) + 1 ELSE journal.synced)
  BY <1>1, <1>3, PutDoes
<1>5. journal' = [put EXCEPT !.finalized = (how = "written")]
  BY <1>2 DEF Finalize
<1> HIDE DEF put
<1>6. put \in Journals /\ put.exists = journal.exists /\ (how = "written") \in BOOLEAN
  BY <1>4 DEF Wrote
<1>7. journal'.exists = journal.exists
  BY <1>5, <1>6 DEF Journals
<1>8. QED
  BY <1>2, <1>7 DEF Writable

\* The recorder's steps.
LEMMA RecorderCloses ==
    ASSUME RecorderOK, ClosedOK, RecorderStep, UNCHANGED <<exportVars, uploadVars>>
    PROVE  ClosedOK'
<1>1. OpenUnfinished' /\ Grows
  BY RecorderKeeps DEF Next, RecorderOK
<1>2. recorder \in Recorders /\ journal \in Journals
  BY DEF RecorderOK, RecorderTypes
<1>3. UNCHANGED <<copy, worker, artifact, handler>> /\ ClosedTrue
  BY DEF exportVars, ClosedOK
<1> DEFINE Gone == journal'.finalized /\ journal'.named /\ ~journal'.exists
           Told == recorder.accepted \notin {"unasked", "no"}
<1>4. ASSUME \/ UNCHANGED recorder
             \/ recorder.stage \in {"new", "open"}
                  /\ recorder' = [recorder EXCEPT !.stage = "open"]
             \/ recorder.stage = "open"
                  /\ \E a, c : recorder' = [recorder EXCEPT !.admitted = a, !.counted = c]
             \/ \E stage \in {"built", "invalid"} : recorder.stage = "open"
                  /\ recorder' = [recorder EXCEPT !.stage = stage]
             \/ recorder.stage \in {"invalid", "submitted"}
                  /\ recorder' = [recorder EXCEPT !.stage = "done"],
             Gone => Told
      PROVE  ClosedOK'
  <2>1. /\ recorder'.accepted = recorder.accepted
        /\ \/ recorder'.admitted = recorder.admitted /\ recorder'.counted = recorder.counted
           \/ recorder.stage = "open"
        /\ recorder'.stage \in {"new", "open"} => recorder.stage \in {"new", "open"}
        /\ recorder'.stage \in {"new", "open", "built", "spooling", "invalid"} =>
             recorder.stage \in {"new", "open", "built", "spooling", "invalid"}
        /\ recorder'.stage = "submitted" => recorder.stage = "submitted"
        /\ recorder.stage \in {"spooling", "submitted", "done", "gone"} =>
             recorder'.stage \in {"spooling", "submitted", "done", "gone"}
    BY <1>2, <1>4 DEF Recorders
  <2>2. QED
    BY <1>1, <1>3, <1>4, <2>1, ClosedKeeps
<1>5. ASSUME OpenJournal \/ \E fact \in Facts : Admit(fact)
      PROVE  ClosedOK'
  <2>1. recorder.stage \in {"new", "open"}
        /\ \/ recorder' = [recorder EXCEPT !.stage = "open"]
           \/ recorder.stage = "open"
                /\ \E a, c : recorder' = [recorder EXCEPT !.admitted = a, !.counted = c]
    BY <1>5 DEF OpenJournal, Admit
  <2>2. recorder'.stage \in {"new", "open"}
    BY <1>2, <2>1 DEF Recorders
  <2>3. ~journal'.finalized
    BY <1>1, <2>2 DEF OpenUnfinished
  <2>4. QED
    BY <1>4, <2>1, <2>3
<1>6. ASSUME SyncJournal \/ SyncRemoval
      PROVE  ClosedOK'
  <2>1. /\ UNCHANGED recorder /\ journal'.named = journal.named
        /\ journal'.finalized = journal.finalized /\ journal'.exists = journal.exists
    BY <1>2, <1>6 DEF SyncJournal, SyncRemoval, Journals
  <2>2. QED
    BY <1>3, <1>4, <2>1 DEF ClosedTrue
<1>7. ASSUME Close
      PROVE  ClosedOK'
  <2>1. \E stage \in {"built", "invalid"} : recorder.stage = "open"
                      /\ recorder' = [recorder EXCEPT !.stage = stage]
    BY <1>7 DEF Close
  <2>2. QED
    BY <1>4, <1>7, <2>1, FinalizedExists
<1>8. ASSUME NEW delivered, journal' = Released(delivered) \/ journal' = LeftBehind,
             delivered => Told, recorder.stage \in {"invalid", "submitted"},
             recorder' = [recorder EXCEPT !.stage = "done"]
      PROVE  ClosedOK'
  <2>1. CASE delivered
    BY <1>4, <1>8, <2>1
  <2>2. CASE ~delivered
    <3>1. /\ journal'.finalized = journal.finalized /\ journal'.exists = journal.exists
          /\ journal'.named = journal.named
      BY <1>2, <1>8, <2>2 DEF Released, LeftBehind, Journals
    <3>2. QED
      BY <1>3, <1>4, <1>8, <3>1 DEF ClosedTrue
  <2>3. QED
    BY <2>1, <2>2
<1>9. ASSUME ReleaseInvalid
      PROVE  ClosedOK'
  <2>1. recorder.stage = "invalid" /\ recorder' = [recorder EXCEPT !.stage = "done"]
    BY <1>9 DEF ReleaseInvalid
  <2>2. PICK delivered : (journal' = Released(delivered) \/ journal' = LeftBehind) /\ ~delivered
    BY <1>9, Zenon DEF ReleaseInvalid
  <2>3. QED
    BY <1>8, <2>1, <2>2
<1>10. ASSUME Release
       PROVE  ClosedOK'
  <2>1. /\ recorder.stage = "submitted" /\ recorder' = [recorder EXCEPT !.stage = "done"]
        /\ journal' = Released(recorder.accepted # "no") \/ journal' = LeftBehind
    BY <1>10 DEF Release
  <2>2. recorder.accepted # "no" => Told
    BY <1>3, <2>1 DEF ClosedTrue
  <2>3. PICK delivered : (journal' = Released(delivered) \/ journal' = LeftBehind)
                           /\ (delivered => Told)
    BY <2>1, <2>2, Zenon
  <2>4. QED
    BY <1>8, <2>1, <2>3
<1>11. QED
  BY <1>5, <1>6, <1>7, <1>9, <1>10 DEF RecorderStep

\* What close() is told, and what the exporter has by then.
LEMMA AnswerCloses ==
    ASSUME RecorderOK, ClosedOK, UNCHANGED uploadVars,
           SubmitRefused \/ SubmitAsync \/ SpoolTemporary \/ SpoolCommit
    PROVE  ClosedOK'
<1>1. recorder \in Recorders /\ ClosedTrue /\ copy \in Copies
  BY DEF RecorderOK, RecorderTypes, ClosedOK
<1>2. /\ UNCHANGED <<journal, worker, artifact, handler>>
      /\ recorder.stage \in {"built", "spooling"}
  BY DEF SubmitRefused, SubmitAsync, SpoolTemporary, SpoolCommit, exportVars
<1>3. /\ recorder.accepted = "unasked"
      /\ ~(journal.finalized /\ journal.named /\ ~journal.exists)
  BY <1>1, <1>2 DEF ClosedTrue
<1>4. ASSUME recorder'.admitted = recorder.admitted, recorder'.counted = recorder.counted
      PROVE  (worker' = "waiting" => artifact' = Closed') /\ FinalIsCounted'
  <2>1. Closed' = Closed
    BY <1>4 DEF Closed
  <2>2. QED
    BY <1>1, <1>2, <1>4, <2>1 DEF ClosedTrue, FinalIsCounted
<1>5. ASSUME NEW value \in Answers \ {"unasked"}, Answered(value), copy' \in Copies,
             copy' = "queued" => value = "queued", value = "spooled" => copy' = "spooled"
      PROVE  ClosedOK'
  <2>1. recorder'.stage = "submitted" /\ recorder'.accepted = value
        /\ recorder'.admitted = recorder.admitted /\ recorder'.counted = recorder.counted
    BY <1>1, <1>5 DEF Answered, Recorders
  <2>2. recorder'.accepted = "spooled" => Kept'
    BY <1>5, <2>1 DEF Kept
  <2>3. ~(journal'.finalized /\ journal'.named /\ ~journal'.exists)
    BY <1>2, <1>3
  <2>4. ClosedTrue'
    BY <1>4, <1>5, <2>1, <2>2, <2>3 DEF ClosedTrue
  <2>5. QED
    BY <1>2, <1>5, <2>4 DEF ClosedOK
<1>6. CASE SubmitRefused
  <2>1. recorder.stage = "built" /\ copy' = copy
    BY <1>6 DEF SubmitRefused, exportVars
  <2>2. copy = "none"
    BY <1>1, <2>1 DEF ClosedTrue
  <2>3. PICK value \in {"no", "raised"} : Answered(value)
    BY <1>6 DEF SubmitRefused
  <2>4. QED
    BY <1>1, <1>5, <2>1, <2>2, <2>3 DEF Answers
<1>7. CASE SubmitAsync
  <2>1. copy' = "queued" /\ Answered("queued")
    BY <1>7 DEF SubmitAsync
  <2>2. QED
    BY <1>5, <2>1 DEF Copies, Answers
<1>8. CASE SpoolTemporary
  <2>1. recorder.stage = "built" /\ copy' = "temporary"
        /\ recorder' = [recorder EXCEPT !.stage = "spooling"]
    BY <1>8 DEF SpoolTemporary
  <2>2. recorder'.stage = "spooling" /\ recorder'.accepted = recorder.accepted
        /\ recorder'.admitted = recorder.admitted /\ recorder'.counted = recorder.counted
    BY <1>1, <2>1 DEF Recorders
  <2>3. ~(journal'.finalized /\ journal'.named /\ ~journal'.exists)
        /\ recorder'.accepted = "unasked"
    BY <1>2, <1>3, <2>2
  <2>4. ClosedTrue'
    BY <1>4, <2>1, <2>2, <2>3 DEF ClosedTrue
  <2>5. QED
    BY <1>2, <2>1, <2>4 DEF ClosedOK, Copies
<1>9. CASE SpoolCommit
  <2>1. \/ copy' = "spooled" /\ Answered("spooled")
        \/ copy' \in {"none", "spooled"} /\ Answered("no")
    BY <1>9 DEF SpoolCommit
  <2>2. QED
    BY <1>5, <2>1 DEF Copies, Answers
<1>10. QED
  BY <1>6, <1>7, <1>8, <1>9

\* A step that leaves the recorder and its journal: the copy moves on, and what is stored
\* as final is stored of a recorder that has closed.
LEMMA StoreCloses ==
    ASSUME ClosedOK, UNCHANGED <<recorder, journal>>, copy' \in Copies,
           worker' \in {"idle", "waiting"}, handler' \in {"idle", "committed"},
           artifact' \in Artifacts, Countable(artifact'),
           artifact' # artifact /\ artifact'.finality = "final" =>
             recorder.stage \notin {"new", "open"},
           copy' # "none" => copy # "none",
           copy' = "queued" => copy = "queued",
           copy \in {"spooled", "rejected"} => copy' \in {"spooled", "rejected"}
                                                 \/ artifact' = Closed,
           worker' = "waiting" => worker = "waiting" \/ artifact' = Closed,
           artifact = Closed => artifact' = Closed
    PROVE  ClosedOK'
<1>1. ClosedTrue
  BY DEF ClosedOK
<1>2. Closed' = Closed
  BY DEF Closed
<1>3. worker' = "waiting" => artifact' = Closed'
  BY <1>1, <1>2 DEF ClosedTrue
<1>4. Kept => Kept'
  BY <1>2 DEF Kept
<1>5. FinalIsCounted'
  BY <1>2 DEF FinalIsCounted, Countable
<1>6. ClosedTrue'
  <2>1. recorder'.stage \in {"new", "open"} =>
          ~Finalized(journal'.frames) /\ ~journal'.finalized /\ artifact'.finality # "final"
    BY <1>1 DEF ClosedTrue
  <2>2. /\ copy' # "none" => recorder'.stage \in {"spooling", "submitted", "done", "gone"}
        /\ copy' = "queued" => recorder'.accepted = "queued"
    BY <1>1 DEF ClosedTrue
  <2>3. /\ recorder'.stage \in {"new", "open", "built", "spooling", "invalid"} =>
             recorder'.accepted = "unasked"
        /\ recorder'.stage = "submitted" => recorder'.accepted # "unasked"
        /\ journal'.finalized /\ journal'.named /\ ~journal'.exists =>
             recorder'.accepted \notin {"unasked", "no"}
    BY <1>1 DEF ClosedTrue
  <2>4. recorder'.accepted = "spooled" => Kept'
    BY <1>1, <1>4 DEF ClosedTrue
  <2>5. QED
    BY <1>3, <1>5, <2>1, <2>2, <2>3, <2>4, Zenon DEF ClosedTrue
<1>7. QED
  BY <1>6 DEF ClosedOK

\* The worker, an operator's recovery and the next process.
LEMMA ExportCloses ==
    ASSUME RecorderOK, ClosedOK, UNCHANGED uploadVars,
           \/ SendIngested \/ SendFails \/ SendSettled \/ SendUnanswered
           \/ Recover \/ Restart
    PROVE  ClosedOK'
<1>1. /\ ClosedTrue /\ copy \in Copies /\ artifact \in Artifacts
      /\ worker \in {"idle", "waiting"} /\ handler \in {"idle", "committed"}
  BY DEF ClosedOK
<1>2. UNCHANGED <<recorder, journal>>
  BY DEF SendIngested, SendFails, SendSettled, SendUnanswered, Recover, Restart, journalVars
<1>3. Countable(artifact)
  BY <1>1 DEF ClosedTrue, FinalIsCounted, Countable
<1>4. Closed \in Artifacts /\ Countable(Closed)
  BY JournalAssumption, ClosedIs DEF Countable, Closed, Incident, Artifacts, RecorderOK,
     RecorderTypes, Recorders
<1>5. Refused /\ Sending => /\ copy' \in {"rejected", "none"}
                            /\ copy = "spooled" => copy' = "rejected"
                            /\ copy \in {"queued", "spooled"}
  BY DEF Refused, Sending
<1>6. CASE SendIngested
  <2>1. CASE artifact \in {NoIncident, Closed}
    <3>1. /\ artifact' = Closed /\ handler' = "committed" /\ worker' = "waiting"
          /\ copy' = copy /\ copy \in {"queued", "spooled"}
      BY <1>6, <2>1 DEF SendIngested, Sending
    <3>2. recorder.stage \notin {"new", "open"}
      BY <1>1, <3>1 DEF ClosedTrue
    <3>3. QED
      BY <1>1, <1>2, <1>4, <3>1, <3>2, StoreCloses
  <2>2. CASE artifact \notin {NoIncident, Closed}
    <3>1. Refused /\ Sending /\ UNCHANGED <<artifact, handler, worker>>
      BY <1>6, <2>2 DEF SendIngested
    <3>2. QED
      BY <1>1, <1>2, <1>3, <1>5, <3>1, StoreCloses DEF Copies
  <2>3. QED
    BY <2>1, <2>2
<1>7. CASE SendFails
  <2>1. Refused /\ Sending /\ UNCHANGED <<artifact, handler, worker>>
    BY <1>7 DEF SendFails
  <2>2. QED
    BY <1>1, <1>2, <1>3, <1>5, <2>1, StoreCloses DEF Copies
<1>8. CASE SendSettled
  <2>1. worker = "waiting" /\ worker' = "idle" /\ copy' = "none"
        /\ UNCHANGED <<artifact, handler>>
    BY <1>8 DEF SendSettled
  <2>2. artifact = Closed
    BY <1>1, <2>1 DEF ClosedTrue
  <2>3. QED
    BY <1>1, <1>2, <1>3, <2>1, <2>2, StoreCloses DEF Copies
<1>9. CASE SendUnanswered
  <2>1. worker' = "idle" /\ UNCHANGED <<copy, artifact, handler>>
    BY <1>9 DEF SendUnanswered
  <2>2. QED
    BY <1>1, <1>2, <1>3, <2>1, StoreCloses
<1>10. CASE Recover
  <2>1. /\ artifact = NoIncident /\ UNCHANGED <<copy, worker, handler>>
        /\ artifact' = Assembled(SubSeq(journal.frames, 1, journal.kept), journal.torn)
    BY <1>10 DEF Recover, OnDisk
  <2>2. journal.kept \in 0..Len(journal.frames)
    BY DEF RecorderOK, RecorderTypes, WriterTrue, Journals
  <2>3. PICK torn : artifact' = Assembled(SubSeq(journal.frames, 1, journal.kept), torn)
    BY <2>1, Zenon
  <2>4. /\ artifact' \in Artifacts /\ Countable(artifact')
        /\ artifact'.finality = "final" => Finalized(journal.frames)
    BY <2>2, <2>3, AssembledIs
  <2>5. artifact'.finality = "final" => recorder.stage \notin {"new", "open"}
    BY <1>1, <2>4 DEF ClosedTrue
  <2>6. QED
    BY <1>1, <1>2, <2>1, <2>4, <2>5, ClosedIs, StoreCloses
<1>11. CASE Restart
  <2>1. /\ UNCHANGED <<artifact, handler, worker>>
        /\ copy' = IF copy = "temporary" THEN "corrupt" ELSE copy
    BY <1>11 DEF Restart
  <2>2. QED
    BY <1>1, <1>2, <1>3, <2>1, StoreCloses DEF Copies
<1>12. QED
  BY <1>6, <1>7, <1>8, <1>9, <1>10, <1>11

\* A seal stores what the session replays to, which saw the close.
LEMMA SealCloses ==
    ASSUME RecorderOK, StreamOK, ClosedOK, Seal
    PROVE  ClosedOK'
<1>1. /\ ClosedTrue /\ copy \in Copies /\ worker \in {"idle", "waiting"}
      /\ UNCHANGED <<recorder, journal, copy, worker>> /\ handler' = "committed"
  BY DEF ClosedOK, Seal, journalVars
<1>2. /\ Finalized(session) /\ artifact' = Assembled(session, FALSE)
      /\ artifact' # NoIncident /\ artifact \in {NoIncident, artifact'}
  BY DEF Seal
<1>3. /\ Len(session) \in 0..Len(journal.frames)
      /\ session = SubSeq(journal.frames, 1, Len(session))
  BY DEF StreamOK, StreamTrue, RecorderOK, RecorderTypes, Journals
<1>4. /\ artifact' \in Artifacts /\ Countable(artifact')
      /\ artifact'.finality = "final" => Finalized(journal.frames)
  <2>1. PICK torn : artifact' = Assembled(SubSeq(journal.frames, 1, Len(session)), torn)
    BY <1>2, <1>3, Zenon
  <2>2. QED
    BY <1>3, <2>1, AssembledIs
<1>5. artifact'.finality = "final" => recorder.stage \notin {"new", "open"}
  BY <1>1, <1>4 DEF ClosedTrue
<1>6. artifact = Closed => artifact' = Closed
  BY <1>2, ClosedIs
<1>7. QED
  BY <1>1, <1>4, <1>5, <1>6, StoreCloses

\* A crash takes the memory queue and the recorder, and nothing a recorder accepted into
\* the spool.
LEMMA CrashCloses ==
    ASSUME RecorderOK, ClosedOK, ProcessCrash \/ HostFailure
    PROVE  ClosedOK'
<1>1. /\ recorder' = GoneRecorder /\ copy' = CopyAfterCrash /\ worker' = "idle"
      /\ UNCHANGED <<artifact, handler>>
  BY DEF ProcessCrash, HostFailure, Dead
<1>2. /\ RecorderOK' /\ Grows /\ journal'.finalized = journal.finalized
      /\ journal'.named /\ ~journal'.exists => journal.named /\ ~journal.exists
  BY ProcessCrashKeeps, HostFailureKeeps
<1>3. recorder'.stage = "gone" /\ recorder'.accepted = recorder.accepted
      /\ recorder'.admitted = recorder.admitted /\ recorder'.counted = recorder.counted
  BY <1>1 DEF RecorderOK, RecorderTypes, Recorders, GoneRecorder
<1>4. journal'.finalized /\ journal'.named /\ ~journal'.exists =>
        recorder.accepted \notin {"unasked", "no"}
  BY <1>2 DEF ClosedOK, ClosedTrue
<1>5. OpenUnfinished'
  BY <1>2 DEF RecorderOK
<1>6. QED
  BY <1>1, <1>2, <1>3, <1>4, <1>5, ClosedKeeps

\* Every step of the system, from what it does to the closed incident.
LEMMA ClosesKeep ==
    ASSUME RecorderOK, StreamOK, ClosedOK, Next
    PROVE  ClosedOK'
<1>1. ASSUME UNCHANGED <<recorder, journal, copy, worker, artifact>>,
             handler' \in {"idle", "committed"}
      PROVE  ClosedOK'
  <2>1. /\ copy \in Copies /\ worker \in {"idle", "waiting"} /\ artifact \in Artifacts
        /\ Countable(artifact)
    BY DEF ClosedOK, ClosedTrue, FinalIsCounted, Countable
  <2>2. QED
    BY <1>1, <2>1, StoreCloses
<1>2. CASE RecorderStep /\ UNCHANGED <<exportVars, uploadVars>>
  BY <1>2, RecorderCloses
<1>3. CASE ExportStep /\ UNCHANGED uploadVars
  BY <1>3, AnswerCloses, ExportCloses DEF ExportStep
<1>4. CASE UploadStep
  <2>1. handler \in {"idle", "committed"}
    BY DEF ClosedOK
  <2>2. ASSUME NEW f \in Flushers,
               Flush(f) \/ PostFails(f) \/ Served(f) \/ Refusal(f) \/ Acknowledged(f)
        PROVE  UNCHANGED <<recorder, journal, exportVars>>
    BY <2>2 DEF Flush, PostFails, Served, Refusal, Acknowledged, journalVars
  <2>3. ASSUME StartUploader \/ CloseUploader \/ ForgetSession
        PROVE  UNCHANGED <<recorder, journal, exportVars>>
    BY <2>3 DEF StartUploader, CloseUploader, ForgetSession, journalVars
  <2>4. ASSUME UNCHANGED <<recorder, journal, exportVars>>
        PROVE  ClosedOK'
    BY <1>1, <2>1, <2>4 DEF exportVars
  <2>5. CASE DropSuperseded
    BY <1>1, <2>5 DEF DropSuperseded, journalVars
  <2>6. QED
    BY <1>4, <2>2, <2>3, <2>4, <2>5, SealCloses, CrashCloses DEF UploadStep
<1>5. QED
  BY <1>2, <1>3, <1>4 DEF Next

-----------------------------------------------------------------------------
(* The theorems                                                            *)

\* The invariant is what the three parts say.
LEMMA Parts == CheckpointInv <=> RecorderOK /\ StreamOK /\ ClosedOK
<1>1. CheckpointInv => RecorderOK /\ StreamOK /\ ClosedOK
  <2>1. SUFFICES ASSUME CheckpointInv PROVE RecorderOK /\ StreamOK /\ ClosedOK
    OBVIOUS
  <2>2. TypeOK /\ JournalEnds /\ WriterTrue /\ StreamTrue /\ ClosedTrue
    BY <2>1 DEF CheckpointInv
  <2>3. RecorderTypes
    BY <2>2 DEF TypeOK, RecorderTypes, Recorders, Answers
  <2>4. OpenUnfinished
    BY <2>2 DEF ClosedTrue, OpenUnfinished
  <2>5. StreamOK
    BY <2>2 DEF TypeOK, StreamOK, Uploaders, Flushes
  <2>6. ClosedOK
    BY <2>2 DEF TypeOK, ClosedOK, Artifacts
  <2>7. QED
    BY <2>2, <2>3, <2>4, <2>5, <2>6 DEF RecorderOK
<1>2. RecorderOK /\ StreamOK /\ ClosedOK => CheckpointInv
  <2>1. SUFFICES ASSUME RecorderOK, StreamOK, ClosedOK PROVE CheckpointInv
    OBVIOUS
  <2>2. RecorderTypes /\ JournalEnds /\ WriterTrue
    BY <2>1 DEF RecorderOK
  <2>3. StreamTrue /\ ClosedTrue
    BY <2>1 DEF StreamOK, ClosedOK
  <2>4. TypeOK
    BY <2>1, <2>2 DEF TypeOK, RecorderTypes, Recorders, Answers, StreamOK, ClosedOK, Uploaders, Flushes, Artifacts
  <2>5. QED
    BY <2>2, <2>3, <2>4 DEF CheckpointInv
<1>3. QED
  BY <1>1, <1>2

\* Before the recorder is open there is nothing to disagree about.
LEMMA InitCheckpoint == Init => CheckpointInv
<1>1. SUFFICES ASSUME Init PROVE RecorderOK /\ StreamOK /\ ClosedOK
  BY Parts
<1>2. /\ process = "up" /\ journal = NoJournal /\ faults = 0
      /\ recorder = [stage |-> "new", admitted |-> 0, counted |-> 0, accepted |-> "unasked"]
      /\ copy = "none" /\ worker = "idle"
      /\ artifact = NoIncident /\ handler = "idle"
      /\ uploader = NoUploader /\ flusher = [f \in Flushers |-> NoFlush]
      /\ marker = 0 /\ acked = 0 /\ session = <<>>
  BY <1>1 DEF Init, JournalInit, ExportInit
<1>3. /\ journal \in Journals /\ journal.frames = <<>> /\ journal.kept = 0
      /\ journal.synced = 0 /\ ~journal.torn /\ ~journal.exists /\ ~journal.finalized
      /\ ~journal.closed /\ Len(journal.frames) = 0
  BY <1>2, NoJournalOK DEF NoJournal
<1>4. /\ recorder.stage = "new" /\ recorder.admitted = 0 /\ recorder.counted = 0
      /\ recorder.accepted = "unasked"
  BY <1>2
<1>5. RecorderOK
  <2>1. RecorderTypes
    BY <1>2, <1>3, JournalAssumption DEF RecorderTypes, Recorders, Answers, Stages
  <2>2. JournalEnds
    BY <1>3, NoJournalOK, EndsAre DEF EndsParts, Holds, Writable, Finalized
  <2>3. WriterTrue
    BY <1>2, <1>3, <1>4 DEF WriterTrue, Writable, Has
  <2>4. OpenUnfinished
    BY <1>3 DEF OpenUnfinished, Finalized, Has
  <2>5. QED
    BY <2>1, <2>2, <2>3, <2>4 DEF RecorderOK
<1>6. StreamOK
  <2>1. uploader \in Uploaders /\ uploader.offset = 0
    BY <1>2 DEF Uploaders, NoUploader, Stopped
  <2>2. /\ NoFlush \in Flushes /\ NoFlush.from = 0 /\ NoFlush.to = 0 /\ NoFlush.stage = "idle"
    BY DEF NoFlush, Flushes
  <2>3. \A f \in Flushers : flusher[f] = NoFlush
    BY <1>2
  <2>4. Len(session) = 0 /\ session \in Seq(Kinds) /\ SubSeq(journal.frames, 1, 0) = <<>>
    BY <1>2, <1>3, SubSeqEmpty DEF Journals
  <2>5. StreamTrue
    BY <1>2, <1>3, <2>1, <2>2, <2>3, <2>4 DEF StreamTrue
  <2>6. QED
    BY <1>2, <2>1, <2>2, <2>4, <2>5 DEF StreamOK
<1>7. ClosedOK
  <2>1. artifact \in Artifacts /\ artifact.finality = "none"
    BY <1>2 DEF Artifacts, NoIncident, Incident
  <2>2. ClosedTrue
    BY <1>2, <1>3, <1>4, <2>1 DEF ClosedTrue, FinalIsCounted, Finalized, Has
  <2>3. QED
    BY <1>2, <2>1, <2>2 DEF ClosedOK, Copies
<1>8. QED
  BY <1>5, <1>6, <1>7

\* Every step keeps the invariant.
LEMMA StepCheckpoint == CheckpointInv /\ [Next]_vars => CheckpointInv'
<1>1. SUFFICES ASSUME CheckpointInv, [Next]_vars PROVE CheckpointInv'
  OBVIOUS
<1>2. RecorderOK /\ StreamOK /\ ClosedOK
  BY <1>1, Parts
<1>3. CASE Next
  <2>1. RecorderOK' /\ StreamOK' /\ ClosedOK'
    BY <1>2, <1>3, RecorderKeeps, StreamsKeep, ClosesKeep
  <2>2. (CheckpointInv <=> RecorderOK /\ StreamOK /\ ClosedOK)'
    BY Parts, PTL
  <2>3. QED
    BY <2>1, <2>2
<1>4. CASE UNCHANGED vars
  BY <1>1, <1>4 DEF vars, journalVars, exportVars, uploadVars, CheckpointInv, TypeOK,
     JournalEnds, WriterTrue, StreamTrue, ClosedTrue, Writable, Kept, FinalIsCounted, Closed
<1>5. QED
  BY <1>1, <1>3, <1>4

\* CheckpointAlways. Whatever crashes, host failures, retries and repeated batches do, the
\* journal stays a journal its reader takes, the live session and the marker stay prefixes
\* of it, and the exporter and the store agree with what the recorder admitted
\* (checkpoint/writer.py, checkpoint/uploader.py, live.accept_frames, Recorder.close).
THEOREM CheckpointAlways == Spec => []CheckpointInv
BY InitCheckpoint, StepCheckpoint, PTL DEF Spec

\* FinalIsCountedAlways. No path to the store, the exporter's, a recovery's or a seal's,
\* makes an incident final that lacks a record the recorder admitted, and one that lacks a
\* fact that superseded a record is what a full journal replays to (assemble_incident's
\* cross-check).
THEOREM FinalIsCountedAlways == Spec => []FinalIsCounted
<1>1. CheckpointInv => FinalIsCounted
  BY DEF CheckpointInv, ClosedTrue
<1>2. QED
  BY <1>1, CheckpointAlways, PTL

\* A finalized journal that is there is whole on the disk: what was synced is not lost.
LEMMA FinalizedIsWhole ==
    ASSUME RecorderOK, journal.exists, journal.finalized, ~Has(journal.frames, "exhausted")
    PROVE  WholeOnDisk
<1>1. /\ journal.frames \in Seq(Kinds) /\ Len(journal.frames) \in Nat
      /\ journal.kept \in Nat /\ journal.synced \in Nat
  BY DEF RecorderOK, RecorderTypes, Journals
<1>2. journal.kept = Len(journal.frames) /\ ~journal.torn /\ Finalized(journal.frames)
  BY <1>1 DEF RecorderOK, WriterTrue, JournalEnds
<1>3. OnDisk = journal.frames
  <2>1. /\ OnDisk \in Seq(Kinds) /\ Len(OnDisk) = Len(journal.frames)
        /\ \A i \in 1..Len(journal.frames) : OnDisk[i] = journal.frames[i]
    BY <1>1, <1>2, PrefixIs DEF OnDisk
  <2>2. QED
    BY <1>1, <2>1, SeqEqual
<1>4. Replayed(journal.frames) = Closed /\ Held(journal.frames, recorder)
  BY <1>2, HeldIs, EndsAre DEF RecorderOK, EndsParts, Holds, Closed
<1>5. Assembled(journal.frames, journal.torn) = Closed
  <2>1. journal.frames # <<>>
    BY <1>2 DEF Finalized, Has
  <2>2. CountersAgree(journal.frames)
    BY <1>4 DEF Held, CountersAgree
  <2>3. QED
    BY <1>2, <1>4, <2>1, <2>2, Zenon DEF Assembled
<1>6. QED
  BY <1>3, <1>5 DEF WholeOnDisk

\* EvidenceKeptAlways. An incident that was spooled, or closed into a whole journal whose
\* name the directory's fsync put on the disk, is never in no place at all: the journal
\* goes only once the spool has it or the caller was told otherwise, and no crash takes it
\* from where it is (Recorder.close's finally, DurableExporter.submit, release).
THEOREM EvidenceKeptAlways == Spec => []EvidenceKept
<1>1. CheckpointInv => EvidenceKept
  <2>1. SUFFICES ASSUME CheckpointInv, Promised
                 PROVE  WholeOnDisk \/ Kept
    BY DEF EvidenceKept
  <2>2. RecorderOK /\ ClosedTrue
    BY <2>1, Parts DEF ClosedOK
  <2>3. CASE recorder.accepted = "spooled"
    BY <2>2, <2>3 DEF ClosedTrue
  <2>4. CASE /\ recorder.accepted \notin {"queued", "raised", "spooled"}
             /\ journal.finalized /\ journal.named /\ ~Has(journal.frames, "exhausted")
    <3>1. recorder.accepted \in {"unasked", "no"}
      BY <2>2, <2>4 DEF RecorderOK, RecorderTypes, Recorders, Answers
    <3>2. journal.exists
      BY <2>2, <2>4, <3>1 DEF ClosedTrue
    <3>3. QED
      BY <2>2, <2>4, <3>2, FinalizedIsWhole
  <2>5. QED
    BY <2>1, <2>3, <2>4 DEF Promised
<1>2. QED
  BY <1>1, CheckpointAlways, PTL

\* StreamExtendsAlways. No batch, retried, replayed from the header or sent by two flushers
\* at once, edits what the live session holds: it extends it, or repeats it
\* (live.accept_frames).
THEOREM StreamExtendsAlways == Spec => StreamExtends
<1>1. CheckpointInv /\ [Next]_vars =>
        [\/ session' = <<>>
         \/ Len(session) <= Len(session') /\ session = SubSeq(session', 1, Len(session))]_session
  <2>1. SUFFICES ASSUME CheckpointInv, [Next]_vars
                 PROVE  \/ session' = session \/ session' = <<>>
                        \/ Len(session) <= Len(session')
                             /\ session = SubSeq(session', 1, Len(session))
    OBVIOUS
  <2>2. RecorderOK /\ StreamOK
    BY <2>1, Parts
  <2>3. CASE Next
    BY <2>2, <2>3, StreamsKeep
  <2>4. CASE UNCHANGED vars
    BY <2>4 DEF vars, uploadVars
  <2>5. QED
    BY <2>1, <2>3, <2>4
<1>2. QED
  BY <1>1, CheckpointAlways, PTL DEF Spec, StreamExtends

=============================================================================
