-------------------------- MODULE TraceBindingProofs --------------------------
(***************************************************************************)
(* Proofs about TraceBinding: BindingInv is inductive, and PurgeHolds      *)
(* follows from it. One lemma per action that moves traces, calls or       *)
(* tombstones; each takes the parts of the invariant in turn.              *)
(***************************************************************************)
EXTENDS TraceBinding, FiniteSetTheorems, TLAPS

-----------------------------------------------------------------------------
(* Facts about the data                                                    *)

LEMMA TimesNat == TombstoneTime \in Nat /\ LongQuiet \in Nat
BY BindingAssumption DEF TombstoneTime

\* A call's id is its key and a generation.
LEMMA IdParts ==
    ASSUME NEW c \in CallIds
    PROVE  c[1] \in Owners /\ c[2] \in Nat /\ c = <<c[1], c[2]>> /\ c # NoCall
BY BindingAssumption DEF CallIds

LEMMA CallOfParts ==
    ASSUME TypeOK, NEW o \in Owners
    PROVE  /\ CallOf(o) \in CallIds
           /\ CallOf(o)[1] = o /\ CallOf(o)[2] = generation[o]
           /\ CallOf(o) # NoCall
BY BindingAssumption DEF TypeOK, CallOf, CallIds

\* Spans counted are finitely many.
LEMMA SpansFinite ==
    ASSUME NEW S \in SUBSET Spans
    PROVE  IsFiniteSet(S) /\ Cardinality(S) \in Nat
BY FS_Subset, FS_CardinalityType, BindingAssumption

\* Two sets of spans with none in common count as their sum.
LEMMA CountSum ==
    ASSUME NEW S \in SUBSET Spans, NEW N \in SUBSET Spans, S \cap N = {}
    PROVE  Cardinality(S \cup N) = Cardinality(N) + Cardinality(S)
<1>1. IsFiniteSet(S) /\ IsFiniteSet(N) /\ Cardinality(S) \in Nat /\ Cardinality(N) \in Nat
  BY SpansFinite
<1>2. Cardinality(S \cup N) = Cardinality(S) + Cardinality(N) - Cardinality(S \cap N)
  BY <1>1, FS_Union
<1>3. Cardinality(S \cap N) = 0
  BY FS_EmptySet
<1>4. QED
  BY <1>1, <1>2, <1>3

\* The order of the parked traces keeps its type.
LEMMA OrderKeepsType ==
    ASSUME TypeOK, NEW received, NEW parked \in SUBSET Traces, KeepOrder(received, parked)
    PROVE  quiet' \in [Traces -> 0..LongQuiet] /\ older' \subseteq Traces \X Traces
<1>1. quiet' \in [Traces -> 0..LongQuiet]
  BY TimesNat DEF TypeOK, KeepOrder
<1>2. older' \subseteq Traces \X Traces
  BY DEF TypeOK, KeepOrder
<1>3. QED
  BY <1>1, <1>2

\* Rows that go take their spans and their flags along.
LEMMA RowsGo ==
    ASSUME SpansTrue, TypeOK, NEW gone, DeleteTraces(gone)
    PROVE  /\ SpansTrue'
           /\ traces' \subseteq Traces /\ spans' \subseteq Spans /\ session' \subseteq Traces
           /\ spans' = {s \in spans : TraceOf[s] \notin gone}
BY DEF SpansTrue, TypeOK, DeleteTraces, SpansOf

\* What a collection of tombstones, or time, leaves of them covers no more than before.
LEMMA TombstonesFade ==
    ASSUME NEW o, \A x \in DOMAIN tombstones' :
                    x \in DOMAIN tombstones /\ (tombstones'[x] > 0 => tombstones[x] > 0)
    PROVE  Tombstoned(o)' => Tombstoned(o)
BY DEF Tombstoned

\* Nothing of the parts changes when only these variables stay.
LEMMA PartsStay ==
    ASSUME BindingInv, UNCHANGED <<traces, bound, session, spans, calls, generation>>
    PROVE  BindingTrue' /\ SpansTrue' /\ CountsTrue'
BY DEF BindingInv, BindingTrue, SpansTrue, CountsTrue

-----------------------------------------------------------------------------
(* The initial state                                                       *)

LEMMA InitBinding == Init => BindingInv
<1> SUFFICES ASSUME Init PROVE BindingInv
  OBVIOUS
<1>1. TypeOK
  BY TimesNat DEF Init, TypeOK
<1>2. BindingTrue /\ SpansTrue /\ CountsTrue /\ KeysTrue
  BY DEF Init, BindingTrue, SpansTrue, CountsTrue, KeysTrue
<1>3. TombstonesTrue
  BY DEF Init, TombstonesTrue
<1>4. QED
  BY <1>1, <1>2, <1>3 DEF BindingInv

-----------------------------------------------------------------------------
(* Spans                                                                   *)

\* Where the traces of a request go, spelled out.
LEMMA RecordKeeps ==
    ASSUME BindingInv,
           NEW request \in Requests, NEW first \in FirstKeys(request), RecordSpans(request, first)
    PROVE  BindingInv'
<1> DEFINE dropped == {t \in TracesIn(request) : Dropped(t, first[t])}
           kept == TracesIn(request) \ dropped
           to == [t \in kept |-> Target(t, first[t])]
           new == {s \in DOMAIN request \ spans : TraceOf[s] \in kept}
           joining == {t \in kept \cap Parked : to[t] # NoCall}
           credited(c) == {s \in new \cup SpansOf(joining) : to[TraceOf[s]] = c}
           gone == dropped \cap traces
           named == {to[t] : t \in {k \in kept : to[k] # NoCall}}
<1> USE DEF BindingInv
<1>1. /\ project = "active"
      /\ traces' = (traces \ gone) \cup kept
      /\ bound' = [t \in Traces |-> IF t \in kept THEN to[t] ELSE bound[t]]
      /\ spans' = (spans \ SpansOf(gone)) \cup new
      /\ session' = (session \ gone) \cup {TraceOf[s] : s \in new \cap SessionSpans}
      /\ calls' = [c \in DOMAIN calls \cup named |->
                     Cardinality(credited(c)) + IF c \in DOMAIN calls THEN calls[c] ELSE 0]
      /\ KeepOrder({TraceOf[s] : s \in new}, {t \in traces' : bound'[t] = NoCall})
      /\ UNCHANGED <<project, generation, tombstones, expired, purged, covered>>
  BY DEF RecordSpans, keyVars, purgeVars
<1>2. DOMAIN request \subseteq Spans /\ TracesIn(request) \subseteq Traces
  BY BindingAssumption DEF Requests, TracesIn
<1>3. first \in [TracesIn(request) -> Keys \cup {NoKey}]
  BY DEF FirstKeys
<1>4. new \subseteq Spans /\ new \cap spans = {} /\ kept \subseteq Traces /\ gone \subseteq Traces
  BY <1>2
<1>5. ASSUME NEW t \in kept
      PROVE  /\ t \in Traces
             /\ bound[t] # NoCall => to[t] = bound[t]
             /\ bound[t] = NoCall /\ to[t] # NoCall =>
                  /\ first[t] \in Keys /\ to[t] = CallOf(first[t]) /\ ~Tombstoned(first[t])
             /\ t \notin traces => ~Tombstoned(t)
  <2>1. t \in Traces /\ to[t] = Target(t, first[t]) /\ ~Dropped(t, first[t])
    BY <1>2
  <2>2. first[t] \in Keys \cup {NoKey}
    BY <1>3
  <2>3. t \notin traces => bound[t] = NoCall
    BY <2>1 DEF BindingTrue
  <2>4. QED
    BY <2>1, <2>2, <2>3 DEF Target, Dropped
<1>6. \A t \in gone : bound[t] = NoCall /\ t \in traces /\ t \notin kept
  BY DEF Dropped
<1>7. ASSUME NEW t \in kept, to[t] # NoCall
      PROVE  /\ to[t] \in CallIds
             /\ to[t] \in DOMAIN calls \/ (bound[t] = NoCall /\ to[t] = CallOf(first[t]))
             /\ to[t] \notin DOMAIN calls => to[t][1] \in Keys
  <2>1. CASE bound[t] # NoCall
    BY <2>1, <1>5 DEF BindingTrue, TypeOK
  <2>2. CASE bound[t] = NoCall
    <3>1. first[t] \in Owners /\ first[t] \in Keys /\ to[t] = CallOf(first[t])
      BY <2>2, <1>5, <1>7 DEF Owners
    <3>2. CallOf(first[t]) \in CallIds /\ CallOf(first[t])[1] = first[t]
      BY <3>1, CallOfParts
    <3>3. QED
      BY <3>1, <3>2, <2>2
  <2>3. QED
    BY <2>1, <2>2
<1> HIDE DEF to, new
<1>8. named \subseteq CallIds /\ \A c \in named \ DOMAIN calls : c[1] \in Keys
  BY <1>7
<1>9. \A c : credited(c) \subseteq Spans
  BY <1>4 DEF SpansOf, TypeOK
<1>10. DOMAIN calls' = DOMAIN calls \cup named
  BY <1>1
<1>11. TypeOK'
  <2>1. traces' \subseteq Traces /\ session' \subseteq Traces
    BY <1>1, <1>4, BindingAssumption DEF TypeOK
  <2>2. bound' \in [Traces -> CallIds \cup {NoCall}]
    BY <1>1, <1>7 DEF TypeOK
  <2>3. quiet' \in [Traces -> 0..LongQuiet] /\ older' \subseteq Traces \X Traces
    <3>1. {t \in traces' : bound'[t] = NoCall} \subseteq Traces
      BY <2>1
    <3>2. QED
      BY <1>1, <3>1, OrderKeepsType
  <2>4. spans' \subseteq Spans
    BY <1>1, <1>4 DEF TypeOK
  <2>5. DOMAIN calls' \subseteq CallIds
    BY <1>8, <1>10 DEF TypeOK
  <2>6. calls' \in [DOMAIN calls' -> Nat]
    <3>1. \A c : Cardinality(credited(c)) \in Nat
      BY <1>9, SpansFinite
    <3>2. \A c \in DOMAIN calls' : calls'[c] \in Nat
      <4> SUFFICES ASSUME NEW c \in DOMAIN calls' PROVE calls'[c] \in Nat
        OBVIOUS
      <4>1. calls'[c] = Cardinality(credited(c)) + IF c \in DOMAIN calls THEN calls[c] ELSE 0
        BY <1>1, <1>10
      <4>2. c \in DOMAIN calls => calls[c] \in Nat
        BY DEF TypeOK
      <4> HIDE DEF credited
      <4>3. QED
        BY <4>1, <4>2, <3>1
    <3>3. QED
      BY <1>1, <3>2
  <2>7. QED
    BY <1>1, <2>1, <2>2, <2>3, <2>4, <2>5, <2>6 DEF TypeOK
<1>12. BindingTrue'
  <2>1. ASSUME NEW t \in Traces, bound'[t] # NoCall
        PROVE  /\ t \in traces' /\ bound'[t] \in DOMAIN calls'
               /\ bound'[t][1] \in Traces => bound'[t][1] = t
    <3>1. CASE t \in kept
      <4>1. bound'[t] = to[t] /\ to[t] # NoCall /\ t \in traces' /\ to[t] \in named
        BY <3>1, <1>1, <2>1
      <4>2. CASE bound[t] # NoCall
        BY <4>1, <4>2, <3>1, <1>5, <1>10 DEF BindingTrue
      <4>3. CASE bound[t] = NoCall
        <5>1. first[t] \in Keys /\ to[t] = CallOf(first[t])
          BY <4>1, <4>3, <3>1, <1>5
        <5>2. to[t][1] = first[t]
          BY <5>1, CallOfParts DEF Owners
        <5>3. to[t][1] \notin Traces
          BY <5>1, <5>2, BindingAssumption
        <5>4. QED
          BY <4>1, <5>3, <1>10
      <4>4. QED
        BY <4>2, <4>3
    <3>2. CASE t \notin kept
      BY <3>2, <1>1, <1>6, <1>10, <2>1 DEF BindingTrue
    <3>3. QED
      BY <3>1, <3>2
  <2>2. ASSUME NEW c \in DOMAIN calls', c[1] \in Traces
        PROVE  bound'[c[1]] = c
    <3>1. c \in DOMAIN calls
      BY <2>2, <1>8, <1>10, BindingAssumption
    <3>2. bound[c[1]] = c /\ c # NoCall
      BY <3>1, <2>2, IdParts DEF BindingTrue, TypeOK
    <3>3. QED
      BY <3>2, <2>2, <1>1, <1>5
  <2>3. QED
    BY <2>1, <2>2 DEF BindingTrue
<1>13. SpansTrue'
  <2>1. \A s \in spans' : TraceOf[s] \in traces'
    BY <1>1, <1>4 DEF SpansTrue, SpansOf, new
  <2>2. ASSUME NEW t \in traces'
        PROVE  \E s \in spans' : TraceOf[s] = t
    <3>1. CASE t \in traces
      <4>1. PICK s \in spans : TraceOf[s] = t
        BY <3>1 DEF SpansTrue
      <4>2. t \notin gone
        BY <1>1, <1>6, <2>2
      <4>3. s \in spans'
        BY <4>1, <4>2, <1>1 DEF SpansOf
      <4>4. QED
        BY <4>1, <4>3
    <3>2. CASE t \notin traces
      <4>1. t \in kept
        BY <3>2, <1>1, <2>2
      <4>2. PICK s \in DOMAIN request : TraceOf[s] = t
        BY <4>1 DEF TracesIn
      <4>3. s \notin spans
        BY <3>2, <4>2 DEF SpansTrue
      <4>4. s \in new
        BY <4>1, <4>2, <4>3 DEF new
      <4>5. QED
        BY <4>2, <4>4, <1>1
    <3>3. QED
      BY <3>1, <3>2
  <2>3. session' = {TraceOf[s] : s \in spans' \cap SessionSpans}
    <3>1. session = {TraceOf[s] : s \in spans \cap SessionSpans}
      BY DEF SpansTrue
    <3>2. spans' = {s \in spans : TraceOf[s] \notin gone} \cup new
      BY <1>1 DEF SpansOf
    <3>3. \A s \in new : TraceOf[s] \notin gone
      BY <1>6 DEF new
    <3>4. session' = (session \ gone) \cup {TraceOf[s] : s \in new \cap SessionSpans}
      BY <1>1
    <3> HIDE DEF gone
    <3>5. QED
      BY <3>1, <3>2, <3>3, <3>4
  <2>4. QED
    BY <2>1, <2>2, <2>3 DEF SpansTrue
<1>14. CountsTrue'
  <2> SUFFICES ASSUME NEW c \in DOMAIN calls'
               PROVE  calls'[c] = Cardinality({s \in spans' : bound'[TraceOf[s]] = c})
    BY DEF CountsTrue
  <2> DEFINE was == {s \in spans : bound[TraceOf[s]] = c}
  <2>0. c \in CallIds /\ c # NoCall
    BY <1>8, <1>10, IdParts DEF TypeOK
  <2>1. calls'[c] = Cardinality(credited(c)) + Cardinality(was)
    <3>1. CASE c \in DOMAIN calls
      BY <3>1, <1>1, <1>10 DEF CountsTrue
    <3>2. CASE c \notin DOMAIN calls
      <4>1. was = {}
        <5>1. \A s \in spans : TraceOf[s] \in Traces
          BY BindingAssumption DEF TypeOK
        <5>2. QED
          BY <5>1, <3>2, <2>0 DEF BindingTrue
      <4>2. Cardinality(was) = 0
        BY <4>1, FS_EmptySet
      <4>3. QED
        BY <3>2, <4>2, <1>1, <1>10
    <3>3. QED
      BY <3>1, <3>2
  <2>2. was \subseteq Spans /\ was \cap credited(c) = {}
    BY <2>0, <1>4 DEF TypeOK, SpansOf, Parked
  <2>3. {s \in spans' : bound'[TraceOf[s]] = c} = was \cup credited(c)
    <3>1. \A s \in Spans : TraceOf[s] \in Traces
      BY BindingAssumption
    <3>2. ASSUME NEW s \in spans', bound'[TraceOf[s]] = c
          PROVE  s \in was \cup credited(c)
      <4>1. CASE s \in new
        BY <4>1, <3>1, <3>2, <1>1, <1>4 DEF new
      <4>2. CASE s \notin new
        <5>1. s \in spans /\ TraceOf[s] \in traces /\ TraceOf[s] \in Traces
          BY <4>2, <1>1, <3>1 DEF SpansTrue, TypeOK
        <5>2. CASE TraceOf[s] \in kept /\ bound[TraceOf[s]] = NoCall
          <6>1. to[TraceOf[s]] = c
            BY <5>1, <5>2, <3>2, <1>1
          <6>2. TraceOf[s] \in joining
            BY <5>1, <5>2, <6>1, <2>0 DEF Parked
          <6>3. QED
            BY <5>1, <6>1, <6>2 DEF SpansOf
        <5>3. CASE ~(TraceOf[s] \in kept /\ bound[TraceOf[s]] = NoCall)
          BY <5>1, <5>3, <3>2, <1>1, <1>5
        <5>4. QED
          BY <5>2, <5>3
      <4>3. QED
        BY <4>1, <4>2
    <3>3. ASSUME NEW s \in was
          PROVE  s \in spans' /\ bound'[TraceOf[s]] = c
      <4>1. s \in spans /\ TraceOf[s] \in Traces /\ bound[TraceOf[s]] = c
        BY <3>1 DEF TypeOK
      <4>2. TraceOf[s] \notin gone
        BY <4>1, <1>6, <2>0
      <4>3. s \in spans'
        BY <4>1, <4>2, <1>1 DEF SpansOf
      <4>4. QED
        BY <4>1, <4>3, <1>1, <1>5, <2>0
    <3>4. ASSUME NEW s \in credited(c)
          PROVE  s \in spans' /\ bound'[TraceOf[s]] = c
      <4>1. CASE s \in new
        <5>1. TraceOf[s] \in kept /\ TraceOf[s] \in Traces
          BY <4>1, <1>4 DEF new
        <5>2. QED
          BY <4>1, <5>1, <3>4, <1>1
      <4>2. CASE s \in SpansOf(joining)
        <5>1. TraceOf[s] \in kept /\ TraceOf[s] \in Traces /\ s \in spans
          BY <4>2, <1>4 DEF SpansOf
        <5>2. TraceOf[s] \notin gone
          BY <5>1
        <5>3. s \in spans'
          BY <5>1, <5>2, <1>1 DEF SpansOf
        <5>4. QED
          BY <5>1, <5>3, <3>4, <1>1
      <4>3. QED
        BY <3>4, <4>1, <4>2
    <3>5. QED
      BY <3>2, <3>3, <3>4
  <2> HIDE DEF was, credited
  <2>4. credited(c) \subseteq Spans
    BY <1>9
  <2>5. Cardinality(was \cup credited(c)) = Cardinality(credited(c)) + Cardinality(was)
    BY <2>2, <2>4, CountSum
  <2>6. QED
    BY <2>1, <2>3, <2>5
<1>15. KeysTrue'
  <2>1. \A o : Tombstoned(o)' <=> Tombstoned(o)
    BY <1>1 DEF Tombstoned
  <2>2. \A o : CallOf(o)' = CallOf(o)
    BY <1>1 DEF CallOf
  <2>3. ASSUME NEW c \in DOMAIN calls'
        PROVE  c = CallOf(c[1]) /\ ~Tombstoned(c[1])
    <3>1. CASE c \in DOMAIN calls
      BY <3>1 DEF KeysTrue
    <3>2. CASE c \notin DOMAIN calls
      <4>1. PICK t \in kept : to[t] # NoCall /\ c = to[t]
        BY <3>2, <1>10
      <4>2. first[t] \in Keys /\ c = CallOf(first[t]) /\ ~Tombstoned(first[t])
        BY <4>1, <3>2, <1>5, <1>7
      <4>3. c[1] = first[t]
        BY <4>2, CallOfParts DEF Owners
      <4>4. QED
        BY <4>2, <4>3
    <3>3. QED
      BY <3>1, <3>2
  <2>4. \A t \in traces' : ~Tombstoned(t)
    BY <1>1, <1>5 DEF KeysTrue
  <2>5. QED
    BY <2>1, <2>2, <2>3, <2>4 DEF KeysTrue
<1>16. TombstonesTrue'
  BY <1>1 DEF TombstonesTrue, Over
<1>17. QED
  BY <1>11, <1>12, <1>13, <1>14, <1>15, <1>16

LEMMA RecordingKeeps ==
    ASSUME BindingInv, NEW k \in Keys, RecordingCall(k)
    PROVE  BindingInv'
<1> USE DEF BindingInv
<1>1. /\ project = "active" /\ ~Tombstoned(k) /\ CallOf(k) \notin DOMAIN calls
      /\ calls' = [c \in DOMAIN calls \cup {CallOf(k)} |-> IF c \in DOMAIN calls THEN calls[c] ELSE 0]
      /\ UNCHANGED <<project, traces, bound, session, quiet, older, spans, generation,
                     tombstones, expired, purged, covered>>
  BY DEF RecordingCall, traceVars, keyVars, purgeVars
<1>2. CallOf(k) \in CallIds /\ CallOf(k)[1] = k /\ CallOf(k) # NoCall /\ k \notin Traces
  BY CallOfParts, BindingAssumption DEF Owners
<1>3. TypeOK'
  BY <1>1, <1>2 DEF TypeOK
<1>4. BindingTrue' /\ SpansTrue'
  BY <1>1, <1>2 DEF BindingTrue, SpansTrue
<1>5. CountsTrue'
  <2>1. ASSUME NEW c \in DOMAIN calls
        PROVE  calls'[c] = Cardinality({s \in spans' : bound'[TraceOf[s]] = c})
    BY <1>1 DEF CountsTrue
  <2>2. {s \in spans : bound[TraceOf[s]] = CallOf(k)} = {}
    <3>1. \A s \in spans : TraceOf[s] \in Traces
      BY BindingAssumption DEF TypeOK
    <3>2. QED
      BY <1>1, <1>2, <3>1 DEF BindingTrue
  <2>3. calls'[CallOf(k)] = Cardinality({s \in spans' : bound'[TraceOf[s]] = CallOf(k)})
    BY <1>1, <2>2, FS_EmptySet
  <2>4. QED
    BY <1>1, <2>1, <2>3 DEF CountsTrue
<1>6. KeysTrue'
  <2>1. \A o : Tombstoned(o)' <=> Tombstoned(o)
    BY <1>1 DEF Tombstoned
  <2>2. \A o : CallOf(o)' = CallOf(o)
    BY <1>1 DEF CallOf
  <2>3. QED
    BY <1>1, <1>2, <2>1, <2>2 DEF KeysTrue
<1>7. TombstonesTrue'
  BY <1>1 DEF TombstonesTrue, Over
<1>8. QED
  BY <1>3, <1>4, <1>5, <1>6, <1>7

-----------------------------------------------------------------------------
(* Parked traces                                                           *)

LEMMA CollectKeeps ==
    ASSUME BindingInv, CollectParked
    PROVE  BindingInv'
<1> USE DEF BindingInv
<1>1. PICK batch \in DueBatches :
        LET promoted == {t \in batch : t \in session /\ ~Tombstoned(t)}
            gone == batch \ promoted
        IN  /\ batch # {}
            /\ \A t \in promoted : CallOf(t) \notin DOMAIN calls
            /\ DeleteTraces(gone)
            /\ bound' = [t \in Traces |-> IF t \in promoted THEN CallOf(t) ELSE bound[t]]
            /\ calls' = [c \in DOMAIN calls \cup {CallOf(t) : t \in promoted} |->
                           IF c \in DOMAIN calls THEN calls[c]
                           ELSE Cardinality(SpansOf({c[1]}))]
            /\ KeepOrder({}, Parked \ batch)
            /\ UNCHANGED <<project, keyVars, expired, purgeVars>>
  BY DEF CollectParked
<1> DEFINE promoted == {t \in batch : t \in session /\ ~Tombstoned(t)}
           gone == batch \ promoted
<1>2. /\ batch # {}
      /\ \A t \in promoted : CallOf(t) \notin DOMAIN calls
      /\ DeleteTraces(gone)
      /\ bound' = [t \in Traces |-> IF t \in promoted THEN CallOf(t) ELSE bound[t]]
      /\ calls' = [c \in DOMAIN calls \cup {CallOf(t) : t \in promoted} |->
                     IF c \in DOMAIN calls THEN calls[c] ELSE Cardinality(SpansOf({c[1]}))]
      /\ KeepOrder({}, Parked \ batch)
      /\ UNCHANGED <<project, generation, tombstones, expired, purged, covered>>
  BY <1>1 DEF keyVars, purgeVars
<1>3. batch \subseteq Parked
  BY DEF DueBatches, Batches, Due
<1>4. \A t \in batch : t \in Traces /\ t \in traces /\ bound[t] = NoCall
  BY <1>3 DEF Parked, TypeOK
<1>5. \A t \in promoted : ~Tombstoned(t) /\ t \in Traces /\ t \in traces /\ bound[t] = NoCall
                          /\ t \notin gone
  BY <1>4
<1>6. \A t \in promoted : CallOf(t) \in CallIds /\ CallOf(t)[1] = t /\ CallOf(t) # NoCall
  BY <1>5, CallOfParts DEF Owners
<1>7. \A t \in gone : t \in Traces /\ t \in traces /\ bound[t] = NoCall
  BY <1>4
<1>8. gone \subseteq Traces /\ Parked \ batch \subseteq Traces
  BY <1>7 DEF Parked, TypeOK
<1> HIDE DEF promoted, gone
<1>9. DOMAIN calls' = DOMAIN calls \cup {CallOf(t) : t \in promoted}
  BY <1>2
<1>10. /\ SpansTrue'
       /\ traces' \subseteq Traces /\ spans' \subseteq Spans /\ session' \subseteq Traces
       /\ spans' = {s \in spans : TraceOf[s] \notin gone}
  BY <1>2, RowsGo
<1>11. traces' = traces \ gone
  BY <1>2 DEF DeleteTraces
<1>12. \A s \in spans : TraceOf[s] \in Traces
  BY BindingAssumption DEF TypeOK
<1>13. TypeOK'
  <2>1. quiet' \in [Traces -> 0..LongQuiet] /\ older' \subseteq Traces \X Traces
    BY <1>2, <1>8, OrderKeepsType
  <2>2. bound' \in [Traces -> CallIds \cup {NoCall}]
    BY <1>2, <1>6 DEF TypeOK
  <2>3. \A o : Cardinality(SpansOf({o})) \in Nat
    <3>1. \A o : SpansOf({o}) \subseteq Spans
      BY DEF SpansOf, TypeOK
    <3>2. QED
      BY <3>1, SpansFinite
  <2>4. DOMAIN calls' \subseteq CallIds /\ calls' \in [DOMAIN calls' -> Nat]
    BY <1>2, <1>6, <1>9, <2>3 DEF TypeOK
  <2>5. QED
    BY <1>2, <1>10, <2>1, <2>2, <2>4 DEF TypeOK
<1>14. BindingTrue'
  <2>1. ASSUME NEW t \in Traces, bound'[t] # NoCall
        PROVE  /\ t \in traces' /\ bound'[t] \in DOMAIN calls'
               /\ bound'[t][1] \in Traces => bound'[t][1] = t
    <3>1. CASE t \in promoted
      BY <3>1, <1>2, <1>5, <1>6, <1>9, <1>11
    <3>2. CASE t \notin promoted
      BY <3>2, <2>1, <1>2, <1>7, <1>9, <1>11 DEF BindingTrue
    <3>3. QED
      BY <3>1, <3>2
  <2>2. ASSUME NEW c \in DOMAIN calls', c[1] \in Traces
        PROVE  bound'[c[1]] = c
    <3>1. CASE c \in DOMAIN calls
      <4>1. bound[c[1]] = c /\ c # NoCall
        BY <2>2, <3>1, IdParts DEF BindingTrue, TypeOK
      <4>2. QED
        BY <2>2, <4>1, <1>2, <1>5
    <3>2. CASE c \notin DOMAIN calls
      BY <3>2, <1>2, <1>5, <1>6, <1>9
    <3>3. QED
      BY <3>1, <3>2
  <2>3. QED
    BY <2>1, <2>2 DEF BindingTrue
<1>15. CountsTrue'
  <2> SUFFICES ASSUME NEW c \in DOMAIN calls'
               PROVE  calls'[c] = Cardinality({s \in spans' : bound'[TraceOf[s]] = c})
    BY DEF CountsTrue
  <2>1. CASE c \in DOMAIN calls
    <3>1. c # NoCall /\ \A t \in promoted : CallOf(t) # c
      BY <2>1, <1>2, IdParts DEF TypeOK
    <3>2. {s \in spans' : bound'[TraceOf[s]] = c} = {s \in spans : bound[TraceOf[s]] = c}
      BY <3>1, <1>2, <1>5, <1>7, <1>10, <1>12
    <3>3. calls'[c] = calls[c]
      BY <2>1, <1>2, <1>9
    <3>4. QED
      BY <2>1, <3>2, <3>3 DEF CountsTrue
  <2>2. CASE c \notin DOMAIN calls
    <3>1. PICK t \in promoted : c = CallOf(t)
      BY <2>2, <1>9
    <3>2. c[1] = t /\ c # NoCall /\ t \notin gone
      BY <3>1, <1>5, <1>6
    <3>3. {s \in spans' : bound'[TraceOf[s]] = c} = SpansOf({t})
      <4>1. \A u \in promoted : CallOf(u) = c => u = t
        BY <3>1, <1>6
      <4>2. \A u \in Traces : bound[u] # c
        BY <2>2, <3>2 DEF BindingTrue
      <4>3. \A s \in spans : bound'[TraceOf[s]] = c <=> TraceOf[s] = t
        BY <3>1, <4>1, <4>2, <1>2, <1>12
      <4>4. QED
        BY <3>2, <4>3, <1>10 DEF SpansOf
    <3>4. calls'[c] = Cardinality(SpansOf({c[1]}))
      BY <2>2, <1>2, <1>9
    <3>5. QED
      BY <3>2, <3>3, <3>4
  <2>3. QED
    BY <2>1, <2>2
<1>16. KeysTrue'
  <2>1. \A o : (Tombstoned(o)' <=> Tombstoned(o)) /\ CallOf(o)' = CallOf(o)
    BY <1>2 DEF Tombstoned, CallOf
  <2>2. \A c \in DOMAIN calls' : c = CallOf(c[1]) /\ ~Tombstoned(c[1])
    BY <1>5, <1>6, <1>9 DEF KeysTrue
  <2>3. QED
    BY <2>1, <2>2, <1>11 DEF KeysTrue
<1>17. TombstonesTrue'
  <2>1. traces # {} /\ ~Over /\ project # "deleted"
    BY <1>2, <1>4 DEF Over, TombstonesTrue, NothingLeft
  <2>2. QED
    BY <2>1, <1>2 DEF TombstonesTrue
<1>18. QED
  BY <1>10, <1>13, <1>14, <1>15, <1>16, <1>17

-----------------------------------------------------------------------------
(* Purge and project deletion                                              *)

\* Calls that go with all their traces, and parked traces with them, leave the rest as it
\* was: what a purge of one call and a batch of a project's deletion have in common.
LEMMA EvidenceGoes ==
    ASSUME BindingInv, NEW C \in SUBSET DOMAIN calls, NEW P \in SUBSET Parked,
           DeleteTraces(TracesOf(C) \cup P),
           bound' = [t \in Traces |-> IF t \in TracesOf(C) \cup P THEN NoCall ELSE bound[t]],
           calls' = WithoutCalls(C)
    PROVE  /\ BindingTrue' /\ SpansTrue' /\ CountsTrue'
           /\ traces' \subseteq Traces /\ spans' \subseteq Spans /\ session' \subseteq Traces
           /\ bound' \in [Traces -> CallIds \cup {NoCall}]
           /\ DOMAIN calls' \subseteq CallIds /\ calls' \in [DOMAIN calls' -> Nat]
<1> USE DEF BindingInv
<1> DEFINE gone == TracesOf(C) \cup P
<1>1. /\ SpansTrue'
      /\ traces' \subseteq Traces /\ spans' \subseteq Spans /\ session' \subseteq Traces
      /\ spans' = {s \in spans : TraceOf[s] \notin gone}
  BY RowsGo
<1>2. traces' = traces \ gone
  BY DEF DeleteTraces
<1>3. DOMAIN calls' = DOMAIN calls \ C /\ \A d \in DOMAIN calls' : calls'[d] = calls[d]
  BY DEF WithoutCalls
<1>4. bound' \in [Traces -> CallIds \cup {NoCall}]
  BY DEF TypeOK
<1>5. DOMAIN calls' \subseteq CallIds /\ calls' \in [DOMAIN calls' -> Nat]
  BY <1>3 DEF TypeOK, WithoutCalls
<1>6. ASSUME NEW t \in Traces, NEW d \in DOMAIN calls'
      PROVE  (bound'[t] = d <=> bound[t] = d) /\ (bound[t] = d => t \notin gone) /\ d # NoCall
  BY <1>3, IdParts DEF TypeOK, TracesOf, Parked
<1>7. BindingTrue'
  <2>1. \A t \in Traces : bound'[t] # NoCall =>
          /\ t \in traces' /\ bound'[t] \in DOMAIN calls'
          /\ bound'[t][1] \in Traces => bound'[t][1] = t
    BY <1>2, <1>3 DEF BindingTrue, TracesOf
  <2>2. \A d \in DOMAIN calls' : d[1] \in Traces => bound'[d[1]] = d
    BY <1>3, <1>6 DEF BindingTrue
  <2>3. QED
    BY <2>1, <2>2 DEF BindingTrue
<1>8. CountsTrue'
  <2> SUFFICES ASSUME NEW d \in DOMAIN calls'
               PROVE  calls'[d] = Cardinality({s \in spans' : bound'[TraceOf[s]] = d})
    BY DEF CountsTrue
  <2>1. \A s \in spans : TraceOf[s] \in Traces
    BY BindingAssumption DEF TypeOK
  <2> HIDE DEF gone
  <2>2. {s \in spans' : bound'[TraceOf[s]] = d} = {s \in spans : bound[TraceOf[s]] = d}
    BY <1>1, <1>6, <2>1
  <2>3. QED
    BY <1>3, <2>2 DEF CountsTrue
<1>9. QED
  BY <1>1, <1>4, <1>5, <1>7, <1>8

LEMMA PurgeKeeps ==
    ASSUME BindingInv, NEW c \in DOMAIN calls, PurgeCall(c)
    PROVE  BindingInv'
<1> USE DEF BindingInv
<1> DEFINE gone == TracesOf({c})
           buried == {c} \cup {<<t, 0>> : t \in gone}
<1>1. /\ DeleteTraces(gone)
      /\ bound' = [t \in Traces |-> IF t \in gone THEN NoCall ELSE bound[t]]
      /\ calls' = WithoutCalls({c})
      /\ generation' = [generation EXCEPT ![c[1]] = IF @ = 0 THEN c[2] + 1 ELSE @ + 1]
      /\ tombstones' = [x \in DOMAIN tombstones \cup buried |->
                          IF x \in buried THEN TombstoneTime ELSE tombstones[x]]
      /\ purged' = purged \cup {c}
      /\ covered' = [o \in Owners |->
                       IF o = c[1] \/ o \in gone THEN TombstoneTime ELSE covered[o]]
      /\ UNCHANGED <<project, quiet, older, expired>>
  BY DEF PurgeCall
<1>2. c \in CallIds /\ c[1] \in Owners /\ c[2] \in Nat /\ c # NoCall
  BY IdParts DEF TypeOK
<1>3. c[2] = generation[c[1]]
  BY <1>2, CallOfParts DEF KeysTrue
<1>4. /\ generation' \in [Owners -> Nat]
      /\ generation'[c[1]] = c[2] + 1
      /\ \A o \in Owners : generation[o] <= generation'[o]
      /\ \A o \in Owners : o # c[1] => generation'[o] = generation[o]
  BY <1>1, <1>2, <1>3 DEF TypeOK
<1>5. \A t \in gone : t \in Traces /\ t \in Owners /\ t \in traces /\ bound[t] = c
  BY <1>2 DEF TracesOf, BindingTrue, Owners
<1>6. buried \subseteq CallIds /\ \A x \in buried : x[1] = c[1] \/ x[1] \in gone
  BY <1>2, <1>5 DEF CallIds
<1>7. /\ BindingTrue' /\ SpansTrue' /\ CountsTrue'
      /\ traces' \subseteq Traces /\ spans' \subseteq Spans /\ session' \subseteq Traces
      /\ bound' \in [Traces -> CallIds \cup {NoCall}]
      /\ DOMAIN calls' \subseteq CallIds /\ calls' \in [DOMAIN calls' -> Nat]
  <2>1. {c} \in SUBSET DOMAIN calls /\ {} \in SUBSET Parked /\ gone \cup {} = gone
    OBVIOUS
  <2>2. DeleteTraces(TracesOf({c}) \cup {})
    BY <1>1, <2>1
  <2>3. bound' = [t \in Traces |-> IF t \in TracesOf({c}) \cup {} THEN NoCall ELSE bound[t]]
    BY <1>1
  <2>4. QED
    BY <1>1, <2>1, <2>2, <2>3, EvidenceGoes
<1>8. DOMAIN calls' = DOMAIN calls \ {c} /\ traces' = traces \ gone
  BY <1>1 DEF WithoutCalls, DeleteTraces
<1> HIDE DEF gone, buried
<1>9. TypeOK'
  <2>1. DOMAIN tombstones' = DOMAIN tombstones \cup buried
    BY <1>1
  <2>2. DOMAIN tombstones' \subseteq CallIds /\ tombstones' \in [DOMAIN tombstones' -> 0..TombstoneTime]
    BY <1>1, <1>6, <2>1, TimesNat DEF TypeOK
  <2>3. purged' \subseteq CallIds /\ covered' \in [Owners -> 0..TombstoneTime]
    BY <1>1, <1>2, TimesNat DEF TypeOK
  <2>4. QED
    BY <1>1, <1>4, <1>7, <2>2, <2>3 DEF TypeOK
<1>10. KeysTrue'
  <2>1. ASSUME NEW o, Tombstoned(o)'
        PROVE  Tombstoned(o) \/ o = c[1] \/ o \in gone
    BY <1>1, <1>6, <2>1 DEF Tombstoned
  <2>2. ASSUME NEW d \in DOMAIN calls'
        PROVE  d = CallOf(d[1])' /\ ~Tombstoned(d[1])'
    <3>1. d \in DOMAIN calls /\ d # c /\ d[1] \in Owners
      BY <1>8, IdParts DEF TypeOK
    <3>2. d = CallOf(d[1]) /\ c = CallOf(c[1]) /\ ~Tombstoned(d[1])
      BY <3>1 DEF KeysTrue
    <3>3. d[1] # c[1]
      BY <3>1, <3>2
    <3>4. d[1] \notin gone
      BY <3>1, <1>5 DEF BindingTrue
    <3>5. d = CallOf(d[1])'
      BY <3>1, <3>2, <3>3, <1>4 DEF CallOf
    <3>6. QED
      BY <2>1, <3>2, <3>3, <3>4, <3>5
  <2>3. ASSUME NEW t \in traces'
        PROVE  ~Tombstoned(t)'
    <3>1. t \in traces /\ t \notin gone /\ t \in Traces /\ ~Tombstoned(t)
      BY <1>7, <1>8 DEF KeysTrue
    <3>2. t # c[1]
      BY <3>1 DEF BindingTrue, gone, TracesOf
    <3>3. QED
      BY <2>1, <3>1, <3>2
  <2>4. QED
    BY <2>2, <2>3 DEF KeysTrue
<1>11. TombstonesTrue'
  <2>1. ~Over /\ project # "deleted"
    BY DEF Over, TombstonesTrue, NothingLeft
  <2>2. ASSUME NEW d \in purged'
        PROVE  d[2] < generation'[d[1]]
    <3>1. CASE d = c
      BY <3>1, <1>2, <1>4
    <3>2. CASE d # c
      <4>1. d \in purged /\ d[1] \in Owners /\ d[2] \in Nat
        BY <3>2, <1>1, IdParts DEF TypeOK
      <4>2. d[2] < generation[d[1]] /\ generation[d[1]] \in Nat /\ generation'[d[1]] \in Nat
        BY <4>1, <2>1, <1>4 DEF TombstonesTrue, TypeOK
      <4>3. QED
        BY <4>1, <4>2, <1>4
    <3>3. QED
      BY <3>1, <3>2
  <2>3. ASSUME NEW o \in Owners, covered'[o] > 0
        PROVE  \E x \in DOMAIN tombstones' : x[1] = o /\ tombstones'[x] >= covered'[o]
    <3>1. CASE o = c[1]
      <4>1. c \in buried
        BY DEF buried
      <4>2. c \in DOMAIN tombstones' /\ tombstones'[c] = TombstoneTime /\ covered'[o] = TombstoneTime
        BY <3>1, <4>1, <1>1
      <4>3. QED
        BY <3>1, <4>2, TimesNat
    <3>2. CASE o \in gone
      <4>1. <<o, 0>> \in buried
        BY <3>2 DEF buried
      <4>2. <<o, 0>> \in DOMAIN tombstones' /\ tombstones'[<<o, 0>>] = TombstoneTime
            /\ covered'[o] = TombstoneTime
        BY <3>2, <4>1, <1>1
      <4>3. <<o, 0>>[1] = o
        OBVIOUS
      <4>4. QED
        BY <4>2, <4>3, TimesNat
    <3>3. CASE o # c[1] /\ o \notin gone
      <4>1. covered'[o] = covered[o]
        BY <3>3, <1>1
      <4>2. PICK x \in DOMAIN tombstones : x[1] = o /\ tombstones[x] >= covered[o]
        BY <2>1, <2>3, <4>1 DEF TombstonesTrue
      <4>3. x \notin buried
        BY <3>3, <4>2, <1>6
      <4>4. x \in DOMAIN tombstones' /\ tombstones'[x] = tombstones[x]
        BY <4>3, <1>1
      <4>5. QED
        BY <4>1, <4>2, <4>4
    <3>4. QED
      BY <3>1, <3>2, <3>3
  <2>4. QED
    BY <2>1, <2>2, <2>3, <1>1 DEF TombstonesTrue
<1>12. QED
  BY <1>7, <1>9, <1>10, <1>11

LEMMA ReadKeeps ==
    ASSUME BindingInv, ReadExpired
    PROVE  BindingInv'
<1> USE DEF BindingInv
<1>1. /\ expired' = {x \in DOMAIN tombstones : tombstones[x] = 0}
      /\ UNCHANGED <<project, traces, bound, session, quiet, older, spans, calls, generation,
                     tombstones, purged, covered>>
  BY DEF ReadExpired, traceVars, keyVars, purgeVars
<1>2. TypeOK'
  BY <1>1 DEF TypeOK
<1>3. BindingTrue' /\ SpansTrue' /\ CountsTrue'
  BY <1>1, PartsStay
<1>4. KeysTrue'
  BY <1>1 DEF KeysTrue, CallOf, Tombstoned
<1>5. TombstonesTrue'
  BY <1>1 DEF TombstonesTrue, Over, NothingLeft
<1>6. QED
  BY <1>2, <1>3, <1>4, <1>5

LEMMA DeleteExpiredKeeps ==
    ASSUME BindingInv, DeleteExpired
    PROVE  BindingInv'
<1> USE DEF BindingInv
<1>1. /\ tombstones' = [x \in {y \in DOMAIN tombstones : y \notin expired \/ tombstones[y] > 0}
                          |-> tombstones[x]]
      /\ expired' = {}
      /\ UNCHANGED <<project, traces, bound, session, quiet, older, spans, calls, generation,
                     purged, covered>>
  BY DEF DeleteExpired, traceVars, purgeVars
<1>2. /\ \A x \in DOMAIN tombstones' : x \in DOMAIN tombstones /\ tombstones'[x] = tombstones[x]
      /\ \A x \in DOMAIN tombstones : tombstones[x] > 0 => x \in DOMAIN tombstones'
  BY <1>1
<1>3. TypeOK'
  BY <1>1, <1>2 DEF TypeOK
<1>4. BindingTrue' /\ SpansTrue' /\ CountsTrue'
  BY <1>1, PartsStay
<1>5. KeysTrue'
  <2>1. \A o : (Tombstoned(o)' => Tombstoned(o)) /\ CallOf(o)' = CallOf(o)
    BY <1>1, <1>2, TombstonesFade DEF CallOf
  <2>2. QED
    BY <1>1, <2>1 DEF KeysTrue
<1>6. TombstonesTrue'
  <2>1. ASSUME NEW o \in Owners, covered[o] > 0, ~Over
        PROVE  \E x \in DOMAIN tombstones' : x[1] = o /\ tombstones'[x] >= covered[o]
    <3>1. PICK x \in DOMAIN tombstones : x[1] = o /\ tombstones[x] >= covered[o]
      BY <2>1 DEF TombstonesTrue
    <3>2. tombstones[x] > 0
      BY <2>1, <3>1 DEF TypeOK
    <3>3. QED
      BY <3>1, <3>2, <1>2
  <2>2. NothingLeft => NothingLeft'
    BY <1>1, <1>2 DEF NothingLeft
  <2>3. Over' = Over
    BY <1>1 DEF Over
  <2>4. QED
    BY <1>1, <2>1, <2>2, <2>3 DEF TombstonesTrue
<1>7. QED
  BY <1>3, <1>4, <1>5, <1>6

\* The fence and the end of a deletion touch the project's state alone.
LEMMA ProjectKeeps ==
    ASSUME BindingInv, BeginDeletion \/ MarkDeleted
    PROVE  BindingInv'
<1> USE DEF BindingInv
<1>1. /\ (project = "active" /\ project' = "deleting")
         \/ (project = "deleting" /\ NothingLeft /\ project' = "deleted")
      /\ UNCHANGED <<traces, bound, session, quiet, older, spans, calls, generation,
                     tombstones, expired, purged, covered>>
  BY DEF BeginDeletion, MarkDeleted, traceVars, keyVars, purgeVars
<1>2. TypeOK'
  BY <1>1 DEF TypeOK
<1>3. BindingTrue' /\ SpansTrue' /\ CountsTrue'
  BY <1>1, PartsStay
<1>4. KeysTrue'
  BY <1>1 DEF KeysTrue, CallOf, Tombstoned
<1>5. TombstonesTrue'
  BY <1>1 DEF TombstonesTrue, Over, NothingLeft
<1>6. QED
  BY <1>2, <1>3, <1>4, <1>5

LEMMA DeleteBatchKeeps ==
    ASSUME BindingInv, DeleteBatch
    PROVE  BindingInv'
<1> USE DEF BindingInv
<1>1. PICK C \in Batches(DOMAIN calls, DeleteBatchSize), P \in Batches(Parked, DeleteBatchSize) :
          LET gone == TracesOf(C) \cup P
          IN  /\ DeleteTraces(gone)
              /\ bound' = [t \in Traces |-> IF t \in gone THEN NoCall ELSE bound[t]]
              /\ calls' = WithoutCalls(C)
              /\ KeepOrder({}, Parked \ P)
              /\ IF C = DOMAIN calls /\ traces \subseteq gone
                 THEN DeleteKeyRows
                 ELSE UNCHANGED keyVars
  BY DEF DeleteBatch
<1> DEFINE gone == TracesOf(C) \cup P
<1>2. /\ project = "deleting"
      /\ DeleteTraces(gone)
      /\ bound' = [t \in Traces |-> IF t \in gone THEN NoCall ELSE bound[t]]
      /\ calls' = WithoutCalls(C)
      /\ KeepOrder({}, Parked \ P)
      /\ UNCHANGED <<project, expired, purged, covered>>
  BY <1>1 DEF DeleteBatch, purgeVars
<1>3. C \in SUBSET DOMAIN calls /\ P \in SUBSET Parked
  BY DEF Batches
<1>4. /\ BindingTrue' /\ SpansTrue' /\ CountsTrue'
      /\ traces' \subseteq Traces /\ spans' \subseteq Spans /\ session' \subseteq Traces
      /\ bound' \in [Traces -> CallIds \cup {NoCall}]
      /\ DOMAIN calls' \subseteq CallIds /\ calls' \in [DOMAIN calls' -> Nat]
  BY <1>2, <1>3, EvidenceGoes
<1>5. DOMAIN calls' = DOMAIN calls \ C /\ traces' = traces \ gone
  BY <1>2 DEF WithoutCalls, DeleteTraces
<1>6. quiet' \in [Traces -> 0..LongQuiet] /\ older' \subseteq Traces \X Traces
  <2>1. Parked \ P \subseteq Traces
    BY DEF Parked, TypeOK
  <2>2. QED
    BY <1>2, <2>1, OrderKeepsType
<1>7. CASE C = DOMAIN calls /\ traces \subseteq gone
  <2>1. DeleteKeyRows
    BY <1>1, <1>7
  <2>2. traces' = {} /\ DOMAIN calls' = {} /\ Over'
    BY <1>2, <1>5, <1>7 DEF Over
  <2>3. generation' \in [Owners -> Nat]
    BY <2>1 DEF DeleteKeyRows, TypeOK
  <2>4. DOMAIN tombstones' \subseteq CallIds /\ tombstones' \in [DOMAIN tombstones' -> 0..TombstoneTime]
    <3>1. \/ UNCHANGED tombstones
          \/ \E T \in Batches(DOMAIN tombstones, DeleteBatchSize) :
               tombstones' = [x \in DOMAIN tombstones \ T |-> tombstones[x]]
      BY <2>1 DEF DeleteKeyRows
    <3>2. QED
      BY <3>1 DEF TypeOK
  <2>5. TypeOK'
    BY <1>2, <1>4, <1>6, <2>3, <2>4 DEF TypeOK
  <2>6. KeysTrue' /\ TombstonesTrue'
    BY <1>2, <2>2 DEF KeysTrue, TombstonesTrue
  <2>7. QED
    BY <1>4, <2>5, <2>6
<1>8. CASE ~(C = DOMAIN calls /\ traces \subseteq gone)
  <2>1. UNCHANGED <<generation, tombstones>>
    BY <1>1, <1>8 DEF keyVars
  <2>2. TypeOK'
    BY <1>2, <1>4, <1>6, <2>1 DEF TypeOK
  <2>3. KeysTrue'
    BY <1>5, <2>1 DEF KeysTrue, CallOf, Tombstoned
  <2>4. Over => Over'
    BY <1>2, <1>5 DEF Over
  <2>5. TombstonesTrue'
    BY <1>2, <2>1, <2>4 DEF TombstonesTrue
  <2>6. QED
    BY <1>4, <2>2, <2>3, <2>5
<1>9. QED
  BY <1>7, <1>8

-----------------------------------------------------------------------------
(* Time                                                                    *)

LEMMA TickKeeps ==
    ASSUME BindingInv, Tick
    PROVE  BindingInv'
<1> USE DEF BindingInv
<1>1. /\ quiet' = [t \in Traces |-> IF t \in Parked /\ quiet[t] < LongQuiet
                                    THEN quiet[t] + 1 ELSE quiet[t]]
      /\ tombstones' = [x \in DOMAIN tombstones |-> Less(tombstones[x])]
      /\ covered' = [o \in Owners |-> Less(covered[o])]
      /\ UNCHANGED <<project, traces, bound, session, older, spans, calls, generation, expired,
                     purged>>
  BY DEF Tick
<1>2. \A n \in 0..TombstoneTime : Less(n) \in 0..TombstoneTime /\ (Less(n) > 0 => n > 0)
  BY TimesNat DEF Less
<1>3. \A n, m \in 0..TombstoneTime : n >= m => Less(n) >= Less(m)
  BY TimesNat DEF Less
<1>4. \A x \in DOMAIN tombstones : tombstones[x] \in 0..TombstoneTime
  BY DEF TypeOK
<1>5. \A o \in Owners : covered[o] \in 0..TombstoneTime
  BY DEF TypeOK
<1>6. TypeOK'
  <2>1. quiet' \in [Traces -> 0..LongQuiet]
    BY <1>1, TimesNat DEF TypeOK
  <2>2. tombstones' \in [DOMAIN tombstones' -> 0..TombstoneTime]
        /\ DOMAIN tombstones' = DOMAIN tombstones
    BY <1>1, <1>2, <1>4
  <2>3. covered' \in [Owners -> 0..TombstoneTime]
    BY <1>1, <1>2, <1>5
  <2>4. QED
    BY <1>1, <2>1, <2>2, <2>3 DEF TypeOK
<1>7. BindingTrue' /\ SpansTrue' /\ CountsTrue'
  BY <1>1, PartsStay
<1>8. KeysTrue'
  <2>1. \A o : (Tombstoned(o)' => Tombstoned(o)) /\ CallOf(o)' = CallOf(o)
    <3>1. \A x \in DOMAIN tombstones' :
            x \in DOMAIN tombstones /\ (tombstones'[x] > 0 => tombstones[x] > 0)
      BY <1>1, <1>2, <1>4
    <3>2. QED
      BY <1>1, <3>1, TombstonesFade DEF CallOf
  <2>2. QED
    BY <1>1, <2>1 DEF KeysTrue
<1>9. TombstonesTrue'
  <2>1. ASSUME NEW o \in Owners, covered'[o] > 0, ~Over
        PROVE  \E x \in DOMAIN tombstones' : x[1] = o /\ tombstones'[x] >= covered'[o]
    <3>1. covered[o] > 0 /\ covered'[o] = Less(covered[o])
      BY <2>1, <1>1, <1>2, <1>5
    <3>2. PICK x \in DOMAIN tombstones : x[1] = o /\ tombstones[x] >= covered[o]
      BY <2>1, <3>1 DEF TombstonesTrue
    <3>3. x \in DOMAIN tombstones' /\ tombstones'[x] = Less(tombstones[x])
      BY <3>2, <1>1
    <3>4. QED
      BY <3>1, <3>2, <3>3, <1>3, <1>4, <1>5
  <2>2. NothingLeft => NothingLeft'
    BY <1>1 DEF NothingLeft
  <2>3. Over' = Over
    BY <1>1 DEF Over
  <2>4. QED
    BY <1>1, <2>1, <2>2, <2>3 DEF TombstonesTrue
<1>10. QED
  BY <1>6, <1>7, <1>8, <1>9

-----------------------------------------------------------------------------
(* The theorems                                                            *)

LEMMA BindingStep == BindingInv /\ [Next]_vars => BindingInv'
<1> SUFFICES ASSUME BindingInv, [Next]_vars PROVE BindingInv'
  OBVIOUS
<1>1. ASSUME NEW request \in Requests, NEW first \in FirstKeys(request), RecordSpans(request, first)
      PROVE  BindingInv'
  BY <1>1, RecordKeeps
<1>2. ASSUME NEW k \in Keys, RecordingCall(k)
      PROVE  BindingInv'
  BY <1>2, RecordingKeeps
<1>3. CASE CollectParked
  BY <1>3, CollectKeeps
<1>4. ASSUME NEW c \in DOMAIN calls, PurgeCall(c)
      PROVE  BindingInv'
  BY <1>4, PurgeKeeps
<1>5. CASE ReadExpired
  BY <1>5, ReadKeeps
<1>6. CASE DeleteExpired
  BY <1>6, DeleteExpiredKeeps
<1>7. CASE BeginDeletion \/ MarkDeleted
  BY <1>7, ProjectKeeps
<1>8. CASE DeleteBatch
  BY <1>8, DeleteBatchKeeps
<1>9. CASE Tick
  BY <1>9, TickKeeps
<1>10. CASE UNCHANGED vars
  <2>1. UNCHANGED <<project, traces, bound, session, quiet, older, spans, calls, generation,
                    tombstones, expired, purged, covered>>
    BY <1>10 DEF vars, traceVars, keyVars, purgeVars
  <2>2. TypeOK'
    BY <2>1 DEF BindingInv, TypeOK
  <2>3. BindingTrue' /\ SpansTrue' /\ CountsTrue'
    BY <2>1, PartsStay
  <2>4. KeysTrue'
    BY <2>1 DEF BindingInv, KeysTrue, CallOf, Tombstoned
  <2>5. TombstonesTrue'
    BY <2>1 DEF BindingInv, TombstonesTrue, Over, NothingLeft
  <2>6. QED
    BY <2>2, <2>3, <2>4, <2>5 DEF BindingInv
<1>11. QED
  BY <1>1, <1>2, <1>3, <1>4, <1>5, <1>6, <1>7, <1>8, <1>9, <1>10 DEF Next

\* Whatever is sent, collected, purged or deleted in whatever order, the bindings of
\* call_traces, the span counts of calls, the generations and the tombstones stay true to
\* one another (storage_calls.py, storage_call_purge.py), for any keys, traces and times.
THEOREM BindingAlways == Spec => []BindingInv
<1>1. QED
  BY InitBinding, BindingStep, PTL DEF Spec

\* The invariant says why a purge holds: a purged call's id is of a generation the key has
\* left, and while its purge covers a key a live tombstone of it does, which no stored
\* trace and no call have.
LEMMA CoveredHold == BindingInv => PurgeHolds
<1> SUFFICES ASSUME BindingInv PROVE PurgeHolds
  OBVIOUS
<1> USE DEF BindingInv
<1>1. ASSUME NEW c \in purged, c \in DOMAIN calls
      PROVE  FALSE
  <2>1. c \in CallIds /\ c[1] \in Owners /\ c[2] \in Nat
    BY <1>1, IdParts DEF TypeOK
  <2>2. c[2] < generation[c[1]]
    BY <1>1 DEF TombstonesTrue, Over
  <2>3. c[2] = generation[c[1]]
    BY <1>1, <2>1, CallOfParts DEF KeysTrue
  <2>4. QED
    BY <2>1, <2>2, <2>3
<1>2. ASSUME NEW o \in Owners, covered[o] > 0
      PROVE  o \notin traces /\ \A c \in DOMAIN calls : c[1] # o
  <2>1. CASE Over
    BY <2>1 DEF Over
  <2>2. CASE ~Over
    <3>1. PICK x \in DOMAIN tombstones : x[1] = o /\ tombstones[x] >= covered[o]
      BY <1>2, <2>2 DEF TombstonesTrue
    <3>2. tombstones[x] > 0
      BY <1>2, <3>1 DEF TypeOK
    <3>3. Tombstoned(o)
      BY <3>1, <3>2 DEF Tombstoned
    <3>4. QED
      BY <3>3 DEF KeysTrue
  <2>3. QED
    BY <2>1, <2>2
<1>3. QED
  BY <1>1, <1>2 DEF PurgeHolds

\* "A purged call is never rebuilt" (storage_calls.py), for any keys, traces and times: late
\* spans, recordings, promotions, a tombstone collection that read before the purge
\* renewed what it deletes, and the batches of a project's deletion in between.
THEOREM PurgeHoldsAlways == Spec => []PurgeHolds
<1>1. QED
  BY BindingAlways, CoveredHold, PTL

=============================================================================
