--------------------------- MODULE MCBrowserCapture --------------------------
(* One call of up to LastSeq drains; only the drain BigSeq may be too large. *)
EXTENDS BrowserCapture

CONSTANTS LastSeq, BigSeq

MCDrains ==
    {d \in [seq : 1..LastSeq, from : 0..(LastSeq - 1), through : 0..(LastSeq - 1),
            end : BOOLEAN, big : BOOLEAN] :
        /\ IF d.from = 0 THEN d.through = 0 ELSE d.from < d.seq /\ d.through = d.seq - 1
        /\ IF d.end THEN d.seq > 1 ELSE d.seq < LastSeq
        /\ d.big => d.seq = BigSeq}

=============================================================================
