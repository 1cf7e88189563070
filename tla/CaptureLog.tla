------------------------------ MODULE CaptureLog -----------------------------
(***************************************************************************)
(* What the capture endpoint promises of one continuous browser call: the  *)
(* call is a log to which a drain is appended once, in the order of its    *)
(* sequence, with the losses declared before it; a drain that ends the     *)
(* call is its last; and what was acknowledged is in the log for good.     *)
(***************************************************************************)
EXTENDS Integers, Sequences, FiniteSets

CONSTANT Drains   \* what a client may post: seq, resync, end

VARIABLES log, acknowledged

LastOf(l) == IF l = <<>> THEN 0 ELSE l[Len(l)].drain.seq
EndedBy(l) == l # <<>> /\ l[Len(l)].drain.end

Init == log = <<>> /\ acknowledged = {}

\* The drain's facts, and as lost exactly the numbers between it and the last one.
Apply(d) ==
    /\ ~EndedBy(log)
    /\ d.seq > LastOf(log)
    /\ log' = Append(log, [drain |-> d, lost |-> (LastOf(log) + 1)..(d.seq - 1)])
    /\ UNCHANGED acknowledged

Acknowledge(d) ==
    /\ \E n \in 1..Len(log) : log[n].drain = d
    /\ acknowledged' = acknowledged \cup {d}
    /\ UNCHANGED log

Next == \E d \in Drains : Apply(d) \/ Acknowledge(d)

Spec == Init /\ [][Next]_<<log, acknowledged>>

=============================================================================
