---------------------------- MODULE CallRevisions ----------------------------
(***************************************************************************)
(* What the server promises of one Call, with no closer in it: the call    *)
(* gathers evidence; Revisions are published, numbered from 1; each shows  *)
(* all its predecessor shows and something more, nothing the call does not *)
(* hold, and is final exactly when it shows the call's end marker; there   *)
(* are at most RevisionCap of them, and one more if it is the first final  *)
(* one; a purge erases everything, for good.                               *)
(***************************************************************************)
EXTENDS Naturals, Sequences

CONSTANTS Items, EndMarkers, RevisionCap

VARIABLES
    gathered,   \* the evidence the call holds
    published,  \* its Revisions, in order: what each shows, and whether it is final
    erased

vars == <<gathered, published, erased>>

Init == gathered = {} /\ published = <<>> /\ erased = FALSE

Gather ==
    /\ ~erased
    /\ \E more \in SUBSET Items : gathered' = gathered \cup more
    /\ UNCHANGED <<published, erased>>

Shown == IF published = <<>> THEN {} ELSE published[Len(published)].evidence
HasFinal == \E n \in 1..Len(published) : published[n].final

Publish ==
    \E shows \in SUBSET gathered :
        LET final == shows \cap EndMarkers # {}
        IN  /\ ~erased
            /\ Shown \subseteq shows
            /\ shows # Shown
            /\ Len(published) < RevisionCap \/ (final /\ ~HasFinal)
            /\ published' = Append(published, [evidence |-> shows, final |-> final])
            /\ UNCHANGED <<gathered, erased>>

Erase ==
    /\ erased' = TRUE
    /\ gathered' = {}
    /\ published' = <<>>

Next == Gather \/ Publish \/ Erase

Spec == Init /\ [][Next]_vars

=============================================================================
