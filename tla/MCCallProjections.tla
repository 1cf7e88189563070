------------------------- MODULE MCCallProjections --------------------------
(***************************************************************************)
(* CallProjections for TLC.                                                *)
(***************************************************************************)
EXTENDS CallProjections

CONSTANTS p1, p2, low, high

\* The first call's first revision cannot be projected.
BrokenRevisions == {<<1, 1>>}

\* One minute, then four, shortened.
Retries == <<1>>

=============================================================================
