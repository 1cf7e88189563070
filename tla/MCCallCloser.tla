---------------------------- MODULE MCCallCloser -----------------------------
(***************************************************************************)
(* CallCloser for TLC. The instances of the .cfg files name the spans and  *)
(* recordings by model values; here is what they share.                    *)
(***************************************************************************)
EXTENDS CallCloser, TLC

\* Closers are interchangeable: no safety property names one. (No symmetry where
\* liveness is checked.)
Symmetry == Permutations(Closers)

=============================================================================
