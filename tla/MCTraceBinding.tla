--------------------------- MODULE MCTraceBinding ----------------------------
(***************************************************************************)
(* TraceBinding for TLC: one trace with a plain and a session span, and a  *)
(* trace of a plain span alone.                                            *)
(***************************************************************************)
EXTENDS TraceBinding, TLC

CONSTANTS k1, t1, t2, a, b, x

SpanTraces == a :> t1 @@ b :> t1 @@ x :> t2

=============================================================================
