---- MODULE MCTraceView ----
(* TraceView with names whose lengths are the limits of two encodings.     *)
EXTENDS TraceView

MCLengths == {OneByte, TwoBytes}
====
