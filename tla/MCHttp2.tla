------------------------------- MODULE MCHttp2 -------------------------------
(* Two streams, bodies larger than the windows, and small thresholds in the *)
(* proportions of the code's.                                              *)
EXTENDS Http2

==============================================================================
