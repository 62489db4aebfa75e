---------------------------- MODULE MCHttpServer -----------------------------
(* Two pipelined requests, each answered in up to two writes.     *)
EXTENDS HttpServer

==============================================================================
