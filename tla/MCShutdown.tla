----------------------------- MODULE MCShutdown -----------------------------
(* Up to four requests whose records fill batches of two, so that one is written *)
(* while a full batch and a timer's flush are under way, and one stream.    *)
EXTENDS Shutdown

ASSUME BatchSize = 2
=============================================================================
