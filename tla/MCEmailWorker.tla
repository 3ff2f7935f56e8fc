--------------------------- MODULE MCEmailWorker ---------------------------
(* Two worker processes, as during a deploy, and one job that both may have    *)
(* claimed; one stall is allowed, as BullMQ does.                              *)
EXTENDS EmailWorker
=============================================================================
