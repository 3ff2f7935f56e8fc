--------------------------- MODULE MCKeyedMutex ---------------------------
(* Three calls contend for two keys, so that a key is evicted and made again   *)
(* while the other is held and while late continuations are still to run.      *)
(* One entry object per call is enough: a call holds at most one.              *)
EXTENDS KeyedMutex, TLC
=============================================================================
