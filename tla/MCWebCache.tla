----------------------------- MODULE MCWebCache -----------------------------
(* Every query of every screen in turn.  Two versions make an answer old,  *)
(* one click that is sent twice lets the two overlap, one lost              *)
(* answer reaches the retries; next to the screen one other hook listens.  *)
EXTENDS WebCache
=============================================================================
