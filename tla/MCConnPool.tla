----------------------------- MODULE MCConnPool -----------------------------
(* A small pool for TLC; MCConnPool.cfg gives the constants.                *)
EXTENDS ConnPool
=============================================================================
