---------------------------- MODULE MCJwksCache -----------------------------
(* A small instance of JwksCache for TLC.                                  *)
EXTENDS JwksCache
=============================================================================
