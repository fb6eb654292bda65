------------------------------- MODULE MCAuth -------------------------------
(* Sequence numbers up to three, a network counter that falls back once, and *)
(* lifetimes of at most one tick.                                            *)
EXTENDS Auth
=============================================================================
