---------------------------- MODULE MCTransaction ----------------------------
(* Three bytes of heap, one of them a PIN try counter, and a journal of two *)
(* entries: it fills up, and one byte can be written twice.                 *)
EXTENDS Transaction
==============================================================================
