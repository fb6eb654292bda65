------------------------------- MODULE MCScp -------------------------------
(* Two sessions of the host, three answered INITIALIZE UPDATEs, counters    *)
(* of one bit so that both wrap, one command with and one without data.     *)
EXTENDS Scp
=============================================================================
