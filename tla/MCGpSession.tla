---------------------------- MODULE MCGpSession ----------------------------
(* Two registry slots and two applets that come and go; blocks of 0 or 1    *)
(* byte, a buffer of two and block numbers modulo three, so that a chain of *)
(* up to four blocks both wraps and overflows.  Three key versions for two  *)
(* entries, so that the key store is full.                                  *)
EXTENDS GpSession
MCAids == {<<1>>, <<1, 2>>}
MCLevels == {3, 7}
=============================================================================
