---------------------------- MODULE MCQemuBridge ----------------------------
(* A ring of eight bytes, indices that overflow after two rounds, length    *)
(* digits to base three so that both bytes of a length are used.  A guest     *)
(* that waits for each answer sends one message of every kind that changes  *)
(* the card or is answered; one with up to two answers outstanding sends    *)
(* two APDUs to tell answers apart and an empty message.                    *)
EXTENDS QemuBridge

MCMessages == <<{<<PowerOn>>, <<PowerOff>>, <<WarmReset>>, <<Apdu, 1>>},
                {<<Apdu, 1>>, <<Apdu, 7, 7>>, <<>>}>>
MCBytes == 0 .. 7
=============================================================================
