------------------------------- MODULE MCPin -------------------------------
(* Two keys, room for one slot: the second registration meets a full        *)
(* manager, and every command also meets an unregistered key.               *)
EXTENDS Pin, TLC
CONSTANTS k1, k2, v1, v2
MCKeys == {k1, k2}
MCValues == {v1, v2}
MCLimits == {1, 2}
Symm == Permutations(MCKeys) \cup Permutations(MCValues)
=============================================================================
