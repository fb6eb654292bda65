---------------------------- MODULE MCGpChannels ----------------------------
(* Two applets, one AID a prefix of the other, so that every pass of the    *)
(* AID search decides some request; the basic and one more channel.         *)
EXTENDS GpChannels
MCAids == {<<1>>, <<1, 2>>}
MCFileAids == {<<3>>}
MCSdAids == {<<4>>, <<5>>}
MCLevels == {3, 7}
MCIsdAid == <<9, 9>>
MCRequests == {<<1>>, <<1, 2>>, <<9>>}
=============================================================================
