---------------------------- MODULE MCGpRegistry ----------------------------
(* Two applet slots, two applets, two security domains (one shares its AID  *)
(* with an applet), one load file that tracks two instances.                *)
EXTENDS GpRegistry
MCAids == {<<1>>, <<1, 2>>}
MCFileAids == {<<3>>}
MCSdAids == {<<1, 2>>, <<4>>}
MCLevels == {3, 7, 15}
=============================================================================
