--------------------------- MODULE MCPluginReload ---------------------------
(* Two good versions of the rules file and a broken one.                   *)
EXTENDS PluginReload

CONSTANTS v1, v2, broken, cut, gone

MCGood == {v1, v2}
MCBad  == {broken}
=============================================================================
