--------------------------- MODULE MCAlienInstall ---------------------------
(* One library; the release and a development build stand for two          *)
(* releases, with a share directory each.                                  *)
EXTENDS AlienInstall

MCLibs == {"iup"}
MCOrder == <<"iup">>
MCPatches == [l \in MCLibs |-> 0]
MCTargets == [l \in MCLibs |-> {l}]
=============================================================================
