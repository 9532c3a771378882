----------------------------- MODULE MCBuilder ------------------------------
(* Two libraries stand for the six: two core ones, or a core one and one   *)
(* that only the release has an address for.  One of the two is patched.   *)
EXTENDS Builder

(* iup and im; the OpenGL part of iup may be skipped.                      *)
MCCoreLibs == {"iup", "im"}
MCCoreOrder == <<"iup", "im">>
MCCoreMake == <<"im", "iup">>
MCCorePatches == [l \in MCCoreLibs |-> IF l = "iup" THEN 1 ELSE 0]
MCCoreTargets ==
  [l \in MCCoreLibs |-> IF l = "im" THEN {"im"} ELSE {"iup", "iupgl"}]
MCFewTargets == [l \in MCCoreLibs |-> {l}]

(* iup and ftgl, which has no development address; only the sources matter *)
(* here, so the libraries have one target between them.                    *)
MCMixedLibs == {"iup", "ftgl"}
MCMixedOrder == <<"iup", "ftgl">>
MCMixedMake == <<"ftgl", "iup">>
MCMixedCore == <<"iup">>
MCMixedPatches == [l \in MCMixedLibs |-> IF l = "iup" THEN 1 ELSE 0]
MCMixedTargets == [l \in MCMixedLibs |-> IF l = "iup" THEN {l} ELSE {}]
=============================================================================
