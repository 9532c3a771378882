---------------------------- MODULE MCImCounter -----------------------------
(* Two counters, so that all of them can be busy, and two files, so that   *)
(* one counter has several holders that end in any order.                  *)
EXTENDS ImCounter
=============================================================================
