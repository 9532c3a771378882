---------------------------- MODULE MCImAttrib ------------------------------
(* Three names, two of which share a chain of the first table; the second  *)
(* table is a single chain.  Two arrays of two places.                     *)
EXTENDS ImAttrib

CONSTANTS t1, t2, r1, r2, k1, k2, k3

MCHash == [n \in Name |-> CASE n = k1 -> 0 [] n = k2 -> 1 [] n = k3 -> 2]
MCHashSize == [t \in Object |-> CASE t = t1 -> 2 [] t = t2 -> 1 [] OTHER -> 2]
=============================================================================
