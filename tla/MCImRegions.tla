----------------------------- MODULE MCImRegions -----------------------------
(***************************************************************************)
(* The images the regions of are looked for in: every one of three by      *)
(* three pixels; larger ones of which the middle is free and something     *)
(* lies at the border; and combs, whose teeth get numbers of their own     *)
(* that are found to be one region only when the scan reaches the back.    *)
(***************************************************************************)
EXTENDS ImRegions

Grid(h, w) == (0 .. h - 1) \X (0 .. w - 1)
Images(h, w, Whites) == [width : {w}, height : {h}, white : Whites]

Small == Images(3, 3, SUBSET Grid(3, 3)) \cup Images(1, 3, SUBSET Grid(1, 3))
           \cup Images(3, 1, SUBSET Grid(3, 1))

Wide == Images(2, 5, SUBSET Grid(2, 5))

Middle ==
  Images(5, 5, {S \cup T : S \in SUBSET ((1 .. 3) \X (1 .. 3)),
                           T \in {{}, {<<0, 1>>, <<4, 0>>, <<4, 1>>}, {<<2, 0>>, <<3, 0>>}}})

Comb == {p \in Grid(3, 6) : p[2] % 2 = 0 \/ p[1] = 2}
Ladder == {p \in Grid(5, 7) : p[2] % 3 = 0 \/ p[1] = 4 \/ (p[1] = 2 /\ p[2] > 3)}

Combs ==
  Images(3, 6, {Comb \ S : S \in SUBSET {<<2, 1>>, <<2, 3>>, <<2, 5>>}})
    \cup Images(5, 7, {Ladder \ S : S \in SUBSET {<<4, 1>>, <<4, 5>>, <<2, 5>>, <<4, 3>>}})

MCImages == Small \cup Wide \cup Middle \cup Combs
=============================================================================
