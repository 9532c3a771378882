------------------------------ MODULE MCImFile ------------------------------
(* Sixteen levels: gray images of full, double and few bits, bit images,    *)
(* palettes of colours, of grays out of order and of black and white, Lab,  *)
(* packed or not, and pages the driver gives up on at each stage.           *)
EXTENDS ImFile, Sequences

Map(s) == [v \in Value |-> IF v < Len(s) THEN s[v + 1] ELSE Gray(0)]

A(wide, space, bpp, map, pixel) ==
  [size |-> wide, mode |-> [space |-> space, packed |-> FALSE], type |-> "BYTE",
   bpp |-> bpp, map |-> Map(map), map_count |-> Len(map), pixel |-> pixel,
   flaw |-> "none"]

Red == <<15, 0, 0>>
White == Gray(15)
Bits2 == <<Gray(2), Gray(0), Gray(3), Gray(1)>>
Bits8 == [i \in 1 .. 16 |-> Gray(IF i = 2 THEN 2 ELSE IF i = 3 THEN 1 ELSE i - 1)]
Good == {A(1, "GRAY", 0, <<>>, 1), A(1, "GRAY", 2, <<>>, 3),
         [A(2, "GRAY", 0, <<>>, 5) EXCEPT !.type = "USHORT"],
         [A(2, "GRAY", 0, <<>>, 100) EXCEPT !.type = "USHORT"],
         A(1, "BINARY", 1, <<>>, 1), A(2, "MAP", 1, <<Red, White>>, 0),
         A(1, "MAP", 2, Bits2, 1), A(1, "MAP", 0, Bits8, 1),
         A(2, "MAP", 1, <<White, Gray(0)>>, 1), A(2, "LAB", 0, <<>>, 2),
         [A(1, "LAB", 0, <<>>, 3) EXCEPT !.mode.packed = TRUE],
         [A(1, "LAB", 4, <<>>, 3) EXCEPT !.mode.packed = TRUE]}
Bad == {[A(3, "GRAY", 0, <<>>, 1) EXCEPT !.flaw = "compression"],
        [A(3, "MAP", 1, <<Red, White>>, 1) EXCEPT !.flaw = "photometric"],
        [A(3, "BINARY", 1, <<>>, 1) EXCEPT !.flaw = "bits"],
        [A(3, "MAP", 2, Bits2, 2) EXCEPT !.flaw = "samples"]}
MCPage == Good \cup Bad
=============================================================================
