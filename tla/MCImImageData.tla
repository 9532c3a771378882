---------------------------- MODULE MCImImageData ----------------------------
EXTENDS ImImageData

Mode(alpha, packed, topdown) == [alpha |-> alpha, packed |-> packed, topdown |-> topdown]
Plain == Mode(FALSE, FALSE, FALSE)
MCDriver == {"PCX", "RAS", "TGA", "SGI", "BMP"}
MCLayout == {Mode(a, k, t) : a \in BOOLEAN, k \in BOOLEAN, t \in BOOLEAN}

MCImage(driver, rle, space, width, height, mode, data) ==
  [driver |-> driver, rle |-> rle, reports |-> TRUE, space |-> space, width |-> width, height |-> height,
   mode |-> mode, data |-> data]

(* Small lines of all values that the codings tell apart.                  *)
MCShort ==
  UNION {{MCImage(d, TRUE, "GRAY", w, 1, Plain, data) :
            d \in MCDriver,
            data \in [1 .. w -> IF w < 5 THEN {0, 128, 200} ELSE {128, 200}]} : w \in 1 .. 6}

(* Colors in every layout, each value its own, or all the same; coded or   *)
(* not (BMP codes no colors).                                              *)
MCColors ==
  UNION {{MCImage(d, r, "RGB", w, 2, m,
                  [k \in 1 .. w * 2 * Depth("RGB", m) |-> IF same THEN 128 ELSE 3 * k]) :
            d \in MCDriver, r \in BOOLEAN, w \in {1, 3}, same \in BOOLEAN} : m \in MCLayout}

MCColorsWritten == {p \in MCColors : p.driver = "BMP" => ~p.rle}

(* Gray with the alpha SGI has for it.                                     *)
MCGray ==
  UNION {{MCImage(d, r, "GRAY", 2, 2, m, [k \in 1 .. 4 * Depth("GRAY", m) |-> 3 * k]) :
            d \in MCDriver, r \in BOOLEAN} : m \in MCLayout}

(* Bits, up to and over the end of a byte.                                 *)
MCBits ==
  UNION {{MCImage(d, r, "BINARY", w, 1, Plain, data) :
            d \in MCDriver, r \in BOOLEAN, data \in [1 .. w -> {0, 1}]} : w \in {1, 7, 9}}
MCBitsWritten == {p \in MCBits : p.driver = "BMP" => ~p.rle}

(* Two lines, the first of two pieces, runs or none two the same, as long  *)
(* as the counts of the codings go and a little longer.                    *)
MCPiece(kind, n) == [k \in 1 .. n |-> IF kind = "run" THEN 128 ELSE 200 + (k % 2)]
MCLong ==
  {MCImage(d, TRUE, "GRAY", cut + rest, 2, Plain,
           MCPiece(first, cut) \o MCPiece(second, rest) \o MCPiece("run", cut + rest)) :
     d \in MCDriver, first \in {"run", "mixed"}, second \in {"run", "mixed"},
     cut \in {1, 62, 63, 126, 127, 128, 253, 254, 255}, rest \in {1, 2}}

(* Those of two lines in files that do not report their end.               *)
MCUnreported == {[p EXCEPT !.reports = FALSE] : p \in MCGray \cup {q \in MCLong : q.width < 65}}

MCPicture ==
  MCShort \cup MCColorsWritten \cup MCGray \cup MCBitsWritten \cup MCLong \cup MCUnreported
=============================================================================
