---------------------------- MODULE ImFileProofs ----------------------------
(***************************************************************************)
(* What imFileReadImageInfo and imFileReadImageData return belongs to the  *)
(* image asked for, for any number of levels and any images.               *)
(***************************************************************************)
EXTENDS ImFile, TLAPS

USE LevelAssumption, ImagesAssumption, GarbledAssumption

(* The invariant: unless a reading failed, the fields are those of image   *)
(* image_index and libtiff stands there (Agrees); as long as the data of a *)
(* gray palette has not been read, so is the palette (Own), and then it is *)
(* in order (Ordered); and before an image brought a palette, there is the *)
(* one of imFileClear (Plain).                                             *)
Agrees ==
  image_index # -1 /\ ~failed =>
    LET p == pages[image_index]
    IN /\ directory = image_index
       /\ size = p.size /\ file_data_type = p.type /\ convert_bpp = p.bpp
       /\ file_color_mode = TrueMode(p)

Own ==
  image_index # -1 /\ ~failed =>
    LET p == pages[image_index]
    IN p.map_count > 0 /\ (TrueMode(p).space # "GRAY" \/ used = 0) =>
         /\ palette_count = p.map_count
         /\ \A v \in 0 .. p.map_count - 1 : palette[v] = p.map[v]

GrayMap(p) == p.mode.space = "MAP" /\ TrueMode(p).space = "GRAY"

Ordered ==
  image_index # -1 /\ ~failed =>
    LET p == pages[image_index]
    IN GrayMap(p) /\ used # 0 =>
         /\ palette_count = p.map_count
         /\ \A v \in 0 .. p.map_count - 1 : palette[v][1] = v

Plain == ~inherited => \A v \in Value : palette[v] = Gray(v)

Inv == TypeOK /\ Agrees /\ Own /\ Ordered /\ Plain

LEMMA PagesAreTyped ==
  ASSUME TypeOK, NEW i \in DOMAIN pages
  PROVE  /\ pages[i] \in Page /\ pages[i] \in PageType
         /\ i \in Index /\ i # -1 /\ i \in Int
<1>1. PICK n \in 1 .. MaxImages : pages \in [0 .. n - 1 -> Page]
  BY DEF TypeOK
<1>2. i \in 0 .. n - 1 /\ pages[i] \in Page
  BY <1>1
<1>. QED BY <1>1, <1>2, PageAssumption DEF Index

(* Only the entries of the palette that count decide what mode is told.    *)
LEMMA ModeOfEntries ==
  ASSUME NEW mode \in Mode, NEW pal1, NEW pal2, NEW n \in Nat, n >= 2,
         \A v \in 0 .. n - 1 : pal1[v] = pal2[v]
  PROVE  ModeTold(mode, pal1, n) = ModeTold(mode, pal2, n)
<1>1. iFileCheckPaletteGray(pal1, n) <=> iFileCheckPaletteGray(pal2, n)
  BY DEF iFileCheckPaletteGray
<1>2. iFileCheckPaletteBinary(pal1, n) <=> iFileCheckPaletteBinary(pal2, n)
  BY DEF iFileCheckPaletteBinary
<1>. QED BY <1>1, <1>2 DEF ModeTold

LEMMA ModeIsMode ==
  ASSUME NEW mode \in Mode, NEW pal, NEW n
  PROVE  /\ ModeTold(mode, pal, n) \in Mode
         /\ ModeTold(mode, pal, n).packed = mode.packed
         /\ mode.space # "MAP" => ModeTold(mode, pal, n) = mode
         /\ mode.space = "MAP" => ModeTold(mode, pal, n).space \in {"MAP", "GRAY", "BINARY"}
<1>. QED BY DEF ModeTold, Mode, Space

LEMMA PaletteIsTyped ==
  ASSUME TypeOK, NEW p \in Page
  PROVE  /\ PaletteRead(p) \in [Value -> Color]
         /\ BinaryPalette(PaletteRead(p)) \in [Value -> Color]
         /\ CountRead(p) \in 2 .. Level
         /\ p.map_count > 0 => /\ CountRead(p) = p.map_count
                               /\ \A v \in 0 .. p.map_count - 1 : PaletteRead(p)[v] = p.map[v]
<1>1. p \in PageType /\ p.map \in [Value -> Color] /\ p.map_count \in 0 .. Level
      /\ (p.map_count > 0 => p.map_count >= 2)
  BY PageAssumption DEF PageType
<1>2. PaletteRead(p) \in [Value -> Color]
  BY <1>1 DEF PaletteRead, TypeOK
<1>3. Gray(0) \in Color /\ Gray(Level - 1) \in Color
  BY DEF Gray, Color, Value
<1>4. BinaryPalette(PaletteRead(p)) \in [Value -> Color]
  BY <1>2, <1>3 DEF BinaryPalette
<1>5. CountRead(p) \in 2 .. Level
  BY <1>1 DEF CountRead, TypeOK
<1>6. \A v \in 0 .. p.map_count - 1 : v \in Value /\ v < p.map_count
  BY <1>1 DEF Value
<1>7. \A v \in 0 .. p.map_count - 1 : PaletteRead(p)[v] = p.map[v]
  BY <1>6 DEF PaletteRead
<1>8. p.map_count > 0 => CountRead(p) = p.map_count
  BY DEF CountRead
<1>. QED BY <1>2, <1>4, <1>5, <1>7, <1>8

LEMMA ClearedIsTyped ==
  /\ [space |-> "RGB", packed |-> FALSE] \in Mode /\ "BYTE" \in DataType
  /\ 0 \in Nat /\ 0 \in 0 .. 2 /\ Level \in 2 .. Level
<1>. QED BY DEF Mode, Space, DataType

LEMMA InitInv == Init => Inv
<1>. SUFFICES ASSUME Init PROVE Inv
  OBVIOUS
<1>1. PICK n \in 1 .. MaxImages : pages \in [0 .. n - 1 -> Page]
  BY DEF Init
<1>2. palette \in [Value -> Color] /\ \A v \in Value : palette[v] = Gray(v)
  BY DEF Init, Color, Gray
<1>3. out \in Reply
  BY DEF Init, Reply
<1>4. pages \in UNION {[0 .. k - 1 -> Page] : k \in 1 .. MaxImages}
  BY <1>1
<1>5. directory \in DOMAIN pages /\ image_index = -1
  BY <1>1 DEF Init
<1>6. TypeOK
  BY <1>2, <1>3, <1>4, <1>5, ClearedIsTyped DEF Init, TypeOK
<1>7. Agrees /\ Own /\ Ordered
  BY <1>5 DEF Agrees, Own, Ordered
<1>8. Plain
  BY <1>2 DEF Plain
<1>. QED BY <1>6, <1>7, <1>8 DEF Inv

-----------------------------------------------------------------------------
(* The replies of refused calls, and of those that tell information.       *)
LEMMA RepliesTyped ==
  ASSUME NEW index \in Index, TypeOK,
         size' \in Nat, file_color_mode' \in Mode, file_data_type' \in DataType
  PROVE  /\ Refused("info", index) \in Reply
         /\ Told(index) \in Reply
<1>. QED BY DEF Refused, Told, Reply

LEMMA OpenStep == Inv /\ imFileOpen => Inv'
<1>. SUFFICES ASSUME Inv, imFileOpen PROVE Inv'
  OBVIOUS
<1>. USE DEF Inv, imFileOpen, imFileClear
<1>1. palette' \in [Value -> Color] /\ \A v \in Value : palette'[v] = Gray(v)
  BY DEF Color, Gray
<1>2. PICK n \in 1 .. MaxImages : pages \in [0 .. n - 1 -> Page]
  BY DEF TypeOK
<1>3. directory' \in DOMAIN pages' /\ image_index' = -1
  BY <1>2
<1>4. out' \in Reply
  BY DEF Reply
<1>5. TypeOK'
  BY <1>1, <1>3, <1>4, ClearedIsTyped DEF TypeOK
<1>6. Agrees' /\ Own' /\ Ordered'
  BY <1>3 DEF Agrees, Own, Ordered
<1>7. Plain'
  BY <1>1 DEF Plain
<1>. QED BY <1>5, <1>6, <1>7

LEMMA CloseStep == Inv /\ imFileClose => Inv'
<1>. SUFFICES ASSUME Inv, imFileClose PROVE Inv'
  OBVIOUS
<1>. USE DEF Inv, imFileClose, file, past
<1>1. out' \in Reply
  BY DEF Reply
<1>2. TypeOK'
  BY <1>1 DEF TypeOK
<1>3. Agrees' /\ Own' /\ Ordered' /\ Plain'
  BY DEF Agrees, Own, Ordered, Plain
<1>. QED BY <1>2, <1>3

(* A call that changes nothing but the reply.                              *)
LEMMA ReplyStep ==
  ASSUME Inv, UNCHANGED <<pages, isOpen, file, past>>, out' \in Reply
  PROVE  Inv'
<1>. USE DEF Inv, file, past
<1>1. TypeOK'
  BY DEF TypeOK
<1>2. Agrees' /\ Own' /\ Ordered' /\ Plain'
  BY DEF Agrees, Own, Ordered, Plain
<1>. QED BY <1>1, <1>2

LEMMA NoDirectoryStep ==
  ASSUME Inv, NEW index \in Index, InfoNoDirectory(index), UNCHANGED <<pages, isOpen>>
  PROVE  Inv'
<1>. USE DEF Inv, InfoNoDirectory
<1>1. TypeOK'
  BY DEF TypeOK, Refused, Reply
<1>2. Agrees' /\ Own' /\ Ordered'
  BY DEF Agrees, Own, Ordered
<1>3. Plain'
  BY DEF Plain
<1>. QED BY <1>1, <1>2, <1>3

LEMMA FailsStep ==
  ASSUME Inv, NEW index \in Index, InfoFails(index), UNCHANGED <<pages, isOpen>>
  PROVE  Inv'
<1>. DEFINE p == pages[index]
<1>. USE DEF Inv
<1>1. index \in DOMAIN pages /\ failed' = TRUE /\ UNCHANGED <<image_index, used>>
  BY DEF InfoFails
<1>2. p \in Page /\ p \in PageType
  BY <1>1, PagesAreTyped
<1>3. p.size \in Nat /\ p.mode \in Mode /\ p.type \in DataType /\ p.bpp \in Nat
  BY <1>2 DEF PageType
<1>4. size' \in Nat /\ file_data_type' \in DataType /\ convert_bpp' \in Nat
  BY <1>3 DEF InfoFails, TypeOK
<1>5. file_color_mode' \in Mode
  <2>1. [p.mode EXCEPT !.packed = FALSE] \in Mode
    BY <1>3 DEF Mode
  <2>2. p.flaw \in {"compression", "photometric", "bits", "samples"}
    BY <1>2 DEF InfoFails, PageType, Flaw
  <2>. QED BY <1>3, <2>1, <2>2 DEF InfoFails, TypeOK
<1>6. palette' \in [Value -> Color] /\ palette_count' \in 2 .. Level
  BY <1>2, PaletteIsTyped DEF InfoFails, TypeOK
<1>7. out' \in Reply /\ directory' \in DOMAIN pages' /\ inherited' \in BOOLEAN
  BY <1>1 DEF InfoFails, Refused, Reply, TypeOK
<1>8. TypeOK'
  BY <1>1, <1>4, <1>5, <1>6, <1>7 DEF TypeOK
<1>9. Agrees' /\ Own' /\ Ordered'
  BY <1>1 DEF Agrees, Own, Ordered
<1>10. Plain'
  <2>. SUFFICES ASSUME ~inherited', NEW v \in Value PROVE palette'[v] = Gray(v)
    BY DEF Plain
  <2>1. ~inherited /\ (p.flaw = "samples" => ~(p.map_count > 0))
    BY DEF InfoFails, TypeOK
  <2>2. palette[v] = Gray(v)
    BY <2>1 DEF Plain
  <2>3. p.map_count \in 0 .. Level
    BY <1>2 DEF PageType
  <2>4. CASE p.flaw = "samples"
    <3>1. palette' = PaletteRead(p)
      BY <2>4 DEF InfoFails
    <3>. QED BY <2>1, <2>2, <2>3, <2>4, <3>1 DEF PaletteRead, Value
  <2>5. CASE p.flaw # "samples"
    BY <2>2, <2>5 DEF InfoFails
  <2>. QED BY <2>4, <2>5
<1>. QED BY <1>8, <1>9, <1>10

-----------------------------------------------------------------------------
(* Reading the information of a page: the mode told is the true one, since *)
(* the entries of the palette that count are the page's own.               *)
LEMMA ReadIsTrue ==
  ASSUME TypeOK, NEW index \in Index, InfoRead(index), UNCHANGED pages
  PROVE  LET p == pages[index]
         IN /\ file_color_mode' = TrueMode(p) /\ file_color_mode' \in Mode
            /\ p.map_count > 0 =>
                 /\ palette_count' = p.map_count
                 /\ \A v \in 0 .. p.map_count - 1 : palette'[v] = p.map[v]
<1>. DEFINE p == pages[index]
<1>1. index \in DOMAIN pages /\ file_color_mode' = ModeTold(p.mode, palette', palette_count')
  BY DEF InfoRead
<1>2. p \in Page /\ p \in PageType
  BY <1>1, PagesAreTyped
<1>3. p.mode \in Mode /\ p.map_count \in 0 .. Level
  BY <1>2 DEF PageType
<1>4. /\ p.mode.space = "MAP" <=> p.map_count > 0
      /\ p.map_count > 0 => p.map_count >= 2
  BY <1>2, PageAssumption
<1>5. CASE p.map_count > 0
  <2>1. palette' = PaletteRead(p) /\ palette_count' = CountRead(p)
    BY <1>4, <1>5 DEF InfoRead
  <2>2. palette_count' = p.map_count /\ \A v \in 0 .. p.map_count - 1 : palette'[v] = p.map[v]
    BY <1>2, <1>5, <2>1, PaletteIsTyped
  <2>3. ModeTold(p.mode, palette', palette_count') = TrueMode(p)
    <3>1. palette_count' \in Nat /\ palette_count' >= 2
      BY <1>3, <1>4, <1>5, <2>2
    <3>2. \A v \in 0 .. palette_count' - 1 : palette'[v] = p.map[v]
      BY <2>2
    <3>3. ModeTold(p.mode, palette', palette_count') = ModeTold(p.mode, p.map, palette_count')
      BY <1>3, <3>1, <3>2, ModeOfEntries
    <3>. QED BY <2>2, <3>3 DEF TrueMode
  <2>4. TrueMode(p) \in Mode
    BY <1>3, ModeIsMode DEF TrueMode
  <2>. QED BY <1>1, <2>2, <2>3, <2>4
<1>6. CASE ~(p.map_count > 0)
  <2>1. TrueMode(p) = p.mode /\ file_color_mode' = p.mode
    BY <1>1, <1>3, <1>4, <1>6, ModeIsMode DEF TrueMode
  <2>. QED BY <1>3, <1>6, <2>1
<1>. QED BY <1>5, <1>6

LEMMA ReadStep ==
  ASSUME Inv, NEW index \in Index, InfoRead(index), UNCHANGED <<pages, isOpen>>
  PROVE  Inv'
<1>. DEFINE p == pages[index]
<1>. USE DEF Inv
<1>1. /\ index \in DOMAIN pages /\ directory' = index /\ image_index' = index
      /\ size' = p.size /\ file_data_type' = p.type /\ convert_bpp' = p.bpp
      /\ failed' = FALSE /\ used' = 0
      /\ palette' \in {PaletteRead(p), BinaryPalette(PaletteRead(p))}
      /\ palette_count' \in {2, CountRead(p)}
      /\ out' = Told(index)
      /\ inherited' = (inherited \/ p.mode.space = "BINARY" \/ p.map_count > 0)
  BY DEF InfoRead
<1>2. p \in Page /\ p \in PageType
  BY <1>1, PagesAreTyped
<1>3. p.size \in Nat /\ p.type \in DataType /\ p.bpp \in Nat /\ p.map_count \in 0 .. Level
  BY <1>2 DEF PageType
<1>4. /\ file_color_mode' = TrueMode(p) /\ file_color_mode' \in Mode
      /\ p.map_count > 0 =>
           /\ palette_count' = p.map_count
           /\ \A v \in 0 .. p.map_count - 1 : palette'[v] = p.map[v]
  BY ReadIsTrue
<1>5. palette' \in [Value -> Color] /\ palette_count' \in 2 .. Level
  BY <1>1, <1>2, PaletteIsTyped
<1>6. out' \in Reply
  BY <1>1, <1>3, <1>4, RepliesTyped
<1>7. inherited' \in BOOLEAN
  BY <1>1
<1>8. TypeOK'
  <2>1. size' \in Nat /\ file_data_type' \in DataType /\ convert_bpp' \in Nat
    BY <1>1, <1>3
  <2>2. directory' \in DOMAIN pages' /\ image_index' \in DOMAIN pages' \cup {-1}
    BY <1>1
  <2>3. failed' \in BOOLEAN /\ used' \in 0 .. 2
    <3>1. failed' = FALSE /\ used' = 0
      BY <1>1
    <3>. QED BY <3>1, ClearedIsTyped
  <2>4. file_color_mode' \in Mode
    BY <1>4
  <2>. HIDE DEF p
  <2>5. pages' \in UNION {[0 .. n - 1 -> Page] : n \in 1 .. MaxImages} /\ isOpen' \in BOOLEAN
    BY DEF TypeOK
  <2>. QED BY <2>1, <2>2, <2>3, <2>4, <2>5, <1>5, <1>6, <1>7 DEF TypeOK
<1>9. Agrees'
  BY <1>1, <1>4 DEF Agrees, TrueMode
<1>10. Own' /\ Ordered'
  BY <1>1, <1>4 DEF Own, Ordered
<1>11. Plain'
  <2>. SUFFICES ASSUME ~inherited', NEW v \in Value PROVE palette'[v] = Gray(v)
    BY DEF Plain
  <2>1. ~inherited /\ p.mode.space # "BINARY" /\ ~(p.map_count > 0)
    BY <1>1
  <2>2. palette' = PaletteRead(p) /\ palette[v] = Gray(v)
    BY <2>1 DEF InfoRead, Plain
  <2>. QED BY <1>3, <2>1, <2>2 DEF PaletteRead, Value
<1>. QED BY <1>8, <1>9, <1>10, <1>11

LEMMA InfoStep ==
  ASSUME Inv, NEW index \in Index, imFileReadImageInfo(index)
  PROVE  Inv' /\ InfoIsOfImage'
<1>. USE DEF Inv
<1>0. isOpen /\ UNCHANGED <<pages, isOpen>>
  BY DEF imFileReadImageInfo
<1>1. CASE InfoNoSuchImage(index)
  <2>1. out' = Refused("info", index) /\ out' \in Reply
    BY <1>1 DEF InfoNoSuchImage, Refused, Reply
  <2>2. UNCHANGED <<pages, isOpen, file, past>>
    BY <1>0, <1>1 DEF InfoNoSuchImage
  <2>3. Inv'
    BY <2>1, <2>2, ReplyStep
  <2>. QED BY <2>1, <2>3 DEF InfoIsOfImage, InfoGiven, Refused
<1>2. CASE InfoCached(index)
  <2>1. index = image_index /\ index # -1 /\ out' = Told(index)
    BY <1>2 DEF InfoCached, Cached
  <2>2. UNCHANGED <<pages, isOpen, file, past>>
    BY <1>0, <1>2 DEF InfoCached
  <2>3. /\ size' = size /\ file_color_mode' = file_color_mode
        /\ file_data_type' = file_data_type /\ failed' = failed
    BY <2>2 DEF file, past
  <2>4. out' \in Reply
    BY <2>1, <2>3, RepliesTyped DEF TypeOK
  <2>5. Inv'
    BY <2>2, <2>4, ReplyStep
  <2>6. ~failed' => InfoRight'
    BY <1>0, <2>1, <2>3 DEF Agrees, InfoRight, Told, TrueInfo
  <2>. QED BY <2>5, <2>6 DEF InfoIsOfImage
<1>3. CASE InfoNoDirectory(index)
  BY <1>0, <1>3, NoDirectoryStep DEF InfoIsOfImage, InfoNoDirectory
<1>4. CASE InfoFails(index)
  BY <1>0, <1>4, FailsStep DEF InfoIsOfImage, InfoFails
<1>5. CASE InfoRead(index)
  <2>1. out' = Told(index) /\ size' = pages[index].size /\ file_data_type' = pages[index].type
    BY <1>5 DEF InfoRead
  <2>2. file_color_mode' = TrueMode(pages[index])
    BY <1>0, <1>5, ReadIsTrue
  <2>3. InfoRight'
    BY <1>0, <2>1, <2>2 DEF InfoRight, Told, TrueInfo
  <2>4. Inv'
    BY <1>0, <1>5, ReadStep
  <2>. QED BY <2>3, <2>4 DEF InfoIsOfImage
<1>. QED BY <1>1, <1>2, <1>3, <1>4, <1>5 DEF imFileReadImageInfo

-----------------------------------------------------------------------------
(* Reading the data.                                                       *)

(* iFileCheckConvertGray keeps the palette's type, and grays in order.     *)
LEMMA GrayPalette ==
  ASSUME palette \in [Value -> Color], palette_count \in 2 .. Level,
         NEW raw, NEW result, iFileCheckConvertGray(raw, result)
  PROVE  /\ palette' \in [Value -> Color]
         /\ \A v \in Value : palette[v] = Gray(v) => palette'[v] = Gray(v)
<1>1. \A v \in Value : Gray(v) \in Color
  BY DEF Gray, Color
<1>. QED BY <1>1 DEF iFileCheckConvertGray

(* The palette is kept unless the image is gray.                           *)
LEMMA DataPalette ==
  ASSUME TypeOK, NEW bitmap \in BOOLEAN, DataRead(bitmap)
  PROVE  /\ palette' \in [Value -> Color]
         /\ file_color_mode.space # "GRAY" => palette' = palette
         /\ (\A v \in Value : palette[v] = Gray(v)) =>
              \A v \in Value : palette'[v] = Gray(v)
<1>1. palette \in [Value -> Color] /\ palette_count \in 2 .. Level
  BY DEF TypeOK
<1>2. CASE palette' = palette
  BY <1>1, <1>2
<1>3. CASE palette' # palette
  <2>1. PICK raw \in Raw, result \in Wide \cup {Garbled} :
          file_color_mode.space = "GRAY" /\ iFileCheckConvertGray(raw, result)
    BY <1>3 DEF DataRead
  <2>. QED BY <1>1, <2>1, GrayPalette
<1>. QED BY <1>2, <1>3

LEMMA DataReply ==
  ASSUME TypeOK, NEW bitmap \in BOOLEAN, DataRead(bitmap) \/ DataRefused(bitmap)
  PROVE  out' \in Reply
<1>1. image_index \in Index
  <2>1. PICK n \in 1 .. MaxImages : pages \in [0 .. n - 1 -> Page]
    BY DEF TypeOK
  <2>. QED BY <2>1 DEF TypeOK, Index
<1>2. UserSpace(bitmap) \in Space
  BY DEF UserSpace, TypeOK, Mode, Space
<1>3. Refused("data", image_index) \in Reply
  BY <1>1 DEF Refused, Reply
<1>4. ASSUME NEW result \in Wide \cup {Garbled}, Data(bitmap, result) PROVE out' \in Reply
  BY <1>1, <1>2, <1>4 DEF Data, Reply
<1>. QED BY <1>3, <1>4 DEF DataRead, DataRefused

LEMMA DataReadStep ==
  ASSUME Inv, NEW bitmap \in BOOLEAN, DataRead(bitmap), UNCHANGED <<pages, isOpen>>
  PROVE  Inv'
<1>. USE DEF Inv
<1>1. /\ UNCHANGED <<directory, image_index, size, file_color_mode, file_data_type,
                     convert_bpp, palette_count, failed, inherited>>
      /\ used' \in {1, 2}
  BY DEF DataRead
<1>2. /\ palette' \in [Value -> Color]
      /\ file_color_mode.space # "GRAY" => palette' = palette
      /\ (\A v \in Value : palette[v] = Gray(v)) => \A v \in Value : palette'[v] = Gray(v)
  BY DataPalette
<1>3. out' \in Reply
  BY DataReply
<1>4. TypeOK'
  BY <1>1, <1>2, <1>3 DEF TypeOK
<1>5. Agrees'
  BY <1>1 DEF Agrees
<1>6. Own'
  BY <1>1, <1>2 DEF Own, Agrees
<1>7. Plain'
  BY <1>1, <1>2 DEF Plain
<1>8. Ordered'
  <2>. SUFFICES ASSUME image_index # -1, ~failed, GrayMap(pages[image_index])
                PROVE  /\ palette_count = pages[image_index].map_count
                       /\ \A i \in 0 .. palette_count - 1 : palette'[i][1] = i
    BY <1>1 DEF Ordered, GrayMap, TrueMode
  <2>. DEFINE p == pages[image_index]
  <2>1. image_index \in DOMAIN pages
    BY DEF TypeOK
  <2>2. p \in Page
    BY <2>1, PagesAreTyped
  <2>3. p.map_count > 0 /\ p.type = "BYTE"
    BY <2>2, PageAssumption DEF GrayMap
  <2>4. file_color_mode.space = "GRAY" /\ file_data_type = "BYTE"
    BY <2>3 DEF Agrees, GrayMap
  <2>5. palette_count = p.map_count
    BY <2>3 DEF Own, Ordered
  <2>6. PICK raw \in Raw, result \in Wide \cup {Garbled} : iFileCheckConvertGray(raw, result)
    BY <2>4 DEF DataRead
  <2>. HIDE DEF p
  <2>7. palette_count \in 2 .. Level
    BY DEF TypeOK
  <2>8. ASSUME NEW i \in 0 .. palette_count - 1 PROVE palette'[i][1] = i
    <3>1. i \in Value /\ i < palette_count
      BY <2>7 DEF Value
    <3>2. palette'[i] = IF palette[i][1] # i THEN Gray(i) ELSE palette[i]
      BY <2>6, <3>1 DEF iFileCheckConvertGray
    <3>. QED BY <3>2 DEF Gray
  <2>. QED BY <2>5, <2>8 DEF p
<1>. QED BY <1>4, <1>5, <1>6, <1>7, <1>8

(* The value read, in each of the three ways DataRead ends.                *)
LEMMA ValueRight ==
  ASSUME Inv, NEW bitmap \in BOOLEAN, DataRead(bitmap), UNCHANGED <<pages, isOpen>>,
         ~failed, DataGiven'
  PROVE  LET p == pages[image_index]
         IN /\ out'.index = image_index /\ out'.bitmap = bitmap
            /\ \/ out'.value = TrueValue(p)
               \/ bitmap /\ p.type = "USHORT"
               \/ p.mode.packed /\ p.bpp # 0
               \/ p.mode.space = "GRAY" /\ p.type = "BYTE" /\ inherited
               \/ GrayMap(p) /\ p.bpp \in {2, 4}
               \/ GrayMap(p) /\ used # 0 /\ out'.value = p.pixel
<1>. DEFINE p == pages[image_index]
<1>. USE DEF Inv
<1>0. image_index # -1 /\ image_index \in DOMAIN pages
  BY DEF DataRead, TypeOK
<1>1. p \in Page /\ p \in PageType
  BY <1>0, PagesAreTyped
<1>2. p.mode \in Mode /\ p.pixel \in Wide /\ p.map_count \in 0 .. Level
      /\ p.map \in [Value -> Color] /\ p.type \in DataType
  BY <1>1 DEF PageType
<1>3. /\ p.mode.space = "MAP" <=> p.map_count > 0
      /\ p.map_count > 0 => p.map_count >= 2 /\ p.pixel < p.map_count
      /\ p.mode.space \in {"MAP", "BINARY"} => p.type = "BYTE"
      /\ p.mode.space = "BINARY" => p.pixel < 2
      /\ p.type = "BYTE" => p.pixel \in Value
  BY <1>1, PageAssumption DEF Values
<1>4. /\ directory = image_index /\ size = p.size /\ file_data_type = p.type
      /\ convert_bpp = p.bpp /\ file_color_mode = TrueMode(p)
  BY <1>0 DEF Agrees
<1>5. /\ TrueMode(p).packed = p.mode.packed
      /\ p.mode.space # "MAP" => TrueMode(p) = p.mode
      /\ p.mode.space = "MAP" => TrueMode(p).space \in {"MAP", "GRAY", "BINARY"}
  BY <1>2, ModeIsMode DEF TrueMode
<1>6. ~(p.mode.packed /\ p.bpp # 0) => \A v \in Raw : v = p.pixel * Spread
  BY <1>4, <1>5 DEF Raw
<1>7. PICK raw \in Raw, result \in Wide \cup {Garbled} :
        /\ \/ /\ file_color_mode.space = "GRAY" /\ file_data_type = "BYTE"
              /\ iFileCheckConvertGray(raw, result)
           \/ /\ file_color_mode.space = "BINARY"
              /\ iFileCheckConvertBinary(raw, result)
           \/ /\ file_color_mode.space = "GRAY" => file_data_type # "BYTE"
              /\ file_color_mode.space # "BINARY"
              /\ result = Type2Byte(raw, bitmap)
        /\ Data(bitmap, result) \/ out' = Refused("data", image_index)
  BY DEF DataRead
<1>8. out'.index = image_index /\ out'.bitmap = bitmap /\ out'.value = result
  BY <1>7 DEF DataGiven, Refused, Data
<1>. HIDE DEF Inv
<1>. SUFFICES ASSUME ~(p.mode.packed /\ p.bpp # 0), ~(bitmap /\ p.type = "USHORT")
              PROVE  \/ result = TrueValue(p)
                     \/ p.mode.space = "GRAY" /\ p.type = "BYTE" /\ inherited
                     \/ GrayMap(p) /\ p.bpp \in {2, 4}
                     \/ GrayMap(p) /\ used # 0 /\ result = p.pixel
  BY <1>8
<1>12. raw = p.pixel * Spread
  BY <1>6
<1>9. CASE file_color_mode.space = "GRAY" /\ file_data_type = "BYTE"
  <2>1. iFileCheckConvertGray(raw, result)
    BY <1>7, <1>9
  <2>2. Remapped(raw, result)
    BY <2>1 DEF iFileCheckConvertGray
  <2>. HIDE DEF p
  <2>3. CASE p.mode.space = "MAP" /\ p.bpp \notin {2, 4}
    <3>1. p.pixel \in 0 .. p.map_count - 1 /\ p.pixel \in Value /\ p.pixel # Garbled
      BY <1>2, <1>3, <2>3 DEF Value
    <3>2. raw = p.pixel /\ GrayMap(p)
      BY <1>4, <1>9, <1>12, <2>3, <3>1 DEF Spread, Value, GrayMap
    <3>3. CASE used = 0
      <4>1. palette_count = p.map_count /\ palette[p.pixel] = p.map[p.pixel]
        BY <1>0, <1>3, <2>3, <3>1, <3>3 DEF Own, Inv, p
      <4>2. result = p.map[p.pixel][1]
        BY <1>2, <2>2, <3>1, <3>2, <4>1 DEF Remapped, Value
      <4>3. TrueValue(p) = p.map[p.pixel][1]
        BY <1>4, <1>9, <2>3 DEF TrueValue
      <4>. QED BY <4>2, <4>3
    <3>4. CASE used # 0
      <4>1. \A i \in 0 .. palette_count - 1 : palette[i][1] = i
        BY <1>0, <3>2, <3>4 DEF Ordered, Inv, p
      <4>2. result = p.pixel
        BY <2>2, <3>2, <4>1 DEF Remapped
      <4>. QED BY <3>2, <3>4, <4>2
    <3>. QED BY <3>3, <3>4
  <2>4. CASE p.mode.space = "MAP" /\ p.bpp \in {2, 4}
    BY <1>4, <1>9, <2>4 DEF GrayMap
  <2>5. CASE p.mode.space # "MAP" /\ ~inherited
    <3>1. \A v \in Value : palette[v] = Gray(v)
      BY <2>5 DEF Plain, Inv
    <3>2. \A v \in Value : palette[v][1] = v
      BY <3>1 DEF Gray
    <3>3. palette_count \in 2 .. Level
      BY DEF TypeOK, Inv
    <3>4. p.mode.space = "GRAY" /\ p.type = "BYTE"
      BY <1>4, <1>5, <1>9, <2>5
    <3>5. Spread = TrueSpread(p)
      BY <1>4, <1>9, <3>4 DEF Spread, TrueSpread
    <3>6. \A i \in 0 .. palette_count - 1 : palette[i][1] = i
      BY <3>2, <3>3 DEF Value
    <3>7. result = raw
      BY <2>2, <3>6 DEF Remapped
    <3>8. TrueValue(p) = p.pixel * TrueSpread(p)
      BY <3>4 DEF TrueValue
    <3>. QED BY <1>12, <3>5, <3>7, <3>8
  <2>6. CASE p.mode.space # "MAP" /\ inherited
    BY <1>4, <1>5, <1>9, <2>6
  <2>. QED BY <2>3, <2>4, <2>5, <2>6
<1>10. CASE file_color_mode.space = "BINARY"
  <2>1. raw = p.pixel /\ p.pixel # Garbled
    BY <1>2, <1>12, <1>10 DEF Spread, Wide
  <2>2. result = IF p.pixel = 0 THEN 0 ELSE 1
    BY <1>7, <1>10, <2>1 DEF iFileCheckConvertBinary
  <2>3. CASE p.mode.space = "MAP"
    BY <1>4, <1>10, <2>2, <2>3 DEF TrueValue
  <2>4. CASE p.mode.space # "MAP"
    <3>1. p.mode.space = "BINARY" /\ p.pixel \in {0, 1}
      BY <1>2, <1>3, <1>4, <1>5, <1>10, <2>4 DEF Wide
    <3>2. TrueValue(p) = p.pixel
      BY <3>1 DEF TrueValue, TrueSpread
    <3>. QED BY <2>2, <3>1, <3>2
  <2>. QED BY <2>3, <2>4
<1>11. CASE /\ file_color_mode.space # "BINARY"
            /\ file_color_mode.space = "GRAY" => file_data_type # "BYTE"
  <2>1. result = Type2Byte(raw, bitmap)
    BY <1>7, <1>11
  <2>2. p.mode.space = "MAP" => TrueMode(p).space = "MAP"
    BY <1>3, <1>4, <1>5, <1>11
  <2>3. p.type # "BYTE" => p.bpp = 0
    BY <1>1, PageAssumption
  <2>4. Spread = 1 /\ (p.mode.space # "MAP" => TrueSpread(p) = 1)
    BY <1>4, <1>5, <1>11, <2>2, <2>3 DEF Spread, TrueSpread
  <2>5. result = p.pixel
    BY <1>2, <1>4, <1>12, <2>1, <2>4 DEF Type2Byte, Wide, DataType
  <2>6. TrueValue(p) = p.pixel
    BY <1>2, <2>2, <2>4 DEF TrueValue, Wide
  <2>. QED BY <2>5, <2>6
<1>. QED BY <1>9, <1>10, <1>11

LEMMA DataStep ==
  ASSUME Inv, NEW bitmap \in BOOLEAN, imFileReadImageData(bitmap)
  PROVE  Inv' /\ DataIsOfImage'
<1>. USE DEF Inv
<1>0. UNCHANGED <<pages, isOpen>>
  BY DEF imFileReadImageData
<1>1. CASE DataRefused(bitmap)
  <2>1. out' \in Reply /\ UNCHANGED <<pages, isOpen, file, past>>
    BY <1>0, <1>1, DataReply DEF DataRefused
  <2>2. ~DataGiven'
    BY <1>1 DEF DataRefused, Refused, DataGiven
  <2>. QED BY <2>1, <2>2, ReplyStep DEF DataIsOfImage
<1>2. CASE DataRead(bitmap)
  <2>1. Inv'
    BY <1>0, <1>2, DataReadStep
  <2>. SUFFICES ASSUME DataGiven', ~failed' PROVE DataIsOfImage'
    BY <2>1 DEF DataIsOfImage
  <2>. DEFINE p == pages[image_index]
  <2>2. failed' = failed /\ inherited' = inherited /\ image_index # -1
        /\ (used # 0 => used' = 2)
    BY <1>2 DEF DataRead
  <2>3. /\ out'.index = image_index /\ out'.bitmap = bitmap
        /\ \/ out'.value = TrueValue(p)
           \/ bitmap /\ p.type = "USHORT"
           \/ p.mode.packed /\ p.bpp # 0
           \/ p.mode.space = "GRAY" /\ p.type = "BYTE" /\ inherited
           \/ GrayMap(p) /\ p.bpp \in {2, 4}
           \/ GrayMap(p) /\ used # 0 /\ out'.value = p.pixel
    BY <1>0, <1>2, <2>2, ValueRight
  <2>4. ASSUME TrueMode(p).space = "MAP", out'.value = TrueValue(p)
        PROVE  palette'[out'.value] = p.map[p.pixel]
    <3>1. image_index \in DOMAIN pages
      BY <2>2 DEF TypeOK
    <3>2. p \in Page /\ p \in PageType
      BY <3>1, PagesAreTyped
    <3>3. p.mode \in Mode /\ p.pixel \in Wide /\ p.map_count \in 0 .. Level
      BY <3>2 DEF PageType
    <3>4. /\ p.mode.space = "MAP" <=> p.map_count > 0
          /\ p.map_count > 0 => p.pixel < p.map_count
      BY <3>2, PageAssumption
    <3>5. p.mode.space = "MAP"
      BY <2>4, <3>3, ModeIsMode DEF TrueMode
    <3>6. out'.value = p.pixel /\ p.pixel \in 0 .. p.map_count - 1
      BY <2>4, <3>3, <3>4, <3>5 DEF TrueValue, Wide
    <3>7. palette[p.pixel] = p.map[p.pixel]
      BY <2>2, <2>4, <3>4, <3>5, <3>6 DEF Own
    <3>8. palette' = palette
      BY <1>2, <2>2, <2>4, DataPalette DEF Agrees
    <3>. QED BY <3>6, <3>7, <3>8
  <2>5. DataRight' \/ ~(out'.value = TrueValue(p))
    BY <1>0, <2>3, <2>4 DEF DataRight
  <2>. QED BY <1>0, <2>1, <2>2, <2>3, <2>5 DEF DataIsOfImage, GrayMap
<1>. QED BY <1>1, <1>2 DEF imFileReadImageData

-----------------------------------------------------------------------------
LEMMA NextInv ==
  Inv /\ InfoIsOfImage /\ DataIsOfImage /\ [Next]_vars
    => Inv' /\ InfoIsOfImage' /\ DataIsOfImage'
<1>. SUFFICES ASSUME Inv, InfoIsOfImage, DataIsOfImage, [Next]_vars
              PROVE  Inv' /\ InfoIsOfImage' /\ DataIsOfImage'
  OBVIOUS
<1>1. CASE imFileOpen
  <2>1. ~InfoGiven' /\ ~DataGiven'
    BY <1>1 DEF imFileOpen, NoReply, InfoGiven, DataGiven
  <2>. QED BY <1>1, <2>1, OpenStep DEF InfoIsOfImage, DataIsOfImage
<1>2. CASE imFileClose
  <2>1. ~InfoGiven' /\ ~DataGiven'
    BY <1>2 DEF imFileClose, NoReply, InfoGiven, DataGiven
  <2>. QED BY <1>2, <2>1, CloseStep DEF InfoIsOfImage, DataIsOfImage
<1>3. ASSUME NEW index \in Index, imFileReadImageInfo(index)
      PROVE  Inv' /\ InfoIsOfImage' /\ DataIsOfImage'
  <2>1. out'.op = "info"
    BY <1>3 DEF imFileReadImageInfo, InfoNoSuchImage, InfoCached, InfoNoDirectory,
                InfoFails, InfoRead, Told, Refused
  <2>. QED BY <1>3, <2>1, InfoStep DEF DataIsOfImage, DataGiven
<1>4. ASSUME NEW bitmap \in BOOLEAN, imFileReadImageData(bitmap)
      PROVE  Inv' /\ InfoIsOfImage' /\ DataIsOfImage'
  <2>1. out'.op = "data"
    BY <1>4 DEF imFileReadImageData, DataRefused, DataRead, Data, Refused
  <2>. QED BY <1>4, <2>1, DataStep DEF InfoIsOfImage, InfoGiven
<1>5. CASE UNCHANGED vars
  <2>1. UNCHANGED <<pages, isOpen, file, past, out>>
    BY <1>5 DEF vars
  <2>2. Inv'
    BY <2>1, ReplyStep DEF Inv, TypeOK
  <2>3. UNCHANGED <<failed, used, inherited, palette>>
    BY <2>1 DEF past, file
  <2>4. InfoIsOfImage'
    BY <2>1, <2>3 DEF InfoIsOfImage, InfoGiven, InfoRight
  <2>5. DataIsOfImage'
    BY <2>1, <2>3 DEF DataIsOfImage, DataGiven, DataRight
  <2>. QED BY <2>2, <2>4, <2>5
<1>. QED BY <1>1, <1>2, <1>3, <1>4, <1>5 DEF Next

LEMMA AllInvariant == Spec => [](Inv /\ InfoIsOfImage /\ DataIsOfImage)
<1>1. Init => InfoIsOfImage /\ DataIsOfImage
  BY DEF Init, NoReply, InfoIsOfImage, DataIsOfImage, InfoGiven, DataGiven
<1>. QED BY <1>1, InitInv, NextInv, PTL DEF Spec

(* The fields keep their types: after any readings that failed half way    *)
(* there is a palette of at least two entries and libtiff at some page.    *)
THEOREM FileTypeCorrect == Spec => []TypeOK
<1>1. Inv => TypeOK
  BY DEF Inv
<1>. QED BY <1>1, AllInvariant, PTL

(* imFileReadImageInfo tells what belongs to the image asked for, from the *)
(* page or remembered, for all files of well-formed pages, unless reading  *)
(* failed since.                                                           *)
THEOREM InfoBelongs == Spec => []InfoIsOfImage
<1>. QED BY AllInvariant, PTL

(* imFileReadImageData returns the pixels of the image its information was *)
(* asked for, in the colours of its own palette, but for the mistakes of   *)
(* the code that DataIsOfImage names: a USHORT scaled to a byte by its     *)
(* type, packed lines of few bits, the palette of an earlier image, and    *)
(* palettes of grays with few bits or read twice.                          *)
THEOREM DataBelongs == Spec => []DataIsOfImage
<1>. QED BY AllInvariant, PTL
=============================================================================
