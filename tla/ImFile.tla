------------------------------- MODULE ImFile -------------------------------
(***************************************************************************)
(* Reading images from an open file with IM (im_file.cpp) through the TIFF *)
(* driver (im_format_tiff.cpp), which can read any page of a file in any   *)
(* order.  The file remembers the information of the last image it read,   *)
(* one palette for all its images, and libtiff stands at one directory;    *)
(* the user asks for the information of an image and then for its data,    *)
(* may go back, repeat and abort.                                          *)
(*                                                                         *)
(* An image is abstracted to one pixel (the code treats them one by one)   *)
(* and to one number for its width and height; a colour is a triple of     *)
(* levels, of which there are 256 in the code, and a USHORT has the square *)
(* of that.  A pixel of several samples is one sample of it, any one.      *)
(* Top-down, alpha, tiles and attributes are left out.                     *)
(***************************************************************************)
EXTENDS Integers

CONSTANTS
  Level,      \* levels of a colour component, 256 in the code
  Page,       \* what one image of a TIFF file may be
  MaxImages,  \* no file has more images
  Garbled     \* a pixel read with the settings of another image, or left
              \* in the bits of the file

Space == {"RGB", "LAB", "GRAY", "BINARY", "MAP"}
Mode == [space : Space, packed : BOOLEAN]
DataType == {"BYTE", "USHORT"}
Value == 0 .. Level - 1
Wide == 0 .. Level * Level - 1
Values(type) == IF type = "BYTE" THEN Value ELSE Wide
Color == Value \X Value \X Value
Gray(v) == <<v, v, v>>
Flaw == {"none", "compression", "photometric", "bits", "samples"}

(* A page.  map is the colour map, of map_count entries (none: 0); bpp is  *)
(* the number of bits of a pixel when they are one, two or four, or 0;     *)
(* flaw is the first thing wrong with it that the driver looks at.         *)
PageType ==
  [size : Nat, mode : Mode, type : DataType, bpp : Nat,
   map : [Value -> Color], map_count : 0 .. Level, pixel : Wide, flaw : Flaw]

ASSUME LevelAssumption == Level \in Nat /\ Level >= 16
ASSUME ImagesAssumption == MaxImages \in Nat
ASSUME GarbledAssumption == Garbled \notin Wide

(* Images with a palette have a colour map, the others have none, and a    *)
(* pixel is in the map.  The driver gives images with a palette or of one  *)
(* bit bytes, so that imImageCheckFormat never objects to what it read.    *)
ASSUME PageAssumption ==
  /\ Page \subseteq PageType
  /\ \A p \in Page :
       /\ p.mode.space = "MAP" <=> p.map_count > 0
       /\ p.map_count > 0 => p.map_count >= 2 /\ p.pixel < p.map_count
       /\ p.mode.space \in {"MAP", "BINARY"} => p.type = "BYTE"
       /\ p.pixel \in Values(p.type)
       /\ p.bpp \in {0, 1, 2, 4}
       /\ p.bpp # 0 => p.type = "BYTE"
       /\ p.bpp = 1 => p.pixel < 2
       /\ p.bpp = 2 => p.pixel < 4
       /\ p.bpp = 4 => p.pixel < 16
       /\ p.mode.space = "BINARY" => p.bpp = 1

VARIABLES
  pages,            \* the images of the file on disk
  isOpen,
  directory,        \* where libtiff stands
  image_index, size, file_color_mode, file_data_type, convert_bpp,
  palette, palette_count,           \* fields of the imFile
  out,              \* what the last call told the user
  failed,           \* no information was read since one reading failed
  used,             \* reads of the data, or attempts, since the information
  inherited         \* some image of this opening changed the palette

file == <<directory, image_index, size, file_color_mode, file_data_type,
          convert_bpp, palette, palette_count>>
past == <<failed, used, inherited>>
vars == <<pages, isOpen, file, out, past>>

Count == CHOOSE n \in 0 .. MaxImages : DOMAIN pages = 0 .. n - 1
Index == -1 .. MaxImages
NoReply == [op |-> "none"]

-----------------------------------------------------------------------------
(* imFileClear: black to white in order, and RGB and BYTE, which are 0.    *)
Init ==
  /\ \E n \in 1 .. MaxImages : pages \in [0 .. n - 1 -> Page]
  /\ isOpen = FALSE
  /\ directory = 0 /\ image_index = -1 /\ size = 0 /\ convert_bpp = 0
  /\ file_color_mode = [space |-> "RGB", packed |-> FALSE]
  /\ file_data_type = "BYTE"
  /\ palette = [v \in Value |-> Gray(v)] /\ palette_count = Level
  /\ out = NoReply
  /\ failed = FALSE /\ used = 0 /\ inherited = FALSE

imFileClear ==
  /\ image_index' = -1 /\ size' = 0 /\ convert_bpp' = 0
  /\ file_color_mode' = [space |-> "RGB", packed |-> FALSE]
  /\ file_data_type' = "BYTE"
  /\ palette' = [v \in Value |-> Gray(v)] /\ palette_count' = Level

imFileOpen ==
  /\ ~isOpen /\ isOpen' = TRUE
  /\ directory' = 0
  /\ imFileClear
  /\ out' = NoReply
  /\ failed' = FALSE /\ used' = 0 /\ inherited' = FALSE
  /\ UNCHANGED pages

imFileClose ==
  /\ isOpen /\ isOpen' = FALSE
  /\ out' = NoReply
  /\ UNCHANGED <<pages, file, past>>

-----------------------------------------------------------------------------
(* No colour, and a level at most once in a place that is not its own.     *)
iFileCheckPaletteGray(pal, n) ==
  /\ \A i \in 0 .. n - 1 : pal[i] = Gray(pal[i][1])
  /\ \A i, j \in 0 .. n - 1 :
       i # j /\ pal[i][1] = pal[j][1] => pal[i][1] \in {i, j}

iFileCheckPaletteBinary(pal, n) ==
  n <= 2 /\ \A i \in {0, 1} : pal[i] \in {Gray(0), Gray(1), Gray(Level - 1)}

(* The mode imFileReadImageInfo tells instead of the driver's.             *)
ModeTold(mode, pal, n) ==
  IF mode.space # "MAP" THEN mode
  ELSE IF iFileCheckPaletteBinary(pal, n) THEN [mode EXCEPT !.space = "BINARY"]
  ELSE IF iFileCheckPaletteGray(pal, n) THEN [mode EXCEPT !.space = "GRAY"]
  ELSE mode

BinaryPalette(pal) == [pal EXCEPT ![0] = Gray(0), ![1] = Gray(Level - 1)]

(* The palette after the driver read page p: its own, if it has one.       *)
PaletteRead(p) ==
  [v \in Value |-> IF v < p.map_count THEN p.map[v] ELSE palette[v]]

(* Seeded bug: a page without a colour map leaves a palette of no entries. *)
BugCountOfPage(p) == p.map_count

CountRead(p) == IF p.map_count > 0 THEN p.map_count ELSE palette_count

Told(index) ==
  [op |-> "info", index |-> index, error |-> FALSE, size |-> size',
   mode |-> file_color_mode', type |-> file_data_type']
Refused(op, index) == [op |-> op, index |-> index, error |-> TRUE]

-----------------------------------------------------------------------------
(* imFileReadImageInfo, return by return.                                  *)
InfoNoSuchImage(index) ==
  /\ index >= Count
  /\ out' = Refused("info", index)
  /\ UNCHANGED <<file, past>>

(* Seeded bug: the file believes the cache whichever image it is about.    *)
BugCacheUnchecked(index) == image_index # -1 /\ index >= 0

Cached(index) == image_index # -1 /\ image_index = index

InfoCached(index) ==
  /\ index < Count /\ Cached(index)
  /\ UNCHANGED <<file, past>>
  /\ out' = Told(index)

(* TIFFSetDirectory fails: only convert_bpp has been reset.                *)
InfoNoDirectory(index) ==
  /\ index < Count /\ ~Cached(index) /\ index \notin DOMAIN pages
  /\ convert_bpp' = 0
  /\ out' = Refused("info", index)
  /\ failed' = TRUE
  /\ UNCHANGED <<directory, image_index, size, file_color_mode, file_data_type,
                 palette, palette_count, used, inherited>>

(* The driver gives up on the page after it has set part of the fields.    *)
InfoFails(index) ==
  /\ index < Count /\ ~Cached(index) /\ index \in DOMAIN pages
  /\ LET p    == pages[index]
         last == p.flaw = "samples"
     IN /\ p.flaw # "none"
        /\ directory' = index
        /\ size' = IF p.flaw = "compression" THEN size ELSE p.size
        /\ file_color_mode' =
             CASE p.flaw \in {"compression", "photometric"} -> file_color_mode
               [] p.flaw = "bits" -> [p.mode EXCEPT !.packed = FALSE]
               [] last -> p.mode
        /\ file_data_type' = IF last THEN p.type ELSE file_data_type
        /\ convert_bpp' = IF last THEN p.bpp ELSE 0
        /\ palette' = IF last THEN PaletteRead(p) ELSE palette
        /\ palette_count' = IF last THEN CountRead(p) ELSE palette_count
        /\ inherited' = (inherited \/ (last /\ p.map_count > 0))
  /\ out' = Refused("info", index)
  /\ failed' = TRUE
  /\ UNCHANGED <<image_index, used>>

InfoRead(index) ==
  /\ index < Count /\ ~Cached(index) /\ index \in DOMAIN pages
  /\ LET p      == pages[index]
         binary == p.mode.space = "BINARY"
     IN /\ p.flaw = "none"
        /\ directory' = index
        /\ size' = p.size
        /\ file_data_type' = p.type
        /\ convert_bpp' = p.bpp
        /\ palette' = IF binary THEN BinaryPalette(PaletteRead(p)) ELSE PaletteRead(p)
        /\ palette_count' = IF binary THEN 2 ELSE CountRead(p)
        /\ file_color_mode' = ModeTold(p.mode, palette', palette_count')
        /\ inherited' = (inherited \/ binary \/ p.map_count > 0)
  /\ image_index' = index
  /\ out' = Told(index)
  /\ failed' = FALSE /\ used' = 0

imFileReadImageInfo(index) ==
  /\ isOpen
  /\ \/ InfoNoSuchImage(index)
     \/ InfoCached(index)
     \/ InfoNoDirectory(index)
     \/ InfoFails(index)
     \/ InfoRead(index)
  /\ UNCHANGED <<pages, isOpen>>

-----------------------------------------------------------------------------
(* imFileReadImageData.  bitmap is convert2bitmap; how the user wants the  *)
(* pixels packed makes no difference to what follows.                      *)
UserSpace(bitmap) ==
  IF bitmap /\ file_color_mode.space = "LAB" THEN "RGB" ELSE file_color_mode.space

(* Reading converts types only to bytes, which is all that is asked for;   *)
(* what remains is that the colours of an unpacked file stay as they are.  *)
imFileCheckConversion(space) ==
  space = file_color_mode.space \/ file_color_mode.packed

(* What may be read as the pixel: libtiff reads the directory it stands    *)
(* at, the line buffer takes it apart with the fields of the file.  Two    *)
(* and four bits of a gray file are spread over the levels: 85 and 17      *)
(* times of 256.  Few bits become bytes only as often as a line has        *)
(* pixels: of a packed line, which has more samples, the rest is left.     *)
Spread ==
  IF file_color_mode.space # "GRAY" THEN 1
  ELSE CASE convert_bpp = 2 -> (Level - 1) \div 3
         [] convert_bpp = 4 -> (Level - 1) \div 15
         [] OTHER -> 1

Raw ==
  LET p       == pages[directory]
      its_own == /\ size = p.size /\ file_data_type = p.type
                 /\ convert_bpp = p.bpp /\ file_color_mode.packed = p.mode.packed
      whole   == convert_bpp = 0 \/ ~file_color_mode.packed
  IN {v \in {p.pixel * Spread} : its_own} \cup {v \in {Garbled} : ~(its_own /\ whole)}

(* Seeded bug: the palette is put in order before the data is remapped.    *)
BugRemapOrdered(v, result) == result = v

(* iFileCheckConvertGray on a pixel.  remap is filled for palette_count    *)
(* entries only: what is behind them in it is any value.                   *)
Remapped(v, result) ==
  IF \A i \in 0 .. palette_count - 1 : palette[i][1] = i THEN result = v
  ELSE IF v = Garbled THEN result = Garbled
  ELSE IF v < palette_count THEN result = palette[v][1]
  ELSE result \in Value

iFileCheckConvertGray(v, result) ==
  /\ Remapped(v, result)
  /\ palette' = [i \in Value |->
       IF i < palette_count /\ palette[i][1] # i THEN Gray(i) ELSE palette[i]]

iFileCheckConvertBinary(v, result) ==
  result = IF v = Garbled THEN Garbled ELSE IF v = 0 THEN 0 ELSE 1

(* iConvertType2Byte: the range of the type to that of a byte, whatever    *)
(* values the image has.                                                   *)
Type2Byte(v, bitmap) ==
  IF bitmap /\ file_data_type = "USHORT" /\ v # Garbled THEN v \div Level ELSE v

Data(bitmap, value) ==
  out' = [op |-> "data", index |-> image_index, error |-> FALSE,
          bitmap |-> bitmap, space |-> UserSpace(bitmap), value |-> value]

DataRefused(bitmap) ==
  /\ image_index = -1 \/ ~imFileCheckConversion(UserSpace(bitmap))
  /\ out' = Refused("data", image_index)
  /\ UNCHANGED <<file, past>>

(* The driver reads, fails or is told to stop by the counter's callback:   *)
(* the checks for grays and binaries come after it whatever it returned.   *)
DataRead(bitmap) ==
  /\ image_index # -1 /\ imFileCheckConversion(UserSpace(bitmap))
  /\ \E v \in Raw, result \in Wide \cup {Garbled} :
       /\ \/ /\ file_color_mode.space = "GRAY" /\ file_data_type = "BYTE"
             /\ iFileCheckConvertGray(v, result)
          \/ /\ file_color_mode.space = "BINARY"
             /\ iFileCheckConvertBinary(v, result)
             /\ palette' = palette
          \/ /\ file_color_mode.space = "GRAY" => file_data_type # "BYTE"
             /\ file_color_mode.space # "BINARY"
             /\ result = Type2Byte(v, bitmap) /\ palette' = palette
       /\ Data(bitmap, result) \/ out' = Refused("data", image_index)
  /\ used' = IF used = 0 THEN 1 ELSE 2
  /\ UNCHANGED <<directory, image_index, size, file_color_mode, file_data_type,
                 convert_bpp, palette_count, failed, inherited>>

imFileReadImageData(bitmap) ==
  /\ isOpen
  /\ DataRefused(bitmap) \/ DataRead(bitmap)
  /\ UNCHANGED <<pages, isOpen>>

Next ==
  \/ imFileOpen
  \/ imFileClose
  \/ \E index \in Index : imFileReadImageInfo(index)
  \/ \E bitmap \in BOOLEAN : imFileReadImageData(bitmap)

Spec == Init /\ [][Next]_vars

-----------------------------------------------------------------------------
Reply ==
  {NoReply}
  \cup [op : {"info", "data"}, index : Index, error : {TRUE}]
  \cup [op : {"info"}, index : Index, error : {FALSE}, size : Nat,
        mode : Mode, type : DataType]
  \cup [op : {"data"}, index : Index, error : {FALSE}, bitmap : BOOLEAN,
        space : Space, value : Wide \cup {Garbled}]

TypeOK ==
  /\ pages \in UNION {[0 .. n - 1 -> Page] : n \in 1 .. MaxImages}
  /\ isOpen \in BOOLEAN
  /\ directory \in DOMAIN pages
  /\ image_index \in DOMAIN pages \cup {-1}
  /\ size \in Nat /\ file_color_mode \in Mode /\ file_data_type \in DataType
  /\ convert_bpp \in Nat
  /\ palette \in [Value -> Color] /\ palette_count \in 2 .. Level
  /\ out \in Reply
  /\ failed \in BOOLEAN /\ used \in 0 .. 2 /\ inherited \in BOOLEAN

(* What a page is when nothing else was ever read from the file.           *)
TrueMode(p) == ModeTold(p.mode, p.map, p.map_count)
TrueInfo(p) == [size |-> p.size, mode |-> TrueMode(p), type |-> p.type]
TrueSpread(p) ==
  IF p.mode.space # "GRAY" THEN 1
  ELSE CASE p.bpp = 2 -> (Level - 1) \div 3
         [] p.bpp = 4 -> (Level - 1) \div 15
         [] OTHER -> 1
TrueValue(p) ==
  IF p.mode.space # "MAP" THEN p.pixel * TrueSpread(p)
  ELSE CASE TrueMode(p).space = "BINARY" -> IF p.pixel = 0 THEN 0 ELSE 1
         [] TrueMode(p).space = "GRAY" -> p.map[p.pixel][1]
         [] OTHER -> p.pixel

InfoGiven == out.op = "info" /\ ~out.error
DataGiven == out.op = "data" /\ ~out.error
InfoRight == TrueInfo(pages[out.index]) =
               [size |-> out.size, mode |-> out.mode, type |-> out.type]
DataRight ==
  LET p == pages[out.index]
  IN /\ out.value = TrueValue(p)
     /\ TrueMode(p).space = "MAP" => palette[out.value] = p.map[p.pixel]

(* Safety: the information imFileReadImageInfo returns, from the page or   *)
(* remembered, is that of the image asked for, in whatever order images    *)
(* were read before, unless reading the information of another one failed  *)
(* in between: that leaves its fields to the remembered image.             *)
InfoIsOfImage == InfoGiven /\ ~failed => InfoRight

(* Safety: the data imFileReadImageData returns, and the colours the       *)
(* palette gives it, are those of the image whose information was asked    *)
(* for last, however often they are read.  The exceptions, each a mistake  *)
(* of the code:                                                            *)
(*  - a USHORT made a byte is divided by the levels, where the manual      *)
(*    promises values scaled from the smallest to the largest of the       *)
(*    image, and left alone when they fit into a byte (im.h:238-239);      *)
(*  - of few bits in packed pages the end of a line is not taken apart;    *)
(*  - an image without a palette has that of an earlier one (inherited);   *)
(*  - a palette of grays with few bits: these are spread over the levels,  *)
(*    since the file is told to be gray, and then looked up in a palette   *)
(*    that has no such entries;                                            *)
(*  - a palette of grays read a second time, after a success, a failure or *)
(*    an abort: the first reading has put the palette in order, and what   *)
(*    is returned is the entry's number, not the gray it stood for.        *)
DataIsOfImage ==
  LET p == pages[out.index]
      gray_map == p.mode.space = "MAP" /\ TrueMode(p).space = "GRAY"
  IN DataGiven /\ ~failed =>
       \/ DataRight
       \/ out.bitmap /\ p.type = "USHORT"
       \/ p.mode.packed /\ p.bpp # 0
       \/ p.mode.space = "GRAY" /\ p.type = "BYTE" /\ inherited
       \/ gray_map /\ p.bpp \in {2, 4}
       \/ gray_map /\ used = 2 /\ out.value = p.pixel

=============================================================================
