----------------------------- MODULE ImImageData -----------------------------
(***************************************************************************)
(* The data of an image on its way to a file and back: the user's memory   *)
(* and its layout, the line buffer every driver of IM goes through         *)
(* (im_filebuffer.cpp) and the loops of five drivers that write and read   *)
(* their own bytes (PCX, Sun Raster, Targa, SGI, BMP), line by line, plain *)
(* or run-length coded, and what three of them write behind the last line. *)
(* The callback may abort the writing after any line and leave the file as *)
(* it is then; it can be read any number of times.                         *)
(***************************************************************************)
EXTENDS Integers, Sequences, FiniteSetsExt, RunLength

CONSTANTS
  Picture,  \* images to write: what driver, coded or not, to what kind of
            \* file, size and memory
  Layout    \* of the memory a reader offers: alpha, packed, topdown

VARIABLES
  picture,  \* the image that is written
  phase,    \* "write", "trailer", "closed" or "read"
  result,   \* of the last writing or reading; IM_ERR_ACCESS is "unwritten"
            \* of the one, "access" of the other
  file,     \* the bytes of the lines in the file
  trailer,  \* whether what belongs behind them is there
  table,    \* SGI: where the coded lines start, when the file has that
  lines,    \* written
  step,     \* lines written or read
  pos,      \* of the reader
  layout,   \* of its memory
  back      \* what it has there

dataVars == <<picture, phase, result, file, trailer, table, lines, step, pos, layout, back>>

-----------------------------------------------------------------------------
(* Color modes, and the memory they describe.                              *)
SpaceDepth(space) == IF space = "RGB" THEN 3 ELSE 1
Depth(space, mode) == SpaceDepth(space) + (IF mode.alpha THEN 1 ELSE 0)

Offset(p, mode, x, line, d) ==
  IF mode.packed THEN (line * p.width + x) * Depth(p.space, mode) + d
  ELSE d * p.width * p.height + line * p.width + x

(* Its inverse.                                                            *)
Place(p, mode, offset) ==
  LET depth == Depth(p.space, mode)  plane == p.width * p.height
      at == IF mode.packed THEN offset \div depth ELSE offset % plane
  IN [x |-> at % p.width, line |-> at \div p.width,
      d |-> IF mode.packed THEN offset % depth ELSE offset \div plane]

MemorySize(p, mode) == p.width * p.height * Depth(p.space, mode)

(* What is written: sizes are positive, values are bytes, the two of a      *)
(* black and white image are 0 and 1, and BMP codes nothing but gray       *)
(* (imFormatBMP::CanWrite).  A file may report bytes that could not be     *)
(* read (memory files, Windows) or not (Unix, streams).                    *)
Modes == [alpha : BOOLEAN, packed : BOOLEAN, topdown : BOOLEAN]
AnImage(p) ==
  /\ p.driver \in {"PCX", "RAS", "TGA", "SGI", "BMP"} /\ p.rle \in BOOLEAN /\ p.reports \in BOOLEAN
  /\ p.space \in {"GRAY", "RGB", "BINARY"} /\ p.mode \in Modes
  /\ p.width \in Nat \ {0} /\ p.height \in Nat \ {0}
  /\ p.data \in [1 .. MemorySize(p, p.mode) -> IF p.space = "BINARY" THEN 0 .. 1 ELSE 0 .. 255]
  /\ p.driver = "BMP" /\ p.rle => p.space = "GRAY"

ASSUME PictureAssumption == \A p \in Picture : AnImage(p)
ASSUME LayoutAssumption == Layout \subseteq Modes

(* WriteImageInfo: the file's own.  There is no alpha but with colors, in  *)
(* SGI also with gray, and none in PCX.                                    *)
FileMode(p) ==
  [alpha |-> p.mode.alpha /\ (p.space = "RGB" \/ p.driver = "SGI") /\ p.driver # "PCX",
   packed |-> p.space = "RGB" /\ p.driver # "SGI",
   topdown |-> p.driver \in {"PCX", "RAS"}]

FileDepth(p) == Depth(p.space, FileMode(p))
Bits(p) == p.space = "BINARY" /\ p.driver \in {"PCX", "RAS", "BMP"}
LineSize(p) == p.width * (IF FileMode(p).packed THEN FileDepth(p) ELSE 1)

Aligned(width, bpp, bytes) ==
  ((width * bpp + 8 * bytes - 1) \div (8 * bytes)) * bytes

(* The bytes of a line in the file.                                        *)
RawSize(p) ==
  LET bpp == IF Bits(p) THEN 1 ELSE 8
      planes == IF FileMode(p).packed THEN FileDepth(p) ELSE 1
  IN CASE p.driver = "PCX" -> Aligned(p.width, bpp, 2) * planes
       [] p.driver = "RAS" -> Aligned(p.width, bpp * planes, 2)
       [] p.driver = "BMP" -> Aligned(p.width, bpp * planes, 4)
       [] OTHER -> LineSize(p)

(* Seeded bug: as much as the line.                                        *)
BugRoom(p) == IF p.driver \in {"TGA", "SGI"} THEN LineSize(p) ELSE RawSize(p)

(* What the drivers take for the coded line, behind the line itself.       *)
Room(p) == 2 * (IF p.driver \in {"TGA", "SGI"} THEN LineSize(p) ELSE RawSize(p))

SameMode(m, n) == m.alpha = n.alpha /\ m.packed = n.packed

-----------------------------------------------------------------------------
(* imFileLineBufferCount and imFileLineBufferInc.                          *)
LineCount(p, mode) ==
  IF FileMode(p).packed THEN p.height
  ELSE p.height * (IF FileMode(p).alpha /\ mode.alpha THEN FileDepth(p)
                   ELSE SpaceDepth(p.space))
LineOf(p, n) == IF FileMode(p).packed THEN n ELSE n % p.height
PlaneOf(p, n) == IF FileMode(p).packed THEN 0 ELSE n \div p.height

(* The line of the memory that is the file's line.                         *)
MemoryLine(p, mode, n) ==
  IF FileMode(p).topdown = mode.topdown THEN LineOf(p, n)
  ELSE p.height - 1 - LineOf(p, n)

(* imFileLineBufferWrite: the same layout is copied, else element by       *)
(* element (iDoFillLineBuffer).                                            *)
CopyOffset(p, mode, n) ==
  (MemoryLine(p, mode, n) + PlaneOf(p, n) * p.height) * LineSize(p)

FillLine(p, n) ==
  LET line == MemoryLine(p, p.mode, n)  depth == FileDepth(p)
  IN [k \in 1 .. LineSize(p) |->
        IF SameMode(FileMode(p), p.mode) THEN p.data[CopyOffset(p, p.mode, n) + k]
        ELSE IF FileMode(p).packed
             THEN p.data[Offset(p, p.mode, (k - 1) \div depth, line, (k - 1) % depth) + 1]
             ELSE p.data[Offset(p, p.mode, k - 1, line, PlaneOf(p, n)) + 1]]

(* imFileLineBufferRead: memory is left alone where the file has nothing   *)
(* for it (iDoFillData).                                                   *)
FillMemory(p, mode, n, line, memory) ==
  LET at == MemoryLine(p, mode, n)  depth == FileDepth(p)
      common == Min({depth, Depth(p.space, mode)})
  IN IF SameMode(FileMode(p), mode)
     THEN [k \in DOMAIN memory |->
             IF k - CopyOffset(p, mode, n) \in 1 .. LineSize(p)
             THEN line[k - CopyOffset(p, mode, n)] ELSE memory[k]]
     ELSE LET planes == IF FileMode(p).packed THEN 0 .. common - 1 ELSE {PlaneOf(p, n)}
          IN [k \in DOMAIN memory |->
                LET to == Place(p, mode, k - 1)
                IN IF to.line = at /\ to.d \in planes
                   THEN line[IF FileMode(p).packed THEN to.x * depth + to.d + 1 ELSE to.x + 1]
                   ELSE memory[k]]

-----------------------------------------------------------------------------
(* iFileCompactBits, in place: bits behind the last one stay what they     *)
(* were.  convert_bpp is -1 for who writes the two values as gray.         *)
Weight == <<128, 64, 32, 16, 8, 4, 2, 1>>
Compact(line) ==
  LET Bit(k) == IF k <= Len(line) /\ line[k] # 0 THEN 1 ELSE 0
  IN [b \in 1 .. (Len(line) + 7) \div 8 |->
        LET first == 8 * b - 7
        IN 128 * Bit(first) + 64 * Bit(first + 1) + 32 * Bit(first + 2) + 16 * Bit(first + 3)
           + 8 * Bit(first + 4) + 4 * Bit(first + 5) + 2 * Bit(first + 6) + Bit(first + 7)
           + (IF 8 * b > Len(line) THEN line[b] % Weight[Len(line) % 8] ELSE 0)]

(* iFileExpandBits.                                                        *)
Expand(raw, width) ==
  [i \in 1 .. width |-> (raw[(i - 1) \div 8 + 1] \div Weight[((i - 1) % 8) + 1]) % 2]

(* FixRGB and FixRGBOrder: Sun Raster has ABGR and BGR, the others BGRA    *)
(* and BGR; the same both ways.                                            *)
Swap(n, driver, d) ==
  IF n = 4 /\ driver = "RAS" THEN 3 - d ELSE IF d < 3 THEN 2 - d ELSE d

FixRGB(p, line) ==
  LET n == FileDepth(p)
  IN [k \in 1 .. Len(line) |-> line[((k - 1) \div n) * n + Swap(n, p.driver, (k - 1) % n) + 1]]

(* The line of pixels made the bytes the file has, and back.  What is      *)
(* behind it in the buffer pads it (PCX: each color, Unpack24bpp).         *)
Padded(line, size, junk) == line \o Repeat(junk, size - Len(line))

Raw(p, line, junk) ==
  CASE Bits(p) -> Padded(Compact(line), RawSize(p), junk)
    [] p.space = "BINARY" /\ ~Bits(p) ->
         [k \in DOMAIN line |-> IF line[k] # 0 THEN 255 ELSE line[k]]
    [] p.space = "RGB" /\ p.driver = "PCX" ->
         LET n == RawSize(p) \div 3
         IN [k \in 1 .. RawSize(p) |->
               LET x == (k - 1) % n
               IN IF x < p.width THEN line[3 * x + (k - 1) \div n + 1] ELSE junk]
    [] p.space = "RGB" /\ p.driver \notin {"PCX", "SGI"} ->
         Padded(FixRGB(p, line), RawSize(p), junk)
    [] OTHER -> Padded(line, RawSize(p), junk)

Unraw(p, raw) ==
  CASE Bits(p) -> Expand(raw, p.width)
    [] p.space = "RGB" /\ p.driver = "PCX" ->
         [k \in 1 .. LineSize(p) |-> raw[((k - 1) % 3) * (RawSize(p) \div 3) + (k - 1) \div 3 + 1]]
    [] p.space = "RGB" /\ p.driver \notin {"PCX", "SGI"} ->
         FixRGB(p, SubSeq(raw, 1, LineSize(p)))
    [] OTHER -> SubSeq(raw, 1, LineSize(p))

PixelSize(p) == IF p.driver = "TGA" THEN FileDepth(p) ELSE 1
CodedSize(p) == IF p.driver = "BMP" THEN p.width ELSE RawSize(p)

(* The bytes of a line as they are written.                                *)
InFile(p, raw) ==
  IF ~p.rle THEN raw
  ELSE IF p.driver = "TGA"
  THEN LET n == FileDepth(p)
       IN Encode("TGA", [x \in 1 .. p.width |-> SubSeq(raw, (x - 1) * n + 1, x * n)])
  ELSE Encode(p.driver, SubSeq(raw, 1, CodedSize(p)))

-----------------------------------------------------------------------------
HasTable(p) == p.driver = "SGI" /\ p.rle

(* What WriteImageData writes behind the lines.                            *)
Trailer(p) ==
  CASE p.driver = "PCX" /\ p.space = "GRAY" -> "palette"
    [] p.driver = "TGA" -> "extension"
    [] HasTable(p) -> "tables"
    [] OTHER -> "none"

PaletteMissing == Trailer(picture) = "palette" /\ ~trailer
TablesMissing == HasTable(picture) /\ table = <<>>

DataInit ==
  /\ picture \in Picture
  /\ phase = "write" /\ result = "none"
  /\ file = <<>> /\ trailer = FALSE /\ table = <<>> /\ lines = 0 /\ step = 0 /\ pos = 1
  /\ layout = picture.mode /\ back = <<>>

(* WriteImageData, one line: prepared, coded, written, counted.  If the    *)
(* callback aborts, after the last line too, that is all that is written.  *)
WriteLine(junk, answer) ==
  LET coded == InFile(picture, Raw(picture, FillLine(picture, step), junk))
      last == step + 1 = LineCount(picture, picture.mode)
      starts == Append(table, Len(file) + 1)
  IN /\ phase = "write"
     /\ file' = file \o coded
     /\ lines' = lines + 1 /\ step' = step + 1
     /\ phase' = IF ~answer THEN "closed" ELSE IF last THEN "trailer" ELSE "write"
     /\ result' = IF ~answer THEN "counter" ELSE result
     /\ table' = IF HasTable(picture) /\ answer THEN starts ELSE <<>>
     /\ UNCHANGED <<picture, trailer, pos, layout, back>>

(* Its end: PCX writes the palette of gray images, Targa its extension     *)
(* area, SGI the real tables; of SGI's nobody asks whether they could be   *)
(* written.                                                                *)
WriteTrailer(written) ==
  /\ phase = "trailer"
  /\ ~written => Trailer(picture) # "none"
  /\ phase' = "closed"
  /\ trailer' = written
  /\ result' = IF written \/ Trailer(picture) = "tables" THEN "written" ELSE "unwritten"
  /\ table' = IF written THEN table ELSE <<>>
  /\ UNCHANGED <<picture, file, lines, step, pos, layout, back>>

(* The line cannot be written, or only the first half of its bytes.        *)
WriteFails ==
  LET coded == InFile(picture, Raw(picture, FillLine(picture, step), 0))
  IN /\ phase = "write"
     /\ phase' = "closed" /\ result' = "unwritten"
     /\ file' = file \o SubSeq(coded, 1, Len(coded) \div 2)
     /\ table' = <<>>
     /\ UNCHANGED <<picture, trailer, lines, step, pos, layout, back>>

(* A reader opens the file and offers memory.                              *)
OpenImage(mode) ==
  /\ phase = "closed"
  /\ phase' = "read" /\ result' = "none"
  /\ step' = 0 /\ pos' = 1
  /\ layout' = mode /\ back' = Repeat(0, MemorySize(picture, mode))
  /\ UNCHANGED <<picture, file, trailer, table, lines>>

(* The palette is not where it should be, unless another byte there is its *)
(* mark by chance.                                                         *)
OpenFails ==
  /\ phase = "closed" /\ PaletteMissing
  /\ result' = "access"
  /\ UNCHANGED <<picture, phase, file, trailer, table, lines, step, pos, layout, back>>

Line(raw, next, ok) == [line |-> raw, next |-> next, ok |-> ok]

(* The line at the reader's place.  Tables that were not written hold what *)
(* the memory for them did, so the line is any (zeros stand for that) or   *)
(* behind the file.                                                        *)
LineThere ==
  IF ~picture.rle
  THEN {Line(Slice(file, pos, RawSize(picture)), pos + RawSize(picture),
             pos + RawSize(picture) <= Len(file) + 1)}
  ELSE IF TablesMissing
  THEN {Line(Repeat(0, RawSize(picture)), pos, ok) : ok \in BOOLEAN}
  ELSE {Decode(picture.driver, file, IF HasTable(picture) THEN table[step + 1] ELSE pos,
               PixelSize(picture), CodedSize(picture))}

(* A file that does not report its end leaves the buffer as it was there,  *)
(* for which zeros stand, and goes on.                                     *)
Unreported(read) ==
  Line(Padded(read.line, RawSize(picture), 0), Min({read.next, Len(file) + 1}), TRUE)

NextLine ==
  {IF read.ok \/ picture.reports THEN read ELSE Unreported(read) : read \in LineThere}

(* ReadImageData, one line; the callback may abort here, too.              *)
ReadLine(answer) ==
  /\ phase = "read"
  /\ \E read \in NextLine :
       IF ~read.ok
       THEN /\ phase' = "closed" /\ result' = "access"
            /\ UNCHANGED <<back, pos, step>>
       ELSE /\ back' = FillMemory(picture, layout, step, Unraw(picture, read.line), back)
            /\ pos' = read.next
            /\ step' = step + 1
            /\ CASE ~answer -> phase' = "closed" /\ result' = "counter"
                 [] answer /\ step + 1 = LineCount(picture, layout) ->
                      phase' = "closed" /\ result' = "read"
                 [] OTHER -> UNCHANGED <<phase, result>>
  /\ UNCHANGED <<picture, file, trailer, table, lines, layout>>

DataNext ==
  \/ \E junk \in {0, 255}, answer \in BOOLEAN : WriteLine(junk, answer)
  \/ \E written \in BOOLEAN : WriteTrailer(written)
  \/ \E mode \in Layout : OpenImage(mode)
  \/ WriteFails
  \/ OpenFails
  \/ \E answer \in BOOLEAN : ReadLine(answer)

DataSpec == DataInit /\ [][DataNext]_dataVars

-----------------------------------------------------------------------------
(* A pixel at column x of line y from the top, wherever memory has it.     *)
Pixel(p, mode, memory, x, y, d) ==
  memory[Offset(p, mode, x, IF mode.topdown THEN y ELSE p.height - 1 - y, d) + 1]

(* The image: black and white becomes 0 and 255 where the file has gray;   *)
(* alpha comes back when the file has it, else memory for it is left alone.*)
SameImage(p, mode, memory) ==
  \A x \in 0 .. p.width - 1, y \in 0 .. p.height - 1, d \in 0 .. Depth(p.space, mode) - 1 :
    Pixel(p, mode, memory, x, y, d) =
      IF d = SpaceDepth(p.space) /\ ~FileMode(p).alpha THEN 0
      ELSE Pixel(p, p.mode, p.data, x, y, d)
           * (IF p.space = "BINARY" /\ ~Bits(p) THEN 255 ELSE 1)

(* A run of 256 bytes, padding included, is one code of Sun Raster, whose  *)
(* count the decoder adds one to in a byte.                                *)
LosesRuns(p) ==
  /\ p.driver = "RAS" /\ p.rle /\ p.width * FileDepth(p) >= 255
  /\ \E n \in 0 .. LineCount(p, p.mode) - 1, junk \in {0, 255} :
       LET raw == Raw(p, FillLine(p, n), junk)
       IN \E i \in 1 .. Len(raw) : RunAt(raw, i, 256) = 256

Whole == lines = LineCount(picture, picture.mode)

(* Whatever the layouts of memory on both sides, however the driver packs, *)
(* swaps and codes its lines: what is read without an error is the image,  *)
(* also when the writing was aborted, and a reader fails only where lines  *)
(* or the palette are missing, which after a writing that says it was      *)
(* whole they are not.  The exceptions are mistakes of the code: Sun       *)
(* Raster loses runs of 256 bytes, SGI's tables may be ones nobody wrote,  *)
(* and a file that does not report its end gives lines it does not have.   *)
ImageComesBack ==
  /\ result = "read" /\ (Whole \/ picture.reports) /\ ~LosesRuns(picture) /\ ~TablesMissing =>
       SameImage(picture, layout, back)
  /\ result = "access" => ~Whole \/ PaletteMissing \/ TablesMissing \/ LosesRuns(picture)
  /\ result = "written" => Whole /\ ~PaletteMissing

(* "allocates more than enough since compression algoritm can be           *)
(* ineficient" (in each driver): a coded line fits behind the line buffer, *)
(* but SGI's lines of three pixels or less, which can grow more than twice.*)
LineFits ==
  [][phase = "write" /\ picture.rle /\ ~(picture.driver = "SGI" /\ picture.width <= 3) =>
       Len(file') - Len(file) <= Room(picture)]_dataVars
=============================================================================
