------------------------------ MODULE RunLength ------------------------------
(***************************************************************************)
(* The run-length codings of the PCX, Sun Raster, Targa, SGI and BMP       *)
(* drivers of IM (im_format_*.cpp): how a line of bytes is coded, and what *)
(* the decoders make of the bytes of a file.  Lines are sequences of       *)
(* bytes; Targa's may be of pixels, which are sequences of bytes.          *)
(***************************************************************************)
EXTENDS Integers, Sequences, FiniteSetsExt

Repeat(value, n) == [k \in 1 .. n |-> value]

(* How many elements from i on equal the one at i, max at most.            *)
RunAt(line, i, max) ==
  LET last == Min({Len(line), i + max - 1})
      ends == {j \in i + 1 .. last : line[j] # line[i]}
  IN (IF ends = {} THEN last + 1 ELSE Min(ends)) - i

Codes(codes, takes) == [codes |-> codes, takes |-> takes]

-----------------------------------------------------------------------------
(* Seeded bug: large values alone are not told from counts.                *)
BugPCXPacket(line, i) ==
  LET count == RunAt(line, i, 63)
  IN Codes(IF count > 1 THEN <<192 + count, line[i]>> ELSE <<line[i]>>, count)

PCXPacket(line, i) ==
  LET count == RunAt(line, i, 63)
  IN Codes(IF count > 1 \/ line[i] >= 64 THEN <<192 + count, line[i]>> ELSE <<line[i]>>,
           count)

RASEscape == 128
RASPacket(line, i) ==
  LET count == RunAt(line, i, 256)
      escapes == line[i] = RASEscape
  IN Codes(CASE count > 2 \/ (count = 2 /\ escapes) -> <<RASEscape, count - 1, line[i]>>
             [] count = 1 /\ escapes -> <<RASEscape, 0>>
             [] OTHER -> Repeat(line[i], count),
           count)

(* The bytes of the n pixels from i on.                                    *)
Flat(pixels, i, n) ==
  LET size == Len(pixels[i])
  IN [k \in 1 .. n * size |-> pixels[i + (k - 1) \div size][((k - 1) % size) + 1]]

(* A stretch of pixels none of which equals the next ends before the first *)
(* that does, and before the last.                                         *)
TGAPacket(pixels, i) ==
  LET count == RunAt(pixels, i, 128)
      room == Min({128, Len(pixels) - i})
      twins == {n \in 1 .. room - 1 : pixels[i + n] = pixels[i + n + 1]}
      stretch == IF twins = {} THEN Max({1, room}) ELSE Min(twins)
  IN IF count > 1
     THEN Codes(<<128 + count - 1>> \o pixels[i], count)
     ELSE Codes(<<stretch - 1>> \o Flat(pixels, i, stretch), stretch)

(* Chunks of at most 126, each behind its count, copied ones and then one  *)
(* run, of any length.                                                     *)
Chunks(n) == (n + 125) \div 126
Chunk(n, k) == Min({n - 126 * k, 126})

SGICopied(line, i, n) ==
  [k \in 1 .. n + Chunks(n) |->
     LET chunk == (k - 1) \div 127  at == (k - 1) % 127
     IN IF at = 0 THEN 128 + Chunk(n, chunk) ELSE line[i + 126 * chunk + at - 1]]

SGIRun(value, n) ==
  [k \in 1 .. 2 * Chunks(n) |-> IF k % 2 = 1 THEN Chunk(n, k \div 2) ELSE value]

SGIPacket(line, i) ==
  LET triples == {j \in i .. Len(line) - 2 : line[j] = line[j + 1] /\ line[j + 1] = line[j + 2]}
      start == IF triples = {} THEN Max({i, Len(line) - 1}) ELSE Min(triples)
      count == RunAt(line, start, Len(line))
  IN Codes(SGICopied(line, i, start - i) \o SGIRun(line[start], count), start - i + count)

(* How long a stretch is that starts with no run: it ends before the first *)
(* byte that is like the one before it.                                    *)
Differ(line, i) ==
  LET last == Min({Len(line), i + 254})
      twins == {j \in i + 2 .. last : line[j] = line[j - 1]}
  IN IF twins # {} THEN Min(twins) - 1 - i
     ELSE last + 1 - i - (IF last < Len(line) /\ line[last + 1] = line[last] THEN 1 ELSE 0)

BMPPacket(line, i) ==
  LET run == RunAt(line, i, 255)
      differ == Differ(line, i)
  IN IF i = Len(line) THEN Codes(<<1, line[i]>>, 1)
     ELSE IF run > 1 THEN Codes(<<run, line[i]>>, run)
     ELSE IF differ < 3
     THEN Codes([k \in 1 .. 2 * differ |-> IF k % 2 = 1 THEN 1 ELSE line[i + (k \div 2) - 1]],
                differ)
     ELSE Codes(<<0, differ>> \o SubSeq(line, i, i + differ - 1) \o Repeat(0, differ % 2),
                differ)

Packet(driver, line, i) ==
  CASE driver = "PCX" -> PCXPacket(line, i)
    [] driver = "RAS" -> RASPacket(line, i)
    [] driver = "TGA" -> TGAPacket(line, i)
    [] driver = "SGI" -> SGIPacket(line, i)
    [] driver = "BMP" -> BMPPacket(line, i)

(* What is written behind the last code of a line.                         *)
LineEnd(driver) ==
  CASE driver = "SGI" -> <<0>> [] driver = "BMP" -> <<0, 0>> [] OTHER -> <<>>

(* The codes of a line from each of its elements on.                       *)
EncodeFrom(driver, line) ==
  LET from[i \in 1 .. Len(line) + 1] ==
        IF i <= Len(line)
        THEN LET packet == Packet(driver, line, i)
             IN packet.codes \o from[i + packet.takes]
        ELSE LineEnd(driver)
  IN from

Encode(driver, line) == EncodeFrom(driver, line)[1]

-----------------------------------------------------------------------------
(* What a decoder makes of the code at pos: bytes, where it goes on, and   *)
(* whether that was the last of the line.  Behind the end of the file it   *)
(* reads nothing and notices after the packet.                             *)
ByteAt(file, pos) == IF pos <= Len(file) THEN file[pos] ELSE 0
Slice(file, pos, n) == [k \in 1 .. n |-> ByteAt(file, pos + k - 1)]
Makes(bytes, next) == [bytes |-> bytes, next |-> next, ends |-> FALSE]

PCXCode(file, pos) ==
  LET data == ByteAt(file, pos)
  IN IF data >= 192 THEN Makes(Repeat(ByteAt(file, pos + 1), data % 64), pos + 2)
     ELSE Makes(<<data>>, pos + 1)

(* count is a byte, so 255 + 1 is nothing.                                 *)
RASCode(file, pos) ==
  LET value == ByteAt(file, pos)  count == ByteAt(file, pos + 1)
  IN IF value # RASEscape THEN Makes(<<value>>, pos + 1)
     ELSE IF count = 0 THEN Makes(<<RASEscape>>, pos + 2)
     ELSE Makes(Repeat(ByteAt(file, pos + 2), (count + 1) % 256), pos + 3)

TGACode(file, pos, size) ==
  LET count == (ByteAt(file, pos) % 128) + 1
  IN IF ByteAt(file, pos) >= 128
     THEN Makes([k \in 1 .. count * size |-> ByteAt(file, pos + 1 + ((k - 1) % size))],
                pos + 1 + size)
     ELSE Makes(Slice(file, pos + 1, count * size), pos + 1 + count * size)

SGICode(file, pos) ==
  LET count == ByteAt(file, pos) % 128
  IN IF count = 0 THEN [Makes(<<>>, pos + 1) EXCEPT !.ends = TRUE]
     ELSE IF ByteAt(file, pos) >= 128 THEN Makes(Slice(file, pos + 1, count), pos + 1 + count)
     ELSE Makes(Repeat(ByteAt(file, pos + 1), count), pos + 2)

BMPCode(file, pos) ==
  LET count == ByteAt(file, pos)  value == ByteAt(file, pos + 1)
  IN IF count > 0 THEN Makes(Repeat(value, count), pos + 2)
     ELSE IF value \in {0, 1} THEN [Makes(<<>>, pos + 2) EXCEPT !.ends = TRUE]
     ELSE IF value = 2 THEN Makes(<<>>, pos + 4)
     ELSE Makes(Slice(file, pos + 2, value), pos + 2 + value + (value % 2))

CodeAt(driver, file, pos, size) ==
  CASE driver = "PCX" -> PCXCode(file, pos)
    [] driver = "RAS" -> RASCode(file, pos)
    [] driver = "TGA" -> TGACode(file, pos, size)
    [] driver = "SGI" -> SGICode(file, pos)
    [] driver = "BMP" -> BMPCode(file, pos)

(* A line of length bytes, of pixels of size bytes, from each place of the *)
(* file and with each number of bytes already there: its rest, where the   *)
(* file is then, and whether it was read without an error.  BMP reads on   *)
(* until the line's end is coded, what is too much is cut.                 *)
DecodeFrom(driver, file, size, length) ==
  LET from[place \in (1 .. Len(file) + 1) \X (0 .. length)] ==
        LET pos == place[1]  have == place[2]
            code == CodeAt(driver, file, pos, size)
            bytes == SubSeq(code.bytes, 1, Min({Len(code.bytes), length - have}))
            rest == from[<<code.next, have + Len(bytes)>>]
        IN IF have = length /\ driver # "BMP" THEN [line |-> <<>>, next |-> pos, ok |-> TRUE]
           ELSE IF code.next > Len(file) + 1 \/ code.ends
           THEN [line |-> bytes, next |-> code.next, ok |-> code.next <= Len(file) + 1]
           ELSE [line |-> bytes \o rest.line, next |-> rest.next, ok |-> rest.ok]
  IN from

Decode(driver, file, pos, size, length) == DecodeFrom(driver, file, size, length)[<<pos, 0>>]
=============================================================================
