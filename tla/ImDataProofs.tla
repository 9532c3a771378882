---------------------------- MODULE ImDataProofs ----------------------------
(***************************************************************************)
(* Proofs about the bytes of a file, for every value of the constants: the *)
(* memory file they are written to (ImBinMemoryFile), the codes of the     *)
(* drivers (RunLength) and the images that become bytes and come back      *)
(* (ImImageData).                                                          *)
(***************************************************************************)
EXTENDS ImBinMemoryFile, ImImageData, FiniteSetTheorems, SequenceTheorems, TLAPS

(* The two properties are inductive together: the type of the block is     *)
(* what keeps a copy inside it, the order of the sizes what keeps a short  *)
(* read or write from a negative length.                                   *)
IInv == TypeOK /\ FileInBlock

Flags == isOpen \in BOOLEAN /\ hung \in BOOLEAN /\ Error \in BOOLEAN

(* The same without the flags, which no other part depends on.             *)
Shape ==
  /\ name_size \in Nat \ {0}
  /\ buffer = Null \/ buffer \in [0 .. name_size - 1 -> Cell]
  /\ BufferSize \in Nat /\ CurrentSize \in Nat /\ CurPos \in Nat
  /\ CurrentSize <= name_size
  /\ isOpen => /\ buffer # Null
               /\ CurPos <= CurrentSize
               /\ BufferSize = name_size

LEMMA Parts == IInv <=> Flags /\ Shape
  BY DEF IInv, TypeOK, FileInBlock, Flags, Shape

(* The structure a user hands over is well formed.                         *)
LEMMA InitIInv == Init => IInv
<1> SUFFICES ASSUME Init PROVE IInv
  OBVIOUS
<1>1. name_size \in Nat \ {0}
  BY SizeAssumption DEF Init
<1>2. buffer = Null \/ buffer \in [0 .. name_size - 1 -> Cell]
  BY DEF Init, Cell
<1>3. Shape
  BY <1>1, <1>2 DEF Init, Shape
<1>4. Flags
  BY DEF Init, Flags
<1>5. QED
  BY <1>3, <1>4, Parts

(* A copy of k bytes that ends inside the block leaves a block of cells.   *)
LEMMA CopiedType ==
  ASSUME NEW n \in Nat, NEW m \in Nat, NEW p \in Nat, NEW k \in Nat, k <= n,
         NEW data \in [0 .. n - 1 -> Byte],
         NEW b \in [0 .. m - 1 -> Cell]
  PROVE  Copied(b, m, p, data, k) \in [0 .. m - 1 -> Cell]
<1>1. ASSUME NEW i \in 0 .. m - 1
      PROVE  (IF p <= i /\ i < p + k THEN data[i - p] ELSE b[i]) \in Cell
  <2>1. CASE p <= i /\ i < p + k
    <3>1. i - p \in 0 .. n - 1
      BY <2>1
    <3>2. data[i - p] \in Byte
      BY <3>1
    <3>3. QED
      BY <2>1, <3>2 DEF Cell
  <2>2. CASE ~(p <= i /\ i < p + k)
    BY <2>2
  <2>3. QED
    BY <2>1, <2>2
<1>2. QED
  BY <1>1 DEF Copied

(* realloc returns a block of cells of the new size.                       *)
LEMMA ReallocType ==
  ASSUME NEW m \in Nat, NEW n \in Nat, NEW b \in [0 .. m - 1 -> Cell]
  PROVE  realloc(b, m, n) \in [0 .. n - 1 -> Cell]
  BY DEF realloc, Cell

(* The end of WriteBuf leaves a file inside a block of m cells.            *)
LEMMA StoreSafe ==
  ASSUME Shape, isOpen,
         NEW n \in Nat, NEW data \in [0 .. n - 1 -> Byte],
         NEW m \in Nat \ {0}, NEW b \in [0 .. m - 1 -> Cell],
         NEW k \in Nat, k <= n, CurPos + k <= m, BufferSize <= m,
         Store(b, m, data, k)
  PROVE  /\ buffer' \in [0 .. m - 1 -> Cell] /\ buffer' # Null
         /\ BufferSize' = m
         /\ CurrentSize' \in Nat /\ CurrentSize' <= m
         /\ CurPos' \in Nat /\ CurPos' <= CurrentSize'
<1>1. buffer' \in [0 .. m - 1 -> Cell]
  BY CopiedType DEF Store, Shape
<1>2. buffer' # Null
  <2>1. DOMAIN buffer' = 0 .. m - 1 /\ 0 \in 0 .. m - 1
    BY <1>1
  <2>2. DOMAIN Null = {}
    BY DEF Null
  <2>3. QED
    BY <2>1, <2>2
<1>3. QED
  BY <1>1, <1>2 DEF Store, Larger, Shape

(* Every step leaves the flags flags.                                      *)
LEMMA StepFlags == IInv /\ [Next]_vars => Flags'
<1> SUFFICES ASSUME Flags, [Next]_vars PROVE Flags'
  BY Parts
<1> USE DEF Flags
<1>1. CASE Open
  BY <1>1 DEF Open, Handle
<1>2. CASE New
  BY <1>2 DEF New, Handle
<1>3. CASE Close
  BY <1>3 DEF Close
<1>4. CASE Release
  BY <1>4 DEF Release
<1>5. ASSUME NEW n \in 0 .. MaxOp, ReadBuf(n) PROVE Flags'
  BY <1>5 DEF ReadBuf
<1>6. ASSUME NEW n \in 0 .. MaxOp, NEW data \in [0 .. n - 1 -> Byte],
             WriteBuf(n, data)
      PROVE  Flags'
  BY <1>6 DEF WriteBuf, WriteFits, WriteGrows, WriteShort, WriteHangs
<1>7. ASSUME NEW offset \in 0 .. HeapLimit + 1, SeekTo(offset) PROVE Flags'
  BY <1>7 DEF SeekTo, Refused
<1>8. ASSUME NEW offset \in -MaxOp .. MaxOp, SeekFrom(offset) PROVE Flags'
  BY <1>8 DEF SeekFrom, Refused
<1>9. ASSUME NEW offset \in -MaxOp .. MaxOp, SeekOffset(offset) PROVE Flags'
  BY <1>9 DEF SeekOffset, Refused
<1>10. CASE UNCHANGED vars
  BY <1>10 DEF vars
<1>11. QED
  BY <1>1, <1>2, <1>3, <1>4, <1>5, <1>6, <1>7, <1>8, <1>9, <1>10 DEF Next

(* Every step of the memory file keeps the invariant.                      *)
LEMMA StepIInv == IInv /\ [Next]_vars => IInv'
<1> SUFFICES ASSUME Shape, IInv, [Next]_vars PROVE Shape'
  <2>1. ASSUME IInv, [Next]_vars, Shape' PROVE IInv'
    BY <2>1, StepFlags DEF IInv, TypeOK, FileInBlock, Flags, Shape
  <2>2. QED
    BY <2>1, Parts
<1> USE DEF Shape
<1>1. CASE Open
  BY <1>1 DEF Open, Handle
<1>2. CASE New
  <2>1. CASE buffer # Null /\ buffer' = buffer
    BY <1>2, <2>1 DEF New, Handle
  <2>2. CASE buffer = Null /\ buffer' = malloc(name_size)
    <3>1. buffer' \in [0 .. name_size - 1 -> Cell]
      BY <2>2 DEF malloc, Cell
    <3>2. buffer' # Null
      <4>1. DOMAIN buffer' = 0 .. name_size - 1 /\ 0 \in 0 .. name_size - 1
        BY <3>1
      <4>2. DOMAIN Null = {}
        BY DEF Null
      <4>3. QED
        BY <4>1, <4>2
    <3>3. QED
      BY <1>2, <3>1, <3>2 DEF New, Handle
  <2>3. QED
    BY <1>2, <2>1, <2>2 DEF New
<1>3. CASE Close
  BY <1>3 DEF Close
<1>4. CASE Release
  BY <1>4, SizeAssumption DEF Release
<1>5. ASSUME NEW n \in 0 .. MaxOp, ReadBuf(n) PROVE Shape'
  BY <1>5, LimitAssumption DEF ReadBuf
<1>6. ASSUME NEW n \in 0 .. MaxOp, NEW data \in [0 .. n - 1 -> Byte],
             WriteBuf(n, data)
      PROVE  Shape'
  <2>0. n \in Nat /\ isOpen /\ isOpen' /\ buffer \in [0 .. BufferSize - 1 -> Cell]
        /\ BufferSize \in Nat \ {0} /\ CurPos <= BufferSize
        /\ GrowStep \in Nat
    BY <1>6, LimitAssumption, GrowAssumption DEF WriteBuf, GrowStep
  <2>1. CASE WriteFits(n, data)
    BY <2>0, <2>1, StoreSafe DEF WriteFits
  <2>2. CASE WriteGrows(n, data)
    <3>1. PICK nSize \in CurPos + n .. CurPos + n + GrowStep - 1 :
             /\ Error' = FALSE
             /\ Store(realloc(buffer, BufferSize, nSize), nSize, data, n)
             /\ name_size' = nSize
      BY <2>2 DEF WriteGrows
    <3>2. nSize \in Nat \ {0} /\ CurPos + n <= nSize /\ BufferSize <= nSize
      BY <2>0, <2>2, <3>1 DEF WriteGrows
    <3>3. realloc(buffer, BufferSize, nSize) \in [0 .. nSize - 1 -> Cell]
      BY <2>0, <3>2, ReallocType
    <3>4. hung' = hung
      BY <2>2 DEF WriteGrows
    <3>5. QED
      BY SMTT(20), <2>0, <3>1, <3>2, <3>3, <3>4, StoreSafe
  <2>3. CASE WriteShort(n, data)
    <3>1. /\ BufferSize - CurPos \in Nat
          /\ BufferSize - CurPos <= n
          /\ CurPos + (BufferSize - CurPos) <= BufferSize
      BY <2>0, <2>3 DEF WriteShort
    <3>2. QED
      BY <2>0, <2>3, <3>1, StoreSafe DEF WriteShort
  <2>4. CASE WriteHangs(n)
    BY <2>0, <2>4 DEF WriteHangs
  <2>5. QED
    BY <1>6, <2>1, <2>2, <2>3, <2>4 DEF WriteBuf
<1>7. ASSUME NEW offset \in 0 .. HeapLimit + 1, SeekTo(offset) PROVE Shape'
  BY <1>7, LimitAssumption DEF SeekTo, Refused, Larger
<1>8. ASSUME NEW offset \in -MaxOp .. MaxOp, SeekFrom(offset) PROVE Shape'
  BY <1>8, LimitAssumption DEF SeekFrom, Refused
<1>9. ASSUME NEW offset \in -MaxOp .. MaxOp, SeekOffset(offset) PROVE Shape'
  BY <1>9, LimitAssumption DEF SeekOffset, Refused, Larger
<1>10. CASE UNCHANGED vars
  BY <1>10 DEF vars
<1>11. QED
  BY <1>1, <1>2, <1>3, <1>4, <1>5, <1>6, <1>7, <1>8, <1>9, <1>10 DEF Next

(* The memory file is well typed in every reachable state.                 *)
THEOREM TypeCorrect == Spec => []TypeOK
<1>1. IInv => TypeOK
  BY DEF IInv
<1>2. QED
  BY InitIInv, StepIInv, <1>1, PTL DEF Spec

(* The handle stays inside the file and the file inside the user's block,  *)
(* whatever sequence of operations the program runs.                       *)
THEOREM StaysInBlock == Spec => []FileInBlock
<1>1. IInv => FileInBlock
  BY DEF IInv
<1>2. QED
  BY InitIInv, StepIInv, <1>1, PTL DEF Spec
-----------------------------------------------------------------------------
(* A factor makes no smaller step of a larger block.                       *)
LEMMA StepGrowsWithBlock ==
  ASSUME NEW a \in Nat, NEW d \in Nat \ {0}, NEW m \in Nat, NEW n \in Nat, m <= n,
         (a * m) \div d > 0
  PROVE  (a * n) \div d > 0
<1>1. \E k \in Nat : n = m + k
  <2>1. n - m \in Nat /\ n = m + (n - m)
    OBVIOUS
  <2>2. QED
    BY <2>1
<1>2. PICK k \in Nat : n = m + k
  BY <1>1
<1>3. a * n = a * m + a * k /\ a * k \in Nat /\ a * m \in Nat
  BY <1>2
<1> DEFINE x == a * m  y == a * n
<1>4. x \in Nat /\ y \in Nat /\ x <= y /\ x \div d > 0
  BY <1>3
<1> HIDE DEF x, y
<1>5. y \div d > 0
  BY <1>4
<1>6. QED
  BY <1>5 DEF y

(* A block that is not of the size the user gave has grown, so that there  *)
(* is a step, and a handle whose write hangs is never closed.              *)
Grown ==
  /\ name_size \in InitSizes \/ (GrowNum * name_size) \div GrowDen > 0
  /\ hung => isOpen /\ name_size \in InitSizes

LEMMA StepGrown == IInv /\ Grown /\ [Next]_vars => Grown'
<1> SUFFICES ASSUME IInv, Grown, [Next]_vars PROVE Grown'
  OBVIOUS
<1> USE DEF Grown
<1>1. CASE Open
  BY <1>1 DEF Open, Handle
<1>2. CASE New
  BY <1>2 DEF New, Handle
<1>3. CASE Close
  BY <1>3 DEF Close
<1>4. CASE Release
  BY <1>4 DEF Release
<1>5. ASSUME NEW n \in 0 .. MaxOp, ReadBuf(n) PROVE Grown'
  BY <1>5 DEF ReadBuf
<1>6. ASSUME NEW n \in 0 .. MaxOp, NEW data \in [0 .. n - 1 -> Byte],
             WriteBuf(n, data)
      PROVE  Grown'
  <2>0. isOpen /\ isOpen' /\ ~hung /\ BufferSize = name_size /\ name_size \in Nat
        /\ CurPos \in Nat /\ n \in Nat
    BY <1>6, LimitAssumption DEF WriteBuf, IInv, FileInBlock, TypeOK
  <2>1. CASE WriteFits(n, data)
    BY <2>0, <2>1 DEF WriteFits
  <2>2. CASE WriteGrows(n, data)
    <3>1. PICK nSize \in CurPos + n .. CurPos + n + GrowStep - 1 : name_size' = nSize
      BY <2>2 DEF WriteGrows
    <3>2. (GrowNum * name_size) \div GrowDen > 0 /\ name_size < CurPos + n /\ hung' = hung
      BY <2>0, <2>2 DEF WriteGrows, GrowStep
    <3>3. nSize \in Nat /\ name_size <= nSize
      BY <2>0, <3>1, <3>2
    <3>4. (GrowNum * nSize) \div GrowDen > 0
      BY <2>0, <3>2, <3>3, StepGrowsWithBlock, GrowAssumption
    <3>5. QED
      BY <2>0, <3>1, <3>2, <3>4
  <2>3. CASE WriteShort(n, data)
    BY <2>0, <2>3 DEF WriteShort
  <2>4. CASE WriteHangs(n)
    <3>1. (GrowNum * name_size) \div GrowDen = 0
      BY <2>0, <2>4 DEF WriteHangs, GrowStep
    <3>2. QED
      BY <2>0, <2>4, <3>1 DEF WriteHangs
  <2>5. QED
    BY <1>6, <2>1, <2>2, <2>3, <2>4 DEF WriteBuf
<1>7. ASSUME NEW offset \in 0 .. HeapLimit + 1, SeekTo(offset) PROVE Grown'
  BY <1>7 DEF SeekTo, Refused
<1>8. ASSUME NEW offset \in -MaxOp .. MaxOp, SeekFrom(offset) PROVE Grown'
  BY <1>8 DEF SeekFrom, Refused
<1>9. ASSUME NEW offset \in -MaxOp .. MaxOp, SeekOffset(offset) PROVE Grown'
  BY <1>9 DEF SeekOffset, Refused
<1>10. CASE UNCHANGED vars
  BY <1>10 DEF vars
<1>11. QED
  BY <1>1, <1>2, <1>3, <1>4, <1>5, <1>6, <1>7, <1>8, <1>9, <1>10 DEF Next

(* Whatever the factor: the growing loop of WriteBuf can fail to end only  *)
(* on a block of a size the user gave.                                     *)
THEOREM HangsOnlyAtFirst == Spec => []HangsOnlyOnFirstSize
<1>1. Init => Grown
  BY DEF Init, Grown
<1>2. Grown => HangsOnlyOnFirstSize
  BY DEF Grown, HangsOnlyOnFirstSize
<1>3. QED
  BY InitIInv, StepIInv, StepGrown, <1>1, <1>2, PTL DEF Spec

-----------------------------------------------------------------------------
(* The bytes of the file.                                                  *)
Bytes == [i \in 0 .. CurrentSize - 1 |-> buffer[i]]

(* The facts of the invariant the refinement needs.                        *)
LEMMA FileFacts ==
  ASSUME IInv, Grown
  PROVE  /\ CurrentSize \in Nat /\ CurPos \in Nat /\ BufferSize \in Nat
         /\ name_size \in Nat /\ CurrentSize <= name_size
         /\ Error \in BOOLEAN /\ hung \in BOOLEAN /\ isOpen \in BOOLEAN
         /\ hung => isOpen
         /\ isOpen => /\ CurPos <= CurrentSize /\ BufferSize = name_size
         /\ buffer # Null => buffer \in [0 .. name_size - 1 -> Cell]
         /\ isOpen => buffer \in [0 .. name_size - 1 -> Cell]
BY DEF IInv, Grown, TypeOK, FileInBlock

LEMMA EmptyFile == ASSUME CurrentSize = 0 PROVE Bytes = AFile!NoCells
BY DEF Bytes, AFile!NoCells

(* More of a block begins with the same bytes.                             *)
LEMMA LongerFile ==
  ASSUME NEW n \in Nat, NEW m \in Nat, NEW k \in Nat, n <= m, m <= k,
         NEW b \in [0 .. k - 1 -> Cell]
  PROVE  AFile!Extends([i \in 0 .. m - 1 |-> b[i]], m, [i \in 0 .. n - 1 |-> b[i]], n)
<1>1. AFile!Cell = Cell
  BY DEF Cell, AFile!Cell
<1>2. [i \in 0 .. m - 1 |-> b[i]] \in [0 .. m - 1 -> AFile!Cell]
  BY <1>1
<1>3. QED
  BY <1>2 DEF AFile!Extends

First(b, n) == [i \in 0 .. n - 1 |-> b[i]]

(* Copying into a block that begins with the bytes of a file is writing to *)
(* the file.                                                               *)
LEMMA CopiedOverwrites ==
  ASSUME NEW s \in Nat, NEW p \in Nat, p <= s, NEW k \in Nat, NEW data,
         NEW m \in Nat, p + k <= m, s <= m, NEW b, NEW c,
         \A i \in 0 .. s - 1 : b[i] = c[i]
  PROVE  First(Copied(b, m, p, data, k), Larger(s, p + k))
           = AFile!Overwrite(First(c, s), s, p, data, k)
<1> DEFINE l == Larger(s, p + k)
<1>1. l \in Nat /\ l <= m /\ (l = s \/ l = p + k)
  BY DEF Larger
<1>2. ASSUME NEW i \in 0 .. l - 1
      PROVE  Copied(b, m, p, data, k)[i]
               = IF p <= i /\ i < p + k THEN data[i - p] ELSE [j \in 0 .. s - 1 |-> c[j]][i]
  <2>1. Copied(b, m, p, data, k)[i] = IF p <= i /\ i < p + k THEN data[i - p] ELSE b[i]
    <3>1. i \in 0 .. m - 1
      BY <1>1
    <3>2. QED
      BY <3>1 DEF Copied
  <2>2. CASE p <= i /\ i < p + k
    BY <2>1, <2>2
  <2>3. CASE ~(p <= i /\ i < p + k)
    <3>1. i \in 0 .. s - 1
      BY <1>1, <2>3
    <3>2. QED
      BY <2>1, <2>3, <3>1
  <2>4. QED
    BY <2>2, <2>3
<1>3. AFile!Larger(s, p + k) = l
  BY DEF Larger, AFile!Larger
<1> HIDE DEF l
<1>4. [i \in 0 .. l - 1 |-> Copied(b, m, p, data, k)[i]]
        = AFile!Overwrite([i \in 0 .. s - 1 |-> c[i]], s, p, data, k)
  BY <1>2, <1>3 DEF AFile!Overwrite
<1>5. QED
  BY <1>4 DEF l, First

(* The end of WriteBuf is a write to the file, when the block that is      *)
(* written to begins with the bytes of the file.                           *)
LEMMA StoreWrites ==
  ASSUME IInv, Grown, isOpen, ~hung, isOpen' = isOpen, hung' = hung,
         NEW n \in Nat, NEW data, NEW k \in 0 .. n, NEW m \in Nat, NEW b,
         CurPos + k <= m, CurrentSize <= m,
         \A i \in 0 .. CurrentSize - 1 : b[i] = buffer[i],
         Store(b, m, data, k), Error' \in BOOLEAN, Error' <=> k < n
  PROVE  AFile!Write(n, data)
<1>1. /\ CurrentSize \in Nat /\ CurPos \in Nat /\ CurPos <= CurrentSize /\ k \in Nat
  BY FileFacts
<1>2. /\ buffer' = Copied(b, m, CurPos, data, k)
      /\ CurrentSize' = Larger(CurrentSize, CurPos + k)
      /\ CurPos' = CurPos + k
      /\ out' = [n |-> k, cells |-> Null]
  BY DEF Store
<1>3. Bytes' = AFile!Overwrite(Bytes, CurrentSize, CurPos, data, k)
  <2>1. Bytes' = First(Copied(b, m, CurPos, data, k), Larger(CurrentSize, CurPos + k))
    BY <1>2 DEF Bytes, First
  <2>2. First(Copied(b, m, CurPos, data, k), Larger(CurrentSize, CurPos + k))
          = AFile!Overwrite(First(buffer, CurrentSize), CurrentSize, CurPos, data, k)
    BY <1>1, CopiedOverwrites
  <2>3. Bytes = First(buffer, CurrentSize)
    BY DEF Bytes, First
  <2>4. QED
    BY <2>1, <2>2, <2>3
<1>4. AFile!Larger(CurrentSize, CurPos + k) = CurrentSize'
  BY <1>2 DEF Larger, AFile!Larger
<1>5. Null = AFile!NoCells
  BY DEF Null, AFile!NoCells
<1>6. Error' = (k < n)
  <2>1. CASE Error' = TRUE
    <3>1. k < n
      BY <2>1
    <3>2. QED
      BY <2>1, <3>1, Zenon
  <2>2. CASE Error' = FALSE
    <3>1. ~(k < n)
      BY <2>2
    <3>2. (k < n) = FALSE
      BY <3>1
    <3>3. QED
      BY <2>2, <3>2, Zenon
  <2>3. QED
    BY <2>1, <2>2
<1>7. QED
  BY <1>2, <1>3, <1>4, <1>5, <1>6 DEF AFile!Write, Bytes

(* A seek: the position moves and the file may get longer, or nothing.     *)
LEMMA SeekSeeks ==
  ASSUME IInv, Grown, isOpen, ~hung,
         UNCHANGED <<buffer, name_size, isOpen, BufferSize, hung, out>>,
         \/ Refused
         \/ /\ Error' = FALSE
            /\ CurPos' \in Nat /\ CurPos' <= BufferSize
            /\ CurrentSize' = Larger(CurrentSize, CurPos')
  PROVE  AFile!Seek
<1>1. /\ CurrentSize \in Nat /\ CurPos \in Nat /\ BufferSize = name_size
      /\ CurrentSize <= name_size /\ name_size \in Nat
      /\ buffer \in [0 .. name_size - 1 -> Cell]
  BY FileFacts
<1>2. CASE Refused
  <2>1. Bytes' = Bytes
    BY <1>2 DEF Refused, Bytes
  <2>2. QED
    BY <1>2, <2>1 DEF Refused, AFile!Seek, Bytes
<1>3. CASE /\ Error' = FALSE
           /\ CurPos' \in Nat /\ CurPos' <= BufferSize
           /\ CurrentSize' = Larger(CurrentSize, CurPos')
  <2>1. CurrentSize' \in Nat /\ CurrentSize <= CurrentSize' /\ CurrentSize' <= name_size
    BY <1>1, <1>3 DEF Larger
  <2>2. Bytes' = [i \in 0 .. CurrentSize' - 1 |-> buffer[i]]
    BY DEF Bytes
  <2>3. AFile!Extends(Bytes', CurrentSize', Bytes, CurrentSize)
    BY <1>1, <2>1, <2>2, LongerFile DEF Bytes
  <2>4. AFile!Larger(CurrentSize, CurPos') = CurrentSize'
    BY <1>3 DEF Larger, AFile!Larger
  <2>5. QED
    BY <1>3, <2>3, <2>4 DEF AFile!Seek, Bytes
<1>4. QED
  BY <1>2, <1>3

(* Every step of the memory file is one of the file, or none.              *)
LEMMA StepIsFileStep ==
  IInv /\ Grown /\ [Next]_vars => [AFile!Next]_(AFile!vars)
<1> SUFFICES ASSUME IInv, Grown, [Next]_vars
             PROVE  [AFile!Next]_(AFile!vars)
  OBVIOUS
<1>0. /\ CurrentSize \in Nat /\ CurPos \in Nat /\ name_size \in Nat
      /\ CurrentSize <= name_size
      /\ isOpen => /\ CurPos <= CurrentSize /\ BufferSize = name_size
                   /\ buffer \in [0 .. name_size - 1 -> Cell]
      /\ Error \in BOOLEAN /\ hung \in BOOLEAN /\ isOpen \in BOOLEAN
      /\ hung => isOpen
  BY FileFacts
<1>1. CASE Open
  <2>1. buffer \in [0 .. name_size - 1 -> Cell] /\ hung = FALSE
    BY <1>0, <1>1, FileFacts DEF Open
  <2>2. CurrentSize' = name_size /\ buffer' = buffer
    BY <1>1 DEF Open, Handle
  <2>3. Bytes' = [i \in 0 .. name_size - 1 |-> buffer[i]]
    BY <2>2 DEF Bytes
  <2>4. AFile!Extends(Bytes', CurrentSize', Bytes, CurrentSize)
    BY <1>0, <2>1, <2>2, <2>3, LongerFile DEF Bytes
  <2>5. NoOut = AFile!NoOut
    BY DEF NoOut, Null, AFile!NoOut, AFile!NoCells
  <2>6. AFile!Open
    BY <1>1, <2>1, <2>4, <2>5 DEF Open, Handle, AFile!Open, Bytes
  <2>7. QED
    BY <2>6 DEF AFile!Next
<1>2. CASE New
  <2>1. CurrentSize' = 0 /\ hung = FALSE
    BY <1>0, <1>2 DEF New, Handle
  <2>2. Bytes' = AFile!NoCells
    BY <2>1 DEF Bytes, AFile!NoCells
  <2>3. NoOut = AFile!NoOut
    BY DEF NoOut, Null, AFile!NoOut, AFile!NoCells
  <2>4. AFile!New
    BY <1>2, <2>1, <2>2, <2>3 DEF New, Handle, AFile!New, Bytes
  <2>5. QED
    BY <2>4 DEF AFile!Next
<1>3. CASE Close
  <2>1. AFile!Close
    BY <1>0, <1>3 DEF Close, AFile!Close
  <2>2. QED
    BY <2>1 DEF AFile!Next
<1>4. CASE Release
  <2>1. Bytes' = AFile!NoCells
    BY <1>4 DEF Release, Bytes, AFile!NoCells
  <2>2. AFile!Release
    BY <1>4, <2>1 DEF Release, AFile!Release, Bytes
  <2>3. QED
    BY <2>2 DEF AFile!Next
<1>5. ASSUME NEW n \in 0 .. MaxOp, ReadBuf(n) PROVE AFile!Next
  <2> DEFINE k == IF CurPos + n > CurrentSize THEN CurrentSize - CurPos ELSE n
  <2>1. /\ isOpen /\ ~hung /\ n \in Nat /\ CurPos <= CurrentSize
        /\ UNCHANGED <<buffer, isOpen, CurrentSize, hung>>
    BY <1>0, <1>5, LimitAssumption DEF ReadBuf
  <2>2. /\ k \in 0 .. n /\ CurPos + k <= CurrentSize /\ (k = n \/ k = CurrentSize - CurPos)
        /\ (CurPos + n > CurrentSize) = (k < n)
    BY <1>0, <2>1
  <2>3. /\ Error' = (CurPos + n > CurrentSize) /\ CurPos' = CurPos + k
        /\ out' = [n |-> k, cells |-> [i \in 0 .. k - 1 |-> buffer[CurPos + i]]]
    BY <1>5 DEF ReadBuf
  <2> HIDE DEF k
  <2>4. [i \in 0 .. k - 1 |-> buffer[CurPos + i]] = AFile!Slice(Bytes, CurPos, k)
    <3>1. ASSUME NEW i \in 0 .. k - 1 PROVE Bytes[CurPos + i] = buffer[CurPos + i]
      <4>1. CurPos + i \in 0 .. CurrentSize - 1
        BY <1>0, <2>2
      <4>2. QED
        BY <4>1 DEF Bytes
    <3>2. QED
      BY <3>1 DEF AFile!Slice
  <2>5. Bytes' = Bytes
    BY <2>1 DEF Bytes
  <2>6. AFile!Read(n)
    BY <2>1, <2>2, <2>3, <2>4, <2>5 DEF AFile!Read, Bytes
  <2>7. QED
    BY <2>6 DEF AFile!Next
<1>6. ASSUME NEW n \in 0 .. MaxOp, NEW data \in [0 .. n - 1 -> Byte],
             WriteBuf(n, data)
      PROVE  AFile!Next
  <2>0. n \in Nat /\ isOpen /\ ~hung /\ isOpen' = isOpen /\ CurPos <= CurrentSize
        /\ BufferSize = name_size
    BY <1>0, <1>6, LimitAssumption DEF WriteBuf
  <2>1. ASSUME AFile!Write(n, data) PROVE AFile!Next
    BY <2>1 DEF AFile!Next
  <2>2. CASE WriteFits(n, data)
    <3>1. /\ hung' = hung /\ CurPos + n <= BufferSize /\ Error' = FALSE
          /\ Store(buffer, BufferSize, data, n)
      BY <2>2 DEF WriteFits
    <3>2. Error' \in BOOLEAN /\ (Error' <=> n < n) /\ n \in 0 .. n
      <4>1. ~(n < n) /\ n \in 0 .. n
        BY <2>0
      <4>2. Error' \in BOOLEAN /\ ~Error'
        BY <3>1
      <4>3. QED
        BY <4>1, <4>2
    <3>3. AFile!Write(n, data)
      BY <1>0, <2>0, <3>1, <3>2, StoreWrites
    <3>4. QED
      BY <2>1, <3>3
  <2>3. CASE WriteGrows(n, data)
    <3>1. PICK nSize \in CurPos + n .. CurPos + n + GrowStep - 1 :
             /\ Error' = FALSE
             /\ Store(realloc(buffer, BufferSize, nSize), nSize, data, n)
      BY <2>3 DEF WriteGrows
    <3>2. hung' = hung /\ CurPos + n > BufferSize
      BY <2>3 DEF WriteGrows
    <3>3. GrowStep \in Nat
      BY <1>0, <2>0, GrowAssumption DEF GrowStep
    <3>4. nSize \in Nat /\ CurPos + n <= nSize /\ CurrentSize <= nSize
      BY <1>0, <2>0, <3>2, <3>3
    <3>5. \A i \in 0 .. CurrentSize - 1 : realloc(buffer, BufferSize, nSize)[i] = buffer[i]
      BY <1>0, <2>0, <3>4 DEF realloc
    <3>6. Error' \in BOOLEAN /\ (Error' <=> n < n) /\ n \in 0 .. n
      <4>1. ~(n < n) /\ n \in 0 .. n
        BY <2>0
      <4>2. Error' \in BOOLEAN /\ ~Error'
        BY <3>1
      <4>3. QED
        BY <4>1, <4>2
    <3>7. AFile!Write(n, data)
      BY <2>0, <3>1, <3>2, <3>4, <3>5, <3>6, StoreWrites
    <3>8. QED
      BY <2>1, <3>7
  <2>4. CASE WriteShort(n, data)
    <3>1. /\ hung' = hung /\ CurPos + n > BufferSize /\ Error' = TRUE
          /\ Store(buffer, BufferSize, data, BufferSize - CurPos)
      BY <2>4 DEF WriteShort
    <3>2. /\ BufferSize - CurPos \in 0 .. n /\ CurPos + (BufferSize - CurPos) <= BufferSize
          /\ Error' \in BOOLEAN /\ (Error' <=> BufferSize - CurPos < n)
      BY <1>0, <2>0, <3>1
    <3>3. AFile!Write(n, data)
      BY <1>0, <2>0, <3>1, <3>2, StoreWrites
    <3>4. QED
      BY <2>1, <3>3
  <2>5. CASE WriteHangs(n)
    <3>1. Bytes' = Bytes
      BY <2>5 DEF WriteHangs, Bytes
    <3>2. AFile!Close
      BY <2>0, <2>5, <3>1 DEF WriteHangs, AFile!Close, Bytes
    <3>3. QED
      BY <3>2 DEF AFile!Next
  <2>6. QED
    BY <1>6, <2>2, <2>3, <2>4, <2>5 DEF WriteBuf
<1>7. ASSUME NEW offset \in 0 .. HeapLimit + 1, SeekTo(offset) PROVE AFile!Next
  <2>1. offset \in Nat /\ isOpen /\ ~hung
    BY <1>7, LimitAssumption DEF SeekTo
  <2>2. \/ Refused
        \/ /\ Error' = FALSE
           /\ CurPos' \in Nat /\ CurPos' <= BufferSize
           /\ CurrentSize' = Larger(CurrentSize, CurPos')
    BY <1>7, <2>1 DEF SeekTo
  <2>3. AFile!Seek
    BY <1>7, <2>1, <2>2, SeekSeeks DEF SeekTo
  <2>4. QED
    BY <2>3 DEF AFile!Next
<1>8. ASSUME NEW offset \in -MaxOp .. MaxOp, SeekFrom(offset) PROVE AFile!Next
  <2>1. offset \in Int /\ isOpen /\ ~hung
    BY <1>8, LimitAssumption DEF SeekFrom
  <2>2. \/ Refused
        \/ /\ Error' = FALSE
           /\ CurPos' \in Nat /\ CurPos' <= BufferSize
           /\ CurrentSize' = Larger(CurrentSize, CurPos')
    BY <1>0, <1>8, <2>1 DEF SeekFrom, Larger
  <2>3. AFile!Seek
    BY <1>8, <2>1, <2>2, SeekSeeks DEF SeekFrom
  <2>4. QED
    BY <2>3 DEF AFile!Next
<1>9. ASSUME NEW offset \in -MaxOp .. MaxOp, SeekOffset(offset) PROVE AFile!Next
  <2>1. offset \in Int /\ isOpen /\ ~hung
    BY <1>9, LimitAssumption DEF SeekOffset
  <2>2. \/ Refused
        \/ /\ Error' = FALSE
           /\ CurPos' \in Nat /\ CurPos' <= BufferSize
           /\ CurrentSize' = Larger(CurrentSize, CurPos')
    BY <1>0, <1>9, <2>1 DEF SeekOffset
  <2>3. AFile!Seek
    BY <1>9, <2>1, <2>2, SeekSeeks DEF SeekOffset
  <2>4. QED
    BY <2>3 DEF AFile!Next
<1>10. CASE UNCHANGED vars
  BY <1>10 DEF vars, AFile!vars
<1>11. QED
  BY <1>1, <1>2, <1>3, <1>4, <1>5, <1>6, <1>7, <1>8, <1>9, <1>10 DEF Next

(* For every factor, limit and sequence of operations: the memory file is  *)
(* a file; growing and refused seeks lose no byte, short reads and writes  *)
(* are errors, and reopening finds what was written.                       *)
THEOREM MemoryFileIsFile == Spec => ImplementsByteFile
<1>1. Init => AFile!Init /\ Grown
  <2>1. Init => Grown
    BY DEF Init, Grown
  <2>2. ASSUME Init PROVE AFile!Init
    <3>1. Bytes = AFile!NoCells
      BY <2>2, EmptyFile DEF Init
    <3>2. NoOut = AFile!NoOut
      BY DEF NoOut, Null, AFile!NoOut, AFile!NoCells
    <3>3. QED
      BY <2>2, <3>1, <3>2 DEF Init, AFile!Init, Bytes
  <2>3. QED
    BY <2>1, <2>2
<1>2. QED
  BY InitIInv, StepIInv, StepGrown, StepIsFileStep, <1>1, PTL
     DEF Spec, ImplementsByteFile, AFile!Spec

-----------------------------------------------------------------------------
(* The codes of the drivers.                                               *)
(* Every nonempty set of natural numbers has a least element, by the       *)
(* finite sets 1 .. m under strict inclusion.                              *)
LEMMA MinIsLeast ==
  ASSUME NEW S, S \subseteq Nat, S # {}
  PROVE  Min(S) \in S /\ \A t \in S : Min(S) <= t
<1> DEFINE T == {1 .. m : m \in S}
           R == StrictSubsetOrdering(Nat)
<1>1. IsWellFoundedOn(R, FiniteSubsetsOf(Nat))
  BY FS_StrictSubsetOrderingWellFounded
<1>2. T \subseteq FiniteSubsetsOf(Nat)
  <2> SUFFICES ASSUME NEW m \in S PROVE 1 .. m \in FiniteSubsetsOf(Nat)
    OBVIOUS
  <2>1. m \in Int /\ 1 \in Int
    OBVIOUS
  <2>2. IsFiniteSet(1 .. m)
    BY <2>1, FS_Interval
  <2>3. 1 .. m \subseteq Nat
    OBVIOUS
  <2> QED BY <2>2, <2>3 DEF FiniteSubsetsOf
<1>3. T # {}
  OBVIOUS
<1> HIDE DEF T, R
<1>4. PICK x \in T : \A y \in T : ~(<<y, x>> \in R)
  BY <1>1, <1>2, <1>3, WFMin
<1>5. PICK m \in S : x = 1 .. m
  BY DEF T
<1>6. \A n \in S : m <= n
  <2> SUFFICES ASSUME NEW n \in S, n < m PROVE FALSE
    BY <1>5
  <2>1. 1 .. n \in T
    BY DEF T
  <2>2. m \in 1 .. m /\ m \notin 1 .. n /\ 1 .. n \subseteq 1 .. m
    OBVIOUS
  <2>3. <<1 .. n, 1 .. m>> \in R
    BY <2>2 DEF R, StrictSubsetOrdering
  <2> QED BY <1>4, <1>5, <2>1, <2>3
<1> QED BY <1>6 DEF Min

(* Induction over the natural numbers, for sets.                           *)
LEMMA NoneIsBad ==
  ASSUME NEW Bad, Bad \subseteq Nat, 0 \notin Bad,
         \A n \in Nat : n \notin Bad => n + 1 \notin Bad
  PROVE  Bad = {}
<1> SUFFICES ASSUME Bad # {} PROVE FALSE
  OBVIOUS
<1> DEFINE n == Min(Bad)
<1>1. n \in Bad /\ \A t \in Bad : n <= t
  BY MinIsLeast
<1> HIDE DEF n
<1>2. n \in Nat /\ n # 0
  BY <1>1
<1>3. n - 1 \in Nat /\ n - 1 \notin Bad /\ (n - 1) + 1 = n
  BY <1>1, <1>2
<1> QED BY <1>1, <1>3

(* And with all smaller numbers as hypotheses.                             *)
LEMMA NoneIsFirstBad ==
  ASSUME NEW Bad, Bad \subseteq Nat,
         \A n \in Nat : (\A m \in 0 .. n - 1 : m \notin Bad) => n \notin Bad
  PROVE  Bad = {}
<1> SUFFICES ASSUME Bad # {} PROVE FALSE
  OBVIOUS
<1> DEFINE n == Min(Bad)
<1>1. n \in Bad /\ \A t \in Bad : n <= t
  BY MinIsLeast
<1> HIDE DEF n
<1>2. \A m \in 0 .. n - 1 : m \notin Bad
  BY <1>1
<1> QED BY <1>1, <1>2

LEMMA MinOfTwo ==
  ASSUME NEW a \in Int, NEW b \in Int
  PROVE  Min({a, b}) = IF a <= b THEN a ELSE b
<1>1. \A x : x \in {a, b} => (x \in {a, b} /\ \A y \in {a, b} : x =< y) <=> x = (IF a <= b THEN a ELSE b)
  OBVIOUS
<1> QED BY <1>1 DEF Min

LEMMA MaxOfTwo ==
  ASSUME NEW a \in Int, NEW b \in Int
  PROVE  Max({a, b}) = IF a <= b THEN b ELSE a
<1>1. \A x : x \in {a, b} => (x \in {a, b} /\ \A y \in {a, b} : x >= y) <=> x = (IF a <= b THEN b ELSE a)
  OBVIOUS
<1> QED BY <1>1 DEF Max

(* What RunAt counts: equal elements, as many as there are but for max.    *)
RunIs(line, i, max, count) ==
  /\ count \in 1 .. max
  /\ i + count - 1 <= Len(line)
  /\ \A k \in i .. i + count - 1 : line[k] = line[i]
  /\ count = max \/ i + count > Len(line) \/ line[i + count] # line[i]

LEMMA RunAtIs ==
  ASSUME NEW line, Len(line) \in Nat, NEW i \in 1 .. Len(line), NEW max \in Nat \ {0}
  PROVE  RunIs(line, i, max, RunAt(line, i, max))
<1> DEFINE last == Min({Len(line), i + max - 1})
           ends == {j \in i + 1 .. last : line[j] # line[i]}
           c == RunAt(line, i, max)
<1>1. last = IF Len(line) <= i + max - 1 THEN Len(line) ELSE i + max - 1
  BY MinOfTwo
<1>2. c = (IF ends = {} THEN last + 1 ELSE Min(ends)) - i
  BY DEF RunAt
<1> HIDE DEF last, c
<1>3. CASE ends = {}
  BY <1>1, <1>2, <1>3 DEF c, RunIs
<1>4. CASE ends # {}
  <2>1. Min(ends) \in ends /\ \A t \in ends : Min(ends) <= t
    <3>1. ends \subseteq Nat
      BY <1>1
    <3> HIDE DEF ends
    <3> QED BY <3>1, <1>4, MinIsLeast
  <2>2. c = Min(ends) - i
    BY <1>2, <1>4
  <2> DEFINE e == Min(ends)
  <2>3. e \in i + 1 .. last /\ line[e] # line[i] /\ \A t \in i + 1 .. last : line[t] # line[i] => e <= t
    BY <2>1
  <2> HIDE DEF e
  <2>4. c = e - i
    BY <2>2 DEF e
  <2>5. \A k \in i .. i + c - 1 : line[k] = line[i]
    BY <1>1, <2>3, <2>4
  <2> QED BY <1>1, <2>3, <2>4, <2>5 DEF c, RunIs
<1> QED BY <1>3, <1>4 DEF c

-----------------------------------------------------------------------------
Octet == 0 .. 255
Coder == {"PCX", "RAS", "TGA", "SGI", "BMP"}

LEMMA RepeatIs ==
  ASSUME NEW v \in Octet, NEW n \in Nat
  PROVE  Repeat(v, n) \in Seq(Octet) /\ Len(Repeat(v, n)) = n
BY DEF Repeat

LEMMA ByteAtIs ==
  ASSUME NEW octets \in Seq(Octet), NEW here \in Nat \ {0}
  PROVE  ByteAt(octets, here) \in Octet
<1>1. 0 \in Octet
  BY DEF Octet
<1> QED BY <1>1 DEF ByteAt

LEMMA SliceIs ==
  ASSUME NEW octets \in Seq(Octet), NEW here \in Nat \ {0}, NEW n \in Nat
  PROVE  Slice(octets, here, n) \in Seq(Octet) /\ Len(Slice(octets, here, n)) = n
<1>1. \A k \in 1 .. n : ByteAt(octets, here + k - 1) \in Octet
  BY ByteAtIs
<1> QED BY <1>1 DEF Slice

(* A code is at least a byte, and makes bytes.                             *)
LEMMA CodeAtIs ==
  ASSUME NEW driver \in Coder, NEW octets \in Seq(Octet), NEW here \in Nat \ {0},
         NEW size \in Nat \ {0}
  PROVE  LET code == CodeAt(driver, octets, here, size)
         IN /\ code.bytes \in Seq(Octet)
            /\ code.next \in Nat /\ code.next > here
            /\ code.ends \in BOOLEAN
<1> DEFINE a == ByteAt(octets, here)  b == ByteAt(octets, here + 1)  c == ByteAt(octets, here + 2)
           Good(code) == /\ code.bytes \in Seq(Octet)
                         /\ code.next \in Nat /\ code.next > here
                         /\ code.ends \in BOOLEAN
<1>1. a \in Octet /\ b \in Octet /\ c \in Octet
  BY ByteAtIs
<1>3. \A v \in Octet : <<v>> \in Seq(Octet)
  OBVIOUS
<1>4. <<>> \in Seq(Octet) /\ RASEscape \in Octet
  BY DEF RASEscape, Octet
<1>5. \A v \in Octet, n \in Nat : Repeat(v, n) \in Seq(Octet)
  BY RepeatIs
<1>6. \A at \in Nat \ {0}, n \in Nat : Slice(octets, at, n) \in Seq(Octet)
  BY SliceIs
<1> HIDE DEF a, b, c, Good
<1>7. /\ a % 64 \in Nat /\ a % 128 \in Nat /\ (a % 128) + 1 \in Nat /\ (b + 1) % 256 \in Nat
      /\ b % 2 \in Nat /\ a \in Nat /\ b \in Nat
  BY <1>1 DEF Octet
<1>8. CASE driver = "PCX"
  <2>1. CodeAt(driver, octets, here, size) =
          IF a >= 192 THEN Makes(Repeat(b, a % 64), here + 2) ELSE Makes(<<a>>, here + 1)
    BY <1>8 DEF CodeAt, PCXCode, a, b
  <2>2. Good(Makes(Repeat(b, a % 64), here + 2)) /\ Good(Makes(<<a>>, here + 1))
    BY <1>1, <1>3, <1>5, <1>7 DEF Good, Makes
  <2> QED BY <2>1, <2>2 DEF Good
<1>9. CASE driver = "RAS"
  <2>1. CodeAt(driver, octets, here, size) =
          IF a # RASEscape THEN Makes(<<a>>, here + 1)
          ELSE IF b = 0 THEN Makes(<<RASEscape>>, here + 2)
          ELSE Makes(Repeat(c, (b + 1) % 256), here + 3)
    BY <1>9 DEF CodeAt, RASCode, a, b, c
  <2>2. Good(Makes(<<a>>, here + 1)) /\ Good(Makes(<<RASEscape>>, here + 2))
        /\ Good(Makes(Repeat(c, (b + 1) % 256), here + 3))
    BY <1>1, <1>3, <1>4, <1>5, <1>7 DEF Good, Makes
  <2> QED BY <2>1, <2>2 DEF Good
<1>10. CASE driver = "TGA"
  <2> DEFINE n == (a % 128) + 1
             run == [k \in 1 .. n * size |-> ByteAt(octets, here + 1 + ((k - 1) % size))]
  <2>1. CodeAt(driver, octets, here, size) =
          IF a >= 128 THEN Makes(run, here + 1 + size)
          ELSE Makes(Slice(octets, here + 1, n * size), here + 1 + n * size)
    BY <1>10 DEF CodeAt, TGACode, a
  <2>2. n * size \in Nat
    BY <1>7
  <2>3. run \in Seq(Octet)
    <3>1. ASSUME NEW k \in 1 .. n * size
          PROVE  ByteAt(octets, here + 1 + ((k - 1) % size)) \in Octet
      <4>1. (k - 1) % size \in Nat
        BY <2>2
      <4>2. here + 1 + ((k - 1) % size) \in Nat \ {0}
        BY <4>1
      <4> QED BY <4>2, ByteAtIs
    <3> QED BY <2>2, <3>1
  <2> HIDE DEF n, run
  <2>4. Good(Makes(run, here + 1 + size))
    BY <2>3 DEF Good, Makes
  <2> DEFINE all == n * size
  <2> HIDE DEF all
  <2>6. all \in Nat /\ here + 1 \in Nat \ {0}
    BY <2>2 DEF all
  <2>7. Slice(octets, here + 1, all) \in Seq(Octet)
    BY <1>6, <2>6
  <2>5. Good(Makes(Slice(octets, here + 1, n * size), here + 1 + n * size))
    BY <2>6, <2>7 DEF Good, Makes, all
  <2> QED BY <2>1, <2>4, <2>5 DEF Good
<1>11. CASE driver = "SGI"
  <2> DEFINE n == a % 128
  <2>1. CodeAt(driver, octets, here, size) =
          IF n = 0 THEN [Makes(<<>>, here + 1) EXCEPT !.ends = TRUE]
          ELSE IF a >= 128 THEN Makes(Slice(octets, here + 1, n), here + 1 + n)
          ELSE Makes(Repeat(b, n), here + 2)
    BY <1>11 DEF CodeAt, SGICode, a, b
  <2>2. n \in Nat
    BY <1>7
  <2> HIDE DEF n
  <2>3. Good([Makes(<<>>, here + 1) EXCEPT !.ends = TRUE])
    BY <1>4 DEF Good, Makes
  <2>4. Good(Makes(Slice(octets, here + 1, n), here + 1 + n)) /\ Good(Makes(Repeat(b, n), here + 2))
    <3>1. here + 1 \in Nat \ {0}
      OBVIOUS
    <3>2. Slice(octets, here + 1, n) \in Seq(Octet) /\ Repeat(b, n) \in Seq(Octet)
      BY <1>1, <1>5, <1>6, <2>2, <3>1
    <3> QED BY <2>2, <3>2 DEF Good, Makes
  <2> QED BY <2>1, <2>3, <2>4 DEF Good
<1>12. CASE driver = "BMP"
  <2>1. CodeAt(driver, octets, here, size) =
          IF a > 0 THEN Makes(Repeat(b, a), here + 2)
          ELSE IF b \in {0, 1} THEN [Makes(<<>>, here + 2) EXCEPT !.ends = TRUE]
          ELSE IF b = 2 THEN Makes(<<>>, here + 4)
          ELSE Makes(Slice(octets, here + 2, b), here + 2 + b + (b % 2))
    BY <1>12 DEF CodeAt, BMPCode, a, b
  <2>2. Good(Makes(Repeat(b, a), here + 2)) /\ Good(Makes(<<>>, here + 4))
        /\ Good([Makes(<<>>, here + 2) EXCEPT !.ends = TRUE])
    <3>1. Repeat(b, a) \in Seq(Octet)
      BY <1>1, <1>5, <1>7
    <3> QED BY <1>4, <3>1 DEF Good, Makes
  <2>3. Good(Makes(Slice(octets, here + 2, b), here + 2 + b + (b % 2)))
    BY <1>6, <1>7 DEF Good, Makes
  <2> QED BY <2>1, <2>2, <2>3 DEF Good
<1> QED BY <1>8, <1>9, <1>10, <1>11, <1>12 DEF Coder, Good

(* The decoder's recursion is well founded: a code is at least a byte.     *)
Body(driver, octets, size, length, from, here, have) ==
  LET code == CodeAt(driver, octets, here, size)
      bytes == SubSeq(code.bytes, 1, Min({Len(code.bytes), length - have}))
      rest == from[<<code.next, have + Len(bytes)>>]
  IN IF have = length /\ driver # "BMP" THEN [line |-> <<>>, next |-> here, ok |-> TRUE]
     ELSE IF code.next > Len(octets) + 1 \/ code.ends
     THEN [line |-> bytes, next |-> code.next, ok |-> code.next <= Len(octets) + 1]
     ELSE [line |-> bytes \o rest.line, next |-> rest.next, ok |-> rest.ok]

LEMMA DecodeFromIs ==
  ASSUME NEW driver \in Coder, NEW octets \in Seq(Octet), NEW size \in Nat \ {0},
         NEW length \in Nat, NEW here \in 1 .. Len(octets) + 1, NEW have \in 0 .. length
  PROVE  LET from == DecodeFrom(driver, octets, size, length)
         IN from[<<here, have>>] = Body(driver, octets, size, length, from, here, have)
<1> DEFINE N == Len(octets) + 1
           Places == (1 .. N) \X (0 .. length)
           B(f, place) == Body(driver, octets, size, length, f, place[1], place[2])
           Following(place) == CodeAt(driver, octets, place[1], size).next
           Solves(g, m) == /\ g = [place \in Places |-> g[place]]
                           /\ \A place \in Places : place[1] > N - m => g[place] = B(g, place)
           Bad == {m \in Nat : ~\E g : Solves(g, m)}
<1>1. N \in Nat
  OBVIOUS
<1>2. \A place \in Places : place[1] \in 1 .. N /\ Following(place) > place[1]
  <2> SUFFICES ASSUME NEW place \in Places PROVE place[1] \in 1 .. N /\ Following(place) > place[1]
    OBVIOUS
  <2>1. place[1] \in 1 .. N /\ place[1] \in Nat \ {0}
    OBVIOUS
  <2> QED BY <2>1, CodeAtIs
<1>3. \A f, g : \A place \in Places :
        (\A other \in Places : other[1] > place[1] => f[other] = g[other]) => B(f, place) = B(g, place)
  <2> SUFFICES ASSUME NEW f, NEW g, NEW place \in Places,
                      \A other \in Places : other[1] > place[1] => f[other] = g[other]
               PROVE  B(f, place) = B(g, place)
    OBVIOUS
  <2> DEFINE code == CodeAt(driver, octets, place[1], size)
             bytes == SubSeq(code.bytes, 1, Min({Len(code.bytes), length - place[2]}))
             there == <<code.next, place[2] + Len(bytes)>>
  <2>1. place[2] \in 0 .. length /\ place[1] \in 1 .. N
    OBVIOUS
  <2>2. code.bytes \in Seq(Octet) /\ code.next \in Nat /\ code.next > place[1]
    <3>1. place[1] \in Nat \ {0}
      BY <2>1
    <3> QED BY <3>1, CodeAtIs
  <2> HIDE DEF code
  <2>3. place[2] + Len(bytes) \in 0 .. length
    <3>1. Min({Len(code.bytes), length - place[2]}) =
            IF Len(code.bytes) <= length - place[2] THEN Len(code.bytes) ELSE length - place[2]
      <4> DEFINE a == Len(code.bytes)  b == length - place[2]
      <4>1. a \in Int /\ b \in Int
        BY <2>1, <2>2
      <4> HIDE DEF a, b
      <4>2. Min({a, b}) = IF a <= b THEN a ELSE b
        BY <4>1, MinOfTwo
      <4> QED BY <4>2 DEF a, b
    <3>2. Len(code.bytes) \in Nat
      BY <2>2
    <3>3. Len(bytes) = Min({Len(code.bytes), length - place[2]})
      <4> DEFINE n == Min({Len(code.bytes), length - place[2]})
      <4>1. n \in 0 .. Len(code.bytes)
        BY <2>1, <3>1, <3>2
      <4> HIDE DEF n
      <4>2. Len(SubSeq(code.bytes, 1, n)) = n
        BY <2>2, <4>1
      <4> QED BY <4>2 DEF n, bytes
    <3> HIDE DEF bytes
    <3> QED BY <2>1, <3>1, <3>2, <3>3
  <2> HIDE DEF bytes
  <2>4. CASE code.next <= N
    <3>1. there \in Places /\ there[1] > place[1]
      BY <2>1, <2>2, <2>3, <2>4
    <3>2. f[there] = g[there]
      BY <3>1
    <3> QED BY <3>2 DEF Body, bytes, code
  <2>5. CASE code.next > N
    BY <2>5 DEF Body, bytes, code
  <2> QED BY <1>1, <2>2, <2>4, <2>5
<1> HIDE DEF B, Next, Places
<1>4. 0 \notin Bad
  <2>1. Solves([place \in Places |-> 0], 0)
    BY <1>1, <1>2
  <2> QED BY <2>1
<1>5. ASSUME NEW m \in Nat, m \notin Bad PROVE m + 1 \notin Bad
  <2>1. PICK g : Solves(g, m)
    BY <1>5
  <2> DEFINE h == [place \in Places |-> IF place[1] = N - m THEN B(g, place) ELSE g[place]]
  <2>2. \A place \in Places : place[1] > N - m => h[place] = g[place]
    BY <1>1, <1>2
  <2>3. ASSUME NEW place \in Places, place[1] > N - (m + 1) PROVE h[place] = B(h, place)
    <3>1. \A other \in Places : other[1] > place[1] => h[other] = g[other]
      BY <1>1, <1>2, <2>2, <2>3
    <3>2. B(h, place) = B(g, place)
      BY <1>3, <3>1
    <3>3. CASE place[1] = N - m
      BY <3>2, <3>3
    <3>4. CASE place[1] > N - m
      BY <2>1, <2>2, <3>2, <3>4
    <3> QED BY <1>1, <1>2, <2>3, <3>3, <3>4
  <2>4. Solves(h, m + 1)
    BY <2>3
  <2> QED BY <2>4
<1>6. Bad = {}
  <2> HIDE DEF Bad
  <2>1. Bad \subseteq Nat
    BY DEF Bad
  <2> QED BY <1>4, <1>5, <2>1, NoneIsBad
<1>7. PICK g : Solves(g, N)
  BY <1>1, <1>6
<1>8. g = [place \in Places |-> B(g, place)]
  <2>1. \A place \in Places : place[1] > N - N
    BY <1>1, <1>2
  <2>2. g = [place \in Places |-> g[place]] /\ \A place \in Places : g[place] = B(g, place)
    BY <1>7, <2>1
  <2> QED BY <2>2
<1> DEFINE from == DecodeFrom(driver, octets, size, length)
<1>9. from = CHOOSE f : f = [place \in Places |-> B(f, place)]
  BY DEF DecodeFrom, Body, B, Places
<1>10. from = [place \in Places |-> B(from, place)]
  BY <1>8, <1>9
<1>11. <<here, have>> \in Places
  BY DEF Places
<1>12. from[<<here, have>>] = B(from, <<here, have>>)
  BY <1>10, <1>11
<1> QED BY <1>12 DEF B

(* What the decoder makes of a file from a place on, with so many bytes of *)
(* the line there already: the rest of the line, being at next then; or it *)
(* fails.                                                                  *)
Coding == [driver : Coder, file : Seq(Octet), size : Nat \ {0}, line : Seq(Octet)]
From(c) == DecodeFrom(c.driver, c.file, c.size, Len(c.line))
Rest(line, have) == SubSeq(line, have + 1, Len(line))
Reads(c, here, have, next) ==
  From(c)[<<here, have>>] = [line |-> Rest(c.line, have), next |-> next, ok |-> TRUE]
Fails(c, here, have) == From(c)[<<here, have>>].ok = FALSE

(* The decoder goes on after each code.                                    *)
LEMMA GoesOn ==
  ASSUME NEW c \in Coding, NEW here \in 1 .. Len(c.file) + 1, NEW have \in 0 .. Len(c.line)
  PROVE  From(c)[<<here, have>>] = Body(c.driver, c.file, c.size, Len(c.line), From(c), here, have)
<1> DEFINE driver == c.driver  octets == c.file  size == c.size  length == Len(c.line)
           from == DecodeFrom(driver, octets, size, length)
<1>1. /\ driver \in Coder /\ octets \in Seq(Octet) /\ size \in Nat \ {0} /\ length \in Nat
      /\ here \in 1 .. Len(octets) + 1 /\ have \in 0 .. length
  BY DEF Coding
<1>2. From(c) = from
  BY DEF From
<1>3. from = DecodeFrom(driver, octets, size, length)
  OBVIOUS
<1> HIDE DEF driver, octets, size, length, from
<1>4. from[<<here, have>>] = Body(driver, octets, size, length, from, here, have)
  BY <1>1, <1>3, DecodeFromIs
<1> QED BY <1>2, <1>4 DEF driver, octets, size, length

(* What is true behind some codes is true before them.                     *)
Leads(c, here, have, next, later) ==
  /\ \A end : Reads(c, next, later, end) => Reads(c, here, have, end)
  /\ Fails(c, next, later) => Fails(c, here, have)

LEMMA LeadsOn ==
  ASSUME NEW c, NEW here, NEW have, NEW next, NEW later, NEW then, NEW last,
         Leads(c, here, have, next, later), Leads(c, next, later, then, last)
  PROVE  Leads(c, here, have, then, last)
BY DEF Leads

LEMMA RestIs ==
  ASSUME NEW line \in Seq(Octet), NEW have \in 0 .. Len(line)
  PROVE  /\ Rest(line, have) \in Seq(Octet) /\ Len(Rest(line, have)) = Len(line) - have
         /\ \A k \in 1 .. Len(line) - have : Rest(line, have)[k] = line[have + k]
BY DEF Rest

LEMMA CodeLeads ==
  ASSUME NEW c \in Coding, NEW here \in 1 .. Len(c.file) + 1, NEW have \in 0 .. Len(c.line),
         have < Len(c.line) \/ c.driver = "BMP",
         NEW bytes \in Seq(Octet), NEW next \in 1 .. Len(c.file) + 1,
         CodeAt(c.driver, c.file, here, c.size) = Makes(bytes, next),
         have + Len(bytes) <= Len(c.line),
         \A k \in 1 .. Len(bytes) : bytes[k] = c.line[have + k]
  PROVE  Leads(c, here, have, next, have + Len(bytes))
<1> DEFINE L == c.line  m == Len(bytes)
           code == CodeAt(c.driver, c.file, here, c.size)
           there == From(c)[<<next, have + m>>]
           now == From(c)[<<here, have>>]
<1>1. /\ c.driver \in Coder /\ c.file \in Seq(Octet) /\ c.size \in Nat \ {0} /\ L \in Seq(Octet)
      /\ Len(L) \in Nat /\ m \in Nat
  BY DEF Coding
<1>2. code.bytes = bytes /\ code.next = next /\ code.ends = FALSE
  BY DEF Makes
<1>3. Min({m, Len(L) - have}) = m
  <2> DEFINE room == Len(L) - have
  <2>1. room \in Int /\ m \in Int /\ m <= room
    BY <1>1
  <2> HIDE DEF room, m
  <2> QED BY <2>1, MinOfTwo DEF room
<1>4. SubSeq(bytes, 1, m) = bytes
  OBVIOUS
<1>5. now = Body(c.driver, c.file, c.size, Len(L), From(c), here, have)
  BY <1>1, GoesOn
<1> HIDE DEF code
<1>6. now = [line |-> bytes \o there.line, next |-> there.next, ok |-> there.ok]
  <2>1. ~(have = Len(L) /\ c.driver # "BMP") /\ ~(code.next > Len(c.file) + 1 \/ code.ends)
    BY <1>1, <1>2
  <2> DEFINE b == SubSeq(code.bytes, 1, Min({Len(code.bytes), Len(L) - have}))
  <2>2. b = bytes
    BY <1>2, <1>3, <1>4
  <2> HIDE DEF b
  <2>3. now = [line |-> b \o From(c)[<<code.next, have + Len(b)>>].line,
                next |-> From(c)[<<code.next, have + Len(b)>>].next,
                ok |-> From(c)[<<code.next, have + Len(b)>>].ok]
    BY <1>5, <2>1 DEF Body, b, code
  <2> QED BY <1>2, <2>2, <2>3
<1> HIDE DEF now, there
<1>7. bytes \o Rest(L, have + m) = Rest(L, have)
  <2> DEFINE r == Rest(L, have)  q == Rest(L, have + m)
  <2>1. r \in Seq(Octet) /\ Len(r) = Len(L) - have /\ \A k \in 1 .. Len(L) - have : r[k] = L[have + k]
    BY <1>1, RestIs
  <2>2. q \in Seq(Octet) /\ Len(q) = Len(L) - (have + m)
        /\ \A k \in 1 .. Len(L) - (have + m) : q[k] = L[have + m + k]
    <3> DEFINE later == have + m
    <3>1. later \in 0 .. Len(L)
      BY <1>1
    <3> HIDE DEF later
    <3> QED BY <1>1, <3>1, RestIs DEF later
  <2> HIDE DEF r, q, L
  <2>5. /\ bytes \o q \in Seq(Octet) /\ Len(bytes \o q) = m + Len(q)
        /\ \A k \in 1 .. m + Len(q) : (bytes \o q)[k] = IF k <= m THEN bytes[k] ELSE q[k - m]
    BY <2>2, ConcatProperties
  <2>6. m + Len(q) = Len(r)
    BY <1>1, <2>1, <2>2
  <2>3. /\ bytes \o q \in Seq(Octet) /\ Len(bytes \o q) = Len(r)
        /\ \A k \in 1 .. Len(r) : (bytes \o q)[k] = IF k <= m THEN bytes[k] ELSE q[k - m]
    BY <2>5, <2>6
  <2> DEFINE bq == bytes \o q
  <2>7. /\ bq \in Seq(Octet) /\ Len(bq) = Len(r) /\ Len(r) \in Nat
        /\ \A k \in 1 .. Len(r) : bq[k] = IF k <= m THEN bytes[k] ELSE q[k - m]
    BY <2>1, <2>3
  <2> HIDE DEF bq, m
  <2>4. \A k \in 1 .. Len(r) : bq[k] = r[k]
    <3> SUFFICES ASSUME NEW k \in 1 .. Len(r) PROVE bq[k] = r[k]
      OBVIOUS
    <3>1. CASE k <= m
      <4>1. bytes[k] = L[have + k]
        BY <3>1 DEF L, m
      <4> QED BY <1>1, <2>1, <2>7, <3>1, <4>1
    <3>2. CASE k > m
      <4>1. k - m \in 1 .. Len(L) - (have + m) /\ have + m + (k - m) = have + k
        BY <1>1, <2>1, <3>2
      <4> DEFINE j == k - m
      <4> HIDE DEF j
      <4>3. j \in 1 .. Len(L) - (have + m) /\ have + m + j = have + k
        BY <4>1 DEF j
      <4>4. q[j] = L[have + m + j]
        BY <2>2, <4>3
      <4>2. q[k - m] = L[have + k]
        BY <4>3, <4>4 DEF j
      <4> QED BY <1>1, <2>1, <2>7, <3>2, <4>2
    <3> QED BY <1>1, <2>7, <3>1, <3>2
  <2>8. bq = r
    BY <2>1, <2>4, <2>7, SeqEqual
  <2> QED BY <2>8 DEF r, q, bq, m, L
<1>8. ASSUME NEW end, there = [line |-> Rest(L, have + m), next |-> end, ok |-> TRUE]
      PROVE  now = [line |-> Rest(L, have), next |-> end, ok |-> TRUE]
  BY <1>6, <1>7, <1>8
<1>9. there.ok = FALSE => now.ok = FALSE
  BY <1>6
<1> QED BY <1>8, <1>9 DEF Leads, Reads, Fails, now, there

LEMMA CodeFails ==
  ASSUME NEW c \in Coding, NEW here \in 1 .. Len(c.file) + 1, NEW have \in 0 .. Len(c.line),
         have < Len(c.line) \/ c.driver = "BMP",
         CodeAt(c.driver, c.file, here, c.size).next > Len(c.file) + 1
  PROVE  Fails(c, here, have)
<1>1. /\ c.driver \in Coder /\ c.file \in Seq(Octet) /\ c.size \in Nat \ {0}
      /\ c.line \in Seq(Octet) /\ Len(c.line) \in Nat /\ here \in Nat \ {0}
  BY DEF Coding
<1>2. From(c)[<<here, have>>] = Body(c.driver, c.file, c.size, Len(c.line), From(c), here, have)
  BY <1>1, GoesOn
<1> DEFINE code == CodeAt(c.driver, c.file, here, c.size)
<1>3. code.next \in Nat
  BY <1>1, CodeAtIs
<1>4. ~(have = Len(c.line) /\ c.driver # "BMP")
  BY <1>1
<1>5. (code.next <= Len(c.file) + 1) = FALSE
  BY <1>1, <1>3
<1> HIDE DEF code
<1>6. code.next > Len(c.file) + 1
  BY DEF code
<1> DEFINE bytes == SubSeq(code.bytes, 1, Min({Len(code.bytes), Len(c.line) - have}))
<1>7. From(c)[<<here, have>>] =
        [line |-> bytes, next |-> code.next, ok |-> code.next <= Len(c.file) + 1]
  BY <1>2, <1>4, <1>6 DEF Body, code
<1> DEFINE ok == code.next <= Len(c.file) + 1
<1>8. ok = FALSE
  BY <1>5 DEF code
<1> HIDE DEF bytes, ok
<1>9. From(c)[<<here, have>>] = [line |-> bytes, next |-> code.next, ok |-> ok]
  BY <1>7 DEF ok
<1> QED BY <1>8, <1>9 DEF Fails

(* The file has some codes at a place, or ends within them.                *)
HasAt(octets, here, codes) ==
  /\ here \in 1 .. Len(octets) + 1 /\ here + Len(codes) <= Len(octets) + 1
  /\ \A k \in 1 .. Len(codes) : octets[here + k - 1] = codes[k]
EndsIn(octets, here, codes) ==
  /\ here \in 1 .. Len(octets) + 1 /\ here + Len(codes) > Len(octets) + 1
  /\ \A k \in 1 .. Len(octets) + 1 - here : octets[here + k - 1] = codes[k]

LEMMA HasBoth ==
  ASSUME NEW octets \in Seq(Octet), NEW a \in Seq(Octet), NEW b \in Seq(Octet), NEW here
  PROVE  /\ HasAt(octets, here, a \o b) => HasAt(octets, here, a) /\ HasAt(octets, here + Len(a), b)
         /\ EndsIn(octets, here, a \o b) =>
              EndsIn(octets, here, a) \/ (HasAt(octets, here, a) /\ EndsIn(octets, here + Len(a), b))
<1>1. /\ Len(a \o b) = Len(a) + Len(b) /\ Len(a) \in Nat /\ Len(b) \in Nat /\ Len(octets) \in Nat
      /\ \A k \in 1 .. Len(a) : (a \o b)[k] = a[k]
      /\ \A k \in 1 .. Len(b) : (a \o b)[Len(a) + k] = b[k]
  OBVIOUS
<1> DEFINE ab == a \o b
<1> HIDE DEF ab
<1>2. ASSUME HasAt(octets, here, ab) PROVE HasAt(octets, here, a) /\ HasAt(octets, here + Len(a), b)
  <2>1. \A k \in 1 .. Len(b) : octets[here + Len(a) + k - 1] = b[k]
    <3> SUFFICES ASSUME NEW k \in 1 .. Len(b) PROVE octets[here + Len(a) + k - 1] = b[k]
      OBVIOUS
    <3> DEFINE j == Len(a) + k
    <3>2. j \in 1 .. Len(ab)
      BY <1>1 DEF ab
    <3> HIDE DEF j
    <3>3. octets[here + j - 1] = ab[j]
      BY <1>2, <3>2 DEF HasAt
    <3>1. octets[here + (Len(a) + k) - 1] = ab[Len(a) + k]
      BY <3>3 DEF j
    <3> QED BY <1>1, <1>2, <3>1 DEF HasAt, ab
  <2>2. \A k \in 1 .. Len(a) : octets[here + k - 1] = a[k]
    BY <1>1, <1>2 DEF HasAt, ab
  <2> QED BY <1>1, <1>2, <2>1, <2>2 DEF HasAt, ab
<1>3. ASSUME EndsIn(octets, here, ab)
      PROVE  EndsIn(octets, here, a) \/ (HasAt(octets, here, a) /\ EndsIn(octets, here + Len(a), b))
  <2>1. /\ here \in 1 .. Len(octets) + 1 /\ here + (Len(a) + Len(b)) > Len(octets) + 1
        /\ \A k \in 1 .. Len(octets) + 1 - here : octets[here + k - 1] = ab[k]
    BY <1>1, <1>3 DEF EndsIn, ab
  <2>2. CASE here + Len(a) > Len(octets) + 1
    <3>1. \A k \in 1 .. Len(octets) + 1 - here : k \in 1 .. Len(a)
      BY <1>1, <2>1, <2>2
    <3>2. \A k \in 1 .. Len(octets) + 1 - here : ab[k] = a[k]
      BY <1>1, <3>1 DEF ab
    <3>3. \A k \in 1 .. Len(octets) + 1 - here : octets[here + k - 1] = a[k]
      BY <2>1, <3>2
    <3>4. EndsIn(octets, here, a)
      BY <2>1, <2>2, <3>3 DEF EndsIn
    <3> QED BY <3>4
  <2>3. CASE here + Len(a) <= Len(octets) + 1
    <3>1. \A k \in 1 .. Len(a) : k \in 1 .. Len(octets) + 1 - here /\ ab[k] = a[k]
      BY <1>1, <2>1, <2>3 DEF ab
    <3>2. \A k \in 1 .. Len(a) : octets[here + k - 1] = a[k]
      BY <2>1, <3>1
    <3>3. ASSUME NEW k \in 1 .. Len(octets) + 1 - (here + Len(a))
          PROVE  octets[here + Len(a) + k - 1] = b[k]
      <4> DEFINE j == Len(a) + k
      <4>1. j \in 1 .. Len(octets) + 1 - here /\ k \in 1 .. Len(b) /\ here + j - 1 = here + Len(a) + k - 1
        BY <1>1, <2>1, <2>3
      <4>2. ab[j] = b[k]
        BY <1>1, <4>1 DEF ab
      <4> HIDE DEF j
      <4>3. octets[here + j - 1] = ab[j]
        BY <2>1, <4>1
      <4> QED BY <4>1, <4>2, <4>3
    <3>4. HasAt(octets, here, a)
      BY <1>1, <2>1, <2>3, <3>2 DEF HasAt
    <3>5. EndsIn(octets, here + Len(a), b)
      BY <1>1, <2>1, <2>3, <3>3 DEF EndsIn
    <3> QED BY <3>4, <3>5
  <2> QED BY <1>1, <2>1, <2>2, <2>3
<1>4. HasAt(octets, here, ab) => HasAt(octets, here, a) /\ HasAt(octets, here + Len(a), b)
  BY <1>2
<1>5. EndsIn(octets, here, ab) =>
        EndsIn(octets, here, a) \/ (HasAt(octets, here, a) /\ EndsIn(octets, here + Len(a), b))
  BY <1>3
<1> QED BY <1>4, <1>5 DEF ab

(* Codes that make so many bytes of the line when the file has them, and   *)
(* nothing else when it ends within them.                                  *)
Sound(c, have, codes, bytes) ==
  /\ \A here : HasAt(c.file, here, codes) => Leads(c, here, have, here + Len(codes), have + bytes)
  /\ \A here : EndsIn(c.file, here, codes) => Fails(c, here, have)

LEMMA CodingIs ==
  ASSUME NEW c \in Coding
  PROVE  /\ c.driver \in Coder /\ c.file \in Seq(Octet) /\ c.size \in Nat \ {0}
         /\ c.line \in Seq(Octet) /\ Len(c.line) \in Nat /\ Len(c.file) \in Nat
         /\ \A i \in 1 .. Len(c.line) : c.line[i] \in Octet
BY DEF Coding

(* Codes one after the other.                                              *)
LEMMA SoundBoth ==
  ASSUME NEW c \in Coding, NEW have \in Nat, NEW n \in Nat, NEW m \in Nat,
         NEW a \in Seq(Octet), NEW b \in Seq(Octet),
         Sound(c, have, a, n), Sound(c, have + n, b, m)
  PROVE  Sound(c, have, a \o b, n + m)
<1>1. c.file \in Seq(Octet)
  BY CodingIs
<1>2. Len(a) \in Nat /\ Len(b) \in Nat /\ Len(a \o b) = Len(a) + Len(b)
  OBVIOUS
<1>3. ASSUME NEW here, HasAt(c.file, here, a \o b)
      PROVE  Leads(c, here, have, here + Len(a \o b), have + (n + m))
  <2>1. HasAt(c.file, here, a) /\ HasAt(c.file, here + Len(a), b)
    BY <1>1, <1>3, HasBoth
  <2>2. here \in Nat
    BY <1>3 DEF HasAt
  <2>3. Leads(c, here, have, here + Len(a), have + n)
    BY <2>1 DEF Sound
  <2>4. Leads(c, here + Len(a), have + n, here + Len(a) + Len(b), have + n + m)
    BY <2>1 DEF Sound
  <2>5. here + Len(a) + Len(b) = here + Len(a \o b) /\ have + n + m = have + (n + m)
    BY <1>2, <2>2
  <2> QED BY <2>3, <2>4, <2>5, LeadsOn
<1>4. ASSUME NEW here, EndsIn(c.file, here, a \o b)
      PROVE  Fails(c, here, have)
  <2>1. EndsIn(c.file, here, a) \/ (HasAt(c.file, here, a) /\ EndsIn(c.file, here + Len(a), b))
    BY <1>1, <1>4, HasBoth
  <2>2. CASE EndsIn(c.file, here, a)
    BY <2>2 DEF Sound
  <2>3. CASE HasAt(c.file, here, a) /\ EndsIn(c.file, here + Len(a), b)
    <3>1. Leads(c, here, have, here + Len(a), have + n)
      BY <2>3 DEF Sound
    <3>2. Fails(c, here + Len(a), have + n)
      BY <2>3 DEF Sound
    <3> QED BY <3>1, <3>2 DEF Leads
  <2> QED BY <2>1, <2>2, <2>3
<1> QED BY <1>3, <1>4 DEF Sound

LEMMA SoundNothing ==
  ASSUME NEW c \in Coding, NEW have \in Nat
  PROVE  Sound(c, have, <<>>, 0)
<1>1. Len(c.file) \in Nat
  BY CodingIs
<1>2. ASSUME NEW here, HasAt(c.file, here, <<>>) PROVE here + Len(<<>>) = here /\ have + 0 = have
  BY <1>1, <1>2 DEF HasAt
<1>3. ASSUME NEW here, EndsIn(c.file, here, <<>>) PROVE FALSE
  BY <1>1, <1>3 DEF EndsIn
<1> QED BY <1>2, <1>3 DEF Sound, Leads

(* One code, which the decoder knows for what it is.                       *)
Spells(bytes, line, have) ==
  /\ have \in Nat /\ have + Len(bytes) <= Len(line)
  /\ \A k \in 1 .. Len(bytes) : bytes[k] = line[have + k]
Known(c, codes, bytes) ==
  /\ \A here : HasAt(c.file, here, codes) =>
       CodeAt(c.driver, c.file, here, c.size) = Makes(bytes, here + Len(codes))
  /\ \A here : EndsIn(c.file, here, codes) =>
       CodeAt(c.driver, c.file, here, c.size).next > Len(c.file) + 1

LEMMA SoundCode ==
  ASSUME NEW c \in Coding, NEW have, NEW codes \in Seq(Octet), NEW bytes \in Seq(Octet),
         Spells(bytes, c.line, have), Known(c, codes, bytes),
         have < Len(c.line) \/ c.driver = "BMP"
  PROVE  Sound(c, have, codes, Len(bytes))
<1>1. Len(c.file) \in Nat /\ Len(c.line) \in Nat /\ have \in 0 .. Len(c.line)
      /\ have + Len(bytes) <= Len(c.line) /\ \A k \in 1 .. Len(bytes) : bytes[k] = c.line[have + k]
  BY CodingIs DEF Spells
<1>2. ASSUME NEW here, HasAt(c.file, here, codes)
      PROVE  Leads(c, here, have, here + Len(codes), have + Len(bytes))
  <2> DEFINE next == here + Len(codes)
  <2>1. here \in 1 .. Len(c.file) + 1 /\ next \in 1 .. Len(c.file) + 1
    BY <1>1, <1>2 DEF HasAt
  <2>2. CodeAt(c.driver, c.file, here, c.size) = Makes(bytes, next)
    BY <1>2 DEF Known
  <2> HIDE DEF next
  <2>3. Leads(c, here, have, next, have + Len(bytes))
    BY <1>1, <2>1, <2>2, CodeLeads
  <2> QED BY <2>3 DEF next
<1>3. ASSUME NEW here, EndsIn(c.file, here, codes)
      PROVE  Fails(c, here, have)
  <2>1. here \in 1 .. Len(c.file) + 1
    BY <1>3 DEF EndsIn
  <2>2. CodeAt(c.driver, c.file, here, c.size).next > Len(c.file) + 1
    BY <1>3 DEF Known
  <2> QED BY <1>1, <2>1, <2>2, CodeFails
<1> QED BY <1>2, <1>3 DEF Sound

(* A packet of a coding: never nothing, never more than is left of the     *)
(* line, at most two bytes for one.                                        *)
Good(c, have, packet, elements, size) ==
  /\ packet.takes \in 1 .. elements
  /\ packet.codes \in Seq(Octet)
  /\ Len(packet.codes) <= 2 * (packet.takes * size)
  /\ Sound(c, have, packet.codes, packet.takes * size)

LEMMA RunSpells ==
  ASSUME NEW c \in Coding, NEW i \in 1 .. Len(c.line), NEW max \in Nat \ {0},
         NEW count, count = RunAt(c.line, i, max)
  PROVE  /\ count \in 1 .. max /\ count <= Len(c.line) - i + 1
         /\ Repeat(c.line[i], count) \in Seq(Octet) /\ Len(Repeat(c.line[i], count)) = count
         /\ Spells(Repeat(c.line[i], count), c.line, i - 1)
         /\ i \in Nat /\ i - 1 < Len(c.line) /\ c.line[i] \in Octet
<1>1. Len(c.line) \in Nat /\ i \in Nat /\ i - 1 < Len(c.line) /\ c.line[i] \in Octet
  BY CodingIs
<1>2. RunIs(c.line, i, max, count)
  BY <1>1, RunAtIs
<1>3. count \in 1 .. max /\ count <= Len(c.line) - i + 1 /\ count \in Nat
  BY <1>1, <1>2 DEF RunIs
<1> DEFINE bytes == Repeat(c.line[i], count)
<1>4. bytes \in Seq(Octet) /\ Len(bytes) = count /\ \A k \in 1 .. count : bytes[k] = c.line[i]
  BY <1>1, <1>3, RepeatIs DEF Repeat
<1>5. ASSUME NEW k \in 1 .. count PROVE c.line[i - 1 + k] = c.line[i]
  <2>1. i - 1 + k \in i .. i + count - 1
    BY <1>1, <1>3
  <2> QED BY <1>2, <2>1 DEF RunIs
<1> HIDE DEF bytes
<1>6. Spells(bytes, c.line, i - 1)
  BY <1>1, <1>3, <1>4, <1>5 DEF Spells
<1> QED BY <1>1, <1>3, <1>4, <1>6 DEF bytes

LEMMA GoodIs ==
  ASSUME NEW c, NEW have, NEW packet, NEW elements \in Nat,
         packet.takes \in 1 .. elements, packet.codes \in Seq(Octet),
         Len(packet.codes) <= 2 * packet.takes, Sound(c, have, packet.codes, packet.takes)
  PROVE  Good(c, have, packet, elements, 1)
BY DEF Good

LEMMA PCXGood ==
  ASSUME NEW c \in Coding, c.driver = "PCX", NEW i \in 1 .. Len(c.line)
  PROVE  Good(c, i - 1, PCXPacket(c.line, i), Len(c.line) - i + 1, 1)
<1> DEFINE L == c.line
           v == L[i]
           count == RunAt(L, i, 63)
           bytes == Repeat(v, count)
           P == PCXPacket(L, i)
           have == i - 1
           Code(here) == CodeAt(c.driver, c.file, here, c.size)
           a(here) == ByteAt(c.file, here)
<1>1. Len(c.line) \in Nat /\ Len(c.file) \in Nat /\ c.file \in Seq(Octet)
  BY CodingIs
<1>2. /\ count \in 1 .. 63 /\ count <= Len(L) - i + 1
      /\ bytes \in Seq(Octet) /\ Len(bytes) = count /\ Spells(bytes, c.line, have)
      /\ i \in Nat /\ have < Len(c.line) /\ v \in Octet
  <2> DEFINE most == 63
  <2>1. most \in Nat \ {0} /\ count = RunAt(c.line, i, most)
    OBVIOUS
  <2> HIDE DEF most, count
  <2>2. /\ count \in 1 .. most /\ count <= Len(c.line) - i + 1
        /\ Repeat(c.line[i], count) \in Seq(Octet) /\ Len(Repeat(c.line[i], count)) = count
        /\ Spells(Repeat(c.line[i], count), c.line, i - 1)
        /\ i \in Nat /\ i - 1 < Len(c.line) /\ c.line[i] \in Octet
    BY <2>1, RunSpells
  <2> QED BY <2>2 DEF most
<1>5. \A here : Code(here) = IF a(here) >= 192
                           THEN Makes(Repeat(a(here + 1), a(here) % 64), here + 2)
                           ELSE Makes(<<a(here)>>, here + 1)
  BY DEF CodeAt, PCXCode
<1>6. P.takes = count
  BY DEF P, PCXPacket, Codes, count
<1> HIDE DEF bytes, v, L, have, count
<1>7. CASE count > 1 \/ v >= 64
  <2> DEFINE codes == <<192 + count, v>>
  <2>1. P.codes = codes
    BY <1>7 DEF PCXPacket, Codes, count, v, L
  <2>2. codes \in Seq(Octet) /\ Len(codes) = 2 /\ codes[1] = 192 + count /\ codes[2] = v
    BY <1>1, <1>2 DEF Octet
  <2> HIDE DEF codes
  <2>3. ASSUME NEW here, HasAt(c.file, here, codes) PROVE Code(here) = Makes(bytes, here + 2)
    <3>1. a(here) = 192 + count /\ a(here + 1) = v
      BY <1>1, <2>2, <2>3 DEF HasAt, ByteAt
    <3>2. a(here) >= 192 /\ a(here) % 64 = count
      BY SMTT(20), <1>2, <3>1
    <3> QED BY <1>5, <3>1, <3>2 DEF bytes
  <2>4. ASSUME NEW here, EndsIn(c.file, here, codes) PROVE Code(here).next > Len(c.file) + 1
    <3>1. CASE here = Len(c.file) + 1
      <4>1. a(here) = 0
        BY <1>1, <3>1 DEF ByteAt
      <4>2. Code(here) = Makes(<<a(here)>>, here + 1)
        BY <1>5, <4>1
      <4> QED BY <1>1, <3>1, <4>2 DEF Makes
    <3>2. CASE here = Len(c.file)
      <4>1. a(here) = 192 + count
        BY <1>1, <2>2, <2>4, <3>2 DEF EndsIn, ByteAt
      <4>3. a(here) >= 192
        BY <1>2, <4>1
      <4>2. Code(here) = Makes(Repeat(a(here + 1), a(here) % 64), here + 2)
        BY <1>5, <4>3
      <4> QED BY <1>1, <3>2, <4>2 DEF Makes
    <3>3. here \in 1 .. Len(c.file) + 1 /\ here + 2 > Len(c.file) + 1
      BY <2>2, <2>4 DEF EndsIn
    <3> QED BY <1>1, <3>1, <3>2, <3>3
  <2>6. Known(c, codes, bytes)
    BY <2>2, <2>3, <2>4 DEF Known
  <2> HIDE DEF P
  <2>5. Sound(c, have, codes, Len(bytes))
    BY <1>2, <2>2, <2>6, SoundCode
  <2>8. P.takes \in 1 .. Len(c.line) - i + 1 /\ Len(c.line) - i + 1 \in Nat
    BY <1>1, <1>2, <1>6 DEF L
  <2>9. P.codes \in Seq(Octet) /\ Len(P.codes) <= 2 * P.takes /\ Sound(c, i - 1, P.codes, P.takes)
    BY <1>2, <1>6, <2>1, <2>2, <2>5 DEF have
  <2>10. Good(c, i - 1, P, Len(c.line) - i + 1, 1)
    BY <2>8, <2>9, GoodIs
  <2> QED BY <2>10 DEF P, L
<1>8. CASE ~(count > 1 \/ v >= 64)
  <2> DEFINE codes == <<v>>
  <2>1. P.codes = codes
    BY <1>8 DEF PCXPacket, Codes, count, v, L
  <2>7. count = 1
    BY <1>2, <1>8
  <2>2. codes \in Seq(Octet) /\ Len(codes) = 1 /\ codes[1] = v /\ v < 64
    BY <1>2, <1>8 DEF Octet
  <2> HIDE DEF codes
  <2>3. ASSUME NEW here, HasAt(c.file, here, codes) PROVE Code(here) = Makes(bytes, here + 1)
    <3>1. a(here) = v
      BY <1>1, <2>2, <2>3 DEF HasAt, ByteAt
    <3>2. Code(here) = Makes(<<v>>, here + 1)
      BY <1>2, <1>5, <2>2, <3>1 DEF Octet
    <3>3. bytes = <<v>>
      BY <2>7 DEF bytes, Repeat
    <3> QED BY <3>2, <3>3
  <2>4. ASSUME NEW here, EndsIn(c.file, here, codes) PROVE Code(here).next > Len(c.file) + 1
    <3>1. here = Len(c.file) + 1
      <4>1. here \in 1 .. Len(c.file) + 1 /\ here + Len(codes) > Len(c.file) + 1
        BY <2>4 DEF EndsIn
      <4> QED BY <1>1, <2>2, <4>1
    <3>2. a(here) = 0
      BY <1>1, <3>1 DEF ByteAt
    <3>3. Code(here) = Makes(<<a(here)>>, here + 1)
      BY <1>5, <3>2
    <3> QED BY <1>1, <3>1, <3>3 DEF Makes
  <2>6. Known(c, codes, bytes)
    BY <2>2, <2>3, <2>4 DEF Known
  <2> HIDE DEF P
  <2>5. Sound(c, have, codes, Len(bytes))
    BY <1>2, <2>2, <2>6, SoundCode
  <2>8. P.takes \in 1 .. Len(c.line) - i + 1 /\ Len(c.line) - i + 1 \in Nat
    BY <1>1, <1>2, <1>6 DEF L
  <2>9. P.codes \in Seq(Octet) /\ Len(P.codes) <= 2 * P.takes /\ Sound(c, i - 1, P.codes, P.takes)
    BY <1>2, <1>6, <2>1, <2>2, <2>5, <2>7 DEF have
  <2>10. Good(c, i - 1, P, Len(c.line) - i + 1, 1)
    BY <2>8, <2>9, GoodIs
  <2> QED BY <2>10 DEF P, L
<1> QED BY <1>7, <1>8

(* Sun Raster: one byte that is not the escape, the escape itself, a run.  *)
RASAt(octets, here) ==
  IF ByteAt(octets, here) # RASEscape THEN Makes(<<ByteAt(octets, here)>>, here + 1)
  ELSE IF ByteAt(octets, here + 1) = 0 THEN Makes(<<RASEscape>>, here + 2)
  ELSE Makes(Repeat(ByteAt(octets, here + 2), (ByteAt(octets, here + 1) + 1) % 256), here + 3)

LEMMA RASCodeIs ==
  ASSUME NEW c, c.driver = "RAS", NEW here
  PROVE  CodeAt(c.driver, c.file, here, c.size) = RASAt(c.file, here)
BY DEF CodeAt, RASCode, RASAt

LEMMA RASByte ==
  ASSUME NEW c \in Coding, c.driver = "RAS", NEW have \in Nat, have < Len(c.line),
         NEW v, v = c.line[have + 1], v # RASEscape
  PROVE  Sound(c, have, <<v>>, 1)
<1> DEFINE bytes == <<v>>  F == Len(c.file)
<1>1. /\ c.file \in Seq(Octet) /\ F \in Nat /\ Len(c.line) \in Nat /\ v \in Octet
  BY CodingIs
<1>2. bytes \in Seq(Octet) /\ Len(bytes) = 1 /\ bytes[1] = v
  BY <1>1
<1> HIDE DEF bytes
<1>3. Spells(bytes, c.line, have)
  BY <1>1, <1>2 DEF Spells
<1>4. ASSUME NEW here, HasAt(c.file, here, bytes)
      PROVE  CodeAt(c.driver, c.file, here, c.size) = Makes(bytes, here + Len(bytes))
  <2>1. ByteAt(c.file, here) = v
    BY <1>1, <1>2, <1>4 DEF HasAt, ByteAt
  <2>2. CodeAt(c.driver, c.file, here, c.size) = Makes(<<v>>, here + 1)
    BY <2>1, RASCodeIs DEF RASAt
  <2> QED BY <1>2, <2>2 DEF bytes
<1>5. ASSUME NEW here, EndsIn(c.file, here, bytes)
      PROVE  CodeAt(c.driver, c.file, here, c.size).next > F + 1
  <2>0. here \in 1 .. F + 1 /\ here + 1 > F + 1
    BY <1>2, <1>5 DEF EndsIn
  <2>1. here = F + 1
    BY <1>1, <2>0
  <2>2. ByteAt(c.file, here) = 0
    BY <1>1, <2>1 DEF ByteAt
  <2>3. CodeAt(c.driver, c.file, here, c.size) = Makes(<<0>>, here + 1)
    BY <2>2, RASCodeIs DEF RASAt, RASEscape
  <2> QED BY <1>1, <2>1, <2>3 DEF Makes
<1>6. Known(c, bytes, bytes)
  BY <1>4, <1>5 DEF Known
<1>7. Sound(c, have, bytes, Len(bytes))
  BY <1>2, <1>3, <1>6, SoundCode
<1> QED BY <1>2, <1>7 DEF bytes

LEMMA RASGood ==
  ASSUME NEW c \in Coding, c.driver = "RAS", NEW i \in 1 .. Len(c.line),
         RunAt(c.line, i, 256) # 256
  PROVE  Good(c, i - 1, RASPacket(c.line, i), Len(c.line) - i + 1, 1)
<1> DEFINE L == c.line
           v == L[i]
           count == RunAt(L, i, 256)
           bytes == Repeat(v, count)
           P == RASPacket(L, i)
           F == Len(c.file)
           have == i - 1
           Code(here) == CodeAt(c.driver, c.file, here, c.size)
           a(here) == ByteAt(c.file, here)
<1>1. Len(c.line) \in Nat /\ F \in Nat /\ c.file \in Seq(Octet)
  BY CodingIs
<1>2. /\ count \in 1 .. 255 /\ count <= Len(L) - i + 1
      /\ bytes \in Seq(Octet) /\ Len(bytes) = count /\ Spells(bytes, c.line, have)
      /\ i \in Nat /\ have < Len(c.line) /\ v \in Octet
  <2> DEFINE most == 256
  <2>1. most \in Nat \ {0} /\ count = RunAt(c.line, i, most)
    OBVIOUS
  <2>3. count # 256
    OBVIOUS
  <2> HIDE DEF most, count
  <2>2. /\ count \in 1 .. most /\ count <= Len(c.line) - i + 1
        /\ Repeat(c.line[i], count) \in Seq(Octet) /\ Len(Repeat(c.line[i], count)) = count
        /\ Spells(Repeat(c.line[i], count), c.line, i - 1)
        /\ i \in Nat /\ i - 1 < Len(c.line) /\ c.line[i] \in Octet
    BY <2>1, RunSpells
  <2> QED BY <2>2, <2>3 DEF most
<1>3. P.takes = count
  BY DEF RASPacket, Codes
<1>4. P.codes = CASE count > 2 \/ (count = 2 /\ v = RASEscape) -> <<RASEscape, count - 1, v>>
                  [] count = 1 /\ v = RASEscape -> <<RASEscape, 0>>
                  [] OTHER -> bytes
  BY DEF RASPacket, Codes
<1>5. \A here : Code(here) = RASAt(c.file, here)
  BY RASCodeIs
<1> HIDE DEF bytes, v, L, have, count, Code, P, F
<1>6. CASE count > 2 \/ (count = 2 /\ v = RASEscape)
  <2> DEFINE codes == <<RASEscape, count - 1, v>>
  <2>1. P.codes = codes
    BY <1>4, <1>6
  <2>2. /\ codes \in Seq(Octet) /\ Len(codes) = 3
        /\ codes[1] = RASEscape /\ codes[2] = count - 1 /\ codes[3] = v
    BY <1>2, <1>6 DEF Octet, RASEscape
  <2> HIDE DEF codes
  <2>3. ASSUME NEW here, HasAt(c.file, here, codes) PROVE Code(here) = Makes(bytes, here + 3)
    <3>1. a(here) = RASEscape /\ a(here + 1) = count - 1 /\ a(here + 2) = v
      BY SMTT(20), <1>1, <2>2, <2>3 DEF HasAt, ByteAt
    <3>2. a(here + 1) # 0 /\ (a(here + 1) + 1) % 256 = count
      BY <1>2, <1>6, <3>1
    <3> QED BY <1>5, <3>1, <3>2 DEF bytes, RASAt
  <2>4. ASSUME NEW here, EndsIn(c.file, here, codes) PROVE Code(here).next > F + 1
    <3>0. here \in 1 .. F + 1 /\ here + 3 > F + 1
      BY <2>2, <2>4 DEF EndsIn, F
    <3>1. CASE here = F + 1
      <4>1. a(here) = 0
        BY <1>1, <3>1 DEF ByteAt, F
      <4>2. Code(here) = Makes(<<a(here)>>, here + 1)
        BY <1>5, <4>1 DEF RASAt, RASEscape
      <4> QED BY <1>1, <3>1, <4>2 DEF Makes
    <3>2. CASE here = F
      <4>1. a(here) = RASEscape
        BY <1>1, <2>2, <2>4, <3>2 DEF EndsIn, ByteAt, F
      <4>2. a(here + 1) = 0
        BY <1>1, <3>2 DEF ByteAt, F
      <4>3. Code(here) = Makes(<<RASEscape>>, here + 2)
        BY <1>5, <4>1, <4>2 DEF RASAt
      <4> QED BY <1>1, <3>2, <4>3 DEF Makes
    <3>3. CASE here + 1 = F
      <4>0. 1 \in 1 .. F + 1 - here /\ 2 \in 1 .. F + 1 - here
        BY <1>1, <3>0, <3>3
      <4>4. c.file[here + 1 - 1] = codes[1] /\ c.file[here + 2 - 1] = codes[2]
        BY <2>4, <4>0 DEF EndsIn, F
      <4>1. a(here) = RASEscape /\ a(here + 1) = count - 1
        BY <1>1, <2>2, <3>0, <3>3, <4>4 DEF ByteAt, F
      <4>2. a(here + 1) # 0
        BY <1>2, <1>6, <4>1
      <4>3. Code(here).next = here + 3
        BY <1>5, <4>1, <4>2 DEF RASAt, Makes
      <4> QED BY <1>1, <3>0, <3>3, <4>3
    <3> QED BY <1>1, <3>0, <3>1, <3>2, <3>3
  <2>5. Known(c, codes, bytes)
    BY <2>2, <2>3, <2>4 DEF Known, Code, F
  <2>6. Sound(c, have, codes, Len(bytes))
    BY ZenonT(40), <1>2, <2>2, <2>5, SoundCode
  <2>8. P.takes \in 1 .. Len(c.line) - i + 1 /\ Len(c.line) - i + 1 \in Nat
    BY <1>1, <1>2, <1>3 DEF L
  <2>9. P.codes \in Seq(Octet) /\ Len(P.codes) <= 2 * P.takes /\ Sound(c, i - 1, P.codes, P.takes)
    BY <1>2, <1>3, <1>6, <2>1, <2>2, <2>6 DEF have
  <2>10. Good(c, i - 1, P, Len(c.line) - i + 1, 1)
    BY <2>8, <2>9, GoodIs
  <2> QED BY <2>10 DEF P, L
<1>7. CASE count = 1 /\ v = RASEscape
  <2> DEFINE codes == <<RASEscape, 0>>
  <2>1. P.codes = codes
    BY <1>4, <1>7
  <2>2. codes \in Seq(Octet) /\ Len(codes) = 2 /\ codes[1] = RASEscape /\ codes[2] = 0
    BY DEF Octet, RASEscape
  <2>11. bytes = <<RASEscape>>
    BY <1>7 DEF bytes, Repeat
  <2> HIDE DEF codes
  <2>3. ASSUME NEW here, HasAt(c.file, here, codes) PROVE Code(here) = Makes(bytes, here + 2)
    <3>1. a(here) = RASEscape /\ a(here + 1) = 0
      BY <1>1, <2>2, <2>3 DEF HasAt, ByteAt
    <3> QED BY <1>5, <2>11, <3>1 DEF RASAt
  <2>4. ASSUME NEW here, EndsIn(c.file, here, codes) PROVE Code(here).next > F + 1
    <3>0. here \in 1 .. F + 1 /\ here + 2 > F + 1
      BY <2>2, <2>4 DEF EndsIn, F
    <3>1. CASE here = F + 1
      <4>1. a(here) = 0
        BY <1>1, <3>1 DEF ByteAt, F
      <4>2. Code(here) = Makes(<<a(here)>>, here + 1)
        BY <1>5, <4>1 DEF RASAt, RASEscape
      <4> QED BY <1>1, <3>1, <4>2 DEF Makes
    <3>2. CASE here = F
      <4>1. a(here) = RASEscape
        BY <1>1, <2>2, <2>4, <3>2 DEF EndsIn, ByteAt, F
      <4>2. a(here + 1) = 0
        BY <1>1, <3>2 DEF ByteAt, F
      <4>3. Code(here) = Makes(<<RASEscape>>, here + 2)
        BY <1>5, <4>1, <4>2 DEF RASAt
      <4> QED BY <1>1, <3>2, <4>3 DEF Makes
    <3> QED BY <1>1, <3>0, <3>1, <3>2
  <2>5. Known(c, codes, bytes)
    BY <2>2, <2>3, <2>4 DEF Known, Code, F
  <2>6. Sound(c, have, codes, Len(bytes))
    BY <1>2, <2>2, <2>5, SoundCode
  <2>8. P.takes \in 1 .. Len(c.line) - i + 1 /\ Len(c.line) - i + 1 \in Nat
    BY <1>1, <1>2, <1>3 DEF L
  <2>9. P.codes \in Seq(Octet) /\ Len(P.codes) <= 2 * P.takes /\ Sound(c, i - 1, P.codes, P.takes)
    BY <1>2, <1>3, <1>7, <2>1, <2>2, <2>6 DEF have
  <2>10. Good(c, i - 1, P, Len(c.line) - i + 1, 1)
    BY <2>8, <2>9, GoodIs
  <2> QED BY <2>10 DEF P, L
<1>8. CASE count \in {1, 2} /\ v # RASEscape
  <2>1. P.codes = bytes
    BY <1>4, <1>8
  <2>2. \A k \in 1 .. Len(bytes) : c.line[have + k] = v
    BY <1>2 DEF Spells, bytes, Repeat
  <2>3. have \in Nat
    BY <1>2 DEF have, Spells
  <2>4. c.line[have + 1] = v
    BY <1>2, <2>2
  <2>5. Sound(c, have, <<v>>, 1)
    BY <1>2, <1>8, <2>3, <2>4, RASByte
  <2>6. Sound(c, have, bytes, count)
    <3>1. CASE count = 1
      <4>1. bytes = <<v>>
        BY <3>1 DEF bytes, Repeat
      <4> QED BY <2>5, <3>1, <4>1
    <3>2. CASE count = 2
      <4>1. bytes = <<v>> \o <<v>>
        BY <3>2 DEF bytes, Repeat
      <4> DEFINE then == have + 1
      <4>2. then \in Nat /\ then < Len(c.line) /\ c.line[then + 1] = v
        <5>1. have + 2 <= Len(c.line) /\ (have + 1) + 1 = have + 2 /\ 2 \in 1 .. Len(bytes)
          BY <1>2, <2>3, <3>2 DEF Spells
        <5> QED BY <1>1, <2>2, <2>3, <5>1
      <4> HIDE DEF then
      <4>3. Sound(c, then, <<v>>, 1)
        BY <1>8, <4>2, RASByte
      <4> DEFINE one == 1  b == <<v>>
      <4>4. b \in Seq(Octet) /\ one \in Nat /\ Sound(c, have, b, one) /\ Sound(c, have + one, b, one)
        BY <1>2, <2>5, <4>3 DEF then
      <4> HIDE DEF one, b
      <4>5. Sound(c, have, b \o b, one + one)
        BY <2>3, <4>4, SoundBoth
      <4> QED BY <3>2, <4>1, <4>5 DEF one, b
    <3> QED BY <1>8, <3>1, <3>2
  <2>8. P.takes \in 1 .. Len(c.line) - i + 1 /\ Len(c.line) - i + 1 \in Nat
    BY <1>1, <1>2, <1>3 DEF L
  <2>9. P.codes \in Seq(Octet) /\ Len(P.codes) <= 2 * P.takes /\ Sound(c, i - 1, P.codes, P.takes)
    BY <1>2, <1>3, <2>1, <2>6 DEF have
  <2>10. Good(c, i - 1, P, Len(c.line) - i + 1, 1)
    BY <2>8, <2>9, GoodIs
  <2> QED BY <2>10 DEF P, L
<1>9. \/ count > 2 \/ (count = 2 /\ v = RASEscape)
      \/ count = 1 /\ v = RASEscape
      \/ count \in {1, 2} /\ v # RASEscape
  BY <1>2
<1> QED BY <1>6, <1>7, <1>8, <1>9

(* BMP: a run; a stretch of bytes, of which there may be many.             *)
BMPAt(octets, here) ==
  LET a == ByteAt(octets, here)  b == ByteAt(octets, here + 1)
  IN IF a > 0 THEN Makes(Repeat(b, a), here + 2)
     ELSE IF b \in {0, 1} THEN [Makes(<<>>, here + 2) EXCEPT !.ends = TRUE]
     ELSE IF b = 2 THEN Makes(<<>>, here + 4)
     ELSE Makes(Slice(octets, here + 2, b), here + 2 + b + (b % 2))

LEMMA BMPCodeIs ==
  ASSUME NEW c, c.driver = "BMP", NEW here
  PROVE  CodeAt(c.driver, c.file, here, c.size) = BMPAt(c.file, here)
BY DEF CodeAt, BMPCode, BMPAt

LEMMA BMPRun ==
  ASSUME NEW c \in Coding, c.driver = "BMP", NEW have, NEW v \in Octet, NEW n \in 1 .. 255,
         Spells(Repeat(v, n), c.line, have)
  PROVE  Sound(c, have, <<n, v>>, n)
<1> DEFINE bytes == Repeat(v, n)  codes == <<n, v>>  F == Len(c.file)
           a(here) == ByteAt(c.file, here)
           Code(here) == CodeAt(c.driver, c.file, here, c.size)
<1>1. /\ c.file \in Seq(Octet) /\ F \in Nat /\ Len(c.line) \in Nat
  BY CodingIs
<1>2. codes \in Seq(Octet) /\ Len(codes) = 2 /\ codes[1] = n /\ codes[2] = v
  BY DEF Octet
<1>3. bytes \in Seq(Octet) /\ Len(bytes) = n
  BY RepeatIs
<1>4. \A here : Code(here) = BMPAt(c.file, here)
  BY BMPCodeIs
<1> HIDE DEF bytes, codes, Code, F
<1>5. ASSUME NEW here, HasAt(c.file, here, codes) PROVE Code(here) = Makes(bytes, here + 2)
  <2>1. a(here) = n /\ a(here + 1) = v
    BY <1>1, <1>2, <1>5 DEF HasAt, ByteAt, F
  <2>2. a(here) > 0
    BY <2>1
  <2> QED BY <1>4, <2>1, <2>2 DEF bytes, BMPAt
<1>6. ASSUME NEW here, EndsIn(c.file, here, codes) PROVE Code(here).next > F + 1
  <2>0. here \in 1 .. F + 1 /\ here + 2 > F + 1
    BY <1>2, <1>6 DEF EndsIn, F
  <2>1. CASE here = F + 1
    <3>1. a(here) = 0 /\ a(here + 1) = 0
      BY <1>1, <2>1 DEF ByteAt, F
    <3>2. Code(here) = [Makes(<<>>, here + 2) EXCEPT !.ends = TRUE]
      BY <1>4, <3>1 DEF BMPAt
    <3> QED BY <1>1, <2>1, <3>2 DEF Makes
  <2>2. CASE here = F
    <3>1. a(here) = n
      BY <1>1, <1>2, <1>6, <2>2 DEF EndsIn, ByteAt, F
    <3>2. a(here) > 0
      BY <3>1
    <3>3. Code(here) = Makes(Repeat(a(here + 1), a(here)), here + 2)
      BY <1>4, <3>2 DEF BMPAt
    <3> QED BY <1>1, <2>2, <3>3 DEF Makes
  <2> QED BY <1>1, <2>0, <2>1, <2>2
<1>7. Known(c, codes, bytes)
  BY <1>2, <1>5, <1>6 DEF Known, Code, F
<1>8. Spells(bytes, c.line, have) /\ have < Len(c.line)
  <2>1. Spells(bytes, c.line, have)
    BY DEF bytes
  <2> QED BY <1>1, <1>3, <2>1 DEF Spells
<1>9. Sound(c, have, codes, Len(bytes))
  BY <1>2, <1>3, <1>7, <1>8, SoundCode
<1> QED BY <1>3, <1>9 DEF codes

Stretch(bytes) == <<0, Len(bytes)>> \o bytes \o Repeat(0, Len(bytes) % 2)

LEMMA StretchIs ==
  ASSUME NEW bytes \in Seq(Octet), Len(bytes) \in 3 .. 255
  PROVE  /\ Stretch(bytes) \in Seq(Octet)
         /\ Len(Stretch(bytes)) = 2 + Len(bytes) + (Len(bytes) % 2)
         /\ Stretch(bytes)[1] = 0 /\ Stretch(bytes)[2] = Len(bytes)
         /\ \A k \in 1 .. Len(bytes) : Stretch(bytes)[2 + k] = bytes[k]
<1> DEFINE n == Len(bytes)
           head == <<0, n>>
           pad == Repeat(0, n % 2)
           both == head \o bytes
           all == both \o pad
<1>1. n \in Nat /\ n % 2 \in Nat /\ 0 \in Octet /\ n \in Octet
  BY DEF Octet
<1>2. head \in Seq(Octet) /\ Len(head) = 2 /\ head[1] = 0 /\ head[2] = n
  BY <1>1
<1>3. pad \in Seq(Octet) /\ Len(pad) = n % 2
  BY <1>1, RepeatIs
<1> HIDE DEF head, pad
<1>4. /\ both \in Seq(Octet) /\ Len(both) = 2 + n
      /\ \A k \in 1 .. 2 + n : both[k] = IF k <= 2 THEN head[k] ELSE bytes[k - 2]
  <2>1. /\ both \in Seq(Octet) /\ Len(both) = Len(head) + Len(bytes)
        /\ \A k \in 1 .. Len(head) + Len(bytes) :
             both[k] = IF k <= Len(head) THEN head[k] ELSE bytes[k - Len(head)]
    BY <1>2, ConcatProperties
  <2> HIDE DEF both
  <2> QED BY <1>2, <2>1
<1> HIDE DEF both
<1>5. /\ all \in Seq(Octet) /\ Len(all) = 2 + n + (n % 2)
      /\ \A k \in 1 .. 2 + n + (n % 2) : all[k] = IF k <= 2 + n THEN both[k] ELSE pad[k - (2 + n)]
  BY <1>3, <1>4, ConcatProperties
<1>6. Stretch(bytes) = all
  BY DEF Stretch, all, both, head, pad
<1> HIDE DEF all, n
<1>7. \A k \in 1 .. n : all[2 + k] = bytes[k]
  <2> SUFFICES ASSUME NEW k \in 1 .. n PROVE all[2 + k] = bytes[k]
    OBVIOUS
  <2> DEFINE j == 2 + k
  <2>1. j \in 1 .. 2 + n + (n % 2) /\ j <= 2 + n /\ ~(j <= 2) /\ j - 2 = k /\ j \in 1 .. 2 + n
    BY <1>1
  <2> HIDE DEF j
  <2>2. all[j] = both[j] /\ both[j] = bytes[j - 2]
    BY <1>4, <1>5, <2>1
  <2> QED BY <2>1, <2>2 DEF j
<1>8. all[1] = 0 /\ all[2] = n
  <2>1. 1 \in 1 .. 2 + n + (n % 2) /\ 2 \in 1 .. 2 + n + (n % 2) /\ 1 \in 1 .. 2 + n /\ 2 \in 1 .. 2 + n
    BY <1>1
  <2> QED BY <1>1, <1>2, <1>4, <1>5, <2>1
<1> QED BY <1>5, <1>6, <1>7, <1>8 DEF n

LEMMA BMPStretch ==
  ASSUME NEW c \in Coding, c.driver = "BMP", NEW have, NEW bytes \in Seq(Octet),
         Len(bytes) \in 3 .. 255, Spells(bytes, c.line, have)
  PROVE  Sound(c, have, Stretch(bytes), Len(bytes))
<1> DEFINE codes == Stretch(bytes)  F == Len(c.file)  n == Len(bytes)
           a(here) == ByteAt(c.file, here)
           Code(here) == CodeAt(c.driver, c.file, here, c.size)
<1>1. /\ c.file \in Seq(Octet) /\ F \in Nat /\ Len(c.line) \in Nat
  BY CodingIs
<1>2. /\ codes \in Seq(Octet) /\ Len(codes) = 2 + n + (n % 2) /\ codes[1] = 0 /\ codes[2] = n
      /\ \A k \in 1 .. n : codes[2 + k] = bytes[k]
  BY StretchIs
<1>3. n \in Nat /\ n >= 3 /\ n % 2 \in Nat
  <2> HIDE DEF codes, Code, F
  <2>1. n \in 3 .. 255
    OBVIOUS
  <2> HIDE DEF n
  <2> QED BY <2>1
<1>4. \A here : Code(here) = BMPAt(c.file, here)
  BY BMPCodeIs
<1> HIDE DEF codes, Code, F, n
<1>5. ASSUME NEW here, a(here) = 0, a(here + 1) = n
      PROVE  Code(here) = Makes(Slice(c.file, here + 2, n), here + 2 + n + (n % 2))
  <2>1. ~(a(here) > 0) /\ ~(n \in {0, 1}) /\ n # 2
    BY <1>3, <1>5
  <2> QED BY <1>4, <1>5, <2>1 DEF BMPAt
<1>6. ASSUME NEW here, HasAt(c.file, here, codes) PROVE Code(here) = Makes(bytes, here + Len(codes))
  <2>0. here \in 1 .. F + 1 /\ here + (2 + n + (n % 2)) <= F + 1
    BY <1>2, <1>6 DEF HasAt, F
  <2>7. \A k \in 1 .. 2 + n : k \in 1 .. Len(codes)
    BY <1>2, <1>3
  <2>1. \A k \in 1 .. 2 + n : c.file[here + k - 1] = codes[k]
    BY <1>6, <2>7 DEF HasAt
  <2>2. 1 \in 1 .. 2 + n /\ 2 \in 1 .. 2 + n
    BY <1>3
  <2>3. c.file[here + 1 - 1] = 0 /\ c.file[here + 2 - 1] = n
    BY <1>2, <2>1, <2>2
  <2>4. a(here) = 0 /\ a(here + 1) = n
    BY <1>1, <1>3, <2>0, <2>3 DEF ByteAt, F
  <2>5. Slice(c.file, here + 2, n) = bytes
    <3> DEFINE s == Slice(c.file, here + 2, n)
    <3>1. here + 2 \in Nat \ {0}
      BY <1>1, <2>0
    <3>2. s \in Seq(Octet) /\ Len(s) = n
      BY <1>1, <1>3, <3>1, SliceIs
    <3>3. ASSUME NEW k \in 1 .. n PROVE s[k] = bytes[k]
      <4>1. s[k] = ByteAt(c.file, here + 2 + k - 1)
        BY DEF Slice
      <4> DEFINE j == 2 + k
      <4>2. j \in 1 .. 2 + n /\ here + 2 + k - 1 = here + j - 1 /\ here + j - 1 <= F
        BY <1>1, <1>3, <2>0
      <4>3. codes[j] = bytes[k]
        BY <1>2
      <4> HIDE DEF j
      <4>4. c.file[here + j - 1] = codes[j]
        BY <2>1, <4>2
      <4> QED BY <4>1, <4>2, <4>3, <4>4 DEF ByteAt, F
    <3> HIDE DEF s
    <3> QED BY <3>2, <3>3, SeqEqual DEF n, s
  <2>6. here + 2 + n + (n % 2) = here + Len(codes)
    BY <1>2, <1>3, <2>0
  <2> QED BY <1>5, <2>4, <2>5, <2>6
<1>7. ASSUME NEW here, EndsIn(c.file, here, codes) PROVE Code(here).next > F + 1
  <2>0. here \in 1 .. F + 1 /\ here + (2 + n + (n % 2)) > F + 1
    BY <1>2, <1>7 DEF EndsIn, F
  <2>1. CASE here >= F
    <3>1. a(here + 1) = 0
      BY <1>1, <2>0, <2>1 DEF ByteAt, F
    <3>2. a(here) = 0
      <4>1. CASE here = F
        <5>1. 1 \in 1 .. F + 1 - here
          BY <1>1, <4>1
        <5>2. c.file[here + 1 - 1] = 0
          BY <1>2, <1>7, <5>1 DEF EndsIn, F
        <5> QED BY <1>1, <4>1, <5>2 DEF ByteAt, F
      <4>2. CASE here > F
        BY <1>1, <2>0, <4>2 DEF ByteAt, F
      <4> QED BY <1>1, <2>0, <2>1, <4>1, <4>2
    <3>3. Code(here) = [Makes(<<>>, here + 2) EXCEPT !.ends = TRUE]
      BY <1>4, <3>1, <3>2 DEF BMPAt
    <3>4. Code(here).next = here + 2
      BY <3>3 DEF Makes
    <3> QED BY <1>1, <2>0, <2>1, <3>4
  <2>2. CASE here < F
    <3>1. 1 \in 1 .. F + 1 - here /\ 2 \in 1 .. F + 1 - here
      BY <1>1, <2>0, <2>2
    <3>2. c.file[here + 1 - 1] = 0 /\ c.file[here + 2 - 1] = n
      BY <1>2, <1>7, <3>1 DEF EndsIn, F
    <3>3. a(here) = 0 /\ a(here + 1) = n
      BY <1>1, <2>0, <2>2, <3>2 DEF ByteAt, F
    <3>4. Code(here).next = here + 2 + n + (n % 2)
      BY <1>5, <3>3 DEF Makes
    <3> QED BY <1>1, <1>3, <2>0, <3>4
  <2> QED BY <1>1, <2>0, <2>1, <2>2
<1>8. Known(c, codes, bytes)
  BY <1>6, <1>7 DEF Known, Code, F
<1>9. have < Len(c.line)
  <2>1. have \in Nat /\ have + n <= Len(c.line)
    BY DEF Spells, n
  <2> QED BY <1>1, <1>3, <2>1
<1>10. Sound(c, have, codes, n)
  BY <1>2, <1>8, <1>9, SoundCode DEF n
<1> QED BY <1>10 DEF codes, n


(* The next two bytes that are the same are left for the rest, and when    *)
(* there are none the stretch is as long as it can be.                     *)
LEMMA DifferIs ==
  ASSUME NEW line, Len(line) \in Nat, NEW i \in 1 .. Len(line), i < Len(line),
         RunIs(line, i, 255, 1)
  PROVE  LET d == Differ(line, i)
         IN /\ d \in 1 .. 255 /\ d <= Len(line) - i + 1
            /\ \A k \in i .. Len(line) - 1 : line[k] = line[k + 1] => k >= i + d
            /\ (\A k \in i .. Len(line) - 1 : line[k] # line[k + 1]) =>
                 d = 255 \/ d = Len(line) - i + 1
<1> DEFINE N == Len(line)
           last == Min({N, i + 254})
           twins == {j \in i + 2 .. last : line[j] = line[j - 1]}
           d == Differ(line, i)
<1>1. N \in Nat /\ i \in Nat /\ 1 <= i /\ i < N
  OBVIOUS
<1>2. last = IF N <= i + 254 THEN N ELSE i + 254
  BY <1>1, MinOfTwo
<1>3. line[i + 1] # line[i]
  BY <1>1 DEF RunIs
<1>4. d = IF twins # {} THEN Min(twins) - 1 - i
          ELSE last + 1 - i - (IF last < N /\ line[last + 1] = line[last] THEN 1 ELSE 0)
  BY DEF Differ
<1> HIDE DEF d, last, N
<1>5. CASE twins # {}
  <2> DEFINE t == Min(twins)
  <2>1. t \in twins /\ \A j \in twins : t <= j
    <3>1. twins \subseteq Nat
      BY <1>1, <1>2
    <3> HIDE DEF twins
    <3> QED BY <1>5, <3>1, MinIsLeast
  <2>2. d = t - 1 - i
    BY <1>4, <1>5
  <2> HIDE DEF t
  <2>3. /\ t \in Nat /\ i + 2 <= t /\ t <= last /\ line[t] = line[t - 1]
        /\ \A j \in i + 2 .. last : line[j] = line[j - 1] => t <= j
    BY <1>1, <1>2, <2>1
  <2>4. d \in 1 .. 255 /\ d <= N - i + 1
    BY <1>1, <1>2, <2>2, <2>3
  <2>5. ASSUME NEW k \in i .. N - 1, line[k] = line[k + 1] PROVE k >= i + d
    <3>1. k # i /\ k \in Nat
      BY <1>1, <1>3, <2>5
    <3> DEFINE j == k + 1
    <3>2. j \in Nat /\ j - 1 = k /\ j >= i + 2
      BY <1>1, <2>5, <3>1
    <3>3. line[j] = line[j - 1]
      BY <2>5, <3>2
    <3> HIDE DEF j
    <3>4. j <= last => t <= j
      <4> SUFFICES ASSUME j <= last PROVE t <= j
        OBVIOUS
      <4>1. j \in i + 2 .. last
        BY <1>1, <1>2, <3>2
      <4> QED BY <2>3, <3>3, <4>1
    <3> QED BY <1>1, <1>2, <2>2, <2>3, <3>1, <3>2, <3>4
  <2>6. ~(\A k \in i .. N - 1 : line[k] # line[k + 1])
    <3> DEFINE k == t - 1
    <3>1. k \in i .. N - 1 /\ k + 1 = t
      BY <1>1, <1>2, <2>3
    <3> QED BY <2>3, <3>1
  <2> QED BY <2>4, <2>5, <2>6 DEF d, N
<1>6. CASE twins = {}
  <2>1. \A j \in i + 2 .. last : line[j] # line[j - 1]
    BY <1>6
  <2>2. d = last + 1 - i - (IF last < N /\ line[last + 1] = line[last] THEN 1 ELSE 0)
    BY <1>4, <1>6
  <2> HIDE DEF twins
  <2>3. d \in 1 .. 255 /\ d <= N - i + 1
    BY <1>1, <1>2, <2>2
  <2>4. ASSUME NEW k \in i .. N - 1, line[k] = line[k + 1] PROVE k >= i + d
    <3>1. k # i /\ k \in Nat
      BY <1>1, <1>3, <2>4
    <3>2. CASE k < last
      <4> DEFINE j == k + 1
      <4>1. j - 1 = k /\ j \in i + 2 .. last
        BY <1>1, <1>2, <2>4, <3>1, <3>2
      <4>2. line[j] = line[j - 1]
        BY <2>4, <4>1
      <4> HIDE DEF j
      <4> QED BY <2>1, <4>1, <4>2
    <3>3. CASE k = last
      <4>1. last < N /\ line[last + 1] = line[last]
        BY <1>1, <1>2, <2>4, <3>3
      <4> QED BY <1>1, <1>2, <2>2, <3>3, <4>1
    <3>4. CASE k > last
      BY <1>1, <1>2, <2>2, <3>1, <3>4
    <3> QED BY <1>1, <1>2, <3>1, <3>2, <3>3, <3>4
  <2>5. ASSUME \A k \in i .. N - 1 : line[k] # line[k + 1]
        PROVE  d = 255 \/ d = N - i + 1
    <3>1. ~(last < N /\ line[last + 1] = line[last])
      <4> SUFFICES ASSUME last < N PROVE line[last] # line[last + 1]
        OBVIOUS
      <4>1. last \in i .. N - 1
        BY <1>1, <1>2
      <4> QED BY <2>5, <4>1
    <3> QED BY <1>1, <1>2, <2>2, <3>1
  <2> QED BY <2>3, <2>4, <2>5 DEF d, N
<1> QED BY <1>5, <1>6

(* What iBMPEncodeScanLine takes next.                                     *)
LEMMA BMPPacketIs ==
  ASSUME NEW line, NEW i, NEW run, run = RunAt(line, i, 255), NEW d, d = Differ(line, i),
         NEW v, v = line[i]
  PROVE  BMPPacket(line, i) =
           IF i = Len(line) THEN Codes(<<1, v>>, 1)
           ELSE IF run > 1 THEN Codes(<<run, v>>, run)
           ELSE IF d < 3
           THEN Codes([k \in 1 .. 2 * d |-> IF k % 2 = 1 THEN 1 ELSE line[i + (k \div 2) - 1]], d)
           ELSE Codes(<<0, d>> \o SubSeq(line, i, i + d - 1) \o Repeat(0, d % 2), d)
BY DEF BMPPacket

LEMMA BMPGood ==
  ASSUME NEW c \in Coding, c.driver = "BMP", NEW i \in 1 .. Len(c.line)
  PROVE  Good(c, i - 1, BMPPacket(c.line, i), Len(c.line) - i + 1, 1)
<1> DEFINE L == c.line
           v == L[i]
           run == RunAt(L, i, 255)
           d == Differ(L, i)
           P == BMPPacket(L, i)
           have == i - 1
           N == Len(L)
<1>1. L \in Seq(Octet) /\ N \in Nat /\ i \in 1 .. N /\ i \in Nat /\ \A k \in 1 .. N : L[k] \in Octet
  BY CodingIs
<1>2. /\ run \in 1 .. 255 /\ run <= N - i + 1 /\ Spells(Repeat(v, run), L, have) /\ v \in Octet
      /\ RunIs(L, i, 255, run)
  <2> DEFINE most == 255
  <2>1. most \in Nat \ {0} /\ run = RunAt(c.line, i, most)
    OBVIOUS
  <2> HIDE DEF most, run
  <2>2. /\ run \in 1 .. most /\ run <= Len(c.line) - i + 1
        /\ Spells(Repeat(c.line[i], run), c.line, i - 1) /\ c.line[i] \in Octet
    BY <2>1, RunSpells
  <2>3. RunIs(L, i, most, run)
    BY <1>1, <2>1, RunAtIs
  <2> QED BY <2>2, <2>3 DEF most
<1>3. have \in Nat /\ N - i + 1 \in Nat
  BY <1>1
(* A byte by itself, as the coding has it.                                 *)
<1>4. ASSUME NEW h \in Nat, h < N PROVE Sound(c, h, <<1, L[h + 1]>>, 1)
  <2> DEFINE w == L[h + 1]  one == 1
  <2>1. w \in Octet
    <3>1. h + 1 \in 1 .. N
      BY <1>1, <1>4
    <3> QED BY <1>1, <3>1
  <2>2. Repeat(w, one) = <<w>> /\ one \in 1 .. 255
    BY DEF Repeat
  <2> HIDE DEF w
  <2>3. Spells(Repeat(w, one), L, h)
    <3>1. Len(<<w>>) = 1 /\ <<w>>[1] = w /\ w = L[h + 1]
      BY DEF w
    <3>2. Spells(<<w>>, L, h)
      BY <1>1, <1>4, <3>1 DEF Spells
    <3> QED BY <2>2, <3>2
  <2> HIDE DEF one
  <2>4. Sound(c, h, <<one, w>>, one)
    BY <2>1, <2>2, <2>3, BMPRun
  <2> QED BY <2>4 DEF one, w
<1>9. P = IF i = N THEN Codes(<<1, v>>, 1)
          ELSE IF run > 1 THEN Codes(<<run, v>>, run)
          ELSE IF d < 3
          THEN Codes([k \in 1 .. 2 * d |-> IF k % 2 = 1 THEN 1 ELSE L[i + (k \div 2) - 1]], d)
          ELSE Codes(<<0, d>> \o SubSeq(L, i, i + d - 1) \o Repeat(0, d % 2), d)
  <2> HIDE DEF run, d, v, L
  <2> QED BY BMPPacketIs DEF run, d, v
<1> HIDE DEF run, d, P, N
<1>5. CASE i = N
  <2>1. P.takes = 1 /\ P.codes = <<1, v>>
    BY <1>5, <1>9 DEF Codes
  <2>2. Sound(c, have, <<1, v>>, 1)
    <3>1. L[have + 1] = v
      BY <1>1
    <3>2. have < N
      BY <1>1
    <3> HIDE DEF have, v
    <3> QED BY <1>3, <1>4, <3>1, <3>2
  <2>3. P.takes \in 1 .. N - i + 1
    BY <1>1, <1>5, <2>1
  <2>4. P.codes \in Seq(Octet) /\ Len(P.codes) <= 2 * P.takes
    BY <1>2, <2>1 DEF Octet
  <2>5. Sound(c, i - 1, P.codes, P.takes)
    BY <2>1, <2>2
  <2> QED BY <1>3, <2>3, <2>4, <2>5, GoodIs DEF P, N
<1>6. CASE i # N /\ run > 1
  <2>1. P.takes = run /\ P.codes = <<run, v>>
    BY <1>6, <1>9 DEF Codes
  <2>2. Sound(c, have, <<run, v>>, run)
    BY <1>2, BMPRun
  <2>3. P.takes \in 1 .. N - i + 1
    BY <1>1, <1>2, <2>1
  <2>4. P.codes \in Seq(Octet) /\ Len(P.codes) <= 2 * P.takes
    BY <1>2, <1>6, <2>1 DEF Octet
  <2>5. Sound(c, i - 1, P.codes, P.takes)
    BY <2>1, <2>2
  <2> QED BY <1>3, <2>3, <2>4, <2>5, GoodIs DEF P, N
<1>7. CASE i # N /\ run = 1
  <2>0. i < N
    BY <1>1, <1>7
  <2>1. d \in 1 .. 255 /\ d <= N - i + 1
    <3>1. RunIs(L, i, 255, 1)
      BY <1>2, <1>7
    <3> QED BY <1>1, <2>0, <3>1, DifferIs DEF d, N
  <2>2. CASE d < 3
    <3> DEFINE pairs == [k \in 1 .. 2 * d |-> IF k % 2 = 1 THEN 1 ELSE L[i + (k \div 2) - 1]]
    <3>1. P.takes = d /\ P.codes = pairs
      BY <1>7, <1>9, <2>2 DEF Codes
    <3> DEFINE a == <<1, L[have + 1]>>  b == <<1, L[(have + 1) + 1]>>
    <3>2. Sound(c, have, a, 1)
      <4>1. have < N
        BY <1>1
      <4> HIDE DEF have
      <4> QED BY <1>3, <1>4, <4>1
    <3>3. L[have + 1] \in Octet /\ a \in Seq(Octet)
      <4>1. have + 1 = i
        BY <1>1
      <4>2. 1 \in Octet
        BY DEF Octet
      <4> QED BY <1>2, <4>1, <4>2
    <3>4. /\ Sound(c, have, pairs, d) /\ pairs \in Seq(Octet) /\ Len(pairs) = 2 * d
      <4>1. CASE d = 1
        <5>1. pairs = a
          BY <1>1, <4>1
        <5> HIDE DEF pairs
        <5> QED BY <3>2, <3>3, <4>1, <5>1
      <4>2. CASE d = 2
        <5> DEFINE then == have + 1  one == 1
        <5>1. then \in Nat /\ then < N
          BY <1>1, <2>0
        <5>2. L[then + 1] \in Octet
          <6>1. then + 1 \in 1 .. N
            BY <5>1, <1>1
          <6> QED BY <1>1, <6>1
        <5>3. b \in Seq(Octet)
          BY <5>2 DEF Octet
        <5>4. pairs = a \o b
          BY <4>2
        <5> HIDE DEF then
        <5>5. Sound(c, then, <<1, L[then + 1]>>, 1)
          BY <1>4, <5>1
        <5>6. Sound(c, have + one, b, one) /\ Sound(c, have, a, one) /\ one \in Nat
          BY <3>2, <5>5 DEF then
        <5> HIDE DEF one, a, b, pairs, have
        <5>7. Sound(c, have, a \o b, one + one)
          BY <1>3, <3>3, <5>3, <5>6, SoundBoth
        <5>8. Len(a \o b) = Len(a) + Len(b) /\ Len(a) = 2 /\ Len(b) = 2 /\ a \o b \in Seq(Octet)
          BY <3>3, <5>3 DEF a, b
        <5> QED BY <4>2, <5>4, <5>7, <5>8 DEF one
      <4>3. d = 1 \/ d = 2
        BY <2>1, <2>2
      <4> HIDE DEF pairs
      <4> QED BY <4>1, <4>2, <4>3
    <3> HIDE DEF pairs
    <3>5. P.takes \in 1 .. N - i + 1
      BY <1>1, <2>1, <3>1
    <3>6. P.codes \in Seq(Octet) /\ Len(P.codes) <= 2 * P.takes
      BY <2>1, <3>1, <3>4
    <3>7. Sound(c, i - 1, P.codes, P.takes)
      BY <3>1, <3>4
    <3> QED BY <1>3, <3>5, <3>6, <3>7, GoodIs DEF P, N
  <2>3. CASE ~(d < 3)
    <3> DEFINE bytes == SubSeq(L, i, i + d - 1)
    <3>1. /\ bytes \in Seq(Octet) /\ Len(bytes) = d
          /\ \A k \in 1 .. d : bytes[k] = L[i + k - 1]
      <4> DEFINE e == i + d - 1
      <4>1. e \in Int /\ i \in Int /\ e - i + 1 = d /\ i <= e /\ \A k \in i .. e : k \in 1 .. N
        BY <1>1, <2>1
      <4>2. \A k \in i .. e : L[k] \in Octet
        BY <1>1, <4>1
      <4> HIDE DEF e
      <4>3. /\ SubSeq(L, i, e) \in Seq(Octet)
            /\ Len(SubSeq(L, i, e)) = IF i <= e THEN e - i + 1 ELSE 0
            /\ \A k \in 1 .. e - i + 1 : SubSeq(L, i, e)[k] = L[i + k - 1]
        BY <4>1, <4>2, SubSeqProperties
      <4> QED BY <4>1, <4>3 DEF e
    <3>2. P.takes = d /\ P.codes = <<0, d>> \o bytes \o Repeat(0, d % 2)
      <4> DEFINE coded == <<0, d>> \o SubSeq(L, i, i + d - 1) \o Repeat(0, d % 2)
      <4>1. ~(run > 1)
        BY <1>7
      <4> HIDE DEF coded
      <4>2. P = Codes(coded, d)
        BY <1>7, <1>9, <2>3, <4>1 DEF coded
      <4>3. P.takes = d /\ P.codes = coded
        BY <4>2 DEF Codes
      <4> QED BY <4>3 DEF coded
    <3> HIDE DEF bytes
    <3>3. P.codes = Stretch(bytes)
      BY <3>1, <3>2 DEF Stretch
    <3>4. Spells(bytes, L, have)
      <4>1. \A k \in 1 .. d : i + k - 1 = have + k
        BY <1>1
      <4> QED BY <1>1, <1>3, <2>1, <3>1, <4>1 DEF Spells, N
    <3>5. Len(bytes) \in 3 .. 255
      BY <2>1, <2>3, <3>1
    <3>6. Sound(c, have, Stretch(bytes), Len(bytes))
      BY <3>1, <3>4, <3>5, BMPStretch
    <3>7. P.takes \in 1 .. N - i + 1
      <4> HIDE DEF bytes
      <4>1. P.takes = d
        BY <3>2
      <4> QED BY <1>1, <2>1, <4>1
    <3>10. Stretch(bytes) \in Seq(Octet) /\ Len(Stretch(bytes)) = 2 + Len(bytes) + (Len(bytes) % 2)
      BY <3>1, <3>5, StretchIs
    <3>8. P.codes \in Seq(Octet) /\ Len(P.codes) <= 2 * P.takes
      <4> HIDE DEF bytes
      <4>1. Len(bytes) = d /\ P.takes = d
        BY <3>1, <3>2
      <4>2. 2 + d + (d % 2) <= 2 * d
        BY <2>1, <2>3
      <4> QED BY <3>3, <3>10, <4>1, <4>2
    <3>9. Sound(c, i - 1, P.codes, P.takes)
      BY <3>1, <3>2, <3>3, <3>6
    <3> QED BY <1>3, <3>7, <3>8, <3>9, GoodIs DEF P, N
  <2> QED BY <2>2, <2>3
<1>8. i = N \/ (i # N /\ run > 1) \/ (i # N /\ run = 1)
  BY <1>2
<1> QED BY <1>5, <1>6, <1>7, <1>8

(* Division with a rest, by any number.                                    *)
LEMMA DivMod ==
  ASSUME NEW n \in Nat \ {0}, NEW a \in Nat
  PROVE  /\ a \div n \in Nat /\ a % n \in 0 .. n - 1
         /\ a = (a \div n) * n + (a % n)
OBVIOUS

LEMMA DivModOf ==
  ASSUME NEW n \in Nat \ {0}, NEW q \in Nat, NEW r \in 0 .. n - 1
  PROVE  (q * n + r) \div n = q /\ (q * n + r) % n = r
OBVIOUS

LEMMA DivModIn ==
  ASSUME NEW n \in Nat \ {0}, NEW m \in Nat, NEW a \in Nat, a < m * n
  PROVE  a \div n \in 0 .. m - 1
OBVIOUS

LEMMA Within ==
  ASSUME NEW n \in Nat \ {0}, NEW m \in Nat, NEW q \in 0 .. m - 1, NEW r \in 0 .. n - 1
  PROVE  q * n + r \in 0 .. m * n - 1
OBVIOUS

LEMMA HeadIs ==
  ASSUME NEW v \in Octet, NEW s \in Seq(Octet)
  PROVE  /\ <<v>> \o s \in Seq(Octet) /\ Len(<<v>> \o s) = 1 + Len(s) /\ (<<v>> \o s)[1] = v
         /\ \A k \in 1 .. Len(s) : (<<v>> \o s)[1 + k] = s[k]
<1> DEFINE head == <<v>>  all == head \o s
<1>1. head \in Seq(Octet) /\ Len(head) = 1 /\ head[1] = v /\ Len(s) \in Nat
  OBVIOUS
<1> HIDE DEF head
<1>2. /\ all \in Seq(Octet) /\ Len(all) = Len(head) + Len(s)
      /\ \A k \in 1 .. Len(head) + Len(s) : all[k] = IF k <= Len(head) THEN head[k] ELSE s[k - Len(head)]
  BY <1>1, ConcatProperties
<1> HIDE DEF all
<1>3. all[1] = v
  <2>1. 1 \in 1 .. Len(head) + Len(s)
    BY <1>1
  <2> QED BY <1>1, <1>2, <2>1
<1>4. ASSUME NEW k \in 1 .. Len(s) PROVE all[1 + k] = s[k]
  <2> DEFINE j == 1 + k
  <2>1. j \in 1 .. Len(head) + Len(s) /\ ~(j <= Len(head)) /\ j - Len(head) = k
    BY <1>1
  <2> HIDE DEF j
  <2>2. all[j] = s[j - Len(head)]
    BY <1>2, <2>1
  <2> QED BY <2>1, <2>2 DEF j
<1> QED BY <1>1, <1>2, <1>3, <1>4 DEF all, head

(* A code of Targa is a head and behind it a pixel or some.                *)
LEMMA TGARun ==
  ASSUME NEW c \in Coding, c.driver = "TGA", NEW have, NEW pixel \in Seq(Octet),
         Len(pixel) = c.size, NEW count \in 1 .. 128, NEW bytes \in Seq(Octet),
         Len(bytes) = count * c.size,
         \A k \in 1 .. count * c.size : bytes[k] = pixel[((k - 1) % c.size) + 1],
         Spells(bytes, c.line, have)
  PROVE  Sound(c, have, <<127 + count>> \o pixel, count * c.size)
<1> DEFINE codes == <<127 + count>> \o pixel  F == Len(c.file)  n == c.size
           a(here) == ByteAt(c.file, here)
           Code(here) == CodeAt(c.driver, c.file, here, c.size)
           made(here) == [k \in 1 .. ((a(here) % 128) + 1) * n |-> ByteAt(c.file, here + 1 + ((k - 1) % n))]
<1>1. /\ c.file \in Seq(Octet) /\ F \in Nat /\ Len(c.line) \in Nat /\ n \in Nat \ {0}
  BY CodingIs
<1>2. /\ codes \in Seq(Octet) /\ Len(codes) = 1 + n /\ codes[1] = 127 + count
      /\ \A k \in 1 .. n : codes[1 + k] = pixel[k]
  <2> DEFINE v == 127 + count
  <2>1. v \in Octet
    BY DEF Octet
  <2> HIDE DEF v
  <2>2. /\ <<v>> \o pixel \in Seq(Octet) /\ Len(<<v>> \o pixel) = 1 + Len(pixel)
        /\ (<<v>> \o pixel)[1] = v /\ \A k \in 1 .. Len(pixel) : (<<v>> \o pixel)[1 + k] = pixel[k]
    BY <2>1, HeadIs
  <2> QED BY <2>2 DEF v
<1>3. \A here : Code(here) = IF a(here) >= 128 THEN Makes(made(here), here + 1 + n)
                           ELSE Makes(Slice(c.file, here + 1, ((a(here) % 128) + 1) * n),
                                      here + 1 + ((a(here) % 128) + 1) * n)
  BY DEF CodeAt, TGACode
<1> HIDE DEF codes, Code, F, n
<1>4. 127 + count >= 128 /\ ((127 + count) % 128) + 1 = count
  <2> DEFINE r == count - 1  most == 128  one == 1
  <2>1. r \in 0 .. most - 1 /\ most \in Nat \ {0} /\ one \in Nat
    OBVIOUS
  <2> HIDE DEF r, most, one
  <2>2. (one * most + r) % most = r
    BY <2>1, DivModOf
  <2>3. one * most + r = 127 + count /\ r + 1 = count
    BY DEF r, most, one
  <2>4. (127 + count) % 128 = r
    BY <2>2, <2>3 DEF most
  <2> QED BY <2>3, <2>4
<1>5. ASSUME NEW here, HasAt(c.file, here, codes) PROVE Code(here) = Makes(bytes, here + Len(codes))
  <2>0. here \in 1 .. F + 1 /\ here + (1 + n) <= F + 1
    BY <1>2, <1>5 DEF HasAt, F
  <2>1. \A k \in 1 .. 1 + n : c.file[here + k - 1] = codes[k]
    BY <1>2, <1>5 DEF HasAt
  <2>2. a(here) = 127 + count
    <3>1. 1 \in 1 .. 1 + n
      BY <1>1
    <3>2. c.file[here + 1 - 1] = 127 + count
      BY <1>2, <2>1, <3>1
    <3> QED BY <1>1, <2>0, <3>2 DEF ByteAt, F
  <2>3. ASSUME NEW k \in 1 .. n PROVE ByteAt(c.file, here + k) = pixel[k]
    <3> DEFINE j == 1 + k
    <3>1. j \in 1 .. 1 + n /\ here + j - 1 = here + k /\ here + k <= F /\ codes[j] = pixel[k]
      BY <1>1, <1>2, <2>0
    <3> HIDE DEF j
    <3>2. c.file[here + j - 1] = codes[j]
      BY <2>1, <3>1
    <3> QED BY <3>1, <3>2 DEF ByteAt, F
  <2>4. made(here) = [k \in 1 .. count * n |-> ByteAt(c.file, here + 1 + ((k - 1) % n))]
    BY <1>4, <2>2
  <2>5. ASSUME NEW k \in 1 .. count * n
        PROVE  ByteAt(c.file, here + 1 + ((k - 1) % n)) = bytes[k]
    <3> DEFINE j == ((k - 1) % n) + 1
    <3>1. k - 1 \in Nat
      BY <1>1
    <3>2. j \in 1 .. n
      <4>1. (k - 1) % n \in 0 .. n - 1
        BY <1>1, <3>1, DivMod
      <4> QED BY <1>1, <4>1
    <3>3. bytes[k] = pixel[j]
      BY DEF n
    <3>4. here + 1 + ((k - 1) % n) = here + j
      BY <1>1, <2>0, <3>2
    <3> HIDE DEF j
    <3>5. ByteAt(c.file, here + j) = pixel[j]
      BY <2>3, <3>2
    <3> QED BY <3>3, <3>4, <3>5
  <2>6. made(here) = bytes
    <3> DEFINE all == count * n
    <3>1. all \in Nat /\ Len(bytes) = all
      BY <1>1 DEF n
    <3>2. \A k \in 1 .. all : made(here)[k] = bytes[k]
      BY <2>4, <2>5
    <3>3. made(here) = [k \in 1 .. all |-> made(here)[k]]
      BY <2>4
    <3> HIDE DEF all, made
    <3>4. bytes = [k \in 1 .. all |-> bytes[k]]
      BY <3>1
    <3> QED BY <3>2, <3>3, <3>4
  <2>7. here + 1 + n = here + Len(codes)
    BY <1>1, <1>2, <2>0
  <2> QED BY <1>3, <1>4, <2>2, <2>6, <2>7
<1>6. ASSUME NEW here, EndsIn(c.file, here, codes) PROVE Code(here).next > F + 1
  <2>0. here \in 1 .. F + 1 /\ here + (1 + n) > F + 1
    BY <1>2, <1>6 DEF EndsIn, F
  <2>1. CASE here = F + 1
    <3>1. a(here) = 0
      BY <1>1, <2>1 DEF ByteAt, F
    <3>3. ((0 % 128) + 1) * n = n /\ ~(0 >= 128)
      BY <1>1
    <3>2. Code(here) = Makes(Slice(c.file, here + 1, n), here + 1 + n)
      BY <1>3, <3>1, <3>3
    <3> QED BY <1>1, <2>1, <3>2 DEF Makes
  <2>2. CASE here <= F
    <3>1. 1 \in 1 .. F + 1 - here
      BY <1>1, <2>0, <2>2
    <3>2. c.file[here + 1 - 1] = 127 + count
      BY <1>2, <1>6, <3>1 DEF EndsIn, F
    <3>3. a(here) = 127 + count
      BY <1>1, <2>0, <2>2, <3>2 DEF ByteAt, F
    <3>4. Code(here) = Makes(made(here), here + 1 + n)
      BY <1>3, <1>4, <3>3
    <3> QED BY <1>1, <2>0, <3>4 DEF Makes
  <2> QED BY <1>1, <2>0, <2>1, <2>2
<1>7. Known(c, codes, bytes)
  BY <1>5, <1>6 DEF Known, Code, F
<1>8. have < Len(c.line)
  <2>1. have \in Nat /\ have + count * n <= Len(c.line)
    BY DEF Spells, n
  <2>2. count * n >= 1
    BY <1>1
  <2> QED BY <1>1, <2>1, <2>2
<1>9. Sound(c, have, codes, Len(bytes))
  BY <1>2, <1>7, <1>8, SoundCode
<1> QED BY <1>9 DEF codes, n

LEMMA TGACopied ==
  ASSUME NEW c \in Coding, c.driver = "TGA", NEW have, NEW count \in 1 .. 128,
         NEW bytes \in Seq(Octet), Len(bytes) = count * c.size, Spells(bytes, c.line, have)
  PROVE  Sound(c, have, <<count - 1>> \o bytes, count * c.size)
<1> DEFINE codes == <<count - 1>> \o bytes  F == Len(c.file)  n == c.size  all == count * n
           a(here) == ByteAt(c.file, here)
           Code(here) == CodeAt(c.driver, c.file, here, c.size)
<1>1. /\ c.file \in Seq(Octet) /\ F \in Nat /\ Len(c.line) \in Nat /\ n \in Nat \ {0}
  BY CodingIs
<1>0. all \in Nat /\ all >= 1 /\ all >= n /\ Len(bytes) = all
  BY <1>1
<1>2. /\ codes \in Seq(Octet) /\ Len(codes) = 1 + all /\ codes[1] = count - 1
      /\ \A k \in 1 .. all : codes[1 + k] = bytes[k]
  <2> DEFINE v == count - 1
  <2>1. v \in Octet
    BY DEF Octet
  <2> HIDE DEF v, all
  <2>2. /\ <<v>> \o bytes \in Seq(Octet) /\ Len(<<v>> \o bytes) = 1 + Len(bytes)
        /\ (<<v>> \o bytes)[1] = v /\ \A k \in 1 .. Len(bytes) : (<<v>> \o bytes)[1 + k] = bytes[k]
    BY <2>1, HeadIs
  <2> QED BY <1>0, <2>2 DEF v
<1>3. \A here : a(here) < 128 /\ a(here) \in Nat =>
        Code(here) = Makes(Slice(c.file, here + 1, (a(here) + 1) * n), here + 1 + (a(here) + 1) * n)
  <2> SUFFICES ASSUME NEW here, a(here) < 128, a(here) \in Nat
      PROVE Code(here) = Makes(Slice(c.file, here + 1, (a(here) + 1) * n), here + 1 + (a(here) + 1) * n)
    OBVIOUS
  <2>1. a(here) % 128 = a(here) /\ ~(a(here) >= 128)
    OBVIOUS
  <2> QED BY <2>1 DEF CodeAt, TGACode
<1>4. count - 1 < 128 /\ count - 1 \in Nat /\ (count - 1) + 1 = count
  OBVIOUS
<1> HIDE DEF codes, Code, F, n, all
<1>5. ASSUME NEW here, HasAt(c.file, here, codes) PROVE Code(here) = Makes(bytes, here + Len(codes))
  <2>0. here \in 1 .. F + 1 /\ here + (1 + all) <= F + 1
    BY <1>2, <1>5 DEF HasAt, F
  <2>1. \A k \in 1 .. 1 + all : c.file[here + k - 1] = codes[k]
    BY <1>2, <1>5 DEF HasAt
  <2>2. a(here) = count - 1
    <3>1. 1 \in 1 .. 1 + all
      BY <1>0
    <3>2. c.file[here + 1 - 1] = count - 1
      BY <1>2, <2>1, <3>1
    <3> QED BY <1>0, <1>1, <2>0, <3>2 DEF ByteAt, F
  <2>3. Code(here) = Makes(Slice(c.file, here + 1, all), here + 1 + all)
    <3>1. Code(here) = Makes(Slice(c.file, here + 1, (a(here) + 1) * n), here + 1 + (a(here) + 1) * n)
      BY <1>3, <1>4, <2>2
    <3>2. (a(here) + 1) * n = all
      BY <1>4, <2>2 DEF all
    <3> QED BY <3>1, <3>2
  <2>4. Slice(c.file, here + 1, all) = bytes
    <3> DEFINE s == Slice(c.file, here + 1, all)
    <3>1. here + 1 \in Nat \ {0}
      BY <1>1, <2>0
    <3>2. s \in Seq(Octet) /\ Len(s) = all
      BY <1>0, <1>1, <3>1, SliceIs
    <3>3. ASSUME NEW k \in 1 .. all PROVE s[k] = bytes[k]
      <4>1. s[k] = ByteAt(c.file, here + 1 + k - 1)
        BY DEF Slice
      <4> DEFINE j == 1 + k
      <4>2. j \in 1 .. 1 + all /\ here + 1 + k - 1 = here + j - 1 /\ here + j - 1 <= F
        BY <1>0, <1>1, <2>0
      <4>3. codes[j] = bytes[k]
        BY <1>2
      <4> HIDE DEF j
      <4>4. c.file[here + j - 1] = codes[j]
        BY <2>1, <4>2
      <4> QED BY <4>1, <4>2, <4>3, <4>4 DEF ByteAt, F
    <3> HIDE DEF s
    <3> QED BY <1>0, <3>2, <3>3, SeqEqual DEF s
  <2>5. here + 1 + all = here + Len(codes)
    BY <1>0, <1>2, <2>0
  <2> QED BY <2>3, <2>4, <2>5
<1>6. ASSUME NEW here, EndsIn(c.file, here, codes) PROVE Code(here).next > F + 1
  <2>0. here \in 1 .. F + 1 /\ here + (1 + all) > F + 1
    BY <1>2, <1>6 DEF EndsIn, F
  <2>1. CASE here = F + 1
    <3>1. a(here) = 0
      BY <1>1, <2>1 DEF ByteAt, F
    <3>2. Code(here).next = here + 1 + (0 + 1) * n
      BY <1>3, <3>1 DEF Makes
    <3>3. (0 + 1) * n = n
      BY <1>1
    <3> QED BY <1>1, <2>1, <3>2, <3>3
  <2>2. CASE here <= F
    <3>1. 1 \in 1 .. F + 1 - here
      BY <1>1, <2>0, <2>2
    <3>2. c.file[here + 1 - 1] = count - 1
      BY <1>2, <1>6, <3>1 DEF EndsIn, F
    <3>3. a(here) = count - 1
      BY <1>1, <2>0, <2>2, <3>2 DEF ByteAt, F
    <3>4. Code(here).next = here + 1 + (a(here) + 1) * n
      BY <1>3, <1>4, <3>3 DEF Makes
    <3>5. (a(here) + 1) * n = all
      BY <1>4, <3>3 DEF all
    <3>6. Code(here).next = here + 1 + all
      BY <3>4, <3>5
    <3> QED BY <1>0, <1>1, <2>0, <3>6
  <2> QED BY <1>1, <2>0, <2>1, <2>2
<1>7. Known(c, codes, bytes)
  BY <1>5, <1>6 DEF Known, Code, F
<1>8. have < Len(c.line)
  <2>1. have \in Nat /\ have + all <= Len(c.line)
    BY <1>0 DEF Spells
  <2> QED BY <1>0, <1>1, <2>1
<1>9. Sound(c, have, codes, Len(bytes))
  BY <1>2, <1>7, <1>8, SoundCode
<1> QED BY <1>0, <1>9 DEF codes, n, all

(* A line as pixels of n bytes.                                            *)
PixelsOf(line, pixels, n) ==
  /\ n \in Nat \ {0} /\ Len(pixels) \in Nat /\ Len(line) = Len(pixels) * n
  /\ \A x \in 1 .. Len(pixels) : pixels[x] \in Seq(Octet) /\ Len(pixels[x]) = n
  /\ \A x \in 1 .. Len(pixels), k \in 1 .. n : line[(x - 1) * n + k] = pixels[x][k]

(* m of them from the i-th on, byte by byte.                               *)
BytesOf(line, pixels, n, i, m) ==
  /\ (i - 1) * n \in Nat /\ m * n \in Nat /\ (i - 1) * n + m * n <= Len(line)
  /\ \A k \in 1 .. m * n :
       /\ i + (k - 1) \div n \in i .. i + m - 1 /\ i + (k - 1) \div n \in 1 .. Len(pixels)
       /\ ((k - 1) % n) + 1 \in 1 .. n
       /\ line[(i - 1) * n + k] = pixels[i + (k - 1) \div n][((k - 1) % n) + 1]

LEMMA PixelBytes ==
  ASSUME NEW line, NEW pixels, NEW n, PixelsOf(line, pixels, n),
         NEW i \in 1 .. Len(pixels), NEW m \in 1 .. Len(pixels) - i + 1
  PROVE  BytesOf(line, pixels, n, i, m)
<1>1. /\ n \in Nat \ {0} /\ Len(pixels) \in Nat /\ Len(line) = Len(pixels) * n
      /\ i \in Nat /\ i >= 1 /\ m \in Nat /\ m >= 1 /\ i + m - 1 <= Len(pixels)
  BY DEF PixelsOf
<1>2. (i - 1) * n \in Nat /\ m * n \in Nat /\ (i - 1) * n + m * n <= Len(line)
  <2>1. (i - 1) * n + m * n = (i + m - 1) * n
    BY <1>1
  <2>2. (i + m - 1) * n <= Len(pixels) * n
    <3> DEFINE e == i + m - 1  N == Len(pixels)
    <3>1. e \in Nat /\ N \in Nat /\ e <= N
      BY <1>1
    <3> HIDE DEF e, N
    <3>2. e * n <= N * n
      BY <1>1, <3>1
    <3> QED BY <3>2 DEF e, N
  <2>3. (i - 1) * n \in Nat /\ m * n \in Nat
    BY <1>1
  <2> QED BY <1>1, <2>1, <2>2, <2>3
<1>3. ASSUME NEW k \in 1 .. m * n
      PROVE  /\ i + (k - 1) \div n \in i .. i + m - 1 /\ i + (k - 1) \div n \in 1 .. Len(pixels)
             /\ ((k - 1) % n) + 1 \in 1 .. n
             /\ line[(i - 1) * n + k] = pixels[i + (k - 1) \div n][((k - 1) % n) + 1]
  <2> DEFINE a == k - 1  q == (k - 1) \div n  r == (k - 1) % n  x == i + q
  <2>1. a \in Nat /\ a < m * n /\ k = a + 1
    BY <1>2
  <2>2. q \in Nat /\ r \in 0 .. n - 1 /\ a = q * n + r
    <3> HIDE DEF a
    <3>1. a \div n \in Nat /\ a % n \in 0 .. n - 1 /\ a = (a \div n) * n + (a % n)
      BY <1>1, <2>1, DivMod
    <3> QED BY <3>1 DEF a
  <2>3. q \in 0 .. m - 1
    <3> HIDE DEF a
    <3>1. a \div n \in 0 .. m - 1
      BY <1>1, <2>1, DivModIn
    <3> QED BY <3>1 DEF a
  <2> HIDE DEF a, q, r
  <2>4. x \in i .. i + m - 1 /\ x \in 1 .. Len(pixels) /\ r + 1 \in 1 .. n
    BY <1>1, <2>2, <2>3
  <2>5. line[(x - 1) * n + (r + 1)] = pixels[x][r + 1]
    <3> DEFINE s == r + 1
    <3>1. s \in 1 .. n
      BY <2>4
    <3> HIDE DEF s, x
    <3>2. line[(x - 1) * n + s] = pixels[x][s]
      BY <2>4, <3>1 DEF PixelsOf
    <3> QED BY <3>2 DEF s
  <2>6. (x - 1) * n + (r + 1) = (i - 1) * n + k
    <3>1. (x - 1) * n = (i - 1) * n + q * n
      BY <1>1, <2>2
    <3>2. q * n \in Nat /\ (i - 1) * n \in Nat
      BY <1>1, <2>2
    <3> DEFINE u == (x - 1) * n  v == (i - 1) * n  w == q * n
    <3>3. u = v + w /\ v \in Nat /\ w \in Nat /\ k = w + r + 1 /\ r \in Nat
      BY <1>1, <2>1, <2>2, <3>1, <3>2
    <3> HIDE DEF u, v, w
    <3>4. u + (r + 1) = v + k
      BY <3>3
    <3> QED BY <3>4 DEF u, v
  <2> QED BY <2>4, <2>5, <2>6 DEF q, r
<1> QED BY <1>2, <1>3 DEF BytesOf

LEMMA TGAGood ==
  ASSUME NEW c \in Coding, c.driver = "TGA", NEW pixels, PixelsOf(c.line, pixels, c.size),
         NEW i \in 1 .. Len(pixels)
  PROVE  Good(c, (i - 1) * c.size, TGAPacket(pixels, i), Len(pixels) - i + 1, c.size)
<1> DEFINE n == c.size  N == Len(pixels)  have == (i - 1) * n
           count == RunAt(pixels, i, 128)
           room == Min({128, N - i})
           twins == {j \in 1 .. room - 1 : pixels[i + j] = pixels[i + j + 1]}
           stretch == IF twins = {} THEN Max({1, room}) ELSE Min(twins)
           flat == Flat(pixels, i, stretch)
           P == TGAPacket(pixels, i)
<1>1. /\ c.file \in Seq(Octet) /\ Len(c.line) \in Nat /\ n \in Nat \ {0} /\ N \in Nat
      /\ i \in Nat /\ i >= 1 /\ i <= N /\ N - i + 1 \in Nat
  BY CodingIs DEF PixelsOf
<1>2. RunIs(pixels, i, 128, count)
  <2> DEFINE most == 128
  <2>1. most \in Nat \ {0} /\ N \in Nat
    BY <1>1
  <2> HIDE DEF most
  <2>2. RunIs(pixels, i, most, RunAt(pixels, i, most))
    BY <2>1, RunAtIs
  <2> QED BY <2>2 DEF most
<1>3. count \in 1 .. 128 /\ count <= N - i + 1
  <2>1. count \in 1 .. 128 /\ i + count - 1 <= N
    BY <1>2 DEF RunIs
  <2> HIDE DEF count
  <2> QED BY <1>1, <2>1
<1>4. stretch \in 1 .. 128 /\ stretch <= N - i + 1
  <2>1. room = IF 128 <= N - i THEN 128 ELSE N - i
    <3>1. 128 \in Int /\ N - i \in Int
      BY <1>1
    <3> QED BY <3>1, MinOfTwo
  <2> HIDE DEF room
  <2>0. N - i \in Nat /\ N - i + 1 = (N - i) + 1
    BY <1>1
  <2>2. room \in 0 .. 128 /\ room <= N - i
    <3> DEFINE rest == N - i
    <3>1. rest \in Nat /\ room = IF 128 <= rest THEN 128 ELSE rest
      BY <2>0, <2>1
    <3> HIDE DEF rest, N
    <3>2. room \in 0 .. 128 /\ room <= rest
      BY <3>1
    <3> QED BY <3>2 DEF rest
  <2>3. CASE twins = {}
    <3>1. Max({1, room}) = IF 1 <= room THEN room ELSE 1
      BY <2>2, MaxOfTwo
    <3>2. stretch = IF 1 <= room THEN room ELSE 1
      BY <2>3, <3>1
    <3> HIDE DEF stretch
    <3> QED BY <1>1, <2>2, <3>2
  <2>4. CASE twins # {}
    <3>1. twins \subseteq Nat /\ twins \subseteq 1 .. room - 1
      BY <2>2
    <3>2. stretch = Min(twins)
      BY <2>4
    <3> HIDE DEF twins, stretch
    <3>3. Min(twins) \in twins
      BY <2>4, <3>1, MinIsLeast
    <3>4. stretch \in 1 .. room - 1
      BY <3>1, <3>2, <3>3
    <3> QED BY <1>1, <2>0, <2>2, <3>4
  <2> QED BY <2>3, <2>4
<1>5. P = IF count > 1 THEN Codes(<<128 + count - 1>> \o pixels[i], count)
          ELSE Codes(<<stretch - 1>> \o flat, stretch)
  BY DEF TGAPacket
<1>6. pixels[i] \in Seq(Octet) /\ Len(pixels[i]) = n
  BY DEF PixelsOf
<1> HIDE DEF n, N, have, count, room, twins, stretch, flat, P
<1>7. CASE count > 1
  <2> DEFINE bytes == [k \in 1 .. count * n |-> pixels[i][((k - 1) % n) + 1]]
             codes == <<127 + count>> \o pixels[i]
  <2>1. /\ have \in Nat /\ count * n \in Nat /\ have + count * n <= Len(c.line)
        /\ \A k \in 1 .. count * n :
             /\ i + (k - 1) \div n \in i .. i + count - 1
             /\ ((k - 1) % n) + 1 \in 1 .. n
             /\ c.line[have + k] = pixels[i + (k - 1) \div n][((k - 1) % n) + 1]
    <3>2. count \in 1 .. N - i + 1
      BY <1>1, <1>3
    <3>1. PixelsOf(c.line, pixels, n) /\ count \in 1 .. Len(pixels) - i + 1
      BY <3>2 DEF n, N
    <3>3. BytesOf(c.line, pixels, n, i, count)
      BY <1>1, <3>1, PixelBytes
    <3> QED BY <3>3 DEF BytesOf, have
  <2>2. bytes \in Seq(Octet) /\ Len(bytes) = count * n
    <3>1. \A k \in 1 .. n : pixels[i][k] \in Octet
      BY <1>6
    <3>2. \A k \in 1 .. count * n : pixels[i][((k - 1) % n) + 1] \in Octet
      BY <2>1, <3>1
    <3> DEFINE all == count * n
    <3>3. all \in Nat /\ \A k \in 1 .. all : pixels[i][((k - 1) % n) + 1] \in Octet
      BY <2>1, <3>2
    <3> HIDE DEF all
    <3>4. [k \in 1 .. all |-> pixels[i][((k - 1) % n) + 1]] \in Seq(Octet)
      BY <3>3
    <3>5. Len([k \in 1 .. all |-> pixels[i][((k - 1) % n) + 1]]) = all
      BY <3>3
    <3> QED BY <3>4, <3>5 DEF all
  <2>3. \A k \in 1 .. count * n : bytes[k] = c.line[have + k]
    <3> SUFFICES ASSUME NEW k \in 1 .. count * n PROVE bytes[k] = c.line[have + k]
      OBVIOUS
    <3>1. pixels[i + (k - 1) \div n] = pixels[i]
      BY <1>2, <2>1 DEF RunIs
    <3> QED BY <2>1, <3>1
  <2>4. \A k \in 1 .. count * n : bytes[k] = pixels[i][((k - 1) % n) + 1]
    OBVIOUS
  <2> HIDE DEF bytes
  <2>5. Spells(bytes, c.line, have)
    BY <2>1, <2>2, <2>3 DEF Spells
  <2>6. Sound(c, have, codes, count * n)
    BY <1>3, <1>6, <2>2, <2>4, <2>5, TGARun DEF n
  <2>7. P.takes = count /\ P.codes = codes
    <3>1. 128 + count - 1 = 127 + count
      BY <1>3
    <3> QED BY <1>5, <1>7, <3>1 DEF Codes
  <2>8. codes \in Seq(Octet) /\ Len(codes) = 1 + n
    <3> DEFINE v == 127 + count
    <3>1. v \in Octet
      BY <1>3 DEF Octet
    <3> HIDE DEF v
    <3>2. <<v>> \o pixels[i] \in Seq(Octet) /\ Len(<<v>> \o pixels[i]) = 1 + Len(pixels[i])
      BY <1>6, <3>1, HeadIs
    <3> QED BY <1>6, <3>2 DEF v
  <2>9. 1 + n <= 2 * (count * n)
    BY <1>1, <1>3
  <2> HIDE DEF codes
  <2>10. count \in 1 .. N - i + 1
    BY <1>1, <1>3
  <2>11. Good(c, have, P, N - i + 1, n)
    BY <2>6, <2>7, <2>8, <2>9, <2>10 DEF Good
  <2> QED BY <2>11 DEF have, P, N, n
<1>8. CASE ~(count > 1)
  <2> DEFINE codes == <<stretch - 1>> \o flat
  <2>1. /\ have \in Nat /\ stretch * n \in Nat /\ have + stretch * n <= Len(c.line)
        /\ \A k \in 1 .. stretch * n :
             /\ i + (k - 1) \div n \in 1 .. N
             /\ ((k - 1) % n) + 1 \in 1 .. n
             /\ c.line[have + k] = pixels[i + (k - 1) \div n][((k - 1) % n) + 1]
    <3>1. PixelsOf(c.line, pixels, n) /\ stretch \in 1 .. Len(pixels) - i + 1
      BY <1>1, <1>4 DEF n, N
    <3>2. BytesOf(c.line, pixels, n, i, stretch)
      BY <1>1, <3>1, PixelBytes
    <3> QED BY <3>2 DEF BytesOf, have, N
  <2> DEFINE all == stretch * n
  <2>2. flat = [k \in 1 .. all |-> pixels[i + (k - 1) \div n][((k - 1) % n) + 1]]
    BY <1>6 DEF flat, Flat
  <2>3. \A k \in 1 .. all : c.line[have + k] \in Octet
    <3> SUFFICES ASSUME NEW k \in 1 .. all PROVE c.line[have + k] \in Octet
      OBVIOUS
    <3>1. have + k \in 1 .. Len(c.line)
      BY <1>1, <2>1
    <3> QED BY <3>1, CodingIs
  <2>4. flat \in Seq(Octet) /\ Len(flat) = all /\ \A k \in 1 .. all : flat[k] = c.line[have + k]
    <3>1. all \in Nat
      BY <2>1
    <3>2. \A k \in 1 .. all : flat[k] = c.line[have + k]
      BY <2>1, <2>2
    <3>3. flat = [k \in 1 .. all |-> flat[k]]
      BY <2>2
    <3> HIDE DEF all
    <3> QED BY <2>3, <3>1, <3>2, <3>3
  <2>5. Spells(flat, c.line, have)
    BY <2>1, <2>4 DEF Spells
  <2>6. Sound(c, have, codes, stretch * n)
    BY <1>4, <2>4, <2>5, TGACopied DEF n
  <2>7. P.takes = stretch /\ P.codes = codes
    BY <1>5, <1>8 DEF Codes
  <2>8. codes \in Seq(Octet) /\ Len(codes) = 1 + stretch * n
    <3> DEFINE v == stretch - 1
    <3>1. v \in Octet
      BY <1>4 DEF Octet
    <3> HIDE DEF v
    <3>2. <<v>> \o flat \in Seq(Octet) /\ Len(<<v>> \o flat) = 1 + Len(flat)
      BY <2>4, <3>1, HeadIs
    <3> QED BY <2>4, <3>2 DEF v
  <2>9. 1 + stretch * n <= 2 * (stretch * n)
    BY <1>1, <1>4
  <2> HIDE DEF codes
  <2>10. stretch \in 1 .. N - i + 1
    BY <1>1, <1>4
  <2>11. Good(c, have, P, N - i + 1, n)
    BY <2>6, <2>7, <2>8, <2>9, <2>10 DEF Good
  <2> QED BY <2>11 DEF have, P, N, n
<1> QED BY <1>7, <1>8

(* SGI: a count behind which the bytes are copied, or one of a run.        *)
LEMMA SGIChunk ==
  ASSUME NEW c \in Coding, c.driver = "SGI", NEW have, NEW bytes \in Seq(Octet),
         Len(bytes) \in 1 .. 126, Spells(bytes, c.line, have)
  PROVE  Sound(c, have, <<128 + Len(bytes)>> \o bytes, Len(bytes))
<1> DEFINE m == Len(bytes)  codes == <<128 + m>> \o bytes  F == Len(c.file)
           a(here) == ByteAt(c.file, here)
           Code(here) == CodeAt(c.driver, c.file, here, c.size)
<1>1. /\ c.file \in Seq(Octet) /\ F \in Nat /\ Len(c.line) \in Nat
  BY CodingIs
<1>0. m \in Nat /\ m >= 1 /\ m <= 126
  <2>1. m \in 1 .. 126
    OBVIOUS
  <2> HIDE DEF m, codes, Code, F
  <2> QED BY <2>1
<1>2. /\ codes \in Seq(Octet) /\ Len(codes) = 1 + m /\ codes[1] = 128 + m
      /\ \A k \in 1 .. m : codes[1 + k] = bytes[k]
  <2> DEFINE v == 128 + m
  <2>1. v \in Octet
    <3> HIDE DEF m
    <3> QED BY <1>0 DEF Octet
  <2> HIDE DEF v
  <2>2. /\ <<v>> \o bytes \in Seq(Octet) /\ Len(<<v>> \o bytes) = 1 + Len(bytes)
        /\ (<<v>> \o bytes)[1] = v /\ \A k \in 1 .. Len(bytes) : (<<v>> \o bytes)[1 + k] = bytes[k]
    BY <2>1, HeadIs
  <2> QED BY <2>2 DEF v
<1>3. \A here : Code(here) = IF a(here) % 128 = 0 THEN [Makes(<<>>, here + 1) EXCEPT !.ends = TRUE]
                           ELSE IF a(here) >= 128
                           THEN Makes(Slice(c.file, here + 1, a(here) % 128), here + 1 + (a(here) % 128))
                           ELSE Makes(Repeat(a(here + 1), a(here) % 128), here + 2)
  BY DEF CodeAt, SGICode
<1> HIDE DEF codes, Code, F, m
<1>4. (128 + m) % 128 = m /\ m # 0 /\ 128 + m >= 128
  <2> DEFINE most == 128  one == 1
  <2>1. m \in 0 .. most - 1 /\ most \in Nat \ {0} /\ one \in Nat
    BY <1>0
  <2> HIDE DEF most, one
  <2>2. (one * most + m) % most = m
    BY <2>1, DivModOf
  <2>3. one * most + m = 128 + m
    BY <1>0 DEF most, one
  <2> QED BY <1>0, <2>2, <2>3 DEF most
<1>10. \A here : a(here) = 128 + m => Code(here) = Makes(Slice(c.file, here + 1, m), here + 1 + m)
  BY <1>3, <1>4
<1>5. ASSUME NEW here, HasAt(c.file, here, codes) PROVE Code(here) = Makes(bytes, here + Len(codes))
  <2>0. here \in 1 .. F + 1 /\ here + (1 + m) <= F + 1
    BY <1>2, <1>5 DEF HasAt, F
  <2>1. \A k \in 1 .. 1 + m : c.file[here + k - 1] = codes[k]
    BY <1>2, <1>5 DEF HasAt
  <2>2. a(here) = 128 + m
    <3>1. 1 \in 1 .. 1 + m
      BY <1>0
    <3>2. c.file[here + 1 - 1] = 128 + m
      BY <1>2, <2>1, <3>1
    <3> QED BY <1>0, <1>1, <2>0, <3>2 DEF ByteAt, F
  <2>3. Code(here) = Makes(Slice(c.file, here + 1, m), here + 1 + m)
    BY <1>10, <2>2
  <2>4. Slice(c.file, here + 1, m) = bytes
    <3> DEFINE s == Slice(c.file, here + 1, m)
    <3>1. here + 1 \in Nat \ {0}
      BY <1>1, <2>0
    <3>2. s \in Seq(Octet) /\ Len(s) = m
      BY <1>0, <1>1, <3>1, SliceIs
    <3>3. ASSUME NEW k \in 1 .. m PROVE s[k] = bytes[k]
      <4>1. s[k] = ByteAt(c.file, here + 1 + k - 1)
        BY DEF Slice
      <4> DEFINE j == 1 + k
      <4>2. j \in 1 .. 1 + m /\ here + 1 + k - 1 = here + j - 1 /\ here + j - 1 <= F
        BY <1>0, <1>1, <2>0
      <4>3. codes[j] = bytes[k]
        BY <1>2
      <4> HIDE DEF j
      <4>4. c.file[here + j - 1] = codes[j]
        BY <2>1, <4>2
      <4> QED BY <4>1, <4>2, <4>3, <4>4 DEF ByteAt, F
    <3> HIDE DEF s
    <3> QED BY <1>0, <3>2, <3>3, SeqEqual DEF s, m
  <2>5. here + 1 + m = here + Len(codes)
    BY <1>0, <1>2, <2>0
  <2> QED BY <2>3, <2>4, <2>5
<1>6. ASSUME NEW here, EndsIn(c.file, here, codes) PROVE Code(here).next > F + 1
  <2>0. here \in 1 .. F + 1 /\ here + (1 + m) > F + 1
    BY <1>2, <1>6 DEF EndsIn, F
  <2>1. CASE here = F + 1
    <3>1. a(here) = 0 /\ 0 % 128 = 0
      BY <1>1, <2>1 DEF ByteAt, F
    <3>2. Code(here) = [Makes(<<>>, here + 1) EXCEPT !.ends = TRUE]
      BY <1>3, <3>1
    <3> QED BY <1>1, <2>1, <3>2 DEF Makes
  <2>2. CASE here <= F
    <3>1. 1 \in 1 .. F + 1 - here
      BY <1>1, <2>0, <2>2
    <3>2. c.file[here + 1 - 1] = 128 + m
      BY <1>2, <1>6, <3>1 DEF EndsIn, F
    <3>3. a(here) = 128 + m
      BY <1>1, <2>0, <2>2, <3>2 DEF ByteAt, F
    <3>4. Code(here).next = here + 1 + m
      BY <1>10, <3>3 DEF Makes
    <3> QED BY <1>0, <1>1, <2>0, <3>4
  <2> QED BY <1>1, <2>0, <2>1, <2>2
<1>7. Known(c, codes, bytes)
  BY <1>5, <1>6 DEF Known, Code, F
<1>8. have < Len(c.line)
  <2>1. have \in Nat /\ have + m <= Len(c.line)
    BY DEF Spells, m
  <2> QED BY <1>0, <1>1, <2>1
<1>9. Sound(c, have, codes, Len(bytes))
  BY <1>2, <1>7, <1>8, SoundCode
<1> QED BY <1>9 DEF codes, m

LEMMA SGIRepeat ==
  ASSUME NEW c \in Coding, c.driver = "SGI", NEW have, NEW v \in Octet, NEW m \in 1 .. 126,
         Spells(Repeat(v, m), c.line, have)
  PROVE  Sound(c, have, <<m, v>>, m)
<1> DEFINE bytes == Repeat(v, m)  codes == <<m, v>>  F == Len(c.file)
           a(here) == ByteAt(c.file, here)
           Code(here) == CodeAt(c.driver, c.file, here, c.size)
<1>1. /\ c.file \in Seq(Octet) /\ F \in Nat /\ Len(c.line) \in Nat
  BY CodingIs
<1>2. codes \in Seq(Octet) /\ Len(codes) = 2 /\ codes[1] = m /\ codes[2] = v
  BY DEF Octet
<1>3. bytes \in Seq(Octet) /\ Len(bytes) = m
  BY RepeatIs
<1>10. m % 128 = m /\ m # 0 /\ ~(m >= 128)
  OBVIOUS
<1>4. \A here : a(here) = m => Code(here) = Makes(Repeat(a(here + 1), m), here + 2)
  BY <1>10 DEF CodeAt, SGICode
<1>11. \A here : a(here) = 0 => Code(here).next = here + 1
  <2>1. 0 % 128 = 0
    OBVIOUS
  <2> QED BY <2>1 DEF CodeAt, SGICode, Makes
<1> HIDE DEF bytes, codes, Code, F
<1>5. ASSUME NEW here, HasAt(c.file, here, codes) PROVE Code(here) = Makes(bytes, here + 2)
  <2>1. a(here) = m /\ a(here + 1) = v
    BY <1>1, <1>2, <1>5 DEF HasAt, ByteAt, F
  <2> QED BY <1>4, <2>1 DEF bytes
<1>6. ASSUME NEW here, EndsIn(c.file, here, codes) PROVE Code(here).next > F + 1
  <2>0. here \in 1 .. F + 1 /\ here + 2 > F + 1
    BY <1>2, <1>6 DEF EndsIn, F
  <2>1. CASE here = F + 1
    <3>1. a(here) = 0
      BY <1>1, <2>1 DEF ByteAt, F
    <3> QED BY <1>1, <1>11, <2>1, <3>1
  <2>2. CASE here = F
    <3>1. a(here) = m
      BY <1>1, <1>2, <1>6, <2>2 DEF EndsIn, ByteAt, F
    <3>3. Code(here) = Makes(Repeat(a(here + 1), m), here + 2)
      BY <1>4, <3>1
    <3> QED BY <1>1, <2>2, <3>3 DEF Makes
  <2> QED BY <1>1, <2>0, <2>1, <2>2
<1>7. Known(c, codes, bytes)
  BY <1>2, <1>5, <1>6 DEF Known, Code, F
<1>8. Spells(bytes, c.line, have) /\ have < Len(c.line)
  <2>1. Spells(bytes, c.line, have)
    BY DEF bytes
  <2> QED BY <1>1, <1>3, <2>1 DEF Spells
<1>9. Sound(c, have, codes, Len(bytes))
  BY <1>2, <1>3, <1>7, <1>8, SoundCode
<1> QED BY <1>3, <1>9 DEF codes

(* Chunks: the first, and the rest.                                        *)
LEMMA ChunksOf ==
  ASSUME NEW n \in Nat
  PROVE  /\ Chunks(n) \in Nat /\ Chunks(n) <= n
         /\ n = 0 => Chunks(n) = 0
         /\ n \in 1 .. 126 => Chunks(n) = 1 /\ Chunk(n, 0) = n
         /\ n > 126 => Chunks(n) = 1 + Chunks(n - 126) /\ Chunk(n, 0) = 126
         /\ n > 1 => Chunks(n) < n
<1>1. \A k \in Int : Chunk(n, k) = IF n - 126 * k <= 126 THEN n - 126 * k ELSE 126
  <2> SUFFICES ASSUME NEW k \in Int PROVE Chunk(n, k) = IF n - 126 * k <= 126 THEN n - 126 * k ELSE 126
    OBVIOUS
  <2>1. n - 126 * k \in Int /\ 126 \in Int
    OBVIOUS
  <2> QED BY <2>1, MinOfTwo DEF Chunk
<1>2. 0 \in Int /\ n - 126 * 0 = n
  OBVIOUS
<1>3. /\ n \in 1 .. 126 => Chunk(n, 0) = n
      /\ n > 126 => Chunk(n, 0) = 126
  BY <1>1, <1>2
<1>4. /\ Chunks(n) \in Nat /\ Chunks(n) <= n
      /\ n = 0 => Chunks(n) = 0
      /\ n \in 1 .. 126 => Chunks(n) = 1
      /\ n > 126 => Chunks(n) = 1 + Chunks(n - 126)
      /\ n > 1 => Chunks(n) < n
  BY DEF Chunks
<1> QED BY <1>3, <1>4

LEMMA ChunkThen ==
  ASSUME NEW n \in Nat, n > 126, NEW k \in Nat, k >= 1
  PROVE  Chunk(n, k) = Chunk(n - 126, k - 1)
<1>1. n - 126 * k = (n - 126) - 126 * (k - 1)
  OBVIOUS
<1> QED BY <1>1 DEF Chunk

LEMMA SGICopiedIs ==
  ASSUME NEW line \in Seq(Octet), NEW i \in Nat \ {0}, NEW n \in Nat, i + n - 1 <= Len(line)
  PROVE  /\ SGICopied(line, i, n) \in Seq(Octet)
         /\ Len(SGICopied(line, i, n)) = n + Chunks(n)
<1> DEFINE L == n + Chunks(n)
           At(k) == IF (k - 1) % 127 = 0 THEN 128 + Chunk(n, (k - 1) \div 127)
                    ELSE line[i + 126 * ((k - 1) \div 127) + ((k - 1) % 127) - 1]
<1>1. L \in Nat
  BY ChunksOf
<1>2. ASSUME NEW k \in 1 .. L PROVE At(k) \in Octet
  <2> DEFINE q == (k - 1) \div 127  r == (k - 1) % 127
  <2>1. q \in Nat /\ r \in 0 .. 126 /\ k - 1 = 127 * q + r
    OBVIOUS
  <2>2. k <= n + (n + 125) \div 126
    BY DEF Chunks
  <2> HIDE DEF q, r
  <2>4. 126 * q < n /\ 126 * q + r <= n
    BY <2>1, <2>2
  <2>3. CASE r = 0
    <3>1. Chunk(n, q) = IF n - 126 * q <= 126 THEN n - 126 * q ELSE 126
      <4>1. n - 126 * q \in Int /\ 126 \in Int
        BY <2>1
      <4> QED BY <4>1, MinOfTwo DEF Chunk
    <3>2. 128 + Chunk(n, q) \in Octet
      BY <2>1, <2>4, <3>1 DEF Octet
    <3> QED BY <2>3, <3>2 DEF q, r
  <2>5. CASE r # 0
    <3> DEFINE j == i + 126 * q + r - 1
    <3>1. j \in 1 .. Len(line)
      BY <2>1, <2>4, <2>5
    <3> HIDE DEF j
    <3>2. line[j] \in Octet
      BY <3>1
    <3> QED BY <2>5, <3>2 DEF q, r, j
  <2> QED BY <2>3, <2>5
<1>3. SGICopied(line, i, n) = [k \in 1 .. L |-> At(k)]
  BY DEF SGICopied
<1> HIDE DEF L, At
<1>4. [k \in 1 .. L |-> At(k)] \in Seq(Octet) /\ Len([k \in 1 .. L |-> At(k)]) = L
  BY <1>1, <1>2
<1> QED BY <1>3, <1>4 DEF L

(* A piece of a sequence of bytes.                                         *)
LEMMA PieceIs ==
  ASSUME NEW line \in Seq(Octet), NEW i \in Nat \ {0}, NEW n \in Nat, i + n - 1 <= Len(line)
  PROVE  /\ SubSeq(line, i, i + n - 1) \in Seq(Octet) /\ Len(SubSeq(line, i, i + n - 1)) = n
         /\ \A k \in 1 .. n : SubSeq(line, i, i + n - 1)[k] = line[i + k - 1]
<1> DEFINE e == i + n - 1
<1>1. /\ e \in Int /\ i \in Int /\ e - i + 1 = n /\ (i <= e \/ n = 0) /\ (n = 0 => ~(i <= e))
      /\ \A k \in i .. e : k \in 1 .. Len(line)
  OBVIOUS
<1>2. \A k \in i .. e : line[k] \in Octet
  BY <1>1
<1> HIDE DEF e
<1>3. /\ SubSeq(line, i, e) \in Seq(Octet)
      /\ Len(SubSeq(line, i, e)) = IF i <= e THEN e - i + 1 ELSE 0
      /\ \A k \in 1 .. e - i + 1 : SubSeq(line, i, e)[k] = line[i + k - 1]
  BY <1>1, <1>2, SubSeqProperties
<1> QED BY <1>1, <1>3 DEF e

Joins(ab, a, b, n, m) ==
  /\ ab \in Seq(Octet) /\ Len(ab) = n + m
  /\ \A k \in 1 .. n + m : ab[k] = IF k <= n THEN a[k] ELSE b[k - n]

LEMMA ConcatIs ==
  ASSUME NEW a \in Seq(Octet), NEW b \in Seq(Octet)
  PROVE  Joins(a \o b, a, b, Len(a), Len(b))
BY ConcatProperties DEF Joins

SGIFirst(line, i, m) == <<128 + m>> \o SubSeq(line, i, i + m - 1)

Heads(codes, line, i, m) ==
  /\ codes \in Seq(Octet) /\ Len(codes) = 1 + m /\ codes[1] = 128 + m
  /\ \A k \in 1 .. m : codes[1 + k] = line[i + k - 1]

LEMMA SGIFirstIs ==
  ASSUME NEW line \in Seq(Octet), NEW i \in Nat \ {0}, NEW m \in 1 .. 126, i + m - 1 <= Len(line)
  PROVE  Heads(SGIFirst(line, i, m), line, i, m)
<1> DEFINE v == 128 + m  s == SubSeq(line, i, i + m - 1)
<1>1. v \in Octet /\ m \in Nat
  BY DEF Octet
<1>2. s \in Seq(Octet) /\ Len(s) = m /\ \A k \in 1 .. m : s[k] = line[i + k - 1]
  BY <1>1, PieceIs
<1> HIDE DEF v, s
<1>3. /\ <<v>> \o s \in Seq(Octet) /\ Len(<<v>> \o s) = 1 + Len(s) /\ (<<v>> \o s)[1] = v
      /\ \A k \in 1 .. Len(s) : (<<v>> \o s)[1 + k] = s[k]
  BY <1>1, <1>2, HeadIs
<1>4. SGIFirst(line, i, m) = <<v>> \o s
  BY DEF SGIFirst, v, s
<1> QED BY <1>2, <1>3, <1>4 DEF v, Heads

IsChunk(m, n) == (n <= 126 /\ m = n) \/ (n > 126 /\ m = 126)

LEMMA SGICopiedThen ==
  ASSUME NEW line \in Seq(Octet), NEW i \in Nat \ {0}, NEW n \in Nat \ {0}, i + n - 1 <= Len(line),
         NEW m \in Nat, IsChunk(m, n)
  PROVE  SGICopied(line, i, n) = SGIFirst(line, i, m) \o SGICopied(line, i + m, n - m)
<1> DEFINE A == SGIFirst(line, i, m)  B == SGICopied(line, i + m, n - m)
           C == SGICopied(line, i, n)
           L == n + Chunks(n)  M == (n - m) + Chunks(n - m)
           Entire(k) == IF (k - 1) % 127 = 0 THEN 128 + Chunk(n, (k - 1) \div 127)
                      ELSE line[i + 126 * ((k - 1) \div 127) + ((k - 1) % 127) - 1]
<1>1. m \in 1 .. 126 /\ m <= n /\ i + m - 1 <= Len(line) /\ n - m \in Nat /\ i + m \in Nat \ {0}
      /\ (i + m) + (n - m) - 1 <= Len(line)
  BY DEF IsChunk
<1>2. /\ A \in Seq(Octet) /\ Len(A) = 1 + m /\ A[1] = 128 + m
      /\ \A k \in 1 .. m : A[1 + k] = line[i + k - 1]
  <2>1. m \in 1 .. 126 /\ i + m - 1 <= Len(line)
    BY <1>1
  <2>2. Heads(A, line, i, m)
    BY <2>1, SGIFirstIs
  <2> HIDE DEF A
  <2> QED BY <2>2 DEF Heads
<1>3. C \in Seq(Octet) /\ Len(C) = L
  BY SGICopiedIs
<1>4. B \in Seq(Octet) /\ Len(B) = M
  BY <1>1, SGICopiedIs
<1>5. L = (1 + m) + M /\ L \in Nat /\ M \in Nat /\ Chunk(n, 0) = m /\ (M # 0 => n > 126 /\ m = 126)
  <2>1. CASE n <= 126
    <3>1. n \in 1 .. 126 /\ m = n /\ n - m = 0 /\ n - m \in Nat
      BY <2>1 DEF IsChunk
    <3>2. Chunks(n) = 1 /\ Chunk(n, 0) = n
      BY <3>1, ChunksOf
    <3>3. Chunks(n - m) = 0
      <4> DEFINE z == n - m
      <4>1. z \in Nat /\ z = 0
        BY <3>1
      <4> HIDE DEF z
      <4>2. Chunks(z) = 0
        BY <4>1, ChunksOf
      <4> QED BY <4>2 DEF z
    <3>4. M = 0
      BY <3>1, <3>3
    <3> HIDE DEF M
    <3> QED BY <3>1, <3>2, <3>4
  <2>2. CASE n > 126
    <3>1. m = 126
      BY <2>2 DEF IsChunk
    <3>2. Chunks(n) = 1 + Chunks(n - 126) /\ Chunk(n, 0) = 126
      BY <2>2, ChunksOf
    <3>3. Chunks(n - 126) \in Nat
      <4> DEFINE z == n - 126
      <4>1. z \in Nat
        BY <2>2
      <4> HIDE DEF z
      <4> QED BY <4>1, ChunksOf DEF z
    <3> QED BY <2>2, <3>1, <3>2, <3>3
  <2> QED BY <2>1, <2>2
<1>6. \A k \in 1 .. L : C[k] = Entire(k)
  BY DEF SGICopied
<1>7. ASSUME NEW k \in 1 .. M
      PROVE  B[k] = IF (k - 1) % 127 = 0 THEN 128 + Chunk(n - m, (k - 1) \div 127)
                    ELSE line[i + m + 126 * ((k - 1) \div 127) + ((k - 1) % 127) - 1]
  BY DEF SGICopied
<1> HIDE DEF A, B, C, L, M
<1>8. /\ A \o B \in Seq(Octet) /\ Len(A \o B) = (1 + m) + M
      /\ \A k \in 1 .. (1 + m) + M : (A \o B)[k] = IF k <= 1 + m THEN A[k] ELSE B[k - (1 + m)]
  <2>1. Joins(A \o B, A, B, Len(A), Len(B))
    BY <1>2, <1>4, ConcatIs
  <2>2. Joins(A \o B, A, B, 1 + m, M)
    BY <1>2, <1>4, <2>1
  <2> QED BY <2>2 DEF Joins
<1>9. ASSUME NEW k \in 1 .. L PROVE C[k] = (A \o B)[k]
  <2> HIDE DEF Entire
  <2>0. C[k] = Entire(k) /\ (A \o B)[k] = IF k <= 1 + m THEN A[k] ELSE B[k - (1 + m)]
    BY <1>5, <1>6, <1>8
  <2>1. CASE k = 1
    <3>1. (k - 1) % 127 = 0 /\ (k - 1) \div 127 = 0
      BY <2>1
    <3>2. Entire(k) = 128 + Chunk(n, 0)
      BY <3>1 DEF Entire
    <3>3. (A \o B)[k] = A[1]
      BY <1>1, <2>0, <2>1
    <3> QED BY <1>2, <1>5, <2>0, <3>2, <3>3
  <2>2. CASE k > 1 /\ k <= 1 + m
    <3> DEFINE j == k - 1
    <3>1. j % 127 = j /\ j \div 127 = 0 /\ j # 0 /\ j \in 1 .. m /\ k = 1 + j
      BY <1>1, <2>2
    <3>2. Entire(k) = line[i + 126 * 0 + j - 1]
      BY <3>1 DEF Entire
    <3>3. i + 126 * 0 + j - 1 = i + j - 1
      BY <3>1
    <3> HIDE DEF j
    <3>4. A[k] = line[i + j - 1]
      BY <1>2, <3>1
    <3> QED BY <2>0, <2>2, <3>2, <3>3, <3>4
  <2>3. CASE k > 1 + m
    <3> DEFINE j == k - 127  q == (k - 1) \div 127  r == (k - 1) % 127
    <3>1. m = 126 /\ n > 126 /\ j \in 1 .. M
      BY <1>1, <1>5, <2>3
    <3>2. q \in Nat /\ q >= 1 /\ r \in 0 .. 126 /\ (j - 1) % 127 = r /\ (j - 1) \div 127 = q - 1
      BY <2>3, <3>1
    <3>3. (A \o B)[k] = B[j]
      <4>1. k - (1 + m) = j /\ ~(k <= 1 + m)
        BY <2>3, <3>1
      <4> QED BY <2>0, <4>1
    <3>4. Entire(k) = IF r = 0 THEN 128 + Chunk(n, q) ELSE line[i + 126 * q + r - 1]
      BY DEF Entire
    <3> HIDE DEF j, q, r
    <3>5. B[j] = IF r = 0 THEN 128 + Chunk(n - 126, q - 1)
                 ELSE line[i + m + 126 * (q - 1) + r - 1]
      BY <1>7, <3>1, <3>2
    <3>6. Chunk(n - 126, q - 1) = Chunk(n, q)
      BY <3>1, <3>2, ChunkThen
    <3>7. i + m + 126 * (q - 1) + r - 1 = i + 126 * q + r - 1
      BY <3>1, <3>2
    <3> QED BY <2>0, <3>3, <3>4, <3>5, <3>6, <3>7
  <2>4. k = 1 \/ (k > 1 /\ k <= 1 + m) \/ k > 1 + m
    <3>1. k \in Nat /\ k >= 1
      BY <1>5
    <3> QED BY <1>1, <3>1
  <2> QED BY <2>1, <2>2, <2>3, <2>4
<1>10. C = A \o B
  BY <1>3, <1>5, <1>8, <1>9, SeqEqual
<1> QED BY <1>10 DEF A, B, C

LEMMA SGIRunIs ==
  ASSUME NEW v \in Octet, NEW n \in Nat
  PROVE  /\ SGIRun(v, n) \in Seq(Octet) /\ Len(SGIRun(v, n)) = 2 * Chunks(n)
<1> DEFINE L == 2 * Chunks(n)
           At(k) == IF k % 2 = 1 THEN Chunk(n, k \div 2) ELSE v
<1>1. L \in Nat /\ Chunks(n) \in Nat
  BY ChunksOf
<1>2. ASSUME NEW k \in 1 .. L PROVE At(k) \in Octet
  <2>1. CASE k % 2 = 1
    <3> DEFINE q == k \div 2
    <3>1. q \in Nat /\ k = 2 * q + 1
      BY <2>1
    <3>2. k <= 2 * ((n + 125) \div 126)
      BY DEF Chunks
    <3> HIDE DEF q
    <3>3. 126 * q < n
      BY <3>1, <3>2
    <3>4. Chunk(n, q) = IF n - 126 * q <= 126 THEN n - 126 * q ELSE 126
      <4>1. n - 126 * q \in Int /\ 126 \in Int
        BY <3>1
      <4> QED BY <4>1, MinOfTwo DEF Chunk
    <3>5. Chunk(n, q) \in Octet
      BY <3>1, <3>3, <3>4 DEF Octet
    <3> QED BY <2>1, <3>5 DEF q
  <2>2. CASE k % 2 # 1
    BY <2>2
  <2> QED BY <2>1, <2>2
<1>3. SGIRun(v, n) = [k \in 1 .. L |-> At(k)]
  BY DEF SGIRun
<1> HIDE DEF L, At
<1>4. [k \in 1 .. L |-> At(k)] \in Seq(Octet) /\ Len([k \in 1 .. L |-> At(k)]) = L
  BY <1>1, <1>2
<1> QED BY <1>3, <1>4 DEF L

LEMMA SGIRunThen ==
  ASSUME NEW v \in Octet, NEW n \in Nat \ {0}, NEW m \in Nat, IsChunk(m, n)
  PROVE  SGIRun(v, n) = <<m, v>> \o SGIRun(v, n - m)
<1> DEFINE A == <<m, v>>  B == SGIRun(v, n - m)  C == SGIRun(v, n)
           L == 2 * Chunks(n)  M == 2 * Chunks(n - m)
<1>1. m \in 1 .. 126 /\ m <= n /\ n - m \in Nat
  BY DEF IsChunk
<1>2. A \in Seq(Octet) /\ Len(A) = 2 /\ A[1] = m /\ A[2] = v
  BY <1>1 DEF Octet
<1>3. C \in Seq(Octet) /\ Len(C) = L
  BY SGIRunIs
<1>4. B \in Seq(Octet) /\ Len(B) = M
  BY <1>1, SGIRunIs
<1>5. L = 2 + M /\ L \in Nat /\ M \in Nat /\ Chunk(n, 0) = m /\ (M # 0 => n > 126 /\ m = 126)
  <2>1. CASE n <= 126
    <3>1. n \in 1 .. 126 /\ m = n /\ n - m = 0 /\ n - m \in Nat
      BY <2>1 DEF IsChunk
    <3>2. Chunks(n) = 1 /\ Chunk(n, 0) = n
      BY <3>1, ChunksOf
    <3>3. Chunks(n - m) = 0
      <4> DEFINE z == n - m
      <4>1. z \in Nat /\ z = 0
        BY <3>1
      <4> HIDE DEF z
      <4>2. Chunks(z) = 0
        BY <4>1, ChunksOf
      <4> QED BY <4>2 DEF z
    <3>4. M = 0
      BY <3>1, <3>3
    <3> HIDE DEF M
    <3> QED BY <3>1, <3>2, <3>4
  <2>2. CASE n > 126
    <3>1. m = 126
      BY <2>2 DEF IsChunk
    <3>2. Chunks(n) = 1 + Chunks(n - 126) /\ Chunk(n, 0) = 126
      BY <2>2, ChunksOf
    <3>3. Chunks(n - 126) \in Nat
      <4> DEFINE z == n - 126
      <4>1. z \in Nat
        BY <2>2
      <4> HIDE DEF z
      <4> QED BY <4>1, ChunksOf DEF z
    <3> QED BY <2>2, <3>1, <3>2, <3>3
  <2> QED BY <2>1, <2>2
<1>6. \A k \in 1 .. L : C[k] = IF k % 2 = 1 THEN Chunk(n, k \div 2) ELSE v
  BY DEF SGIRun
<1>7. \A k \in 1 .. M : B[k] = IF k % 2 = 1 THEN Chunk(n - m, k \div 2) ELSE v
  BY DEF SGIRun
<1> HIDE DEF A, B, C, L, M
<1>8. /\ A \o B \in Seq(Octet) /\ Len(A \o B) = 2 + M
      /\ \A k \in 1 .. 2 + M : (A \o B)[k] = IF k <= 2 THEN A[k] ELSE B[k - 2]
  <2>1. Joins(A \o B, A, B, Len(A), Len(B))
    BY <1>2, <1>4, ConcatIs
  <2>2. Joins(A \o B, A, B, 2, M)
    BY <1>2, <1>4, <2>1
  <2> QED BY <2>2 DEF Joins
<1>9. ASSUME NEW k \in 1 .. L PROVE C[k] = (A \o B)[k]
  <2>0. (A \o B)[k] = IF k <= 2 THEN A[k] ELSE B[k - 2]
    BY <1>5, <1>8
  <2>1. CASE k = 1
    <3>1. k % 2 = 1 /\ k \div 2 = 0
      BY <2>1
    <3> QED BY <1>2, <1>5, <1>6, <2>0, <2>1, <3>1
  <2>2. CASE k = 2
    <3>1. k % 2 = 0
      BY <2>2
    <3> QED BY <1>2, <1>6, <2>0, <2>2, <3>1
  <2>3. CASE k > 2
    <3> DEFINE j == k - 2  q == k \div 2
    <3>1. j \in 1 .. M /\ m = 126 /\ n > 126 /\ q \in Nat /\ q >= 1
          /\ j % 2 = k % 2 /\ j \div 2 = q - 1
      BY <1>5, <2>3
    <3>2. C[k] = IF k % 2 = 1 THEN Chunk(n, q) ELSE v
      BY <1>6
    <3>4. (A \o B)[k] = B[j]
      BY <2>0, <2>3
    <3> HIDE DEF j, q
    <3>3. B[j] = IF k % 2 = 1 THEN Chunk(n - 126, q - 1) ELSE v
      BY <1>7, <3>1
    <3>5. Chunk(n - 126, q - 1) = Chunk(n, q)
      BY <3>1, ChunkThen
    <3> QED BY <3>2, <3>3, <3>4, <3>5
  <2>4. k = 1 \/ k = 2 \/ k > 2
    <3>1. k \in Nat /\ k >= 1
      BY <1>5
    <3> QED BY <3>1
  <2> QED BY <2>1, <2>2, <2>3, <2>4
<1>10. C = A \o B
  BY <1>3, <1>5, <1>8, <1>9, SeqEqual
<1> QED BY <1>10 DEF A, B, C

LEMMA SGICopiedSound ==
  ASSUME NEW c \in Coding, c.driver = "SGI", NEW n \in Nat, NEW i \in Nat \ {0},
         i + n - 1 <= Len(c.line)
  PROVE  Sound(c, i - 1, SGICopied(c.line, i, n), n)
<1> DEFINE L == c.line
           Holds(k, at) == Sound(c, at - 1, SGICopied(L, at, k), k)
           Bad == {k \in Nat : ~\A at \in Nat \ {0} : at + k - 1 <= Len(L) => Holds(k, at)}
<1>1. L \in Seq(Octet) /\ Len(L) \in Nat
  BY CodingIs
<1>2. ASSUME NEW k \in Nat, \A j \in 0 .. k - 1 : j \notin Bad PROVE k \notin Bad
  <2> SUFFICES ASSUME NEW at \in Nat \ {0}, at + k - 1 <= Len(L) PROVE Holds(k, at)
    OBVIOUS
  <2>0. at - 1 \in Nat
    OBVIOUS
  <2>1. CASE k = 0
    <3>1. SGICopied(L, at, k) \in Seq(Octet) /\ Len(SGICopied(L, at, k)) = k + Chunks(k)
      BY <1>1, SGICopiedIs
    <3>2. Chunks(k) = 0
      BY <2>1, ChunksOf
    <3>3. SGICopied(L, at, k) = <<>>
      BY <2>1, <3>1, <3>2
    <3>4. Sound(c, at - 1, <<>>, 0)
      BY <2>0, SoundNothing
    <3> QED BY <2>1, <3>3, <3>4
  <2>2. CASE k > 0
    <3> DEFINE m == IF k <= 126 THEN k ELSE 126
               rest == k - m  then == at + m
               first == SGIFirst(L, at, m)  copied == SubSeq(L, at, at + m - 1)
               later == SGICopied(L, then, rest)
    <3>1. /\ m \in 1 .. 126 /\ m \in Nat /\ at + m - 1 <= Len(L) /\ rest \in 0 .. k - 1 /\ rest \in Nat
          /\ then \in Nat \ {0} /\ then + rest - 1 <= Len(L) /\ then - 1 = at - 1 + m /\ m + rest = k
      <4> HIDE DEF L
      <4>1. m \in 1 .. 126 /\ m <= k
        BY <2>2
      <4> HIDE DEF m
      <4> QED BY <1>1, <2>2, <4>1
    <3>2. SGICopied(L, at, k) = first \o later
      <4>1. k \in Nat \ {0}
        BY <2>2
      <4>2. m \in Nat /\ IsChunk(m, k)
        BY DEF IsChunk
      <4> HIDE DEF L, m
      <4>3. SGICopied(L, at, k) = SGIFirst(L, at, m) \o SGICopied(L, at + m, k - m)
        BY <1>1, <4>1, <4>2, SGICopiedThen
      <4> QED BY <4>3
    <3> HIDE DEF m, rest, then
    <3>3. copied \in Seq(Octet) /\ Len(copied) = m /\ \A j \in 1 .. m : copied[j] = L[at + j - 1]
      BY <1>1, <3>1, PieceIs
    <3>4. Heads(first, L, at, m)
      BY <1>1, <3>1, SGIFirstIs
    <3> HIDE DEF copied
    <3>5. Spells(copied, L, at - 1)
      <4>1. \A j \in 1 .. m : at + j - 1 = at - 1 + j
        BY <3>1
      <4>2. copied \in Seq(Octet) /\ at - 1 \in Nat /\ at - 1 + Len(copied) <= Len(L)
        BY <1>1, <2>0, <3>1, <3>3
      <4>3. \A j \in 1 .. Len(copied) : copied[j] = L[at - 1 + j]
        BY <3>3, <4>1
      <4> QED BY <4>2, <4>3 DEF Spells
    <3>6. Sound(c, at - 1, <<128 + Len(copied)>> \o copied, Len(copied))
      <4> DEFINE have == at - 1
      <4>1. Len(copied) \in 1 .. 126
        BY <3>1, <3>3
      <4> HIDE DEF have
      <4> QED BY <3>3, <3>5, <4>1, SGIChunk DEF have
    <3>7. Sound(c, at - 1, first, m)
      BY <3>3, <3>6 DEF SGIFirst, copied
    <3> HIDE DEF first
    <3>8. later \in Seq(Octet)
      BY <1>1, <3>1, SGICopiedIs
    <3>9. Sound(c, then - 1, later, rest)
      BY <1>2, <3>1
    <3> HIDE DEF later
    <3> DEFINE have == at - 1
    <3>10. have \in Nat /\ Sound(c, have, first, m) /\ Sound(c, have + m, later, rest)
      BY <2>0, <3>1, <3>7, <3>9
    <3>11. first \in Seq(Octet)
      BY <3>4 DEF Heads
    <3> HIDE DEF have
    <3>12. Sound(c, have, first \o later, m + rest)
      BY <3>1, <3>8, <3>10, <3>11, SoundBoth
    <3> QED BY <3>1, <3>2, <3>12 DEF have
  <2> QED BY <2>1, <2>2
<1>3. Bad = {}
  <2> HIDE DEF Bad
  <2>1. Bad \subseteq Nat
    BY DEF Bad
  <2> QED BY <1>2, <2>1, NoneIsFirstBad
<1> QED BY <1>3

LEMMA SGIRunSound ==
  ASSUME NEW c \in Coding, c.driver = "SGI", NEW n \in Nat, NEW i \in Nat \ {0},
         i + n - 1 <= Len(c.line), NEW v \in Octet, \A k \in i .. i + n - 1 : c.line[k] = v
  PROVE  Sound(c, i - 1, SGIRun(v, n), n)
<1> DEFINE L == c.line
           Same(at, k) == at + k - 1 <= Len(L) /\ \A j \in at .. at + k - 1 : L[j] = v
           Bad == {k \in Nat : ~\A at \in Nat \ {0} : Same(at, k) => Sound(c, at - 1, SGIRun(v, k), k)}
<1>1. L \in Seq(Octet) /\ Len(L) \in Nat
  BY CodingIs
<1>2. ASSUME NEW k \in Nat, \A j \in 0 .. k - 1 : j \notin Bad PROVE k \notin Bad
  <2> SUFFICES ASSUME NEW at \in Nat \ {0}, Same(at, k) PROVE Sound(c, at - 1, SGIRun(v, k), k)
    OBVIOUS
  <2>0. at - 1 \in Nat
    OBVIOUS
  <2>1. CASE k = 0
    <3>1. SGIRun(v, k) \in Seq(Octet) /\ Len(SGIRun(v, k)) = 2 * Chunks(k)
      BY SGIRunIs
    <3>2. Chunks(k) = 0
      BY <2>1, ChunksOf
    <3>3. SGIRun(v, k) = <<>>
      BY <2>1, <3>1, <3>2
    <3>4. Sound(c, at - 1, <<>>, 0)
      BY <2>0, SoundNothing
    <3> QED BY <2>1, <3>3, <3>4
  <2>2. CASE k > 0
    <3> DEFINE m == IF k <= 126 THEN k ELSE 126
               rest == k - m  then == at + m
               first == <<m, v>>  bytes == Repeat(v, m)
               later == SGIRun(v, rest)
    <3>1. /\ m \in 1 .. 126 /\ m \in Nat /\ at + m - 1 <= Len(L) /\ rest \in 0 .. k - 1 /\ rest \in Nat
          /\ then \in Nat \ {0} /\ then + rest - 1 = at + k - 1 /\ then - 1 = at - 1 + m /\ m + rest = k
          /\ at + m <= at + k
      BY <1>1, <2>2
    <3>2. SGIRun(v, k) = first \o later
      <4>1. k \in Nat \ {0}
        BY <2>2
      <4>2. m \in Nat /\ IsChunk(m, k)
        BY DEF IsChunk
      <4> HIDE DEF m
      <4>3. SGIRun(v, k) = <<m, v>> \o SGIRun(v, k - m)
        BY <4>1, <4>2, SGIRunThen
      <4> QED BY <4>3
    <3> HIDE DEF m, rest, then
    <3>3. bytes \in Seq(Octet) /\ Len(bytes) = m /\ \A j \in 1 .. m : bytes[j] = v
      BY <3>1, RepeatIs DEF Repeat
    <3> HIDE DEF bytes
    <3>5. Spells(bytes, L, at - 1)
      <4>1. ASSUME NEW j \in 1 .. m PROVE L[at - 1 + j] = v
        <5>1. at - 1 + j \in at .. at + k - 1
          BY <3>1
        <5> QED BY <5>1
      <4>2. bytes \in Seq(Octet) /\ at - 1 \in Nat /\ at - 1 + Len(bytes) <= Len(L)
        BY <1>1, <2>0, <3>1, <3>3
      <4>3. \A j \in 1 .. Len(bytes) : bytes[j] = L[at - 1 + j]
        BY <3>3, <4>1
      <4> QED BY <4>2, <4>3 DEF Spells
    <3>7. Sound(c, at - 1, first, m)
      <4> DEFINE have == at - 1
      <4> HIDE DEF have
      <4>1. Sound(c, have, <<m, v>>, m)
        BY <3>1, <3>5, SGIRepeat DEF have, bytes
      <4> QED BY <4>1 DEF have
    <3>11. first \in Seq(Octet)
      <4>1. m \in Octet
        BY <3>1 DEF Octet
      <4> QED BY <4>1
    <3> HIDE DEF first
    <3>8. later \in Seq(Octet)
      BY <3>1, SGIRunIs
    <3>9. Sound(c, then - 1, later, rest)
      <4>1. Same(then, rest)
        <5>1. then + rest - 1 <= Len(L)
          BY <3>1
        <5>2. ASSUME NEW j \in then .. then + rest - 1 PROVE L[j] = v
          <6>1. j \in at .. at + k - 1
            BY <3>1 DEF then
          <6> QED BY <6>1
        <5> QED BY <5>1, <5>2
      <4> HIDE DEF Same
      <4> QED BY <1>2, <3>1, <4>1
    <3> HIDE DEF later
    <3> DEFINE have == at - 1
    <3>10. have \in Nat /\ Sound(c, have, first, m) /\ Sound(c, have + m, later, rest)
      BY <2>0, <3>1, <3>7, <3>9
    <3> HIDE DEF have
    <3>12. Sound(c, have, first \o later, m + rest)
      BY <3>1, <3>8, <3>10, <3>11, SoundBoth
    <3> QED BY <3>1, <3>2, <3>12 DEF have
  <2> QED BY <2>1, <2>2
<1>3. Bad = {}
  <2> HIDE DEF Bad
  <2>1. Bad \subseteq Nat
    BY DEF Bad
  <2> QED BY <1>2, <2>1, NoneIsFirstBad
<1> QED BY <1>3

(* Bytes that are copied and then a run; four bytes or more need less than *)
(* two for each.                                                           *)
LEMMA SGIGood ==
  ASSUME NEW c \in Coding, c.driver = "SGI", NEW i \in 1 .. Len(c.line)
  PROVE  /\ Good(c, i - 1, SGIPacket(c.line, i), Len(c.line) - i + 1, 1)
         /\ Len(c.line) - i >= 3 =>
              Len(SGIPacket(c.line, i).codes) < 2 * SGIPacket(c.line, i).takes
<1> DEFINE L == c.line  N == Len(L)
           triples == {j \in i .. N - 2 : L[j] = L[j + 1] /\ L[j + 1] = L[j + 2]}
           start == IF triples = {} THEN Max({i, N - 1}) ELSE Min(triples)
           v == L[start]
           count == RunAt(L, start, N)
           P == SGIPacket(L, i)
           s == start - i
           a == SGICopied(L, i, s)
           b == SGIRun(v, count)
<1>1. L \in Seq(Octet) /\ N \in Nat /\ i \in Nat /\ i >= 1 /\ i <= N /\ N \in Nat \ {0}
      /\ \A k \in 1 .. N : L[k] \in Octet
  BY CodingIs
<1>2. start \in i .. N /\ (N - i >= 3 => start >= i + 2 \/ start \in triples)
  <2>1. CASE triples = {}
    <3>1. Max({i, N - 1}) = IF i <= N - 1 THEN N - 1 ELSE i
      <4> DEFINE z == N - 1
      <4>1. z \in Int /\ i \in Int
        BY <1>1
      <4> HIDE DEF z
      <4>2. Max({i, z}) = IF i <= z THEN z ELSE i
        BY <4>1, MaxOfTwo
      <4> QED BY <4>2 DEF z
    <3>2. start = IF i <= N - 1 THEN N - 1 ELSE i
      BY <2>1, <3>1
    <3> HIDE DEF start, N
    <3> QED BY <1>1, <3>2
  <2>2. CASE triples # {}
    <3>1. triples \subseteq Nat /\ triples \subseteq i .. N
      BY <1>1
    <3>2. start = Min(triples)
      BY <2>2
    <3> HIDE DEF triples, start, N
    <3>3. start \in triples
      BY <2>2, <3>1, <3>2, MinIsLeast
    <3> QED BY <3>1, <3>3
  <2> QED BY <2>1, <2>2
<1>3. P = Codes(a \o b, start - i + count)
  BY DEF SGIPacket
<1> HIDE DEF start, P
<1>4. RunIs(L, start, N, count)
  <2>1. start \in 1 .. N
    BY <1>1, <1>2
  <2> HIDE DEF L
  <2> QED BY <1>1, <2>1, RunAtIs DEF N
<1>5. /\ count \in 1 .. N /\ start + count - 1 <= N /\ \A k \in start .. start + count - 1 : L[k] = v
      /\ (start \in triples => count >= 3)
  <2>1. /\ count \in 1 .. N /\ start + count - 1 <= N
        /\ \A k \in start .. start + count - 1 : L[k] = L[start]
        /\ (count = N \/ start + count > N \/ L[start + count] # L[start])
    BY <1>4 DEF RunIs
  <2>2. ASSUME start \in triples, count < 3 PROVE FALSE
    <3>1. start <= N - 2 /\ L[start] = L[start + 1] /\ L[start + 1] = L[start + 2] /\ start \in Nat /\ start >= 1
      BY <1>1, <1>2, <2>2
    <3> HIDE DEF count, L, N
    <3>2. count \in {1, 2}
      BY <1>1, <2>1, <2>2
    <3>3. L[start + count] = L[start]
      BY <3>1, <3>2
    <3> QED BY <1>1, <2>1, <3>1, <3>2, <3>3
  <2>3. start \in triples => count >= 3
    <3> HIDE DEF count, triples, N
    <3>1. count \in Int
      BY <1>1, <2>1
    <3> QED BY <2>2, <3>1
  <2> HIDE DEF count, triples
  <2> QED BY <2>1, <2>3
<1> HIDE DEF count, v, triples, N
<1>6. v \in Octet /\ s \in Nat /\ i + s - 1 <= N /\ start \in Nat \ {0} /\ count \in Nat /\ start - 1 = i - 1 + s
      /\ i \in Nat \ {0} /\ i - 1 \in Nat
  <2>1. start \in 1 .. N
    BY <1>1, <1>2
  <2> QED BY <1>1, <1>2, <1>5, <2>1 DEF v
<1> HIDE DEF s
<1>7. a \in Seq(Octet) /\ Len(a) = s + Chunks(s)
  <2> HIDE DEF L
  <2> QED BY <1>1, <1>6, SGICopiedIs DEF N
<1>8. b \in Seq(Octet) /\ Len(b) = 2 * Chunks(count)
  BY <1>6, SGIRunIs
<1>9. Sound(c, i - 1, a, s)
  BY <1>6, SGICopiedSound DEF N
<1>10. Sound(c, start - 1, b, count)
  BY <1>5, <1>6, SGIRunSound DEF N
<1> HIDE DEF a, b, L
<1>11. Sound(c, i - 1, a \o b, s + count)
  <2> DEFINE have == i - 1
  <2>1. have \in Nat /\ Sound(c, have, a, s) /\ Sound(c, have + s, b, count)
    BY <1>6, <1>9, <1>10
  <2> HIDE DEF have
  <2>2. Sound(c, have, a \o b, s + count)
    BY <1>6, <1>7, <1>8, <2>1, SoundBoth
  <2> QED BY <2>2 DEF have
<1>12. a \o b \in Seq(Octet) /\ Len(a \o b) = s + Chunks(s) + 2 * Chunks(count)
  BY <1>7, <1>8
<1>13. P.codes = a \o b /\ P.takes = s + count
  BY <1>3 DEF Codes, s
<1>14. /\ Chunks(s) \in Nat /\ Chunks(s) <= s /\ (s > 1 => Chunks(s) < s)
       /\ Chunks(count) \in Nat /\ Chunks(count) <= count /\ (count > 1 => Chunks(count) < count)
  BY <1>6, ChunksOf
<1> DEFINE ab == a \o b
<1> HIDE DEF ab
<1>15. P.takes \in 1 .. N - i + 1 /\ N - i + 1 \in Nat
  <2>1. s = start - i
    BY DEF s
  <2> QED BY <1>1, <1>2, <1>5, <1>6, <1>13, <2>1
<1>16. P.codes \in Seq(Octet) /\ Len(P.codes) <= 2 * P.takes
  <2>1. P.codes \in Seq(Octet) /\ Len(P.codes) = s + Chunks(s) + 2 * Chunks(count)
    BY <1>12, <1>13
  <2> QED BY <1>6, <1>13, <1>14, <2>1
<1>17. Good(c, i - 1, P, N - i + 1, 1)
  <2>1. Sound(c, i - 1, P.codes, P.takes)
    BY <1>11, <1>13
  <2> QED BY <1>15, <1>16, <2>1, GoodIs
<1>18. ASSUME N - i >= 3 PROVE Len(P.codes) < 2 * P.takes
  <2>1. Len(P.codes) = s + Chunks(s) + 2 * Chunks(count) /\ P.takes = s + count
    BY <1>12, <1>13
  <2>2. s > 1 \/ count > 1
    <3>1. s = start - i
      BY DEF s
    <3> QED BY <1>1, <1>2, <1>5, <1>6, <1>18, <3>1
  <2> QED BY <1>6, <1>14, <2>1, <2>2
<1> QED BY <1>17, <1>18 DEF P, N, L

(* The elements of a line a driver codes: pixels in Targa, else bytes.     *)
ElementsOf(c, elements) ==
  IF c.driver = "TGA" THEN PixelsOf(c.line, elements, c.size)
  ELSE elements = c.line /\ c.size = 1

(* A packet takes at least one element, and two bytes for each at most.    *)
Small(packet, elements, size) ==
  /\ packet.takes \in 1 .. elements
  /\ packet.codes \in Seq(Octet)
  /\ Len(packet.codes) <= 2 * (packet.takes * size)

LEMMA RASSmall ==
  ASSUME NEW c \in Coding, c.driver = "RAS", NEW i \in 1 .. Len(c.line)
  PROVE  Small(RASPacket(c.line, i), Len(c.line) - i + 1, 1)
<1> DEFINE L == c.line
           v == L[i]
           count == RunAt(L, i, 256)
           bytes == Repeat(v, count)
           P == RASPacket(L, i)
<1>1. /\ count \in 1 .. 256 /\ count <= Len(L) - i + 1
      /\ bytes \in Seq(Octet) /\ Len(bytes) = count /\ v \in Octet
  <2> DEFINE most == 256
  <2>1. most \in Nat \ {0} /\ count = RunAt(c.line, i, most)
    OBVIOUS
  <2> HIDE DEF most, count
  <2>2. /\ count \in 1 .. most /\ count <= Len(c.line) - i + 1
        /\ Repeat(c.line[i], count) \in Seq(Octet) /\ Len(Repeat(c.line[i], count)) = count
        /\ c.line[i] \in Octet
    BY <2>1, RunSpells
  <2> QED BY <2>2 DEF most
<1>2. P.takes = count
  BY DEF RASPacket, Codes
<1>3. P.codes = CASE count > 2 \/ (count = 2 /\ v = RASEscape) -> <<RASEscape, count - 1, v>>
                  [] count = 1 /\ v = RASEscape -> <<RASEscape, 0>>
                  [] OTHER -> bytes
  BY DEF RASPacket, Codes
<1>4. Len(L) \in Nat /\ i \in Nat /\ RASEscape \in Octet /\ 0 \in Octet
  BY CodingIs DEF RASEscape, Octet
<1> HIDE DEF bytes, v, L, count, P
<1>5. P.codes \in Seq(Octet) /\ Len(P.codes) <= 2 * count
  <2>1. CASE count > 2 \/ (count = 2 /\ v = RASEscape)
    <3>1. P.codes = <<RASEscape, count - 1, v>>
      BY <1>3, <2>1
    <3>2. count - 1 \in Octet
      BY <1>1 DEF Octet
    <3> QED BY <1>1, <1>4, <2>1, <3>1, <3>2
  <2>2. CASE count = 1 /\ v = RASEscape
    <3>1. P.codes = <<RASEscape, 0>>
      BY <1>3, <2>2
    <3> QED BY <1>4, <2>2, <3>1
  <2>3. CASE ~(count > 2 \/ (count = 2 /\ v = RASEscape)) /\ ~(count = 1 /\ v = RASEscape)
    <3>1. P.codes = bytes
      BY <1>3, <2>3
    <3> QED BY <1>1, <3>1
  <2> QED BY <2>1, <2>2, <2>3
<1>6. P.takes \in 1 .. Len(L) - i + 1
  BY <1>1, <1>2, <1>4
<1>7. Len(P.codes) <= 2 * (P.takes * 1)
  BY <1>1, <1>2, <1>5
<1> QED BY <1>5, <1>6, <1>7 DEF Small, P, L

LEMMA PacketSmall ==
  ASSUME NEW c \in Coding, NEW elements, ElementsOf(c, elements), NEW i \in 1 .. Len(elements)
  PROVE  Small(Packet(c.driver, elements, i), Len(elements) - i + 1, c.size)
<1>1. ASSUME NEW have, NEW packet, NEW left, NEW size, Good(c, have, packet, left, size)
      PROVE  Small(packet, left, size)
  BY <1>1 DEF Good, Small
<1>2. CASE c.driver = "PCX"
  <2>1. elements = c.line /\ c.size = 1 /\ Packet(c.driver, elements, i) = PCXPacket(c.line, i)
    BY <1>2 DEF ElementsOf, Packet
  <2>2. Good(c, i - 1, PCXPacket(c.line, i), Len(c.line) - i + 1, 1)
    BY <1>2, <2>1, PCXGood
  <2> QED BY <1>1, <2>1, <2>2
<1>3. CASE c.driver = "RAS"
  <2>1. elements = c.line /\ c.size = 1 /\ Packet(c.driver, elements, i) = RASPacket(c.line, i)
    BY <1>3 DEF ElementsOf, Packet
  <2>2. Small(RASPacket(c.line, i), Len(c.line) - i + 1, 1)
    BY <1>3, <2>1, RASSmall
  <2> QED BY <2>1, <2>2
<1>4. CASE c.driver = "TGA"
  <2>1. PixelsOf(c.line, elements, c.size) /\ Packet(c.driver, elements, i) = TGAPacket(elements, i)
    BY <1>4 DEF ElementsOf, Packet
  <2>2. Good(c, (i - 1) * c.size, TGAPacket(elements, i), Len(elements) - i + 1, c.size)
    BY <1>4, <2>1, TGAGood
  <2> QED BY <1>1, <2>1, <2>2
<1>5. CASE c.driver = "SGI"
  <2>1. elements = c.line /\ c.size = 1 /\ Packet(c.driver, elements, i) = SGIPacket(c.line, i)
    BY <1>5 DEF ElementsOf, Packet
  <2>2. Good(c, i - 1, SGIPacket(c.line, i), Len(c.line) - i + 1, 1)
    BY <1>5, <2>1, SGIGood
  <2> QED BY <1>1, <2>1, <2>2
<1>6. CASE c.driver = "BMP"
  <2>1. elements = c.line /\ c.size = 1 /\ Packet(c.driver, elements, i) = BMPPacket(c.line, i)
    BY <1>6 DEF ElementsOf, Packet
  <2>2. Good(c, i - 1, BMPPacket(c.line, i), Len(c.line) - i + 1, 1)
    BY <1>6, <2>1, BMPGood
  <2> QED BY <1>1, <2>1, <2>2
<1> QED BY <1>2, <1>3, <1>4, <1>5, <1>6, CodingIs DEF Coder

(* The runs Sun Raster loses.                                              *)
Losing(c) == c.driver = "RAS" /\ \E i \in 1 .. Len(c.line) : RunAt(c.line, i, 256) = 256

LEMMA PacketSound ==
  ASSUME NEW c \in Coding, NEW elements, ElementsOf(c, elements), NEW i \in 1 .. Len(elements),
         ~Losing(c), NEW packet, packet = Packet(c.driver, elements, i)
  PROVE  Sound(c, (i - 1) * c.size, packet.codes, packet.takes * c.size)
<1>0. c.size \in Nat \ {0} /\ (i - 1) * 1 = i - 1
  BY CodingIs
<1>1. ASSUME NEW have, NEW p, NEW left, NEW size, Good(c, have, p, left, size)
      PROVE  Sound(c, have, p.codes, p.takes * size)
  BY <1>1 DEF Good
<1>2. CASE c.driver = "PCX"
  <2>1. elements = c.line /\ c.size = 1 /\ packet = PCXPacket(c.line, i)
    BY <1>2 DEF ElementsOf, Packet
  <2>2. Good(c, i - 1, PCXPacket(c.line, i), Len(c.line) - i + 1, 1)
    BY <1>2, <2>1, PCXGood
  <2> QED BY <1>0, <1>1, <2>1, <2>2
<1>3. CASE c.driver = "RAS"
  <2>1. elements = c.line /\ c.size = 1 /\ packet = RASPacket(c.line, i)
    BY <1>3 DEF ElementsOf, Packet
  <2>3. RunAt(c.line, i, 256) # 256
    BY <1>3, <2>1 DEF Losing
  <2>2. Good(c, i - 1, RASPacket(c.line, i), Len(c.line) - i + 1, 1)
    BY <1>3, <2>1, <2>3, RASGood
  <2> QED BY <1>0, <1>1, <2>1, <2>2
<1>4. CASE c.driver = "TGA"
  <2>1. PixelsOf(c.line, elements, c.size) /\ packet = TGAPacket(elements, i)
    BY <1>4 DEF ElementsOf, Packet
  <2>2. Good(c, (i - 1) * c.size, TGAPacket(elements, i), Len(elements) - i + 1, c.size)
    BY <1>4, <2>1, TGAGood
  <2> QED BY <1>1, <2>1, <2>2
<1>5. CASE c.driver = "SGI"
  <2>1. elements = c.line /\ c.size = 1 /\ packet = SGIPacket(c.line, i)
    BY <1>5 DEF ElementsOf, Packet
  <2>2. Good(c, i - 1, SGIPacket(c.line, i), Len(c.line) - i + 1, 1)
    BY <1>5, <2>1, SGIGood
  <2> QED BY <1>0, <1>1, <2>1, <2>2
<1>6. CASE c.driver = "BMP"
  <2>1. elements = c.line /\ c.size = 1 /\ packet = BMPPacket(c.line, i)
    BY <1>6 DEF ElementsOf, Packet
  <2>2. Good(c, i - 1, BMPPacket(c.line, i), Len(c.line) - i + 1, 1)
    BY <1>6, <2>1, BMPGood
  <2> QED BY <1>0, <1>1, <2>1, <2>2
<1> QED BY <1>2, <1>3, <1>4, <1>5, <1>6, CodingIs DEF Coder

(* The encoder's recursion is well founded.                                *)
Moves(driver, elements) ==
  /\ Len(elements) \in Nat
  /\ \A i \in 1 .. Len(elements) : Packet(driver, elements, i).takes \in 1 .. Len(elements) - i + 1

LEMMA EncodeFromIs ==
  ASSUME NEW driver, NEW elements, Moves(driver, elements)
  PROVE  LET from == EncodeFrom(driver, elements)
         IN \A i \in 1 .. Len(elements) + 1 :
              from[i] = IF i <= Len(elements)
                        THEN Packet(driver, elements, i).codes
                               \o from[i + Packet(driver, elements, i).takes]
                        ELSE LineEnd(driver)
<1> DEFINE N == Len(elements) + 1
           Packed(i) == Packet(driver, elements, i)
           B(f, i) == IF i <= Len(elements) THEN Packed(i).codes \o f[i + Packed(i).takes]
                      ELSE LineEnd(driver)
           Solves(g, m) == /\ g = [i \in 1 .. N |-> g[i]]
                           /\ \A i \in 1 .. N : i > N - m => g[i] = B(g, i)
           Bad == {m \in Nat : ~\E g : Solves(g, m)}
<1>1. N \in Nat /\ Len(elements) \in Nat /\ N = Len(elements) + 1
  BY DEF Moves
<1>2. \A i \in 1 .. N : i <= Len(elements) => i + Packed(i).takes \in i + 1 .. N
  <2> SUFFICES ASSUME NEW i \in 1 .. N, i <= Len(elements) PROVE i + Packed(i).takes \in i + 1 .. N
    OBVIOUS
  <2>1. Packed(i).takes \in 1 .. Len(elements) - i + 1
    BY <1>1 DEF Moves
  <2> HIDE DEF Packed
  <2> QED BY <1>1, <2>1
<1> HIDE DEF Packed, N
<1>3. \A f, g : \A i \in 1 .. N : (\A j \in i + 1 .. N : f[j] = g[j]) => B(f, i) = B(g, i)
  BY <1>2
<1> HIDE DEF B
<1>4. 0 \notin Bad
  <2>1. Solves([i \in 1 .. N |-> 0], 0)
    BY <1>1
  <2> QED BY <2>1
<1>5. ASSUME NEW m \in Nat, m \notin Bad PROVE m + 1 \notin Bad
  <2>1. PICK g : Solves(g, m)
    BY <1>5
  <2> DEFINE h == [i \in 1 .. N |-> IF i = N - m THEN B(g, i) ELSE g[i]]
  <2>2. \A i \in 1 .. N : i > N - m => h[i] = g[i]
    BY <1>1
  <2>3. ASSUME NEW i \in 1 .. N, i > N - (m + 1) PROVE h[i] = B(h, i)
    <3>1. \A j \in i + 1 .. N : h[j] = g[j]
      BY <1>1, <2>2, <2>3
    <3>2. B(h, i) = B(g, i)
      BY <1>3, <3>1
    <3>3. CASE i = N - m
      BY <3>2, <3>3
    <3>4. CASE i > N - m
      BY <2>1, <2>2, <3>2, <3>4
    <3> QED BY <1>1, <2>3, <3>3, <3>4
  <2>4. Solves(h, m + 1)
    BY <2>3
  <2> QED BY <2>4
<1>6. Bad = {}
  <2> HIDE DEF Bad
  <2>1. Bad \subseteq Nat
    BY DEF Bad
  <2> QED BY <1>4, <1>5, <2>1, NoneIsBad
<1>7. PICK g : Solves(g, N)
  BY <1>1, <1>6
<1>8. g = [i \in 1 .. N |-> B(g, i)]
  <2>1. \A i \in 1 .. N : i > N - N
    BY <1>1
  <2>2. g = [i \in 1 .. N |-> g[i]] /\ \A i \in 1 .. N : g[i] = B(g, i)
    BY <1>7, <2>1
  <2> QED BY <2>2
<1> DEFINE from == EncodeFrom(driver, elements)
<1>9. from = CHOOSE f : f = [i \in 1 .. N |-> B(f, i)]
  BY DEF EncodeFrom, B, N, Packed
<1>10. from = [i \in 1 .. N |-> B(from, i)]
  BY <1>8, <1>9
<1>11. \A i \in 1 .. N : from[i] = B(from, i)
  BY <1>10
<1> HIDE DEF from
<1>12. \A i \in 1 .. N : from[i] = IF i <= Len(elements)
                                   THEN Packet(driver, elements, i).codes
                                          \o from[i + Packet(driver, elements, i).takes]
                                   ELSE LineEnd(driver)
  BY <1>11 DEF B, Packed
<1> QED BY <1>12 DEF from, N

LEMMA ElementsIs ==
  ASSUME NEW c \in Coding, NEW elements, ElementsOf(c, elements)
  PROVE  /\ Len(elements) \in Nat /\ c.size \in Nat \ {0} /\ Len(c.line) = Len(elements) * c.size
         /\ Moves(c.driver, elements)
<1>1. c.size \in Nat \ {0} /\ Len(c.line) \in Nat
  BY CodingIs
<1>2. Len(elements) \in Nat /\ Len(c.line) = Len(elements) * c.size
  <2>1. CASE c.driver = "TGA"
    BY <2>1 DEF ElementsOf, PixelsOf
  <2>2. CASE c.driver # "TGA"
    BY <1>1, <2>2 DEF ElementsOf
  <2> QED BY <2>1, <2>2
<1>3. ASSUME NEW i \in 1 .. Len(elements)
      PROVE  Packet(c.driver, elements, i).takes \in 1 .. Len(elements) - i + 1
  <2>1. Small(Packet(c.driver, elements, i), Len(elements) - i + 1, c.size)
    BY PacketSmall
  <2> QED BY <2>1 DEF Small
<1> QED BY <1>1, <1>2, <1>3 DEF Moves

LEMMA LineEndIs ==
  ASSUME NEW driver \in Coder
  PROVE  /\ LineEnd(driver) \in Seq(Octet)
         /\ LineEnd(driver) = IF driver = "SGI" THEN <<0>> ELSE IF driver = "BMP" THEN <<0, 0>> ELSE <<>>
         /\ Len(LineEnd(driver)) = IF driver = "SGI" THEN 1 ELSE IF driver = "BMP" THEN 2 ELSE 0
<1>1. 0 \in Octet
  BY DEF Octet
<1>2. LineEnd(driver) = IF driver = "SGI" THEN <<0>> ELSE IF driver = "BMP" THEN <<0, 0>> ELSE <<>>
  BY DEF LineEnd
<1>3. <<>> \in Seq(Octet) /\ <<0>> \in Seq(Octet) /\ <<0, 0>> \in Seq(Octet)
      /\ Len(<<>>) = 0 /\ Len(<<0>>) = 1 /\ Len(<<0, 0>>) = 2
  BY <1>1
<1> QED BY <1>2, <1>3

(* The codes from an element on, by the first packet.                      *)
FromBy(c, elements, i, packet) ==
  LET from == EncodeFrom(c.driver, elements)
  IN /\ from[i] = packet.codes \o from[i + packet.takes]
     /\ Small(packet, Len(elements) - i + 1, c.size)
     /\ i + packet.takes \in i + 1 .. Len(elements) + 1

LEMMA FromIs ==
  ASSUME NEW c \in Coding, NEW elements, ElementsOf(c, elements), NEW i \in 1 .. Len(elements),
         NEW packet, packet = Packet(c.driver, elements, i)
  PROVE  FromBy(c, elements, i, packet)
<1> DEFINE from == EncodeFrom(c.driver, elements)
<1>1. Len(elements) \in Nat /\ Moves(c.driver, elements)
  BY ElementsIs
<1>2. \A j \in 1 .. Len(elements) + 1 :
        from[j] = IF j <= Len(elements)
                  THEN Packet(c.driver, elements, j).codes \o from[j + Packet(c.driver, elements, j).takes]
                  ELSE LineEnd(c.driver)
  BY <1>1, EncodeFromIs
<1> HIDE DEF from
<1>3. i \in 1 .. Len(elements) + 1 /\ i <= Len(elements)
  BY <1>1
<1>4. from[i] = packet.codes \o from[i + packet.takes]
  BY <1>2, <1>3
<1>5. Small(packet, Len(elements) - i + 1, c.size)
  BY PacketSmall
<1>6. packet.takes \in 1 .. Len(elements) - i + 1
  BY <1>5 DEF Small
<1>7. i + packet.takes \in i + 1 .. Len(elements) + 1
  BY <1>1, <1>3, <1>6
<1> QED BY <1>4, <1>5, <1>7 DEF from, FromBy

LEMMA FromEnds ==
  ASSUME NEW c \in Coding, NEW elements, ElementsOf(c, elements)
  PROVE  EncodeFrom(c.driver, elements)[Len(elements) + 1] = LineEnd(c.driver)
<1>1. Len(elements) \in Nat /\ Moves(c.driver, elements)
  BY ElementsIs
<1> DEFINE i == Len(elements) + 1  from == EncodeFrom(c.driver, elements)
<1>2. i \in 1 .. Len(elements) + 1 /\ ~(i <= Len(elements))
  BY <1>1
<1>3. \A j \in 1 .. Len(elements) + 1 :
        from[j] = IF j <= Len(elements)
                  THEN Packet(c.driver, elements, j).codes \o from[j + Packet(c.driver, elements, j).takes]
                  ELSE LineEnd(c.driver)
  BY <1>1, EncodeFromIs
<1> HIDE DEF i, from
<1>4. from[i] = LineEnd(c.driver)
  BY <1>2, <1>3
<1> QED BY <1>4 DEF i, from

(* Induction over a line from its end.                                     *)
LEMMA FromTheEnd ==
  ASSUME NEW N \in Nat, NEW Bad, Bad \subseteq 1 .. N + 1,
         \A i \in 1 .. N + 1 : (\A j \in i + 1 .. N + 1 : j \notin Bad) => i \notin Bad
  PROVE  Bad = {}
<1> DEFINE Back == {N + 1 - i : i \in Bad}
<1>1. Back \subseteq Nat
  OBVIOUS
<1>2. ASSUME NEW n \in Nat, \A m \in 0 .. n - 1 : m \notin Back PROVE n \notin Back
  <2> SUFFICES ASSUME NEW i \in Bad, n = N + 1 - i PROVE FALSE
    OBVIOUS
  <2>1. i \in 1 .. N + 1
    OBVIOUS
  <2>2. ASSUME NEW j \in i + 1 .. N + 1 PROVE j \notin Bad
    <3> DEFINE m == N + 1 - j
    <3>1. m \in 0 .. n - 1
      BY <2>1
    <3>2. m \notin Back
      BY <1>2, <3>1
    <3> QED BY <3>2
  <2> QED BY <2>1, <2>2
<1>3. Back = {}
  <2> HIDE DEF Back
  <2> QED BY <1>1, <1>2, NoneIsFirstBad
<1> QED BY <1>3

(* A line coded is at most two bytes for each, and the code of its end.    *)
THEOREM CodeSmall ==
  ASSUME NEW c \in Coding, NEW elements, ElementsOf(c, elements)
  PROVE  LET from == EncodeFrom(c.driver, elements)
         IN \A i \in 1 .. Len(elements) + 1 :
              /\ from[i] \in Seq(Octet)
              /\ Len(from[i]) <= 2 * ((Len(elements) + 1 - i) * c.size) + Len(LineEnd(c.driver))
<1> DEFINE from == EncodeFrom(c.driver, elements)  N == Len(elements)
           most(i) == 2 * ((N + 1 - i) * c.size) + Len(LineEnd(c.driver))
           Holds(i) == from[i] \in Seq(Octet) /\ Len(from[i]) <= most(i)
           Bad == {i \in 1 .. N + 1 : ~Holds(i)}
<1>1. N \in Nat /\ c.size \in Nat \ {0} /\ c.driver \in Coder
  BY ElementsIs, CodingIs
<1>2. LineEnd(c.driver) \in Seq(Octet) /\ Len(LineEnd(c.driver)) \in Nat
  BY <1>1, LineEndIs
<1>3. ASSUME NEW i \in 1 .. N + 1, \A j \in i + 1 .. N + 1 : j \notin Bad PROVE Holds(i)
  <2>1. CASE i = N + 1
    <3>1. from[i] = LineEnd(c.driver)
      BY <2>1, FromEnds
    <3>2. (N + 1 - i) * c.size = 0
      BY <1>1, <2>1
    <3> HIDE DEF from
    <3> QED BY <1>2, <3>1, <3>2
  <2>2. CASE i # N + 1
    <3> DEFINE packet == Packet(c.driver, elements, i)  j == i + packet.takes
    <3>1. i \in 1 .. N
      BY <1>1, <2>2
    <3>2. from[i] = packet.codes \o from[j] /\ Small(packet, N - i + 1, c.size) /\ j \in i + 1 .. N + 1
      <4>1. packet = Packet(c.driver, elements, i)
        OBVIOUS
      <4> HIDE DEF packet
      <4>2. FromBy(c, elements, i, packet)
        BY <3>1, <4>1, FromIs
      <4> QED BY <4>2 DEF FromBy
    <3> HIDE DEF packet, from
    <3>3. packet.codes \in Seq(Octet) /\ packet.takes \in Nat /\ Len(packet.codes) <= 2 * (packet.takes * c.size)
      BY <1>1, <3>2 DEF Small
    <3>4. j \in 1 .. N + 1 /\ from[j] \in Seq(Octet) /\ Len(from[j]) <= most(j)
      BY <1>1, <1>3, <3>2
    <3>5. from[i] \in Seq(Octet) /\ Len(from[i]) = Len(packet.codes) + Len(from[j])
      BY <3>2, <3>3, <3>4
    <3> DEFINE a == packet.takes * c.size  b == (N + 1 - j) * c.size  e == (N + 1 - i) * c.size
    <3>7. a \in Nat /\ b \in Nat /\ e = a + b
      <4> DEFINE t == packet.takes  u == N + 1 - j  w == N + 1 - i  size == c.size
      <4>3. t \in Nat /\ j = i + t /\ j \in 1 .. N + 1 /\ i \in 1 .. N + 1
        BY <3>3, <3>4
      <4>1. t \in Nat /\ u \in Nat /\ w = t + u /\ size \in Nat
        <5> HIDE DEF t, j
        <5> QED BY <1>1, <4>3
      <4> HIDE DEF t, u, w, size
      <4>2. t * size \in Nat /\ u * size \in Nat /\ w * size = t * size + u * size
        BY <4>1
      <4> QED BY <4>2 DEF t, u, w, size
    <3>8. Len(packet.codes) <= 2 * a /\ Len(from[j]) <= 2 * b + Len(LineEnd(c.driver))
      BY <3>3, <3>4
    <3>9. Len(packet.codes) \in Nat /\ Len(from[j]) \in Nat
      BY SMTT(20), <3>3, <3>4
    <3> HIDE DEF a, b, e, j
    <3>10. Len(from[i]) <= 2 * e + Len(LineEnd(c.driver))
      <4> DEFINE x == Len(from[i])  y == Len(packet.codes)  z == Len(from[j])
                 w == Len(LineEnd(c.driver))
      <4>1. x = y + z /\ y \in Nat /\ z \in Nat /\ w \in Nat /\ y <= 2 * a /\ z <= 2 * b + w
        BY <1>2, <3>5, <3>8, <3>9
      <4> HIDE DEF x, y, z, w
      <4>2. x <= 2 * e + w
        BY <3>7, <4>1
      <4> QED BY <4>2 DEF x, w
    <3> QED BY <3>5, <3>10 DEF e
  <2> QED BY <2>1, <2>2
<1>4. Bad = {}
  <2> HIDE DEF Holds
  <2>1. Bad \subseteq 1 .. N + 1 /\ \A i \in 1 .. N + 1 : (\A j \in i + 1 .. N + 1 : j \notin Bad) => i \notin Bad
    BY <1>3
  <2> HIDE DEF Bad
  <2> QED BY <1>1, <2>1, FromTheEnd
<1>5. \A i \in 1 .. N + 1 : Holds(i)
  BY <1>4
<1> QED BY <1>5

LEMMA SGIFits ==
  ASSUME NEW c \in Coding, c.driver = "SGI", c.size = 1, Len(c.line) >= 4
  PROVE  Len(EncodeFrom(c.driver, c.line)[1]) <= 2 * Len(c.line)
<1> DEFINE L == c.line  N == Len(L)  from == EncodeFrom(c.driver, L)
           P == Packet(c.driver, L, 1)  j == 1 + P.takes  one == 1
<1>1. N \in Nat /\ N >= 4 /\ ElementsOf(c, L) /\ c.driver \in Coder
  BY CodingIs DEF ElementsOf
<1>2. FromBy(c, L, one, P)
  <2>1. one \in 1 .. Len(L) /\ P = Packet(c.driver, L, one)
    BY <1>1
  <2> HIDE DEF one, P, L
  <2> QED BY <1>1, <2>1, FromIs
<1>3. Len(P.codes) < 2 * P.takes
  <2>1. one \in 1 .. Len(c.line) /\ Len(c.line) - one >= 3
    BY <1>1
  <2>2. P = SGIPacket(c.line, one)
    BY DEF Packet
  <2> HIDE DEF one, P
  <2>3. Len(SGIPacket(c.line, one).codes) < 2 * SGIPacket(c.line, one).takes
    BY <2>1, SGIGood
  <2> QED BY <2>2, <2>3
<1>4. Len(LineEnd(c.driver)) = 1
  BY LineEndIs, <1>1
<1>5. \A i \in 1 .. N + 1 : from[i] \in Seq(Octet) /\ Len(from[i]) <= 2 * ((N + 1 - i) * c.size) + 1
  <2> HIDE DEF L
  <2> QED BY <1>1, <1>4, CodeSmall
<1> HIDE DEF from, P
<1>6. from[1] = P.codes \o from[j] /\ P.codes \in Seq(Octet) /\ P.takes \in 1 .. N /\ j \in 1 .. N + 1
  <2>1. from[1] = P.codes \o from[j] /\ Small(P, N - 1 + 1, c.size) /\ j \in 1 + 1 .. N + 1
    BY <1>2 DEF FromBy, from
  <2>2. P.codes \in Seq(Octet) /\ P.takes \in 1 .. N - 1 + 1
    BY <2>1 DEF Small
  <2>3. N - 1 + 1 = N
    BY <1>1
  <2> HIDE DEF j, N
  <2> QED BY <1>1, <2>1, <2>2, <2>3
<1>7. from[j] \in Seq(Octet) /\ Len(from[j]) <= 2 * (N - P.takes) + 1
  <2>1. from[j] \in Seq(Octet) /\ Len(from[j]) <= 2 * ((N + 1 - j) * c.size) + 1
    BY <1>5, <1>6
  <2>2. (N + 1 - j) * c.size = N - P.takes
    BY <1>1, <1>6
  <2> QED BY <2>1, <2>2
<1>8. Len(from[1]) = Len(P.codes) + Len(from[j]) /\ Len(P.codes) \in Nat /\ Len(from[j]) \in Nat
  BY <1>6, <1>7
<1> HIDE DEF N, j
<1>9. Len(from[1]) <= 2 * N
  <2> DEFINE x == Len(from[1])  y == Len(P.codes)  z == Len(from[j])  t == P.takes
  <2>1. x = y + z /\ y \in Nat /\ z \in Nat /\ y < 2 * t /\ z <= 2 * (N - t) + 1 /\ t \in 1 .. N
    BY <1>3, <1>6, <1>7, <1>8
  <2> HIDE DEF x, y, z, t
  <2>2. x <= 2 * N
    BY <1>1, <2>1
  <2> QED BY <2>2 DEF x
<1> QED BY <1>9 DEF from, N

LEMMA BMPTakes ==
  ASSUME NEW c \in Coding, c.driver = "BMP", NEW i \in 1 .. Len(c.line), i # Len(c.line),
         NEW P, P = BMPPacket(c.line, i)
  PROVE  /\ P.takes \in 1 .. Len(c.line) - i + 1
         /\ \/ P.takes > 1 /\ Len(P.codes) = 2
            \/ /\ \A k \in i .. Len(c.line) - 1 : c.line[k] = c.line[k + 1] => k >= i + P.takes
               /\ (\A k \in i .. Len(c.line) - 1 : c.line[k] # c.line[k + 1]) =>
                    P.takes = 255 \/ P.takes = Len(c.line) - i + 1
               /\ P.takes >= 4 => Len(P.codes) + 2 <= 2 * P.takes
<1> DEFINE L == c.line
           v == L[i]
           run == RunAt(L, i, 255)
           d == Differ(L, i)
           N == Len(L)
<1>1. L \in Seq(Octet) /\ N \in Nat /\ i \in 1 .. N /\ i \in Nat /\ \A k \in 1 .. N : L[k] \in Octet
  BY CodingIs
<1>2. run \in 1 .. 255 /\ RunIs(L, i, 255, run)
  <2> DEFINE most == 255
  <2>1. most \in Nat \ {0} /\ run = RunAt(c.line, i, most)
    OBVIOUS
  <2> HIDE DEF most, run
  <2>3. RunIs(L, i, most, run)
    BY <1>1, <2>1, RunAtIs
  <2>2. run \in 1 .. most
    BY <2>3 DEF RunIs
  <2> QED BY <2>2, <2>3 DEF most
<1>10. P = BMPPacket(L, i)
  OBVIOUS
<1>9. BMPPacket(L, i) =
          IF i = N THEN Codes(<<1, v>>, 1)
          ELSE IF run > 1 THEN Codes(<<run, v>>, run)
          ELSE IF d < 3
          THEN Codes([k \in 1 .. 2 * d |-> IF k % 2 = 1 THEN 1 ELSE L[i + (k \div 2) - 1]], d)
          ELSE Codes(<<0, d>> \o SubSeq(L, i, i + d - 1) \o Repeat(0, d % 2), d)
  <2> HIDE DEF L
  <2> QED BY DEF BMPPacket
<1>0. P.takes \in 1 .. N - i + 1
  <2>1. Good(c, i - 1, BMPPacket(c.line, i), Len(c.line) - i + 1, 1)
    BY BMPGood
  <2> QED BY <2>1 DEF Good
<1> HIDE DEF run, d, N
<1>3. CASE run > 1
  <2>1. P.takes = run /\ P.codes = <<run, v>>
    BY <1>3, <1>9, <1>10 DEF Codes, N
  <2>2. Len(P.codes) = 2
    BY <2>1
  <2> QED BY <1>0, <1>3, <2>1, <2>2 DEF N
<1>4. CASE run = 1
  <2>1. /\ d \in 1 .. 255 /\ d <= Len(L) - i + 1
        /\ \A k \in i .. Len(L) - 1 : L[k] = L[k + 1] => k >= i + d
        /\ (\A k \in i .. Len(L) - 1 : L[k] # L[k + 1]) => d = 255 \/ d = Len(L) - i + 1
    <3>1. RunIs(L, i, 255, 1) /\ i < Len(L)
      BY <1>1, <1>2, <1>4 DEF N
    <3> QED BY <1>1, <3>1, DifferIs DEF d, N
  <2>2. CASE d < 3
    <3>0. ~(run > 1) /\ i # N
      BY <1>4 DEF N
    <3>1. P.takes = d
      <4> DEFINE pairs == [k \in 1 .. 2 * d |-> IF k % 2 = 1 THEN 1 ELSE L[i + (k \div 2) - 1]]
      <4> HIDE DEF pairs
      <4>1. P = Codes(pairs, d)
        BY <1>9, <1>10, <2>2, <3>0 DEF pairs
      <4> QED BY <4>1 DEF Codes
    <3>2. ~(P.takes >= 4)
      <4>1. d \in 1 .. 255
        BY <2>1
      <4> QED BY <2>2, <3>1, <4>1
    <3> QED BY <1>0, <2>1, <3>1, <3>2 DEF N
  <2>3. CASE ~(d < 3)
    <3> DEFINE bytes == SubSeq(L, i, i + d - 1)
               coded == <<0, d>> \o bytes \o Repeat(0, d % 2)
    <3>1. bytes \in Seq(Octet) /\ Len(bytes) = d
      <4>1. i \in Nat \ {0} /\ d \in Nat /\ i + d - 1 <= Len(L)
        BY <1>1, <2>1 DEF N
      <4> HIDE DEF L
      <4> QED BY <1>1, <4>1, PieceIs
    <3>2. P.takes = d /\ P.codes = coded
      <4>1. ~(run > 1)
        BY <1>4
      <4> HIDE DEF coded
      <4>2. P = Codes(coded, d)
        BY <1>9, <1>10, <2>3, <4>1 DEF coded, N
      <4> QED BY <4>2 DEF Codes
    <3> HIDE DEF bytes
    <3>3. coded = Stretch(bytes)
      BY <3>1 DEF Stretch
    <3>4. Len(bytes) \in 3 .. 255
      BY <2>1, <2>3, <3>1
    <3>5. Len(Stretch(bytes)) = 2 + Len(bytes) + (Len(bytes) % 2)
      BY <3>1, <3>4, StretchIs
    <3> HIDE DEF coded
    <3>6. P.takes >= 4 => Len(P.codes) + 2 <= 2 * P.takes
      <4>1. Len(P.codes) = 2 + d + (d % 2) /\ P.takes = d
        BY <3>1, <3>2, <3>3, <3>5
      <4>2. d >= 4 => 2 + d + (d % 2) + 2 <= 2 * d
        BY <2>1
      <4> QED BY <4>1, <4>2
    <3>7. P.takes = d
      BY <3>2
    <3> QED BY <1>0, <2>1, <3>6, <3>7 DEF N
  <2> QED BY <2>2, <2>3
<1> QED BY <1>2, <1>3, <1>4

(* Two bytes that are the same save two, and without them a long stretch   *)
(* does.                                                                   *)
LEMMA BMPFits ==
  ASSUME NEW c \in Coding, c.driver = "BMP", c.size = 1, Len(c.line) >= 4
  PROVE  Len(EncodeFrom(c.driver, c.line)[1]) <= 2 * Len(c.line)
<1> DEFINE L == c.line  N == Len(L)  from == EncodeFrom(c.driver, L)
           Twins(i) == \E k \in i .. N - 1 : L[k] = L[k + 1]
           Holds(i) == Twins(i) \/ N - i + 1 >= 4 => Len(from[i]) <= 2 * (N + 1 - i)
           Bad == {i \in 1 .. N + 1 : ~Holds(i)}
<1>1. N \in Nat /\ N >= 4 /\ ElementsOf(c, L) /\ c.driver \in Coder
  BY CodingIs DEF ElementsOf
<1>2. \A i \in 1 .. N + 1 : from[i] \in Seq(Octet) /\ Len(from[i]) \in Nat /\ Len(from[i]) <= 2 * (N + 1 - i) + 2
  <2>1. Len(LineEnd(c.driver)) = 2
    BY LineEndIs, <1>1
  <2>2. \A i \in 1 .. N + 1 : from[i] \in Seq(Octet) /\ Len(from[i]) <= 2 * ((N + 1 - i) * c.size) + 2
    <3> HIDE DEF L
    <3> QED BY <1>1, <2>1, CodeSmall
  <2>3. ASSUME NEW i \in 1 .. N + 1 PROVE (N + 1 - i) * c.size = N + 1 - i
    BY <1>1
  <2> HIDE DEF from
  <2> QED BY <2>2, <2>3
<1>3. ASSUME NEW i \in 1 .. N + 1, \A j \in i + 1 .. N + 1 : j \notin Bad PROVE Holds(i)
  <2> SUFFICES ASSUME Twins(i) \/ N - i + 1 >= 4 PROVE Len(from[i]) <= 2 * (N + 1 - i)
    OBVIOUS
  <2>1. i \in 1 .. N /\ i # N /\ i \in Nat
    BY <1>1
  <2> DEFINE P == Packet(c.driver, L, i)  t == P.takes  j == i + t
  <2>2. FromBy(c, L, i, P)
    <3>1. P = Packet(c.driver, L, i)
      OBVIOUS
    <3> HIDE DEF P, L
    <3> QED BY <1>1, <2>1, <3>1, FromIs
  <2>3. P = BMPPacket(L, i)
    BY DEF Packet
  <2> HIDE DEF from, P
  <2>4. from[i] = P.codes \o from[j] /\ P.codes \in Seq(Octet) /\ t \in Nat /\ Len(P.codes) <= 2 * t
        /\ j \in i + 1 .. N + 1
    <3>1. from[i] = P.codes \o from[j] /\ Small(P, N - i + 1, 1) /\ j \in i + 1 .. N + 1
      BY <2>2 DEF FromBy, from
    <3>2. P.codes \in Seq(Octet) /\ P.takes \in 1 .. N - i + 1 /\ Len(P.codes) <= 2 * (P.takes * 1)
      BY <3>1 DEF Small
    <3> HIDE DEF j, N
    <3> QED BY <1>1, <3>1, <3>2
  <2>5. /\ t \in 1 .. N - i + 1
        /\ \/ t > 1 /\ Len(P.codes) = 2
           \/ /\ \A k \in i .. N - 1 : L[k] = L[k + 1] => k >= i + t
              /\ (\A k \in i .. N - 1 : L[k] # L[k + 1]) => t = 255 \/ t = N - i + 1
              /\ t >= 4 => Len(P.codes) + 2 <= 2 * t
    <3> HIDE DEF L
    <3> QED BY <2>1, <2>3, BMPTakes DEF L
  <2>6. Len(from[i]) = Len(P.codes) + Len(from[j]) /\ Len(P.codes) \in Nat /\ Len(from[j]) \in Nat
        /\ Len(from[j]) <= 2 * (N + 1 - j) + 2
    <3>1. from[j] \in Seq(Octet) /\ Len(from[j]) \in Nat /\ Len(from[j]) <= 2 * (N + 1 - j) + 2
      <4>1. j \in 1 .. N + 1
        BY <1>1, <2>1, <2>4
      <4> HIDE DEF j
      <4> QED BY <1>2, <4>1
    <3> QED BY SMTT(20), <2>4, <3>1
  <2>9. \/ Len(P.codes) <= 2 * t /\ Len(from[j]) <= 2 * (N + 1 - j)
        \/ Len(P.codes) + 2 <= 2 * t
        => Len(from[i]) <= 2 * (N + 1 - i)
    <3> DEFINE x == Len(from[i])  y == Len(P.codes)  z == Len(from[j])
    <3>1. x = y + z /\ y \in Nat /\ z \in Nat /\ z <= 2 * (N + 1 - j) + 2 /\ j = i + t /\ t \in Nat
      BY <2>4, <2>6
    <3> DEFINE u == N + 1 - j  w == N + 1 - i
    <3> HIDE DEF x, y, z, t
    <3>2. w = u + t /\ u \in Int /\ w \in Int
      <4> HIDE DEF j, N
      <4> QED BY <1>1, <2>1, <3>1
    <3>3. z <= 2 * u + 2
      BY <3>1
    <3> HIDE DEF j, N, u, w
    <3>4. ASSUME y <= 2 * t /\ z <= 2 * u PROVE x <= 2 * w
      BY <3>1, <3>2, <3>4
    <3>5. ASSUME y + 2 <= 2 * t PROVE x <= 2 * w
      BY <3>1, <3>2, <3>3, <3>5
    <3> QED BY <3>4, <3>5 DEF x, y, z, u, w
  <2>7. CASE t > 1 /\ Len(P.codes) = 2
    <3> HIDE DEF N, t
    <3> QED BY <1>1, <2>1, <2>4, <2>6, <2>7
  <2>8. CASE /\ \A k \in i .. N - 1 : L[k] = L[k + 1] => k >= i + t
             /\ (\A k \in i .. N - 1 : L[k] # L[k + 1]) => t = 255 \/ t = N - i + 1
             /\ t >= 4 => Len(P.codes) + 2 <= 2 * t
    <3>1. CASE Twins(i)
      <4>1. PICK k \in i .. N - 1 : L[k] = L[k + 1]
        BY <3>1
      <4>2. k >= j /\ k \in Nat
        BY <2>1, <2>8, <4>1
      <4>3. k \in j .. N - 1
        BY <1>1, <2>4, <4>2
      <4>4. Twins(j)
        BY <4>1, <4>3
      <4> HIDE DEF Twins
      <4>5. Len(from[j]) <= 2 * (N + 1 - j)
        <5>1. j \in 1 .. N + 1
          BY <1>1, <2>1, <2>4
        <5> HIDE DEF j
        <5> QED BY <1>3, <2>4, <4>4, <5>1
      <4> QED BY <2>4, <2>6, <2>9, <4>5
    <3>2. CASE ~Twins(i)
      <4>1. \A k \in i .. N - 1 : L[k] # L[k + 1]
        BY <3>2
      <4>2. t = 255 \/ t = N - i + 1
        BY <2>8, <4>1
      <4>3. N - i + 1 >= 4
        BY <3>2
      <4>4. t >= 4
        BY <4>2, <4>3
      <4>5. Len(P.codes) + 2 <= 2 * t
        BY <2>8, <4>4
      <4> QED BY <2>6, <2>9, <4>5
    <3> QED BY <3>1, <3>2
  <2> QED BY <2>5, <2>7, <2>8
<1>4. Bad = {}
  <2> HIDE DEF Holds
  <2>1. Bad \subseteq 1 .. N + 1 /\ \A i \in 1 .. N + 1 : (\A j \in i + 1 .. N + 1 : j \notin Bad) => i \notin Bad
    BY <1>3
  <2> HIDE DEF Bad, N
  <2> QED BY <1>1, <2>1, FromTheEnd
<1>5. Holds(1)
  <2> HIDE DEF Holds
  <2>1. 1 \in 1 .. N + 1
    BY <1>1
  <2> QED BY <1>4, <2>1
<1>6. N - 1 + 1 >= 4 /\ 2 * (N + 1 - 1) = 2 * N
  BY <1>1
<1> QED BY <1>5, <1>6

(* What the decoder makes of a file that has the codes: the rest of the    *)
(* line, and it is behind them; but SGI does not read the code of the end. *)
(* Where the file ends within them it fails, but for that code.            *)
Comes(c, have, codes) ==
  /\ \A here : HasAt(c.file, here, codes) =>
       \E next : Reads(c, here, have, next) /\ (c.driver # "SGI" => next = here + Len(codes))
  /\ c.driver # "SGI" => \A here : EndsIn(c.file, here, codes) => Fails(c, here, have)

LEMMA ComesThen ==
  ASSUME NEW c \in Coding, NEW have, NEW later, NEW codes \in Seq(Octet), NEW rest \in Seq(Octet),
         NEW bytes, Sound(c, have, codes, bytes), later = have + bytes, Comes(c, later, rest)
  PROVE  Comes(c, have, codes \o rest)
<1>1. c.file \in Seq(Octet) /\ Len(c.file) \in Nat
  BY CodingIs
<1>2. Len(codes) \in Nat /\ Len(rest) \in Nat /\ Len(codes \o rest) = Len(codes) + Len(rest)
  OBVIOUS
<1>3. ASSUME NEW here, HasAt(c.file, here, codes \o rest)
      PROVE  \E next : Reads(c, here, have, next) /\ (c.driver # "SGI" => next = here + Len(codes \o rest))
  <2>1. HasAt(c.file, here, codes) /\ HasAt(c.file, here + Len(codes), rest)
    BY <1>1, <1>3, HasBoth
  <2>2. Leads(c, here, have, here + Len(codes), later)
    BY <2>1 DEF Sound
  <2>3. PICK next : /\ Reads(c, here + Len(codes), later, next)
                    /\ c.driver # "SGI" => next = here + Len(codes) + Len(rest)
    BY <2>1 DEF Comes
  <2>4. Reads(c, here, have, next)
    BY <2>2, <2>3 DEF Leads
  <2>5. here \in Nat
    BY <1>1, <2>1 DEF HasAt
  <2>6. here + Len(codes) + Len(rest) = here + Len(codes \o rest)
    BY <1>2, <2>5
  <2> QED BY <2>3, <2>4, <2>6
<1>4. ASSUME c.driver # "SGI", NEW here, EndsIn(c.file, here, codes \o rest)
      PROVE  Fails(c, here, have)
  <2>1. EndsIn(c.file, here, codes) \/ (HasAt(c.file, here, codes) /\ EndsIn(c.file, here + Len(codes), rest))
    BY <1>1, <1>4, HasBoth
  <2>2. CASE EndsIn(c.file, here, codes)
    BY <2>2 DEF Sound
  <2>3. CASE HasAt(c.file, here, codes) /\ EndsIn(c.file, here + Len(codes), rest)
    <3>1. Leads(c, here, have, here + Len(codes), later)
      BY <2>3 DEF Sound
    <3>2. Fails(c, here + Len(codes), later)
      BY <1>4, <2>3 DEF Comes
    <3> QED BY <3>1, <3>2 DEF Leads
  <2> QED BY <2>1, <2>2, <2>3
<1> QED BY <1>3, <1>4 DEF Comes

(* The end of the line.                                                    *)
LEMMA ComesEnd ==
  ASSUME NEW c \in Coding, NEW have, have = Len(c.line)
  PROVE  Comes(c, have, LineEnd(c.driver))
<1> DEFINE F == Len(c.file)  codes == LineEnd(c.driver)
<1>1. /\ c.file \in Seq(Octet) /\ F \in Nat /\ Len(c.line) \in Nat /\ c.driver \in Coder
      /\ c.size \in Nat \ {0} /\ have \in 0 .. Len(c.line) /\ c.line \in Seq(Octet)
  BY CodingIs
<1>2. codes = IF c.driver = "SGI" THEN <<0>> ELSE IF c.driver = "BMP" THEN <<0, 0>> ELSE <<>>
  BY <1>1, LineEndIs
<1>3. Rest(c.line, have) = <<>>
  <2>1. Rest(c.line, have) \in Seq(Octet) /\ Len(Rest(c.line, have)) = 0
    <3>1. /\ Rest(c.line, have) \in Seq(Octet) /\ Len(Rest(c.line, have)) = Len(c.line) - have
      BY <1>1, RestIs
    <3>2. Len(c.line) - have = 0
      BY <1>1
    <3> QED BY <3>1, <3>2
  <2> QED BY <2>1
<1>4. ASSUME NEW here \in 1 .. F + 1
      PROVE  From(c)[<<here, have>>] = Body(c.driver, c.file, c.size, Len(c.line), From(c), here, have)
  BY <1>1, GoesOn
<1> HIDE DEF F, codes
<1>5. CASE c.driver # "BMP"
  <2>1. ASSUME NEW here \in 1 .. F + 1 PROVE Reads(c, here, have, here)
    <3>1. From(c)[<<here, have>>] = [line |-> <<>>, next |-> here, ok |-> TRUE]
      BY <1>4, <1>5 DEF Body
    <3> QED BY <1>3, <3>1 DEF Reads
  <2>2. c.driver # "SGI" => codes = <<>> /\ Len(codes) = 0
    BY <1>2, <1>5
  <2>3. ASSUME NEW here, HasAt(c.file, here, codes)
        PROVE  \E next : Reads(c, here, have, next) /\ (c.driver # "SGI" => next = here + Len(codes))
    <3>1. here \in 1 .. F + 1
      BY <2>3 DEF HasAt, F
    <3>2. c.driver # "SGI" => here = here + Len(codes)
      BY <1>1, <2>2, <3>1
    <3> QED BY <2>1, <3>1, <3>2
  <2>4. ASSUME c.driver # "SGI", NEW here, EndsIn(c.file, here, codes) PROVE FALSE
    <3>1. here \in 1 .. F + 1 /\ here + 0 > F + 1
      BY <2>2, <2>4 DEF EndsIn, F
    <3> QED BY <1>1, <3>1
  <2> QED BY <2>3, <2>4 DEF Comes, codes
<1>6. CASE c.driver = "BMP"
  <2> DEFINE a(here) == ByteAt(c.file, here)
  <2>0. codes = <<0, 0>> /\ Len(codes) = 2 /\ codes[1] = 0 /\ codes[2] = 0
    BY <1>2, <1>6
  <2>1. ASSUME NEW here, a(here) = 0, a(here + 1) = 0
        PROVE  CodeAt(c.driver, c.file, here, c.size) = [Makes(<<>>, here + 2) EXCEPT !.ends = TRUE]
    BY <1>6, <2>1, BMPCodeIs DEF BMPAt
  <2>2. ASSUME NEW here, HasAt(c.file, here, codes) PROVE Reads(c, here, have, here + 2)
    <3>1. here \in 1 .. F + 1 /\ here + 2 <= F + 1
      BY <2>0, <2>2 DEF HasAt, F
    <3>2. a(here) = 0 /\ a(here + 1) = 0
      BY <1>1, <2>0, <2>2 DEF HasAt, ByteAt, F
    <3> DEFINE code == CodeAt(c.driver, c.file, here, c.size)
               bytes == SubSeq(code.bytes, 1, Min({Len(code.bytes), Len(c.line) - have}))
    <3>3. code = [Makes(<<>>, here + 2) EXCEPT !.ends = TRUE]
      BY <2>1, <3>2
    <3>4. code.bytes = <<>> /\ code.next = here + 2 /\ code.ends = TRUE
      BY <3>3 DEF Makes
    <3> HIDE DEF code
    <3>5. bytes = <<>>
      <4>1. Len(code.bytes) = 0 /\ Len(c.line) - have = 0
        BY <1>1, <3>4
      <4>2. Min({0, 0}) = 0
        BY MinOfTwo
      <4>3. bytes = SubSeq(<<>>, 1, 0)
        BY <3>4, <4>1, <4>2
      <4> HIDE DEF bytes
      <4> QED BY <4>3
    <3>6. From(c)[<<here, have>>] =
            [line |-> bytes, next |-> code.next, ok |-> code.next <= Len(c.file) + 1]
      BY <1>4, <1>6, <3>1, <3>4 DEF Body, code
    <3>7. (code.next <= Len(c.file) + 1) = TRUE
      BY <1>1, <3>1, <3>4 DEF F
    <3> DEFINE ok == code.next <= Len(c.file) + 1
    <3>8. ok = TRUE
      BY <3>7
    <3> HIDE DEF bytes, ok
    <3>9. From(c)[<<here, have>>] = [line |-> bytes, next |-> code.next, ok |-> ok]
      BY <3>6 DEF ok
    <3> QED BY <1>3, <3>4, <3>5, <3>8, <3>9 DEF Reads
  <2>3. ASSUME NEW here, EndsIn(c.file, here, codes) PROVE Fails(c, here, have)
    <3>1. here \in 1 .. F + 1 /\ here + 2 > F + 1
      BY <2>0, <2>3 DEF EndsIn, F
    <3>2. a(here) = 0 /\ a(here + 1) = 0
      BY SMTT(20), <1>1, <2>0, <2>3, <3>1 DEF EndsIn, ByteAt, F
    <3>3. CodeAt(c.driver, c.file, here, c.size).next = here + 2
      BY <2>1, <3>2 DEF Makes
    <3>4. CodeAt(c.driver, c.file, here, c.size).next > Len(c.file) + 1
      BY <3>1, <3>3 DEF F
    <3> QED BY <1>1, <1>6, <3>1, <3>4, CodeFails DEF F
  <2>4. \A here : here + Len(codes) = here + 2
    BY <2>0
  <2> QED BY <1>6, <2>2, <2>3, <2>4 DEF Comes, codes
<1> QED BY <1>5, <1>6

(* Of a line of any length, coded by any of the five encoders, its decoder *)
(* makes the line, wherever in a file the codes are and whatever is behind *)
(* them; where the file ends within them it notices.  Sun Raster does so   *)
(* when the line has no run of 256 bytes.                                  *)
THEOREM LineComes ==
  ASSUME NEW c \in Coding, NEW elements, ElementsOf(c, elements), ~Losing(c)
  PROVE  Comes(c, 0, EncodeFrom(c.driver, elements)[1])
<1> DEFINE from == EncodeFrom(c.driver, elements)  N == Len(elements)
           Holds(i) == Comes(c, (i - 1) * c.size, from[i])
           Bad == {i \in 1 .. N + 1 : ~Holds(i)}
<1>1. N \in Nat /\ c.size \in Nat \ {0} /\ Len(c.line) = N * c.size
  BY ElementsIs
<1>2. \A i \in 1 .. N + 1 : from[i] \in Seq(Octet)
  BY CodeSmall
<1>3. ASSUME NEW i \in 1 .. N + 1, \A j \in i + 1 .. N + 1 : j \notin Bad PROVE Holds(i)
  <2>1. CASE i = N + 1
    <3>1. from[i] = LineEnd(c.driver)
      BY <2>1, FromEnds
    <3>2. (i - 1) * c.size = Len(c.line)
      BY <1>1, <2>1
    <3> DEFINE have == (i - 1) * c.size
    <3> HIDE DEF from, have
    <3>3. Comes(c, have, LineEnd(c.driver))
      BY <3>2, ComesEnd DEF have
    <3> QED BY <3>1, <3>3 DEF have
  <2>2. CASE i # N + 1
    <3> DEFINE P == Packet(c.driver, elements, i)  j == i + P.takes
               have == (i - 1) * c.size  later == (j - 1) * c.size  bytes == P.takes * c.size
    <3>1. i \in 1 .. N
      BY <1>1, <2>2
    <3>2. FromBy(c, elements, i, P)
      <4>1. P = Packet(c.driver, elements, i)
        OBVIOUS
      <4> HIDE DEF P
      <4> QED BY <3>1, <4>1, FromIs
    <3>3. Sound(c, have, P.codes, bytes)
      <4>1. P = Packet(c.driver, elements, i)
        OBVIOUS
      <4> HIDE DEF P
      <4> QED BY <3>1, <4>1, PacketSound
    <3> HIDE DEF P, from
    <3>4. from[i] = P.codes \o from[j] /\ P.codes \in Seq(Octet) /\ P.takes \in Nat /\ j \in i + 1 .. N + 1
      BY <1>1, <3>1, <3>2 DEF FromBy, Small, from
    <3>5. j \in 1 .. N + 1 /\ from[j] \in Seq(Octet) /\ Comes(c, later, from[j])
      BY <1>1, <1>2, <1>3, <3>1, <3>4
    <3>6. later = have + bytes
      <4> DEFINE t == P.takes  size == c.size  u == i - 1
      <4>1. t \in Nat /\ size \in Nat /\ u \in Nat /\ j - 1 = u + t
        BY <1>1, <3>1, <3>4
      <4> HIDE DEF t, size, u, j
      <4>2. (j - 1) * size = u * size + t * size
        BY <4>1
      <4> QED BY <4>2 DEF t, size, u
    <3> HIDE DEF have, later, bytes, j
    <3>7. Comes(c, have, P.codes \o from[j])
      BY <3>3, <3>4, <3>5, <3>6, ComesThen
    <3> QED BY <3>4, <3>7 DEF have
  <2> QED BY <2>1, <2>2
<1>4. Bad = {}
  <2> HIDE DEF Holds
  <2>1. Bad \subseteq 1 .. N + 1 /\ \A i \in 1 .. N + 1 : (\A j \in i + 1 .. N + 1 : j \notin Bad) => i \notin Bad
    BY <1>3
  <2> HIDE DEF Bad
  <2> QED BY <1>1, <2>1, FromTheEnd
<1>5. Holds(1)
  <2> HIDE DEF Holds
  <2>1. 1 \in 1 .. N + 1
    BY <1>1
  <2> QED BY <1>4, <2>1
<1>6. (1 - 1) * c.size = 0
  BY <1>1
<1> QED BY <1>5, <1>6

-----------------------------------------------------------------------------
(* The images.                                                             *)
(* What an image and its file's mode are.                                  *)
LEMMA ImageIs ==
  ASSUME NEW p, AnImage(p)
  PROVE  /\ p.driver \in Coder /\ p.rle \in BOOLEAN /\ p.mode \in Modes /\ FileMode(p) \in Modes
         /\ p.width \in Nat \ {0} /\ p.height \in Nat \ {0}
         /\ SpaceDepth(p.space) \in {1, 3} /\ (SpaceDepth(p.space) = 3 <=> p.space = "RGB")
         /\ FileDepth(p) = SpaceDepth(p.space) + (IF FileMode(p).alpha THEN 1 ELSE 0)
         /\ FileDepth(p) \in 1 .. 4
         /\ (FileMode(p).packed <=> p.space = "RGB" /\ p.driver # "SGI")
         /\ (FileMode(p).alpha => p.mode.alpha)
         /\ (p.driver = "PCX" => ~FileMode(p).alpha)
         /\ (p.driver # "SGI" /\ ~FileMode(p).packed => FileDepth(p) = 1)
         /\ (FileMode(p).packed => FileDepth(p) \in 3 .. 4)
         /\ (Bits(p) => p.space = "BINARY" /\ p.driver \in {"PCX", "RAS", "BMP"})
         /\ LineSize(p) \in Nat \ {0}
<1>1. /\ p.driver \in Coder /\ p.rle \in BOOLEAN /\ p.mode \in Modes
      /\ p.width \in Nat \ {0} /\ p.height \in Nat \ {0} /\ p.space \in {"GRAY", "RGB", "BINARY"}
  BY DEF AnImage, Coder
<1>2. FileMode(p) \in Modes /\ (FileMode(p).packed <=> p.space = "RGB" /\ p.driver # "SGI")
      /\ (FileMode(p).alpha => p.mode.alpha) /\ (p.driver = "PCX" => ~FileMode(p).alpha)
      /\ (FileMode(p).alpha => p.space = "RGB" \/ p.driver = "SGI")
  <2> DEFINE a == p.mode.alpha /\ (p.space = "RGB" \/ p.driver = "SGI") /\ p.driver # "PCX"
             k == p.space = "RGB" /\ p.driver # "SGI"
             t == p.driver \in {"PCX", "RAS"}
  <2>1. a \in BOOLEAN /\ k \in BOOLEAN /\ t \in BOOLEAN
    BY <1>1
  <2>2. FileMode(p) = [alpha |-> a, packed |-> k, topdown |-> t]
    BY DEF FileMode
  <2>3. /\ a => p.mode.alpha /\ p.driver # "PCX" /\ (p.space = "RGB" \/ p.driver = "SGI")
        /\ k <=> p.space = "RGB" /\ p.driver # "SGI"
    OBVIOUS
  <2> HIDE DEF a, k, t
  <2>4. FileMode(p).alpha = a /\ FileMode(p).packed = k /\ FileMode(p) \in Modes
    BY <2>1, <2>2 DEF Modes
  <2> QED BY <2>3, <2>4
<1>3. SpaceDepth(p.space) \in {1, 3} /\ (SpaceDepth(p.space) = 3 <=> p.space = "RGB")
  BY <1>1 DEF SpaceDepth
<1>4. FileDepth(p) = SpaceDepth(p.space) + (IF FileMode(p).alpha THEN 1 ELSE 0)
  BY DEF FileDepth, Depth
<1>5. FileDepth(p) \in 1 .. 4
  BY <1>3, <1>4
<1>6. p.driver # "SGI" /\ ~FileMode(p).packed => FileDepth(p) = 1
  BY <1>2, <1>3, <1>4
<1>7. FileMode(p).packed => FileDepth(p) \in 3 .. 4
  BY <1>2, <1>3, <1>4
<1>8. LineSize(p) \in Nat \ {0}
  <2> DEFINE w == p.width  n == IF FileMode(p).packed THEN FileDepth(p) ELSE 1
  <2>1. w \in Nat \ {0} /\ n \in Nat \ {0}
    BY <1>1, <1>5
  <2>2. LineSize(p) = w * n
    BY DEF LineSize
  <2> HIDE DEF w, n
  <2> QED BY <2>1, <2>2
<1> QED BY <1>1, <1>2, <1>3, <1>4, <1>5, <1>6, <1>7, <1>8 DEF Bits

(* Whole words hold the bytes or the bits of a line.                       *)
LEMMA AlignedIs ==
  ASSUME NEW n \in Nat \ {0}, NEW bytes \in {2, 4}
  PROVE  /\ Aligned(n, 8, bytes) \in Nat /\ n <= Aligned(n, 8, bytes)
         /\ Aligned(n, 8, bytes) < n + bytes
         /\ Aligned(n, 1, bytes) \in Nat /\ (n + 7) \div 8 <= Aligned(n, 1, bytes)
         /\ Aligned(n, 1, bytes) <= n + bytes - 1 /\ bytes <= Aligned(n, 1, bytes)
  BY DEF Aligned

LEMMA RawSizeIs ==
  ASSUME NEW p, AnImage(p)
  PROVE  /\ RawSize(p) \in Nat \ {0}
         /\ ~Bits(p) => LineSize(p) <= RawSize(p)
         /\ Bits(p) => (p.width + 7) \div 8 <= RawSize(p)
         /\ Bits(p) => LineSize(p) = p.width
         /\ p.driver \in {"TGA", "SGI"} => RawSize(p) = LineSize(p)
         /\ p.driver = "RAS" => RawSize(p) <= LineSize(p) + 1
         /\ p.driver = "PCX" /\ p.space = "RGB" =>
              /\ RawSize(p) = 3 * (RawSize(p) \div 3) /\ p.width <= RawSize(p) \div 3
              /\ LineSize(p) = 3 * p.width
<1> DEFINE w == p.width  D == FileDepth(p)  planes == IF FileMode(p).packed THEN D ELSE 1
           bpp == IF Bits(p) THEN 1 ELSE 8
<1>1. /\ w \in Nat \ {0} /\ D \in 1 .. 4 /\ planes \in 1 .. 4 /\ p.driver \in Coder
      /\ LineSize(p) = w * planes
      /\ (Bits(p) => planes = 1 /\ p.driver \in {"PCX", "RAS", "BMP"})
      /\ (p.driver = "PCX" /\ p.space = "RGB" => planes = 3 /\ ~Bits(p))
      /\ (p.driver = "PCX" /\ p.space # "RGB" => planes = 1)
      /\ bpp \in {1, 8} /\ (Bits(p) <=> bpp = 1)
  BY ImageIs DEF LineSize, Bits
<1>2. RawSize(p) = IF p.driver = "PCX" THEN Aligned(w, bpp, 2) * planes
                   ELSE IF p.driver = "RAS" THEN Aligned(w, bpp * planes, 2)
                   ELSE IF p.driver = "BMP" THEN Aligned(w, bpp * planes, 4)
                   ELSE w * planes
  <2>1. CASE p.driver = "PCX"
    BY <2>1 DEF RawSize
  <2>2. CASE p.driver = "RAS"
    BY <2>2 DEF RawSize
  <2>3. CASE p.driver = "BMP"
    BY <2>3 DEF RawSize
  <2>4. CASE p.driver \in {"TGA", "SGI"}
    BY <1>1, <2>4 DEF RawSize
  <2> QED BY <1>1, <2>1, <2>2, <2>3, <2>4 DEF Coder
<1> DEFINE size == w * planes
<1>3. size \in Nat \ {0} /\ w * 1 = w
  <2> HIDE DEF w, planes
  <2> QED BY <1>1
<1>4. \A bytes \in {2, 4} : Aligned(w, 8 * planes, bytes) = Aligned(size, 8, bytes)
  <2>1. w * (8 * planes) = size * 8
    <3> HIDE DEF w, planes
    <3> QED BY <1>1 DEF size
  <2> QED BY <2>1 DEF Aligned
<1> HIDE DEF w, D, planes, bpp, size
<1>5. CASE p.driver = "PCX" /\ p.space = "RGB"
  <2> DEFINE a == Aligned(w, 8, 2)
  <2>1. a \in Nat /\ w <= a
    BY <1>1, AlignedIs
  <2>2. RawSize(p) = a * 3 /\ LineSize(p) = w * 3 /\ ~Bits(p)
    BY <1>1, <1>2, <1>5
  <2> HIDE DEF a
  <2>3. (3 * a) \div 3 = a /\ a * 3 = 3 * a
    BY <2>1
  <2> QED BY <1>1, <1>5, <2>1, <2>2, <2>3 DEF w
<1>6. CASE p.driver = "PCX" /\ p.space # "RGB"
  <2> DEFINE a == Aligned(w, bpp, 2)
  <2>1. /\ a \in Nat \ {0} /\ (bpp = 8 => w <= a) /\ (bpp = 1 => (w + 7) \div 8 <= a)
    BY <1>1, AlignedIs
  <2>2. RawSize(p) = a * 1 /\ LineSize(p) = w * 1
    BY <1>1, <1>2, <1>6
  <2> HIDE DEF a
  <2> QED BY <1>1, <1>6, <2>1, <2>2 DEF w
<1>7. ASSUME NEW bytes \in {2, 4}, RawSize(p) = Aligned(w, bpp * planes, bytes)
      PROVE  /\ RawSize(p) \in Nat \ {0}
             /\ ~Bits(p) => LineSize(p) <= RawSize(p)
             /\ Bits(p) => (w + 7) \div 8 <= RawSize(p)
             /\ Bits(p) => LineSize(p) = w
             /\ RawSize(p) <= LineSize(p) + bytes - 1
  <2>1. CASE Bits(p)
    <3>1. bpp * planes = 1 /\ LineSize(p) = w
      BY <1>1, <2>1
    <3> QED BY <1>1, <1>7, <2>1, <3>1, AlignedIs
  <2>2. CASE ~Bits(p)
    <3>1. RawSize(p) = Aligned(size, 8, bytes) /\ LineSize(p) = size
      BY <1>1, <1>4, <1>7, <2>2 DEF size
    <3> QED BY <1>1, <1>3, <2>2, <3>1, AlignedIs
  <2> QED BY <2>1, <2>2
<1>8. CASE p.driver \in {"TGA", "SGI"}
  BY <1>1, <1>2, <1>3, <1>8 DEF size
<1>9. CASE p.driver = "RAS"
  <2>1. RawSize(p) = Aligned(w, bpp * planes, 2)
    BY <1>2, <1>9
  <2>2. LineSize(p) \in Nat
    BY ImageIs
  <2> QED BY <1>7, <1>9, <2>1, <2>2 DEF w
<1>10. CASE p.driver = "BMP"
  <2>1. RawSize(p) = Aligned(w, bpp * planes, 4)
    BY <1>2, <1>10
  <2> QED BY <1>7, <1>10, <2>1 DEF w
<1> QED BY <1>1, <1>5, <1>6, <1>8, <1>9, <1>10 DEF Coder

(* Offsets and places are inverses.                                        *)
LEMMA OffsetIs ==
  ASSUME NEW p, AnImage(p), NEW mode \in Modes, NEW x \in 0 .. p.width - 1,
         NEW row \in 0 .. p.height - 1, NEW d \in 0 .. Depth(p.space, mode) - 1
  PROVE  /\ Offset(p, mode, x, row, d) \in 0 .. MemorySize(p, mode) - 1
         /\ Place(p, mode, Offset(p, mode, x, row, d)).x = x
         /\ Place(p, mode, Offset(p, mode, x, row, d)).line = row
         /\ Place(p, mode, Offset(p, mode, x, row, d)).d = d
<1> DEFINE w == p.width  h == p.height  deep == Depth(p.space, mode)
           pixel == row * w + x  plane == w * h  total == MemorySize(p, mode)
           at == Offset(p, mode, x, row, d)
<1>1. /\ w \in Nat \ {0} /\ h \in Nat \ {0} /\ x \in 0 .. w - 1 /\ row \in 0 .. h - 1
      /\ deep \in Nat \ {0} /\ d \in 0 .. deep - 1 /\ mode.packed \in BOOLEAN
  BY ImageIs DEF Depth, Modes
<1>2. total = w * h * deep
  BY DEF MemorySize
<1>3. mode.packed => at = pixel * deep + d
  BY DEF Offset
<1>4. ~mode.packed => at = d * w * h + row * w + x
  BY DEF Offset
<1>5. /\ Place(p, mode, at).x = (IF mode.packed THEN at \div deep ELSE at % plane) % w
      /\ Place(p, mode, at).line = (IF mode.packed THEN at \div deep ELSE at % plane) \div w
      /\ Place(p, mode, at).d = IF mode.packed THEN at % deep ELSE at \div plane
  BY DEF Place
<1> HIDE DEF w, h, deep, at, total
<1>6. plane \in Nat \ {0} /\ plane = h * w
  BY <1>1
<1>7. pixel \in 0 .. plane - 1 /\ pixel % w = x /\ pixel \div w = row
  <2>1. pixel \in 0 .. h * w - 1
    BY <1>1, Within
  <2>2. pixel \div w = row /\ pixel % w = x
    <3>1. row \in Nat
      BY <1>1
    <3> QED BY <1>1, <3>1, DivModOf
  <2> QED BY <1>6, <2>1, <2>2
<1>8. ~mode.packed => at = d * plane + pixel
  <2>1. d * w * h = d * plane
    BY <1>1
  <2> QED BY <1>1, <1>4, <2>1
<1>9. total = plane * deep /\ plane * deep = deep * plane
  BY <1>1, <1>2, <1>6
<1> HIDE DEF plane, pixel
<1>10. CASE mode.packed
  <2>1. at = pixel * deep + d
    BY <1>3, <1>10
  <2>2. at \in 0 .. plane * deep - 1
    BY <1>1, <1>6, <1>7, <2>1, Within
  <2>3. at \div deep = pixel /\ at % deep = d
    <3>1. pixel \in Nat
      BY <1>6, <1>7
    <3> QED BY <1>1, <2>1, <3>1, DivModOf
  <2> QED BY <1>5, <1>7, <1>9, <1>10, <2>2, <2>3 DEF at, total
<1>11. CASE ~mode.packed
  <2>1. at = d * plane + pixel
    BY <1>8, <1>11
  <2>2. at \in 0 .. deep * plane - 1
    BY <1>1, <1>6, <1>7, <2>1, Within
  <2>3. at \div plane = d /\ at % plane = pixel
    <3>1. d \in Nat
      BY <1>1
    <3> QED BY <1>6, <1>7, <2>1, <3>1, DivModOf
  <2> QED BY <1>5, <1>7, <1>9, <1>11, <2>2, <2>3 DEF at, total
<1> QED BY <1>1, <1>10, <1>11

LEMMA PlaceIs ==
  ASSUME NEW p, AnImage(p), NEW mode \in Modes, NEW at \in 0 .. MemorySize(p, mode) - 1
  PROVE  /\ Place(p, mode, at).x \in 0 .. p.width - 1
         /\ Place(p, mode, at).line \in 0 .. p.height - 1
         /\ Place(p, mode, at).d \in 0 .. Depth(p.space, mode) - 1
         /\ Offset(p, mode, Place(p, mode, at).x, Place(p, mode, at).line, Place(p, mode, at).d) = at
<1> DEFINE w == p.width  h == p.height  deep == Depth(p.space, mode)
           plane == w * h  total == MemorySize(p, mode)
           pixel == IF mode.packed THEN at \div deep ELSE at % plane
           d == IF mode.packed THEN at % deep ELSE at \div plane
           x == Place(p, mode, at).x  row == Place(p, mode, at).line
           back2 == Offset(p, mode, x, row, Place(p, mode, at).d)
<1>1. /\ w \in Nat \ {0} /\ h \in Nat \ {0} /\ deep \in Nat \ {0} /\ mode.packed \in BOOLEAN
      /\ total = plane * deep
  BY ImageIs DEF Depth, Modes, MemorySize
<1>2. x = pixel % w /\ row = pixel \div w /\ Place(p, mode, at).d = d
  BY DEF Place
<1>3. /\ mode.packed => back2 = (row * w + x) * deep + Place(p, mode, at).d
      /\ ~mode.packed => back2 = Place(p, mode, at).d * w * h + row * w + x
  BY DEF Offset
<1>4. at \in 0 .. total - 1
  OBVIOUS
<1> HIDE DEF w, h, deep, total, x, row, back2
<1>5. plane \in Nat \ {0} /\ plane = h * w /\ plane * deep = deep * plane
  BY <1>1
<1> HIDE DEF plane
<1>6. at \in Nat /\ at < plane * deep /\ at < deep * plane
  BY <1>1, <1>4, <1>5
<1>7. pixel \in 0 .. plane - 1 /\ d \in 0 .. deep - 1
      /\ (mode.packed => at = pixel * deep + d) /\ (~mode.packed => at = d * plane + pixel)
  <2>1. CASE mode.packed
    <3>1. at \div deep \in 0 .. plane - 1
      BY <1>1, <1>5, <1>6, DivModIn
    <3>2. at % deep \in 0 .. deep - 1 /\ at = (at \div deep) * deep + (at % deep)
      BY <1>1, <1>6, DivMod
    <3> QED BY <2>1, <3>1, <3>2
  <2>2. CASE ~mode.packed
    <3>1. at \div plane \in 0 .. deep - 1
      BY <1>1, <1>5, <1>6, DivModIn
    <3>2. at % plane \in 0 .. plane - 1 /\ at = (at \div plane) * plane + (at % plane)
      BY <1>5, <1>6, DivMod
    <3> QED BY <2>2, <3>1, <3>2
  <2> QED BY <1>1, <2>1, <2>2
<1> HIDE DEF pixel, d
<1>8. x \in 0 .. w - 1 /\ row \in 0 .. h - 1 /\ pixel = row * w + x
  <2>1. pixel \in Nat /\ pixel < h * w
    BY <1>5, <1>7
  <2>2. pixel \div w \in 0 .. h - 1
    BY <1>1, <2>1, DivModIn
  <2>3. pixel % w \in 0 .. w - 1 /\ pixel = (pixel \div w) * w + (pixel % w)
    BY <1>1, <2>1, DivMod
  <2> QED BY <1>2, <2>2, <2>3
<1>9. back2 = at
  <2>1. CASE mode.packed
    BY <1>2, <1>3, <1>7, <1>8, <2>1
  <2>2. CASE ~mode.packed
    <3>1. d * w * h = d * plane
      BY <1>1, <1>7 DEF plane
    <3>2. d * plane \in Nat
      BY <1>1, <1>5, <1>7
    <3>3. row * w \in Nat /\ x \in Nat
      BY <1>1, <1>8
    <3>4. d * plane + row * w + x = d * plane + pixel
      BY <1>8, <3>2, <3>3
    <3> QED BY <1>2, <1>3, <1>7, <2>2, <3>1, <3>4
  <2> QED BY <1>1, <2>1, <2>2
<1> QED BY <1>2, <1>7, <1>8, <1>9 DEF w, h, deep, x, row, back2

(* Where the lines of a file are in memory.                                *)
LEMMA LineIs ==
  ASSUME NEW p, AnImage(p), NEW mode \in Modes, NEW n \in 0 .. LineCount(p, mode) - 1, NEW other \in Modes
  PROVE  /\ LineOf(p, n) \in 0 .. p.height - 1
         /\ MemoryLine(p, other, n) \in 0 .. p.height - 1
         /\ FileMode(p).packed => n = LineOf(p, n) /\ PlaneOf(p, n) = 0
         /\ ~FileMode(p).packed =>
              /\ PlaneOf(p, n) \in 0 .. FileDepth(p) - 1
              /\ PlaneOf(p, n) \in 0 .. Depth(p.space, mode) - 1
              /\ n = PlaneOf(p, n) * p.height + LineOf(p, n)
<1> DEFINE h == p.height  D == FileDepth(p)  S == SpaceDepth(p.space)  packed == FileMode(p).packed
           c == IF FileMode(p).alpha /\ mode.alpha THEN D ELSE S
           line == LineOf(p, n)
<1>1. /\ h \in Nat \ {0} /\ S \in {1, 3} /\ packed \in BOOLEAN /\ FileMode(p).alpha \in BOOLEAN
      /\ D = S + (IF FileMode(p).alpha THEN 1 ELSE 0) /\ mode.alpha \in BOOLEAN
      /\ Depth(p.space, mode) = S + (IF mode.alpha THEN 1 ELSE 0)
  BY ImageIs DEF Modes, Depth
<1>2. c \in Nat \ {0} /\ c <= D /\ c <= Depth(p.space, mode) /\ D \in Nat /\ Depth(p.space, mode) \in Nat
  BY <1>1
<1>3. LineCount(p, mode) = IF packed THEN h ELSE h * c
  BY DEF LineCount
<1>4. /\ LineOf(p, n) = (IF packed THEN n ELSE n % h)
      /\ PlaneOf(p, n) = (IF packed THEN 0 ELSE n \div h)
  BY DEF LineOf, PlaneOf
<1> HIDE DEF h, D, S, packed, c
<1>5. n \in Nat /\ n < LineCount(p, mode) /\ h * c = c * h /\ h * c \in Nat
  <2>1. h * c \in Nat /\ h * c = c * h
    BY <1>1, <1>2
  <2> QED BY <1>1, <1>3, <2>1
<1>6. n % h \in 0 .. h - 1
  <2>1. n \in Nat
    BY <1>5
  <2> QED BY <1>1, <2>1, DivMod
<1>8. line \in 0 .. h - 1 /\ LineOf(p, n) = line
  BY <1>1, <1>3, <1>4, <1>5, <1>6
<1>9. MemoryLine(p, other, n) = line \/ MemoryLine(p, other, n) = h - 1 - line
  BY DEF MemoryLine, h
<1> HIDE DEF line
<1>10. MemoryLine(p, other, n) \in 0 .. h - 1
  BY <1>1, <1>8, <1>9
<1>11. /\ packed => n = LineOf(p, n) /\ PlaneOf(p, n) = 0
       /\ ~packed => /\ PlaneOf(p, n) \in 0 .. D - 1
                     /\ PlaneOf(p, n) \in 0 .. Depth(p.space, mode) - 1
                     /\ n = PlaneOf(p, n) * h + LineOf(p, n)
  <2>1. CASE packed
    BY <1>4, <2>1
  <2>2. CASE ~packed
    <3>1. n < c * h
      BY <1>3, <1>5, <2>2
    <3>2. n \div h \in 0 .. c - 1
      BY <1>1, <1>2, <1>5, <3>1, DivModIn
    <3>3. n = (n \div h) * h + (n % h)
      BY <1>1, <1>5, DivMod
    <3> DEFINE q == n \div h
    <3>4. q \in 0 .. c - 1
      BY <3>2
    <3> HIDE DEF q
    <3>5. q \in 0 .. D - 1 /\ q \in 0 .. Depth(p.space, mode) - 1
      BY <1>2, <3>4
    <3> QED BY <1>4, <2>2, <3>3, <3>5 DEF q
  <2> QED BY <1>1, <2>1, <2>2
<1> QED BY <1>8, <1>10, <1>11 DEF h, D, packed

LEMMA LineCountIs ==
  ASSUME NEW p, AnImage(p), NEW mode \in Modes
  PROVE  /\ LineCount(p, mode) \in Nat \ {0} /\ LineCount(p, mode) <= LineCount(p, p.mode)
         /\ LineCount(p, mode) = IF FileMode(p).packed THEN p.height
              ELSE p.height * (IF FileMode(p).alpha /\ mode.alpha THEN FileDepth(p)
                               ELSE SpaceDepth(p.space))
<1> DEFINE h == p.height  D == FileDepth(p)  S == SpaceDepth(p.space)
           c(m) == IF FileMode(p).alpha /\ m.alpha THEN D ELSE S
<1>1. /\ h \in Nat \ {0} /\ S \in {1, 3} /\ FileMode(p).packed \in BOOLEAN
      /\ FileMode(p).alpha \in BOOLEAN /\ p.mode.alpha \in BOOLEAN /\ mode.alpha \in BOOLEAN
      /\ D = S + (IF FileMode(p).alpha THEN 1 ELSE 0) /\ (FileMode(p).alpha => p.mode.alpha)
  BY ImageIs DEF Modes
<1>2. \A m : LineCount(p, m) = IF FileMode(p).packed THEN h ELSE h * c(m)
  BY DEF LineCount
<1> DEFINE a == c(mode)  b == c(p.mode)
<1>3. a \in Nat \ {0} /\ b \in Nat \ {0} /\ a <= b
  BY <1>1
<1>4. LineCount(p, mode) = (IF FileMode(p).packed THEN h ELSE h * a)
      /\ LineCount(p, p.mode) = (IF FileMode(p).packed THEN h ELSE h * b)
  BY <1>2
<1> HIDE DEF a, b, h
<1>5. h * a \in Nat \ {0} /\ h * b \in Nat \ {0} /\ h * a <= h * b
  BY <1>1, <1>3
<1>6. LineCount(p, mode) \in Nat \ {0} /\ LineCount(p, mode) <= LineCount(p, p.mode)
  BY <1>1, <1>4, <1>5
<1> QED BY <1>6 DEF LineCount

(* The element k of the file's line n: what it is of the image.            *)
Column(p, k) == IF FileMode(p).packed THEN (k - 1) \div FileDepth(p) ELSE k - 1
PlaneIn(p, n, k) == IF FileMode(p).packed THEN (k - 1) % FileDepth(p) ELSE PlaneOf(p, n)

LEMMA ColumnIs ==
  ASSUME NEW p, AnImage(p), NEW mode \in Modes, NEW n \in 0 .. LineCount(p, mode) - 1,
         NEW k \in 1 .. LineSize(p)
  PROVE  /\ Column(p, k) \in 0 .. p.width - 1 /\ PlaneIn(p, n, k) \in 0 .. FileDepth(p) - 1
         /\ k - 1 = IF FileMode(p).packed THEN Column(p, k) * FileDepth(p) + PlaneIn(p, n, k)
                    ELSE Column(p, k)
<1> DEFINE w == p.width  D == FileDepth(p)  packed == FileMode(p).packed
<1>1. w \in Nat \ {0} /\ D \in 1 .. 4 /\ packed \in BOOLEAN
  BY ImageIs DEF Modes
<1>2. ~packed => PlaneOf(p, n) \in 0 .. D - 1
  BY LineIs
<1>3. LineSize(p) = w * (IF packed THEN D ELSE 1)
  BY DEF LineSize
<1>4. k \in 1 .. LineSize(p)
  OBVIOUS
<1>5. /\ Column(p, k) = (IF packed THEN (k - 1) \div D ELSE k - 1)
      /\ PlaneIn(p, n, k) = (IF packed THEN (k - 1) % D ELSE PlaneOf(p, n))
  BY DEF Column, PlaneIn
<1> HIDE DEF w, D, packed
<1>6. CASE packed
  <2> DEFINE j == k - 1
  <2>1. j \in Nat /\ j < w * D
    <3>1. w * D \in Nat /\ LineSize(p) = w * D
      BY <1>1, <1>3, <1>6
    <3> QED BY <1>4, <3>1
  <2>2. D \in Nat \ {0} /\ w \in Nat
    BY <1>1
  <2> HIDE DEF j
  <2>3. j \div D \in 0 .. w - 1
    BY <2>1, <2>2, DivModIn
  <2>4. j % D \in 0 .. D - 1 /\ j = (j \div D) * D + (j % D)
    BY <2>1, <2>2, DivMod
  <2> QED BY <1>5, <1>6, <2>3, <2>4 DEF j, w, D, packed
<1>7. CASE ~packed
  <2>1. LineSize(p) = w
    BY <1>1, <1>3, <1>7
  <2> QED BY <1>1, <1>2, <1>4, <1>5, <1>7, <2>1 DEF w, D, packed
<1> QED BY <1>6, <1>7

(* Copying a whole line takes its elements from where they are.            *)
LEMMA CopyIs ==
  ASSUME NEW p, AnImage(p), NEW mode \in Modes, SameMode(FileMode(p), mode),
         NEW n \in 0 .. LineCount(p, mode) - 1, NEW k \in 1 .. LineSize(p)
  PROVE  CopyOffset(p, mode, n) + k =
           Offset(p, mode, Column(p, k), MemoryLine(p, mode, n), PlaneIn(p, n, k)) + 1
<1> DEFINE w == p.width  h == p.height  D == FileDepth(p)  packed == FileMode(p).packed
           x == Column(p, k)  d == PlaneIn(p, n, k)  row == MemoryLine(p, mode, n)
           at == Offset(p, mode, x, row, d)
<1>1. w \in Nat \ {0} /\ h \in Nat \ {0} /\ D \in 1 .. 4 /\ packed \in BOOLEAN
  BY ImageIs DEF Modes
<1>2. mode.packed = packed /\ Depth(p.space, mode) = D
  BY DEF SameMode, FileDepth, Depth
<1>3. x \in 0 .. w - 1 /\ d \in 0 .. D - 1 /\ row \in 0 .. h - 1
      /\ k - 1 = IF packed THEN x * D + d ELSE x
  BY ColumnIs, LineIs
<1>4. CopyOffset(p, mode, n) = (row + PlaneOf(p, n) * h) * (w * (IF packed THEN D ELSE 1))
  BY DEF CopyOffset, LineSize
<1>5. at = IF packed THEN (row * w + x) * D + d ELSE d * w * h + row * w + x
  BY <1>2 DEF Offset
<1>6. (packed => PlaneOf(p, n) = 0) /\ (~packed => PlaneOf(p, n) = d)
  BY LineIs DEF PlaneIn
<1>7. k \in Nat
  BY ImageIs
<1> HIDE DEF w, h, D, packed, x, d, row, at
<1>8. CASE packed
  <2>1. /\ (row + 0 * h) * (w * D) = row * w * D
        /\ (row * w + x) * D = row * w * D + x * D
        /\ row * w * D \in Nat /\ x * D \in Nat
    BY <1>1, <1>3
  <2> DEFINE y == row * w * D  z == x * D
  <2>2. /\ CopyOffset(p, mode, n) = y /\ at = (y + z) + d /\ k - 1 = z + d
    BY <1>3, <1>4, <1>5, <1>6, <1>8, <2>1
  <2>3. y \in Nat /\ z \in Nat /\ d \in Nat
    BY <1>1, <1>3, <2>1
  <2> HIDE DEF y, z
  <2>4. CopyOffset(p, mode, n) + k = at + 1
    BY <1>7, <2>2, <2>3
  <2> QED BY <2>4 DEF at, x, d, row
<1>9. CASE ~packed
  <2>1. (row + d * h) * (w * 1) = row * w + d * w * h
    BY <1>1, <1>3
  <2>2. row * w \in Nat /\ d * w * h \in Nat
    BY <1>1, <1>3
  <2> DEFINE y == row * w  z == d * w * h
  <2>3. CopyOffset(p, mode, n) = y + z /\ at = z + y + x /\ k - 1 = x
    BY <1>3, <1>4, <1>5, <1>6, <1>9, <2>1
  <2>4. y \in Nat /\ z \in Nat /\ x \in Nat
    BY <1>1, <1>3, <2>2
  <2> HIDE DEF y, z
  <2>5. CopyOffset(p, mode, n) + k = at + 1
    BY <1>7, <2>3, <2>4
  <2> QED BY <2>5 DEF at, x, d, row
<1> QED BY <1>8, <1>9

Value(p) == IF p.space = "BINARY" THEN 0 .. 1 ELSE Octet
Source(p, n, k) ==
  p.data[Offset(p, p.mode, Column(p, k), MemoryLine(p, p.mode, n), PlaneIn(p, n, k)) + 1]

(* A line of the file is elements of the memory written, each from its     *)
(* column, line and plane, whichever way it was filled.                    *)
LEMMA FillLineIs ==
  ASSUME NEW p, AnImage(p), NEW n \in 0 .. LineCount(p, p.mode) - 1
  PROVE  /\ FillLine(p, n) \in Seq(Value(p)) /\ Len(FillLine(p, n)) = LineSize(p)
         /\ \A k \in 1 .. LineSize(p) : FillLine(p, n)[k] = Source(p, n, k)
<1> DEFINE D == FileDepth(p)  packed == FileMode(p).packed  row == MemoryLine(p, p.mode, n)
           of(k) == IF SameMode(FileMode(p), p.mode) THEN p.data[CopyOffset(p, p.mode, n) + k]
                    ELSE IF packed
                    THEN p.data[Offset(p, p.mode, (k - 1) \div D, row, (k - 1) % D) + 1]
                    ELSE p.data[Offset(p, p.mode, k - 1, row, PlaneOf(p, n)) + 1]
<1>1. /\ p.mode \in Modes /\ packed \in BOOLEAN /\ LineSize(p) \in Nat \ {0}
      /\ D <= Depth(p.space, p.mode) /\ D \in Nat /\ Depth(p.space, p.mode) \in Nat
  BY ImageIs DEF Modes, Depth
<1>2. p.data \in [1 .. MemorySize(p, p.mode) -> Value(p)]
  BY DEF AnImage, Value, Octet
<1>3. FillLine(p, n) = [k \in 1 .. LineSize(p) |-> of(k)]
  BY DEF FillLine
<1>4. ASSUME NEW k \in 1 .. LineSize(p) PROVE of(k) = Source(p, n, k) /\ of(k) \in Value(p)
  <2> DEFINE x == Column(p, k)  d == PlaneIn(p, n, k)  at == Offset(p, p.mode, x, row, d)
  <2>1. x \in 0 .. p.width - 1 /\ d \in 0 .. D - 1 /\ row \in 0 .. p.height - 1
    BY <1>1, ColumnIs, LineIs
  <2>2. d \in 0 .. Depth(p.space, p.mode) - 1
    BY <1>1, <2>1
  <2> HIDE DEF x, d, row
  <2>3. at \in 0 .. MemorySize(p, p.mode) - 1
    BY <1>1, <2>1, <2>2, OffsetIs
  <2>4. p.data[at + 1] \in Value(p)
    <3>1. MemorySize(p, p.mode) \in Int
      BY ImageIs, <1>1 DEF MemorySize
    <3> QED BY <1>2, <2>3, <3>1
  <2>5. of(k) = p.data[at + 1]
    <3>1. CASE SameMode(FileMode(p), p.mode)
      <4>1. CopyOffset(p, p.mode, n) + k = at + 1
        BY <1>1, <3>1, CopyIs DEF x, d, row
      <4> QED BY <3>1, <4>1
    <3>2. CASE ~SameMode(FileMode(p), p.mode) /\ packed
      BY <3>2 DEF x, d, Column, PlaneIn
    <3>3. CASE ~SameMode(FileMode(p), p.mode) /\ ~packed
      BY <3>3 DEF x, d, Column, PlaneIn
    <3> QED BY <3>1, <3>2, <3>3
  <2>6. Source(p, n, k) = p.data[at + 1]
    BY DEF Source, x, d, row
  <2> QED BY <2>4, <2>5, <2>6
<1> HIDE DEF of
<1>5. FillLine(p, n) \in [1 .. LineSize(p) -> Value(p)]
  BY <1>3, <1>4
<1>6. FillLine(p, n) \in Seq(Value(p)) /\ Len(FillLine(p, n)) = LineSize(p)
  BY <1>1, <1>5
<1>7. \A k \in 1 .. LineSize(p) : FillLine(p, n)[k] = Source(p, n, k)
  BY <1>3, <1>4
<1> QED BY <1>6, <1>7

(* Which line of the file a place in a reader's memory comes from, and     *)
(* which element of it.                                                    *)
FileLine(p, mode, to) ==
  LET row == IF FileMode(p).topdown = mode.topdown THEN to.line ELSE p.height - 1 - to.line
  IN IF FileMode(p).packed THEN row ELSE to.d * p.height + row
Element(p, to) == IF FileMode(p).packed THEN to.x * FileDepth(p) + to.d + 1 ELSE to.x + 1

LEMMA ElementIs ==
  ASSUME NEW p, AnImage(p), NEW to, to.x \in 0 .. p.width - 1, to.d \in 0 .. FileDepth(p) - 1
  PROVE  /\ Element(p, to) \in 1 .. LineSize(p) /\ Column(p, Element(p, to)) = to.x
         /\ FileMode(p).packed => \A n : PlaneIn(p, n, Element(p, to)) = to.d
<1> DEFINE w == p.width  D == FileDepth(p)  packed == FileMode(p).packed  x == to.x  d == to.d
           k == Element(p, to)
<1>1. w \in Nat \ {0} /\ D \in Nat \ {0} /\ packed \in BOOLEAN /\ x \in 0 .. w - 1 /\ d \in 0 .. D - 1
  BY ImageIs DEF Modes
<1>2. LineSize(p) = w * (IF packed THEN D ELSE 1) /\ k = (IF packed THEN x * D + d + 1 ELSE x + 1)
      /\ Column(p, k) = (IF packed THEN (k - 1) \div D ELSE k - 1)
      /\ (packed => \A n : PlaneIn(p, n, k) = (k - 1) % D)
  BY DEF LineSize, Element, Column, PlaneIn
<1> HIDE DEF w, D, packed, x, d, k
<1>3. CASE packed
  <2> DEFINE j == x * D + d
  <2>1. j \in 0 .. w * D - 1
    BY <1>1, Within
  <2>2. j \div D = x /\ j % D = d
    <3>1. x \in Nat
      BY <1>1
    <3> QED BY <1>1, <3>1, DivModOf
  <2>3. w * D \in Nat /\ LineSize(p) = w * D
    BY <1>1, <1>2, <1>3
  <2>4. x * D \in Nat /\ d \in Nat
    BY <1>1
  <2>5. k = j + 1
    BY <1>2, <1>3, <2>4
  <2> HIDE DEF j
  <2>6. k - 1 = j /\ k \in 1 .. LineSize(p)
    BY <2>1, <2>3, <2>5
  <2> QED BY <1>2, <1>3, <2>2, <2>6 DEF k, x, d, packed
<1>4. CASE ~packed
  BY <1>1, <1>2, <1>4 DEF k, x, d, packed
<1> QED BY <1>3, <1>4

LEMMA FileLineIs ==
  ASSUME NEW p, AnImage(p), NEW mode \in Modes, NEW n \in 0 .. LineCount(p, mode) - 1, NEW to,
         to.line \in 0 .. p.height - 1, to.d \in Nat
  PROVE  FileLine(p, mode, to) = n <=>
           to.line = MemoryLine(p, mode, n) /\ (FileMode(p).packed \/ to.d = PlaneOf(p, n))
<1> DEFINE h == p.height  packed == FileMode(p).packed  same == FileMode(p).topdown = mode.topdown
           row == IF same THEN to.line ELSE h - 1 - to.line
           line == LineOf(p, n)  plane == PlaneOf(p, n)  d == to.d  y == to.line
<1>1. h \in Nat \ {0} /\ packed \in BOOLEAN /\ y \in 0 .. h - 1 /\ d \in Nat
  BY ImageIs DEF Modes
<1>2. row \in 0 .. h - 1
  BY <1>1
<1>3. FileLine(p, mode, to) = IF packed THEN row ELSE d * h + row
  BY DEF FileLine
<1>4. /\ line \in 0 .. h - 1 /\ (packed => n = line)
      /\ (~packed => plane \in Nat /\ n = plane * h + line)
  BY LineIs
<1>5. MemoryLine(p, mode, n) = IF same THEN line ELSE h - 1 - line
  BY DEF MemoryLine
<1>6. row = line <=> y = MemoryLine(p, mode, n)
  BY <1>1, <1>4, <1>5
<1> HIDE DEF h, packed, same, row, line, plane, d, y
<1>7. CASE packed
  BY <1>3, <1>4, <1>6, <1>7 DEF packed, y
<1>8. CASE ~packed
  <2>1. plane \in Nat /\ n = plane * h + line
    BY <1>4, <1>8
  <2>2. (d * h + row) \div h = d /\ (d * h + row) % h = row
    BY <1>1, <1>2, DivModOf
  <2>3. (plane * h + line) \div h = plane /\ (plane * h + line) % h = line
    BY <1>1, <1>4, <2>1, DivModOf
  <2> DEFINE a == d * h + row  b == plane * h + line
  <2>4. a \div h = d /\ a % h = row /\ b \div h = plane /\ b % h = line
    BY <2>2, <2>3
  <2>5. (d = plane /\ row = line) => a = b
    OBVIOUS
  <2>6. FileLine(p, mode, to) = a /\ n = b
    BY <1>3, <1>8, <2>1
  <2> HIDE DEF a, b
  <2>7. a = b <=> (d = plane /\ row = line)
    BY <2>4, <2>5
  <2> QED BY <1>6, <1>8, <2>6, <2>7 DEF packed, y, d, plane
<1> QED BY <1>7, <1>8

Filled(p, mode, n, line, memory, k, to) ==
  /\ DOMAIN FillMemory(p, mode, n, line, memory) = 1 .. MemorySize(p, mode)
  /\ FillMemory(p, mode, n, line, memory)[k] =
       IF FileLine(p, mode, to) = n /\ to.d < FileDepth(p) THEN line[Element(p, to)] ELSE memory[k]

(* A line that was read goes where it belongs, whichever way memory is     *)
(* filled, and nothing else changes.                                       *)
LEMMA FillMemoryIs ==
  ASSUME NEW p, AnImage(p), NEW mode \in Modes, NEW n \in 0 .. LineCount(p, mode) - 1,
         NEW memory, DOMAIN memory = 1 .. MemorySize(p, mode), NEW line,
         NEW k \in 1 .. MemorySize(p, mode), NEW to, to = Place(p, mode, k - 1)
  PROVE  Filled(p, mode, n, line, memory, k, to)
<1> DEFINE D == FileDepth(p)  packed == FileMode(p).packed  row == MemoryLine(p, mode, n)
           deep == Depth(p.space, mode)  size == MemorySize(p, mode)  here == k - 1
           mine == FileLine(p, mode, to) = n /\ to.d < D
           made == FillMemory(p, mode, n, line, memory)
           start == CopyOffset(p, mode, n)
<1>1. /\ packed \in BOOLEAN /\ D \in Nat \ {0} /\ deep \in Nat \ {0} /\ size \in Nat
      /\ p.height \in Nat /\ LineSize(p) \in Nat
  BY SMTT(20), ImageIs DEF Modes, MemorySize, Depth
<1>2. here \in 0 .. size - 1
  BY <1>1
<1>3. /\ to.x \in 0 .. p.width - 1 /\ to.line \in 0 .. p.height - 1 /\ to.d \in 0 .. deep - 1
      /\ Offset(p, mode, to.x, to.line, to.d) = here
  <2> HIDE DEF here
  <2>1. to = Place(p, mode, here)
    BY DEF here
  <2> QED BY <1>2, <2>1, PlaceIs
<1>4. /\ row \in 0 .. p.height - 1 /\ (packed => PlaneOf(p, n) = 0)
      /\ (~packed => PlaneOf(p, n) \in 0 .. D - 1)
  BY LineIs
<1>5. to.d \in Nat
  BY <1>1, <1>3
<1>6. FileLine(p, mode, to) = n <=> to.line = row /\ (packed \/ to.d = PlaneOf(p, n))
  BY <1>3, <1>5, FileLineIs
<1>7. CASE SameMode(FileMode(p), mode)
  <2>1. deep = D
    BY <1>7 DEF SameMode, FileDepth, Depth
  <2>2. made = [j \in 1 .. size |->
                  IF j - start \in 1 .. LineSize(p) THEN line[j - start] ELSE memory[j]]
    BY <1>7 DEF FillMemory
  <2>21. DOMAIN made = 1 .. size
    BY <2>2
  <2>3. made[k] = IF k - start \in 1 .. LineSize(p) THEN line[k - start] ELSE memory[k]
    BY <2>2
  <2> HIDE DEF made
  <2>4. ASSUME k - start \in 1 .. LineSize(p)
        PROVE  mine /\ Element(p, to) = k - start
    <3> DEFINE j == k - start  x == Column(p, j)  d == PlaneIn(p, n, j)
               at == Offset(p, mode, x, row, d)
    <3>1. j \in 1 .. LineSize(p)
      BY <2>4
    <3> HIDE DEF j
    <3>2. x \in 0 .. p.width - 1 /\ d \in 0 .. D - 1
          /\ j - 1 = IF packed THEN x * D + d ELSE x
      BY <3>1, ColumnIs
    <3>3. start + j = at + 1
      BY <1>7, <3>1, CopyIs
    <3> HIDE DEF x, d, row
    <3>4. /\ at \in 0 .. size - 1
          /\ Place(p, mode, at).x = x /\ Place(p, mode, at).line = row /\ Place(p, mode, at).d = d
      BY <1>4, <2>1, <3>2, OffsetIs
    <3>5. start \in Int
      <4>1. CopyOffset(p, mode, n) = (row + PlaneOf(p, n) * p.height) * LineSize(p)
        BY DEF CopyOffset, row
      <4>2. PlaneOf(p, n) \in Nat /\ row \in Nat
        BY <1>1, <1>4
      <4> DEFINE a == PlaneOf(p, n)  b == p.height  c == LineSize(p)
      <4>3. a \in Nat /\ b \in Nat /\ c \in Nat /\ start = (row + a * b) * c
        BY <1>1, <4>1, <4>2
      <4> HIDE DEF a, b, c, start
      <4> QED BY <4>2, <4>3
    <3>6. start + j = k /\ k \in Int /\ at \in Int
      <4> HIDE DEF start
      <4> QED BY <1>1, <3>4, <3>5 DEF j
    <3>7. at = here
      BY <3>3, <3>6
    <3>8. to.x = x /\ to.line = row /\ to.d = d
      BY <3>4, <3>7 DEF here
    <3>9. mine
      <4>1. packed \/ d = PlaneOf(p, n)
        BY DEF d, PlaneIn
      <4> QED BY <1>1, <1>6, <3>2, <3>8, <4>1
    <3>10. Element(p, to) = j
      <4>1. Element(p, to) = IF packed THEN x * D + d + 1 ELSE x + 1
        BY <3>8 DEF Element
      <4>2. x \in Nat /\ d \in Nat /\ j \in Int /\ x * D \in Nat
        BY <1>1, <3>1, <3>2
      <4> DEFINE y == x * D
      <4> HIDE DEF y
      <4>3. Element(p, to) = (IF packed THEN y + d + 1 ELSE x + 1)
            /\ j - 1 = (IF packed THEN y + d ELSE x) /\ y \in Nat
        BY <3>2, <4>1, <4>2 DEF y
      <4> DEFINE e == Element(p, to)
      <4>4. e = (IF packed THEN y + d + 1 ELSE x + 1) /\ j - 1 = (IF packed THEN y + d ELSE x)
        BY <4>3
      <4> HIDE DEF e, packed
      <4>5. e = j
        <5>1. CASE packed
          BY <4>2, <4>3, <4>4, <5>1
        <5>2. CASE ~packed
          BY <4>2, <4>4, <5>2
        <5> QED BY <5>1, <5>2
      <4> QED BY <4>5 DEF e
    <3> QED BY <3>9, <3>10 DEF j
  <2>5. ASSUME mine PROVE k - start \in 1 .. LineSize(p)
    <3> DEFINE j == Element(p, to)
    <3>1. to.d \in 0 .. D - 1 /\ to.line = row
      BY <1>1, <1>5, <1>6, <2>5
    <3>2. j \in 1 .. LineSize(p) /\ Column(p, j) = to.x /\ (packed => PlaneIn(p, n, j) = to.d)
      BY <1>3, <3>1, ElementIs
    <3>3. PlaneIn(p, n, j) = to.d
      <4>1. ~packed => PlaneIn(p, n, j) = PlaneOf(p, n) /\ to.d = PlaneOf(p, n)
        BY <1>6, <2>5 DEF PlaneIn
      <4> QED BY <1>1, <3>2, <4>1
    <3> HIDE DEF j
    <3>4. start + j = Offset(p, mode, Column(p, j), row, PlaneIn(p, n, j)) + 1
      BY <1>7, <3>2, CopyIs
    <3>5. start + j = here + 1
      BY <1>3, <3>1, <3>2, <3>3, <3>4
    <3>6. start \in Int
      <4>1. CopyOffset(p, mode, n) = (row + PlaneOf(p, n) * p.height) * LineSize(p)
        BY DEF CopyOffset, row
      <4>2. PlaneOf(p, n) \in Nat /\ row \in Nat
        BY <1>1, <1>4
      <4> DEFINE a == PlaneOf(p, n)  b == p.height  c == LineSize(p)
      <4>3. a \in Nat /\ b \in Nat /\ c \in Nat /\ start = (row + a * b) * c
        BY <1>1, <4>1, <4>2
      <4> HIDE DEF a, b, c, start, row
      <4> QED BY <4>2, <4>3
    <3> HIDE DEF start
    <3>7. k - start = j
      BY <1>1, <3>2, <3>5, <3>6
    <3> QED BY <3>2, <3>7 DEF start
  <2>6. made[k] = IF mine THEN line[Element(p, to)] ELSE memory[k]
    <3> HIDE DEF mine, start
    <3> QED BY <2>3, <2>4, <2>5
  <2> QED BY <2>21, <2>6 DEF made, Filled
<1>8. CASE ~SameMode(FileMode(p), mode)
  <2> DEFINE planes == IF packed THEN 0 .. Min({D, deep}) - 1 ELSE {PlaneOf(p, n)}
             in(j) == Place(p, mode, j - 1).line = row /\ Place(p, mode, j - 1).d \in planes
             new(j) == IF in(j)
                       THEN line[IF packed THEN Place(p, mode, j - 1).x * D + Place(p, mode, j - 1).d + 1
                                 ELSE Place(p, mode, j - 1).x + 1]
                       ELSE memory[j]
  <2>1. made = [j \in 1 .. size |-> new(j)]
    BY <1>8 DEF FillMemory
  <2>2. made[k] = new(k)
    BY <2>1
  <2>3. in(k) <=> to.line = row /\ to.d \in planes
    OBVIOUS
  <2>4. new(k) = IF to.line = row /\ to.d \in planes THEN line[Element(p, to)] ELSE memory[k]
    BY <2>3 DEF Element
  <2>5. Min({D, deep}) = IF D <= deep THEN D ELSE deep
    <3>1. D \in Int /\ deep \in Int
      BY <1>1
    <3> HIDE DEF D, deep
    <3> QED BY <3>1, MinOfTwo
  <2>6. to.d \in planes <=> IF packed THEN to.d < D ELSE to.d = PlaneOf(p, n)
    <3> DEFINE d == to.d  m == Min({D, deep})
    <3>1. d \in 0 .. deep - 1
      BY <1>3
    <3>2. m = IF D <= deep THEN D ELSE deep
      BY <2>5
    <3>3. to.d \in planes <=> IF packed THEN d \in 0 .. m - 1 ELSE d = PlaneOf(p, n)
      OBVIOUS
    <3> HIDE DEF m, D, deep, d
    <3>4. d \in 0 .. m - 1 <=> d < D
      BY <1>1, <3>1, <3>2
    <3> QED BY <3>3, <3>4 DEF d, D, planes
  <2>7. mine <=> to.line = row /\ to.d \in planes
    <3> DEFINE d == to.d
    <3>1. ~packed /\ d = PlaneOf(p, n) => d < D
      BY <1>1, <1>4
    <3> HIDE DEF planes
    <3> QED BY <1>1, <1>6, <2>6, <3>1
  <2> HIDE DEF new, mine, planes
  <2> QED BY <2>1, <2>2, <2>4, <2>7 DEF mine, Filled
<1> QED BY <1>7, <1>8

LEMMA PaddedIs ==
  ASSUME NEW line \in Seq(Octet), NEW size \in Nat, Len(line) <= size, NEW junk \in Octet
  PROVE  /\ Padded(line, size, junk) \in Seq(Octet) /\ Len(Padded(line, size, junk)) = size
         /\ \A k \in 1 .. Len(line) : Padded(line, size, junk)[k] = line[k]
<1> DEFINE n == size - Len(line)  pad == Repeat(junk, n)
<1>1. n \in Nat
  OBVIOUS
<1> HIDE DEF n
<1>2. pad \in Seq(Octet) /\ Len(pad) = n
  BY <1>1, RepeatIs
<1> HIDE DEF pad
<1>3. Len(line) + n = size
  BY DEF n
<1>4. Padded(line, size, junk) = line \o pad
  BY DEF Padded, pad, n
<1>5. Joins(line \o pad, line, pad, Len(line), n)
  BY <1>2, ConcatIs
<1>6. \A k \in 1 .. Len(line) : k \in 1 .. Len(line) + n /\ k <= Len(line)
  BY <1>1
<1> QED BY <1>3, <1>4, <1>5, <1>6 DEF Joins

(* The eight bits of a byte.                                               *)
Sum8(a, b, c, d, e, f, g, h) ==
  128 * a + 64 * b + 32 * c + 16 * d + 8 * e + 4 * f + 2 * g + h

LEMMA BitsOf ==
  ASSUME NEW a \in 0 .. 1, NEW b \in 0 .. 1, NEW c \in 0 .. 1, NEW d \in 0 .. 1,
         NEW e \in 0 .. 1, NEW f \in 0 .. 1, NEW g \in 0 .. 1, NEW h \in 0 .. 1,
         NEW s, s = Sum8(a, b, c, d, e, f, g, h)
  PROVE  /\ s \in Octet
         /\ (s \div 128) % 2 = a /\ (s \div 64) % 2 = b /\ (s \div 32) % 2 = c /\ (s \div 16) % 2 = d
         /\ (s \div 8) % 2 = e /\ (s \div 4) % 2 = f /\ (s \div 2) % 2 = g /\ (s \div 1) % 2 = h
  BY DEF Sum8, Octet

(* The byte that has the bits of eight values: those behind the end of the *)
(* line are nobody's.                                                      *)
BitOf(line, k) == IF k <= Len(line) /\ line[k] # 0 THEN 1 ELSE 0
LastOf(line, b) ==
  BitOf(line, 8 * b) + (IF 8 * b > Len(line) THEN line[b] % Weight[Len(line) % 8] ELSE 0)

LEMMA LastIs ==
  ASSUME NEW line \in Seq(0 .. 1), NEW b \in 1 .. (Len(line) + 7) \div 8
  PROVE  /\ LastOf(line, b) \in 0 .. 1
         /\ 8 * b <= Len(line) => LastOf(line, b) = BitOf(line, 8 * b)
<1>1. Len(line) \in Nat /\ b \in 1 .. Len(line) /\ line[b] \in 0 .. 1 /\ BitOf(line, 8 * b) \in 0 .. 1
  BY DEF BitOf
<1>2. CASE 8 * b <= Len(line)
  BY <1>1, <1>2 DEF LastOf
<1>3. CASE 8 * b > Len(line)
  <2>1. Len(line) % 8 \in 1 .. 7
    BY <1>1, <1>3
  <2> DEFINE m == Len(line) % 8
  <2>2. m \in 1 .. 7
    BY <2>1
  <2> HIDE DEF m
  <2>3. Weight[m] \in {128, 64, 32, 16, 8, 4, 2}
    BY <2>2 DEF Weight
  <2>4. line[b] % Weight[m] \in 0 .. 1
    <3> DEFINE v == line[b]  u == Weight[m]
    <3>1. v \in 0 .. 1 /\ u \in {128, 64, 32, 16, 8, 4, 2}
      BY <1>1, <2>3
    <3> HIDE DEF v, u
    <3>2. v % u \in 0 .. 1
      BY <3>1
    <3> QED BY <3>2 DEF v, u
  <2>5. BitOf(line, 8 * b) = 0
    BY <1>1, <1>3 DEF BitOf
  <2>6. LastOf(line, b) = 0 + (line[b] % Weight[m])
    BY <1>1, <1>3, <2>5 DEF LastOf, m
  <2> QED BY <1>1, <1>3, <2>4, <2>6
<1> QED BY <1>1, <1>2, <1>3

LEMMA CompactIs ==
  ASSUME NEW line \in Seq(0 .. 1), Len(line) > 0
  PROVE  /\ Compact(line) \in Seq(Octet) /\ Len(Compact(line)) = (Len(line) + 7) \div 8
         /\ \A i \in 1 .. Len(line) :
              (Compact(line)[(i - 1) \div 8 + 1] \div Weight[((i - 1) % 8) + 1]) % 2 = line[i]
<1> DEFINE size == (Len(line) + 7) \div 8  B(k) == BitOf(line, k)
           sum(b) == Sum8(B(8 * b - 7), B(8 * b - 6), B(8 * b - 5), B(8 * b - 4), B(8 * b - 3),
                          B(8 * b - 2), B(8 * b - 1), LastOf(line, b))
<1>1. size \in Nat /\ Len(line) \in Nat
  OBVIOUS
<1>2. \A k : B(k) \in 0 .. 1
  BY DEF BitOf
<1>3. \A b \in 1 .. size : LastOf(line, b) \in 0 .. 1 /\ (8 * b <= Len(line) => LastOf(line, b) = B(8 * b))
  BY LastIs
<1>4. ASSUME NEW b \in 1 .. size PROVE Compact(line)[b] = sum(b)
  <2> DEFINE extra == IF 8 * b > Len(line) THEN line[b] % Weight[Len(line) % 8] ELSE 0
             f == 8 * b - 7
  <2>1. Compact(line)[b] = 128 * B(f) + 64 * B(f + 1) + 32 * B(f + 2) + 16 * B(f + 3)
           + 8 * B(f + 4) + 4 * B(f + 5) + 2 * B(f + 6) + B(f + 7) + extra
    BY DEF Compact, BitOf
  <2>2. f = 8 * b - 7 /\ f + 1 = 8 * b - 6 /\ f + 2 = 8 * b - 5 /\ f + 3 = 8 * b - 4
        /\ f + 4 = 8 * b - 3 /\ f + 5 = 8 * b - 2 /\ f + 6 = 8 * b - 1 /\ f + 7 = 8 * b
    BY <1>1
  <2>3. LastOf(line, b) = B(8 * b) + extra
    BY DEF LastOf
  <2>4. extra \in Int
    <3>1. LastOf(line, b) \in 0 .. 1 /\ B(8 * b) \in 0 .. 1
      BY <1>2, <1>3
    <3>2. 8 * b <= Len(line) => extra = 0
      BY <1>1
    <3>3. 8 * b > Len(line) => extra \in Nat
      <4> SUFFICES ASSUME 8 * b > Len(line) PROVE extra \in Nat
        OBVIOUS
      <4> DEFINE m == Len(line) % 8  v == line[b]
      <4>1. m \in 1 .. 7 /\ v \in 0 .. 1
        BY <1>1
      <4> HIDE DEF m, v
      <4>2. Weight[m] \in {128, 64, 32, 16, 8, 4, 2}
        BY <4>1 DEF Weight
      <4>3. v % Weight[m] \in Nat
        <5> DEFINE u == Weight[m]
        <5>1. u \in Nat \ {0}
          BY <4>2
        <5> HIDE DEF u
        <5>2. v % u \in Nat
          BY <4>1, <5>1
        <5> QED BY <5>2 DEF u
      <4> QED BY <4>3 DEF m, v
    <3> QED BY <1>1, <3>2, <3>3
  <2> DEFINE b1 == B(8 * b - 7) b2 == B(8 * b - 6) b3 == B(8 * b - 5) b4 == B(8 * b - 4)
             b5 == B(8 * b - 3) b6 == B(8 * b - 2) b7 == B(8 * b - 1) b8 == B(8 * b)
             last == LastOf(line, b)
  <2>5. /\ b1 \in 0 .. 1 /\ b2 \in 0 .. 1 /\ b3 \in 0 .. 1 /\ b4 \in 0 .. 1
        /\ b5 \in 0 .. 1 /\ b6 \in 0 .. 1 /\ b7 \in 0 .. 1 /\ b8 \in 0 .. 1
    BY <1>2
  <2>6. Compact(line)[b] = 128 * b1 + 64 * b2 + 32 * b3 + 16 * b4 + 8 * b5 + 4 * b6 + 2 * b7 + b8 + extra
    BY <2>1, <2>2
  <2>7. sum(b) = 128 * b1 + 64 * b2 + 32 * b3 + 16 * b4 + 8 * b5 + 4 * b6 + 2 * b7 + last /\ last = b8 + extra
    BY <2>3 DEF Sum8
  <2> HIDE DEF b1, b2, b3, b4, b5, b6, b7, b8, last, extra, sum
  <2> QED BY <2>4, <2>5, <2>6, <2>7
<1>5. ASSUME NEW b \in 1 .. size
      PROVE  /\ sum(b) \in Octet
             /\ (sum(b) \div 128) % 2 = B(8 * b - 7) /\ (sum(b) \div 64) % 2 = B(8 * b - 6)
             /\ (sum(b) \div 32) % 2 = B(8 * b - 5) /\ (sum(b) \div 16) % 2 = B(8 * b - 4)
             /\ (sum(b) \div 8) % 2 = B(8 * b - 3) /\ (sum(b) \div 4) % 2 = B(8 * b - 2)
             /\ (sum(b) \div 2) % 2 = B(8 * b - 1) /\ (sum(b) \div 1) % 2 = LastOf(line, b)
  <2>1. LastOf(line, b) \in 0 .. 1
    BY <1>3
  <2> HIDE DEF B
  <2> DEFINE s == sum(b)
  <2>2. s = Sum8(B(8 * b - 7), B(8 * b - 6), B(8 * b - 5), B(8 * b - 4), B(8 * b - 3),
                 B(8 * b - 2), B(8 * b - 1), LastOf(line, b))
    OBVIOUS
  <2> HIDE DEF s
  <2>3. /\ s \in Octet
        /\ (s \div 128) % 2 = B(8 * b - 7) /\ (s \div 64) % 2 = B(8 * b - 6)
        /\ (s \div 32) % 2 = B(8 * b - 5) /\ (s \div 16) % 2 = B(8 * b - 4)
        /\ (s \div 8) % 2 = B(8 * b - 3) /\ (s \div 4) % 2 = B(8 * b - 2)
        /\ (s \div 2) % 2 = B(8 * b - 1) /\ (s \div 1) % 2 = LastOf(line, b)
    BY <1>2, <2>1, <2>2, BitsOf
  <2> QED BY <2>3 DEF s
<1> HIDE DEF sum, B
<1>6. Compact(line) \in Seq(Octet) /\ Len(Compact(line)) = size
  <2> DEFINE of == Compact(line)
  <2>1. of = [b \in 1 .. size |-> of[b]]
    BY DEF Compact
  <2> HIDE DEF of
  <2>2. of \in [1 .. size -> Octet]
    BY <1>4, <1>5, <2>1 DEF of
  <2> HIDE DEF size
  <2> QED BY <1>1, <2>2 DEF of
<1>7. ASSUME NEW i \in 1 .. Len(line)
      PROVE  (Compact(line)[(i - 1) \div 8 + 1] \div Weight[((i - 1) % 8) + 1]) % 2 = line[i]
  <2> DEFINE b == (i - 1) \div 8 + 1  r == ((i - 1) % 8) + 1
  <2>1. b \in 1 .. size /\ r \in 1 .. 8 /\ i = 8 * b - 8 + r
    BY <1>1
  <2> DEFINE s == sum(b)
  <2>2. Compact(line)[b] = s
    BY <1>4, <2>1
  <2>3. B(i) = line[i]
    <3>1. line[i] \in 0 .. 1 /\ i <= Len(line)
      BY <1>1
    <3> QED BY <3>1 DEF B, BitOf
  <2>4. i = 8 * b => LastOf(line, b) = B(i)
    <3>1. i = 8 * b => 8 * b <= Len(line)
      BY <1>1
    <3> QED BY <1>3, <2>1, <3>1 DEF B
  <2> HIDE DEF b, r
  <2>5. /\ (r = 1 => i = 8 * b - 7) /\ (r = 2 => i = 8 * b - 6) /\ (r = 3 => i = 8 * b - 5)
        /\ (r = 4 => i = 8 * b - 4) /\ (r = 5 => i = 8 * b - 3) /\ (r = 6 => i = 8 * b - 2)
        /\ (r = 7 => i = 8 * b - 1) /\ (r = 8 => i = 8 * b)
    BY <1>1, <2>1
  <2>6. /\ (s \div 128) % 2 = B(8 * b - 7) /\ (s \div 64) % 2 = B(8 * b - 6)
        /\ (s \div 32) % 2 = B(8 * b - 5) /\ (s \div 16) % 2 = B(8 * b - 4)
        /\ (s \div 8) % 2 = B(8 * b - 3) /\ (s \div 4) % 2 = B(8 * b - 2)
        /\ (s \div 2) % 2 = B(8 * b - 1) /\ (s \div 1) % 2 = LastOf(line, b)
    BY <1>5, <2>1
  <2>7. /\ Weight[1] = 128 /\ Weight[2] = 64 /\ Weight[3] = 32 /\ Weight[4] = 16
        /\ Weight[5] = 8 /\ Weight[6] = 4 /\ Weight[7] = 2 /\ Weight[8] = 1
    BY DEF Weight
  <2> HIDE DEF s
  <2>8. r \in {1, 2, 3, 4, 5, 6, 7, 8}
    BY <2>1
  <2>9. (s \div Weight[r]) % 2 = B(i)
    BY <2>4, <2>5, <2>6, <2>7, <2>8
  <2> QED BY <2>2, <2>3, <2>9 DEF b, r
<1> QED BY <1>6, <1>7

Factor(p) == IF p.space = "BINARY" /\ ~Bits(p) THEN 255 ELSE 1

LEMMA Once ==
  ASSUME NEW v \in Octet
  PROVE  v * 1 = v
BY DEF Octet

(* The bytes of a line, and that they become the line again.               *)
Ready(p, line, raw) ==
  /\ raw \in Seq(Octet) /\ Len(raw) = RawSize(p)
  /\ \A k \in 1 .. LineSize(p) : Unraw(p, raw)[k] = line[k] * Factor(p)

LEMMA BitsReady ==
  ASSUME NEW p, AnImage(p), NEW line \in Seq(Value(p)), Len(line) = LineSize(p), NEW junk \in Octet,
         Bits(p)
  PROVE  Ready(p, line, Raw(p, line, junk))
<1> DEFINE raw == Raw(p, line, junk)  w == p.width  bits == Compact(line)
<1>1. /\ line \in Seq(0 .. 1) /\ Len(line) = w /\ w \in Nat \ {0} /\ LineSize(p) = w
      /\ RawSize(p) \in Nat /\ (w + 7) \div 8 <= RawSize(p) /\ Factor(p) = 1 /\ p.space = "BINARY"
  BY ImageIs, RawSizeIs DEF Value, Factor, Bits
<1>2. raw = Padded(bits, RawSize(p), junk)
  BY <1>1 DEF Raw
<1>3. /\ bits \in Seq(Octet) /\ Len(bits) = (w + 7) \div 8
      /\ \A i \in 1 .. w : (bits[(i - 1) \div 8 + 1] \div Weight[((i - 1) % 8) + 1]) % 2 = line[i]
  BY <1>1, CompactIs
<1> HIDE DEF raw, bits
<1>4. raw \in Seq(Octet) /\ Len(raw) = RawSize(p) /\ \A k \in 1 .. Len(bits) : raw[k] = bits[k]
  BY <1>1, <1>2, <1>3, PaddedIs
<1>5. Unraw(p, raw) = [i \in 1 .. w |-> (raw[(i - 1) \div 8 + 1] \div Weight[((i - 1) % 8) + 1]) % 2]
  BY <1>1 DEF Unraw, Expand
<1>6. ASSUME NEW i \in 1 .. w PROVE Unraw(p, raw)[i] = line[i] * Factor(p)
  <2>1. (i - 1) \div 8 + 1 \in 1 .. Len(bits)
    BY <1>1, <1>3
  <2>2. raw[(i - 1) \div 8 + 1] = bits[(i - 1) \div 8 + 1]
    BY <1>4, <2>1
  <2>3. Unraw(p, raw)[i] = (raw[(i - 1) \div 8 + 1] \div Weight[((i - 1) % 8) + 1]) % 2
    BY <1>5
  <2>4. Unraw(p, raw)[i] = (bits[(i - 1) \div 8 + 1] \div Weight[((i - 1) % 8) + 1]) % 2
    BY <2>2, <2>3
  <2>5. Unraw(p, raw)[i] = line[i]
    BY <1>3, <2>4
  <2>6. line[i] \in 0 .. 1
    BY <1>1
  <2> QED BY <1>1, <2>5, <2>6
<1> QED BY <1>1, <1>4, <1>6 DEF Ready, raw

(* Padding only.                                                           *)
LEMMA PlainReady ==
  ASSUME NEW p, AnImage(p), NEW line \in Seq(Value(p)), Len(line) = LineSize(p), NEW junk \in Octet,
         p.space # "BINARY", p.space = "RGB" => p.driver = "SGI"
  PROVE  Ready(p, line, Raw(p, line, junk))
<1> DEFINE raw == Raw(p, line, junk)  n == LineSize(p)
<1>1. /\ line \in Seq(Octet) /\ n \in Nat \ {0} /\ Len(line) = n
      /\ RawSize(p) \in Nat /\ n <= RawSize(p) /\ Factor(p) = 1 /\ ~Bits(p)
  BY ImageIs, RawSizeIs DEF Value, Factor, Bits
<1>2. raw = Padded(line, RawSize(p), junk)
  BY <1>1 DEF Raw
<1> HIDE DEF n
<1>3. raw \in Seq(Octet) /\ Len(raw) = RawSize(p) /\ \A k \in 1 .. Len(line) : raw[k] = line[k]
  BY <1>1, <1>2, PaddedIs
<1>4. Unraw(p, raw) = SubSeq(raw, 1, n)
  BY <1>1 DEF Unraw, n
<1> HIDE DEF raw
<1>5. ASSUME NEW k \in 1 .. n PROVE Unraw(p, raw)[k] = line[k] * Factor(p)
  <2> DEFINE one == 1
  <2>1. one \in Nat \ {0} /\ one + n - 1 = n /\ one + n - 1 <= Len(raw) /\ one + k - 1 = k
    BY <1>1, <1>3
  <2> HIDE DEF one
  <2>2. SubSeq(raw, one, one + n - 1)[k] = raw[one + k - 1]
    BY <1>1, <1>3, <2>1, PieceIs
  <2>3. SubSeq(raw, 1, n)[k] = raw[k]
    BY <2>1, <2>2 DEF one
  <2>4. raw[k] = line[k] /\ line[k] \in Octet
    BY <1>1, <1>3
  <2>5. line[k] * 1 = line[k]
    BY <2>4, Once
  <2> QED BY <1>1, <1>4, <2>3, <2>4, <2>5
<1> QED BY <1>3, <1>5 DEF Ready, raw, n

(* Black and white as gray.                                                *)
LEMMA GrayReady ==
  ASSUME NEW p, AnImage(p), NEW line \in Seq(Value(p)), Len(line) = LineSize(p), NEW junk \in Octet,
         p.space = "BINARY", ~Bits(p)
  PROVE  Ready(p, line, Raw(p, line, junk))
<1> DEFINE raw == Raw(p, line, junk)  n == LineSize(p)
<1>1. /\ line \in Seq(0 .. 1) /\ n \in Nat \ {0} /\ Len(line) = n
      /\ RawSize(p) = n /\ Factor(p) = 255 /\ p.driver \in {"TGA", "SGI"}
  BY ImageIs, RawSizeIs DEF Value, Factor, Bits, Coder
<1>2. raw = [k \in 1 .. n |-> IF line[k] # 0 THEN 255 ELSE line[k]]
  <2>1. DOMAIN line = 1 .. n
    BY <1>1
  <2> QED BY <2>1 DEF Raw
<1>3. Unraw(p, raw) = SubSeq(raw, 1, n)
  BY DEF Unraw
<1> HIDE DEF raw, n
<1>4. \A k \in 1 .. n : raw[k] = line[k] * 255 /\ raw[k] \in Octet
  BY <1>1, <1>2 DEF Octet
<1>5. raw \in Seq(Octet) /\ Len(raw) = n
  <2>1. raw \in [1 .. n -> Octet]
    BY <1>2, <1>4
  <2> QED BY <1>1, <2>1
<1>6. ASSUME NEW k \in 1 .. n PROVE SubSeq(raw, 1, n)[k] = raw[k]
  <2> DEFINE one == 1
  <2>1. one \in Nat \ {0} /\ one + n - 1 = n /\ one + n - 1 <= Len(raw) /\ one + k - 1 = k
    BY <1>1, <1>5
  <2> HIDE DEF one
  <2>2. SubSeq(raw, one, one + n - 1)[k] = raw[one + k - 1]
    BY <1>1, <1>5, <2>1, PieceIs
  <2> QED BY <2>1, <2>2 DEF one
<1> QED BY <1>1, <1>3, <1>4, <1>5, <1>6 DEF Ready, raw, n

(* Colors, each a line of its own in PCX.                                  *)
LEMMA PlanesReady ==
  ASSUME NEW p, AnImage(p), NEW line \in Seq(Value(p)), Len(line) = LineSize(p), NEW junk \in Octet,
         p.space = "RGB", p.driver = "PCX"
  PROVE  Ready(p, line, Raw(p, line, junk))
<1> DEFINE raw == Raw(p, line, junk)  w == p.width  n == RawSize(p) \div 3
           of(k) == IF (k - 1) % n < w THEN line[3 * ((k - 1) % n) + (k - 1) \div n + 1] ELSE junk
<1>1. /\ line \in Seq(Octet) /\ w \in Nat \ {0} /\ LineSize(p) = 3 * w /\ Len(line) = 3 * w
      /\ RawSize(p) \in Nat /\ RawSize(p) = 3 * n /\ w <= n /\ n \in Nat /\ Factor(p) = 1 /\ ~Bits(p)
  <2>1. /\ line \in Seq(Octet) /\ w \in Nat \ {0} /\ LineSize(p) = 3 * w
        /\ RawSize(p) \in Nat /\ RawSize(p) = 3 * n /\ w <= n /\ Factor(p) = 1 /\ ~Bits(p)
    BY ImageIs, RawSizeIs DEF Value, Factor, Bits
  <2> QED BY <2>1
<1>2. raw = [k \in 1 .. RawSize(p) |-> of(k)]
  BY <1>1 DEF Raw
<1>3. Unraw(p, raw) = [k \in 1 .. LineSize(p) |-> raw[((k - 1) % 3) * n + (k - 1) \div 3 + 1]]
  BY <1>1 DEF Unraw
<1> HIDE DEF raw, w, n
<1>4. ASSUME NEW k \in 1 .. 3 * n PROVE of(k) \in Octet
  <2> DEFINE j == k - 1  three == 3
  <2>1. j \in Nat /\ j < three * n /\ n \in Nat \ {0} /\ three \in Nat
    BY <1>1
  <2> HIDE DEF j, three
  <2>2. j % n \in 0 .. n - 1 /\ j \div n \in 0 .. three - 1
    BY <2>1, DivMod, DivModIn
  <2> DEFINE x == j % n  d == j \div n
  <2>3. x \in Nat /\ d \in 0 .. 2
    BY <1>1, <2>2 DEF three
  <2> HIDE DEF x, d
  <2>4. x < w => 3 * x + d + 1 \in 1 .. Len(line)
    BY <1>1, <2>3
  <2>5. of(k) = IF x < w THEN line[3 * x + d + 1] ELSE junk
    BY DEF x, d, j
  <2> HIDE DEF of
  <2> QED BY <1>1, <2>4, <2>5
<1>5. raw \in Seq(Octet) /\ Len(raw) = RawSize(p)
  <2> HIDE DEF of
  <2>1. raw \in [1 .. RawSize(p) -> Octet]
    BY <1>1, <1>2, <1>4
  <2> QED BY <1>1, <2>1
<1>6. ASSUME NEW k \in 1 .. 3 * w PROVE Unraw(p, raw)[k] = line[k] * Factor(p)
  <2> DEFINE j == k - 1  q == j \div 3  r == j % 3  at == r * n + q
  <2>1. q \in 0 .. w - 1 /\ r \in 0 .. 2 /\ j = 3 * q + r /\ k = 3 * q + r + 1
    BY <1>1
  <2>2. Unraw(p, raw)[k] = raw[at + 1]
    BY <1>1, <1>3
  <2> HIDE DEF q, r, j
  <2>3. q \in 0 .. n - 1 /\ n \in Nat \ {0} /\ r \in Nat
    BY <1>1, <2>1
  <2>4. at \div n = r /\ at % n = q
    BY <2>3, DivModOf
  <2>5. at \in 0 .. 3 * n - 1
    <3> DEFINE three == 3
    <3>1. three \in Nat /\ r \in 0 .. three - 1
      BY <2>1
    <3> HIDE DEF three
    <3>2. r * n + q \in 0 .. three * n - 1
      BY <2>3, <3>1, Within
    <3> QED BY <3>2 DEF three
  <2> HIDE DEF at
  <2>6. at + 1 \in 1 .. RawSize(p) /\ at + 1 - 1 = at
    BY <1>1, <2>5
  <2>7. raw[at + 1] = of(at + 1)
    BY <1>2, <2>6
  <2>8. of(at + 1) = IF q < w THEN line[3 * q + r + 1] ELSE junk
    BY <2>4, <2>5, <2>6
  <2>9. q < w
    BY <1>1, <2>1
  <2>10. Unraw(p, raw)[k] = line[k]
    BY <2>1, <2>2, <2>7, <2>8, <2>9
  <2>11. line[k] \in Octet
    BY <1>1
  <2>12. line[k] * 1 = line[k]
    BY <2>11, Once
  <2> QED BY <1>1, <2>10, <2>12
<1> QED BY <1>1, <1>5, <1>6 DEF Ready, raw

(* The order of the colors, changed twice, is what it was.                 *)
LEMMA SwapIs ==
  ASSUME NEW n \in 3 .. 4, NEW driver, NEW d \in 0 .. n - 1
  PROVE  Swap(n, driver, d) \in 0 .. n - 1 /\ Swap(n, driver, Swap(n, driver, d)) = d
<1>1. n = 3 \/ n = 4
  OBVIOUS
<1>2. CASE n = 3
  BY <1>2 DEF Swap
<1>3. CASE n = 4 /\ driver = "RAS"
  BY <1>3 DEF Swap
<1>4. CASE n = 4 /\ driver # "RAS"
  BY <1>4 DEF Swap
<1> QED BY <1>1, <1>2, <1>3, <1>4

(* A line of w pixels of n bytes, and the one with each swapped.           *)
Swapped(line, swapped, w, n, driver) ==
  /\ swapped \in Seq(Octet) /\ Len(swapped) = w * n
  /\ \A x \in 0 .. w - 1, d \in 0 .. n - 1 :
       swapped[x * n + d + 1] = line[x * n + Swap(n, driver, d) + 1]

LEMMA FixRGBIs ==
  ASSUME NEW p, NEW n \in 3 .. 4, FileDepth(p) = n, NEW line \in Seq(Octet), NEW w \in Nat,
         Len(line) = w * n
  PROVE  Swapped(line, FixRGB(p, line), w, n, p.driver)
<1> DEFINE made == FixRGB(p, line)
           of(k) == line[((k - 1) \div n) * n + Swap(n, p.driver, (k - 1) % n) + 1]
<1>1. n \in Nat \ {0} /\ w * n \in Nat /\ \A d \in 0 .. n - 1 : Swap(n, p.driver, d) \in 0 .. n - 1
  BY SwapIs
<1>2. made = [k \in 1 .. w * n |-> of(k)]
  BY DEF FixRGB
<1> HIDE DEF made
<1>3. ASSUME NEW x \in 0 .. w - 1, NEW d \in 0 .. n - 1
      PROVE  /\ x * n + d + 1 \in 1 .. w * n /\ of(x * n + d + 1) = line[x * n + Swap(n, p.driver, d) + 1]
             /\ line[x * n + Swap(n, p.driver, d) + 1] \in Octet
  <2> DEFINE at == x * n + d
  <2>1. at \in 0 .. w * n - 1 /\ x * n + Swap(n, p.driver, d) \in 0 .. w * n - 1
    BY <1>1, Within
  <2>2. at \div n = x /\ at % n = d
    <3>1. x \in Nat
      OBVIOUS
    <3> QED BY ZenonT(40), <1>1, <3>1, DivModOf
  <2> HIDE DEF at
  <2>3. at + 1 \in 1 .. w * n /\ at + 1 - 1 = at
    BY <1>1, <2>1
  <2>4. of(at + 1) = line[x * n + Swap(n, p.driver, d) + 1]
    <3> DEFINE k == at + 1  j == k - 1  a == j \div n  b == j % n
    <3>1. j = at
      BY <2>1, <2>3
    <3> HIDE DEF k
    <3>2. of(k) = line[a * n + Swap(n, p.driver, b) + 1]
      OBVIOUS
    <3> HIDE DEF j
    <3>3. a = x /\ b = d
      BY <2>2, <3>1
    <3> HIDE DEF a, b, of
    <3>4. of(k) = line[x * n + Swap(n, p.driver, d) + 1]
      BY <3>2, <3>3
    <3> QED BY <3>4 DEF k
  <2>5. x * n + Swap(n, p.driver, d) + 1 \in 1 .. Len(line)
    <3> DEFINE y == x * n + Swap(n, p.driver, d)  total == w * n
    <3>1. y \in 0 .. total - 1 /\ total \in Nat /\ Len(line) = total
      BY <1>1, <2>1
    <3> HIDE DEF y, total
    <3>2. y + 1 \in 1 .. Len(line)
      BY <3>1
    <3> QED BY <3>2 DEF y
  <2> QED BY <2>3, <2>4, <2>5 DEF at
<1>4. ASSUME NEW k \in 1 .. w * n PROVE of(k) \in Octet
  <2> DEFINE j == k - 1  x == j \div n  d == j % n
  <2>1. j \in Nat /\ j < w * n
    BY <1>1
  <2> HIDE DEF j
  <2>2. x \in 0 .. w - 1 /\ d \in 0 .. n - 1 /\ j = x * n + d
    BY <1>1, <2>1, DivMod, DivModIn
  <2>3. of(k) = line[x * n + Swap(n, p.driver, d) + 1]
    BY DEF j
  <2> HIDE DEF x, d, of
  <2> QED BY <1>3, <2>2, <2>3
<1> HIDE DEF of
<1>5. made \in [1 .. w * n -> Octet]
  BY <1>2, <1>4
<1>6. made \in Seq(Octet) /\ Len(made) = w * n
  BY <1>1, <1>5
<1>7. \A x \in 0 .. w - 1, d \in 0 .. n - 1 : made[x * n + d + 1] = line[x * n + Swap(n, p.driver, d) + 1]
  BY <1>2, <1>3
<1> QED BY <1>6, <1>7 DEF Swapped, made

LEMMA ColorsReady ==
  ASSUME NEW p, AnImage(p), NEW line \in Seq(Value(p)), Len(line) = LineSize(p), NEW junk \in Octet,
         p.space = "RGB", p.driver \notin {"PCX", "SGI"}
  PROVE  Ready(p, line, Raw(p, line, junk))
<1> DEFINE raw == Raw(p, line, junk)  w == p.width  n == FileDepth(p)  size == LineSize(p)
           fixed == FixRGB(p, line)  cut == SubSeq(raw, 1, size)  again == FixRGB(p, cut)
           S(d) == Swap(n, p.driver, d)
<1>1. /\ line \in Seq(Octet) /\ w \in Nat \ {0} /\ n \in 3 .. 4 /\ size = w * n /\ Len(line) = size
      /\ RawSize(p) \in Nat /\ size \in Nat /\ size <= RawSize(p) /\ Factor(p) = 1 /\ ~Bits(p)
  BY ImageIs, RawSizeIs DEF Value, Factor, Bits, LineSize
<1>2. raw = Padded(fixed, RawSize(p), junk)
  BY <1>1 DEF Raw
<1>3. Unraw(p, raw) = again
  BY <1>1 DEF Unraw
<1> HIDE DEF raw, again, fixed, cut, size
<1>4. Swapped(line, fixed, w, n, p.driver)
  <2> HIDE DEF w, n
  <2>1. FileDepth(p) = n /\ Len(line) = w * n /\ w \in Nat
    BY <1>1 DEF n
  <2> QED BY <1>1, <2>1, FixRGBIs DEF fixed
<1>5. fixed \in Seq(Octet) /\ Len(fixed) = size
  BY <1>1, <1>4 DEF Swapped
<1>6. raw \in Seq(Octet) /\ Len(raw) = RawSize(p) /\ \A k \in 1 .. size : raw[k] = fixed[k]
  <2> DEFINE full == RawSize(p)
  <2>1. full \in Nat /\ size <= full /\ raw = Padded(fixed, full, junk)
    BY <1>1, <1>2
  <2> HIDE DEF full
  <2>2. raw \in Seq(Octet) /\ Len(raw) = full /\ \A k \in 1 .. size : raw[k] = fixed[k]
    BY <1>5, <2>1, PaddedIs
  <2> QED BY <2>2 DEF full
<1>7. cut \in Seq(Octet) /\ Len(cut) = size /\ \A k \in 1 .. size : cut[k] = fixed[k]
  <2> DEFINE one == 1
  <2>1. /\ one \in Nat \ {0} /\ one + size - 1 = size /\ one + size - 1 <= Len(raw)
        /\ \A k \in 1 .. size : one + k - 1 = k
    BY <1>1, <1>6
  <2>2. cut = SubSeq(raw, one, one + size - 1)
    BY <2>1 DEF cut
  <2> HIDE DEF one
  <2>3. cut \in Seq(Octet) /\ Len(cut) = size
    BY SMTT(20), <1>1, <1>6, <2>1, <2>2, PieceIs
  <2>4. ASSUME NEW k \in 1 .. size PROVE cut[k] = fixed[k]
    <3>1. cut[k] = raw[one + k - 1]
      BY <1>1, <1>6, <2>1, <2>2, PieceIs
    <3> QED BY <1>6, <2>1, <3>1
  <2> QED BY <2>3, <2>4
<1>8. Swapped(cut, again, w, n, p.driver)
  <2> HIDE DEF w, n
  <2>1. FileDepth(p) = n /\ Len(cut) = w * n /\ w \in Nat
    BY <1>1, <1>7 DEF n
  <2> QED BY <1>1, <1>7, <2>1, FixRGBIs DEF again
<1> HIDE DEF w, n
<1>9. ASSUME NEW k \in 1 .. size PROVE again[k] = line[k]
  <2> DEFINE j == k - 1  x == j \div n  d == j % n
  <2>1. j \in Nat /\ j < w * n /\ n \in Nat \ {0} /\ w \in Nat
    BY <1>1
  <2> HIDE DEF j
  <2>2. x \in 0 .. w - 1 /\ d \in 0 .. n - 1 /\ j = x * n + d
    BY <2>1, DivMod, DivModIn
  <2> HIDE DEF x, d
  <2>3. S(d) \in 0 .. n - 1 /\ S(S(d)) = d
    BY <1>1, <2>2, SwapIs
  <2> HIDE DEF S
  <2>4. again[x * n + d + 1] = cut[x * n + S(d) + 1]
    BY <1>8, <2>2 DEF Swapped, S
  <2>5. x * n + S(d) \in 0 .. w * n - 1
    BY <2>1, <2>2, <2>3, Within
  <2>6. x * n + S(d) + 1 \in 1 .. size
    BY <1>1, <2>5
  <2>7. cut[x * n + S(d) + 1] = fixed[x * n + S(d) + 1]
    BY <1>7, <2>6
  <2>8. fixed[x * n + S(d) + 1] = line[x * n + d + 1]
    <3> DEFINE e == S(d)
    <3>1. e \in 0 .. n - 1 /\ Swap(n, p.driver, e) = d
      BY <2>3 DEF S
    <3> HIDE DEF e
    <3>2. fixed[x * n + e + 1] = line[x * n + Swap(n, p.driver, e) + 1]
      BY <1>4, <2>2, <3>1 DEF Swapped
    <3> QED BY <3>1, <3>2 DEF e
  <2>9. k = x * n + d + 1
    <3>1. k \in Nat /\ k - 1 = j
      BY <1>1 DEF j
    <3> QED BY <2>1, <2>2, <3>1
  <2> QED BY <2>4, <2>7, <2>8, <2>9
<1>10. ASSUME NEW k \in 1 .. size PROVE Unraw(p, raw)[k] = line[k] * Factor(p)
  <2>1. line[k] * 1 = line[k]
    <3>1. line[k] \in Octet
      BY <1>1
    <3> QED BY <3>1, Once
  <2> QED BY <1>1, <1>3, <1>9, <2>1
<1> QED BY <1>6, <1>10 DEF Ready, raw, size

(* Packed into bits or planes, swapped and padded, whatever it is padded   *)
(* with: a line of pixels made bytes is unpacked to the same pixels.       *)
THEOREM RawReady ==
  ASSUME NEW p, AnImage(p), NEW line \in Seq(Value(p)), Len(line) = LineSize(p), NEW junk \in Octet
  PROVE  Ready(p, line, Raw(p, line, junk))
<1>1. CASE Bits(p)
  BY <1>1, BitsReady
<1>2. CASE ~Bits(p) /\ p.space = "BINARY"
  BY <1>2, GrayReady
<1>3. CASE p.space = "RGB" /\ p.driver = "PCX"
  BY <1>3, PlanesReady
<1>4. CASE p.space = "RGB" /\ p.driver \notin {"PCX", "SGI"}
  BY <1>4, ColorsReady
<1>5. CASE p.space # "BINARY" /\ (p.space = "RGB" => p.driver = "SGI")
  BY <1>5, PlainReady
<1> QED BY <1>1, <1>2, <1>3, <1>4, <1>5

(* What is coded of a line's bytes, and its elements.                      *)
CodedLine(p, raw) == IF p.driver = "BMP" THEN SubSeq(raw, 1, p.width) ELSE raw
ElementsIn(p, raw) ==
  IF p.driver = "TGA"
  THEN [x \in 1 .. p.width |-> SubSeq(raw, (x - 1) * FileDepth(p) + 1, x * FileDepth(p))]
  ELSE CodedLine(p, raw)
Coded(p, raw, bytes) ==
  [driver |-> p.driver, file |-> bytes, size |-> PixelSize(p), line |-> CodedLine(p, raw)]

LEMMA CodedLineIs ==
  ASSUME NEW p, AnImage(p), p.rle, NEW raw \in Seq(Octet), Len(raw) = RawSize(p)
  PROVE  /\ CodedLine(p, raw) \in Seq(Octet) /\ Len(CodedLine(p, raw)) = CodedSize(p)
         /\ SubSeq(raw, 1, CodedSize(p)) = CodedLine(p, raw)
         /\ CodedSize(p) \in Nat \ {0}
         /\ p.driver = "BMP" => p.space = "GRAY" /\ LineSize(p) = p.width /\ p.width <= RawSize(p)
<1>1. /\ p.width \in Nat \ {0} /\ RawSize(p) \in Nat \ {0} /\ LineSize(p) \in Nat
      /\ (~Bits(p) => LineSize(p) <= RawSize(p))
  BY ImageIs, RawSizeIs
<1>2. CASE p.driver = "BMP"
  <2>1. p.space = "GRAY"
    BY <1>2 DEF AnImage
  <2>2. ~Bits(p) /\ ~FileMode(p).packed
    BY <2>1, ImageIs DEF Bits
  <2>3. LineSize(p) = p.width
    BY <1>1, <2>2 DEF LineSize
  <2>4. CodedSize(p) = p.width /\ CodedLine(p, raw) = SubSeq(raw, 1, p.width) /\ p.width <= RawSize(p)
    BY <1>1, <1>2, <2>2, <2>3 DEF CodedSize, CodedLine
  <2> DEFINE one == 1  w == p.width
  <2>5. one \in Nat \ {0} /\ w \in Nat /\ one + w - 1 = w /\ one + w - 1 <= Len(raw)
    BY <1>1, <2>4
  <2> HIDE DEF one, w
  <2>6. SubSeq(raw, one, one + w - 1) \in Seq(Octet) /\ Len(SubSeq(raw, one, one + w - 1)) = w
    BY <2>5, PieceIs
  <2> QED BY <1>1, <2>1, <2>3, <2>4, <2>5, <2>6 DEF one, w
<1>3. CASE p.driver # "BMP"
  <2>1. CodedSize(p) = RawSize(p) /\ CodedLine(p, raw) = raw
    BY <1>3 DEF CodedSize, CodedLine
  <2>2. SubSeq(raw, 1, Len(raw)) = raw
    BY SubSeqFull
  <2> QED BY <1>1, <1>3, <2>1, <2>2
<1> QED BY <1>2, <1>3

LEMMA CodedIs ==
  ASSUME NEW p, AnImage(p), p.rle, NEW raw \in Seq(Octet), Len(raw) = RawSize(p),
         NEW bytes \in Seq(Octet), NEW c, c = Coded(p, raw, bytes)
  PROVE  /\ c \in Coding /\ ElementsOf(c, ElementsIn(p, raw))
         /\ InFile(p, raw) = EncodeFrom(c.driver, ElementsIn(p, raw))[1]
         /\ c.driver = p.driver /\ c.file = bytes /\ c.size = PixelSize(p)
         /\ c.line = CodedLine(p, raw) /\ Len(c.line) = CodedSize(p)
<1>1. /\ p.driver \in Coder /\ FileDepth(p) \in 1 .. 4 /\ p.width \in Nat \ {0}
      /\ CodedLine(p, raw) \in Seq(Octet) /\ Len(CodedLine(p, raw)) = CodedSize(p)
      /\ SubSeq(raw, 1, CodedSize(p)) = CodedLine(p, raw)
  BY ImageIs, CodedLineIs
<1>2. c.driver = p.driver /\ c.file = bytes /\ c.size = PixelSize(p) /\ c.line = CodedLine(p, raw)
  BY DEF Coded
<1>3. c \in Coding
  BY <1>1 DEF Coded, Coding, PixelSize
<1>4. CASE p.driver = "TGA"
  <2> DEFINE n == FileDepth(p)  w == p.width  pixels == ElementsIn(p, raw)
  <2>1. pixels = [x \in 1 .. w |-> SubSeq(raw, (x - 1) * n + 1, x * n)] /\ c.line = raw /\ c.size = n
    BY <1>2, <1>4 DEF ElementsIn, PixelSize, CodedLine
  <2>2. Len(raw) = w * n
    <3>1. RawSize(p) = LineSize(p) /\ (FileMode(p).packed \/ n = 1)
      BY <1>4, ImageIs, RawSizeIs
    <3>2. w * 1 = w
      BY <1>1
    <3> QED BY <3>1, <3>2 DEF LineSize
  <2>3. InFile(p, raw) = EncodeFrom(c.driver, pixels)[1]
    BY <1>2, <1>4 DEF InFile, Encode, ElementsIn
  <2> HIDE DEF pixels
  <2>4. Len(pixels) = w
    BY <1>1, <2>1
  <2> HIDE DEF n, w
  <2>5. n \in Nat \ {0} /\ w \in Nat \ {0}
    BY <1>1 DEF n, w
  <2>6. ASSUME NEW x \in 1 .. w
        PROVE  /\ pixels[x] \in Seq(Octet) /\ Len(pixels[x]) = n
               /\ \A k \in 1 .. n : raw[(x - 1) * n + k] = pixels[x][k]
    <3> DEFINE y == (x - 1) * n  i == y + 1
    <3>1. y \in Nat /\ y + n = x * n /\ x * n <= Len(raw)
      BY <2>2, <2>5
    <3>2. pixels[x] = SubSeq(raw, i, x * n)
      BY <2>1
    <3> HIDE DEF y
    <3>3. i \in Nat \ {0} /\ i + n - 1 = x * n /\ i + n - 1 <= Len(raw)
      BY <2>5, <3>1
    <3>4. \A k \in 1 .. n : i + k - 1 = y + k
      BY <2>5, <3>1
    <3> HIDE DEF i
    <3>5. pixels[x] = SubSeq(raw, i, i + n - 1)
      BY <3>2, <3>3
    <3>6. SubSeq(raw, i, i + n - 1) \in Seq(Octet) /\ Len(SubSeq(raw, i, i + n - 1)) = n
      BY <2>5, <3>3, PieceIs
    <3>7. ASSUME NEW k \in 1 .. n PROVE raw[y + k] = pixels[x][k]
      <4>1. SubSeq(raw, i, i + n - 1)[k] = raw[i + k - 1]
        BY <2>5, <3>3, PieceIs
      <4> QED BY <3>4, <3>5, <4>1
    <3> QED BY <3>5, <3>6, <3>7 DEF y
  <2>7. PixelsOf(c.line, pixels, c.size)
    <3>1. Len(pixels) \in Nat /\ Len(raw) = Len(pixels) * n
      BY <2>2, <2>4, <2>5
    <3>2. \A x \in 1 .. Len(pixels) : pixels[x] \in Seq(Octet) /\ Len(pixels[x]) = n
      BY <2>4, <2>6
    <3>3. \A x \in 1 .. Len(pixels), k \in 1 .. n : raw[(x - 1) * n + k] = pixels[x][k]
      BY <2>4, <2>6
    <3>4. PixelsOf(raw, pixels, n)
      BY <2>5, <3>1, <3>2, <3>3 DEF PixelsOf
    <3> QED BY <2>1, <3>4
  <2>8. ElementsOf(c, pixels)
    BY <1>2, <1>4, <2>7 DEF ElementsOf
  <2> QED BY <1>1, <1>2, <1>3, <2>3, <2>8 DEF pixels
<1>5. CASE p.driver # "TGA"
  <2>1. ElementsIn(p, raw) = CodedLine(p, raw) /\ c.size = 1
    BY <1>2, <1>5 DEF ElementsIn, PixelSize
  <2>2. InFile(p, raw) = EncodeFrom(c.driver, ElementsIn(p, raw))[1]
    BY <1>1, <1>2, <1>5, <2>1 DEF InFile, Encode
  <2> QED BY <1>1, <1>2, <1>3, <1>5, <2>1, <2>2 DEF ElementsOf
<1> QED BY <1>4, <1>5

(* A coded line fits behind the line.                                      *)
LEMMA CodedFits ==
  ASSUME NEW p, AnImage(p), p.rle, NEW raw \in Seq(Octet), Len(raw) = RawSize(p)
  PROVE  /\ InFile(p, raw) \in Seq(Octet)
         /\ ~(p.driver = "SGI" /\ p.width <= 3) => Len(InFile(p, raw)) <= Room(p)
<1> DEFINE bytes == <<>>  c == Coded(p, raw, bytes)  elements == ElementsIn(p, raw)
           from == EncodeFrom(c.driver, elements)  N == Len(elements)  L == Len(c.line)
           codes == InFile(p, raw)  one == 1
<1>1. /\ c \in Coding /\ ElementsOf(c, elements) /\ codes = from[one]
      /\ c.driver = p.driver /\ c.size = PixelSize(p) /\ c.line = CodedLine(p, raw) /\ L = CodedSize(p)
  <2>1. bytes \in Seq(Octet) /\ c = Coded(p, raw, bytes)
    OBVIOUS
  <2> HIDE DEF bytes, c
  <2> QED BY <2>1, CodedIs
<1> HIDE DEF c, elements, codes
<1>2. N \in Nat /\ L = N * c.size /\ c.size \in Nat \ {0} /\ c.driver \in Coder
  BY <1>1, ElementsIs, CodingIs
<1>3. \A i \in 1 .. N + 1 : /\ from[i] \in Seq(Octet)
                           /\ Len(from[i]) <= 2 * ((N + 1 - i) * c.size) + Len(LineEnd(c.driver))
  BY <1>1, CodeSmall
<1> HIDE DEF from
<1>4. codes \in Seq(Octet) /\ Len(codes) <= 2 * L + Len(LineEnd(c.driver))
  <2>1. one \in 1 .. N + 1 /\ N + 1 - one = N
    BY <1>2
  <2> HIDE DEF one
  <2>2. from[one] \in Seq(Octet) /\ Len(from[one]) <= 2 * ((N + 1 - one) * c.size) + Len(LineEnd(c.driver))
    BY <1>3, <2>1
  <2> QED BY <1>1, <1>2, <2>1, <2>2
<1>5. Len(LineEnd(c.driver)) = IF p.driver = "SGI" THEN 1 ELSE IF p.driver = "BMP" THEN 2 ELSE 0
  BY <1>1, <1>2, LineEndIs
<1>6. Len(codes) \in Nat /\ L \in Nat /\ RawSize(p) \in Nat
  BY <1>4, <1>1, CodedLineIs, RawSizeIs
<1> HIDE DEF L, N
<1>7. CASE p.driver \in {"PCX", "RAS", "TGA"}
  <2>1. L = RawSize(p) /\ Room(p) = 2 * RawSize(p)
    BY <1>1, <1>7, RawSizeIs DEF CodedSize, Room
  <2> QED BY <1>4, <1>5, <1>6, <1>7, <2>1 DEF codes
<1>8. CASE p.driver = "SGI"
  <2> SUFFICES ASSUME p.width > 3 PROVE Len(codes) <= Room(p)
    BY <1>4, <1>8, ImageIs DEF codes
  <2>1. L = RawSize(p) /\ RawSize(p) = LineSize(p) /\ Room(p) = 2 * RawSize(p)
    BY <1>1, <1>8, RawSizeIs DEF CodedSize, Room
  <2>2. LineSize(p) = p.width * 1 /\ p.width \in Nat
    BY <1>8, ImageIs DEF LineSize
  <2>3. L >= 4 /\ c.size = 1
    BY <1>1, <1>8, <2>1, <2>2 DEF PixelSize
  <2>4. elements = c.line
    BY <1>1, <1>8 DEF ElementsOf
  <2>5. Len(from[one]) <= 2 * L
    BY <1>1, <1>8, <2>3, <2>4, SGIFits DEF from, L
  <2> QED BY <1>1, <2>1, <2>5
<1>9. CASE p.driver = "BMP"
  <2>1. L = p.width /\ Room(p) = 2 * RawSize(p) /\ p.width <= RawSize(p)
    BY <1>1, <1>9, CodedLineIs DEF CodedSize, Room
  <2>2. CASE p.width >= 4
    <3>1. L >= 4 /\ c.size = 1
      BY <1>1, <1>9, <2>1, <2>2 DEF PixelSize
    <3>2. elements = c.line
      BY <1>1, <1>9 DEF ElementsOf
    <3>3. Len(from[one]) <= 2 * L
      BY <1>1, <1>9, <3>1, <3>2, BMPFits DEF from, L
    <3> QED BY <1>1, <1>4, <1>6, <2>1, <3>3 DEF codes
  <2>3. CASE p.width <= 3
    <3>1. RawSize(p) >= 4
      <4>1. p.space = "GRAY" /\ p.width \in Nat \ {0}
        BY <1>9, CodedLineIs, ImageIs
      <4>2. ~Bits(p) /\ ~FileMode(p).packed
        BY <4>1, ImageIs DEF Bits
      <4>3. RawSize(p) = Aligned(p.width, 8 * 1, 4)
        BY <1>9, <4>2 DEF RawSize
      <4> QED BY <4>1, <4>3 DEF Aligned
    <3>2. Len(codes) <= 2 * L + 2
      BY <1>4, <1>5, <1>9
    <3> QED BY <1>4, <1>6, <2>1, <2>3, <3>1, <3>2 DEF codes
  <2>4. p.width \in Nat
    BY ImageIs
  <2> QED BY <2>2, <2>3, <2>4
<1> QED BY <1>1, <1>2, <1>7, <1>8, <1>9 DEF Coder

(* A place whose line has been read has what the image has there, the      *)
(* others nothing yet.                                                     *)
Shown(p, mode, to) == Source(p, FileLine(p, mode, to), Element(p, to)) * Factor(p)
BackIs(p, mode, memory, n) ==
  /\ DOMAIN memory = 1 .. MemorySize(p, mode)
  /\ \A k \in 1 .. MemorySize(p, mode) :
       LET to == Place(p, mode, k - 1)
       IN memory[k] = IF FileLine(p, mode, to) < n /\ to.d < FileDepth(p)
                      THEN Shown(p, mode, to) ELSE 0

LEMMA MemorySizeIs ==
  ASSUME NEW p, AnImage(p), NEW mode \in Modes
  PROVE  MemorySize(p, mode) \in Nat /\ Depth(p.space, mode) \in Nat \ {0}
<1>1. p.width \in Nat /\ p.height \in Nat /\ Depth(p.space, mode) \in Nat \ {0}
  BY ImageIs DEF Depth, Modes
<1> DEFINE w == p.width  h == p.height  deep == Depth(p.space, mode)
<1>2. MemorySize(p, mode) = w * h * deep
  BY DEF MemorySize
<1> HIDE DEF w, h, deep
<1>3. w * h * deep \in Nat
  BY <1>1 DEF w, h, deep
<1> QED BY <1>1, <1>2, <1>3

LEMMA PlaceOf ==
  ASSUME NEW p, AnImage(p), NEW mode \in Modes, NEW k \in 1 .. MemorySize(p, mode),
         NEW to, to = Place(p, mode, k - 1)
  PROVE  /\ to.x \in 0 .. p.width - 1 /\ to.line \in 0 .. p.height - 1
         /\ to.d \in 0 .. Depth(p.space, mode) - 1 /\ to.d \in Nat
         /\ FileLine(p, mode, to) \in Nat
<1> DEFINE at == k - 1
<1>1. at \in 0 .. MemorySize(p, mode) - 1
  BY MemorySizeIs
<1>2. to = Place(p, mode, at)
  OBVIOUS
<1> HIDE DEF at
<1>3. /\ to.x \in 0 .. p.width - 1 /\ to.line \in 0 .. p.height - 1
      /\ to.d \in 0 .. Depth(p.space, mode) - 1
  BY <1>1, <1>2, PlaceIs
<1>4. to.d \in Nat
  BY <1>3, MemorySizeIs
<1> DEFINE h == p.height  y == to.line  d == to.d
           row == IF FileMode(p).topdown = mode.topdown THEN y ELSE h - 1 - y
<1>5. h \in Nat \ {0} /\ row \in Nat /\ d \in Nat
  BY <1>3, <1>4, ImageIs
<1>6. FileLine(p, mode, to) = IF FileMode(p).packed THEN row ELSE d * h + row
  BY DEF FileLine
<1> HIDE DEF h, row, d
<1>7. d * h + row \in Nat
  BY <1>5
<1> QED BY <1>3, <1>4, <1>5, <1>6, <1>7

LEMMA BackNothing ==
  ASSUME NEW p, AnImage(p), NEW mode \in Modes
  PROVE  BackIs(p, mode, Repeat(0, MemorySize(p, mode)), 0)
<1>1. ASSUME NEW k \in 1 .. MemorySize(p, mode)
      PROVE  LET to == Place(p, mode, k - 1)
             IN Repeat(0, MemorySize(p, mode))[k] =
                  IF FileLine(p, mode, to) < 0 /\ to.d < FileDepth(p)
                  THEN Shown(p, mode, to) ELSE 0
  <2> DEFINE to == Place(p, mode, k - 1)
  <2>1. FileLine(p, mode, to) \in Nat
    BY PlaceOf
  <2>2. ~(FileLine(p, mode, to) < 0)
    BY <2>1
  <2>3. Repeat(0, MemorySize(p, mode))[k] = 0
    BY DEF Repeat
  <2> QED BY <2>2, <2>3
<1>2. DOMAIN Repeat(0, MemorySize(p, mode)) = 1 .. MemorySize(p, mode)
  BY DEF Repeat
<1> QED BY <1>1, <1>2 DEF BackIs

LEMMA BackThen ==
  ASSUME NEW p, AnImage(p), NEW mode \in Modes, NEW n \in 0 .. LineCount(p, mode) - 1,
         NEW memory, BackIs(p, mode, memory, n), NEW line,
         \A k \in 1 .. LineSize(p) : line[k] = FillLine(p, n)[k] * Factor(p)
  PROVE  BackIs(p, mode, FillMemory(p, mode, n, line, memory), n + 1)
<1> DEFINE made == FillMemory(p, mode, n, line, memory)
<1>1. n \in Nat /\ n \in 0 .. LineCount(p, p.mode) - 1 /\ p.mode \in Modes
  BY ImageIs, LineCountIs
<1>2. DOMAIN memory = 1 .. MemorySize(p, mode)
  BY DEF BackIs
<1>3. ASSUME NEW k \in 1 .. MemorySize(p, mode)
      PROVE  /\ DOMAIN made = 1 .. MemorySize(p, mode)
             /\ LET to == Place(p, mode, k - 1)
                IN made[k] = IF FileLine(p, mode, to) < n + 1 /\ to.d < FileDepth(p)
                             THEN Shown(p, mode, to) ELSE 0
  <2> DEFINE to == Place(p, mode, k - 1)  at == FileLine(p, mode, to)  D == FileDepth(p)
  <2>1. memory[k] = IF at < n /\ to.d < D THEN Shown(p, mode, to) ELSE 0
    BY DEF BackIs
  <2>2. /\ to.x \in 0 .. p.width - 1 /\ to.d \in Nat /\ at \in Nat
    BY PlaceOf
  <2>3. /\ DOMAIN made = 1 .. MemorySize(p, mode)
        /\ made[k] = IF at = n /\ to.d < D THEN line[Element(p, to)] ELSE memory[k]
    <3>1. to = Place(p, mode, k - 1)
      OBVIOUS
    <3> HIDE DEF to
    <3>2. Filled(p, mode, n, line, memory, k, to)
      BY <1>2, <3>1, FillMemoryIs
    <3> QED BY <3>2 DEF Filled
  <2>4. ASSUME at = n, to.d < D PROVE line[Element(p, to)] = Shown(p, mode, to)
    <3>1. to.d \in 0 .. D - 1
      BY <2>2, <2>4, ImageIs
    <3>2. Element(p, to) \in 1 .. LineSize(p)
      BY <2>2, <3>1, ElementIs
    <3>3. FillLine(p, n)[Element(p, to)] = Source(p, n, Element(p, to))
      BY <1>1, <3>2, FillLineIs
    <3> QED BY <2>4, <3>2, <3>3 DEF Shown
  <2> HIDE DEF to, at, made, D
  <2>5. at < n + 1 <=> at < n \/ at = n
    BY <1>1, <2>2
  <2>6. at = n => ~(at < n)
    BY <1>1, <2>2
  <2> QED BY <2>1, <2>3, <2>4, <2>5, <2>6 DEF to, at, made, D
<1>4. DOMAIN made = 1 .. MemorySize(p, mode)
  BY DEF FillMemory, BackIs
<1> HIDE DEF made
<1> QED BY <1>3, <1>4 DEF BackIs, made

(* When all lines have been read memory has the image.                     *)
THEOREM BackWhole ==
  ASSUME NEW p, AnImage(p), NEW mode \in Modes, NEW memory,
         BackIs(p, mode, memory, LineCount(p, mode))
  PROVE  SameImage(p, mode, memory)
<1> DEFINE w == p.width  h == p.height  D == FileDepth(p)  S == SpaceDepth(p.space)
           deep == Depth(p.space, mode)  F == FileMode(p)
<1>1. /\ w \in Nat \ {0} /\ h \in Nat \ {0} /\ S \in {1, 3} /\ F.packed \in BOOLEAN
      /\ F.alpha \in BOOLEAN /\ F.topdown \in BOOLEAN /\ mode.topdown \in BOOLEAN
      /\ mode.alpha \in BOOLEAN /\ p.mode.topdown \in BOOLEAN
      /\ D = S + (IF F.alpha THEN 1 ELSE 0) /\ deep = S + (IF mode.alpha THEN 1 ELSE 0)
      /\ LineCount(p, mode) = IF F.packed THEN h ELSE h * (IF F.alpha /\ mode.alpha THEN D ELSE S)
  BY ImageIs, LineCountIs DEF Modes, Depth
<1>2. ASSUME NEW x \in 0 .. w - 1, NEW y \in 0 .. h - 1, NEW d \in 0 .. deep - 1
      PROVE  Pixel(p, mode, memory, x, y, d) =
               IF d = S /\ ~F.alpha THEN 0 ELSE Pixel(p, p.mode, p.data, x, y, d) * Factor(p)
  <2> DEFINE row == IF mode.topdown THEN y ELSE h - 1 - y
             at == Offset(p, mode, x, row, d)  to == Place(p, mode, at)  n == FileLine(p, mode, to)
             k == at + 1  own == IF F.topdown THEN y ELSE h - 1 - y
  <2>1. row \in 0 .. h - 1 /\ own \in 0 .. h - 1 /\ d \in Nat
    BY <1>1
  <2>2. at \in 0 .. MemorySize(p, mode) - 1 /\ to.x = x /\ to.line = row /\ to.d = d
    <3> HIDE DEF row
    <3> QED BY <2>1, OffsetIs
  <2>3. Pixel(p, mode, memory, x, y, d) = memory[at + 1]
    BY DEF Pixel
  <2>4. n = IF F.packed THEN own ELSE d * h + own
    <3>1. own = IF F.topdown = mode.topdown THEN row ELSE h - 1 - row
      BY <1>1
    <3>2. n = IF F.packed THEN (IF F.topdown = mode.topdown THEN to.line ELSE h - 1 - to.line)
              ELSE to.d * h + (IF F.topdown = mode.topdown THEN to.line ELSE h - 1 - to.line)
      BY DEF FileLine
    <3> QED BY <2>2, <3>1, <3>2
  <2> HIDE DEF at, to, n
  <2>5. memory[at + 1] = IF n < LineCount(p, mode) /\ d < D THEN Shown(p, mode, to) ELSE 0
    <3>1. k \in 1 .. MemorySize(p, mode) /\ k - 1 = at
      BY <2>2, MemorySizeIs
    <3> HIDE DEF k
    <3>2. memory[k] = LET t == Place(p, mode, k - 1)
                      IN IF FileLine(p, mode, t) < LineCount(p, mode) /\ t.d < FileDepth(p)
                         THEN Shown(p, mode, t) ELSE 0
      BY <3>1 DEF BackIs
    <3>3. memory[k] = IF n < LineCount(p, mode) /\ to.d < D THEN Shown(p, mode, to) ELSE 0
      BY <3>1, <3>2 DEF to, n
    <3> QED BY <2>2, <3>3 DEF k
  <2>6. CASE d = S /\ ~F.alpha
    <3>1. ~(d < D)
      BY <1>1, <2>6
    <3> QED BY <2>3, <2>5, <2>6, <3>1
  <2>7. CASE ~(d = S /\ ~F.alpha)
    <3> DEFINE c == IF F.alpha /\ mode.alpha THEN D ELSE S
    <3>1. d < D /\ d \in 0 .. D - 1 /\ d \in 0 .. c - 1 /\ c \in Nat
      BY <1>1, <2>7
    <3>2. n < LineCount(p, mode)
      <4>1. CASE F.packed
        BY <1>1, <2>1, <2>4, <4>1
      <4>2. CASE ~F.packed
        <5>1. LineCount(p, mode) = h * c /\ n = d * h + own
          BY <1>1, <2>4, <4>2
        <5> HIDE DEF c, h, own
        <5>2. d * h + own \in 0 .. c * h - 1
          BY <1>1, <2>1, <3>1, Within DEF h
        <5>3. h * c = c * h /\ c * h \in Nat
          BY <1>1, <3>1 DEF h
        <5> QED BY <5>1, <5>2, <5>3
      <4> QED BY <4>1, <4>2
    <3>3. Element(p, to) \in 1 .. LineSize(p) /\ Column(p, Element(p, to)) = x
          /\ (F.packed => PlaneIn(p, n, Element(p, to)) = d)
      BY <2>2, <3>1, ElementIs
    <3>4. PlaneIn(p, n, Element(p, to)) = d /\ LineOf(p, n) = own
      <4>1. CASE F.packed
        BY <2>4, <3>3, <4>1 DEF LineOf
      <4>2. CASE ~F.packed
        <5>1. n = d * h + own /\ LineOf(p, n) = n % h /\ PlaneIn(p, n, Element(p, to)) = n \div h
          BY <2>4, <4>2 DEF LineOf, PlaneIn, PlaneOf
        <5> HIDE DEF h, own
        <5>2. (d * h + own) \div h = d /\ (d * h + own) % h = own
          BY <1>1, <2>1, DivModOf DEF h
        <5> QED BY <5>1, <5>2
      <4> QED BY <4>1, <4>2
    <3>5. MemoryLine(p, p.mode, n) = IF p.mode.topdown THEN y ELSE h - 1 - y
      <4>1. MemoryLine(p, p.mode, n) = IF F.topdown = p.mode.topdown THEN own ELSE h - 1 - own
        BY <3>4 DEF MemoryLine
      <4> QED BY <1>1, <4>1
    <3>6. Shown(p, mode, to) = Pixel(p, p.mode, p.data, x, y, d) * Factor(p)
      BY <3>3, <3>4, <3>5 DEF Shown, Source, Pixel, n
    <3> QED BY <2>3, <2>5, <2>7, <3>1, <3>2, <3>6
  <2> QED BY <2>6, <2>7
<1> QED BY <1>2 DEF SameImage, Factor

CodesOf(p, n, junk) == InFile(p, Raw(p, FillLine(p, n), junk))
ReadOf(p, bytes, here) ==
  IF ~p.rle
  THEN Line(Slice(bytes, here, RawSize(p)), here + RawSize(p), here + RawSize(p) <= Len(bytes) + 1)
  ELSE Decode(p.driver, bytes, here, PixelSize(p), CodedSize(p))

(* The line n, read.                                                       *)
Yields(p, n, read) ==
  /\ read.ok = TRUE
  /\ \A k \in 1 .. LineSize(p) : Unraw(p, read.line)[k] = FillLine(p, n)[k] * Factor(p)

LEMMA ReadyLine ==
  ASSUME NEW p, AnImage(p), NEW n \in 0 .. LineCount(p, p.mode) - 1, NEW junk \in {0, 255},
         NEW raw, raw = Raw(p, FillLine(p, n), junk)
  PROVE  Ready(p, FillLine(p, n), raw) /\ raw \in Seq(Octet) /\ Len(raw) = RawSize(p)
<1>1. FillLine(p, n) \in Seq(Value(p)) /\ Len(FillLine(p, n)) = LineSize(p)
  BY FillLineIs
<1>2. junk \in Octet
  BY DEF Octet
<1> DEFINE line == FillLine(p, n)
<1> HIDE DEF line
<1>3. Ready(p, line, Raw(p, line, junk))
  BY <1>1, <1>2, RawReady DEF line
<1> QED BY <1>3 DEF Ready, line

(* What is coded of a line is enough.                                      *)
LEMMA UnrawCoded ==
  ASSUME NEW p, AnImage(p), p.rle, NEW line, NEW raw, Ready(p, line, raw)
  PROVE  \A k \in 1 .. LineSize(p) : Unraw(p, CodedLine(p, raw))[k] = line[k] * Factor(p)
<1>1. raw \in Seq(Octet) /\ Len(raw) = RawSize(p)
  BY DEF Ready
<1>2. CASE p.driver # "BMP"
  BY <1>2 DEF Ready, CodedLine
<1>3. CASE p.driver = "BMP"
  <2>1. p.space = "GRAY" /\ LineSize(p) = p.width /\ p.width \in Nat /\ p.width <= RawSize(p)
        /\ p.width \in Nat \ {0}
    BY <1>1, <1>3, CodedLineIs, ImageIs
  <2> DEFINE w == p.width  cut == CodedLine(p, raw)
  <2>2. cut = SubSeq(raw, 1, w)
    BY <1>3 DEF CodedLine
  <2>3. \A any : Unraw(p, any) = SubSeq(any, 1, w)
    BY <2>1 DEF Unraw, Bits
  <2> HIDE DEF w, cut
  <2>4. SubSeq(cut, 1, w) = cut
    <3>1. Len(cut) = w /\ cut \in Seq(Octet)
      BY <1>1, <1>3, CodedLineIs DEF cut, CodedSize, w
    <3>2. SubSeq(cut, 1, Len(cut)) = cut
      BY <3>1, SubSeqFull
    <3> QED BY <3>1, <3>2
  <2>5. Unraw(p, cut) = Unraw(p, raw)
    <3>1. Unraw(p, raw) = SubSeq(raw, 1, w) /\ Unraw(p, cut) = SubSeq(cut, 1, w)
      BY <2>3
    <3> QED BY <2>2, <2>4, <3>1
  <2> QED BY <2>5 DEF Ready, cut
<1> QED BY <1>2, <1>3

LEMMA NoRunIsLost ==
  ASSUME NEW p, AnImage(p), p.rle, ~LosesRuns(p), NEW n \in 0 .. LineCount(p, p.mode) - 1,
         NEW junk \in {0, 255}, NEW raw, raw = Raw(p, FillLine(p, n), junk),
         NEW c \in Coding, c.driver = p.driver, c.line = CodedLine(p, raw)
  PROVE  ~Losing(c)
<1> SUFFICES ASSUME Losing(c) PROVE FALSE
  OBVIOUS
<1>1. p.driver = "RAS" /\ c.line = raw
  BY DEF Losing, CodedLine
<1>2. PICK i \in 1 .. Len(raw) : RunAt(raw, i, 256) = 256
  BY <1>1 DEF Losing
<1>3. raw \in Seq(Octet) /\ Len(raw) = RawSize(p)
  BY ReadyLine
<1>4. p.width * FileDepth(p) = LineSize(p) /\ LineSize(p) \in Nat /\ RawSize(p) \in Nat
      /\ RawSize(p) <= LineSize(p) + 1
  <2>1. /\ LineSize(p) = p.width * (IF FileMode(p).packed THEN FileDepth(p) ELSE 1)
        /\ (~FileMode(p).packed => FileDepth(p) = 1) /\ LineSize(p) \in Nat
    BY <1>1, ImageIs DEF LineSize
  <2> QED BY <1>1, <2>1, RawSizeIs
<1>5. CASE p.width * FileDepth(p) >= 255
  <2>1. \E k \in 1 .. Len(Raw(p, FillLine(p, n), junk)) : RunAt(Raw(p, FillLine(p, n), junk), k, 256) = 256
    BY <1>2
  <2> QED BY <1>1, <1>5, <2>1 DEF LosesRuns
<1>6. CASE ~(p.width * FileDepth(p) >= 255)
  <2> DEFINE max == 256  count == RunAt(raw, i, max)
  <2>1. Len(raw) <= 255 /\ Len(raw) \in Nat
    BY <1>3, <1>4, <1>6
  <2>2. max \in Nat \ {0}
    OBVIOUS
  <2> HIDE DEF max, count
  <2>3. RunIs(raw, i, max, count)
    BY <1>3, <2>2, RunAtIs DEF count
  <2>4. count \in Nat /\ i + count - 1 <= Len(raw)
    BY <1>3, <2>2, <2>3 DEF RunIs
  <2>5. count = 256
    BY <1>2 DEF count, max
  <2> QED BY <2>1, <2>4, <2>5
<1> QED BY <1>5, <1>6

(* What a reader makes of a line that is in the file, or cut off.          *)
ReadAt(p, n, codes, bytes, here) ==
  /\ codes \in Seq(Octet) /\ Len(codes) > 0
  /\ HasAt(bytes, here, codes) =>
       /\ Yields(p, n, ReadOf(p, bytes, here))
       /\ ~HasTable(p) => ReadOf(p, bytes, here).next = here + Len(codes)
  /\ ~HasTable(p) /\ EndsIn(bytes, here, codes) => ReadOf(p, bytes, here).ok = FALSE

(* Plain lines.                                                            *)
LEMMA PlainReads ==
  ASSUME NEW p, AnImage(p), ~p.rle, NEW n \in 0 .. LineCount(p, p.mode) - 1, NEW junk \in {0, 255},
         NEW codes, codes = CodesOf(p, n, junk), NEW bytes \in Seq(Octet), NEW here
  PROVE  ReadAt(p, n, codes, bytes, here)
<1> DEFINE size == RawSize(p)  read == ReadOf(p, bytes, here)  ok == here + size <= Len(bytes) + 1
<1>1. codes = Raw(p, FillLine(p, n), junk)
  BY DEF CodesOf, InFile
<1>2. Ready(p, FillLine(p, n), codes) /\ codes \in Seq(Octet) /\ Len(codes) = size
  BY <1>1, ReadyLine
<1>3. size \in Nat \ {0}
  BY RawSizeIs
<1>4. read = [line |-> Slice(bytes, here, size), next |-> here + size, ok |-> ok]
  BY DEF ReadOf, Line
<1> HIDE DEF size, read
<1>5. ASSUME HasAt(bytes, here, codes) PROVE Yields(p, n, read) /\ read.next = here + Len(codes)
  <2>1. here \in Nat \ {0} /\ here + size <= Len(bytes) + 1
    BY <1>2, <1>5 DEF HasAt
  <2>2. ok = TRUE
    BY <2>1
  <2>3. ASSUME NEW k \in 1 .. size PROVE Slice(bytes, here, size)[k] = codes[k]
    <3>1. Slice(bytes, here, size)[k] = ByteAt(bytes, here + k - 1)
      BY DEF Slice
    <3>2. here + k - 1 <= Len(bytes)
      BY <1>3, <2>1
    <3> QED BY <1>2, <1>5, <3>1, <3>2 DEF HasAt, ByteAt
  <2>4. Slice(bytes, here, size) = codes
    <3>1. Slice(bytes, here, size) \in Seq(Octet) /\ Len(Slice(bytes, here, size)) = size
      BY <1>3, <2>1, SliceIs
    <3> DEFINE s == Slice(bytes, here, size)
    <3>2. s \in Seq(Octet) /\ Len(s) = size /\ \A k \in 1 .. size : s[k] = codes[k]
      BY <2>3, <3>1
    <3> HIDE DEF s
    <3>3. s = codes
      BY <1>2, <3>2, SeqEqual
    <3> QED BY <3>3 DEF s
  <2> HIDE DEF ok
  <2>5. read.ok = TRUE /\ read.line = codes /\ read.next = here + size
    BY <1>4, <2>2, <2>4
  <2> QED BY <1>2, <2>5 DEF Yields, Ready
<1>6. ASSUME EndsIn(bytes, here, codes) PROVE read.ok = FALSE
  <2>1. here \in Nat \ {0} /\ here + size > Len(bytes) + 1
    BY <1>2, <1>6 DEF EndsIn
  <2>2. ok = FALSE
    BY <1>3, <2>1
  <2> HIDE DEF ok
  <2> QED BY <1>4, <2>2
<1>7. Len(codes) > 0
  <2>1. size > 0
    BY <1>3
  <2> QED BY <1>2, <2>1
<1> QED BY <1>2, <1>5, <1>6, <1>7 DEF ReadAt, read

(* Coded lines are not empty, or the decoder would read a line of nothing. *)
LEMMA CodesAre ==
  ASSUME NEW c \in Coding, c.file = <<>>, Len(c.line) > 0, NEW codes, Comes(c, 0, codes)
  PROVE  Len(codes) # 0
<1> SUFFICES ASSUME Len(codes) = 0 PROVE FALSE
  OBVIOUS
<1> DEFINE here == 1  have == 0
<1>1. /\ c.driver \in Coder /\ c.size \in Nat \ {0} /\ Len(c.line) \in Nat /\ c.file \in Seq(Octet)
      /\ Len(c.file) = 0
  BY CodingIs
<1>2. here \in 1 .. Len(c.file) + 1 /\ have \in 0 .. Len(c.line) /\ have < Len(c.line)
      /\ here \in Nat \ {0}
  BY <1>1
<1>3. HasAt(c.file, here, codes)
  BY <1>1 DEF HasAt
<1>4. PICK next : Reads(c, here, have, next)
  BY <1>3 DEF Comes
<1> HIDE DEF here, have
<1>5. CodeAt(c.driver, c.file, here, c.size).next > Len(c.file) + 1
  <2>1. /\ CodeAt(c.driver, c.file, here, c.size).next \in Nat
        /\ CodeAt(c.driver, c.file, here, c.size).next > here
    BY <1>1, <1>2, CodeAtIs
  <2>2. here = Len(c.file) + 1
    BY <1>1 DEF here
  <2> QED BY <2>1, <2>2
<1>6. Fails(c, here, have)
  BY <1>2, <1>5, CodeFails
<1>7. From(c)[<<here, have>>].ok = TRUE
  BY <1>4 DEF Reads
<1> QED BY <1>6, <1>7 DEF Fails

LEMMA CodedReads ==
  ASSUME NEW p, AnImage(p), p.rle, ~LosesRuns(p), NEW n \in 0 .. LineCount(p, p.mode) - 1,
         NEW junk \in {0, 255}, NEW codes, codes = CodesOf(p, n, junk), NEW bytes \in Seq(Octet), NEW here
  PROVE  ReadAt(p, n, codes, bytes, here)
<1> DEFINE raw == Raw(p, FillLine(p, n), junk)  nothing == <<>>
           c == Coded(p, raw, bytes)  empty == Coded(p, raw, nothing)
           elements == ElementsIn(p, raw)  read == ReadOf(p, bytes, here)  line == CodedLine(p, raw)
<1>1. codes = InFile(p, raw)
  BY DEF CodesOf
<1>2. Ready(p, FillLine(p, n), raw) /\ raw \in Seq(Octet) /\ Len(raw) = RawSize(p)
  <2> HIDE DEF raw
  <2> QED BY ReadyLine DEF raw
<1>3. nothing \in Seq(Octet) /\ raw = Raw(p, FillLine(p, n), junk)
  OBVIOUS
<1> HIDE DEF raw, nothing
<1>4. c = Coded(p, raw, bytes) /\ empty = Coded(p, raw, nothing)
  OBVIOUS
<1> HIDE DEF c, empty
<1>5. /\ c \in Coding /\ ElementsOf(c, elements) /\ codes = EncodeFrom(c.driver, elements)[1]
      /\ c.driver = p.driver /\ c.file = bytes /\ c.size = PixelSize(p) /\ c.line = line
      /\ Len(c.line) = CodedSize(p)
  BY <1>1, <1>2, <1>4, CodedIs
<1>6. /\ empty \in Coding /\ ElementsOf(empty, elements)
      /\ codes = EncodeFrom(empty.driver, elements)[1]
      /\ empty.driver = p.driver /\ empty.file = nothing /\ empty.line = line
      /\ Len(empty.line) = CodedSize(p)
  BY <1>1, <1>2, <1>3, <1>4, CodedIs
<1>7. ~Losing(c) /\ ~Losing(empty)
  BY <1>3, <1>5, <1>6, NoRunIsLost
<1> HIDE DEF elements
<1>8. Comes(c, 0, codes) /\ Comes(empty, 0, codes)
  BY <1>5, <1>6, <1>7, LineComes
<1>9. codes \in Seq(Octet) /\ line \in Seq(Octet) /\ CodedSize(p) \in Nat \ {0}
  BY <1>1, <1>2, CodedFits, CodedLineIs
<1>10. Len(codes) > 0
  <2>1. Len(empty.line) > 0
    BY <1>6, <1>9
  <2>2. Len(codes) # 0
    BY <1>6, <1>8, <2>1, CodesAre DEF nothing
  <2> QED BY <1>9, <2>2
<1>11. read = From(c)[<<here, 0>>]
  BY <1>5 DEF ReadOf, Decode, From
<1>12. Rest(line, 0) = line
  <2>1. Rest(line, 0) = SubSeq(line, 1, Len(line))
    BY DEF Rest
  <2> HIDE DEF line
  <2> QED BY <1>9, <2>1, SubSeqFull
<1>13. ASSUME HasAt(bytes, here, codes)
       PROVE  Yields(p, n, read) /\ (p.driver # "SGI" => read.next = here + Len(codes))
  <2>1. PICK next : Reads(c, here, 0, next) /\ (c.driver # "SGI" => next = here + Len(codes))
    BY <1>5, <1>8, <1>13 DEF Comes
  <2>2. read = [line |-> line, next |-> next, ok |-> TRUE]
    BY <1>5, <1>11, <1>12, <2>1 DEF Reads
  <2>3. \A k \in 1 .. LineSize(p) : Unraw(p, line)[k] = FillLine(p, n)[k] * Factor(p)
    BY <1>2, UnrawCoded
  <2> HIDE DEF read, line
  <2>4. read.ok = TRUE /\ read.line = line /\ read.next = next
    BY <2>2
  <2>5. Yields(p, n, read)
    BY <2>3, <2>4 DEF Yields
  <2> QED BY <1>5, <2>1, <2>4, <2>5
<1>14. ASSUME p.driver # "SGI", EndsIn(bytes, here, codes) PROVE read.ok = FALSE
  <2>1. Fails(c, here, 0)
    BY <1>5, <1>8, <1>14 DEF Comes
  <2> QED BY <1>11, <2>1 DEF Fails
<1>15. HasTable(p) <=> p.driver = "SGI"
  BY DEF HasTable
<1> QED BY <1>9, <1>10, <1>13, <1>14, <1>15 DEF ReadAt, read

(* A line that is written is read as itself, plain or coded, wherever in   *)
(* the file, and the next one is looked for behind it; a reader who finds  *)
(* only a piece of it gets an error.                                       *)
THEOREM LineReads ==
  ASSUME NEW p, AnImage(p), ~LosesRuns(p), NEW n \in 0 .. LineCount(p, p.mode) - 1,
         NEW junk \in {0, 255}, NEW codes, codes = CodesOf(p, n, junk), NEW bytes \in Seq(Octet), NEW here
  PROVE  ReadAt(p, n, codes, bytes, here)
<1>1. CASE p.rle
  BY <1>1, CodedReads
<1>2. CASE ~p.rle
  BY <1>2, PlainReads
<1> QED BY <1>1, <1>2

(* Without knowing more than that a line is written.                       *)
LEMMA CodesOfIs ==
  ASSUME NEW p, AnImage(p), NEW n \in 0 .. LineCount(p, p.mode) - 1, NEW junk \in {0, 255}
  PROVE  /\ CodesOf(p, n, junk) \in Seq(Octet)
         /\ p.rle /\ ~(p.driver = "SGI" /\ p.width <= 3) => Len(CodesOf(p, n, junk)) <= Room(p)
<1> DEFINE raw == Raw(p, FillLine(p, n), junk)
<1>1. raw \in Seq(Octet) /\ Len(raw) = RawSize(p)
  <2> HIDE DEF raw
  <2> QED BY ReadyLine DEF raw
<1> HIDE DEF raw
<1>2. CASE p.rle
  BY <1>1, <1>2, CodedFits DEF CodesOf, raw
<1>3. CASE ~p.rle
  BY <1>1, <1>3 DEF CodesOf, InFile, raw
<1> QED BY <1>2, <1>3

(* A file that grows keeps what it has.                                    *)
LEMMA StillHas ==
  ASSUME NEW a \in Seq(Octet), NEW more \in Seq(Octet), NEW here, NEW codes \in Seq(Octet),
         HasAt(a, here, codes)
  PROVE  HasAt(a \o more, here, codes)
<1> DEFINE ab == a \o more  n == Len(a)  m == Len(more)
<1>1. Joins(ab, a, more, n, m)
  BY ConcatIs
<1>2. n \in Nat /\ m \in Nat /\ here \in 1 .. n + 1 /\ here + Len(codes) <= n + 1 /\ Len(codes) \in Nat
  BY DEF HasAt
<1> HIDE DEF ab, n, m
<1>3. Len(ab) = n + m
  BY <1>1 DEF Joins
<1>4. ASSUME NEW k \in 1 .. Len(codes) PROVE ab[here + k - 1] = codes[k]
  <2>1. here + k - 1 \in 1 .. n + m /\ here + k - 1 <= n
    BY <1>2
  <2>2. ab[here + k - 1] = a[here + k - 1]
    BY <1>1, <2>1 DEF Joins
  <2> QED BY <2>2 DEF HasAt
<1>5. here \in 1 .. Len(ab) + 1 /\ here + Len(codes) <= Len(ab) + 1
  BY <1>2, <1>3
<1> QED BY <1>4, <1>5 DEF HasAt, ab

LEMMA HasNow ==
  ASSUME NEW a \in Seq(Octet), NEW codes \in Seq(Octet)
  PROVE  HasAt(a \o codes, Len(a) + 1, codes) /\ Len(a \o codes) = Len(a) + Len(codes)
<1> DEFINE ab == a \o codes  n == Len(a)  m == Len(codes)
<1>1. Joins(ab, a, codes, n, m) /\ n \in Nat /\ m \in Nat
  BY ConcatIs
<1> HIDE DEF ab, n, m
<1>2. Len(ab) = n + m
  BY <1>1 DEF Joins
<1>3. ASSUME NEW k \in 1 .. m PROVE ab[n + 1 + k - 1] = codes[k]
  <2>1. n + 1 + k - 1 \in 1 .. n + m /\ ~(n + 1 + k - 1 <= n) /\ n + 1 + k - 1 - n = k
    BY <1>1
  <2> DEFINE j == n + 1 + k - 1
  <2>2. j \in 1 .. n + m /\ ~(j <= n) /\ j - n = k
    BY <1>1, <2>1
  <2> HIDE DEF j
  <2>3. ab[j] = codes[j - n]
    BY <1>1, <2>2 DEF Joins
  <2> QED BY <2>2, <2>3 DEF j
<1>4. n + 1 \in 1 .. Len(ab) + 1 /\ n + 1 + m <= Len(ab) + 1
  BY <1>1, <1>2
<1> QED BY <1>2, <1>3, <1>4 DEF HasAt, ab, n, m

(* The first half of a code, or nothing of it.                             *)
LEMMA EndsNow ==
  ASSUME NEW a \in Seq(Octet), NEW codes \in Seq(Octet), Len(codes) > 0, NEW half \in Nat, half < Len(codes)
  PROVE  /\ EndsIn(a \o SubSeq(codes, 1, half), Len(a) + 1, codes)
         /\ SubSeq(codes, 1, half) \in Seq(Octet) /\ Len(SubSeq(codes, 1, half)) = half
<1> DEFINE b == SubSeq(codes, 1, half)  ab == a \o b  n == Len(a)  one == 1
<1>1. one \in Nat \ {0} /\ one + half - 1 = half /\ one + half - 1 <= Len(codes) /\ n \in Nat
      /\ Len(codes) \in Nat /\ \A k \in 1 .. half : one + k - 1 = k
  OBVIOUS
<1>2. b = SubSeq(codes, one, one + half - 1)
  BY <1>1
<1> HIDE DEF one, b
<1>3. b \in Seq(Octet) /\ Len(b) = half
  BY <1>1, <1>2, PieceIs
<1>4. ASSUME NEW k \in 1 .. half PROVE b[k] = codes[k]
  <2>1. b[k] = codes[one + k - 1]
    BY <1>1, <1>2, PieceIs
  <2> QED BY <1>1, <2>1
<1>5. Joins(ab, a, b, n, half)
  BY <1>3, ConcatIs
<1> HIDE DEF ab, n
<1>6. Len(ab) = n + half
  BY <1>5 DEF Joins
<1>7. n + 1 \in 1 .. Len(ab) + 1 /\ n + 1 + Len(codes) > Len(ab) + 1 /\ Len(ab) + 1 - (n + 1) = half
  BY <1>1, <1>6
<1>8. ASSUME NEW k \in 1 .. half PROVE ab[n + 1 + k - 1] = codes[k]
  <2> DEFINE j == n + 1 + k - 1
  <2>1. j \in 1 .. n + half /\ ~(j <= n) /\ j - n = k
    BY <1>1
  <2> HIDE DEF j
  <2>2. ab[j] = b[j - n]
    BY <1>5, <2>1 DEF Joins
  <2> QED BY <1>4, <2>1, <2>2 DEF j
<1>9. EndsIn(ab, n + 1, codes)
  BY <1>7, <1>8 DEF EndsIn
<1> QED BY <1>3, <1>9 DEF ab, n, b

LEMMA EndsHere ==
  ASSUME NEW a \in Seq(Octet), NEW codes \in Seq(Octet), Len(codes) > 0
  PROVE  EndsIn(a, Len(a) + 1, codes)
<1>1. Len(a) \in Nat /\ Len(codes) \in Nat
  OBVIOUS
<1>2. Len(a) + 1 \in 1 .. Len(a) + 1 /\ Len(a) + 1 + Len(codes) > Len(a) + 1
      /\ \A k : k \notin 1 .. Len(a) + 1 - (Len(a) + 1)
  BY <1>1
<1> QED BY <1>2 DEF EndsIn

-----------------------------------------------------------------------------
(* The inductive invariant of the images on their way.                     *)
Count == LineCount(picture, picture.mode)
Clean == ~LosesRuns(picture) /\ ~TablesMissing /\ (Whole \/ picture.reports)

DataType ==
  /\ picture \in Picture /\ layout \in Modes /\ trailer \in BOOLEAN
  /\ phase \in {"write", "trailer", "closed", "read"}
  /\ file \in Seq(Octet) /\ table \in Seq(Nat) /\ lines \in Nat /\ step \in Nat /\ lines <= Count

Writing ==
  /\ phase = "write" =>
       /\ step = lines /\ lines < Count /\ result = "none"
       /\ Len(table) = IF HasTable(picture) THEN lines ELSE 0
  /\ phase = "trailer" => lines = Count /\ result = "none"

Reading ==
  phase = "read" =>
    /\ step < LineCount(picture, layout) /\ result = "none"
    /\ Clean => BackIs(picture, layout, back, step)

(* The lines are in the file one behind the other,                         *)
LineAt(p, bytes, starts, k) ==
  \E junk \in {0, 255} :
    /\ HasAt(bytes, starts[k], CodesOf(p, k - 1, junk))
    /\ starts[k + 1] = starts[k] + Len(CodesOf(p, k - 1, junk))
BeginsOf(p, bytes, n, starts) ==
  /\ starts \in [1 .. n + 1 -> Nat] /\ starts[1] = 1
  /\ \A k \in 1 .. n : LineAt(p, bytes, starts, k)
Begins(starts) == BeginsOf(picture, file, lines, starts)
(* behind them is nothing, or a piece of the next,                         *)
Ends(starts) ==
  /\ phase = "write" => starts[lines + 1] = Len(file) + 1
  /\ phase # "write" /\ lines < Count /\ ~LosesRuns(picture) =>
       EndsIn(file, starts[lines + 1], CodesOf(picture, lines, 0))
(* the table says where they are, once it is all there,                    *)
Tabled(starts) ==
  table # <<>> => /\ Len(table) = lines /\ \A k \in 1 .. lines : table[k] = starts[k]
                  /\ phase # "write" => lines = Count
(* and a reader is before the one it is to read.                           *)
Stands(starts) ==
  phase = "read" /\ Clean => step <= lines /\ (~HasTable(picture) => pos = starts[step + 1])

FileIs == \E starts : Begins(starts) /\ Ends(starts) /\ Tabled(starts) /\ Stands(starts)

DataInv == DataType /\ Writing /\ Reading /\ FileIs /\ ImageComesBack

LEMMA PictureIs ==
  ASSUME DataType
  PROVE  AnImage(picture) /\ picture.mode \in Modes /\ Count \in Nat \ {0}
         /\ LineCount(picture, layout) \in Nat \ {0} /\ LineCount(picture, layout) <= Count
<1>1. AnImage(picture)
  BY PictureAssumption DEF DataType
<1>2. picture.mode \in Modes /\ layout \in Modes
  BY <1>1, ImageIs DEF DataType
<1> QED BY <1>1, <1>2, LineCountIs DEF Count

LEMMA DataInitInv == DataInit => DataInv
<1> SUFFICES ASSUME DataInit PROVE DataInv
  OBVIOUS
<1> USE DEF DataInit
<1>1. AnImage(picture)
  BY PictureAssumption
<1>2. picture.mode \in Modes /\ Count \in Nat \ {0}
  BY <1>1, ImageIs, LineCountIs DEF Count
<1>3. DataType
  <2>1. 0 \in Nat /\ 0 <= Count /\ <<>> \in Seq(Octet) /\ <<>> \in Seq(Nat)
    BY <1>2
  <2> QED BY <1>2, <2>1 DEF DataType
<1>4. Writing /\ Reading
  BY <1>2 DEF Writing, Reading
<1>5. FileIs
  <2> DEFINE starts == [k \in 1 .. 1 |-> 1]
  <2>1. starts \in [1 .. lines + 1 -> Nat] /\ starts[1] = 1 /\ starts[lines + 1] = 1 /\ Len(file) = 0
    OBVIOUS
  <2> HIDE DEF starts
  <2>2. Begins(starts)
    BY <2>1 DEF Begins, BeginsOf
  <2>3. Ends(starts)
    BY <2>1 DEF Ends
  <2>4. Tabled(starts) /\ Stands(starts)
    BY DEF Tabled, Stands
  <2> QED BY <2>2, <2>3, <2>4 DEF FileIs
<1>6. ImageComesBack
  BY DEF ImageComesBack
<1> QED BY <1>3, <1>4, <1>5, <1>6 DEF DataInv

(* A line more: where it starts is where the file ended.                   *)
OneMore(p, bytes, n, starts, more) ==
  \E new : /\ BeginsOf(p, more, n + 1, new) /\ new[n + 2] = Len(more) + 1
           /\ \A k \in 1 .. n + 1 : new[k] = starts[k]

LEMMA BeginsThen ==
  ASSUME NEW p, AnImage(p), NEW n \in 0 .. LineCount(p, p.mode) - 1, NEW bytes \in Seq(Octet),
         NEW starts, BeginsOf(p, bytes, n, starts), starts[n + 1] = Len(bytes) + 1,
         NEW junk \in {0, 255}, NEW codes, codes = CodesOf(p, n, junk),
         NEW more, more = bytes \o codes
  PROVE  OneMore(p, bytes, n, starts, more)
<1> DEFINE new == [k \in 1 .. n + 2 |-> IF k <= n + 1 THEN starts[k] ELSE Len(more) + 1]
<1>1. n \in Nat /\ LineCount(p, p.mode) \in Nat
  BY ImageIs, LineCountIs
<1>2. codes \in Seq(Octet)
  BY CodesOfIs
<1>3. /\ starts \in [1 .. n + 1 -> Nat] /\ starts[1] = 1
      /\ \A k \in 1 .. n : LineAt(p, bytes, starts, k)
  BY DEF BeginsOf
<1>5. HasAt(more, Len(bytes) + 1, codes) /\ Len(more) = Len(bytes) + Len(codes)
  BY <1>2, HasNow
<1>6. Len(bytes) \in Nat /\ Len(codes) \in Nat /\ Len(more) \in Nat
  BY <1>2
<1>7. new \in [1 .. n + 2 -> Nat] /\ \A k \in 1 .. n + 1 : new[k] = starts[k]
  BY <1>1, <1>3, <1>6
<1>8. new[n + 2] = Len(more) + 1 /\ new[1] = 1
  BY <1>1, <1>3
<1> HIDE DEF new
<1>9. ASSUME NEW k \in 1 .. n PROVE LineAt(p, more, new, k)
  <2>1. PICK j \in {0, 255} :
          /\ HasAt(bytes, starts[k], CodesOf(p, k - 1, j))
          /\ starts[k + 1] = starts[k] + Len(CodesOf(p, k - 1, j))
    BY <1>3 DEF LineAt
  <2> DEFINE theirs == CodesOf(p, k - 1, j)
  <2>2. theirs \in Seq(Octet)
    <3>1. k - 1 \in 0 .. LineCount(p, p.mode) - 1
      BY <1>1
    <3> QED BY <3>1, CodesOfIs
  <2>3. new[k] = starts[k] /\ new[k + 1] = starts[k + 1]
    BY <1>1, <1>7
  <2> HIDE DEF theirs
  <2>4. HasAt(more, starts[k], theirs)
    BY <1>2, <2>1, <2>2, StillHas DEF theirs
  <2> QED BY <2>1, <2>3, <2>4 DEF LineAt, theirs
<1>10. LineAt(p, more, new, n + 1)
  <2> DEFINE k == n + 1
  <2>1. new[k] = Len(bytes) + 1 /\ k + 1 = n + 2 /\ k - 1 = n
    BY <1>1, <1>7
  <2> HIDE DEF k
  <2>2. new[k + 1] = new[k] + Len(codes)
    BY <1>5, <1>6, <1>8, <2>1
  <2>3. HasAt(more, new[k], CodesOf(p, k - 1, junk)) /\ new[k + 1] = new[k] + Len(CodesOf(p, k - 1, junk))
    BY <1>5, <2>1, <2>2
  <2>4. LineAt(p, more, new, k)
    BY <2>3 DEF LineAt
  <2> QED BY <2>4 DEF k
<1>11. \A k \in 1 .. n + 1 : LineAt(p, more, new, k)
  <2>1. \A k \in 1 .. n + 1 : k \in 1 .. n \/ k = n + 1
    BY <1>1
  <2> QED BY <1>9, <1>10, <2>1
<1>12. n + 1 + 1 = n + 2
  BY <1>1
<1>13. BeginsOf(p, more, n + 1, new)
  BY <1>7, <1>8, <1>11, <1>12 DEF BeginsOf
<1> QED BY <1>7, <1>8, <1>13 DEF OneMore

(* A piece more: the lines stay where they are.                            *)
LEMMA BeginsStill ==
  ASSUME NEW p, AnImage(p), NEW n \in Nat, n <= LineCount(p, p.mode), NEW bytes \in Seq(Octet),
         NEW starts, BeginsOf(p, bytes, n, starts), NEW more \in Seq(Octet)
  PROVE  BeginsOf(p, bytes \o more, n, starts)
<1>1. LineCount(p, p.mode) \in Nat
  BY ImageIs, LineCountIs
<1>2. ASSUME NEW k \in 1 .. n PROVE LineAt(p, bytes \o more, starts, k)
  <2>1. PICK j \in {0, 255} :
          /\ HasAt(bytes, starts[k], CodesOf(p, k - 1, j))
          /\ starts[k + 1] = starts[k] + Len(CodesOf(p, k - 1, j))
    BY DEF LineAt, BeginsOf
  <2> DEFINE theirs == CodesOf(p, k - 1, j)
  <2>2. theirs \in Seq(Octet)
    <3>1. k - 1 \in 0 .. LineCount(p, p.mode) - 1
      BY <1>1
    <3> QED BY <3>1, CodesOfIs
  <2> HIDE DEF theirs
  <2>3. HasAt(bytes \o more, starts[k], theirs)
    BY <2>1, <2>2, StillHas DEF theirs
  <2> QED BY <2>1, <2>3 DEF LineAt, theirs
<1> QED BY <1>2 DEF BeginsOf

(* The line after those that are there is not in the file.                 *)
LEMMA CodesThere ==
  ASSUME DataType, ~LosesRuns(picture), NEW n \in Nat, n < Count
  PROVE  CodesOf(picture, n, 0) \in Seq(Octet) /\ Len(CodesOf(picture, n, 0)) > 0
<1> DEFINE junk == 0  bytes == <<>>  here == 1  codes == CodesOf(picture, n, junk)
<1>1. /\ AnImage(picture) /\ n \in 0 .. LineCount(picture, picture.mode) - 1
      /\ junk \in {0, 255} /\ bytes \in Seq(Octet)
  BY PictureIs DEF Count
<1> HIDE DEF junk, bytes, here
<1>2. codes = CodesOf(picture, n, junk)
  OBVIOUS
<1> HIDE DEF codes
<1>3. ReadAt(picture, n, codes, bytes, here)
  BY <1>1, <1>2, LineReads
<1> QED BY <1>3 DEF ReadAt, codes, junk

LEMMA WriteLineInv ==
  ASSUME DataInv, NEW junk \in {0, 255}, NEW answer \in BOOLEAN, WriteLine(junk, answer)
  PROVE  DataInv'
<1> DEFINE codes == CodesOf(picture, lines, junk)  last == lines + 1 = Count
<1>1. DataType /\ phase = "write" /\ step = lines /\ lines < Count /\ result = "none"
      /\ Len(table) = (IF HasTable(picture) THEN lines ELSE 0)
      /\ AnImage(picture) /\ Count \in Nat \ {0}
  BY PictureIs DEF DataInv, WriteLine, Writing
<1>2. /\ file' = file \o codes /\ lines' = lines + 1 /\ step' = lines + 1
      /\ phase' = (IF ~answer THEN "closed" ELSE IF last THEN "trailer" ELSE "write")
      /\ result' = (IF ~answer THEN "counter" ELSE result) /\ trailer' = trailer
      /\ table' = (IF HasTable(picture) /\ answer THEN Append(table, Len(file) + 1) ELSE <<>>)
      /\ picture' = picture /\ layout' = layout /\ Count' = Count
  BY <1>1 DEF WriteLine, CodesOf, Count
<1>3. lines \in Nat /\ file \in Seq(Octet) /\ table \in Seq(Nat) /\ codes \in Seq(Octet) /\ Len(file) \in Nat
  <2>1. lines \in 0 .. LineCount(picture, picture.mode) - 1
    BY <1>1 DEF DataType, Count
  <2> QED BY <1>1, <2>1, CodesOfIs DEF DataType
<1> HIDE DEF codes
<1>4. DataType'
  <2>1. file' \in Seq(Octet) /\ lines' \in Nat /\ step' \in Nat /\ lines' <= Count
    BY <1>1, <1>2, <1>3
  <2>2. table' \in Seq(Nat)
    BY <1>2, <1>3
  <2> QED BY <1>1, <1>2, <2>1, <2>2 DEF DataType
<1>5. Writing'
  <2> SUFFICES ASSUME phase' = "write"
               PROVE  /\ step' = lines' /\ lines' < Count /\ result' = "none"
                      /\ Len(table') = IF HasTable(picture) THEN lines' ELSE 0
    <3>1. phase' = "trailer" => lines' = Count /\ result' = "none"
      BY <1>1, <1>2
    <3> QED BY <1>2, <3>1 DEF Writing
  <2>1. ~last /\ answer
    BY <1>2
  <2>2. lines' < Count
    BY <1>1, <1>2, <1>3, <2>1
  <2>3. Len(table') = IF HasTable(picture) THEN lines' ELSE 0
    BY <1>1, <1>2, <1>3, <2>1
  <2> QED BY <1>1, <1>2, <2>1, <2>2, <2>3
<1>6. Reading'
  BY <1>2 DEF Reading
<1>7. FileIs'
  <2>1. PICK starts : Begins(starts) /\ Ends(starts) /\ Tabled(starts)
    BY DEF DataInv, FileIs
  <2>2. starts[lines + 1] = Len(file) + 1
    BY <1>1, <2>1 DEF Ends
  <2> DEFINE more == file'  n == lines
  <2>10. OneMore(picture, file, n, starts, more)
    <3>1. n \in 0 .. LineCount(picture, picture.mode) - 1
      BY <1>1, <1>3 DEF Count
    <3>2. BeginsOf(picture, file, n, starts) /\ starts[n + 1] = Len(file) + 1
      BY <2>1, <2>2 DEF Begins
    <3>3. more = file \o codes /\ codes = CodesOf(picture, n, junk)
      BY <1>2 DEF codes
    <3> HIDE DEF more, n
    <3> QED BY <1>1, <1>3, <3>1, <3>2, <3>3, BeginsThen
  <2>11. PICK new : /\ BeginsOf(picture, file', lines + 1, new) /\ new[lines + 2] = Len(file') + 1
                   /\ \A k \in 1 .. lines + 1 : new[k] = starts[k]
    BY <2>10 DEF OneMore
  <2>12. lines + 1 + 1 = lines + 2
    BY <1>3
  <2>3. /\ Begins(new)' /\ new[lines' + 1] = Len(file') + 1
        /\ \A k \in 1 .. lines + 1 : new[k] = starts[k]
    BY <1>2, <2>11, <2>12 DEF Begins
  <2>4. Ends(new)'
    <3>1. ASSUME phase' # "write", lines' < Count, ~LosesRuns(picture)
          PROVE  EndsIn(file', new[lines' + 1], CodesOf(picture, lines', 0))
      <4>1. /\ CodesOf(picture, lines', 0) \in Seq(Octet) /\ Len(CodesOf(picture, lines', 0)) > 0
        <5> DEFINE nth == lines'
        <5>1. nth \in Nat /\ nth < Count
          BY <1>4, <3>1 DEF DataType
        <5> HIDE DEF nth
        <5>2. CodesOf(picture, nth, 0) \in Seq(Octet) /\ Len(CodesOf(picture, nth, 0)) > 0
          BY <1>1, <3>1, <5>1, CodesThere
        <5> QED BY <5>2 DEF nth
      <4>2. file' \in Seq(Octet)
        BY <1>4 DEF DataType
      <4> DEFINE there == CodesOf(picture, lines', 0)  a == file'
      <4>3. there \in Seq(Octet) /\ Len(there) > 0 /\ a \in Seq(Octet)
        BY <4>1, <4>2
      <4> HIDE DEF there, a
      <4>4. EndsIn(a, Len(a) + 1, there)
        BY <4>3, EndsHere
      <4> QED BY <2>3, <4>4 DEF there, a
    <3> QED BY <1>2, <2>3, <3>1 DEF Ends
  <2>5. Tabled(new)'
    <3> SUFFICES ASSUME table' # <<>>
                 PROVE  /\ Len(table') = lines' /\ \A k \in 1 .. lines' : table'[k] = new[k]
                        /\ phase' # "write" => lines' = Count
      BY <1>2 DEF Tabled
    <3>1. HasTable(picture) /\ answer /\ table' = Append(table, Len(file) + 1) /\ Len(table) = lines
      BY <1>1, <1>2
    <3>2. Len(table') = lines' /\ \A k \in 1 .. lines : table'[k] = table[k]
      BY <1>2, <1>3, <3>1
    <3>3. table'[lines + 1] = Len(file) + 1
      BY <1>3, <3>1
    <3>4. ASSUME NEW k \in 1 .. lines' PROVE table'[k] = new[k]
      <4>1. CASE k = lines + 1
        BY <1>2, <1>3, <2>2, <2>3, <3>3, <4>1
      <4>2. CASE k # lines + 1
        <5>1. k \in 1 .. lines /\ k \in 1 .. lines + 1
          BY <1>2, <1>3, <4>2
        <5>2. table # <<>>
          BY <1>3, <3>1, <5>1
        <5>3. table[k] = starts[k]
          BY <2>1, <5>1, <5>2 DEF Tabled
        <5> QED BY <2>3, <3>2, <5>1, <5>3
      <4> QED BY <4>1, <4>2
    <3>5. phase' # "write" => lines' = Count
      BY <1>2, <3>1
    <3> QED BY <3>2, <3>4, <3>5
  <2>6. Stands(new)'
    BY <1>2 DEF Stands
  <2> QED BY <2>3, <2>4, <2>5, <2>6 DEF FileIs
<1>8. ImageComesBack'
  <2>1. result' \notin {"read", "access", "written"}
    BY <1>1, <1>2
  <2> QED BY <2>1 DEF ImageComesBack
<1> QED BY <1>4, <1>5, <1>6, <1>7, <1>8 DEF DataInv

LEMMA WriteFailsInv ==
  ASSUME DataInv, WriteFails
  PROVE  DataInv'
<1> DEFINE codes == CodesOf(picture, lines, 0)  half == Len(codes) \div 2
           piece == SubSeq(codes, 1, half)
<1>1. DataType /\ phase = "write" /\ step = lines /\ lines < Count
      /\ AnImage(picture) /\ Count \in Nat \ {0}
  BY PictureIs DEF DataInv, WriteFails, Writing
<1>2. /\ file' = file \o piece /\ lines' = lines /\ step' = step /\ phase' = "closed" /\ result' = "unwritten"
      /\ trailer' = trailer /\ table' = <<>> /\ picture' = picture /\ layout' = layout /\ Count' = Count
  BY <1>1 DEF WriteFails, CodesOf, Count
<1>3. lines \in Nat /\ file \in Seq(Octet) /\ codes \in Seq(Octet)
  <2> DEFINE junk == 0
  <2>1. lines \in 0 .. LineCount(picture, picture.mode) - 1 /\ junk \in {0, 255}
    BY <1>1 DEF DataType, Count
  <2> HIDE DEF junk
  <2>2. CodesOf(picture, lines, junk) \in Seq(Octet)
    BY <1>1, <2>1, CodesOfIs
  <2> QED BY <1>1, <2>2 DEF DataType, junk
<1> HIDE DEF codes
<1>4. piece \in Seq(Octet)
  <2>1. half \in Nat /\ half <= Len(codes)
    BY <1>3
  <2> DEFINE one == 1
  <2>2. one \in Nat \ {0} /\ one + half - 1 = half /\ one + half - 1 <= Len(codes)
    BY <2>1
  <2> HIDE DEF one, half
  <2>3. SubSeq(codes, one, one + half - 1) \in Seq(Octet)
    BY <1>3, <2>1, <2>2, PieceIs
  <2> QED BY <2>2, <2>3 DEF one
<1> HIDE DEF piece
<1>5. DataType'
  <2>1. file' \in Seq(Octet)
    BY <1>2, <1>3, <1>4
  <2> QED BY <1>1, <1>2, <2>1 DEF DataType
<1>6. Writing' /\ Reading'
  BY <1>2 DEF Writing, Reading
<1>7. FileIs'
  <2>1. PICK starts : Begins(starts) /\ Ends(starts)
    BY DEF DataInv, FileIs
  <2>2. starts[lines + 1] = Len(file) + 1
    BY <1>1, <2>1 DEF Ends
  <2>3. Begins(starts)'
    <3>1. BeginsOf(picture, file, lines, starts) /\ lines <= LineCount(picture, picture.mode)
      BY <1>1, <2>1 DEF Begins, DataType, Count
    <3>2. BeginsOf(picture, file \o piece, lines, starts)
      BY <1>1, <1>3, <1>4, <3>1, BeginsStill
    <3> QED BY <1>2, <3>2 DEF Begins
  <2>4. Ends(starts)'
    <3>1. ASSUME ~LosesRuns(picture) PROVE EndsIn(file', starts[lines + 1], codes)
      <4>1. Len(codes) > 0
        BY <1>1, <1>3, <3>1, CodesThere DEF codes
      <4>2. half \in Nat /\ half < Len(codes)
        BY <1>3, <4>1
      <4> HIDE DEF half
      <4>3. EndsIn(file \o SubSeq(codes, 1, half), Len(file) + 1, codes)
        BY <1>3, <4>1, <4>2, EndsNow
      <4> QED BY <1>2, <2>2, <4>3 DEF piece
    <3> QED BY <1>2, <3>1 DEF Ends, codes
  <2>5. Tabled(starts)' /\ Stands(starts)'
    BY <1>2 DEF Tabled, Stands
  <2> QED BY <2>3, <2>4, <2>5 DEF FileIs
<1>8. ImageComesBack'
  BY <1>2 DEF ImageComesBack
<1> QED BY <1>5, <1>6, <1>7, <1>8 DEF DataInv

LEMMA WriteTrailerInv ==
  ASSUME DataInv, NEW written \in BOOLEAN, WriteTrailer(written)
  PROVE  DataInv'
<1>1. DataType /\ phase = "trailer" /\ lines = Count
  BY DEF DataInv, WriteTrailer, Writing
<1>2. /\ phase' = "closed" /\ trailer' = written /\ table' \in {table, <<>>}
      /\ result' = (IF written \/ Trailer(picture) = "tables" THEN "written" ELSE "unwritten")
      /\ picture' = picture /\ file' = file /\ lines' = lines /\ step' = step /\ layout' = layout
      /\ Count' = Count
  BY DEF WriteTrailer, Count
<1>3. DataType'
  <2>1. table' \in Seq(Nat)
    <3>1. table \in Seq(Nat)
      BY <1>1 DEF DataType
    <3>2. <<>> \in Seq(Nat)
      OBVIOUS
    <3>3. table' = table \/ table' = <<>>
      BY <1>2
    <3> QED BY <3>1, <3>2, <3>3
  <2>2. phase' \in {"write", "trailer", "closed", "read"} /\ trailer' \in BOOLEAN
    BY <1>2
  <2> QED BY <1>1, <1>2, <2>1, <2>2 DEF DataType
<1>4. Writing' /\ Reading'
  BY <1>2 DEF Writing, Reading
<1>5. FileIs'
  <2>1. PICK starts : Begins(starts) /\ Ends(starts) /\ Tabled(starts)
    BY DEF DataInv, FileIs
  <2>2. Begins(starts)' /\ Ends(starts)'
    BY <1>1, <1>2, <2>1 DEF Begins, Ends
  <2>3. Tabled(starts)' /\ Stands(starts)'
    BY <1>1, <1>2, <2>1 DEF Tabled, Stands
  <2> QED BY <2>2, <2>3 DEF FileIs
<1>6. ImageComesBack'
  <2>1. result' \notin {"read", "access"}
    BY <1>2
  <2>2. Whole'
    BY <1>1, <1>2 DEF Whole, Count
  <2>3. ASSUME result' = "written" PROVE ~PaletteMissing'
    BY <1>2, <2>3 DEF PaletteMissing
  <2> QED BY <2>1, <2>2, <2>3 DEF ImageComesBack
<1> QED BY <1>3, <1>4, <1>5, <1>6 DEF DataInv

LEMMA OpenImageInv ==
  ASSUME DataInv, NEW mode \in Layout, OpenImage(mode)
  PROVE  DataInv'
<1>1. DataType /\ AnImage(picture) /\ mode \in Modes /\ phase = "closed" /\ Count \in Nat \ {0}
  BY PictureIs, LayoutAssumption DEF DataInv, OpenImage
<1>2. /\ phase' = "read" /\ result' = "none" /\ step' = 0 /\ pos' = 1 /\ layout' = mode
      /\ back' = Repeat(0, MemorySize(picture, mode))
      /\ picture' = picture /\ file' = file /\ table' = table /\ lines' = lines /\ Count' = Count
      /\ trailer' = trailer
  BY DEF OpenImage, Count
<1>3. DataType'
  BY <1>1, <1>2 DEF DataType
<1>4. Writing'
  BY <1>2 DEF Writing
<1>5. Reading'
  <2>1. LineCount(picture, mode) \in Nat \ {0}
    BY <1>1, <1>3, ImageIs, LineCountIs
  <2>2. BackIs(picture, mode, Repeat(0, MemorySize(picture, mode)), 0)
    BY <1>1, BackNothing
  <2> QED BY <1>2, <2>1, <2>2 DEF Reading
<1>6. FileIs'
  <2>1. PICK starts : Begins(starts) /\ Ends(starts) /\ Tabled(starts)
    BY DEF DataInv, FileIs
  <2>2. Begins(starts)' /\ starts[1] = 1
    BY <1>2, <2>1 DEF Begins, BeginsOf
  <2>3. Ends(starts)' /\ Tabled(starts)'
    BY <1>1, <1>2, <2>1 DEF Ends, Tabled
  <2>4. Stands(starts)'
    BY <1>1, <1>2, <2>2 DEF Stands, DataType
  <2> QED BY <2>2, <2>3, <2>4 DEF FileIs
<1>7. ImageComesBack'
  BY <1>2 DEF ImageComesBack
<1> QED BY <1>3, <1>4, <1>5, <1>6, <1>7 DEF DataInv

LEMMA OpenFailsInv ==
  ASSUME DataInv, OpenFails
  PROVE  DataInv'
<1>1. /\ phase = "closed" /\ phase' = "closed" /\ result' = "access" /\ PaletteMissing'
      /\ UNCHANGED <<picture, file, trailer, table, lines, step, pos, layout, back>>
  BY DEF OpenFails, PaletteMissing
<1>2. DataType' /\ Writing' /\ Reading'
  BY <1>1 DEF DataInv, DataType, Writing, Reading, Count
<1>3. FileIs'
  BY <1>1 DEF DataInv, FileIs, Begins, Ends, Tabled, Stands, Count
<1>4. ImageComesBack'
  BY <1>1 DEF ImageComesBack
<1> QED BY <1>2, <1>3, <1>4 DEF DataInv

(* What a reader gets: the line it is to get, or an error where it is not  *)
(* in the file.                                                            *)
RightRead(starts, read) ==
  /\ read.ok \in BOOLEAN
  /\ read.ok = TRUE =>
       /\ step < lines /\ Yields(picture, step, read)
       /\ ~HasTable(picture) => read.next = starts[step + 2]
  /\ read.ok = FALSE => ~Whole

LEMMA LineThereIs ==
  ASSUME DataType, Reading, phase = "read", Clean,
         NEW starts, Begins(starts), Ends(starts), Tabled(starts), Stands(starts),
         NEW read \in LineThere
  PROVE  RightRead(starts, read)
<1> DEFINE here == starts[step + 1]
<1>1. /\ AnImage(picture) /\ step \in Nat /\ lines \in Nat /\ Count \in Nat /\ lines <= Count
      /\ step < Count /\ file \in Seq(Octet) /\ Count = LineCount(picture, picture.mode)
  <2>1. step < LineCount(picture, layout) /\ LineCount(picture, layout) <= Count
        /\ Count \in Nat /\ LineCount(picture, layout) \in Nat
    BY PictureIs DEF Reading
  <2> QED BY <2>1, PictureIs DEF DataType, Count
<1>2. step <= lines /\ ~LosesRuns(picture)
  BY DEF Stands, Clean
<1>3. ASSUME HasTable(picture) PROVE step < lines /\ table # <<>> /\ table[step + 1] = here
  <2>1. table # <<>>
    BY <1>3 DEF Clean, TablesMissing
  <2>2. lines = Count /\ \A k \in 1 .. lines : table[k] = starts[k]
    BY <2>1 DEF Tabled
  <2>3. step + 1 \in 1 .. lines /\ step < lines
    BY <1>1, <2>2
  <2> QED BY <2>1, <2>2, <2>3
<1>4. ~HasTable(picture) => pos = here
  BY DEF Stands
<1> HIDE DEF here
<1>5. read = ReadOf(picture, file, here)
  <2>1. CASE ~picture.rle
    BY <1>4, <2>1 DEF LineThere, ReadOf, HasTable
  <2>2. CASE picture.rle
    <3>1. LineThere = {Decode(picture.driver, file, IF HasTable(picture) THEN table[step + 1] ELSE pos,
                             PixelSize(picture), CodedSize(picture))}
      BY <1>3, <2>2 DEF LineThere, TablesMissing
    <3>2. (IF HasTable(picture) THEN table[step + 1] ELSE pos) = here
      BY <1>3, <1>4
    <3> QED BY <2>2, <3>1, <3>2 DEF ReadOf
  <2> QED BY <2>1, <2>2
<1>6. CASE step < lines
  <2> DEFINE k == step + 1
  <2>1. k \in 1 .. lines /\ k - 1 = step /\ k + 1 = step + 2 /\ step \in 0 .. LineCount(picture, picture.mode) - 1
    BY <1>1, <1>6
  <2>2. starts[k] = here
    BY DEF here
  <2> HIDE DEF k
  <2>3. PICK junk \in {0, 255} :
          /\ HasAt(file, starts[k], CodesOf(picture, k - 1, junk))
          /\ starts[k + 1] = starts[k] + Len(CodesOf(picture, k - 1, junk))
    BY <2>1 DEF Begins, BeginsOf, LineAt
  <2> DEFINE codes == CodesOf(picture, step, junk)
  <2>4. HasAt(file, here, codes) /\ starts[step + 2] = here + Len(codes)
    BY <2>1, <2>2, <2>3
  <2>5. codes = CodesOf(picture, step, junk)
    OBVIOUS
  <2> HIDE DEF codes
  <2>6. ReadAt(picture, step, codes, file, here)
    BY <1>1, <1>2, <2>1, <2>5, LineReads
  <2>7. /\ Yields(picture, step, read) /\ (~HasTable(picture) => read.next = here + Len(codes))
    BY <1>5, <2>4, <2>6 DEF ReadAt
  <2>8. read.ok = TRUE
    BY <2>7 DEF Yields
  <2> QED BY <1>6, <2>4, <2>7, <2>8 DEF RightRead
<1>7. CASE ~(step < lines)
  <2>1. step = lines /\ lines < Count /\ ~HasTable(picture)
    BY <1>1, <1>2, <1>3, <1>7
  <2> DEFINE junk == 0  codes == CodesOf(picture, step, junk)
  <2>2. EndsIn(file, here, codes)
    BY <1>2, <2>1 DEF Ends, here
  <2>3. junk \in {0, 255} /\ step \in 0 .. LineCount(picture, picture.mode) - 1
    BY <1>1
  <2> HIDE DEF junk
  <2>4. codes = CodesOf(picture, step, junk)
    OBVIOUS
  <2> HIDE DEF codes
  <2>5. ReadAt(picture, step, codes, file, here)
    BY <1>1, <1>2, <2>3, <2>4, LineReads
  <2>6. read.ok = FALSE
    BY <1>5, <2>1, <2>2, <2>5 DEF ReadAt
  <2>7. ~Whole
    BY <1>1, <2>1 DEF Whole, Count
  <2> QED BY <2>6, <2>7 DEF RightRead
<1> QED BY <1>6, <1>7

LEMMA ReadLineIs ==
  ASSUME DataType, Reading, phase = "read", Clean,
         NEW starts, Begins(starts), Ends(starts), Tabled(starts), Stands(starts),
         NEW read \in NextLine
  PROVE  RightRead(starts, read)
<1>1. PICK there \in LineThere :
        read = IF there.ok \/ picture.reports THEN there ELSE Unreported(there)
  BY DEF NextLine
<1>2. RightRead(starts, there)
  BY LineThereIs
<1>3. there.ok \in BOOLEAN /\ (there.ok = FALSE => ~Whole)
  BY <1>2 DEF RightRead
<1>4. there.ok \/ picture.reports
  BY <1>3 DEF Clean
<1>5. read = there
  BY <1>1, <1>4
<1> QED BY <1>2, <1>5

(* The whole image is there, a piece of it, or none.                       *)
LEMMA BackNext ==
  ASSUME DataType, Reading, phase = "read", Clean, NEW read, Yields(picture, step, read)
  PROVE  LET memory == FillMemory(picture, layout, step, Unraw(picture, read.line), back)
         IN /\ BackIs(picture, layout, memory, step + 1)
            /\ step + 1 = LineCount(picture, layout) => SameImage(picture, layout, memory)
<1> DEFINE line == Unraw(picture, read.line)  memory == FillMemory(picture, layout, step, line, back)
           count == LineCount(picture, layout)
<1>1. /\ AnImage(picture) /\ layout \in Modes /\ BackIs(picture, layout, back, step)
      /\ step \in Nat /\ count \in Nat /\ step < count
  BY PictureIs DEF DataType, Reading
<1>2. step \in 0 .. count - 1
  BY <1>1
<1>3. \A k \in 1 .. LineSize(picture) : line[k] = FillLine(picture, step)[k] * Factor(picture)
  BY DEF Yields
<1> HIDE DEF line
<1>4. BackIs(picture, layout, memory, step + 1)
  BY <1>1, <1>2, <1>3, BackThen
<1> HIDE DEF memory
<1>5. ASSUME step + 1 = count PROVE SameImage(picture, layout, memory)
  <2>1. BackIs(picture, layout, memory, LineCount(picture, layout))
    BY <1>4, <1>5
  <2> QED BY <1>1, <2>1, BackWhole
<1> QED BY <1>4, <1>5 DEF memory, line

LEMMA ReadLineInv ==
  ASSUME DataInv, NEW answer \in BOOLEAN, ReadLine(answer)
  PROVE  DataInv'
<1>1. /\ DataType /\ Reading /\ phase = "read" /\ AnImage(picture) /\ Count \in Nat \ {0}
      /\ LineCount(picture, layout) \in Nat \ {0} /\ step \in Nat /\ step < LineCount(picture, layout)
      /\ result = "none"
  BY PictureIs DEF DataInv, ReadLine, Reading, DataType
<1>2. /\ picture' = picture /\ file' = file /\ table' = table /\ lines' = lines /\ layout' = layout
      /\ trailer' = trailer
      /\ Count' = Count /\ (Clean <=> Clean') /\ (Whole <=> Whole')
      /\ (TablesMissing <=> TablesMissing') /\ (PaletteMissing <=> PaletteMissing')
  BY DEF ReadLine, Count, Clean, Whole, TablesMissing, PaletteMissing
<1>3. PICK read \in NextLine :
        IF ~read.ok
        THEN phase' = "closed" /\ result' = "access" /\ back' = back /\ pos' = pos /\ step' = step
        ELSE /\ back' = FillMemory(picture, layout, step, Unraw(picture, read.line), back)
             /\ pos' = read.next
             /\ step' = step + 1
             /\ CASE ~answer -> phase' = "closed" /\ result' = "counter"
                  [] answer /\ step + 1 = LineCount(picture, layout) ->
                       phase' = "closed" /\ result' = "read"
                  [] OTHER -> UNCHANGED <<phase, result>>
  BY DEF ReadLine
<1>4. PICK starts : Begins(starts) /\ Ends(starts) /\ Tabled(starts) /\ Stands(starts)
  BY DEF DataInv, FileIs
<1>5. Clean => RightRead(starts, read)
  BY <1>1, <1>4, ReadLineIs
<1>6. Begins(starts)'
  BY <1>2, <1>4 DEF Begins
<1>7. step' \in Nat /\ phase' \in {"closed", "read"}
  <2>1. CASE ~read.ok
    BY <1>1, <1>3, <2>1
  <2>2. CASE read.ok
    BY <1>1, <1>3, <2>2
  <2> QED BY <2>1, <2>2
<1>8. Ends(starts)' /\ Tabled(starts)'
  BY <1>1, <1>2, <1>4, <1>7 DEF Ends, Tabled
<1>9. DataType'
  BY <1>1, <1>2, <1>7 DEF DataType
<1>10. Writing'
  BY <1>7 DEF Writing
<1>11. CASE ~read.ok
  <2>1. phase' = "closed" /\ result' = "access"
    BY <1>3, <1>11
  <2>2. Reading' /\ Stands(starts)'
    BY <2>1 DEF Reading, Stands
  <2>3. Clean => ~Whole
    BY <1>5, <1>11 DEF RightRead
  <2>4. ImageComesBack'
    BY <1>2, <2>1, <2>3 DEF ImageComesBack, Clean
  <2> QED BY <1>6, <1>8, <1>9, <1>10, <2>2, <2>4 DEF DataInv, FileIs
<1>12. CASE read.ok
  <2>1. /\ back' = FillMemory(picture, layout, step, Unraw(picture, read.line), back)
        /\ pos' = read.next /\ step' = step + 1
        /\ \/ phase' = "closed" /\ result' = "counter"
           \/ phase' = "closed" /\ result' = "read" /\ step + 1 = LineCount(picture, layout)
           \/ phase' = "read" /\ result' = "none" /\ step + 1 # LineCount(picture, layout)
    <3>1. CASE ~answer
      BY <1>3, <1>12, <3>1
    <3>2. CASE answer /\ step + 1 = LineCount(picture, layout)
      BY <1>3, <1>12, <3>2
    <3>3. CASE answer /\ step + 1 # LineCount(picture, layout)
      BY <1>1, <1>3, <1>12, <3>3
    <3> QED BY <3>1, <3>2, <3>3
  <2>2. ASSUME Clean
        PROVE  /\ step < lines /\ Yields(picture, step, read)
               /\ ~HasTable(picture) => read.next = starts[step + 2]
    <3>1. read.ok = TRUE
      BY <1>5, <1>12, <2>2 DEF RightRead
    <3> QED BY <1>5, <2>2, <3>1 DEF RightRead
  <2>3. ASSUME Clean
        PROVE  /\ BackIs(picture, layout, back', step')
               /\ step + 1 = LineCount(picture, layout) => SameImage(picture, layout, back')
    BY <1>1, <2>1, <2>2, <2>3, BackNext
  <2>4. Reading'
    <3>1. ASSUME phase' = "read" PROVE step' < LineCount(picture, layout) /\ result' = "none"
      BY <1>1, <2>1, <3>1
    <3> QED BY <1>2, <2>3, <3>1 DEF Reading
  <2>5. Stands(starts)'
    <3>1. ASSUME Clean PROVE step' <= lines /\ (~HasTable(picture) => pos' = starts[step' + 1])
      <4>1. lines \in Nat /\ step + 1 + 1 = step + 2
        BY <1>1 DEF DataType
      <4> QED BY <1>1, <2>1, <2>2, <3>1, <4>1
    <3> QED BY <1>2, <3>1 DEF Stands
  <2>6. ImageComesBack'
    <3>1. result' \notin {"access", "written"}
      BY <2>1
    <3>2. ASSUME result' = "read", Clean PROVE SameImage(picture, layout, back')
      BY <2>1, <2>3, <3>2
    <3> QED BY <1>2, <3>1, <3>2 DEF ImageComesBack, Clean
  <2> QED BY <1>6, <1>8, <1>9, <1>10, <2>4, <2>5, <2>6 DEF DataInv, FileIs
<1> QED BY <1>11, <1>12

(* Every step keeps it.                                                    *)
LEMMA DataNextInv == DataInv /\ [DataNext]_dataVars => DataInv'
<1> SUFFICES ASSUME DataInv, [DataNext]_dataVars PROVE DataInv'
  OBVIOUS
<1>1. ASSUME NEW junk \in {0, 255}, NEW answer \in BOOLEAN, WriteLine(junk, answer) PROVE DataInv'
  BY <1>1, WriteLineInv
<1>2. ASSUME NEW mode \in Layout, OpenImage(mode) PROVE DataInv'
  BY <1>2, OpenImageInv
<1>6. ASSUME NEW written \in BOOLEAN, WriteTrailer(written) PROVE DataInv'
  BY <1>6, WriteTrailerInv
<1>7. CASE OpenFails
  BY <1>7, OpenFailsInv
<1>3. CASE WriteFails
  BY <1>3, WriteFailsInv
<1>4. ASSUME NEW answer \in BOOLEAN, ReadLine(answer) PROVE DataInv'
  BY <1>4, ReadLineInv
<1>5. CASE UNCHANGED dataVars
  BY <1>5 DEF dataVars, DataInv, DataType, Writing, Reading, FileIs, Begins, Ends, Tabled, Stands,
              ImageComesBack, Whole, Count, Clean, TablesMissing, PaletteMissing
<1> QED BY <1>1, <1>2, <1>3, <1>4, <1>5, <1>6, <1>7 DEF DataNext

(* The lines are in the file where the reader looks for them, one behind   *)
(* the other, or a piece of the next; and memory has those that were read. *)
THEOREM DataInductive == DataSpec => []DataInv
<1>1. DataInit => DataInv
  BY DataInitInv
<1>2. DataInv /\ [DataNext]_dataVars => DataInv'
  BY DataNextInv
<1> QED BY <1>1, <1>2, PTL DEF DataSpec

(* What a reader has without an error is the image, and none fails where   *)
(* lines and palette are there, as they are when the writing said so: for  *)
(* every image and every memory, but for the three mistakes that the       *)
(* property names.                                                         *)
THEOREM ImagesComeBack == DataSpec => []ImageComesBack
<1>1. DataInv => ImageComesBack
  BY DEF DataInv
<1> QED BY <1>1, DataInductive, PTL

LEMMA FitsNow ==
  ASSUME DataInv, [DataNext]_dataVars, phase = "write", picture.rle,
         ~(picture.driver = "SGI" /\ picture.width <= 3)
  PROVE  Len(file') - Len(file) <= Room(picture)
<1>1. /\ DataType /\ AnImage(picture) /\ step = lines /\ lines < Count /\ Count \in Nat
      /\ file \in Seq(Octet) /\ lines \in 0 .. LineCount(picture, picture.mode) - 1
  <2>1. DataType /\ AnImage(picture) /\ step = lines /\ lines < Count /\ Count \in Nat
    BY PictureIs DEF DataInv, Writing
  <2> QED BY <2>1 DEF DataType, Count
<1>2. Len(file) \in Nat /\ Room(picture) \in Nat
  <2>1. LineSize(picture) \in Nat /\ RawSize(picture) \in Nat
    BY <1>1, ImageIs, RawSizeIs
  <2> QED BY <1>1, <2>1 DEF Room
<1>3. ASSUME NEW junk \in {0, 255}, NEW answer \in BOOLEAN, WriteLine(junk, answer)
      PROVE  Len(file') - Len(file) <= Room(picture)
  <2> DEFINE codes == CodesOf(picture, lines, junk)
  <2>1. file' = file \o codes
    BY <1>1, <1>3 DEF WriteLine, CodesOf
  <2>2. codes \in Seq(Octet) /\ Len(codes) <= Room(picture)
    BY <1>1, <1>3, CodesOfIs
  <2> HIDE DEF codes
  <2>3. Len(file \o codes) = Len(file) + Len(codes) /\ Len(codes) \in Nat
    BY <1>1, <2>2, HasNow
  <2> QED BY <1>2, <2>1, <2>2, <2>3
<1>4. ASSUME WriteFails PROVE Len(file') - Len(file) <= Room(picture)
  <2> DEFINE junk == 0  codes == CodesOf(picture, lines, junk)  half == Len(codes) \div 2
             piece == SubSeq(codes, 1, half)
  <2>1. file' = file \o piece
    BY <1>1, <1>4 DEF WriteFails, CodesOf
  <2>2. junk \in {0, 255}
    OBVIOUS
  <2> HIDE DEF junk
  <2>3. codes \in Seq(Octet) /\ Len(codes) <= Room(picture)
    BY <1>1, <2>2, CodesOfIs
  <2> HIDE DEF codes
  <2>4. half \in Nat /\ half <= Len(codes) /\ Len(codes) \in Nat
    BY <2>3
  <2>5. piece \in Seq(Octet) /\ Len(piece) = half
    <3> DEFINE one == 1
    <3>1. one \in Nat \ {0} /\ one + half - 1 = half /\ one + half - 1 <= Len(codes)
      BY <2>4
    <3> HIDE DEF one, half
    <3>2. SubSeq(codes, one, one + half - 1) \in Seq(Octet) /\ Len(SubSeq(codes, one, one + half - 1)) = half
      BY <2>3, <2>4, <3>1, PieceIs
    <3> QED BY <3>1, <3>2 DEF one
  <2> HIDE DEF piece, half
  <2>6. Len(file \o piece) = Len(file) + Len(piece)
    BY <1>1, <2>5, HasNow
  <2> QED BY <1>2, <2>1, <2>3, <2>4, <2>5, <2>6
<1>5. CASE UNCHANGED dataVars
  <2>1. file' = file
    BY <1>5 DEF dataVars
  <2> QED BY <1>2, <2>1
<1> QED BY <1>3, <1>4, <1>5 DEF DataNext, WriteTrailer, OpenImage, OpenFails, ReadLine

(* The coded line fits behind the line buffer, for every image but those   *)
(* in SGI of three pixels a line or less.                                  *)
THEOREM LinesFit == DataSpec => LineFits
<1>1. DataInv /\ [DataNext]_dataVars =>
        [phase = "write" /\ picture.rle /\ ~(picture.driver = "SGI" /\ picture.width <= 3) =>
           Len(file') - Len(file) <= Room(picture)]_dataVars
  BY FitsNow
<1> QED BY <1>1, DataInductive, PTL DEF DataSpec, LineFits
=============================================================================
