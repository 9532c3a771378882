-------------------------- MODULE ImBinMemoryFile ---------------------------
(***************************************************************************)
(* The memory I/O module of IM (im_binfile.cpp, class imBinMemoryFile): a  *)
(* binary file kept in a heap block that belongs to the user.  The user    *)
(* passes an imBinMemoryFileName (buffer, size, reallocate) instead of a   *)
(* name; the block is allocated by New when the user gave none, grown by   *)
(* WriteBuf, and outlives the handle.  One handle is open on the structure *)
(* at a time.  Offsets stay far from the width of unsigned long.           *)
(***************************************************************************)
EXTENDS Integers

CONSTANTS
  Byte,                \* values of a byte
  Junk,                \* the content of a cell malloc or realloc returned
  InitSizes,           \* values the user may put in file_name->size
  GrowNum, GrowDen,    \* file_name->reallocate, as the fraction GrowNum/GrowDen
  HeapLimit,           \* no block is larger: malloc and realloc fail above it
  MaxOp                \* most bytes one read or write asks for

ASSUME JunkAssumption == Junk \notin Byte
ASSUME SizeAssumption == InitSizes \subseteq Nat \ {0}
ASSUME GrowAssumption == GrowNum \in Nat /\ GrowDen \in Nat \ {0}
ASSUME LimitAssumption == HeapLimit \in Nat /\ MaxOp \in Nat

VARIABLES
  buffer,       \* the block file_name->buffer points to, empty for NULL
  name_size,    \* file_name->size
  isOpen,       \* a handle exists
  BufferSize, CurrentSize, CurPos, Error,   \* the handle's fields
  hung,         \* a WriteBuf is in its growing loop for ever
  out           \* what the last Read or Write returned

name_vars == <<buffer, name_size>>
vars == <<buffer, name_size, isOpen, BufferSize, CurrentSize, CurPos, Error,
          hung, out>>

Cell == Byte \cup {Junk}
Null == [i \in 0 .. -1 |-> Junk]
NoOut == [n |-> 0, cells |-> Null]

Larger(m, n) == IF m > n THEN m ELSE n

malloc(n) == [i \in 0 .. n - 1 |-> Junk]
realloc(b, old, n) == [i \in 0 .. n - 1 |-> IF i < old THEN b[i] ELSE Junk]

(* memcpy of the first k values of data to offset p of a block of n cells. *)
Copied(b, n, p, data, k) ==
  [i \in 0 .. n - 1 |-> IF p <= i /\ i < p + k THEN data[i - p] ELSE b[i]]

(* Seeded bug: the step is a share of the room left, not of the block.     *)
BugGrowStepOfRoom == (GrowNum * (BufferSize - CurPos)) \div GrowDen

(* (unsigned long)(Reallocate * BufferSize): what one turn of the growing  *)
(* loop adds; it is computed from the size before the loop.                *)
GrowStep == (GrowNum * BufferSize) \div GrowDen

-----------------------------------------------------------------------------
(* The structure the user hands over: with a block of his own or with none *)
Init ==
  /\ name_size \in InitSizes
  /\ \/ buffer = Null
     \/ buffer \in [0 .. name_size - 1 -> Byte]
  /\ isOpen = FALSE
  /\ BufferSize = 0 /\ CurrentSize = 0 /\ CurPos = 0 /\ Error = FALSE
  /\ hung = FALSE
  /\ out = NoOut

(* A fresh handle on the structure, CurrentSize bytes long.                *)
Handle(current) ==
  /\ isOpen' = TRUE
  /\ BufferSize' = name_size
  /\ CurrentSize' = current
  /\ CurPos' = 0
  /\ Error' = FALSE
  /\ out' = NoOut

(* imBinFileOpen: the whole block is the file.  A NULL buffer makes        *)
(* HasError true and the handle is deleted at once: nothing is left of it. *)
Open ==
  /\ ~isOpen /\ buffer # Null
  /\ Handle(name_size)
  /\ UNCHANGED <<buffer, name_size, hung>>

(* imBinFileNew: an empty file, in the user's block or in a new one.  When *)
(* malloc fails the handle is deleted and NULL stays in the structure.     *)
New ==
  /\ ~isOpen
  /\ \/ buffer # Null /\ buffer' = buffer
     \/ buffer = Null /\ name_size <= HeapLimit /\ buffer' = malloc(name_size)
  /\ Handle(0)
  /\ UNCHANGED <<name_size, hung>>

(* Close does nothing to the block; CurrentSize is kept here only to state *)
(* what the closed file held.                                              *)
Close ==
  /\ isOpen /\ ~hung
  /\ isOpen' = FALSE
  /\ UNCHANGED <<buffer, name_size, BufferSize, CurrentSize, CurPos, Error,
                 hung, out>>

(* imBinMemoryRelease, after which the user may fill the structure again.  *)
Release ==
  /\ ~isOpen /\ buffer # Null
  /\ buffer' = Null
  /\ name_size' \in InitSizes
  /\ CurrentSize' = 0
  /\ UNCHANGED <<isOpen, BufferSize, CurPos, Error, hung, out>>

ReadBuf(n) ==
  /\ isOpen /\ ~hung
  /\ LET short == CurPos + n > CurrentSize
         k     == IF short THEN CurrentSize - CurPos ELSE n
     IN /\ Error' = short
        /\ out' = [n |-> k, cells |-> [i \in 0 .. k - 1 |-> buffer[CurPos + i]]]
        /\ CurPos' = CurPos + k
  /\ UNCHANGED <<buffer, name_size, isOpen, BufferSize, CurrentSize, hung>>

-----------------------------------------------------------------------------
(* Seeded bug: a write in the middle cuts the file off behind it.          *)
BugStoreCutsOff(b, m, data, k) ==
  /\ buffer' = Copied(b, m, CurPos, data, k)
  /\ BufferSize' = m
  /\ CurrentSize' = CurPos + k
  /\ CurPos' = CurPos + k
  /\ out' = [n |-> k, cells |-> Null]

(* The end of WriteBuf, common to its branches: k of the values go into    *)
(* block b of m cells.                                                     *)
Store(b, m, data, k) ==
  /\ buffer' = Copied(b, m, CurPos, data, k)
  /\ BufferSize' = m
  /\ CurrentSize' = Larger(CurrentSize, CurPos + k)
  /\ CurPos' = CurPos + k
  /\ out' = [n |-> k, cells |-> Null]

WriteFits(n, data) ==
  /\ CurPos + n <= BufferSize
  /\ Error' = FALSE
  /\ Store(buffer, BufferSize, data, n)
  /\ UNCHANGED <<name_size, hung>>

(* Seeded bug: the user's structure keeps the size from before realloc.    *)
BugGrowsForgetsName(n, data) ==
  /\ CurPos + n > BufferSize
  /\ GrowNum # 0 /\ GrowStep > 0
  /\ \E nSize \in CurPos + n .. CurPos + n + GrowStep - 1 :
       /\ (nSize - BufferSize) % GrowStep = 0
       /\ nSize <= HeapLimit
       /\ Error' = FALSE
       /\ Store(realloc(buffer, BufferSize, nSize), nSize, data, n)
  /\ UNCHANGED <<name_size, hung>>

(* The loop adds GrowStep until the write fits; realloc keeps the bytes    *)
(* and the new block and size are stored in the user's structure.          *)
WriteGrows(n, data) ==
  /\ CurPos + n > BufferSize
  /\ GrowNum # 0 /\ GrowStep > 0
  /\ \E nSize \in CurPos + n .. CurPos + n + GrowStep - 1 :
       /\ (nSize - BufferSize) % GrowStep = 0
       /\ nSize <= HeapLimit
       /\ Error' = FALSE
       /\ Store(realloc(buffer, BufferSize, nSize), nSize, data, n)
       /\ name_size' = nSize
  /\ UNCHANGED hung

(* No reallocation, or realloc failed: the write is cut at the block's end *)
WriteShort(n, data) ==
  /\ CurPos + n > BufferSize
  /\ GrowNum = 0 \/ GrowStep > 0
  /\ Error' = TRUE
  /\ Store(buffer, BufferSize, data, BufferSize - CurPos)
  /\ UNCHANGED <<name_size, hung>>

(* reallocate * size truncated to 0: the growing loop never ends.          *)
WriteHangs(n) ==
  /\ CurPos + n > BufferSize
  /\ GrowNum # 0 /\ GrowStep = 0
  /\ hung' = TRUE
  /\ Error' = FALSE
  /\ UNCHANGED <<buffer, name_size, BufferSize, CurrentSize, CurPos, out>>

WriteBuf(n, data) ==
  /\ isOpen /\ ~hung
  /\ \/ WriteFits(n, data)
     \/ WriteGrows(n, data)
     \/ WriteShort(n, data)
     \/ WriteHangs(n)
  /\ UNCHANGED isOpen

-----------------------------------------------------------------------------
(* The three seeks: a target outside the block is refused, one past the    *)
(* end of the file extends it.                                             *)
Refused ==
  /\ Error' = TRUE
  /\ UNCHANGED <<CurPos, CurrentSize>>

SeekTo(offset) ==
  /\ isOpen /\ ~hung
  /\ \/ offset > BufferSize /\ Refused
     \/ /\ offset <= BufferSize
        /\ Error' = FALSE
        /\ CurPos' = offset
        /\ CurrentSize' = Larger(CurrentSize, offset)
  /\ UNCHANGED <<buffer, name_size, isOpen, BufferSize, hung, out>>

(* Seeded bug: the end of the file is not moved by a seek behind it.       *)
BugSeekFromKeepsSize(offset) ==
  /\ isOpen /\ ~hung
  /\ LET target == CurrentSize + offset
     IN \/ (target > BufferSize \/ target < 0) /\ Refused
        \/ /\ target <= BufferSize /\ target >= 0
           /\ Error' = FALSE
           /\ CurPos' = target
           /\ CurrentSize' = CurrentSize
  /\ UNCHANGED <<buffer, name_size, isOpen, BufferSize, hung, out>>

(* From the end of the file.  The unsigned sum CurrentSize + offset wraps  *)
(* for an offset before the start, which the first comparison then refuses *)
SeekFrom(offset) ==
  /\ isOpen /\ ~hung
  /\ LET target == CurrentSize + offset
     IN \/ (target > BufferSize \/ target < 0) /\ Refused
        \/ /\ target <= BufferSize /\ target >= 0
           /\ Error' = FALSE
           /\ CurPos' = target
           /\ CurrentSize' = IF offset > 0 THEN target ELSE CurrentSize
  /\ UNCHANGED <<buffer, name_size, isOpen, BufferSize, hung, out>>

SeekOffset(offset) ==
  /\ isOpen /\ ~hung
  /\ LET target == CurPos + offset
     IN \/ (target > BufferSize \/ target < 0) /\ Refused
        \/ /\ target <= BufferSize /\ target >= 0
           /\ Error' = FALSE
           /\ CurPos' = target
           /\ CurrentSize' = Larger(CurrentSize, target)
  /\ UNCHANGED <<buffer, name_size, isOpen, BufferSize, hung, out>>

(* MaxOp bounds the distance of a seek as it bounds a read or a write.     *)
Next ==
  \/ Open \/ New \/ Close \/ Release
  \/ \E n \in 0 .. MaxOp : ReadBuf(n)
  \/ \E n \in 0 .. MaxOp : \E data \in [0 .. n - 1 -> Byte] : WriteBuf(n, data)
  \/ \E offset \in 0 .. HeapLimit + 1 : SeekTo(offset)
  \/ \E offset \in -MaxOp .. MaxOp : SeekFrom(offset)
  \/ \E offset \in -MaxOp .. MaxOp : SeekOffset(offset)

Spec == Init /\ [][Next]_vars

-----------------------------------------------------------------------------
TypeOK ==
  /\ name_size \in Nat \ {0}
  /\ buffer = Null \/ buffer \in [0 .. name_size - 1 -> Cell]
  /\ isOpen \in BOOLEAN /\ hung \in BOOLEAN /\ Error \in BOOLEAN
  /\ BufferSize \in Nat /\ CurrentSize \in Nat /\ CurPos \in Nat

(* The handle never points outside the file, nor the file outside the      *)
(* block the user's structure describes, whatever sequence of reads,       *)
(* writes, reallocations and seeks came before, and that stays so for the  *)
(* structure once the handle is closed: SeekTo, SeekFrom, SeekOffset and   *)
(* WriteBuf each maintain the three sizes on their own.                    *)
FileInBlock ==
  /\ CurrentSize <= name_size
  /\ isOpen => /\ buffer # Null
               /\ CurPos <= CurrentSize
               /\ BufferSize = name_size

(* The growing loop can hang only on a block of the size the user gave,    *)
(* when the factor makes less than one byte of it: once a block has grown, *)
(* every later growth ends (WriteBuf, the while loop over nSize).          *)
HangsOnlyOnFirstSize == hung => name_size \in InitSizes

-----------------------------------------------------------------------------
(* The memory file seen as a file: the first CurrentSize cells of the      *)
(* block.  A handle whose write never returns is as good as closed.        *)
AFile == INSTANCE ByteFile WITH
           isOpen  <- isOpen /\ ~hung,
           size    <- CurrentSize,
           content <- [i \in 0 .. CurrentSize - 1 |-> buffer[i]],
           pos     <- CurPos,
           err     <- Error

(* Every operation does to the cells, the position, the result and the     *)
(* error what a file does: reallocation keeps the bytes, a refused seek    *)
(* and a failed realloc lose none, and reopening finds what was written.   *)
ImplementsByteFile == AFile!Spec
=============================================================================
