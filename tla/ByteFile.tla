------------------------------ MODULE ByteFile ------------------------------
(***************************************************************************)
(* What the binary file interface of IM promises its caller, whatever the  *)
(* I/O module behind it (im_binfile.h, class imBinFileBase): a file is a   *)
(* row of byte cells and a position.  A read returns the cells after the   *)
(* position, a write overwrites or appends there, a seek moves the         *)
(* position and may extend the file by a hole, and an operation that does  *)
(* less than it was asked to says so.                                      *)
(***************************************************************************)
EXTENDS Integers

CONSTANTS Byte,    \* values of a byte
          Junk,    \* the content of a cell no one ever wrote
          MaxOp    \* most bytes one read or write asks for

VARIABLES isOpen,   \* a handle exists
          size,     \* bytes in the file
          content,  \* the cells 0 .. size-1
          pos,      \* offset of the next read or write
          err,      \* what imBinFileError answers
          out       \* what the last read or write returned

vars == <<isOpen, size, content, pos, err, out>>

Cell == Byte \cup {Junk}
NoCells == [i \in 0 .. -1 |-> Junk]
NoOut == [n |-> 0, cells |-> NoCells]

Larger(m, n) == IF m > n THEN m ELSE n

(* The cells of a file c of n bytes after data is put at offset p.         *)
Overwrite(c, n, p, data, k) ==
  [i \in 0 .. Larger(n, p + k) - 1 |->
     IF p <= i /\ i < p + k THEN data[i - p] ELSE c[i]]

(* k cells of c from offset p.                                             *)
Slice(c, p, k) == [i \in 0 .. k - 1 |-> c[p + i]]

(* c2 is c with n cells extended to m cells.                               *)
Extends(c2, m, c, n) ==
  /\ m \in Nat /\ m >= n
  /\ c2 \in [0 .. m - 1 -> Cell]
  /\ \A i \in 0 .. n - 1 : c2[i] = c[i]

Init ==
  /\ isOpen = FALSE
  /\ size = 0 /\ content = NoCells
  /\ pos = 0 /\ err = FALSE /\ out = NoOut

(* A new file starts empty.                                                *)
New ==
  /\ ~isOpen /\ isOpen' = TRUE
  /\ size' = 0 /\ content' = NoCells
  /\ pos' = 0 /\ err' = FALSE /\ out' = NoOut

(* An existing file still starts with what was last in it.                 *)
Open ==
  /\ ~isOpen /\ isOpen' = TRUE
  /\ Extends(content', size', content, size)
  /\ pos' = 0 /\ err' = FALSE /\ out' = NoOut

(* The handle is gone, and with it the answer of imBinFileError; the bytes *)
(* stay.  A call that never returns leaves the caller no better off.       *)
Close ==
  /\ isOpen /\ isOpen' = FALSE
  /\ err' \in BOOLEAN
  /\ UNCHANGED <<size, content, pos, out>>

(* The user frees the storage of a closed file.                            *)
Release ==
  /\ ~isOpen
  /\ size' = 0 /\ content' = NoCells
  /\ UNCHANGED <<isOpen, pos, err, out>>

(* A read of n bytes returns as many as the file has left, and is an       *)
(* error exactly when that is fewer than n.                                *)
Read(n) ==
  /\ isOpen
  /\ \E k \in 0 .. n :
       /\ k = n \/ k = size - pos
       /\ pos + k <= size
       /\ out' = [n |-> k, cells |-> Slice(content, pos, k)]
       /\ pos' = pos + k
       /\ err' = (k < n)
  /\ UNCHANGED <<isOpen, size, content>>

(* A write of data may stop short, and then is an error.                   *)
Write(n, data) ==
  /\ isOpen
  /\ \E k \in 0 .. n :
       /\ content' = Overwrite(content, size, pos, data, k)
       /\ size' = Larger(size, pos + k)
       /\ pos' = pos + k
       /\ err' = (k < n)
       /\ out' = [n |-> k, cells |-> NoCells]
  /\ UNCHANGED isOpen

(* A seek moves the position, past the end by leaving a hole, or is        *)
(* refused and moves nothing.                                              *)
Seek ==
  /\ isOpen
  /\ \/ /\ pos' \in Nat
        /\ size' = Larger(size, pos')
        /\ Extends(content', size', content, size)
        /\ err' = FALSE
     \/ /\ err' = TRUE
        /\ UNCHANGED <<pos, size, content>>
  /\ UNCHANGED <<isOpen, out>>

Next ==
  \/ New \/ Open \/ Close \/ Release \/ Seek
  \/ \E n \in 0 .. MaxOp : Read(n)
  \/ \E n \in 0 .. MaxOp : \E data \in [0 .. n - 1 -> Byte] : Write(n, data)

Spec == Init /\ [][Next]_vars
=============================================================================
