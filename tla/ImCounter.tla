----------------------------- MODULE ImCounter ------------------------------
(***************************************************************************)
(* The progress counters of IM (im_counter.cpp) and their variant for      *)
(* OpenMP builds (im_process_counter.cpp), under the use IM makes of them: *)
(* an open image file holds a counter from imFileOpen to imFileClose and   *)
(* counts in it while its data is read or written; a processing operation  *)
(* holds one while it runs and either counts or calls other operations.    *)
(***************************************************************************)
EXTENDS Integers, Sequences, FiniteSets

CONSTANTS
  MAX_COUNTERS,   \* length of iCounterList
  File,           \* image files the application opens
  Totals,         \* arguments of imCounterTotal
  MaxSequence,    \* bound: no operation begins on a counter nested deeper
  MaxDepth,       \* bound on operations that call operations
  OMP             \* the process also has the processing library, built with OpenMP

ASSUME CounterAssumption == MAX_COUNTERS \in Nat \ {0}
ASSUME TotalAssumption == Totals \subseteq Nat \ {0}
ASSUME BoundAssumption == MaxSequence \in Nat \ {0} /\ MaxDepth \in Nat
ASSUME OMPAssumption == OMP \in BOOLEAN

VARIABLES
  iCounterFunc,   \* a callback is set
  iCounterList,   \* the counters
  opened,         \* files that are open
  counter,        \* ifile->counter of each file
  running,        \* the operations on the call stack, innermost last
  note,           \* what the last step told the callback
  shown,          \* counters the application was told of, and not yet the end
  crashed         \* a lock that is not there was used

vars == <<iCounterFunc, iCounterList, opened, counter, running, note, shown,
          crashed>>

Counter == 0 .. MAX_COUNTERS - 1
None == -1
Silence == [counter |-> None, progress |-> 0]

(* userdata is the lock of an operation, named by the depth of the         *)
(* operation that made it; NULL is 0.                                      *)
Zeroed == [total |-> 0, current |-> 0, sequence |-> 0, userdata |-> 0]

(* An operation: the counter it counts in, whether it began that itself or *)
(* it is a file's, whether it uses the OpenMP variant (imProcessConvert    *)
(* and the other operations of im_process; imConvert and the formats of    *)
(* the core library do not), and its own loop, n steps of total.           *)
Operation == [counter : Counter \cup {None}, own : BOOLEAN, omp : BOOLEAN,
              counting : BOOLEAN, n : Nat, total : Nat]
Depth == Len(running)
top == running[Depth]
LoopIs(n, total) ==
  [running EXCEPT ![Depth].counting = TRUE, ![Depth].n = n, ![Depth].total = total]
Returned == SubSeq(running, 1, Depth - 1)

-----------------------------------------------------------------------------
Init ==
  /\ iCounterFunc = FALSE
  /\ iCounterList = [i \in Counter |-> Zeroed]
  /\ opened = {} /\ counter = [f \in File |-> None]
  /\ running = <<>>
  /\ note = Silence /\ shown = {}
  /\ crashed = FALSE

(* imCounterSetCallback, with and without a callback.                      *)
imCounterSetCallback ==
  /\ running = <<>>
  /\ iCounterFunc' = ~iCounterFunc
  /\ note' = Silence
  /\ UNCHANGED <<iCounterList, opened, counter, running, shown, crashed>>

(* Free, or between two counts of a sequence.                              *)
Available(i) == iCounterList[i].sequence = 0 \/ iCounterList[i].current = 0

(* c is the first such counter, or none.                                   *)
Chosen(c) ==
  IF iCounterFunc /\ \E i \in Counter : Available(i)
  THEN c \in Counter /\ Available(c) /\ \A i \in 0 .. c - 1 : ~Available(i)
  ELSE c = None

(* lock replaces the user data, as imCounterBegin_OMP does.                *)
imCounterBegin(c, lock) ==
  IF c = None
  THEN note' = Silence /\ UNCHANGED <<iCounterList, shown>>
  ELSE /\ iCounterList[c].sequence < MaxSequence
       /\ iCounterList' = [iCounterList EXCEPT ![c].sequence = @ + 1,
                                               ![c].userdata = lock]
       /\ shown' = shown \cup {c}
       /\ note' = IF iCounterList[c].sequence = 0
                  THEN [counter |-> c, progress |-> -1] ELSE Silence

(* Seeded bugs: the innermost end releases a shared counter, and the end   *)
(* of a sequence does not clear it.                                        *)
BugEndReleases(c, lock) ==
  /\ note' = [counter |-> c, progress |-> 1001]
  /\ shown' = shown \ {c}
  /\ iCounterList' = IF c = None THEN iCounterList
                                 ELSE [iCounterList EXCEPT ![c] = Zeroed]
BugEndForgets(c, lock) ==
  IF c = None \/ ~iCounterFunc \/ iCounterList[c].total = 0
  THEN note' = Silence /\ UNCHANGED <<iCounterList, shown>>
  ELSE IF iCounterList[c].sequence = 1
  THEN /\ note' = [counter |-> c, progress |-> 1001]
       /\ shown' = shown \ {c}
       /\ UNCHANGED iCounterList
  ELSE /\ iCounterList' = [iCounterList EXCEPT ![c].sequence = @ - 1]
       /\ note' = Silence /\ UNCHANGED shown

(* A counter no total was set for stays as it is.                          *)
imCounterEnd(c, lock) ==
  IF c = None \/ ~iCounterFunc
  THEN note' = Silence /\ UNCHANGED <<iCounterList, shown>>
  ELSE LET ct == [iCounterList[c] EXCEPT !.userdata = lock]
           silent == ct.sequence = 0 \/ ct.total = 0
           last == ~silent /\ ct.sequence = 1
       IN /\ iCounterList' =
               [iCounterList EXCEPT
                 ![c] = IF last THEN Zeroed
                        ELSE IF silent THEN ct
                        ELSE [ct EXCEPT !.sequence = @ - 1]]
          /\ shown' = IF last THEN shown \ {c} ELSE shown
          /\ note' = IF last THEN [counter |-> c, progress |-> 1001]
                             ELSE Silence

-----------------------------------------------------------------------------
(* What the application calls between operations: imFileOpen, imFileNew.   *)
imFileOpen(f) ==
  /\ running = <<>> /\ f \notin opened
  /\ \E c \in Counter \cup {None} :
        /\ Chosen(c)
        /\ imCounterBegin(c, IF c = None THEN 0 ELSE iCounterList[c].userdata)
        /\ counter' = [counter EXCEPT ![f] = c]
  /\ opened' = opened \cup {f}
  /\ UNCHANGED <<iCounterFunc, running, crashed>>

imFileClose(f) ==
  /\ running = <<>> /\ f \in opened
  /\ LET c == counter[f]
     IN imCounterEnd(c, IF c = None THEN 0 ELSE iCounterList[c].userdata)
  /\ counter' = [counter EXCEPT ![f] = None]
  /\ opened' = opened \ {f}
  /\ UNCHANGED <<iCounterFunc, running, crashed>>

(* ReadImageData or WriteImageData of the file's format starts.            *)
FileData(f) ==
  /\ running = <<>> /\ f \in opened
  /\ running' = <<[counter |-> counter[f], own |-> FALSE, omp |-> FALSE,
                   counting |-> FALSE, n |-> 0, total |-> 0]>>
  /\ note' = Silence
  /\ UNCHANGED <<iCounterFunc, iCounterList, opened, counter, shown, crashed>>

(* A processing operation begins, called by the application or by another  *)
(* operation of its library that does not count itself (imConvertToBitmap, *)
(* imProcessConvertToBitmap).                                              *)
Begin(omp) ==
  /\ Depth < MaxDepth
  /\ omp => OMP
  /\ Depth > 0 => top.own /\ ~top.counting /\ top.omp = omp
  /\ \E c \in Counter \cup {None} :
        /\ Chosen(c)
        /\ imCounterBegin(c, IF omp \/ c = None THEN Depth + 1
                             ELSE iCounterList[c].userdata)
        /\ running' = Append(running,
             [counter |-> c, own |-> TRUE, omp |-> omp, counting |-> FALSE,
              n |-> 0, total |-> 0])
  /\ UNCHANGED <<iCounterFunc, opened, counter, crashed>>

(* The innermost operation has a counter that works.                       *)
Active == top.counter # None /\ iCounterFunc /\ iCounterList[top.counter].sequence > 0

(* Seeded bug: the count an aborted operation left is gone on with.        *)
BugTotalContinues(total) ==
  /\ Depth > 0
  /\ running' = LoopIs(0, total)
  /\ iCounterList' = IF Active
                     THEN [iCounterList EXCEPT ![top.counter].total = total]
                     ELSE iCounterList
  /\ note' = Silence
  /\ UNCHANGED <<iCounterFunc, opened, counter, shown, crashed>>

imCounterTotal(total) ==
  /\ Depth > 0
  /\ running' = LoopIs(0, total)
  /\ iCounterList' = IF Active
                     THEN [iCounterList EXCEPT ![top.counter].total = total,
                                               ![top.counter].current = 0]
                     ELSE iCounterList
  /\ note' = Silence
  /\ UNCHANGED <<iCounterFunc, opened, counter, shown, crashed>>

(* Seeded bug: a finished count is left at its total.                      *)
BugCountStays(count) ==
  LET c == top.counter
      total == iCounterList[c].total
  IN IF Active /\ total # 0
     THEN /\ iCounterList' = [iCounterList EXCEPT ![c].current = count]
          /\ note' = [counter |-> c, progress |-> (count * 1000) \div total]
     ELSE note' = Silence /\ UNCHANGED iCounterList

(* current is set to count and wraps when the total is reached; the code   *)
(* rounds the quotient down from a float.                                  *)
Counted(count) ==
  LET c == top.counter
      total == iCounterList[c].total
  IN IF Active /\ total # 0
     THEN /\ iCounterList' = [iCounterList EXCEPT
                                ![c].current = IF count = total THEN 0 ELSE count]
          /\ note' = [counter |-> c, progress |-> (count * 1000) \div total]
     ELSE note' = Silence /\ UNCHANGED iCounterList

(* The lock an OpenMP operation takes around the increment.                *)
Locks == top.omp /\ top.counter # None /\ iCounterFunc
HasLock == Locks => iCounterList[top.counter].userdata # 0

(* One more step of the operation's loop, and what it returns is up to the *)
(* callback; an aborted operation just returns.                            *)
imCounterInc ==
  /\ Depth > 0 /\ top.counting /\ top.n < top.total
  /\ HasLock
  /\ running' = LoopIs(top.n + 1, top.total)
  /\ Counted(IF top.counter = None THEN 0
             ELSE iCounterList[top.counter].current + 1)
  /\ UNCHANGED <<iCounterFunc, opened, counter, shown, crashed>>

(* The JPEG-2000 format reports how far it is.                             *)
imCounterIncTo(count) ==
  /\ Depth > 0 /\ top.counting /\ ~top.own /\ count \in top.n .. top.total
  /\ running' = LoopIs(count, top.total)
  /\ Counted(count)
  /\ UNCHANGED <<iCounterFunc, opened, counter, shown, crashed>>

(* Seeded bug: the lock is destroyed and stays in the counter.             *)
BugLeavesLock ==
  /\ Depth > 0 /\ HasLock
  /\ IF top.own
     THEN imCounterEnd(top.counter, IF top.counter = None THEN 0
                                    ELSE iCounterList[top.counter].userdata)
     ELSE note' = Silence /\ UNCHANGED <<iCounterList, shown>>
  /\ running' = Returned
  /\ UNCHANGED <<iCounterFunc, opened, counter, crashed>>

(* The operation returns, finished, failed or aborted; imCounterEnd_OMP    *)
(* first destroys its lock.                                                *)
Return ==
  /\ Depth > 0 /\ HasLock
  /\ IF top.own
     THEN imCounterEnd(top.counter, IF Locks \/ top.counter = None THEN 0
                                    ELSE iCounterList[top.counter].userdata)
     ELSE note' = Silence /\ UNCHANGED <<iCounterList, shown>>
  /\ running' = Returned
  /\ UNCHANGED <<iCounterFunc, opened, counter, crashed>>

Crash ==
  /\ Depth > 0 /\ ~HasLock
  /\ crashed' = TRUE /\ running' = <<>>
  /\ note' = Silence
  /\ UNCHANGED <<iCounterFunc, iCounterList, opened, counter, shown>>

Next ==
  /\ ~crashed
  /\ \/ imCounterSetCallback
     \/ \E f \in File : imFileOpen(f) \/ imFileClose(f) \/ FileData(f)
     \/ \E omp \in BOOLEAN : Begin(omp)
     \/ Return \/ Crash
     \/ \E total \in Totals : imCounterTotal(total)
     \/ imCounterInc
     \/ \E total \in Totals : \E count \in 0 .. total : imCounterIncTo(count)

Spec == Init /\ [][Next]_vars

-----------------------------------------------------------------------------
TypeOK ==
  /\ iCounterFunc \in BOOLEAN /\ crashed \in BOOLEAN
  /\ iCounterList \in [Counter -> [total : Totals \cup {0}, current : Nat,
                                   sequence : 0 .. MaxSequence, userdata : Nat]]
  /\ \A i \in Counter : iCounterList[i].current > 0 =>
                          iCounterList[i].current < iCounterList[i].total
  /\ opened \subseteq File /\ counter \in [File -> Counter \cup {None}]
  /\ running \in Seq(Operation) /\ Depth <= MaxDepth + 1
  /\ note \in [counter : Counter \cup {None}, progress : -1 .. 1001]
  /\ shown \subseteq Counter

Holding(i) ==
  Cardinality({f \in opened : counter[f] = i}) +
  Cardinality({d \in 1 .. Depth : running[d].own /\ running[d].counter = i})

(* A counter shared by several files and operations is not released to a   *)
(* new one while any of them still holds it, in whatever order they end,   *)
(* fail or are aborted, and though the callback comes and goes.            *)
HeldIsNotReleased ==
  \A i \in Counter : Holding(i) <= iCounterList[i].sequence

(* What the callback is told is bracketed: the start of a sequence, then   *)
(* its progress, then its end; imCounterBegin and imCounterEnd agree with  *)
(* the application on which counters are in a sequence.                    *)
Bracketed ==
  /\ shown = {i \in Counter : iCounterList[i].sequence > 0}
  /\ note.counter # None /\ note.progress <= 1000 => note.counter \in shown

(* The progress reported is that of the operation that runs, from 0 to     *)
(* 1000: neither an aborted count nor another holder of the same counter   *)
(* shows in it.                                                            *)
ProgressIsOwn ==
  note.counter # None /\ note.progress \in 0 .. 1000 =>
    /\ Depth > 0 /\ top.counter = note.counter
    /\ note.progress = (top.n * 1000) \div top.total

(* An operation may find its lock gone, but never takes, releases or       *)
(* destroys the lock of another operation, though they share a counter and *)
(* its user data.                                                          *)
LockIsOwn ==
  Depth > 0 /\ Locks => iCounterList[top.counter].userdata \in {0, Depth}

=============================================================================
