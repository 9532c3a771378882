------------------------------ MODULE ImProcess ------------------------------
(***************************************************************************)
(* The parallel loops of the processing library of IM in an OpenMP build   *)
(* (src/process/, im_process_counter.h): an operation runs one loop after  *)
(* the other, the iterations of a loop are shared out among the threads,   *)
(* and after each line a thread counts it under the lock of the counter.   *)
(* The callback may abort: the thread it tells so clears the flag          *)
(* processing, which all threads look at before they start an iteration.   *)
(***************************************************************************)
EXTENDS Integers, FiniteSets

CONSTANTS
  Thread,
  Height,   \* lines of an image
  Width,    \* its columns
  Depth     \* its planes

ASSUME SizeAssumption == Height \in Nat \ {0} /\ Width \in Nat \ {0} /\ Depth \in Nat \ {0}
Nobody == "nobody"
ASSUME ThreadAssumption == IsFiniteSet(Thread) /\ Thread # {} /\ Nobody \notin Thread

VARIABLES
  op,          \* the operation that runs, or NoOp
  told,        \* what the callback was told: how often, which count last, whether
               \* it has aborted, how often after it did so in this loop
  current,     \* of the operation's counter
  lock,        \* who holds the lock of that counter
  loop,        \* which of the operation's loops runs
  processing,  \* shared by the threads of the loop
  todo,        \* iterations of the loop no thread has taken
  at,          \* where each thread is, and the iteration or count it holds there
  scratch,     \* whose iteration's values are in memory the threads share
  stored,      \* how many iterations of all loops had their result stored
  spoilt,      \* one of them with another iteration's values
  last         \* how the operation that just ended did, or NoEnd

loopVars == <<loop, processing, todo>>
vars == <<op, told, current, lock, loopVars, at, scratch, stored, spoilt, last>>

NoOp == [kind |-> "none"]
NoEnd == [kind |-> "none"]
Nothing == -1
At(pc, n) == [pc |-> pc, n |-> n]
Idle == At("next", Nothing)
Silence == [calls |-> 0, current |-> 0, aborted |-> FALSE, late |-> Nothing]

-----------------------------------------------------------------------------
(* Operations by how their loops are written.  rank: each thread has its   *)
(* part of the buffer (im_convolve_rank.cpp; the morphology and geometric  *)
(* operations need none).  resize: the loop over planes does not look at   *)
(* the answer.  convolve: the pointer to the line of the kernel, or the    *)
(* kernel itself when it is rotated, is one variable for all threads.      *)
(* separable: so is the auxiliary line, and each plane takes two loops.    *)
(* point: one loop over the pixels.                                        *)
Kind == {"rank", "resize", "convolve", "separable", "point"}
Shares(kind) == kind \in {"convolve", "separable"}
StopsAtOnce(kind) == kind # "resize"
Loops(kind) ==
  CASE kind = "point" -> 1 [] kind = "separable" -> 2 * Depth [] OTHER -> Depth
Size(kind) == IF kind = "point" THEN Width * Height ELSE Height

(* The place of a pixel as DoUnaryPointColorOp works it out for the user's *)
(* function: its line is the remainder, so few pixels are at a line's end. *)
Place(i) == LET y == i % Width IN [x |-> i - y * Width, y |-> y]
Counts(kind, i) == kind = "point" => Place(i).x = Width - 1

Total(kind) == IF kind = "point" THEN Height ELSE Loops(kind) * Height

(* parallel: the image is larger than im_process_mincount; counting: a     *)
(* callback is set; sticky: once it has aborted it answers so every time.  *)
Operation ==
  [kind : Kind, parallel : BOOLEAN, counting : BOOLEAN, sticky : BOOLEAN]

Team == IF op.parallel THEN Thread ELSE {CHOOSE t \in Thread : TRUE}

-----------------------------------------------------------------------------
Init ==
  /\ op = NoOp /\ told = Silence /\ current = 0 /\ lock = Nobody
  /\ loop = 0 /\ processing = TRUE /\ todo = {}
  /\ at = [t \in Thread |-> Idle] /\ scratch = Nothing
  /\ stored = 0 /\ spoilt = FALSE
  /\ last = NoEnd

(* imProcessCounterBegin, imCounterTotal and the first loop.               *)
Begin(o) ==
  /\ op = NoOp
  /\ op' = o
  /\ told' = Silence /\ current' = 0
  /\ loop' = 1 /\ processing' = TRUE /\ todo' = 0 .. Size(o.kind) - 1
  /\ last' = NoEnd
  /\ UNCHANGED <<lock, at, scratch, stored, spoilt>>

(* Seeded bugs: the flag is not looked at, and what the threads would pass *)
(* over once it is cleared stays to be done.                               *)
BugNext(t, i) ==
  /\ at[t].pc = "next" /\ i \in todo /\ t \in Team
  /\ todo' = todo \ {i}
  /\ at' = [at EXCEPT ![t] = At("compute", i)]
  /\ UNCHANGED <<op, told, current, lock, loop, processing, scratch, stored, spoilt, last>>

BugKeepsRest(t, i) ==
  /\ at[t].pc = "next" /\ i \in todo /\ t \in Team
  /\ op.parallel \/ \A j \in todo : i <= j
  /\ todo' = IF processing THEN todo \ {i} ELSE todo
  /\ at' = IF processing THEN [at EXCEPT ![t] = At("compute", i)] ELSE at
  /\ UNCHANGED <<op, told, current, lock, loop, processing, scratch, stored, spoilt, last>>

(* IM_BEGIN_PROCESSING.  Which thread gets an iteration is up to OpenMP;   *)
(* once the flag is cleared the rest is only passed over.                  *)
TakeNext(t, i) ==
  /\ at[t].pc = "next" /\ i \in todo /\ t \in Team
  /\ op.parallel \/ \A j \in todo : i <= j
  /\ todo' = todo \ {i}
  /\ at' = IF processing THEN [at EXCEPT ![t] = At("compute", i)] ELSE at
  /\ UNCHANGED <<op, told, current, lock, loop, processing, scratch, stored, spoilt, last>>

(* The thread works on its iteration, with or without memory all share ... *)
Compute(t) ==
  /\ at[t].pc = "compute"
  /\ scratch' = IF Shares(op.kind) THEN at[t].n ELSE scratch
  /\ at' = [at EXCEPT ![t].pc = "store"]
  /\ UNCHANGED <<op, told, current, lock, loopVars, stored, spoilt, last>>

(* ... and puts down the result.  What it does not count ends here, and    *)
(* without a counter imCounterInc_OMP answers 1 at once.                   *)
Store(t) ==
  /\ at[t].pc = "store"
  /\ stored' = stored + 1
  /\ spoilt' = (spoilt \/ (Shares(op.kind) /\ scratch # at[t].n))
  /\ at' = [at EXCEPT ![t] = IF op.counting /\ Counts(op.kind, at[t].n)
                             THEN At("lock", Nothing) ELSE Idle]
  /\ UNCHANGED <<op, told, current, lock, loopVars, scratch, last>>

-----------------------------------------------------------------------------
(* Seeded bug: the lock is taken as if it were free.                       *)
BugLock(t) ==
  /\ at[t].pc = "lock"
  /\ lock' = t
  /\ at' = [at EXCEPT ![t].pc = "read"]
  /\ UNCHANGED <<op, told, current, loopVars, scratch, stored, spoilt, last>>

(* imCounterInc_OMP: omp_set_lock ...                                      *)
Lock(t) ==
  /\ at[t].pc = "lock" /\ lock = Nobody
  /\ lock' = t
  /\ at' = [at EXCEPT ![t].pc = "read"]
  /\ UNCHANGED <<op, told, current, loopVars, scratch, stored, spoilt, last>>

(* ... imCounterInc, which reads current, and wraps at the total ...       *)
Read(t) ==
  /\ at[t].pc = "read"
  /\ at' = [at EXCEPT ![t] = At("count", current)]
  /\ UNCHANGED <<op, told, current, lock, loopVars, scratch, stored, spoilt, last>>

Count(t) ==
  LET new == at[t].n + 1
  IN /\ at[t].pc = "count"
     /\ current' = IF new = Total(op.kind) THEN 0 ELSE new
     /\ \E answer \in BOOLEAN :
          /\ op.sticky /\ told.aborted => ~answer
          /\ told' = [calls |-> told.calls + 1, current |-> new,
                      aborted |-> told.aborted \/ ~answer,
                      late |-> IF told.late = Nothing /\ answer THEN Nothing
                               ELSE told.late + 1]
          /\ at' = [at EXCEPT ![t] = At(IF answer THEN "unlock" ELSE "stop", Nothing)]
     /\ UNCHANGED <<op, lock, loopVars, scratch, stored, spoilt, last>>

(* ... omp_unset_lock.                                                     *)
Unlock(t) ==
  /\ at[t].pc \in {"unlock", "stop"}
  /\ lock' = Nobody
  /\ at' = [at EXCEPT ![t] = IF @.pc = "unlock" THEN Idle ELSE At("clear", Nothing)]
  /\ UNCHANGED <<op, told, current, loopVars, scratch, stored, spoilt, last>>

(* IM_COUNT_PROCESSING: only now the others can see that it is over.       *)
Clear(t) ==
  /\ at[t].pc = "clear"
  /\ processing' = FALSE
  /\ at' = [at EXCEPT ![t] = Idle]
  /\ UNCHANGED <<op, told, current, lock, loop, todo, scratch, stored, spoilt, last>>

-----------------------------------------------------------------------------
(* Seeded bugs: nobody waits for the others, and no operation stops        *)
(* between planes.                                                         *)
BugNoWait == op # NoOp /\ todo = {}
BugGoesOn == loop = Loops(op.kind)

(* The barrier at the end of a loop.                                       *)
LoopEnds == op # NoOp /\ todo = {} /\ \A t \in Thread : at[t] = Idle
Finished == loop = Loops(op.kind) \/ (StopsAtOnce(op.kind) /\ ~processing)

NextLoop ==
  /\ LoopEnds /\ ~Finished
  /\ loop' = loop + 1 /\ processing' = TRUE /\ todo' = 0 .. Size(op.kind) - 1
  /\ told' = [told EXCEPT !.late = Nothing] /\ scratch' = Nothing
  /\ UNCHANGED <<op, current, lock, at, stored, spoilt, last>>

(* imProcessCounterEnd; the answer is the last loop's.                     *)
Return ==
  /\ LoopEnds /\ Finished
  /\ last' = [op |-> op, ret |-> processing, told |-> told, spoilt |-> spoilt,
              whole |-> stored = Loops(op.kind) * Size(op.kind)]
  /\ op' = NoOp /\ loop' = 0 /\ told' = Silence
  /\ current' = 0 /\ scratch' = Nothing /\ stored' = 0 /\ spoilt' = FALSE
  /\ UNCHANGED <<lock, processing, todo, at>>

Step(t) ==
  \/ \E i \in todo : TakeNext(t, i)
  \/ Compute(t) \/ Store(t)
  \/ Lock(t) \/ Read(t) \/ Count(t) \/ Unlock(t) \/ Clear(t)

Runs == NextLoop \/ Return \/ \E t \in Thread : Step(t)

Next == Runs \/ \E o \in Operation : Begin(o)

(* OpenMP runs every thread of the team; the callback returns.             *)
Spec ==
  /\ Init /\ [][Next]_vars
  /\ WF_vars(NextLoop \/ Return) /\ \A t \in Thread : WF_vars(Step(t))

-----------------------------------------------------------------------------
TypeOK ==
  /\ op \in Operation \cup {NoOp}
  /\ told \in [calls : Nat, current : Nat, aborted : BOOLEAN, late : Nat \cup {Nothing}]
  /\ current \in 0 .. Height * 2 * Depth /\ lock \in Thread \cup {Nobody}
  /\ {processing, spoilt} \subseteq BOOLEAN
  /\ op = NoOp => loop = 0 /\ todo = {} /\ \A t \in Thread : at[t] = Idle
  /\ op # NoOp => loop \in 1 .. Loops(op.kind) /\ todo \subseteq 0 .. Size(op.kind) - 1
  /\ at \in [Thread -> [pc : {"next", "compute", "store", "lock", "read", "count",
                              "unlock", "stop", "clear"},
                        n : Nat \cup {Nothing}]]
  /\ scratch \in Nat \cup {Nothing} /\ stored \in Nat

(* Threads do not lose or double a count: the callback is told 1, 2, 3 ... *)
(* one more each time, whichever thread counts, and the last it hears of   *)
(* an operation nobody aborts is the total, except for point operations,   *)
(* which miscalculate where a line ends.                                   *)
ProgressInOrder ==
  /\ told.calls = told.current
  /\ last # NoEnd /\ last.op.counting /\ ~last.told.aborted /\ last.op.kind # "point" =>
       last.told.current = Total(last.op.kind)

(* What an operation answers.  Nobody aborted: it answers 1 and has done   *)
(* every iteration of every loop, with its own values but for the          *)
(* convolutions, whose threads share memory.  It answers 0 exactly when    *)
(* its last loop was aborted, in whichever thread; and so whenever it was  *)
(* aborted at all, as im_process_loc.h promises.  There is one exception,  *)
(* a mistake of the code against im_process_loc.h:31 and :44: Reduce and   *)
(* Resize go on with the next plane, and if the callback is content again  *)
(* they answer 1 over an image with a plane that is not whole.             *)
AnswerIsTrue ==
  last # NoEnd =>
    /\ last.spoilt => Shares(last.op.kind) /\ last.op.parallel
    /\ ~last.told.aborted => last.ret /\ last.whole
    /\ last.ret = (last.told.late = Nothing)
    /\ StopsAtOnce(last.op.kind) \/ last.op.sticky => (last.told.aborted => ~last.ret)

(* Told to stop, and told so every time, the loop bothers the callback at  *)
(* most once more for each other thread, though the flag is cleared after  *)
(* the lock was given back.                                                *)
FewAfterAbort ==
  op # NoOp /\ op.sticky => told.late < Cardinality(Team)

(* Whatever the callback answers, the operation comes to its end.          *)
OperationEnds == op # NoOp ~> op = NoOp

=============================================================================
