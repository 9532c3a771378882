--------------------------- MODULE ImProcessProofs ---------------------------
(***************************************************************************)
(* Proofs about ImProcess for any number of threads and any size of image: *)
(* what the callback is told, what the answer says, and how often a        *)
(* callback that has aborted is still called.                              *)
(***************************************************************************)
EXTENDS ImProcess, FiniteSetTheorems, TLAPS

Places == {"next", "compute", "store", "lock", "read", "count", "unlock", "stop", "clear"}
Critical == {"read", "count", "unlock", "stop"}
Working == {"compute", "store"}

(* The type of the state, and what is left of an operation once it is over.*)
Types ==
  /\ op \in Operation \cup {NoOp}
  /\ told \in [calls : Nat, current : Nat, aborted : BOOLEAN, late : Nat \cup {Nothing}]
  /\ current \in Nat /\ lock \in Thread \cup {Nobody}
  /\ processing \in BOOLEAN /\ spoilt \in BOOLEAN
  /\ at \in [Thread -> [pc : Places, n : Nat \cup {Nothing}]]
  /\ scratch \in Nat \cup {Nothing} /\ stored \in Nat
  /\ op = NoOp => /\ loop = 0 /\ todo = {} /\ \A t \in Thread : at[t] = Idle
                  /\ told = Silence /\ current = 0 /\ stored = 0 /\ ~spoilt
  /\ op # NoOp => loop \in 1 .. Loops(op.kind) /\ todo \subseteq 0 .. Size(op.kind) - 1

(* Who is between the two calls of the lock holds it, and counts on from   *)
(* what it read.                                                           *)
LockInv ==
  /\ \A t \in Thread : at[t].pc \in Critical <=> lock = t
  /\ \A t \in Thread : at[t].pc = "count" => at[t].n = current

(* Only the team works; a thread alone has the shared memory to itself.    *)
TeamInv ==
  op # NoOp =>
    /\ \A t \in Thread \ Team : at[t] = Idle
    /\ spoilt => Shares(op.kind) /\ op.parallel
    /\ Shares(op.kind) /\ ~op.parallel =>
         \A t \in Thread : at[t].pc = "store" => scratch = at[t].n

(* The calls that were made and those still to come: the threads on their  *)
(* way to one, and the lines no thread has taken.                          *)
Lines(k) == {i \in 0 .. Size(k) - 1 : Counts(k, i)}
Owed == {t \in Thread : \/ at[t].pc \in {"lock", "read", "count"}
                        \/ at[t].pc \in Working /\ Counts(op.kind, at[t].n)}
Left == {i \in todo : Counts(op.kind, i)}
Known == told.calls + Cardinality(Owed) + Cardinality(Left)

CountInv ==
  op # NoOp =>
    /\ told.calls = told.current
    /\ current = IF told.calls = Total(op.kind) THEN 0 ELSE told.calls
    /\ ~op.counting => /\ told.calls = 0 /\ ~told.aborted
                       /\ \A t \in Thread : at[t].pc \in {"next", "compute", "store"}
    /\ op.counting => /\ Known <= loop * Cardinality(Lines(op.kind))
                      /\ ~told.aborted => Known = loop * Cardinality(Lines(op.kind))

(* So with the results.                                                    *)
Busy == {t \in Thread : at[t].pc \in Working}
Taken == stored + Cardinality(Busy) + Cardinality(todo)

StoreInv ==
  op # NoOp => /\ Taken <= loop * Size(op.kind)
               /\ ~told.aborted => Taken = loop * Size(op.kind)

(* In this loop the callback has aborted exactly when the flag is cleared  *)
(* or a thread is about to; if it aborted an earlier loop only, the        *)
(* operation is one that goes on, and a callback that stays with its       *)
(* answer will be asked again.                                             *)
Stopping == {t \in Thread : at[t].pc \in {"stop", "clear"}}
Pending == todo # {} \/ \E t \in Thread : at[t].pc \in Working \cup {"lock", "read", "count"}

AbortInv ==
  op # NoOp =>
    /\ (~processing \/ Stopping # {}) <=> told.late # Nothing
    /\ told.late # Nothing => told.aborted
    /\ told.aborted /\ told.late = Nothing =>
         op.kind = "resize" /\ (op.sticky => Pending)

(* Each thread that hears the callback abort stops: it is on its way to    *)
(* clear the flag, or passes over what is left.                            *)
Told == {t \in Team : at[t].pc \in {"stop", "clear"} \/ (~processing /\ at[t].pc = "next")}
LateInv == op # NoOp /\ op.sticky => told.late < Cardinality(Told)

(* How the operation that ended did.                                       *)
LastInv ==
  last # NoEnd =>
    /\ last.op.counting /\ ~last.told.aborted /\ last.op.kind # "point" =>
         last.told.current = Total(last.op.kind)
    /\ last.spoilt => Shares(last.op.kind) /\ last.op.parallel
    /\ ~last.told.aborted => last.ret /\ last.whole
    /\ last.ret = (last.told.late = Nothing)
    /\ StopsAtOnce(last.op.kind) \/ last.op.sticky => (last.told.aborted => ~last.ret)

-----------------------------------------------------------------------------
(* Sizes.                                                                  *)
LEMMA SizesAreNat ==
  ASSUME NEW k \in Kind
  PROVE  Loops(k) \in Nat \ {0} /\ Size(k) \in Nat \ {0} /\ Total(k) \in Nat \ {0}
<1>1. 2 * Depth \in Nat \ {0} /\ Width * Height \in Nat \ {0}
  BY SizeAssumption
<1>2. Loops(k) \in Nat \ {0} /\ Size(k) \in Nat \ {0}
  BY <1>1, SizeAssumption DEF Loops, Size
<1>3. PICK l \in Nat \ {0} : l = Loops(k)
  BY <1>2
<1>4. l * Height \in Nat \ {0}
  BY SizeAssumption
<1> QED BY <1>2, <1>3, <1>4, SizeAssumption DEF Total

LEMMA NoMultipleBetween ==
  ASSUME NEW w \in Nat \ {0}, NEW e \in Int, NEW r \in 0 .. w - 1, w * e = r
  PROVE  r = 0
<1>1. CASE e <= 0
  <2>1. w * e <= 0
    BY <1>1
  <2> QED BY <2>1
<1>2. CASE e >= 1
  <2>1. w * e >= w
    BY <1>2
  <2> QED BY <2>1
<1> QED BY <1>1, <1>2

(* What is counted is at most the total; a point operation counts once,    *)
(* or never.                                                               *)
LEMMA LinesAreFew ==
  ASSUME NEW k \in Kind
  PROVE  /\ IsFiniteSet(Lines(k)) /\ Cardinality(Lines(k)) \in Nat
         /\ Loops(k) * Cardinality(Lines(k)) <= Total(k)
         /\ k # "point" => Loops(k) * Cardinality(Lines(k)) = Total(k)
<1>1. CASE k # "point"
  <2>1. Lines(k) = 0 .. Height - 1
    BY <1>1, SizeAssumption DEF Lines, Counts, Size
  <2>2. 0 \in Int /\ Height - 1 \in Int
    BY SizeAssumption
  <2>3. IsFiniteSet(Lines(k)) /\ Cardinality(Lines(k)) = Height
    BY <2>1, <2>2, FS_Interval, SizeAssumption
  <2>4. PICK l \in Nat : l = Loops(k)
    BY SizesAreNat
  <2>5. Loops(k) * Cardinality(Lines(k)) = Total(k)
    BY <1>1, <2>3 DEF Total
  <2>6. Total(k) \in Nat
    BY SizesAreNat
  <2> QED BY <2>3, <2>5, <2>6, SizeAssumption
<1>2. CASE k = "point"
  <2>1. Lines(k) \subseteq {Width * Width - 1}
    <3> SUFFICES ASSUME NEW i \in Lines(k) PROVE i = Width * Width - 1
      OBVIOUS
    <3> DEFINE y == i % Width
    <3>1. i \in Nat /\ i - y * Width = Width - 1
      BY <1>2, SizesAreNat DEF Lines, Counts, Place
    <3>2. Width \in Nat \ {0} /\ y \in 0 .. Width - 1
      BY <3>1, SizeAssumption
    <3>3. i = y * Width + (Width - 1)
      <4> DEFINE p == y * Width
      <4>1. p \in Int
        BY <3>2
      <4> HIDE DEF p
      <4> QED BY <3>1, <3>2, <4>1 DEF p
    <3>4. PICK d \in Nat : i = Width * d + y
      <4>1. i = Width * (i \div Width) + y /\ i \div Width \in Nat
        BY <3>1, <3>2
      <4> QED BY <4>1
    <3>5. y = Width - 1
      <4>1. d - y \in Int /\ Width - 1 - y \in 0 .. Width - 1
        BY <3>2
      <4>2. Width * (d - y) = Width - 1 - y
        BY <3>2, <3>3, <3>4
      <4> QED BY <3>2, <4>1, <4>2, NoMultipleBetween
    <3>6. (Width - 1) * Width + (Width - 1) = Width * Width - 1
      BY <3>2
    <3> QED BY <3>3, <3>5, <3>6
  <2>2. IsFiniteSet({Width * Width - 1}) /\ Cardinality({Width * Width - 1}) = 1
    BY FS_Singleton
  <2>3. IsFiniteSet(Lines(k)) /\ Cardinality(Lines(k)) <= 1 /\ Cardinality(Lines(k)) \in Nat
    BY <2>1, <2>2, FS_Subset, FS_CardinalityType
  <2>4. Loops(k) = 1 /\ Total(k) = Height
    BY <1>2 DEF Loops, Total
  <2> QED BY <1>2, <2>3, <2>4, SizeAssumption
<1> QED BY <1>1, <1>2

-----------------------------------------------------------------------------
(* How a step moves its thread, and that it leaves the others alone.       *)
Stays(t) == \A u \in Thread \ {t} : at'[u] = at[u]
Goes(t, pc, n) == Stays(t) /\ at'[t].pc = pc /\ at'[t].n = n

LEMMA StepOfOperation ==
  ASSUME Types, NEW t \in Thread, Step(t)
  PROVE  op # NoOp /\ op \in Operation /\ op.kind \in Kind /\ op' = op /\ last' = last /\ loop' = loop
<1>1. op # NoOp
  <2> SUFFICES ASSUME op = NoOp PROVE FALSE
    OBVIOUS
  <2>1. todo = {} /\ at[t].pc = "next"
    BY DEF Types, Idle, At
  <2> QED BY <2>1 DEF Step, Compute, Store, Lock, Read, Count, Unlock, Clear
<1>2. op' = op /\ last' = last /\ loop' = loop
  BY DEF Step, TakeNext, Compute, Store, Lock, Read, Count, Unlock, Clear, loopVars
<1> QED BY <1>1, <1>2 DEF Types, Operation

LEMMA TakeMoves ==
  ASSUME Types, NEW t \in Thread, NEW i \in todo, TakeNext(t, i)
  PROVE  /\ processing => Goes(t, "compute", i)
         /\ ~processing => at' = at
BY DEF Types, TakeNext, Goes, Stays, At

LEMMA ComputeMoves ==
  ASSUME Types, NEW t \in Thread, Compute(t)
  PROVE  Goes(t, "store", at[t].n)
BY DEF Types, Compute, Goes, Stays

LEMMA StoreMoves ==
  ASSUME Types, NEW t \in Thread, Store(t)
  PROVE  /\ op.counting /\ Counts(op.kind, at[t].n) => Goes(t, "lock", Nothing)
         /\ ~(op.counting /\ Counts(op.kind, at[t].n)) => Goes(t, "next", Nothing)
<1> DEFINE lines == op.counting /\ Counts(op.kind, at[t].n)
<1>1. at' = [at EXCEPT ![t] = IF lines THEN At("lock", Nothing) ELSE Idle]
  BY DEF Store
<1> HIDE DEF lines
<1>2. /\ lines => Goes(t, "lock", Nothing)
      /\ ~lines => Goes(t, "next", Nothing)
  BY <1>1 DEF Types, Goes, Stays, At, Idle
<1> QED BY <1>2 DEF lines

LEMMA LockMoves ==
  ASSUME Types, NEW t \in Thread, Lock(t)
  PROVE  Goes(t, "read", at[t].n)
BY DEF Types, Lock, Goes, Stays

LEMMA ReadMoves ==
  ASSUME Types, NEW t \in Thread, Read(t)
  PROVE  Goes(t, "count", current)
BY DEF Types, Read, Goes, Stays, At

LEMMA UnlockMoves ==
  ASSUME Types, NEW t \in Thread, Unlock(t)
  PROVE  /\ at[t].pc = "unlock" => Goes(t, "next", Nothing)
         /\ at[t].pc = "stop" => Goes(t, "clear", Nothing)
BY DEF Types, Unlock, Goes, Stays, At, Idle

LEMMA ClearMoves ==
  ASSUME Types, NEW t \in Thread, Clear(t)
  PROVE  Goes(t, "next", Nothing)
BY DEF Types, Clear, Goes, Stays, At, Idle

(* What a call of the callback does.                                       *)
Answered(t, answer) ==
  /\ op.sticky /\ told.aborted => ~answer
  /\ told' = [calls |-> told.calls + 1, current |-> at[t].n + 1,
              aborted |-> told.aborted \/ ~answer,
              late |-> IF told.late = Nothing /\ answer THEN Nothing ELSE told.late + 1]
  /\ Goes(t, IF answer THEN "unlock" ELSE "stop", Nothing)

LEMMA CountMoves ==
  ASSUME Types, NEW t \in Thread, Count(t)
  PROVE  \E answer \in BOOLEAN : Answered(t, answer)
<1>1. PICK answer \in BOOLEAN :
        /\ op.sticky /\ told.aborted => ~answer
        /\ told' = [calls |-> told.calls + 1, current |-> at[t].n + 1,
                    aborted |-> told.aborted \/ ~answer,
                    late |-> IF told.late = Nothing /\ answer THEN Nothing
                             ELSE told.late + 1]
        /\ at' = [at EXCEPT ![t] = At(IF answer THEN "unlock" ELSE "stop", Nothing)]
  BY DEF Count
<1>2. Goes(t, IF answer THEN "unlock" ELSE "stop", Nothing)
  BY <1>1 DEF Types, Goes, Stays, At
<1> QED BY <1>1, <1>2 DEF Answered

-----------------------------------------------------------------------------
LEMMA SilenceType ==
  Silence \in [calls : Nat, current : Nat, aborted : BOOLEAN, late : Nat \cup {Nothing}]
BY DEF Silence

LEMMA TypesInit == Init => Types
<1> SUFFICES ASSUME Init PROVE Types
  OBVIOUS
<1>1. at \in [Thread -> [pc : Places, n : Nat \cup {Nothing}]]
  BY DEF Init, Places, Idle, At
<1>2. \A t \in Thread : at[t] = Idle
  BY DEF Init
<1> QED BY <1>1, <1>2, SilenceType DEF Init, Types

LEMMA TypesThread ==
  ASSUME Types, NEW t \in Thread, Step(t)
  PROVE  at' \in [Thread -> [pc : Places, n : Nat \cup {Nothing}]]
<1>1. op # NoOp /\ op.kind \in Kind
  BY StepOfOperation
<1>2. \A i \in todo : i \in Nat
  BY <1>1, SizesAreNat DEF Types
<1>3. CASE \E i \in todo : TakeNext(t, i)
  BY <1>2, <1>3 DEF Types, TakeNext, Places, At
<1>4. CASE Compute(t)
  BY <1>4 DEF Types, Compute, Places
<1>5. CASE Store(t)
  <2>1. at' = [at EXCEPT ![t] = At("lock", Nothing)] \/ at' = [at EXCEPT ![t] = At("next", Nothing)]
    BY <1>5 DEF Store, Idle
  <2> QED BY <2>1 DEF Types, Places, At
<1>6. CASE Lock(t)
  BY <1>6 DEF Types, Lock, Places
<1>7. CASE Read(t)
  BY <1>7 DEF Types, Read, Places, At
<1>8. CASE Count(t)
  <2>1. at' = [at EXCEPT ![t] = At("unlock", Nothing)] \/ at' = [at EXCEPT ![t] = At("stop", Nothing)]
    BY <1>8 DEF Count
  <2> QED BY <2>1 DEF Types, Places, At
<1>9. CASE Unlock(t)
  BY <1>9 DEF Types, Unlock, Places, At, Idle
<1>10. CASE Clear(t)
  BY <1>10 DEF Types, Clear, Places, At, Idle
<1> QED BY <1>3, <1>4, <1>5, <1>6, <1>7, <1>8, <1>9, <1>10 DEF Step

LEMMA TypesStep == Types /\ [Next]_vars => Types'
<1> SUFFICES ASSUME Types, [Next]_vars PROVE Types'
  OBVIOUS
<1>1. ASSUME NEW t \in Thread, Step(t) PROVE Types'
  <2>1. op # NoOp /\ op.kind \in Kind /\ op' = op /\ loop' = loop
    BY <1>1, StepOfOperation
  <2>2. at' \in [Thread -> [pc : Places, n : Nat \cup {Nothing}]]
    BY <1>1, TypesThread
  <2>3. told' \in [calls : Nat, current : Nat, aborted : BOOLEAN, late : Nat \cup {Nothing}]
    <3>1. CASE Count(t)
      <4>1. at[t].n \in Nat \cup {Nothing} /\ at[t].n + 1 \in Nat
        BY DEF Types, Nothing
      <4>2. PICK answer \in BOOLEAN : Answered(t, answer)
        BY <3>1, CountMoves
      <4>3. told.late + 1 \in Nat
        BY DEF Types, Nothing
      <4> QED BY <4>1, <4>2, <4>3 DEF Answered, Types
    <3>2. CASE ~Count(t)
      BY <1>1, <3>2 DEF Types, Step, TakeNext, Compute, Store, Lock, Read, Unlock, Clear
    <3> QED BY <3>1, <3>2
  <2>4. current' \in Nat
    <3>1. at[t].n + 1 \in Nat
      BY DEF Types, Nothing
    <3> QED BY <1>1, <3>1 DEF Types, Step, TakeNext, Compute, Store, Lock, Read, Count, Unlock, Clear
  <2>5. lock' \in Thread \cup {Nobody} /\ processing' \in BOOLEAN /\ stored' \in Nat
    <3>1. lock' \in {lock, t, Nobody} /\ processing' \in {processing, FALSE}
      BY <1>1 DEF Step, TakeNext, Compute, Store, Lock, Read, Count, Unlock, Clear, loopVars
    <3>2. stored' \in {stored, stored + 1}
      BY <1>1 DEF Step, TakeNext, Compute, Store, Lock, Read, Count, Unlock, Clear
    <3>3. stored' \in Nat
      BY <3>2 DEF Types
    <3>4. lock' \in Thread \cup {Nobody}
      BY <3>1 DEF Types
    <3>5. processing' \in BOOLEAN
      BY <3>1 DEF Types
    <3> QED BY <3>3, <3>4, <3>5
  <2>6. scratch' \in Nat \cup {Nothing} /\ spoilt' \in BOOLEAN
    BY <1>1 DEF Types, Step, TakeNext, Compute, Store, Lock, Read, Count, Unlock, Clear
  <2>7. todo' \subseteq todo
    BY <1>1 DEF Step, TakeNext, Compute, Store, Lock, Read, Count, Unlock, Clear, loopVars
  <2> QED BY <2>1, <2>2, <2>3, <2>4, <2>5, <2>6, <2>7 DEF Types
<1>2. CASE NextLoop
  <2>1. op # NoOp /\ op.kind \in Kind
    BY <1>2 DEF NextLoop, LoopEnds, Types, Operation
  <2>2. loop \in 1 .. Loops(op.kind) /\ loop # Loops(op.kind)
    BY <1>2, <2>1 DEF NextLoop, Finished, Types
  <2>3. loop + 1 \in 1 .. Loops(op.kind)
    BY <2>1, <2>2, SizesAreNat
  <2>4. told' \in [calls : Nat, current : Nat, aborted : BOOLEAN, late : Nat \cup {Nothing}]
    BY <1>2 DEF NextLoop, Types
  <2> QED BY <1>2, <2>1, <2>3, <2>4 DEF NextLoop, Types
<1>3. CASE Return
  <2>1. op' = NoOp /\ loop' = 0 /\ told' = Silence /\ current' = 0 /\ stored' = 0 /\ spoilt' = FALSE
    BY <1>3 DEF Return
  <2>2. todo' = {} /\ at' = at /\ \A t \in Thread : at'[t] = Idle
    BY <1>3 DEF Return, LoopEnds
  <2>3. scratch' \in Nat \cup {Nothing} /\ lock' = lock /\ processing' = processing
    BY <1>3 DEF Return
  <2> QED BY <2>1, <2>2, <2>3, SilenceType DEF Types
<1>4. ASSUME NEW o \in Operation, Begin(o) PROVE Types'
  <2>1. o # NoOp /\ o.kind \in Kind
    BY DEF Operation, NoOp, Kind
  <2>2. Loops(o.kind) \in Nat \ {0}
    BY <2>1, SizesAreNat
  <2>3. op' = o /\ told' = Silence /\ current' = 0 /\ loop' = 1 /\ processing' = TRUE
        /\ todo' = 0 .. Size(o.kind) - 1 /\ UNCHANGED <<lock, at, scratch, stored, spoilt>>
    BY <1>4 DEF Begin
  <2> QED BY <2>1, <2>2, <2>3, SilenceType DEF Types
<1>5. CASE UNCHANGED vars
  BY <1>5 DEF vars, loopVars, Types
<1> QED BY <1>1, <1>2, <1>3, <1>4, <1>5 DEF Next, Runs


-----------------------------------------------------------------------------
(* The lock.                                                               *)
LEMMA LockInit == Init => LockInv
BY ThreadAssumption DEF Init, LockInv, Idle, At, Critical

LEMMA LockThread ==
  ASSUME Types, LockInv, NEW t \in Thread, Step(t)
  PROVE  LockInv'
<1> USE DEF LockInv, Critical, Goes, Stays
<1>1. CASE \E i \in todo : TakeNext(t, i)
  <2> PICK i \in todo : TakeNext(t, i)
    BY <1>1
  <2>1. lock' = lock /\ current' = current /\ at[t].pc = "next"
    BY DEF TakeNext
  <2> QED BY <2>1, TakeMoves DEF Types
<1>2. CASE Compute(t)
  BY <1>2, ComputeMoves DEF Compute
<1>3. CASE Store(t)
  BY <1>3, StoreMoves DEF Store
<1>4. CASE Lock(t)
  BY <1>4, LockMoves, ThreadAssumption DEF Lock
<1>5. CASE Read(t)
  BY <1>5, ReadMoves DEF Read
<1>6. CASE Count(t)
  <2>1. PICK answer \in BOOLEAN : Answered(t, answer)
    BY <1>6, CountMoves
  <2>2. Stays(t) /\ at'[t].pc \in {"unlock", "stop"}
    BY <2>1 DEF Answered
  <2>3. lock' = lock /\ at[t].pc = "count"
    BY <1>6 DEF Count
  <2> QED BY <2>2, <2>3
<1>7. CASE Unlock(t)
  <2>1. lock' = Nobody /\ current' = current /\ at[t].pc \in {"unlock", "stop"}
    BY <1>7 DEF Unlock
  <2>2. Stays(t) /\ at'[t].pc \in {"next", "clear"}
    BY <1>7, <2>1, UnlockMoves
  <2> QED BY <2>1, <2>2, ThreadAssumption
<1>8. CASE Clear(t)
  BY <1>8, ClearMoves DEF Clear
<1> QED BY <1>1, <1>2, <1>3, <1>4, <1>5, <1>6, <1>7, <1>8 DEF Step

LEMMA LockStep == Types /\ LockInv /\ [Next]_vars => LockInv'
<1> SUFFICES ASSUME Types, LockInv, [Next]_vars PROVE LockInv'
  OBVIOUS
<1>1. ASSUME NEW t \in Thread, Step(t) PROVE LockInv'
  BY <1>1, LockThread
<1>2. CASE NextLoop
  BY <1>2 DEF NextLoop, LockInv
<1>3. CASE Return
  BY <1>3 DEF Return, LoopEnds, LockInv, Idle, At
<1>4. ASSUME NEW o \in Operation, Begin(o) PROVE LockInv'
  BY <1>4 DEF Begin, LockInv, Types, Idle, At
<1>5. CASE UNCHANGED vars
  BY <1>5 DEF vars, LockInv
<1> QED BY <1>1, <1>2, <1>3, <1>4, <1>5 DEF Next, Runs

-----------------------------------------------------------------------------
(* The team.                                                               *)
LEMMA TeamIsOfThreads == Team \subseteq Thread /\ IsFiniteSet(Team) /\ Team # {}
<1>1. Team \subseteq Thread /\ Team # {}
  BY ThreadAssumption DEF Team
<1> QED BY <1>1, ThreadAssumption, FS_Subset

LEMMA TeamAlone == ~op.parallel => \A t, u \in Team : t = u
BY DEF Team

LEMMA TeamInit == Init => TeamInv
BY DEF Init, TeamInv

LEMMA TeamWorks ==
  ASSUME Types, TeamInv, NEW t \in Thread, Step(t)
  PROVE  t \in Team
<1> SUFFICES ASSUME t \notin Team PROVE FALSE
  OBVIOUS
<1>1. at[t].pc = "next"
  BY StepOfOperation DEF TeamInv, Idle, At
<1> QED BY <1>1 DEF Step, TakeNext, Compute, Store, Lock, Read, Count, Unlock, Clear

LEMMA StoresAfterCompute ==
  ASSUME Types, NEW t \in Thread, Step(t), ~Compute(t), at'[t].pc = "store"
  PROVE  at' = at /\ scratch' = scratch
<1>1. ASSUME NEW i \in todo, TakeNext(t, i) PROVE at' = at /\ scratch' = scratch
  <2>1. scratch' = scratch /\ processing \in BOOLEAN
    BY <1>1 DEF TakeNext, Types
  <2>2. processing => at'[t].pc = "compute"
    BY <1>1, TakeMoves DEF Goes
  <2>3. ~processing => at' = at
    BY <1>1, TakeMoves
  <2> QED BY <2>1, <2>2, <2>3
<1>2. CASE Store(t)
  BY <1>2, StoreMoves DEF Goes
<1>3. CASE Lock(t) \/ Read(t) \/ Clear(t)
  BY <1>3, LockMoves, ReadMoves, ClearMoves DEF Goes
<1>4. CASE Unlock(t)
  BY <1>4, UnlockMoves DEF Goes, Unlock
<1>5. CASE Count(t)
  <2>1. PICK answer \in BOOLEAN : Answered(t, answer)
    BY <1>5, CountMoves
  <2> QED BY <2>1 DEF Goes, Answered
<1> QED BY <1>1, <1>2, <1>3, <1>4, <1>5 DEF Step

LEMMA TeamThread ==
  ASSUME Types, TeamInv, NEW t \in Thread, Step(t)
  PROVE  TeamInv'
<1>1. op # NoOp /\ op' = op /\ Team' = Team
  BY StepOfOperation DEF Team
<1>2. t \in Team
  BY TeamWorks
<1>3. at' = at \/ Stays(t)
  BY TakeMoves, ComputeMoves, StoreMoves, LockMoves, ReadMoves, CountMoves, UnlockMoves,
     ClearMoves DEF Step, Goes, Unlock, Answered
<1>4. \A u \in Thread \ Team : at'[u] = Idle
  BY <1>1, <1>2, <1>3 DEF TeamInv, Stays
<1>5. spoilt' => Shares(op.kind) /\ op.parallel
  <2>1. CASE Store(t)
    <3>1. ~op.parallel /\ Shares(op.kind) => scratch = at[t].n
      BY <1>1, <2>1 DEF TeamInv, Store
    <3> QED BY <1>1, <2>1, <3>1 DEF TeamInv, Store
  <2>2. CASE ~Store(t)
    BY <1>1, <2>2 DEF TeamInv, Step, TakeNext, Compute, Lock, Read, Count, Unlock, Clear
  <2> QED BY <2>1, <2>2
<1>6. ASSUME Shares(op.kind), ~op.parallel, NEW u \in Thread, at'[u].pc = "store"
      PROVE  scratch' = at'[u].n
  <2>1. u = t
    BY <1>1, <1>2, <1>4, <1>6, TeamAlone DEF Idle, At
  <2>2. CASE Compute(t)
    BY <1>6, <2>1, <2>2, ComputeMoves DEF Compute, Goes
  <2>3. CASE ~Compute(t)
    <3>1. at' = at /\ scratch' = scratch
      BY <1>6, <2>1, <2>3, StoresAfterCompute
    <3> QED BY <1>1, <1>6, <2>1, <3>1 DEF TeamInv
  <2> QED BY <2>2, <2>3
<1> QED BY <1>1, <1>4, <1>5, <1>6 DEF TeamInv

LEMMA TeamStep == Types /\ TeamInv /\ [Next]_vars => TeamInv'
<1> SUFFICES ASSUME Types, TeamInv, [Next]_vars PROVE TeamInv'
  OBVIOUS
<1>1. ASSUME NEW t \in Thread, Step(t) PROVE TeamInv'
  BY <1>1, TeamThread
<1>2. CASE NextLoop
  BY <1>2 DEF NextLoop, LoopEnds, TeamInv, Team, Idle, At
<1>3. CASE Return
  BY <1>3 DEF Return, TeamInv
<1>4. ASSUME NEW o \in Operation, Begin(o) PROVE TeamInv'
  BY <1>4 DEF Begin, TeamInv, Types, Idle, At
<1>5. CASE UNCHANGED vars
  BY <1>5 DEF vars, TeamInv, Team
<1> QED BY <1>1, <1>2, <1>3, <1>4, <1>5 DEF Next, Runs


-----------------------------------------------------------------------------
(* The callback aborts.                                                    *)
LEMMA LateRange == Types => told.late \in Nat \cup {Nothing} /\ told.aborted \in BOOLEAN
                            /\ told.calls \in Nat /\ told.current \in Nat
BY DEF Types

LEMMA AbortInit == Init => AbortInv
BY DEF Init, AbortInv

LEMMA SameStopping ==
  ASSUME NEW t \in Thread, at' = at \/ Stays(t),
         at'[t].pc \in {"stop", "clear"} <=> at[t].pc \in {"stop", "clear"}
  PROVE  Stopping' = Stopping
BY DEF Stopping, Stays

(* A step that is none of the callback's keeps what is told.               *)
Quiet(t) == (\E i \in todo : TakeNext(t, i)) \/ Compute(t) \/ Store(t) \/ Lock(t) \/ Read(t)

LEMMA QuietSteps ==
  ASSUME Types, NEW t \in Thread, Quiet(t)
  PROVE  /\ told' = told /\ processing' = processing /\ current' = current
         /\ at' = at \/ Stays(t)
         /\ at'[t].pc \notin {"stop", "clear"} /\ at[t].pc \notin {"stop", "clear"}
<1>1. CASE \E i \in todo : TakeNext(t, i)
  <2> PICK i \in todo : TakeNext(t, i)
    BY <1>1
  <2>1. told' = told /\ processing' = processing /\ current' = current /\ at[t].pc = "next"
        /\ processing \in BOOLEAN
    BY DEF TakeNext, Types
  <2>2. at' = at \/ (Stays(t) /\ at'[t].pc = "compute")
    BY <2>1, TakeMoves DEF Goes
  <2> QED BY <2>1, <2>2
<1>2. CASE Compute(t)
  BY <1>2, ComputeMoves DEF Compute, Goes, loopVars
<1>3. CASE Store(t)
  <2>1. Stays(t) /\ at'[t].pc \in {"lock", "next"}
    BY <1>3, StoreMoves DEF Goes
  <2> QED BY <1>3, <2>1 DEF Store, loopVars
<1>4. CASE Lock(t)
  BY <1>4, LockMoves DEF Lock, Goes, loopVars
<1>5. CASE Read(t)
  BY <1>5, ReadMoves DEF Read, Goes, loopVars
<1> QED BY <1>1, <1>2, <1>3, <1>4, <1>5 DEF Quiet

(* Who has work to do will ask the callback.                               *)
LEMMA PendingQuiet ==
  ASSUME Types, NEW t \in Thread, Quiet(t), processing, op.counting, op.kind = "resize", Pending
  PROVE  Pending'
<1> DEFINE Ahead == Working \cup {"lock", "read", "count"}
<1>1. Stays(t) /\ at'[t].pc \in Ahead
  <2>1. CASE \E i \in todo : TakeNext(t, i)
    BY <2>1, TakeMoves DEF Goes, Working
  <2>2. CASE Compute(t)
    BY <2>2, ComputeMoves DEF Goes, Working
  <2>3. CASE Store(t)
    <3>1. Counts(op.kind, at[t].n)
      BY DEF Counts
    <3> QED BY <2>3, <3>1, StoreMoves DEF Goes
  <2>4. CASE Lock(t)
    BY <2>4, LockMoves DEF Goes
  <2>5. CASE Read(t)
    BY <2>5, ReadMoves DEF Goes
  <2> QED BY <2>1, <2>2, <2>3, <2>4, <2>5 DEF Quiet
<1> QED BY <1>1 DEF Pending

LEMMA PendingElsewhere ==
  ASSUME NEW t \in Thread, at[t].pc \in {"unlock", "stop", "clear"}, Stays(t), todo' = todo, Pending
  PROVE  Pending'
BY DEF Pending, Stays, Working

LEMMA AbortThread ==
  ASSUME Types, CountInv, AbortInv, NEW t \in Thread, Step(t)
  PROVE  AbortInv'
<1>1. op # NoOp /\ op \in Operation /\ op' = op
  BY StepOfOperation
<1>2. CASE Quiet(t)
  <2>1. told' = told /\ processing' = processing /\ Stopping' = Stopping
    BY <1>2, QuietSteps, SameStopping
  <2>2. ASSUME told.aborted, told.late = Nothing, op.sticky PROVE Pending'
    <3>1. processing /\ op.kind = "resize" /\ Pending
      BY <1>1, <2>2 DEF AbortInv, Types
    <3>2. op.counting
      BY <1>1, <2>2 DEF CountInv, Operation
    <3> QED BY <1>2, <3>1, <3>2, PendingQuiet
  <2> QED BY <1>1, <2>1, <2>2 DEF AbortInv
<1>3. CASE Unlock(t)
  <2>1. told' = told /\ processing' = processing /\ todo' = todo /\ at[t].pc \in {"unlock", "stop"}
    BY <1>3 DEF Unlock, loopVars
  <2>2. CASE at[t].pc = "unlock"
    <3>1. Stays(t) /\ at'[t].pc = "next"
      BY <1>3, <2>2, UnlockMoves DEF Goes
    <3>2. Stopping' = Stopping
      BY <2>2, <3>1, SameStopping
    <3>3. Pending => Pending'
      BY <2>1, <2>2, <3>1, PendingElsewhere
    <3> QED BY <1>1, <2>1, <3>2, <3>3 DEF AbortInv
  <2>3. CASE at[t].pc = "stop"
    <3>1. Stays(t) /\ at'[t].pc = "clear"
      BY <1>3, <2>3, UnlockMoves DEF Goes
    <3>2. Stopping' = Stopping
      BY <2>3, <3>1, SameStopping
    <3>3. Pending => Pending'
      BY <2>1, <2>3, <3>1, PendingElsewhere
    <3> QED BY <1>1, <2>1, <3>2, <3>3 DEF AbortInv
  <2> QED BY <2>1, <2>2, <2>3
<1>4. CASE Clear(t)
  <2>1. told' = told /\ processing' = FALSE
    BY <1>4 DEF Clear
  <2>2. t \in Stopping
    BY <1>4 DEF Clear, Stopping
  <2>3. told.late # Nothing /\ told.aborted
    BY <1>1, <2>2 DEF AbortInv
  <2> QED BY <1>1, <2>1, <2>3 DEF AbortInv
<1>5. CASE Count(t)
  <2>1. PICK answer \in BOOLEAN : Answered(t, answer)
    BY <1>5, CountMoves
  <2>2. processing' = processing /\ at[t].pc = "count"
    BY <1>5 DEF Count, loopVars
  <2>3. /\ told'.late = IF told.late = Nothing /\ answer THEN Nothing ELSE told.late + 1
        /\ told'.aborted = (told.aborted \/ ~answer)
        /\ op.sticky /\ told.aborted => ~answer
        /\ Stays(t)
    BY <2>1 DEF Answered, Goes
  <2>4. told.late + 1 \in Nat /\ (told.late # Nothing => told.aborted)
    BY <1>1, LateRange DEF Nothing, AbortInv
  <2>5. CASE answer
    <3>1. at'[t].pc = "unlock"
      BY <2>1, <2>5 DEF Answered, Goes
    <3>2. Stopping' = Stopping
      BY <2>2, <2>3, <3>1, SameStopping
    <3>3. told'.late # Nothing <=> told.late # Nothing
      BY <2>3, <2>4, <2>5 DEF Nothing
    <3>4. (told'.aborted <=> told.aborted) /\ ~(op.sticky /\ told.aborted)
      BY <2>3, <2>5
    <3> QED BY <1>1, <2>2, <2>4, <3>2, <3>3, <3>4 DEF AbortInv
  <2>6. CASE ~answer
    <3>1. at'[t].pc = "stop"
      BY <2>1, <2>6 DEF Answered, Goes
    <3>2. t \in Stopping'
      BY <3>1 DEF Stopping
    <3>3. told'.late # Nothing
      BY <2>3, <2>4, <2>6 DEF Nothing
    <3>4. told'.aborted
      BY <2>3, <2>6
    <3> QED BY <1>1, <3>2, <3>3, <3>4 DEF AbortInv
  <2> QED BY <2>5, <2>6
<1> QED BY <1>2, <1>3, <1>4, <1>5 DEF Step, Quiet


LEMMA EndsIdle ==
  ASSUME Types, LoopEnds
  PROVE  /\ op # NoOp /\ op \in Operation /\ op.kind \in Kind /\ todo = {} /\ ~Pending
         /\ Stopping = {} /\ Busy = {} /\ Owed = {} /\ Left = {}
<1>1. \A t \in Thread : at[t].pc = "next"
  BY DEF LoopEnds, Idle, At
<1>2. op # NoOp /\ op \in Operation /\ op.kind \in Kind /\ todo = {}
  BY DEF LoopEnds, Types, Operation
<1>3. Stopping = {} /\ Busy = {}
  BY <1>1 DEF Stopping, Busy, Working
<1>4. Owed = {} /\ Left = {}
  BY <1>1, <1>2 DEF Owed, Left, Working
<1>5. ~Pending
  BY <1>1, <1>2 DEF Pending, Working
<1> QED BY <1>2, <1>3, <1>4, <1>5

LEMMA NextLoopBegins ==
  ASSUME Types, NextLoop
  PROVE  /\ op' = op /\ op.kind \in Kind /\ loop' = loop + 1 /\ loop \in Nat /\ loop < Loops(op.kind)
         /\ processing' = TRUE /\ todo' = 0 .. Size(op.kind) - 1 /\ todo' # {}
         /\ told'.late = Nothing /\ told'.aborted = told.aborted
         /\ told'.calls = told.calls /\ told'.current = told.current
         /\ at' = at /\ current' = current /\ stored' = stored
         /\ StopsAtOnce(op.kind) => processing
<1>1. op # NoOp /\ op.kind \in Kind
  BY EndsIdle DEF NextLoop
<1>2. Size(op.kind) \in Nat \ {0} /\ Loops(op.kind) \in Nat \ {0}
  BY <1>1, SizesAreNat
<1>3. loop \in 1 .. Loops(op.kind) /\ loop # Loops(op.kind)
  BY <1>1 DEF NextLoop, Finished, Types
<1>4. 0 \in 0 .. Size(op.kind) - 1
  BY <1>2
<1>5. /\ told'.late = Nothing /\ told'.aborted = told.aborted
      /\ told'.calls = told.calls /\ told'.current = told.current
  BY DEF NextLoop, Types
<1>6. StopsAtOnce(op.kind) => processing
  BY DEF NextLoop, Finished
<1>7. loop \in Nat /\ loop < Loops(op.kind)
  BY <1>2, <1>3
<1> QED BY <1>1, <1>4, <1>5, <1>6, <1>7 DEF NextLoop

LEMMA AbortStep == Types /\ CountInv /\ AbortInv /\ [Next]_vars => AbortInv'
<1> SUFFICES ASSUME Types, CountInv, AbortInv, [Next]_vars PROVE AbortInv'
  OBVIOUS
<1>1. ASSUME NEW t \in Thread, Step(t) PROVE AbortInv'
  BY <1>1, AbortThread
<1>2. CASE NextLoop
  <2>1. op # NoOp /\ Stopping = {}
    BY <1>2, EndsIdle DEF NextLoop
  <2>2. Stopping' = {}
    BY <1>2, <2>1, NextLoopBegins DEF Stopping
  <2>3. told.aborted => op.kind = "resize"
    BY <1>2, <2>1, NextLoopBegins DEF AbortInv, StopsAtOnce
  <2>4. Pending'
    BY <1>2, NextLoopBegins DEF Pending
  <2> QED BY <1>2, <2>1, <2>2, <2>3, <2>4, NextLoopBegins DEF AbortInv
<1>3. CASE Return
  BY <1>3 DEF Return, AbortInv
<1>4. ASSUME NEW o \in Operation, Begin(o) PROVE AbortInv'
  <2>1. \A t \in Thread : at'[t].pc = "next"
    BY <1>4 DEF Begin, Types, Idle, At
  <2>2. Stopping' = {}
    BY <2>1 DEF Stopping
  <2>3. processing' = TRUE /\ told'.late = Nothing /\ told'.aborted = FALSE
    BY <1>4 DEF Begin, Silence
  <2> QED BY <2>2, <2>3 DEF AbortInv
<1>5. CASE UNCHANGED vars
  <2>1. UNCHANGED <<op, told, processing, todo, at>>
    BY <1>5 DEF vars, loopVars
  <2> QED BY <2>1 DEF AbortInv, Stopping, Pending
<1> QED BY <1>1, <1>2, <1>3, <1>4, <1>5 DEF Next, Runs

-----------------------------------------------------------------------------
(* The results.                                                            *)
LEMMA OneMore ==
  ASSUME NEW S, NEW T, NEW x, IsFiniteSet(S), x \notin S, T = S \cup {x}
  PROVE  IsFiniteSet(T) /\ Cardinality(T) = Cardinality(S) + 1
         /\ Cardinality(S) \in Nat /\ Cardinality(T) \in Nat
BY FS_AddElement, FS_CardinalityType

LEMMA OneLess ==
  ASSUME NEW S, NEW T, NEW x, IsFiniteSet(S), x \in S, T = S \ {x}
  PROVE  IsFiniteSet(T) /\ Cardinality(S) = Cardinality(T) + 1
         /\ Cardinality(S) \in Nat /\ Cardinality(T) \in Nat
<1>1. IsFiniteSet(T) /\ Cardinality(T) = Cardinality(S) - 1
  BY FS_RemoveElement
<1>2. Cardinality(S) \in Nat /\ Cardinality(T) \in Nat
  BY <1>1, FS_CardinalityType
<1> QED BY <1>1, <1>2

LEMMA ThreadSets ==
  /\ IsFiniteSet(Owed) /\ IsFiniteSet(Busy) /\ IsFiniteSet(Told)
  /\ Cardinality(Owed) \in Nat /\ Cardinality(Busy) \in Nat /\ Cardinality(Told) \in Nat
<1>1. Owed \subseteq Thread /\ Busy \subseteq Thread /\ Told \subseteq Thread
  BY TeamIsOfThreads DEF Owed, Busy, Told
<1> QED BY <1>1, ThreadAssumption, FS_Subset, FS_CardinalityType

LEMMA LoopSets ==
  ASSUME Types, op # NoOp
  PROVE  /\ IsFiniteSet(todo) /\ IsFiniteSet(Left)
         /\ Cardinality(todo) \in Nat /\ Cardinality(Left) \in Nat
<1>1. op.kind \in Kind /\ todo \subseteq 0 .. Size(op.kind) - 1
  BY DEF Types, Operation
<1>2. 0 \in Int /\ Size(op.kind) - 1 \in Int
  BY <1>1, SizesAreNat
<1>3. IsFiniteSet(0 .. Size(op.kind) - 1)
  BY <1>2, FS_Interval
<1>4. IsFiniteSet(todo) /\ Left \subseteq todo
  BY <1>1, <1>3, FS_Subset DEF Left
<1> QED BY <1>4, FS_Subset, FS_CardinalityType

LEMMA LoopSize ==
  ASSUME NEW k \in Kind
  PROVE  Cardinality(0 .. Size(k) - 1) = Size(k)
<1>1. PICK s \in Nat \ {0} : s = Size(k)
  BY SizesAreNat
<1>2. Cardinality(0 .. s - 1) = s
  BY FS_Interval
<1> QED BY <1>1, <1>2

LEMMA OneMoreLoop ==
  ASSUME NEW l \in Nat, NEW c \in Nat
  PROVE  (l + 1) * c = l * c + c /\ l * c \in Nat
OBVIOUS

LEMMA FewerLoops ==
  ASSUME NEW l \in Nat, NEW m \in Nat, NEW c \in Nat, l <= m
  PROVE  l * c <= m * c
<1>1. PICK d \in Nat : m = l + d
  <2>1. m - l \in Nat /\ m = l + (m - l)
    OBVIOUS
  <2> QED BY <2>1
<1>2. m * c = l * c + d * c /\ d * c \in Nat /\ l * c \in Nat
  BY <1>1
<1> QED BY <1>2

LEMMA StoreInit == Init => StoreInv
BY DEF Init, StoreInv

(* An iteration is done at most once, and unless the flag is cleared not   *)
(* passed over either.                                                     *)
LEMMA TakenMoves ==
  ASSUME Types, NEW t \in Thread, Step(t)
  PROVE  /\ Taken' \in Nat /\ Taken \in Nat /\ Taken' <= Taken
         /\ processing => Taken' = Taken
<1>0. op # NoOp
  BY StepOfOperation
<1> DEFINE b == Cardinality(Busy)
           c == Cardinality(todo)
<1>1. IsFiniteSet(Busy) /\ b \in Nat /\ c \in Nat /\ stored \in Nat /\ IsFiniteSet(todo)
  BY <1>0, ThreadSets, LoopSets DEF Types
<1>2. CASE \E i \in todo : TakeNext(t, i)
  <2> PICK i \in todo : TakeNext(t, i)
    BY <1>2
  <2>1. todo' = todo \ {i} /\ stored' = stored /\ at[t].pc = "next" /\ processing \in BOOLEAN
    BY DEF TakeNext, Types
  <2>2. c = Cardinality(todo') + 1 /\ Cardinality(todo') \in Nat
    BY <1>1, <2>1, OneLess
  <2>3. CASE processing
    <3>1. Stays(t) /\ at'[t].pc = "compute"
      BY <2>3, TakeMoves DEF Goes
    <3>2. Busy' = Busy \cup {t} /\ t \notin Busy
      BY <2>1, <3>1 DEF Busy, Working, Stays
    <3>3. Cardinality(Busy') = b + 1
      BY <1>1, <3>2, OneMore
    <3> QED BY <1>1, <2>1, <2>2, <3>3 DEF Taken
  <2>4. CASE ~processing
    <3>1. Busy' = Busy
      BY <2>4, TakeMoves DEF Busy
    <3> HIDE DEF b
    <3>2. Taken = stored + b + c /\ Taken' = stored + b + Cardinality(todo')
      BY <2>1, <3>1 DEF Taken, b
    <3> QED BY <1>1, <2>2, <2>4, <3>2
  <2> QED BY <2>1, <2>3, <2>4
<1>3. CASE Store(t)
  <2>1. todo' = todo /\ stored' = stored + 1 /\ at[t].pc = "store"
    BY <1>3 DEF Store, loopVars
  <2>2. Stays(t) /\ at'[t].pc \in {"lock", "next"}
    BY <1>3, StoreMoves DEF Goes
  <2>3. Busy' = Busy \ {t} /\ t \in Busy
    BY <2>1, <2>2 DEF Busy, Working, Stays
  <2>4. b = Cardinality(Busy') + 1 /\ Cardinality(Busy') \in Nat
    BY <1>1, <2>3, OneLess
  <2> QED BY <1>1, <2>1, <2>4 DEF Taken
<1>4. CASE Compute(t) \/ Lock(t) \/ Read(t) \/ Count(t) \/ Unlock(t) \/ Clear(t)
  <2>1. todo' = todo /\ stored' = stored
    BY <1>4 DEF Compute, Lock, Read, Count, Unlock, Clear, loopVars
  <2>2. Stays(t) /\ (at'[t].pc \in Working <=> at[t].pc \in Working)
    <3>1. CASE Compute(t)
      BY <3>1, ComputeMoves DEF Compute, Goes, Working
    <3>2. CASE Lock(t)
      BY <3>2, LockMoves DEF Lock, Goes, Working
    <3>3. CASE Read(t)
      BY <3>3, ReadMoves DEF Read, Goes, Working
    <3>4. CASE Count(t)
      <4>1. PICK answer \in BOOLEAN : Answered(t, answer)
        BY <3>4, CountMoves
      <4>2. Stays(t) /\ at'[t].pc \in {"unlock", "stop"}
        BY <4>1 DEF Answered, Goes
      <4> QED BY <3>4, <4>2 DEF Count, Working
    <3>5. CASE Unlock(t)
      BY <3>5, UnlockMoves DEF Unlock, Goes, Working
    <3>6. CASE Clear(t)
      BY <3>6, ClearMoves DEF Clear, Goes, Working
    <3> QED BY <1>4, <3>1, <3>2, <3>3, <3>4, <3>5, <3>6
  <2>3. Busy' = Busy
    BY <2>2 DEF Busy, Stays
  <2> QED BY <1>1, <2>1, <2>3 DEF Taken
<1> QED BY <1>2, <1>3, <1>4 DEF Step

LEMMA AbortStays ==
  ASSUME Types, NEW t \in Thread, Step(t)
  PROVE  told.aborted => told'.aborted
<1>1. CASE Count(t)
  <2>1. PICK answer \in BOOLEAN : Answered(t, answer)
    BY <1>1, CountMoves
  <2>2. told'.aborted = (told.aborted \/ ~answer)
    BY <2>1 DEF Answered
  <2> QED BY <2>2
<1>2. CASE ~Count(t)
  BY <1>2 DEF Step, TakeNext, Compute, Store, Lock, Read, Unlock, Clear
<1> QED BY <1>1, <1>2

LEMMA StoreStep == Types /\ AbortInv /\ StoreInv /\ [Next]_vars => StoreInv'
<1> SUFFICES ASSUME Types, AbortInv, StoreInv, [Next]_vars PROVE StoreInv'
  OBVIOUS
<1>1. ASSUME NEW t \in Thread, Step(t) PROVE StoreInv'
  <2>1. op # NoOp /\ op' = op /\ loop' = loop /\ op.kind \in Kind
    BY <1>1, StepOfOperation
  <2>2. loop \in Nat /\ Size(op.kind) \in Nat
    BY <2>1, SizesAreNat DEF Types
  <2>3. told'.aborted \/ processing
    <3>1. ~processing => told.aborted
      BY <2>1 DEF AbortInv
    <3> QED BY <1>1, <3>1, AbortStays
  <2>4. ~told'.aborted => ~told.aborted
    BY <1>1, AbortStays
  <2>5. PICK s \in Nat : s = loop * Size(op.kind)
    BY <2>2
  <2>6. (loop * Size(op.kind))' = s
    BY <2>1, <2>5
  <2> QED BY <1>1, <2>1, <2>3, <2>4, <2>5, <2>6, TakenMoves DEF StoreInv
<1>2. CASE NextLoop
  <2>1. op # NoOp /\ op.kind \in Kind /\ op' = op /\ loop' = loop + 1 /\ Busy = {} /\ todo = {}
        /\ loop \in Nat /\ told'.aborted = told.aborted
    BY <1>2, EndsIdle, NextLoopBegins DEF NextLoop
  <2>2. Busy' = {} /\ Cardinality({}) = 0
    BY <1>2, <2>1, NextLoopBegins, FS_EmptySet DEF Busy
  <2>3. stored' = stored /\ stored \in Nat /\ Cardinality(todo') = Size(op.kind)
    BY <1>2, <2>1, NextLoopBegins, LoopSize DEF Types
  <2>4. PICK s \in Nat : s = Size(op.kind)
    BY <2>1, SizesAreNat
  <2>5. Taken = stored /\ Taken' = stored + s
    BY <2>1, <2>2, <2>3, <2>4 DEF Taken
  <2>6. PICK m \in Nat : m = loop * s
    BY <2>1
  <2>7. (loop * Size(op.kind))' = m + s
    BY <2>1, <2>4, <2>6, OneMoreLoop
  <2> QED BY <2>1, <2>3, <2>4, <2>5, <2>6, <2>7 DEF StoreInv
<1>3. CASE Return
  BY <1>3 DEF Return, StoreInv
<1>4. ASSUME NEW o \in Operation, Begin(o) PROVE StoreInv'
  <2>1. o.kind \in Kind /\ op' = o /\ loop' = 1 /\ stored' = 0 /\ todo' = 0 .. Size(o.kind) - 1
    BY <1>4 DEF Begin, Operation, Types
  <2>2. \A t \in Thread : at'[t].pc = "next"
    BY <1>4 DEF Begin, Types, Idle, At
  <2>3. Busy' = {} /\ Cardinality({}) = 0
    BY <2>2, FS_EmptySet DEF Busy, Working
  <2>4. PICK s \in Nat : s = Size(o.kind)
    BY <2>1, SizesAreNat
  <2>5. Cardinality(todo') = s
    BY <2>1, <2>4, LoopSize
  <2>6. Taken' = s
    BY <2>1, <2>3, <2>5 DEF Taken
  <2>7. (loop * Size(op.kind))' = s
    BY <2>1, <2>4
  <2> QED BY <2>6, <2>7 DEF StoreInv
<1>5. CASE UNCHANGED vars
  <2>1. UNCHANGED <<op, told, loop, todo, at, stored>>
    BY <1>5 DEF vars, loopVars
  <2> QED BY <2>1 DEF StoreInv, Taken, Busy
<1> QED BY <1>1, <1>2, <1>3, <1>4, <1>5 DEF Next, Runs


-----------------------------------------------------------------------------
(* The counts.                                                             *)
LEMMA CountInit == Init => CountInv
BY DEF Init, CountInv

LEMMA KnownMoves ==
  ASSUME Types, NEW t \in Thread, Step(t), op.counting
  PROVE  /\ Known' \in Nat /\ Known \in Nat /\ Known' <= Known
         /\ processing => Known' = Known
<1>0. op # NoOp /\ op' = op
  BY StepOfOperation
<1> DEFINE o == Cardinality(Owed)
           c == Cardinality(Left)
           n == told.calls
<1>1. IsFiniteSet(Owed) /\ o \in Nat /\ c \in Nat /\ n \in Nat /\ IsFiniteSet(Left)
  BY <1>0, ThreadSets, LoopSets, LateRange
<1>2. CASE \E i \in todo : TakeNext(t, i)
  <2> PICK i \in todo : TakeNext(t, i)
    BY <1>2
  <2>1. todo' = todo \ {i} /\ told' = told /\ at[t].pc = "next" /\ processing \in BOOLEAN
    BY DEF TakeNext, Types
  <2>2. /\ Counts(op.kind, i) => i \in Left /\ Left' = Left \ {i}
        /\ ~Counts(op.kind, i) => Left' = Left
    BY <1>0, <2>1 DEF Left
  <2>3. /\ Counts(op.kind, i) => c = Cardinality(Left') + 1 /\ Cardinality(Left') \in Nat
        /\ ~Counts(op.kind, i) => Cardinality(Left') = c
    BY <1>1, <2>2, OneLess
  <2>4. CASE processing
    <3>1. Stays(t) /\ at'[t].pc = "compute" /\ at'[t].n = i
      BY <2>4, TakeMoves DEF Goes
    <3>2. /\ Counts(op.kind, i) => Owed' = Owed \cup {t}
          /\ ~Counts(op.kind, i) => Owed' = Owed
          /\ t \notin Owed
      BY <1>0, <2>1, <3>1 DEF Owed, Working, Stays
    <3>3. /\ Counts(op.kind, i) => Cardinality(Owed') = o + 1
          /\ ~Counts(op.kind, i) => Cardinality(Owed') = o
      BY <1>1, <3>2, OneMore
    <3>4. told'.calls = n
      BY <2>1
    <3> HIDE DEF o, c, n
    <3>5. Known = n + o + c /\ Known' = told'.calls + Cardinality(Owed') + Cardinality(Left')
      BY DEF Known, n, o, c
    <3>6. CASE Counts(op.kind, i)
      BY <1>1, <2>3, <3>3, <3>4, <3>5, <3>6
    <3>7. CASE ~Counts(op.kind, i)
      BY <1>1, <2>3, <3>3, <3>4, <3>5, <3>7
    <3> QED BY <3>6, <3>7
  <2>5. CASE ~processing
    <3>1. Owed' = Owed
      BY <1>0, <2>5, TakeMoves DEF Owed
    <3>2. told'.calls = n
      BY <2>1
    <3> HIDE DEF o, c, n
    <3>3. Known = n + o + c /\ Known' = n + o + Cardinality(Left')
      BY <3>1, <3>2 DEF Known, n, o, c
    <3>4. CASE Counts(op.kind, i)
      BY <1>1, <2>3, <2>5, <3>3, <3>4
    <3>5. CASE ~Counts(op.kind, i)
      BY <1>1, <2>3, <2>5, <3>3, <3>5
    <3> QED BY <3>4, <3>5
  <2> QED BY <2>1, <2>4, <2>5
<1>3. CASE Count(t)
  <2>1. PICK answer \in BOOLEAN : Answered(t, answer)
    BY <1>3, CountMoves
  <2>2. Stays(t) /\ at'[t].pc \in {"unlock", "stop"} /\ told'.calls = n + 1
    BY <2>1 DEF Answered, Goes
  <2>3. at[t].pc = "count" /\ todo' = todo
    BY <1>3 DEF Count, loopVars
  <2>4. Owed' = Owed \ {t} /\ t \in Owed /\ Left' = Left
    BY <1>0, <2>2, <2>3 DEF Owed, Left, Working, Stays
  <2>5. o = Cardinality(Owed') + 1 /\ Cardinality(Owed') \in Nat
    BY <1>1, <2>4, OneLess
  <2> HIDE DEF o, c, n
  <2>6. Known = n + o + c /\ Known' = told'.calls + Cardinality(Owed') + c
    BY <2>4 DEF Known, n, o, c
  <2> QED BY <1>1, <2>2, <2>5, <2>6
<1>4. CASE Compute(t) \/ Store(t) \/ Lock(t) \/ Read(t) \/ Unlock(t) \/ Clear(t)
  <2>1. todo' = todo /\ told' = told
    BY <1>4 DEF Compute, Store, Lock, Read, Unlock, Clear, loopVars
  <2>2. CASE Compute(t)
    <3>1. Stays(t) /\ at[t].pc = "compute" /\ at'[t].pc = "store" /\ at'[t].n = at[t].n
      BY <2>2, ComputeMoves DEF Compute, Goes
    <3>2. Owed' = Owed
      BY <1>0, <3>1 DEF Owed, Stays, Working
    <3> QED BY <1>0, <1>1, <2>1, <3>2 DEF Known, Left
  <2>3. CASE Store(t)
    <3>1. /\ Stays(t) /\ at[t].pc = "store"
          /\ Counts(op.kind, at[t].n) => at'[t].pc = "lock"
          /\ ~Counts(op.kind, at[t].n) => at'[t].pc = "next"
      BY <2>3, StoreMoves DEF Store, Goes
    <3>2. Owed' = Owed
      BY <1>0, <3>1 DEF Owed, Stays, Working
    <3> QED BY <1>0, <1>1, <2>1, <3>2 DEF Known, Left
  <2>4. CASE Lock(t)
    <3>1. Stays(t) /\ at[t].pc = "lock" /\ at'[t].pc = "read"
      BY <2>4, LockMoves DEF Lock, Goes
    <3>2. Owed' = Owed
      BY <1>0, <3>1 DEF Owed, Stays, Working
    <3> QED BY <1>0, <1>1, <2>1, <3>2 DEF Known, Left
  <2>5. CASE Read(t)
    <3>1. Stays(t) /\ at[t].pc = "read" /\ at'[t].pc = "count"
      BY <2>5, ReadMoves DEF Read, Goes
    <3>2. Owed' = Owed
      BY <1>0, <3>1 DEF Owed, Stays, Working
    <3> QED BY <1>0, <1>1, <2>1, <3>2 DEF Known, Left
  <2>6. CASE Unlock(t) \/ Clear(t)
    <3>1. Stays(t) /\ at[t].pc \in {"unlock", "stop", "clear"} /\ at'[t].pc \in {"next", "clear"}
      BY <2>6, UnlockMoves, ClearMoves DEF Unlock, Clear, Goes
    <3>2. Owed' = Owed
      BY <1>0, <3>1 DEF Owed, Stays, Working
    <3> QED BY <1>0, <1>1, <2>1, <3>2 DEF Known, Left
  <2> QED BY <1>4, <2>2, <2>3, <2>4, <2>5, <2>6
<1> QED BY <1>2, <1>3, <1>4 DEF Step

(* The calls still to come fit in the total.                               *)
LEMMA CallsFit ==
  ASSUME Types, CountInv, op # NoOp, op.counting
  PROVE  told.calls + Cardinality(Owed) <= Total(op.kind)
<1>1. op.kind \in Kind /\ loop \in 1 .. Loops(op.kind)
  BY DEF Types, Operation
<1>2. PICK c \in Nat : c = Cardinality(Lines(op.kind))
  BY <1>1, LinesAreFew
<1>3. PICK m \in Nat : m = Loops(op.kind)
  BY <1>1, SizesAreNat
<1>4. loop \in Nat /\ loop <= m
  BY <1>1, <1>3
<1>5. loop * c <= m * c /\ m * c <= Total(op.kind) /\ loop * c \in Nat /\ m * c \in Nat
  BY <1>1, <1>2, <1>3, <1>4, FewerLoops, LinesAreFew
<1>6. Known <= loop * c
  BY <1>2 DEF CountInv
<1>7. told.calls \in Nat /\ Cardinality(Owed) \in Nat /\ Cardinality(Left) \in Nat /\ Total(op.kind) \in Nat
  BY <1>1, ThreadSets, LoopSets, LateRange, SizesAreNat
<1> QED BY <1>5, <1>6, <1>7 DEF Known

LEMMA CountThread ==
  ASSUME Types, LockInv, AbortInv, CountInv, NEW t \in Thread, Step(t)
  PROVE  CountInv'
<1>1. op # NoOp /\ op' = op /\ loop' = loop /\ op.kind \in Kind /\ op.counting \in BOOLEAN
  BY StepOfOperation DEF Operation
<1>2. CASE op.counting
  <2>1. told'.aborted \/ processing
    <3>1. ~processing => told.aborted
      BY <1>1 DEF AbortInv
    <3> QED BY <3>1, AbortStays
  <2>2. ~told'.aborted => ~told.aborted
    BY AbortStays
  <2>3. PICK m \in Nat : m = loop * Cardinality(Lines(op.kind))
    BY <1>1, LinesAreFew, SizesAreNat DEF Types
  <2>4. (loop * Cardinality(Lines(op.kind)))' = m
    BY <1>1, <2>3 DEF Lines
  <2>5. Known' <= m /\ (~told'.aborted => Known' = m)
    BY <1>1, <1>2, <2>1, <2>2, <2>3, KnownMoves DEF CountInv
  <2>6. CASE Count(t)
    <3>1. PICK answer \in BOOLEAN : Answered(t, answer)
      BY <2>6, CountMoves
    <3>2. at[t].pc = "count" /\ current' = IF at[t].n + 1 = Total(op.kind) THEN 0 ELSE at[t].n + 1
      BY <2>6 DEF Count
    <3>3. told'.calls = told.calls + 1 /\ told'.current = at[t].n + 1
      BY <3>1 DEF Answered
    <3>4. at[t].n = current
      BY <3>2 DEF LockInv
    <3>5. t \in Owed
      BY <3>2 DEF Owed
    <3>6. Cardinality(Owed) \in Nat /\ Cardinality(Owed) >= 1
      <4>1. Owed \ {t} = Owed \ {t} /\ IsFiniteSet(Owed)
        BY ThreadSets
      <4>2. Cardinality(Owed) = Cardinality(Owed \ {t}) + 1 /\ Cardinality(Owed \ {t}) \in Nat
        BY <3>5, <4>1, OneLess
      <4> QED BY <4>2
    <3>7. told.calls + 1 <= Total(op.kind) /\ told.calls \in Nat /\ Total(op.kind) \in Nat
      BY <1>1, <1>2, <3>6, CallsFit, LateRange, SizesAreNat
    <3>8. current = told.calls
      BY <1>1, <3>7 DEF CountInv
    <3>9. told'.current = told'.calls /\ current' = IF told'.calls = Total(op.kind) THEN 0 ELSE told'.calls
      BY <3>2, <3>3, <3>4, <3>8
    <3> QED BY <1>1, <1>2, <2>4, <2>5, <3>9 DEF CountInv
  <2>7. CASE ~Count(t)
    <3>1. told' = told /\ current' = current
      BY <2>7 DEF Step, TakeNext, Compute, Store, Lock, Read, Unlock, Clear
    <3> QED BY <1>1, <1>2, <2>4, <2>5, <3>1 DEF CountInv
  <2> QED BY <2>6, <2>7
<1>3. CASE ~op.counting
  <2>1. at[t].pc \in {"next", "compute", "store"}
    BY <1>1, <1>3 DEF CountInv
  <2>2. (\E i \in todo : TakeNext(t, i)) \/ Compute(t) \/ Store(t)
    BY <2>1 DEF Step, Lock, Read, Count, Unlock, Clear
  <2>3. told' = told /\ current' = current
    BY <2>2 DEF TakeNext, Compute, Store
  <2>4. at' = at \/ (Stays(t) /\ at'[t].pc \in {"next", "compute", "store"})
    <3>1. ASSUME NEW i \in todo, TakeNext(t, i) PROVE at' = at \/ (Stays(t) /\ at'[t].pc = "compute")
      <4>1. processing \in BOOLEAN
        BY DEF Types
      <4> QED BY <3>1, <4>1, TakeMoves DEF Goes
    <3>2. CASE Compute(t)
      BY <3>2, ComputeMoves DEF Goes
    <3>3. CASE Store(t)
      BY <1>3, <3>3, StoreMoves DEF Goes
    <3> QED BY <2>2, <3>1, <3>2, <3>3
  <2>5. \A u \in Thread : at'[u].pc \in {"next", "compute", "store"}
    BY <1>1, <1>3, <2>4 DEF CountInv, Stays
  <2> QED BY <1>1, <1>3, <2>3, <2>5 DEF CountInv
<1> QED BY <1>1, <1>2, <1>3

LEMMA CountStep == Types /\ LockInv /\ AbortInv /\ CountInv /\ [Next]_vars => CountInv'
<1> SUFFICES ASSUME Types, LockInv, AbortInv, CountInv, [Next]_vars PROVE CountInv'
  OBVIOUS
<1>1. ASSUME NEW t \in Thread, Step(t) PROVE CountInv'
  BY <1>1, CountThread
<1>2. CASE NextLoop
  <2>1. op # NoOp /\ op.kind \in Kind /\ op' = op /\ loop' = loop + 1 /\ Owed = {} /\ Left = {}
        /\ loop \in Nat /\ told'.aborted = told.aborted /\ told'.calls = told.calls
        /\ told'.current = told.current /\ current' = current /\ at' = at
    BY <1>2, EndsIdle, NextLoopBegins DEF NextLoop
  <2>2. Owed' = {} /\ Cardinality({}) = 0
    BY <2>1, FS_EmptySet DEF Owed
  <2>3. Left' = Lines(op.kind)
    BY <1>2, <2>1, NextLoopBegins DEF Left, Lines
  <2>4. PICK c \in Nat : c = Cardinality(Lines(op.kind))
    BY <2>1, LinesAreFew
  <2>5. told.calls \in Nat
    BY LateRange
  <2>6. Known = told.calls /\ Known' = told.calls + c
    BY <2>1, <2>2, <2>3, <2>4, <2>5 DEF Known
  <2>7. PICK m \in Nat : m = loop * c
    BY <2>1
  <2>8. (loop * Cardinality(Lines(op.kind)))' = m + c
    BY <2>1, <2>4, <2>7, OneMoreLoop DEF Lines
  <2>9. op.counting => Known' <= m + c /\ (~told'.aborted => Known' = m + c)
    BY <2>1, <2>4, <2>5, <2>6, <2>7 DEF CountInv
  <2> QED BY <2>1, <2>8, <2>9 DEF CountInv
<1>3. CASE Return
  BY <1>3 DEF Return, CountInv
<1>4. ASSUME NEW o \in Operation, Begin(o) PROVE CountInv'
  <2>1. o.kind \in Kind /\ op' = o /\ loop' = 1 /\ told' = Silence /\ current' = 0
        /\ todo' = 0 .. Size(o.kind) - 1
    BY <1>4 DEF Begin, Operation
  <2>2. \A t \in Thread : at'[t].pc = "next"
    BY <1>4 DEF Begin, Types, Idle, At
  <2>3. Owed' = {} /\ Cardinality({}) = 0
    BY <2>2, FS_EmptySet DEF Owed, Working
  <2>4. Left' = Lines(o.kind)
    BY <2>1 DEF Left, Lines
  <2>5. PICK c \in Nat : c = Cardinality(Lines(o.kind))
    BY <2>1, LinesAreFew
  <2>6. told'.calls = 0 /\ told'.current = 0 /\ told'.aborted = FALSE
    BY <2>1 DEF Silence
  <2>7. Known' = c
    BY <2>3, <2>4, <2>5, <2>6 DEF Known
  <2>8. (loop * Cardinality(Lines(op.kind)))' = c
    BY <2>1, <2>5 DEF Lines
  <2>9. Known' <= c
    BY <2>7
  <2> QED BY <2>1, <2>2, <2>6, <2>7, <2>8, <2>9 DEF CountInv
<1>5. CASE UNCHANGED vars
  <2>1. UNCHANGED <<op, told, current, loop, todo, at>>
    BY <1>5 DEF vars, loopVars
  <2> QED BY <2>1 DEF CountInv, Known, Owed, Left, Lines
<1> QED BY <1>1, <1>2, <1>3, <1>4, <1>5 DEF Next, Runs


-----------------------------------------------------------------------------
(* What is still said to a callback that has aborted.                      *)
LEMMA LateInit == Init => LateInv
BY DEF Init, LateInv

LEMMA ToldGrows ==
  ASSUME Types, NEW t \in Thread, Step(t), ~Count(t)
  PROVE  Told \subseteq Told'
<1>1. Team' = Team
  BY StepOfOperation DEF Team
<1>2. CASE \E i \in todo : TakeNext(t, i)
  <2> PICK i \in todo : TakeNext(t, i)
    BY <1>2
  <2>1. at[t].pc = "next" /\ processing' = processing /\ processing \in BOOLEAN
    BY DEF TakeNext, Types
  <2>2. CASE processing
    <3>1. Stays(t)
      BY <2>2, TakeMoves DEF Goes
    <3> QED BY <1>1, <2>1, <2>2, <3>1, TeamIsOfThreads DEF Told, Stays
  <2>3. CASE ~processing
    <3>1. at' = at
      BY <2>3, TakeMoves
    <3> QED BY <1>1, <2>1, <3>1 DEF Told
  <2> QED BY <2>1, <2>2, <2>3
<1>3. CASE Compute(t) \/ Store(t) \/ Lock(t) \/ Read(t)
  <2>1. processing' = processing /\ at[t].pc \in {"compute", "store", "lock", "read"}
    BY <1>3 DEF Compute, Store, Lock, Read, loopVars
  <2>2. Stays(t)
    BY <1>3, ComputeMoves, StoreMoves, LockMoves, ReadMoves DEF Goes
  <2> QED BY <1>1, <2>1, <2>2, TeamIsOfThreads DEF Told, Stays
<1>4. CASE Unlock(t)
  <2>1. processing' = processing /\ at[t].pc \in {"unlock", "stop"}
    BY <1>4 DEF Unlock, loopVars
  <2>2. Stays(t) /\ (at[t].pc = "stop" => at'[t].pc = "clear")
    BY <1>4, <2>1, UnlockMoves DEF Goes
  <2> QED BY <1>1, <2>1, <2>2, TeamIsOfThreads DEF Told, Stays
<1>5. CASE Clear(t)
  <2>1. processing' = FALSE /\ Stays(t) /\ at'[t].pc = "next"
    BY <1>5, ClearMoves DEF Clear, Goes
  <2> QED BY <1>1, <2>1, TeamIsOfThreads DEF Told, Stays
<1> QED BY <1>2, <1>3, <1>4, <1>5 DEF Step

LEMMA LateThread ==
  ASSUME Types, TeamInv, AbortInv, LateInv, NEW t \in Thread, Step(t)
  PROVE  LateInv'
<1>1. op # NoOp /\ op' = op /\ Team' = Team
  BY StepOfOperation DEF Team
<1>2. CASE ~op.sticky
  BY <1>1, <1>2 DEF LateInv
<1>3. CASE op.sticky
  <2>1. told.late < Cardinality(Told) /\ Cardinality(Told) \in Nat /\ IsFiniteSet(Told)
    BY <1>1, <1>3, ThreadSets DEF LateInv
  <2>2. told.late \in Nat \cup {Nothing}
    BY LateRange
  <2>3. CASE Count(t)
    <3>1. PICK answer \in BOOLEAN : Answered(t, answer)
      BY <2>3, CountMoves
    <3>2. at[t].pc = "count" /\ processing' = processing
      BY <2>3 DEF Count, loopVars
    <3>3. CASE answer
      <4>1. told.late = Nothing
        BY <1>1, <1>3, <3>1, <3>3 DEF Answered, AbortInv
      <4>2. told'.late = Nothing
        BY <3>1, <3>3, <4>1 DEF Answered
      <4>3. Stays(t) /\ at'[t].pc = "unlock"
        BY <3>1, <3>3 DEF Answered, Goes
      <4>4. Told' = Told
        BY <1>1, <3>2, <4>3, TeamIsOfThreads DEF Told, Stays
      <4> QED BY <2>1, <4>1, <4>2, <4>4 DEF LateInv
    <3>4. CASE ~answer
      <4>1. told'.late = told.late + 1
        BY <3>1, <3>4 DEF Answered
      <4>2. Stays(t) /\ at'[t].pc = "stop" /\ t \in Team
        BY <3>1, <3>4, TeamWorks DEF Answered, Goes
      <4>3. Told' = Told \cup {t} /\ t \notin Told
        BY <1>1, <3>2, <4>2, TeamIsOfThreads DEF Told, Stays
      <4>4. Cardinality(Told') = Cardinality(Told) + 1
        BY <2>1, <4>3, OneMore
      <4> QED BY <2>1, <2>2, <4>1, <4>4 DEF LateInv, Nothing
    <3> QED BY <3>3, <3>4
  <2>4. CASE ~Count(t)
    <3>1. told' = told
      BY <2>4 DEF Step, TakeNext, Compute, Store, Lock, Read, Unlock, Clear
    <3>2. Told \subseteq Told' /\ Told' \subseteq Thread
      BY <1>1, <2>4, ToldGrows, TeamIsOfThreads DEF Told
    <3>3. IsFiniteSet(Told')
      BY <3>2, ThreadAssumption, FS_Subset
    <3>4. Cardinality(Told) <= Cardinality(Told') /\ Cardinality(Told') \in Nat
      BY <3>2, <3>3, FS_Subset, FS_CardinalityType
    <3> QED BY <2>1, <2>2, <3>1, <3>4 DEF LateInv, Nothing
  <2> QED BY <2>3, <2>4
<1>4. op.sticky \in BOOLEAN
  BY StepOfOperation DEF Operation
<1> QED BY <1>2, <1>3, <1>4

LEMMA LateStep == Types /\ TeamInv /\ AbortInv /\ LateInv /\ [Next]_vars => LateInv'
<1> SUFFICES ASSUME Types, TeamInv, AbortInv, LateInv, [Next]_vars PROVE LateInv'
  OBVIOUS
<1>1. ASSUME NEW t \in Thread, Step(t) PROVE LateInv'
  BY <1>1, LateThread
<1>2. ASSUME told'.late = Nothing PROVE LateInv'
  <2>1. Told' \subseteq Thread
    BY ThreadAssumption DEF Told, Team
  <2>2. Cardinality(Told') \in Nat
    BY <2>1, ThreadAssumption, FS_Subset, FS_CardinalityType
  <2> QED BY <1>2, <2>2 DEF LateInv, Nothing
<1>3. CASE NextLoop
  BY <1>2, <1>3, NextLoopBegins
<1>4. CASE Return
  BY <1>4 DEF Return, LateInv
<1>5. ASSUME NEW o \in Operation, Begin(o) PROVE LateInv'
  BY <1>2, <1>5 DEF Begin, Silence
<1>6. CASE UNCHANGED vars
  <2>1. UNCHANGED <<op, told, processing, at>>
    BY <1>6 DEF vars, loopVars
  <2> QED BY <2>1 DEF LateInv, Told, Team
<1> QED BY <1>1, <1>3, <1>4, <1>5, <1>6 DEF Next, Runs

-----------------------------------------------------------------------------
(* What the operation leaves behind.                                       *)
LEMMA LastInit == Init => LastInv
BY DEF Init, LastInv

LEMMA ReturnTrue ==
  ASSUME Types, TeamInv, CountInv, StoreInv, AbortInv, Return
  PROVE  LastInv'
<1>1. /\ op # NoOp /\ op \in Operation /\ op.kind \in Kind /\ todo = {} /\ ~Pending
      /\ Stopping = {} /\ Busy = {} /\ Owed = {} /\ Left = {}
  BY EndsIdle DEF Return
<1>2. last' = [op |-> op, ret |-> processing, told |-> told, spoilt |-> spoilt,
               whole |-> stored = Loops(op.kind) * Size(op.kind)]
  BY DEF Return
<1>3. Cardinality({}) = 0
  BY FS_EmptySet
<1>4. ~processing => told.aborted
  BY <1>1 DEF AbortInv
<1>5. loop = Loops(op.kind) \/ (StopsAtOnce(op.kind) /\ ~processing)
  BY DEF Return, Finished
<1>6. ASSUME ~told.aborted
      PROVE  /\ op.counting /\ op.kind # "point" => told.current = Total(op.kind)
             /\ stored = Loops(op.kind) * Size(op.kind)
  <2>1. loop = Loops(op.kind) /\ processing
    BY <1>4, <1>5, <1>6
  <2>2. ASSUME op.counting, op.kind # "point" PROVE told.current = Total(op.kind)
    <3>1. Known = loop * Cardinality(Lines(op.kind)) /\ told.current = told.calls
      BY <1>1, <1>6, <2>2 DEF CountInv
    <3>2. told.calls \in Nat
      BY LateRange
    <3>3. Known = told.calls
      BY <1>1, <1>3, <3>2 DEF Known
    <3> QED BY <1>1, <2>1, <2>2, <3>1, <3>3, LinesAreFew
  <2>3. Taken = loop * Size(op.kind)
    BY <1>1, <1>6 DEF StoreInv
  <2>4. stored \in Nat
    BY DEF Types
  <2>5. Taken = stored
    BY <1>1, <1>3, <2>4 DEF Taken
  <2> QED BY <2>1, <2>2, <2>3, <2>5
<1>7. ASSUME StopsAtOnce(op.kind) \/ op.sticky
      PROVE  processing <=> ~told.aborted
  <2>1. told.late # Nothing <=> ~processing
    BY <1>1 DEF AbortInv
  <2>2. told.aborted => told.late # Nothing
    BY <1>1, <1>7 DEF AbortInv, StopsAtOnce
  <2> QED BY <1>4, <2>1, <2>2
<1>8. spoilt => Shares(op.kind) /\ op.parallel
  BY <1>1 DEF TeamInv
<1>9. processing \in BOOLEAN /\ told.aborted \in BOOLEAN
  BY DEF Types
<1>10. /\ last'.op = op /\ last'.told = told /\ last'.spoilt = spoilt /\ last'.ret = processing
       /\ last'.whole = (stored = Loops(op.kind) * Size(op.kind))
  BY <1>2
<1>11. /\ ~told.aborted => processing /\ last'.whole
       /\ StopsAtOnce(op.kind) \/ op.sticky => (told.aborted => ~processing)
  BY <1>4, <1>6, <1>7, <1>10
<1>12. processing = (told.late = Nothing)
  BY <1>1, <1>9 DEF AbortInv
<1> QED BY <1>6, <1>8, <1>10, <1>11, <1>12 DEF LastInv

LEMMA LastStep ==
  Types /\ TeamInv /\ CountInv /\ StoreInv /\ AbortInv /\ LastInv /\ [Next]_vars => LastInv'
<1> SUFFICES ASSUME Types, TeamInv, CountInv, StoreInv, AbortInv, LastInv, [Next]_vars
             PROVE  LastInv'
  OBVIOUS
<1>1. ASSUME NEW t \in Thread, Step(t) PROVE LastInv'
  BY <1>1, StepOfOperation DEF LastInv
<1>2. CASE NextLoop
  BY <1>2 DEF NextLoop, LastInv
<1>3. CASE Return
  BY <1>3, ReturnTrue
<1>4. ASSUME NEW o \in Operation, Begin(o) PROVE LastInv'
  BY <1>4 DEF Begin, LastInv
<1>5. CASE UNCHANGED vars
  BY <1>5 DEF vars, LastInv
<1> QED BY <1>1, <1>2, <1>3, <1>4, <1>5 DEF Next, Runs

-----------------------------------------------------------------------------
(* Everything at once, for any number of threads and any image.            *)
ProcessInv == Types /\ LockInv /\ TeamInv /\ CountInv /\ StoreInv /\ AbortInv /\ LateInv /\ LastInv

LEMMA InvAlways == Spec => []ProcessInv
<1>1. Init => ProcessInv
  BY TypesInit, LockInit, TeamInit, CountInit, StoreInit, AbortInit, LateInit, LastInit DEF ProcessInv
<1>2. ProcessInv /\ [Next]_vars => ProcessInv'
  BY TypesStep, LockStep, TeamStep, CountStep, StoreStep, AbortStep, LateStep, LastStep DEF ProcessInv
<1> QED BY <1>1, <1>2, PTL DEF Spec

LEMMA TotalBound ==
  ASSUME NEW k \in Kind
  PROVE  Total(k) <= Height * 2 * Depth
<1>1. Height * 2 * Depth \in Nat /\ Height <= Height * 2 * Depth
      /\ Depth * Height <= Height * 2 * Depth /\ (2 * Depth) * Height <= Height * 2 * Depth
  <2>1. \A h, d \in Nat \ {0} : /\ h * 2 * d \in Nat /\ h <= h * 2 * d
                                /\ d * h <= h * 2 * d /\ (2 * d) * h <= h * 2 * d
    <3> TAKE h, d \in Nat \ {0}
    <3>1. PICK p \in Nat : p = h * d
      OBVIOUS
    <3>2. h * 2 * d = 2 * p /\ d * h = p /\ (2 * d) * h = 2 * p
      BY <3>1
    <3>3. h <= p
      <4>1. PICK e \in Nat : d = e + 1
        <5>1. d - 1 \in Nat /\ d = (d - 1) + 1
          OBVIOUS
        <5> QED BY <5>1
      <4>2. h * d = h * e + h /\ h * e \in Nat
        BY <4>1
      <4> QED BY <3>1, <4>2
    <3> QED BY <3>2, <3>3
  <2> QED BY <2>1, SizeAssumption
<1> QED BY <1>1, SizeAssumption DEF Total, Loops

(* Every step keeps the counter in its range and the threads of an         *)
(* operation that is over at rest; current stays below the total.          *)
THEOREM ProcessTypeCorrect == Spec => []TypeOK
<1>1. ProcessInv => TypeOK
  <2> SUFFICES ASSUME ProcessInv PROVE TypeOK
    OBVIOUS
  <2> USE DEF ProcessInv
  <2>1. current \in 0 .. Height * 2 * Depth
    <3>1. Height * 2 * Depth \in Nat
      BY SizeAssumption
    <3>2. CASE op = NoOp
      BY <3>1, <3>2 DEF Types
    <3>3. CASE op # NoOp
      <4>1. op.kind \in Kind /\ op.counting \in BOOLEAN
        BY <3>3 DEF Types, Operation
      <4>2. Total(op.kind) \in Nat /\ Total(op.kind) <= Height * 2 * Depth
        BY <4>1, SizesAreNat, TotalBound
      <4>3. told.calls \in Nat /\ told.calls <= Total(op.kind)
        <5>1. CASE op.counting
          <6>1. told.calls + Cardinality(Owed) <= Total(op.kind)
            BY <3>3, <5>1, CallsFit
          <6> QED BY <4>2, <6>1, ThreadSets, LateRange
        <5>2. CASE ~op.counting
          BY <3>3, <4>2, <5>2 DEF CountInv
        <5> QED BY <4>1, <5>1, <5>2
      <4> QED BY <3>1, <3>3, <4>2, <4>3 DEF CountInv
    <3> QED BY <3>2, <3>3
  <2>2. at \in [Thread -> [pc : {"next", "compute", "store", "lock", "read", "count",
                                 "unlock", "stop", "clear"},
                           n : Nat \cup {Nothing}]]
    BY DEF Types, Places
  <2>3. {processing, spoilt} \subseteq BOOLEAN
    BY DEF Types
  <2> QED BY <2>1, <2>2, <2>3 DEF Types, TypeOK
<1> QED BY <1>1, InvAlways, PTL

(* No count is lost or doubled, however the threads of imCounterInc_OMP    *)
(* come to the lock, and what nobody aborts ends at the total.             *)
THEOREM ProgressAlwaysInOrder == Spec => []ProgressInOrder
<1>1. ProcessInv => ProgressInOrder
  <2> SUFFICES ASSUME ProcessInv PROVE ProgressInOrder
    OBVIOUS
  <2>1. told.calls = told.current
    BY DEF ProcessInv, Types, CountInv, Silence
  <2> QED BY <2>1 DEF ProcessInv, LastInv, ProgressInOrder
<1> QED BY <1>1, InvAlways, PTL

(* What nobody aborts answers 1 and is whole, with its own values except   *)
(* where threads share memory; 0 is answered exactly if the last loop was  *)
(* aborted, which is whenever the callback aborted, but for the mistake of *)
(* Reduce and Resize that AnswerIsTrue names.                              *)
THEOREM AnswerAlwaysTrue == Spec => []AnswerIsTrue
<1>1. ProcessInv => AnswerIsTrue
  BY DEF ProcessInv, LastInv, AnswerIsTrue
<1> QED BY <1>1, InvAlways, PTL

(* A callback that stays with its abort is called at most once more for    *)
(* each other thread, though the flag is cleared outside the lock.         *)
THEOREM AlwaysFewAfterAbort == Spec => []FewAfterAbort
<1>1. ProcessInv => FewAfterAbort
  <2> SUFFICES ASSUME ProcessInv, op # NoOp, op.sticky PROVE told.late < Cardinality(Team)
    BY DEF FewAfterAbort
  <2>1. told.late < Cardinality(Told) /\ told.late \in Nat \cup {Nothing}
    BY LateRange DEF ProcessInv, LateInv
  <2>2. Told \subseteq Team
    BY DEF Told
  <2>3. Cardinality(Told) <= Cardinality(Team) /\ Cardinality(Team) \in Nat /\ Cardinality(Told) \in Nat
    BY <2>2, TeamIsOfThreads, ThreadSets, FS_Subset, FS_CardinalityType
  <2> QED BY <2>1, <2>3 DEF Nothing
<1> QED BY <1>1, InvAlways, PTL

=============================================================================
