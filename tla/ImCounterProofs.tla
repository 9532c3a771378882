-------------------------- MODULE ImCounterProofs ---------------------------
(* Proofs about ImCounter, for any number of counters, files and totals.   *)
EXTENDS ImCounter, FiniteSetTheorems, SequenceTheorems, TLAPS

CounterType == [total : Nat, current : Nat, sequence : Nat, userdata : Nat]

Types ==
  /\ iCounterList \in [Counter -> CounterType]
  /\ opened \subseteq File /\ counter \in [File -> Counter \cup {None}]
  /\ running \in Seq(Operation)

LEMMA InitTypes == Init => Types
BY DEF Init, Types, CounterType, Zeroed

LEMMA NoneIsNoCounter == None \notin Counter
BY DEF None, Counter

LEMMA TopIsOperation == Types /\ Depth > 0 => top \in Operation
BY DEF Types, Depth, top

LEMMA LoopType ==
  ASSUME Types, Depth > 0, NEW n \in Nat, NEW total \in Nat
  PROVE  LoopIs(n, total) \in Seq(Operation)
<1>1. top \in Operation
  BY TopIsOperation
<1>2. [top EXCEPT !.counting = TRUE, !.n = n, !.total = total] \in Operation
  BY <1>1 DEF Operation
<1>3. LoopIs(n, total) = [running EXCEPT ![Depth] =
        [top EXCEPT !.counting = TRUE, !.n = n, !.total = total]]
  BY <1>1 DEF LoopIs, top, Operation, Types, Depth
<1>4. QED
  BY <1>2, <1>3, ExceptSeq DEF Types, Depth

LEMMA ReturnedType == ASSUME Types, Depth > 0 PROVE Returned \in Seq(Operation)
BY DEF Types, Depth, Returned

-----------------------------------------------------------------------------
(* A counter with one field changed.                                       *)
LEMMA SequenceIsNat == ASSUME NEW r \in CounterType PROVE r.sequence \in Nat
BY DEF CounterType

LEMMA SetSequence ==
  ASSUME NEW r \in CounterType, NEW n \in Nat
  PROVE  [r EXCEPT !.sequence = n] \in CounterType /\ [r EXCEPT !.sequence = n].sequence = n
BY DEF CounterType

LEMMA SetUserData ==
  ASSUME NEW r \in CounterType, NEW n \in Nat
  PROVE  /\ [r EXCEPT !.userdata = n] \in CounterType
         /\ [r EXCEPT !.userdata = n].sequence = r.sequence
BY DEF CounterType

LEMMA SetCurrent ==
  ASSUME NEW r \in CounterType, NEW n \in Nat
  PROVE  /\ [r EXCEPT !.current = n] \in CounterType
         /\ [r EXCEPT !.current = n].sequence = r.sequence
BY DEF CounterType

LEMMA SetBoth ==
  ASSUME NEW r \in CounterType, NEW n \in Nat, NEW lock \in Nat
  PROVE  /\ [r EXCEPT !.sequence = n, !.userdata = lock] \in CounterType
         /\ [r EXCEPT !.sequence = n, !.userdata = lock].sequence = n
BY DEF CounterType

(* What the three handlers do to a counter, and what they tell.            *)
LEMMA BeginEffect ==
  ASSUME Types, NEW c \in Counter \cup {None}, NEW lock \in Nat,
         imCounterBegin(c, lock)
  PROVE  /\ iCounterList' \in [Counter -> CounterType]
         /\ \A i \in Counter : iCounterList'[i].sequence =
               IF i = c THEN iCounterList[i].sequence + 1 ELSE iCounterList[i].sequence
<1>1. CASE c = None
  BY <1>1, NoneIsNoCounter DEF imCounterBegin, Types
<1>2. CASE c # None
  <2> DEFINE ct == [iCounterList[c] EXCEPT !.sequence = @ + 1, !.userdata = lock]
  <2>1. c \in Counter /\ iCounterList[c] \in CounterType
    BY <1>2 DEF Types
  <2>2. ct \in CounterType /\ ct.sequence = iCounterList[c].sequence + 1
    <3>1. iCounterList[c].sequence + 1 \in Nat
      BY <2>1, SequenceIsNat
    <3>2. QED
      BY <2>1, <3>1, SetBoth
  <2>3. iCounterList' = [iCounterList EXCEPT ![c] = ct]
    BY <1>2, <2>1 DEF imCounterBegin, Types, CounterType
  <2> HIDE DEF ct
  <2>4. QED
    BY <2>1, <2>2, <2>3 DEF Types
<1>3. QED
  BY <1>1, <1>2

LEMMA EndEffect ==
  ASSUME Types, NEW c \in Counter \cup {None}, NEW lock \in Nat,
         imCounterEnd(c, lock)
  PROVE  /\ iCounterList' \in [Counter -> CounterType]
         /\ \A i \in Counter : i # c => iCounterList'[i] = iCounterList[i]
         /\ c # None => iCounterList'[c].sequence >= iCounterList[c].sequence - 1
<1>1. CASE c = None \/ ~iCounterFunc
  BY <1>1 DEF imCounterEnd, Types, CounterType
<1>2. CASE c # None /\ iCounterFunc
  <2> DEFINE ct == [iCounterList[c] EXCEPT !.userdata = lock]
             silent == ct.sequence = 0 \/ ct.total = 0
             last == ~silent /\ ct.sequence = 1
  <2>1. c \in Counter /\ iCounterList[c] \in CounterType
    BY <1>2 DEF Types
  <2>2. ct \in CounterType /\ ct.sequence = iCounterList[c].sequence
    BY <2>1, SetUserData
  <2>3. iCounterList' = [iCounterList EXCEPT
          ![c] = IF last THEN Zeroed ELSE IF silent THEN ct ELSE [ct EXCEPT !.sequence = @ - 1]]
    BY <1>2 DEF imCounterEnd
  <2>4. Zeroed \in CounterType /\ Zeroed.sequence = 0
    BY DEF Zeroed, CounterType
  <2>5. ASSUME ~silent
        PROVE  /\ [ct EXCEPT !.sequence = @ - 1] \in CounterType
               /\ [ct EXCEPT !.sequence = @ - 1].sequence = ct.sequence - 1
    <3>1. ct.sequence # 0
      BY <2>5
    <3> HIDE DEF ct
    <3>2. ct.sequence - 1 \in Nat
      BY <2>2, <3>1, SequenceIsNat
    <3>3. QED
      BY <2>2, <3>2, SetSequence
  <2> DEFINE new == IF last THEN Zeroed ELSE IF silent THEN ct
                    ELSE [ct EXCEPT !.sequence = @ - 1]
  <2>7. new \in CounterType /\ new.sequence >= ct.sequence - 1
    <3>1. ct.sequence \in Nat
      BY <2>2, SequenceIsNat
    <3> HIDE DEF ct
    <3>2. QED
      BY <2>2, <2>4, <2>5, <3>1
  <2>8. iCounterList' = [iCounterList EXCEPT ![c] = new]
    BY <2>3
  <2> HIDE DEF new, ct
  <2>9. QED
    BY <2>1, <2>2, <2>7, <2>8 DEF Types
<1>3. QED
  BY <1>1, <1>2

LEMMA CountEffect ==
  ASSUME Types, Depth > 0, NEW count \in Nat, Counted(count)
  PROVE  /\ iCounterList' \in [Counter -> CounterType]
         /\ \A i \in Counter : iCounterList'[i].sequence = iCounterList[i].sequence
<1>1. top.counter \in Counter \cup {None}
  BY TopIsOperation DEF Operation
<1>2. CASE Active /\ iCounterList[top.counter].total # 0
  <2>1. top.counter \in Counter /\ iCounterList[top.counter] \in CounterType
    BY <1>1, <1>2 DEF Active, Types
  <2> DEFINE new == IF count = iCounterList[top.counter].total THEN 0 ELSE count
             ct == [iCounterList[top.counter] EXCEPT !.current = new]
  <2>2. ct \in CounterType /\ ct.sequence = iCounterList[top.counter].sequence
    <3>1. new \in Nat
      OBVIOUS
    <3> HIDE DEF new
    <3>2. QED
      BY <2>1, <3>1, SetCurrent
  <2>3. iCounterList' = [iCounterList EXCEPT ![top.counter] = ct]
    BY <1>2, <2>1 DEF Counted, Types, CounterType
  <2> HIDE DEF ct
  <2>4. QED
    BY <2>1, <2>2, <2>3 DEF Types
<1>3. CASE ~(Active /\ iCounterList[top.counter].total # 0)
  BY <1>3 DEF Counted, Types
<1>4. QED
  BY <1>2, <1>3

LEMMA TotalEffect ==
  ASSUME Types, NEW total \in Nat, imCounterTotal(total)
  PROVE  /\ iCounterList' \in [Counter -> CounterType]
         /\ \A i \in Counter : iCounterList'[i].sequence = iCounterList[i].sequence
<1>1. top.counter \in Counter \cup {None}
  BY TopIsOperation DEF Operation, imCounterTotal
<1>2. QED
  BY <1>1 DEF imCounterTotal, Active, Types, CounterType

(* The user data a file leaves alone is a number.                          *)
LEMMA UserData ==
  ASSUME Types, NEW c \in Counter \cup {None}
  PROVE  (IF c = None THEN 0 ELSE iCounterList[c].userdata) \in Nat
BY DEF Types, CounterType

LEMMA DepthIsNat == Types => Depth \in Nat
BY DEF Types, Depth

-----------------------------------------------------------------------------
(* The callback's view follows the counters.                               *)
LEMMA SilenceIsBracketed ==
  ASSUME Bracketed, note' = Silence, shown' = shown,
         \A i \in Counter : iCounterList'[i].sequence = iCounterList[i].sequence
  PROVE  Bracketed'
BY DEF Bracketed, Silence

LEMMA BeginBracketed ==
  ASSUME Types, Bracketed, NEW c \in Counter \cup {None}, NEW lock \in Nat,
         imCounterBegin(c, lock)
  PROVE  Bracketed'
<1>1. CASE c = None
  BY <1>1, SilenceIsBracketed DEF imCounterBegin
<1>2. CASE c # None
  <2>1. c \in Counter /\ iCounterList[c].sequence \in Nat
    BY <1>2, SequenceIsNat DEF Types
  <2>2. iCounterList'[c].sequence > 0
    BY <2>1, BeginEffect
  <2>3. \A i \in Counter \ {c} : iCounterList'[i].sequence = iCounterList[i].sequence
    BY BeginEffect
  <2>4. shown' = shown \cup {c}
    BY <1>2 DEF imCounterBegin
  <2>5. shown' = {i \in Counter : iCounterList'[i].sequence > 0}
    BY <2>1, <2>2, <2>3, <2>4 DEF Bracketed
  <2>6. note'.counter \in {c, None}
    BY <1>2 DEF imCounterBegin, Silence
  <2>7. QED
    BY <2>4, <2>5, <2>6 DEF Bracketed
<1>3. QED
  BY <1>1, <1>2

LEMMA EndBracketed ==
  ASSUME Types, Bracketed, NEW c \in Counter \cup {None}, NEW lock \in Nat,
         imCounterEnd(c, lock)
  PROVE  Bracketed'
<1>1. CASE c = None \/ ~iCounterFunc
  BY <1>1, SilenceIsBracketed DEF imCounterEnd
<1>2. CASE c # None /\ iCounterFunc
  <2> DEFINE ct == [iCounterList[c] EXCEPT !.userdata = lock]
             silent == ct.sequence = 0 \/ ct.total = 0
             last == ~silent /\ ct.sequence = 1
             new == IF last THEN Zeroed ELSE IF silent THEN ct
                    ELSE [ct EXCEPT !.sequence = @ - 1]
  <2>1. c \in Counter /\ iCounterList[c] \in CounterType
    BY <1>2 DEF Types
  <2>2. ct \in CounterType /\ ct.sequence = iCounterList[c].sequence
    BY <2>1, SetUserData
  <2>3. /\ iCounterList' = [iCounterList EXCEPT ![c] = new]
        /\ shown' = IF last THEN shown \ {c} ELSE shown
        /\ note' = IF last THEN [counter |-> c, progress |-> 1001] ELSE Silence
    BY <1>2 DEF imCounterEnd
  <2>4. new.sequence > 0 <=> (~last /\ ct.sequence > 0)
    <3>1. ct.sequence \in Nat
      BY <2>2, SequenceIsNat
    <3>2. CASE last
      BY <3>2 DEF Zeroed
    <3>3. CASE ~last /\ silent
      BY <3>3
    <3>4. CASE ~last /\ ~silent
      <4>1. ct.sequence # 0 /\ ct.sequence # 1
        BY <3>4
      <4>2. new = [ct EXCEPT !.sequence = @ - 1]
        BY <3>4
      <4> HIDE DEF ct
      <4>3. ct.sequence - 1 \in Nat /\ ct.sequence - 1 > 0
        BY <3>1, <4>1
      <4>4. [ct EXCEPT !.sequence = @ - 1].sequence = ct.sequence - 1
        BY <2>2, <4>3, SetSequence
      <4> HIDE DEF new, last
      <4>5. QED
        BY <3>1, <3>4, <4>2, <4>3, <4>4
    <3>5. QED
      BY <3>2, <3>3, <3>4
  <2> HIDE DEF new, last, ct
  <2>5. iCounterList'[c].sequence > 0 <=> (~last /\ iCounterList[c].sequence > 0)
    BY <2>1, <2>2, <2>3, <2>4 DEF Types
  <2>6. \A i \in Counter \ {c} : iCounterList'[i].sequence = iCounterList[i].sequence
    BY <2>3 DEF Types
  <2>7. shown' = {i \in Counter : iCounterList'[i].sequence > 0}
    BY <2>1, <2>3, <2>5, <2>6 DEF Bracketed
  <2>8. note'.counter = None \/ note'.progress = 1001
    BY <2>3 DEF Silence
  <2>9. QED
    BY <2>7, <2>8 DEF Bracketed
<1>3. QED
  BY <1>1, <1>2

LEMMA CountBracketed ==
  ASSUME Types, Bracketed, Depth > 0, NEW count \in Nat, Counted(count), shown' = shown
  PROVE  Bracketed'
<1>1. \A i \in Counter : iCounterList'[i].sequence = iCounterList[i].sequence
  BY CountEffect
<1>2. shown' = {i \in Counter : iCounterList'[i].sequence > 0}
  BY <1>1 DEF Bracketed
<1>3. note'.counter = None \/ note'.counter \in shown
  <2>1. CASE Active /\ iCounterList[top.counter].total # 0
    <3>1. top.counter \in Counter /\ iCounterList[top.counter].sequence > 0
      BY <2>1, TopIsOperation DEF Active, Operation
    <3>2. QED
      BY <2>1, <3>1 DEF Counted, Bracketed
  <2>2. CASE ~(Active /\ iCounterList[top.counter].total # 0)
    BY <2>2 DEF Counted, Silence
  <2>3. QED
    BY <2>1, <2>2
<1>4. QED
  BY <1>2, <1>3 DEF Bracketed

-----------------------------------------------------------------------------
(* Who holds a counter.                                                    *)
Files(i) == {f \in opened : counter[f] = i}
Ops(i) == {d \in 1 .. Depth : running[d].own /\ running[d].counter = i}

Finite == IsFiniteSet(opened)

LEMMA HoldersAreFinite ==
  ASSUME Types, Finite, NEW i \in Counter
  PROVE  /\ IsFiniteSet(Files(i)) /\ IsFiniteSet(Ops(i))
         /\ Cardinality(Files(i)) \in Nat /\ Cardinality(Ops(i)) \in Nat
         /\ Holding(i) = Cardinality(Files(i)) + Cardinality(Ops(i))
<1>1. IsFiniteSet(Files(i))
  BY FS_Subset DEF Files, Finite
<1>2. IsFiniteSet(1 .. Depth)
  BY DepthIsNat, FS_Interval
<1>3. IsFiniteSet(Ops(i))
  BY <1>2, FS_Subset DEF Ops
<1>4. QED
  BY <1>1, <1>3, FS_CardinalityType DEF Holding, Files, Ops

(* Holders and sequence that move together, or holders that only go.       *)
LEMMA SameHolders ==
  ASSUME Types, Types', Finite, Finite', NEW i \in Counter,
         Files(i)' \subseteq Files(i), Ops(i)' \subseteq Ops(i),
         Holding(i) <= iCounterList[i].sequence,
         iCounterList'[i].sequence = iCounterList[i].sequence
  PROVE  Holding(i)' <= iCounterList'[i].sequence
<1>1. /\ Cardinality(Files(i)') <= Cardinality(Files(i))
      /\ Cardinality(Ops(i)') <= Cardinality(Ops(i))
  BY HoldersAreFinite, FS_Subset
<1>2. /\ Cardinality(Files(i)) \in Nat /\ Cardinality(Ops(i)) \in Nat
      /\ Holding(i) = Cardinality(Files(i)) + Cardinality(Ops(i))
  BY HoldersAreFinite
<1>3. IsFiniteSet(Files(i)') /\ IsFiniteSet(Ops(i)')
  BY HoldersAreFinite, FS_Subset
<1>4. /\ Cardinality(Files(i)') \in Nat /\ Cardinality(Ops(i)') \in Nat
      /\ Holding(i)' = Cardinality(Files(i)') + Cardinality(Ops(i)')
  BY <1>3, FS_CardinalityType DEF Holding, Files, Ops
<1>5. iCounterList[i].sequence \in Nat
  BY SequenceIsNat DEF Types
<1>6. QED
  BY <1>1, <1>2, <1>4, <1>5

LEMMA AddOne ==
  ASSUME NEW S, NEW x, IsFiniteSet(S)
  PROVE  /\ Cardinality(S \cup {x}) \in Nat
         /\ Cardinality(S \cup {x}) <= Cardinality(S) + 1
<1>1. Cardinality(S) \in Nat
  BY FS_CardinalityType
<1>2. CASE x \in S
  <2>1. Cardinality(S \cup {x}) = Cardinality(S)
    BY <1>2, FS_AddElement
  <2>2. QED
    BY <1>1, <2>1
<1>3. CASE x \notin S
  <2>1. Cardinality(S \cup {x}) = Cardinality(S) + 1
    BY <1>3, FS_AddElement
  <2>2. QED
    BY <1>1, <2>1
<1>4. QED
  BY <1>2, <1>3

(* One holder more, and one more in the sequence.                          *)
LEMMA OneMoreHolder ==
  ASSUME Types, Finite, NEW i \in Counter, NEW x,
         \/ Files(i)' = Files(i) \cup {x} /\ Ops(i)' = Ops(i)
         \/ Files(i)' = Files(i) /\ Ops(i)' = Ops(i) \cup {x},
         Holding(i) <= iCounterList[i].sequence,
         iCounterList'[i].sequence = iCounterList[i].sequence + 1
  PROVE  Holding(i)' <= iCounterList'[i].sequence
<1>1. /\ IsFiniteSet(Files(i)) /\ IsFiniteSet(Ops(i))
      /\ Cardinality(Files(i)) \in Nat /\ Cardinality(Ops(i)) \in Nat
      /\ Holding(i) = Cardinality(Files(i)) + Cardinality(Ops(i))
  BY HoldersAreFinite
<1>2. /\ Cardinality(Files(i)') \in Nat /\ Cardinality(Ops(i)') \in Nat
      /\ Cardinality(Files(i)') + Cardinality(Ops(i)') <= Holding(i) + 1
  <2>1. /\ Cardinality(Files(i) \cup {x}) \in Nat
        /\ Cardinality(Files(i) \cup {x}) <= Cardinality(Files(i)) + 1
    BY <1>1, AddOne
  <2>2. /\ Cardinality(Ops(i) \cup {x}) \in Nat
        /\ Cardinality(Ops(i) \cup {x}) <= Cardinality(Ops(i)) + 1
    BY <1>1, AddOne
  <2>3. CASE Files(i)' = Files(i) \cup {x} /\ Ops(i)' = Ops(i)
    BY <1>1, <2>1, <2>3
  <2>4. CASE Files(i)' = Files(i) /\ Ops(i)' = Ops(i) \cup {x}
    BY <1>1, <2>2, <2>4
  <2>5. QED
    BY <2>3, <2>4
<1>3. Holding(i)' = Cardinality(Files(i)') + Cardinality(Ops(i)')
  BY DEF Holding, Files, Ops
<1>4. iCounterList[i].sequence \in Nat
  BY SequenceIsNat DEF Types
<1>5. QED
  BY <1>1, <1>2, <1>3, <1>4

(* One holder less, and at most one less in the sequence.                  *)
LEMMA OneHolderLess ==
  ASSUME Types, Finite, NEW i \in Counter, NEW x,
         \/ x \in Files(i) /\ Files(i)' = Files(i) \ {x} /\ Ops(i)' = Ops(i)
         \/ x \in Ops(i) /\ Files(i)' = Files(i) /\ Ops(i)' = Ops(i) \ {x},
         Holding(i) <= iCounterList[i].sequence,
         iCounterList'[i].sequence \in Nat,
         iCounterList'[i].sequence >= iCounterList[i].sequence - 1
  PROVE  Holding(i)' <= iCounterList'[i].sequence
<1>1. /\ IsFiniteSet(Files(i)) /\ IsFiniteSet(Ops(i))
      /\ Cardinality(Files(i)) \in Nat /\ Cardinality(Ops(i)) \in Nat
      /\ Holding(i) = Cardinality(Files(i)) + Cardinality(Ops(i))
  BY HoldersAreFinite
<1>2. Cardinality(Files(i)') + Cardinality(Ops(i)') = Holding(i) - 1
  <2>1. CASE x \in Files(i) /\ Files(i)' = Files(i) \ {x} /\ Ops(i)' = Ops(i)
    <3>1. Cardinality(Files(i) \ {x}) = Cardinality(Files(i)) - 1
      BY <1>1, <2>1, FS_RemoveElement
    <3>2. QED
      BY <1>1, <2>1, <3>1
  <2>2. CASE x \in Ops(i) /\ Files(i)' = Files(i) /\ Ops(i)' = Ops(i) \ {x}
    <3>1. Cardinality(Ops(i) \ {x}) = Cardinality(Ops(i)) - 1
      BY <1>1, <2>2, FS_RemoveElement
    <3>2. QED
      BY <1>1, <2>2, <3>1
  <2>3. QED
    BY <2>1, <2>2
<1>3. Holding(i)' = Cardinality(Files(i)') + Cardinality(Ops(i)')
  BY DEF Holding, Files, Ops
<1>4. iCounterList[i].sequence \in Nat
  BY SequenceIsNat DEF Types
<1>5. QED
  BY <1>1, <1>2, <1>3, <1>4

-----------------------------------------------------------------------------
(* Every step, for the types, the callback's view and the holders.         *)
IInv == Types /\ Finite /\ Bracketed /\ HeldIsNotReleased

LEMMA InitIInv == Init => IInv
<1> SUFFICES ASSUME Init PROVE IInv
  OBVIOUS
<1>1. Types
  BY InitTypes
<1>2. Finite
  BY FS_EmptySet DEF Init, Finite
<1>3. Bracketed
  BY DEF Init, Bracketed, Zeroed, Silence, None
<1>4. HeldIsNotReleased
  <2> SUFFICES ASSUME NEW i \in Counter PROVE Holding(i) <= iCounterList[i].sequence
    BY DEF HeldIsNotReleased
  <2>1. Files(i) = {} /\ Ops(i) = {}
    BY DEF Init, Files, Ops, Depth
  <2>2. Holding(i) = 0 + 0
    BY <2>1, FS_EmptySet DEF Holding, Files, Ops
  <2>3. QED
    BY <2>2 DEF Init, Zeroed
<1>5. QED
  BY <1>1, <1>2, <1>3, <1>4 DEF IInv

LEMMA OpenStep ==
  ASSUME IInv, NEW f \in File, imFileOpen(f)
  PROVE  IInv'
<1>1. PICK c \in Counter \cup {None} :
        /\ imCounterBegin(c, IF c = None THEN 0 ELSE iCounterList[c].userdata)
        /\ counter' = [counter EXCEPT ![f] = c]
  BY DEF imFileOpen
<1>2. (IF c = None THEN 0 ELSE iCounterList[c].userdata) \in Nat
  BY UserData DEF IInv
<1>3. Types'
  BY <1>1, <1>2, BeginEffect DEF IInv, Types, imFileOpen
<1>4. Finite'
  BY FS_AddElement DEF IInv, Finite, imFileOpen
<1>5. Bracketed'
  BY <1>1, <1>2, BeginBracketed DEF IInv
<1>6. ASSUME NEW i \in Counter PROVE Holding(i)' <= iCounterList'[i].sequence
  <2>1. Ops(i)' = Ops(i) /\ Holding(i) <= iCounterList[i].sequence
    BY DEF imFileOpen, Ops, Depth, IInv, HeldIsNotReleased
  <2>2. CASE i = c
    <3>1. Files(i)' = Files(i) \cup {f}
      BY <1>1, <2>2 DEF imFileOpen, Files, IInv, Types
    <3>2. iCounterList'[i].sequence = iCounterList[i].sequence + 1
      BY <1>1, <1>2, <2>2, BeginEffect DEF IInv
    <3>3. QED
      BY <2>1, <3>1, <3>2, OneMoreHolder DEF IInv
  <2>3. CASE i # c
    <3>1. Files(i)' = Files(i)
      BY <1>1, <2>3 DEF imFileOpen, Files, IInv, Types
    <3>2. iCounterList'[i].sequence = iCounterList[i].sequence
      BY <1>1, <1>2, <2>3, BeginEffect DEF IInv
    <3>3. QED
      BY <1>3, <1>4, <2>1, <3>1, <3>2, SameHolders DEF IInv
  <2>4. QED
    BY <2>2, <2>3
<1>7. QED
  BY <1>3, <1>4, <1>5, <1>6 DEF IInv, HeldIsNotReleased

LEMMA CloseStep ==
  ASSUME IInv, NEW f \in File, imFileClose(f)
  PROVE  IInv'
<1> DEFINE c == counter[f]
           lock == IF c = None THEN 0 ELSE iCounterList[c].userdata
<1>1. c \in Counter \cup {None}
  BY DEF IInv, Types
<1>2. lock \in Nat
  BY <1>1, UserData DEF IInv
<1>3. imCounterEnd(c, lock) /\ counter' = [counter EXCEPT ![f] = None] /\ opened' = opened \ {f}
  BY DEF imFileClose
<1>4. f \in opened /\ UNCHANGED running
  BY DEF imFileClose
<1> HIDE DEF lock
<1>5. /\ iCounterList' \in [Counter -> CounterType]
      /\ \A i \in Counter : i # c => iCounterList'[i] = iCounterList[i]
      /\ c # None => iCounterList'[c].sequence >= iCounterList[c].sequence - 1
  BY <1>1, <1>2, <1>3, EndEffect DEF IInv
<1>6. Types'
  BY <1>3, <1>4, <1>5 DEF IInv, Types
<1>7. Finite'
  BY <1>3, FS_RemoveElement DEF IInv, Finite
<1>8. Bracketed'
  BY <1>1, <1>2, <1>3, EndBracketed DEF IInv
<1>9. ASSUME NEW i \in Counter PROVE Holding(i)' <= iCounterList'[i].sequence
  <2>1. Ops(i)' = Ops(i) /\ Holding(i) <= iCounterList[i].sequence
    BY <1>4 DEF Ops, Depth, IInv, HeldIsNotReleased
  <2>2. CASE i = c
    <3>1. Files(i)' = Files(i) \ {f} /\ f \in Files(i)
      BY <1>3, <1>4, <2>2, NoneIsNoCounter DEF Files, IInv, Types
    <3>2. iCounterList'[i].sequence \in Nat
      BY <1>5, SequenceIsNat
    <3>3. QED
      BY <1>5, <2>1, <2>2, <3>1, <3>2, NoneIsNoCounter, OneHolderLess DEF IInv
  <2>3. CASE i # c
    <3>1. Files(i)' \subseteq Files(i)
      BY <1>3, NoneIsNoCounter DEF Files, IInv, Types
    <3>2. QED
      BY <1>5, <1>6, <1>7, <2>1, <2>3, <3>1, SameHolders DEF IInv
  <2>4. QED
    BY <2>2, <2>3
<1>10. QED
  BY <1>6, <1>7, <1>8, <1>9 DEF IInv, HeldIsNotReleased

(* The loop of an operation goes on, and nobody comes or goes.             *)
LEMMA LoopHolders ==
  ASSUME Types, Depth > 0, NEW n \in Nat, NEW total \in Nat,
         running' = LoopIs(n, total), NEW i \in Counter
  PROVE  Ops(i)' = Ops(i)
<1>1. /\ Depth' = Depth
      /\ \A d \in 1 .. Depth : /\ running'[d].own = running[d].own
                              /\ running'[d].counter = running[d].counter
  BY DEF LoopIs, Types, Depth, Operation
<1>2. QED
  BY <1>1 DEF Ops

LEMMA LoopStep ==
  ASSUME IInv, Depth > 0, NEW n \in Nat, NEW total \in Nat,
         running' = LoopIs(n, total), UNCHANGED <<opened, counter>>,
         iCounterList' \in [Counter -> CounterType],
         \A i \in Counter : iCounterList'[i].sequence = iCounterList[i].sequence,
         Bracketed'
  PROVE  IInv'
<1>1. Types'
  BY LoopType DEF IInv, Types
<1>2. Finite'
  BY DEF IInv, Finite
<1>3. ASSUME NEW i \in Counter PROVE Holding(i)' <= iCounterList'[i].sequence
  <2>1. Files(i)' = Files(i) /\ Ops(i)' = Ops(i)
    BY LoopHolders DEF Files, IInv
  <2>2. QED
    BY <1>1, <1>2, <2>1, SameHolders DEF IInv, HeldIsNotReleased
<1>4. QED
  BY <1>1, <1>2, <1>3 DEF IInv, HeldIsNotReleased

LEMMA TotalStep ==
  ASSUME IInv, NEW total \in Totals, imCounterTotal(total)
  PROVE  IInv'
<1>1. total \in Nat
  BY TotalAssumption
<1>2. /\ iCounterList' \in [Counter -> CounterType]
      /\ \A i \in Counter : iCounterList'[i].sequence = iCounterList[i].sequence
  BY <1>1, TotalEffect DEF IInv
<1>3. Bracketed'
  BY <1>2, SilenceIsBracketed DEF IInv, imCounterTotal
<1>4. Depth > 0 /\ running' = LoopIs(0, total) /\ UNCHANGED <<opened, counter>>
  BY DEF imCounterTotal
<1>5. QED
  BY <1>1, <1>2, <1>3, <1>4, LoopStep

(* Both increments: what is counted, and where the loop gets.              *)
LEMMA IncStep ==
  ASSUME IInv, Depth > 0, NEW count \in Nat, NEW n \in Nat,
         Counted(count), running' = LoopIs(n, top.total),
         UNCHANGED <<opened, counter, shown>>
  PROVE  IInv'
<1>1. top.total \in Nat
  BY TopIsOperation DEF Operation, IInv
<1>2. /\ iCounterList' \in [Counter -> CounterType]
      /\ \A i \in Counter : iCounterList'[i].sequence = iCounterList[i].sequence
  BY CountEffect DEF IInv
<1>3. Bracketed'
  BY CountBracketed DEF IInv
<1>4. QED
  BY <1>1, <1>2, <1>3, LoopStep

LEMMA BeginStep ==
  ASSUME IInv, NEW omp \in BOOLEAN, Begin(omp)
  PROVE  IInv'
<1>1. PICK c \in Counter \cup {None} :
        /\ imCounterBegin(c, IF omp \/ c = None THEN Depth + 1
                             ELSE iCounterList[c].userdata)
        /\ running' = Append(running,
             [counter |-> c, own |-> TRUE, omp |-> omp, counting |-> FALSE,
              n |-> 0, total |-> 0])
  BY DEF Begin
<1>2. (IF omp \/ c = None THEN Depth + 1 ELSE iCounterList[c].userdata) \in Nat
  <2>1. Depth + 1 \in Nat
    BY DepthIsNat DEF IInv
  <2>2. c # None => iCounterList[c].userdata \in Nat
    BY DEF IInv, Types, CounterType
  <2>3. QED
    BY <2>1, <2>2
<1>3. UNCHANGED <<opened, counter>>
  BY DEF Begin
<1>4. Types'
  BY <1>1, <1>2, <1>3, BeginEffect DEF IInv, Types, Operation
<1>5. Finite'
  BY <1>3 DEF IInv, Finite
<1>6. Bracketed'
  BY <1>1, <1>2, BeginBracketed DEF IInv
<1>7. /\ Depth \in Nat /\ Depth' = Depth + 1
      /\ \A d \in 1 .. Depth : running'[d] = running[d]
      /\ running'[Depth + 1].own /\ running'[Depth + 1].counter = c
  BY <1>1 DEF IInv, Types, Depth
<1>8. ASSUME NEW i \in Counter PROVE Holding(i)' <= iCounterList'[i].sequence
  <2>1. Files(i)' = Files(i) /\ Holding(i) <= iCounterList[i].sequence
    BY <1>3 DEF Files, IInv, HeldIsNotReleased
  <2>2. 1 .. Depth + 1 = (1 .. Depth) \cup {Depth + 1}
    BY <1>7
  <2>3. CASE i = c
    <3>1. Ops(i)' = Ops(i) \cup {Depth + 1}
      BY <1>7, <2>2, <2>3 DEF Ops
    <3>2. iCounterList'[i].sequence = iCounterList[i].sequence + 1
      BY <1>1, <1>2, <2>3, BeginEffect DEF IInv
    <3>3. QED
      BY <2>1, <3>1, <3>2, OneMoreHolder DEF IInv
  <2>4. CASE i # c
    <3>1. Ops(i)' = Ops(i)
      BY <1>7, <2>2, <2>4 DEF Ops
    <3>2. iCounterList'[i].sequence = iCounterList[i].sequence
      BY <1>1, <1>2, <2>4, BeginEffect DEF IInv
    <3>3. QED
      BY <1>4, <1>5, <2>1, <3>1, <3>2, SameHolders DEF IInv
  <2>5. QED
    BY <2>3, <2>4
<1>9. QED
  BY <1>4, <1>5, <1>6, <1>8 DEF IInv, HeldIsNotReleased

(* What is left of the call stack when the innermost operation returns.    *)
LEMMA ReturnedStack ==
  ASSUME Types, Depth > 0, running' = Returned
  PROVE  /\ Depth \in Nat /\ Depth' = Depth - 1
         /\ \A d \in 1 .. Depth - 1 : running'[d] = running[d]
<1>1. Depth \in Nat /\ Depth - 1 \in Int /\ 1 \in Int
  BY DepthIsNat
<1>2. ASSUME NEW d \in 1 .. Depth - 1 PROVE running[d] \in Operation
  <2>1. d \in 1 .. Len(running)
    BY <1>1 DEF Depth
  <2>2. QED
    BY <2>1 DEF Types
<1>3. /\ Len(Returned) = IF 1 <= Depth - 1 THEN Depth - 1 - 1 + 1 ELSE 0
      /\ \A d \in 1 .. Depth - 1 - 1 + 1 : Returned[d] = running[1 + d - 1]
  <2> DEFINE n == Depth - 1
  <2>1. n \in Int /\ \A d \in 1 .. n : running[d] \in Operation
    BY <1>1, <1>2
  <2> HIDE DEF n
  <2>2. /\ Len(SubSeq(running, 1, n)) = IF 1 <= n THEN n - 1 + 1 ELSE 0
        /\ \A d \in 1 .. n - 1 + 1 : SubSeq(running, 1, n)[d] = running[1 + d - 1]
    BY <1>1, <2>1, SubSeqProperties
  <2>3. QED
    BY <2>2 DEF n, Returned
<1> HIDE DEF Returned
<1>4. Depth' = Depth - 1
  <2>1. Depth' = Len(Returned)
    BY DEF Depth
  <2>2. Depth - 1 = IF 1 <= Depth - 1 THEN Depth - 1 - 1 + 1 ELSE 0
    BY <1>1
  <2>3. QED
    BY <1>3, <2>1, <2>2
<1>5. \A d \in 1 .. Depth - 1 : running'[d] = running[d]
  <2>1. \A d \in 1 .. Depth - 1 : d \in 1 .. Depth - 1 - 1 + 1 /\ 1 + d - 1 = d
    BY <1>1
  <2>2. QED
    BY <1>3, <2>1
<1>6. QED
  BY <1>1, <1>4, <1>5

(* An operation that leaves the stack takes only itself off the holders.   *)
LEMMA ReturnedHolders ==
  ASSUME Types, Depth > 0, running' = Returned, NEW i \in Counter
  PROVE  Ops(i)' = Ops(i) \ {Depth}
<1>1. /\ Depth \in Nat /\ Depth' = Depth - 1
      /\ \A d \in 1 .. Depth - 1 : running'[d] = running[d]
  BY ReturnedStack
<1>2. 1 .. Depth - 1 = (1 .. Depth) \ {Depth}
  BY <1>1
<1>3. QED
  BY <1>1, <1>2 DEF Ops

LEMMA ReturnStep ==
  ASSUME IInv, Return
  PROVE  IInv'
<1>1. Depth > 0 /\ running' = Returned /\ UNCHANGED <<opened, counter>>
  BY DEF Return
<1>2. top.counter \in Counter \cup {None}
  BY <1>1, TopIsOperation DEF Operation, IInv
<1>3. Finite' /\ running' \in Seq(Operation)
  BY <1>1, ReturnedType DEF IInv, Finite
<1>4. ASSUME NEW i \in Counter
      PROVE  /\ Files(i)' = Files(i) /\ Ops(i)' = Ops(i) \ {Depth}
             /\ Holding(i) <= iCounterList[i].sequence
  BY <1>1, ReturnedHolders DEF Files, IInv, HeldIsNotReleased
<1>5. CASE top.own
  <2> DEFINE lock == IF Locks \/ top.counter = None THEN 0
                     ELSE iCounterList[top.counter].userdata
  <2>1. lock \in Nat
    <3>1. top.counter # None => iCounterList[top.counter].userdata \in Nat
      BY <1>2 DEF IInv, Types, CounterType
    <3>2. QED
      BY <3>1
  <2>2. imCounterEnd(top.counter, lock)
    BY <1>5 DEF Return
  <2> HIDE DEF lock
  <2>3. /\ iCounterList' \in [Counter -> CounterType]
        /\ \A i \in Counter : i # top.counter => iCounterList'[i] = iCounterList[i]
        /\ top.counter # None => iCounterList'[top.counter].sequence
                                   >= iCounterList[top.counter].sequence - 1
    BY <1>2, <2>1, <2>2, EndEffect DEF IInv
  <2>4. Types'
    BY <1>1, <1>3, <2>3 DEF IInv, Types
  <2>5. Bracketed'
    BY <1>2, <2>1, <2>2, EndBracketed DEF IInv
  <2>6. ASSUME NEW i \in Counter PROVE Holding(i)' <= iCounterList'[i].sequence
    <3>1. CASE i = top.counter
      <4>1. Depth \in Ops(i)
        BY <1>1, <1>5, <3>1, DepthIsNat DEF Ops, top, IInv
      <4>2. iCounterList'[i].sequence \in Nat
        BY <2>3, SequenceIsNat
      <4>3. QED
        BY <1>4, <2>3, <3>1, <4>1, <4>2, NoneIsNoCounter, OneHolderLess DEF IInv
    <3>2. CASE i # top.counter
      <4>1. iCounterList'[i].sequence = iCounterList[i].sequence
        BY <2>3, <3>2
      <4>2. QED
        BY <1>3, <1>4, <2>4, <4>1, SameHolders DEF IInv
    <3>3. QED
      BY <3>1, <3>2
  <2>7. QED
    BY <1>3, <2>4, <2>5, <2>6 DEF IInv, HeldIsNotReleased
<1>6. CASE ~top.own
  <2>1. note' = Silence /\ UNCHANGED <<iCounterList, shown>>
    BY <1>6 DEF Return
  <2>2. Types'
    BY <1>1, <1>3, <2>1 DEF IInv, Types
  <2>3. Bracketed'
    BY <2>1, SilenceIsBracketed DEF IInv
  <2>4. ASSUME NEW i \in Counter PROVE Holding(i)' <= iCounterList'[i].sequence
    BY <1>3, <1>4, <2>1, <2>2, SameHolders DEF IInv
  <2>5. QED
    BY <1>3, <2>2, <2>3, <2>4 DEF IInv, HeldIsNotReleased
<1>7. QED
  BY <1>5, <1>6

(* Steps that leave the counters alone and add no holder.                  *)
LEMMA QuietStep ==
  ASSUME IInv, note' = Silence \/ note' = note,
         UNCHANGED <<iCounterList, opened, counter, shown>>,
         running' \in Seq(Operation),
         \A i \in Counter : Ops(i)' \subseteq Ops(i)
  PROVE  IInv'
<1>1. Types' /\ Finite'
  BY DEF IInv, Types, Finite
<1>2. Bracketed'
  BY DEF IInv, Bracketed, Silence
<1>3. ASSUME NEW i \in Counter PROVE Holding(i)' <= iCounterList'[i].sequence
  <2>1. Files(i)' = Files(i)
    BY DEF Files
  <2>2. QED
    BY <1>1, <2>1, SameHolders DEF IInv, HeldIsNotReleased
<1>4. QED
  BY <1>1, <1>2, <1>3 DEF IInv, HeldIsNotReleased

LEMMA DataStep ==
  ASSUME IInv, NEW f \in File, FileData(f)
  PROVE  IInv'
<1>1. running' \in Seq(Operation)
  BY DEF FileData, IInv, Types, Operation
<1>2. \A i \in Counter : Ops(i)' \subseteq Ops(i)
  BY DEF FileData, Ops, Depth
<1>3. QED
  BY <1>1, <1>2, QuietStep DEF FileData

LEMMA NextKeepsIInv == IInv /\ [Next]_vars => IInv'
<1> SUFFICES ASSUME IInv, [Next]_vars PROVE IInv'
  OBVIOUS
<1>1. CASE imCounterSetCallback \/ UNCHANGED vars
  <2>1. UNCHANGED <<running, iCounterList, opened, counter, shown>>
    BY <1>1 DEF imCounterSetCallback, vars
  <2>2. \A i \in Counter : Ops(i)' \subseteq Ops(i)
    BY <2>1 DEF Ops, Depth
  <2>3. note' = Silence \/ note' = note
    BY <1>1 DEF imCounterSetCallback, vars
  <2>4. QED
    BY <2>1, <2>2, <2>3, QuietStep DEF IInv, Types
<1>2. CASE \E f \in File : imFileOpen(f) \/ imFileClose(f) \/ FileData(f)
  BY <1>2, OpenStep, CloseStep, DataStep
<1>3. CASE \E omp \in BOOLEAN : Begin(omp)
  BY <1>3, BeginStep
<1>4. CASE Return
  BY <1>4, ReturnStep
<1>5. CASE Crash
  <2>1. \A i \in Counter : Ops(i)' \subseteq Ops(i)
    BY <1>5 DEF Crash, Ops, Depth
  <2>2. QED
    BY <1>5, <2>1, QuietStep DEF Crash
<1>6. CASE \E total \in Totals : imCounterTotal(total)
  BY <1>6, TotalStep
<1>7. CASE imCounterInc
  <2> DEFINE count == IF top.counter = None THEN 0
                      ELSE iCounterList[top.counter].current + 1
  <2>1. Depth > 0 /\ top \in Operation
    BY <1>7, TopIsOperation DEF imCounterInc, IInv
  <2>2. top.n + 1 \in Nat
    BY <2>1 DEF Operation
  <2>3. count \in Nat
    BY <2>1 DEF Operation, IInv, Types, CounterType
  <2>4. Counted(count) /\ running' = LoopIs(top.n + 1, top.total)
        /\ UNCHANGED <<opened, counter, shown>>
    BY <1>7 DEF imCounterInc
  <2> HIDE DEF count
  <2>5. QED
    BY <2>1, <2>2, <2>3, <2>4, IncStep
<1>8. ASSUME NEW total \in Totals, NEW count \in 0 .. total, imCounterIncTo(count)
      PROVE  IInv'
  <2>1. count \in Nat
    BY TotalAssumption
  <2>2. QED
    BY <1>8, <2>1, IncStep DEF imCounterIncTo
<1>9. QED
  BY <1>1, <1>2, <1>3, <1>4, <1>5, <1>6, <1>7, <1>8 DEF Next

LEMMA IInvAlways == Spec => []IInv
BY InitIInv, NextKeepsIInv, PTL DEF Spec

(* Whatever files and operations begin, end, fail or are aborted in, no    *)
(* counter is released to a newcomer while somebody holds it.              *)
THEOREM HeldNeverReleased == Spec => []HeldIsNotReleased
<1>1. IInv => HeldIsNotReleased
  BY DEF IInv
<1>2. QED
  BY <1>1, IInvAlways, PTL

(* The callback always sees a start before progress and before the end,    *)
(* and agrees with the list on which counters are in a sequence.           *)
THEOREM AlwaysBracketed == Spec => []Bracketed
<1>1. IInv => Bracketed
  BY DEF IInv
<1>2. QED
  BY <1>1, IInvAlways, PTL
-----------------------------------------------------------------------------
(* The loop of the innermost operation and the counter it counts in: they  *)
(* agree, and only the innermost operation counts.                         *)
Within(r) ==
  /\ r.total \in Totals \cup {0} /\ r.sequence <= MaxSequence
  /\ r.current > 0 => r.current < r.total

LoopInv ==
  /\ \A d \in 1 .. Depth : d < Depth => ~running[d].counting
  /\ Depth > 0 /\ top.counting =>
       /\ top.total \in Totals /\ top.n <= top.total
       /\ Active => /\ iCounterList[top.counter].total = top.total
                    /\ iCounterList[top.counter].current =
                         IF top.n = top.total THEN 0 ELSE top.n

NoteInv ==
  /\ note \in [counter : Counter \cup {None}, progress : -1 .. 1001]
  /\ ProgressIsOwn

CountInv ==
  /\ \A i \in Counter : Within(iCounterList[i])
  /\ LoopInv /\ NoteInv
  /\ Depth <= MaxDepth + 1
  /\ iCounterFunc \in BOOLEAN /\ crashed \in BOOLEAN

LEMMA SilentNote == ASSUME note' = Silence PROVE NoteInv'
BY DEF NoteInv, ProgressIsOwn, Silence, None

(* Neither the start nor the end of a sequence is progress.                *)
LEMMA EndedNote ==
  ASSUME NEW c \in Counter, NEW p \in {-1, 1001}, note' = [counter |-> c, progress |-> p]
  PROVE  NoteInv'
<1>1. note'.progress = p /\ p \notin 0 .. 1000 /\ p \in -1 .. 1001
  OBVIOUS
<1>2. QED
  BY <1>1 DEF NoteInv, ProgressIsOwn

LEMMA ZeroedWithin == Within(Zeroed)
BY BoundAssumption DEF Within, Zeroed

(* What the handlers do to the limits of the counters and to the note.     *)
LEMMA BeginWithin ==
  ASSUME Types, CountInv, NEW c \in Counter \cup {None}, NEW lock \in Nat,
         imCounterBegin(c, lock)
  PROVE  (\A i \in Counter : Within(iCounterList'[i])) /\ NoteInv'
<1>1. CASE c = None
  BY <1>1, SilentNote DEF imCounterBegin, CountInv
<1>2. CASE c # None
  <2>1. c \in Counter /\ iCounterList[c] \in CounterType /\ iCounterList[c].sequence < MaxSequence
    BY <1>2 DEF Types, imCounterBegin
  <2>2. PICK r : /\ r = [iCounterList[c] EXCEPT !.sequence = @ + 1, !.userdata = lock]
                 /\ iCounterList' = [iCounterList EXCEPT ![c] = r]
    BY <1>2, <2>1 DEF imCounterBegin, Types, CounterType
  <2>3. /\ r.total = iCounterList[c].total /\ r.current = iCounterList[c].current
        /\ r.sequence = iCounterList[c].sequence + 1
    BY <2>1, <2>2 DEF CounterType
  <2>4. Within(r)
    BY <2>1, <2>3, BoundAssumption DEF Within, CountInv, CounterType
  <2>5. \A i \in Counter : Within(iCounterList'[i])
    BY <2>2, <2>4 DEF Types, CountInv
  <2>6. note' = [counter |-> c, progress |-> -1] \/ note' = Silence
    BY <1>2 DEF imCounterBegin
  <2>7. QED
    BY <2>1, <2>5, <2>6, EndedNote, SilentNote
<1>3. QED
  BY <1>1, <1>2

LEMMA EndWithin ==
  ASSUME Types, CountInv, NEW c \in Counter \cup {None}, NEW lock \in Nat,
         imCounterEnd(c, lock)
  PROVE  (\A i \in Counter : Within(iCounterList'[i])) /\ NoteInv'
<1>1. CASE c = None \/ ~iCounterFunc
  BY <1>1, SilentNote DEF imCounterEnd, CountInv
<1>2. CASE c # None /\ iCounterFunc
  <2>1. c \in Counter /\ iCounterList[c] \in CounterType /\ Within(iCounterList[c])
    BY <1>2 DEF Types, CountInv
  <2> DEFINE ct == [iCounterList[c] EXCEPT !.userdata = lock]
  <2>2. ct \in CounterType /\ Within(ct)
    BY <2>1 DEF CounterType, Within
  <2>3. ct.sequence # 0 => Within([ct EXCEPT !.sequence = @ - 1])
    BY <2>2, BoundAssumption DEF CounterType, Within
  <2>4. \E r : /\ iCounterList' = [iCounterList EXCEPT ![c] = r]
               /\ r \in {Zeroed, ct} \/ (ct.sequence # 0 /\ r = [ct EXCEPT !.sequence = @ - 1])
    BY <1>2 DEF imCounterEnd
  <2>5. note' = [counter |-> c, progress |-> 1001] \/ note' = Silence
    BY <1>2 DEF imCounterEnd
  <2> HIDE DEF ct
  <2>6. \A i \in Counter : Within(iCounterList'[i])
    BY <2>1, <2>2, <2>3, <2>4, ZeroedWithin DEF Types, CountInv
  <2>7. QED
    BY <2>1, <2>5, <2>6, EndedNote, SilentNote
<1>3. QED
  BY <1>1, <1>2

(* The next step of the loop.                                              *)
LEMMA LoopEffect ==
  ASSUME Types, Depth > 0, NEW n \in Nat, NEW total \in Nat, running' = LoopIs(n, total)
  PROVE  /\ Depth' = Depth
         /\ \A d \in 1 .. Depth : d < Depth => running'[d] = running[d]
         /\ top' = [top EXCEPT !.counting = TRUE, !.n = n, !.total = total]
<1>1. Depth \in Nat /\ top \in Operation
  BY TopIsOperation, DepthIsNat
<1>2. running' = [running EXCEPT ![Depth] =
        [top EXCEPT !.counting = TRUE, !.n = n, !.total = total]]
  BY <1>1 DEF LoopIs, top, Operation, Types, Depth
<1>3. Len(running') = Len(running)
  BY <1>2 DEF Types
<1>4. Depth' = Depth
  BY <1>3 DEF Depth
<1>5. Depth \in DOMAIN running /\ DOMAIN running = 1 .. Depth
  BY <1>1 DEF Types, Depth
<1>6. running'[Depth] = [top EXCEPT !.counting = TRUE, !.n = n, !.total = total]
  BY <1>2, <1>5
<1>7. \A d \in 1 .. Depth : d < Depth => running'[d] = running[d]
  BY <1>1, <1>2, <1>5
<1>8. QED
  BY <1>4, <1>6, <1>7 DEF top

LEMMA LoopFields ==
  ASSUME Types, Depth > 0, NEW n \in Nat, NEW total \in Nat, running' = LoopIs(n, total)
  PROVE  /\ Depth' = Depth
         /\ \A d \in 1 .. Depth : d < Depth => running'[d] = running[d]
         /\ top'.counter = top.counter /\ top'.own = top.own /\ top'.omp = top.omp
         /\ top'.counting /\ top'.n = n /\ top'.total = total
<1>1. /\ Depth' = Depth
      /\ \A d \in 1 .. Depth : d < Depth => running'[d] = running[d]
      /\ top' = [top EXCEPT !.counting = TRUE, !.n = n, !.total = total]
  BY LoopEffect
<1>2. top \in Operation
  BY TopIsOperation
<1> HIDE DEF top
<1>3. /\ top'.counter = top.counter /\ top'.own = top.own /\ top'.omp = top.omp
      /\ top'.counting /\ top'.n = n /\ top'.total = total
  BY <1>1, <1>2 DEF Operation
<1>4. QED
  BY <1>1, <1>3

(* A part of a whole in thousandths.                                       *)
LEMMA Thousandths ==
  ASSUME NEW n \in Nat, NEW t \in Nat \ {0}, n <= t
  PROVE  (n * 1000) \div t \in 0 .. 1000
<1>1. n * 1000 <= 1000 * t /\ n * 1000 \in Nat
  OBVIOUS
<1> DEFINE q == (n * 1000) \div t
<1>2. q \in Int /\ t * q <= n * 1000 /\ n * 1000 < t * (q + 1)
  OBVIOUS
<1> HIDE DEF q
<1>3. q >= 0
  BY <1>1, <1>2
<1>4. q <= 1000
  BY <1>1, <1>2
<1>5. QED
  BY <1>2, <1>3, <1>4 DEF q

LEMMA TotalsArePositive == \A total \in Totals : total \in Nat \ {0}
BY TotalAssumption

LEMMA SetCount ==
  ASSUME NEW r \in CounterType, NEW n \in Nat
  PROVE  LET q == [r EXCEPT !.current = n]
         IN /\ q \in CounterType /\ q.current = n /\ q.total = r.total
            /\ q.sequence = r.sequence /\ q.userdata = r.userdata
BY DEF CounterType

(* The loop goes from top.n to count, and so does its counter.             *)
LEMMA CountCounts ==
  ASSUME Types, CountInv, Depth > 0, top.counting, NEW count \in Nat, NEW told \in Nat,
         count <= top.total,
         Active => told = count,
         running' = LoopIs(count, top.total), Counted(told), UNCHANGED <<iCounterFunc, crashed>>
  PROVE  CountInv'
<1>1. top \in Operation /\ top.total \in Totals /\ top.total \in Nat \ {0}
  BY TopIsOperation, TotalsArePositive DEF CountInv, LoopInv
<1>2. /\ Depth' = Depth
      /\ \A d \in 1 .. Depth : d < Depth => running'[d] = running[d]
  BY <1>1, LoopFields
<1>3. /\ top'.counter = top.counter /\ top'.counting
      /\ top'.n = count /\ top'.total = top.total
  BY <1>1, LoopFields
<1>4. iCounterList' \in [Counter -> CounterType]
  BY CountEffect
<1>5. CASE Active
  <2> DEFINE c == top.counter
             new == IF count = top.total THEN 0 ELSE count
             ct == [iCounterList[c] EXCEPT !.current = new]
  <2>1. c \in Counter /\ iCounterList[c] \in CounterType /\ Within(iCounterList[c])
    BY <1>1, <1>5 DEF Active, Operation, Types, CountInv
  <2>2. iCounterList[c].total = top.total /\ iCounterList[c].sequence > 0
    BY <1>5 DEF CountInv, LoopInv, Active
  <2>3. /\ iCounterList' = [iCounterList EXCEPT ![c] = ct]
        /\ note' = [counter |-> c, progress |-> (count * 1000) \div top.total]
    BY <1>1, <1>5, <2>1, <2>2 DEF Counted
  <2>4. new \in Nat /\ (new > 0 => new < top.total)
    BY <1>1
  <2> HIDE DEF new
  <2>5. ct.current = new /\ ct.total = top.total /\ ct.sequence = iCounterList[c].sequence
    BY <2>1, <2>2, <2>4, SetCount
  <2> HIDE DEF ct
  <2>6. Within(ct)
    BY <2>1, <2>2, <2>4, <2>5 DEF Within
  <2>7. \A i \in Counter : Within(iCounterList'[i])
    BY <2>1, <2>3, <2>6 DEF Types, CountInv
  <2>8. LoopInv'
    <3>1. iCounterList'[top'.counter].total = top'.total
      BY <1>3, <2>1, <2>3, <2>5 DEF Types
    <3>2. iCounterList'[top'.counter].current = IF top'.n = top'.total THEN 0 ELSE top'.n
      BY <1>3, <2>1, <2>3, <2>5 DEF Types, new
    <3>3. QED
      BY <1>1, <1>2, <1>3, <3>1, <3>2 DEF LoopInv, CountInv
  <2>9. NoteInv'
    <3>1. (count * 1000) \div top.total \in 0 .. 1000
      <4>1. PICK t \in Nat \ {0} : t = top.total
        BY <1>1
      <4>2. count <= t
        BY <4>1
      <4>3. (count * 1000) \div t \in 0 .. 1000
        BY <4>2, Thousandths
      <4>4. QED
        BY <4>1, <4>3
    <3>2. note'.counter = c /\ note'.progress = (count * 1000) \div top.total
      BY <2>3
    <3>3. note' \in [counter : Counter \cup {None}, progress : -1 .. 1001]
      BY <2>1, <2>3, <3>1
    <3>4. QED
      BY <1>2, <1>3, <3>2, <3>3 DEF NoteInv, ProgressIsOwn
  <2>10. QED
    BY <1>2, <2>7, <2>8, <2>9 DEF CountInv
<1>6. CASE ~Active
  <2>1. iCounterList' = iCounterList /\ note' = Silence
    BY <1>6 DEF Counted
  <2>2. ~Active'
    BY <1>3, <1>6, <2>1 DEF Active
  <2>3. LoopInv'
    BY <1>1, <1>2, <1>3, <2>2 DEF LoopInv, CountInv
  <2>4. QED
    BY <1>2, <2>1, <2>3, SilentNote DEF CountInv
<1>7. QED
  BY <1>5, <1>6

LEMMA TotalCounts ==
  ASSUME Types, CountInv, NEW total \in Totals, imCounterTotal(total)
  PROVE  CountInv'
<1>1. Depth > 0 /\ top \in Operation /\ total \in Nat \ {0} /\ running' = LoopIs(0, total)
  BY TopIsOperation, TotalsArePositive DEF imCounterTotal
<1>2. /\ Depth' = Depth
      /\ \A d \in 1 .. Depth : d < Depth => running'[d] = running[d]
  BY <1>1, LoopFields
<1>3. /\ top'.counter = top.counter /\ top'.counting
      /\ top'.n = 0 /\ top'.total = total
  BY <1>1, LoopFields
<1>4. NoteInv' /\ UNCHANGED <<iCounterFunc, crashed>>
  BY SilentNote DEF imCounterTotal
<1>5. CASE Active
  <2> DEFINE c == top.counter
             ct == [iCounterList[c] EXCEPT !.total = total, !.current = 0]
  <2>1. c \in Counter /\ iCounterList[c] \in CounterType /\ Within(iCounterList[c])
    BY <1>1, <1>5 DEF Active, Operation, Types, CountInv
  <2>2. iCounterList' = [iCounterList EXCEPT ![c] = ct]
    BY <1>5, <2>1 DEF imCounterTotal, Types, CounterType
  <2>3. ct.current = 0 /\ ct.total = total /\ ct.sequence = iCounterList[c].sequence
    BY <2>1 DEF CounterType
  <2> HIDE DEF ct
  <2>4. Within(ct)
    BY <2>1, <2>3 DEF Within
  <2>5. \A i \in Counter : Within(iCounterList'[i])
    BY <2>1, <2>2, <2>4 DEF Types, CountInv
  <2>6. LoopInv'
    <3>1. iCounterList'[top'.counter].total = top'.total
          /\ iCounterList'[top'.counter].current = 0
      BY <1>3, <2>1, <2>2, <2>3 DEF Types
    <3>2. QED
      BY <1>1, <1>2, <1>3, <3>1 DEF LoopInv, CountInv
  <2>7. QED
    BY <1>2, <1>4, <2>5, <2>6 DEF CountInv
<1>6. CASE ~Active
  <2>1. iCounterList' = iCounterList
    BY <1>6 DEF imCounterTotal
  <2>2. ~Active'
    BY <1>3, <1>4, <1>6, <2>1 DEF Active
  <2>3. LoopInv'
    BY <1>1, <1>2, <1>3, <2>2 DEF LoopInv, CountInv
  <2>4. QED
    BY <1>2, <1>4, <2>1, <2>3 DEF CountInv
<1>7. QED
  BY <1>5, <1>6

(* Once an operation calls another one or returns, none counts.            *)
LEMMA NoneCounts ==
  ASSUME \A d \in 1 .. Depth' : ~running'[d].counting, Depth' \in Nat
  PROVE  LoopInv'
BY DEF LoopInv, top

LEMMA OnlyTopCounts ==
  ASSUME Types, CountInv, NEW d \in 1 .. Depth, d < Depth PROVE ~running[d].counting
BY DEF CountInv, LoopInv

LEMMA BeginCounts ==
  ASSUME Types, CountInv, NEW omp \in BOOLEAN, Begin(omp)
  PROVE  CountInv'
<1>1. PICK c \in Counter \cup {None} :
        /\ imCounterBegin(c, IF omp \/ c = None THEN Depth + 1 ELSE iCounterList[c].userdata)
        /\ running' = Append(running,
             [counter |-> c, own |-> TRUE, omp |-> omp, counting |-> FALSE,
              n |-> 0, total |-> 0])
  BY DEF Begin
<1>2. Depth \in Nat /\ Depth < MaxDepth /\ MaxDepth \in Nat
  BY DepthIsNat, BoundAssumption DEF Begin
<1>3. (IF omp \/ c = None THEN Depth + 1 ELSE iCounterList[c].userdata) \in Nat
  BY <1>2 DEF Types, CounterType
<1>4. (\A i \in Counter : Within(iCounterList'[i])) /\ NoteInv'
  BY <1>1, <1>3, BeginWithin
<1>5. /\ Depth' = Depth + 1
      /\ \A d \in 1 .. Depth : running'[d] = running[d]
      /\ ~running'[Depth + 1].counting
  BY <1>1, <1>2 DEF Types, Depth
<1>6. \A d \in 1 .. Depth : ~running[d].counting
  BY <1>2, OnlyTopCounts DEF Begin, top
<1>7. LoopInv'
  BY <1>2, <1>5, <1>6, NoneCounts
<1>8. QED
  BY <1>2, <1>4, <1>5, <1>7 DEF CountInv, Begin

LEMMA ReturnCounts == ASSUME Types, CountInv, Return PROVE CountInv'
<1>1. Depth > 0 /\ Depth \in Nat /\ top \in Operation /\ running' = Returned
  BY TopIsOperation, DepthIsNat DEF Return
<1>2. (\A i \in Counter : Within(iCounterList'[i])) /\ NoteInv'
  <2>1. CASE top.own
    <3> DEFINE lock == IF Locks \/ top.counter = None THEN 0
                       ELSE iCounterList[top.counter].userdata
    <3>1. top.counter \in Counter \cup {None}
      BY <1>1 DEF Operation
    <3>2. lock \in Nat
      BY <3>1 DEF Types, CounterType
    <3>3. imCounterEnd(top.counter, lock)
      BY <2>1 DEF Return
    <3> HIDE DEF lock
    <3>4. QED
      BY <3>1, <3>2, <3>3, EndWithin
  <2>2. CASE ~top.own
    BY <2>2, SilentNote DEF Return, CountInv
  <2>3. QED
    BY <2>1, <2>2
<1>3. Depth' = Depth - 1 /\ \A d \in 1 .. Depth - 1 : running'[d] = running[d]
  BY <1>1, ReturnedStack
<1>4. \A d \in 1 .. Depth' : ~running'[d].counting
  BY <1>1, <1>3, OnlyTopCounts
<1>5. LoopInv'
  BY <1>1, <1>3, <1>4, NoneCounts
<1>6. Depth' <= MaxDepth + 1
  BY <1>1, <1>3, BoundAssumption DEF CountInv
<1>7. QED
  BY <1>2, <1>5, <1>6 DEF CountInv, Return

(* What the application does between operations.                           *)
LEMMA FileCounts ==
  ASSUME Types, CountInv, NEW f \in File, imFileOpen(f) \/ imFileClose(f)
  PROVE  CountInv'
<1>1. running = <<>> /\ running' = <<>> /\ UNCHANGED <<iCounterFunc, crashed>>
  BY DEF imFileOpen, imFileClose
<1>2. LoopInv' /\ Depth' <= MaxDepth + 1
  BY <1>1, BoundAssumption DEF LoopInv, Depth
<1>3. CASE imFileOpen(f)
  <2>1. PICK c \in Counter \cup {None} :
          imCounterBegin(c, IF c = None THEN 0 ELSE iCounterList[c].userdata)
    BY <1>3 DEF imFileOpen
  <2>2. (IF c = None THEN 0 ELSE iCounterList[c].userdata) \in Nat
    BY UserData
  <2>3. QED
    BY <1>1, <1>2, <2>1, <2>2, BeginWithin DEF CountInv
<1>4. CASE imFileClose(f)
  <2> DEFINE c == counter[f]
             lock == IF c = None THEN 0 ELSE iCounterList[c].userdata
  <2>1. c \in Counter \cup {None}
    BY DEF Types
  <2>2. lock \in Nat
    BY <2>1, UserData
  <2>3. imCounterEnd(c, lock)
    BY <1>4 DEF imFileClose
  <2> HIDE DEF lock, c
  <2>4. QED
    BY <1>1, <1>2, <2>1, <2>2, <2>3, EndWithin DEF CountInv
<1>5. QED
  BY <1>3, <1>4

LEMMA CountInit == Init => CountInv
<1> SUFFICES ASSUME Init PROVE CountInv
  OBVIOUS
<1>1. NoteInv
  BY DEF Init, NoteInv, ProgressIsOwn, Silence, None
<1>2. LoopInv /\ Depth <= MaxDepth + 1
  BY BoundAssumption DEF Init, LoopInv, Depth
<1>3. \A i \in Counter : Within(iCounterList[i])
  BY ZeroedWithin DEF Init
<1>4. QED
  BY <1>1, <1>2, <1>3 DEF Init, CountInv

LEMMA CountStep == Types /\ CountInv /\ [Next]_vars => CountInv'
<1> SUFFICES ASSUME Types, CountInv, [Next]_vars PROVE CountInv'
  OBVIOUS
<1>1. CASE imCounterSetCallback \/ Crash \/ (\E f \in File : FileData(f))
  <2>1. /\ NoteInv' /\ UNCHANGED iCounterList
        /\ iCounterFunc' \in BOOLEAN /\ crashed' \in BOOLEAN
    BY <1>1, SilentNote DEF imCounterSetCallback, Crash, FileData, CountInv
  <2>2. CASE running' = <<>>
    BY <2>1, <2>2, BoundAssumption DEF CountInv, LoopInv, Depth
  <2>3. CASE \E f \in File : FileData(f)
    <3>1. Len(running') = 1 /\ ~running'[1].counting
      BY <2>3 DEF FileData
    <3>2. LoopInv' /\ Depth' <= MaxDepth + 1
      BY <3>1, BoundAssumption DEF LoopInv, Depth, top
    <3>3. QED
      BY <2>1, <3>2 DEF CountInv
  <2>4. QED
    BY <1>1, <2>2, <2>3 DEF imCounterSetCallback, Crash
<1>2. CASE UNCHANGED vars
  BY <1>2 DEF vars, CountInv, LoopInv, NoteInv, ProgressIsOwn, Depth, top, Active
<1>3. CASE \E f \in File : imFileOpen(f) \/ imFileClose(f)
  BY <1>3, FileCounts
<1>4. CASE \E omp \in BOOLEAN : Begin(omp)
  BY <1>4, BeginCounts
<1>5. CASE Return
  BY <1>5, ReturnCounts
<1>6. CASE \E total \in Totals : imCounterTotal(total)
  BY <1>6, TotalCounts
<1>7. CASE imCounterInc
  <2> DEFINE told == IF top.counter = None THEN 0
                     ELSE iCounterList[top.counter].current + 1
  <2>1. Depth > 0 /\ top.counting /\ top \in Operation /\ top.n < top.total
    BY <1>7, TopIsOperation DEF imCounterInc
  <2>2. top.n + 1 \in Nat /\ top.n + 1 <= top.total /\ top.n # top.total
    BY <2>1 DEF Operation
  <2>3. told \in Nat
    BY <2>1 DEF Operation, Types, CounterType
  <2>4. Active => told = top.n + 1
    BY <2>1, <2>2 DEF CountInv, LoopInv, Active
  <2>5. /\ running' = LoopIs(top.n + 1, top.total) /\ Counted(told)
        /\ UNCHANGED <<iCounterFunc, crashed>>
    BY <1>7 DEF imCounterInc
  <2> HIDE DEF told
  <2>6. QED
    BY <2>1, <2>2, <2>3, <2>4, <2>5, CountCounts
<1>8. ASSUME NEW total \in Totals, NEW count \in 0 .. total, imCounterIncTo(count)
      PROVE  CountInv'
  <2>1. count \in Nat /\ Depth > 0 /\ top.counting /\ top \in Operation
    BY <1>8, TopIsOperation, TotalsArePositive DEF imCounterIncTo
  <2>2. count <= top.total
    BY <1>8, <2>1 DEF imCounterIncTo, Operation
  <2>3. QED
    BY <1>8, <2>1, <2>2, CountCounts DEF imCounterIncTo
<1>9. QED
  BY <1>1, <1>2, <1>3, <1>4, <1>5, <1>6, <1>7, <1>8 DEF Next

LEMMA CountAlways == Spec => [](IInv /\ CountInv)
<1>1. IInv => Types
  BY DEF IInv
<1>2. QED
  BY <1>1, InitIInv, NextKeepsIInv, CountInit, CountStep, PTL DEF Spec

(* Counters, operations and what the callback is told keep their types; a  *)
(* count that is under way has not reached its total.                      *)
THEOREM CounterTypeCorrect == Spec => []TypeOK
<1>1. IInv /\ CountInv => TypeOK
  <2> SUFFICES ASSUME IInv, CountInv PROVE TypeOK
    OBVIOUS
  <2>1. iCounterList \in [Counter -> [total : Totals \cup {0}, current : Nat,
                                      sequence : 0 .. MaxSequence, userdata : Nat]]
    <3> SUFFICES ASSUME NEW i \in Counter
                 PROVE  iCounterList[i] \in [total : Totals \cup {0}, current : Nat,
                                             sequence : 0 .. MaxSequence, userdata : Nat]
      BY DEF IInv, Types
    <3>1. iCounterList[i] \in CounterType /\ Within(iCounterList[i])
      BY DEF IInv, Types, CountInv
    <3>2. QED
      BY <3>1, BoundAssumption DEF CounterType, Within
  <2>2. shown \subseteq Counter
    BY DEF IInv, Bracketed
  <2>3. QED
    BY <2>1, <2>2 DEF TypeOK, IInv, Types, CountInv, Within, NoteInv
<1>2. QED
  BY <1>1, CountAlways, PTL

(* Progress told is always that of the operation that runs, whatever an    *)
(* aborted count or another holder of the counter left in it.              *)
THEOREM ProgressAlwaysOwn == Spec => []ProgressIsOwn
<1>1. CountInv => ProgressIsOwn
  BY DEF CountInv, NoteInv
<1>2. QED
  BY <1>1, CountAlways, PTL

-----------------------------------------------------------------------------
(* An operation of the OpenMP variant calls only such operations, and its  *)
(* counter holds its lock, the lock of one it called in the same counter,  *)
(* or none.                                                                *)
LocksOf(d) ==
  {0} \cup {e \in d .. Depth : running[e].counter = running[d].counter}
LockInv ==
  \A d \in 1 .. Depth :
    /\ running[d].omp <=> top.omp
    /\ running[d].omp => running[d].own
    /\ running[d].omp /\ running[d].counter # None =>
         iCounterFunc /\ iCounterList[running[d].counter].userdata \in LocksOf(d)

LEMMA CounterAt ==
  ASSUME Types, NEW d \in 1 .. Depth, running[d].counter # None
  PROVE  running[d].counter \in Counter
<1>1. running[d] \in Operation
  BY DEF Types, Depth
<1>2. QED
  BY <1>1 DEF Operation

(* Without an operation of the variant there is no lock to speak of.       *)
LEMMA NoLocks ==
  ASSUME Depth' \in Nat, \A d \in 1 .. Depth' : ~running'[d].omp
  PROVE  LockInv'
BY DEF LockInv, top

(* A count touches no lock.                                                *)
LEMMA CountedLocks ==
  ASSUME Types, LockInv, Depth > 0, NEW n \in Nat, NEW total \in Nat,
         running' = LoopIs(n, total), UNCHANGED iCounterFunc,
         \A i \in Counter : iCounterList'[i].userdata = iCounterList[i].userdata
  PROVE  LockInv'
<1>1. /\ Depth' = Depth /\ Depth \in Nat /\ top \in Operation
      /\ \A d \in 1 .. Depth : d < Depth => running'[d] = running[d]
      /\ top'.counter = top.counter /\ top'.own = top.own /\ top'.omp = top.omp
  BY LoopFields, DepthIsNat, TopIsOperation
<1>2. \A d \in 1 .. Depth : /\ running'[d].counter = running[d].counter
                            /\ running'[d].own = running[d].own
                            /\ running'[d].omp = running[d].omp
  <2>1. running'[Depth] = top' /\ running[Depth] = top
    BY <1>1 DEF top
  <2>2. \A d \in 1 .. Depth : d < Depth \/ d = Depth
    BY <1>1
  <2>3. QED
    BY <1>1, <2>1, <2>2
<1>3. ASSUME NEW d \in 1 .. Depth', running'[d].omp, running'[d].counter # None
      PROVE  iCounterFunc' /\ iCounterList'[running'[d].counter].userdata \in LocksOf(d)'
  <2>1. iCounterFunc /\ iCounterList[running[d].counter].userdata \in LocksOf(d)
    BY <1>1, <1>2, <1>3 DEF LockInv
  <2>2. running[d].counter \in Counter
    BY <1>1, <1>2, <1>3, CounterAt
  <2>3. LocksOf(d)' = LocksOf(d)
    <3>1. \A e \in d .. Depth : running'[e].counter = running[e].counter
      BY <1>1, <1>2
    <3>2. running'[d].counter = running[d].counter
      BY <1>1, <1>2
    <3>3. QED
      BY <1>1, <3>1, <3>2 DEF LocksOf
  <2>4. QED
    BY <1>1, <1>2, <2>1, <2>2, <2>3
<1>4. QED
  BY <1>1, <1>2, <1>3 DEF LockInv

LEMMA CountedUserData ==
  ASSUME Types, NEW told \in Nat, Counted(told), NEW i \in Counter
  PROVE  iCounterList'[i].userdata = iCounterList[i].userdata
<1>1. iCounterList[i] \in CounterType
  BY DEF Types
<1> DEFINE c == top.counter
           new == IF told = iCounterList[c].total THEN 0 ELSE told
<1>2. CASE UNCHANGED iCounterList
  BY <1>2
<1>3. CASE iCounterList' = [iCounterList EXCEPT ![c].current = new]
  <2> HIDE DEF c, new
  <2>1. iCounterList'[i] = iCounterList[i]
        \/ iCounterList'[i] = [iCounterList[i] EXCEPT !.current = new]
    BY <1>3 DEF Types
  <2>2. QED
    BY <1>1, <2>1 DEF CounterType
<1>4. QED
  BY <1>2, <1>3 DEF Counted

LEMMA BeginLocks ==
  ASSUME Types, LockInv, NEW omp \in BOOLEAN, Begin(omp)
  PROVE  LockInv'
<1>1. PICK c \in Counter \cup {None} :
        /\ Chosen(c)
        /\ imCounterBegin(c, IF omp \/ c = None THEN Depth + 1 ELSE iCounterList[c].userdata)
        /\ running' = Append(running,
             [counter |-> c, own |-> TRUE, omp |-> omp, counting |-> FALSE,
              n |-> 0, total |-> 0])
  BY DEF Begin
<1>2. Depth \in Nat /\ UNCHANGED iCounterFunc
  BY DepthIsNat DEF Begin
<1>3. /\ Depth' = Depth + 1
      /\ \A d \in 1 .. Depth : running'[d] = running[d]
      /\ running'[Depth + 1].counter = c /\ running'[Depth + 1].own
      /\ running'[Depth + 1].omp = omp
  BY <1>1, <1>2 DEF Types, Depth
<1>4. \A d \in 1 .. Depth : running[d].omp <=> omp
  BY <1>2 DEF LockInv, Begin
<1>5. CASE ~omp
  <2>1. \A d \in 1 .. Depth' : ~running'[d].omp
    BY <1>2, <1>3, <1>4, <1>5
  <2>2. QED
    BY <1>2, <1>3, <2>1, NoLocks
<1>6. CASE omp
  <2>1. top'.omp = omp
    BY <1>3 DEF top
  <2>2. /\ c # None => iCounterFunc /\ iCounterList'[c].userdata = Depth + 1
        /\ \A i \in Counter : i # c => iCounterList'[i] = iCounterList[i]
    <3>1. CASE c = None
      BY <1>1, <3>1 DEF imCounterBegin
    <3>2. CASE c # None
      <4>1. c \in Counter /\ iCounterFunc
        BY <3>2 , <1>1 DEF Chosen
      <4>2. iCounterList' = [iCounterList EXCEPT ![c].sequence = @ + 1,
                                                 ![c].userdata = Depth + 1]
        BY <1>1, <1>6, <3>2 DEF imCounterBegin
      <4>3. iCounterList[c] \in CounterType
        BY <4>1 DEF Types
      <4>4. QED
        BY <4>1, <4>2, <4>3 DEF Types, CounterType
    <3>3. QED
      BY <3>1, <3>2
  <2>3. ASSUME NEW d \in 1 .. Depth', running'[d].counter # None
        PROVE  iCounterFunc' /\ iCounterList'[running'[d].counter].userdata \in LocksOf(d)'
    <3>1. CASE running'[d].counter = c
      <4>1. Depth + 1 \in d .. Depth' /\ running'[Depth + 1].counter = c
        BY <1>2, <1>3
      <4>2. Depth + 1 \in LocksOf(d)'
        BY <3>1, <4>1 DEF LocksOf
      <4>3. QED
        BY <1>2, <2>2, <2>3, <3>1, <4>2
    <3>2. CASE running'[d].counter # c
      <4>1. d \in 1 .. Depth /\ running'[d] = running[d]
        BY <1>2, <1>3, <3>2
      <4>2. running[d].counter \in Counter
        BY <2>3, <4>1, CounterAt
      <4>3. iCounterFunc /\ iCounterList[running[d].counter].userdata \in LocksOf(d)
        BY <1>4, <1>6, <2>3, <4>1 DEF LockInv
      <4>4. LocksOf(d) \subseteq LocksOf(d)'
        <5>1. \A e \in d .. Depth : e \in d .. Depth' /\ running'[e] = running[e]
          BY <1>2, <1>3, <4>1
        <5>2. QED
          BY <4>1, <5>1 DEF LocksOf
      <4>5. iCounterList'[running[d].counter] = iCounterList[running[d].counter]
        BY <2>2, <3>2, <4>1, <4>2
      <4>6. QED
        BY <1>2, <4>1, <4>3, <4>4, <4>5
    <3>3. QED
      BY <3>1, <3>2
  <2>4. \A d \in 1 .. Depth' : (running'[d].omp <=> top'.omp)
    BY <1>2, <1>3, <1>4, <2>1
  <2>5. \A d \in 1 .. Depth' : running'[d].omp => running'[d].own
    BY <1>2, <1>3 DEF LockInv
  <2>6. QED
    BY <2>3, <2>4, <2>5 DEF LockInv
<1>7. QED
  BY <1>5, <1>6

(* imCounterEnd leaves the user data it was given, or none.                *)
LEMMA EndLocks ==
  ASSUME Types, NEW c \in Counter, iCounterFunc, imCounterEnd(c, 0)
  PROVE  /\ iCounterList'[c].userdata = 0
         /\ \A i \in Counter : i # c => iCounterList'[i] = iCounterList[i]
<1>1. iCounterList[c] \in CounterType /\ c # None
  BY NoneIsNoCounter DEF Types
<1> DEFINE ct == [iCounterList[c] EXCEPT !.userdata = 0]
           silent == ct.sequence = 0 \/ ct.total = 0
           last == ~silent /\ ct.sequence = 1
           new == IF last THEN Zeroed
                  ELSE IF silent THEN ct
                  ELSE [ct EXCEPT !.sequence = @ - 1]
<1>2. iCounterList' = [iCounterList EXCEPT ![c] = new]
  BY <1>1 DEF imCounterEnd
<1>3. new.userdata = 0
  BY <1>1 DEF CounterType, Zeroed
<1> HIDE DEF new
<1>4. QED
  BY <1>2, <1>3 DEF Types

LEMMA ReturnLocks == ASSUME Types, LockInv, Return PROVE LockInv'
<1>1. /\ Depth > 0 /\ running' = Returned /\ UNCHANGED iCounterFunc
      /\ top \in Operation
  BY TopIsOperation DEF Return
<1>2. /\ Depth \in Nat /\ Depth' = Depth - 1
      /\ \A d \in 1 .. Depth - 1 : running'[d] = running[d]
  BY <1>1, ReturnedStack
<1>3. /\ \A d \in 1 .. Depth : running[d].omp <=> top.omp
      /\ \A d \in 1 .. Depth : running[d].omp => running[d].own
  BY DEF LockInv
<1>4. CASE ~top.omp
  <2>1. \A d \in 1 .. Depth' : ~running'[d].omp
    BY <1>2, <1>3, <1>4
  <2>2. QED
    BY <1>1, <1>2, <2>1, NoLocks
<1>5. CASE top.omp
  <2> DEFINE c == top.counter
  <2>1. top.own /\ (c # None => Locks /\ c \in Counter)
    <3>1. Depth \in 1 .. Depth
      BY <1>1, <1>2
    <3>2. QED
      BY <1>1, <1>5, <3>1 DEF LockInv, Locks, top, Operation
  <2>2. /\ c # None => iCounterList'[c].userdata = 0
        /\ \A i \in Counter : i # c => iCounterList'[i] = iCounterList[i]
    <3>1. CASE c = None
      <4>1. UNCHANGED iCounterList
        BY <2>1, <3>1 DEF Return, imCounterEnd
      <4>2. QED
        BY <3>1, <4>1
    <3>2. CASE c # None
      <4>1. imCounterEnd(c, 0) /\ c \in Counter /\ iCounterFunc
        BY <2>1, <3>2 DEF Return, Locks
      <4>2. QED
        BY <4>1, EndLocks
    <3>3. QED
      BY <3>1, <3>2
  <2>3. ASSUME NEW d \in 1 .. Depth', running'[d].counter # None
        PROVE  iCounterFunc' /\ iCounterList'[running'[d].counter].userdata \in LocksOf(d)'
    <3>1. d \in 1 .. Depth /\ running'[d] = running[d]
      BY <1>1, <1>2
    <3>2. iCounterFunc /\ iCounterList[running[d].counter].userdata \in LocksOf(d)
      BY <1>3, <1>5, <2>3, <3>1 DEF LockInv
    <3>3. running[d].counter \in Counter
      BY <2>3, <3>1, CounterAt
    <3>4. CASE running[d].counter = c
      BY <1>1, <2>2, <2>3, <3>1, <3>2, <3>4 DEF LocksOf
    <3>5. CASE running[d].counter # c
      <4>1. LocksOf(d) \subseteq LocksOf(d)'
        <5>1. \A e \in d .. Depth : e # Depth => e \in d .. Depth' /\ running'[e] = running[e]
          BY <1>1, <1>2, <3>1
        <5>2. running[Depth].counter # running[d].counter
          BY <3>5 DEF top
        <5>3. QED
          BY <3>1, <5>1, <5>2 DEF LocksOf
      <4>2. iCounterList'[running[d].counter] = iCounterList[running[d].counter]
        BY <2>2, <3>3, <3>5
      <4>3. QED
        BY <1>1, <3>1, <3>2, <4>1, <4>2
    <3>6. QED
      BY <3>4, <3>5
  <2>4. \A d \in 1 .. Depth' : (running'[d].omp <=> top'.omp)
    <3>1. \A d \in 1 .. Depth' : running'[d].omp
      BY <1>1, <1>2, <1>3, <1>5
    <3>2. QED
      BY <1>1, <1>2, <1>3 DEF top
  <2>5. \A d \in 1 .. Depth' : running'[d].omp => running'[d].own
    BY <1>1, <1>2, <1>3
  <2>6. QED
    BY <2>3, <2>4, <2>5 DEF LockInv
<1>6. QED
  BY <1>4, <1>5

LEMMA LockStep == Types /\ LockInv /\ [Next]_vars => LockInv'
<1> SUFFICES ASSUME Types, LockInv, [Next]_vars PROVE LockInv'
  OBVIOUS
<1>1. CASE running' = <<>>
  <2>1. Depth' = 0
    BY <1>1 DEF Depth
  <2>2. QED
    BY <2>1, NoLocks
<1>2. CASE \E f \in File : FileData(f)
  <2>1. Depth' = 1 /\ ~running'[1].omp
    BY <1>2 DEF FileData, Depth
  <2>2. QED
    BY <2>1, NoLocks
<1>3. CASE UNCHANGED vars
  BY <1>3 DEF vars, LockInv, LocksOf, Depth, top
<1>4. CASE \E omp \in BOOLEAN : Begin(omp)
  BY <1>4, BeginLocks
<1>5. CASE Return
  BY <1>5, ReturnLocks
<1>6. ASSUME NEW total \in Totals, imCounterTotal(total) PROVE LockInv'
  <2>1. /\ Depth > 0 /\ total \in Nat /\ running' = LoopIs(0, total)
        /\ UNCHANGED iCounterFunc
    BY <1>6, TotalsArePositive DEF imCounterTotal
  <2>2. ASSUME NEW i \in Counter
        PROVE  iCounterList'[i].userdata = iCounterList[i].userdata
    <3>1. iCounterList[i] \in CounterType
      BY DEF Types
    <3>2. QED
      BY <1>6, <3>1 DEF imCounterTotal, Types, CounterType
  <2>3. QED
    BY <2>1, <2>2, CountedLocks
<1>7. CASE imCounterInc
  <2> DEFINE told == IF top.counter = None THEN 0
                     ELSE iCounterList[top.counter].current + 1
  <2>1. Depth > 0 /\ top \in Operation
    BY <1>7, TopIsOperation DEF imCounterInc
  <2>2. top.n + 1 \in Nat /\ top.total \in Nat /\ told \in Nat
    BY <2>1 DEF Operation, Types, CounterType
  <2>3. /\ running' = LoopIs(top.n + 1, top.total) /\ Counted(told)
        /\ UNCHANGED iCounterFunc
    BY <1>7 DEF imCounterInc
  <2> HIDE DEF told
  <2>4. QED
    BY <2>1, <2>2, <2>3, CountedUserData, CountedLocks
<1>8. ASSUME NEW total \in Totals, NEW count \in 0 .. total, imCounterIncTo(count)
      PROVE  LockInv'
  <2>1. /\ Depth > 0 /\ top \in Operation /\ count \in Nat
        /\ running' = LoopIs(count, top.total) /\ Counted(count)
        /\ UNCHANGED iCounterFunc
    BY <1>8, TopIsOperation, TotalsArePositive DEF imCounterIncTo
  <2>2. top.total \in Nat
    BY <2>1 DEF Operation
  <2>3. QED
    BY <2>1, <2>2, CountedUserData, CountedLocks
<1>9. QED
  <2>1. CASE imCounterSetCallback \/ Crash
    BY <1>1, <2>1 DEF imCounterSetCallback, Crash
  <2>2. CASE \E f \in File : imFileOpen(f) \/ imFileClose(f)
    BY <1>1, <2>2 DEF imFileOpen, imFileClose
  <2>3. QED
    BY <1>2, <1>3, <1>4, <1>5, <1>6, <1>7, <1>8, <2>1, <2>2 DEF Next

(* However operations of the OpenMP variant nest and share a counter, what *)
(* the innermost finds there is its own lock or none.                      *)
THEOREM LockAlwaysOwn == Spec => []LockIsOwn
<1>1. Init => LockInv
  <2> SUFFICES ASSUME Init PROVE LockInv
    OBVIOUS
  <2>1. Depth = 0
    BY DEF Init, Depth
  <2>2. QED
    BY <2>1 DEF LockInv
<1>2. IInv => Types
  BY DEF IInv
<1>3. IInv /\ LockInv => LockIsOwn
  <2> SUFFICES ASSUME IInv, LockInv, Depth > 0, Locks
               PROVE  iCounterList[top.counter].userdata \in {0, Depth}
    BY DEF LockIsOwn
  <2>1. Depth \in Nat /\ Depth \in 1 .. Depth
    BY <1>2, DepthIsNat
  <2>2. iCounterList[top.counter].userdata \in LocksOf(Depth)
    BY <2>1 DEF LockInv, Locks, top
  <2>3. Depth .. Depth = {Depth}
    BY <2>1
  <2>4. QED
    BY <2>2, <2>3 DEF LocksOf
<1>4. QED
  BY <1>1, <1>2, <1>3, InitIInv, NextKeepsIInv, LockStep, PTL DEF Spec

=============================================================================
