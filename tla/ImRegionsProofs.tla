---------------------------- MODULE ImRegionsProofs ----------------------------
(***************************************************************************)
(* Proofs about ImRegions for every image and every number of numbers: the *)
(* tables keep their types, and the regions that are found are the         *)
(* connected components of the white pixels, with the border or without    *)
(* those that touch it, so that holes are filled and regions removed right.*)
(***************************************************************************)
EXTENDS ImRegions, FiniteSetTheorems, TLAPS

(* First what the alias table does: every chain of aliases has one end,    *)
(* the least number in it, and alias_set makes one class of two and leaves *)
(* the others alone.                                                       *)

(* Numbers are only aliases of smaller ones.                               *)
AliasTable == {a \in [Label -> 0 .. MaxCount - 1] : \A r \in Label : a[r] < r}

(* Every nonempty set of natural numbers has a least element, by the       *)
(* finite sets 1 .. m under strict inclusion.                              *)
LEMMA LeastIsLeast ==
  ASSUME NEW S, S \subseteq Nat, S # {}
  PROVE  Least(S) \in S /\ \A t \in S : Least(S) <= t
<1> DEFINE T == {1 .. m : m \in S}
           R == StrictSubsetOrdering(Nat)
<1>1. IsWellFoundedOn(R, FiniteSubsetsOf(Nat))
  BY FS_StrictSubsetOrderingWellFounded
<1>2. T \subseteq FiniteSubsetsOf(Nat)
  <2> SUFFICES ASSUME NEW m \in S PROVE 1 .. m \in FiniteSubsetsOf(Nat)
    OBVIOUS
  <2>1. m \in Int /\ 1 \in Int
    OBVIOUS
  <2>2. IsFiniteSet(1 .. m)
    BY <2>1, FS_Interval
  <2>3. 1 .. m \subseteq Nat
    OBVIOUS
  <2> QED BY <2>2, <2>3 DEF FiniteSubsetsOf
<1>3. T # {}
  OBVIOUS
<1> HIDE DEF T, R
<1>4. PICK x \in T : \A y \in T : ~(<<y, x>> \in R)
  BY <1>1, <1>2, <1>3, WFMin
<1>5. PICK m \in S : x = 1 .. m
  BY DEF T
<1>6. \A n \in S : m <= n
  <2> SUFFICES ASSUME NEW n \in S, n < m PROVE FALSE
    BY <1>5
  <2>1. 1 .. n \in T
    BY DEF T
  <2>2. m \in 1 .. m /\ m \notin 1 .. n /\ 1 .. n \subseteq 1 .. m
    OBVIOUS
  <2>3. <<1 .. n, 1 .. m>> \in R
    BY <2>2 DEF R, StrictSubsetOrdering
  <2> QED BY <1>4, <1>5, <2>1, <2>3
<1> QED BY <1>6 DEF Least

-----------------------------------------------------------------------------
LEMMA LabelIsNat == Label \subseteq Nat /\ 0 \notin Label
BY MaxCountAssumption DEF Label

(* A chain is the least closed set with its first number.                  *)
LEMMA ChainIsLeast ==
  ASSUME NEW a \in AliasTable, NEW r \in Label
  PROVE  /\ Chain(a, r) \subseteq Label
         /\ r \in Chain(a, r)
         /\ Closed(a, Chain(a, r))
         /\ \A S \in SUBSET Label : r \in S /\ Closed(a, S) => Chain(a, r) \subseteq S
<1>1. Chain(a, r) \subseteq Label /\ r \in Chain(a, r)
  BY DEF Chain
<1>2. \A S \in SUBSET Label : r \in S /\ Closed(a, S) => Chain(a, r) \subseteq S
  BY DEF Chain
<1>3. Closed(a, Chain(a, r))
  <2> SUFFICES ASSUME NEW s \in Chain(a, r), a[s] # 0
               PROVE  a[s] \in Chain(a, r)
    BY DEF Closed
  <2>1. s \in Label
    BY <1>1
  <2>2. a[s] \in Label
    BY <2>1, MaxCountAssumption DEF AliasTable, Label
  <2>3. ASSUME NEW S \in SUBSET Label, r \in S, Closed(a, S) PROVE a[s] \in S
    BY <1>2, <2>3 DEF Closed
  <2> QED BY <2>2, <2>3 DEF Chain
<1> QED BY <1>1, <1>2, <1>3

LEMMA ChainStep ==
  ASSUME NEW a \in AliasTable, NEW r \in Label
  PROVE  /\ a[r] = 0 => Chain(a, r) = {r}
         /\ a[r] # 0 => a[r] \in Label /\ a[r] < r /\ Chain(a, r) = {r} \cup Chain(a, a[r])
<1>1. CASE a[r] = 0
  <2>1. Closed(a, {r})
    BY <1>1 DEF Closed
  <2> QED BY <1>1, <2>1, ChainIsLeast
<1>2. CASE a[r] # 0
  <2>1. a[r] \in Label /\ a[r] < r
    BY <1>2, MaxCountAssumption DEF AliasTable, Label
  <2>2. Closed(a, {r} \cup Chain(a, a[r]))
    BY <2>1, ChainIsLeast DEF Closed
  <2>3. {r} \cup Chain(a, a[r]) \subseteq Label
    BY <2>1, ChainIsLeast
  <2>4. Chain(a, r) \subseteq {r} \cup Chain(a, a[r])
    BY <2>2, <2>3, ChainIsLeast
  <2>5. a[r] \in Chain(a, r)
    BY <1>2, ChainIsLeast DEF Closed
  <2>6. Chain(a, a[r]) \subseteq Chain(a, r)
    BY <2>1, <2>5, ChainIsLeast
  <2> QED BY <1>2, <2>1, <2>4, <2>6, ChainIsLeast
<1> QED BY <1>1, <1>2

(* The three loops of im_analyze.cpp that follow aliases (lines 31, 62 and *)
(* 74) come to one end, the least number they meet.                        *)
THEOREM ChainsEnd ==
  ASSUME NEW a \in AliasTable, NEW r \in Label
  PROVE  /\ End(a, r) \in Chain(a, r)
         /\ End(a, r) \in Label
         /\ a[End(a, r)] = 0
         /\ \A t \in Chain(a, r) : End(a, r) <= t /\ (a[t] = 0 => t = End(a, r))
<1> DEFINE Ends(s, e) == /\ e \in Chain(a, s) /\ a[e] = 0
                         /\ \A t \in Chain(a, s) : e <= t /\ (a[t] = 0 => t = e)
           Bad == {s \in Label : ~ \E e \in Chain(a, s) : Ends(s, e)}
<1>1. Bad = {}
  <2> SUFFICES ASSUME Bad # {} PROVE FALSE
    OBVIOUS
  <2>1. Bad \subseteq Nat
    BY LabelIsNat
  <2> DEFINE s == Least(Bad)
  <2>2. s \in Bad /\ \A t \in Bad : s <= t
    BY <2>1, LeastIsLeast
  <2> HIDE DEF s
  <2>3. s \in Label /\ s \in Nat
    BY <2>2, LabelIsNat
  <2>4. CASE a[s] = 0
    <3>1. Chain(a, s) = {s}
      BY <2>3, <2>4, ChainStep
    <3>2. Ends(s, s)
      BY <3>1, <2>3, <2>4
    <3> QED BY <3>1, <3>2, <2>2
  <2>5. CASE a[s] # 0
    <3>1. a[s] \in Label /\ a[s] < s /\ Chain(a, s) = {s} \cup Chain(a, a[s])
      BY <2>3, <2>5, ChainStep
    <3>2. a[s] \in Nat
      BY <3>1, LabelIsNat
    <3>3. a[s] \notin Bad
      BY <2>2, <2>3, <3>1, <3>2
    <3>4. PICK e \in Chain(a, a[s]) : Ends(a[s], e)
      BY <3>1, <3>3
    <3>5. e \in Nat /\ e <= a[s]
      BY <3>1, <3>4, ChainIsLeast, LabelIsNat
    <3>6. Ends(s, e)
      BY <2>3, <2>5, <3>1, <3>2, <3>4, <3>5
    <3> QED BY <2>2, <3>1, <3>6
  <2> QED BY <2>4, <2>5
<1>2. PICK e \in Chain(a, r) : Ends(r, e)
  BY <1>1
<1>3. End(a, r) = e
  BY <1>2 DEF End
<1> QED BY <1>2, <1>3, ChainIsLeast

LEMMA EndStep ==
  ASSUME NEW a \in AliasTable, NEW r \in Label
  PROVE  /\ a[r] = 0 => End(a, r) = r
         /\ a[r] # 0 => End(a, r) = End(a, a[r])
         /\ End(a, r) <= r
<1>1. End(a, r) <= r /\ (a[r] = 0 => End(a, r) = r)
  BY ChainIsLeast, ChainsEnd
<1>2. ASSUME a[r] # 0 PROVE End(a, r) = End(a, a[r])
  <2>1. a[r] \in Label /\ Chain(a, r) = {r} \cup Chain(a, a[r])
    BY <1>2, ChainStep
  <2>2. End(a, a[r]) \in Chain(a, r) /\ a[End(a, a[r])] = 0
    BY <2>1, ChainsEnd
  <2> QED BY <2>2, ChainsEnd
<1> QED BY <1>1, <1>2

(* Along a chain the end is the same.                                      *)
LEMMA EndOfChain ==
  ASSUME NEW a \in AliasTable, NEW r \in Label, NEW t \in Chain(a, r)
  PROVE  End(a, t) = End(a, r)
<1>1. t \in Label
  BY ChainIsLeast
<1>2. Chain(a, t) \subseteq Chain(a, r)
  BY <1>1, ChainIsLeast
<1>3. End(a, t) \in Chain(a, r) /\ a[End(a, t)] = 0
  BY <1>1, <1>2, ChainsEnd
<1> QED BY <1>3, ChainsEnd

-----------------------------------------------------------------------------
(* The least number of two chains is the end of one of them.               *)
LEMMA LeastOfBoth ==
  ASSUME NEW a \in AliasTable, NEW r1 \in Label, NEW r2 \in Label
  PROVE  LET min == Least(Chain(a, r1) \cup Chain(a, r2))
         IN /\ min \in Label /\ min \in {End(a, r1), End(a, r2)} /\ a[min] = 0
            /\ \A r \in Chain(a, r1) \cup Chain(a, r2) : min <= r
<1> DEFINE both == Chain(a, r1) \cup Chain(a, r2)
           min == Least(both)
<1>1. both \subseteq Label /\ r1 \in both
  BY ChainIsLeast
<1>2. min \in both /\ \A t \in both : min <= t
  BY <1>1, LabelIsNat, LeastIsLeast
<1> HIDE DEF min
<1>3. End(a, r1) \in both /\ End(a, r2) \in both
  BY ChainsEnd
<1>4. min \in Nat /\ End(a, r1) \in Nat /\ End(a, r2) \in Nat
  BY <1>1, <1>2, <1>3, LabelIsNat
<1>5. CASE min \in Chain(a, r1)
  <2>1. End(a, r1) <= min
    BY <1>5, ChainsEnd
  <2>2. min = End(a, r1)
    BY <2>1, <1>2, <1>3, <1>4
  <2> QED BY <2>2, <1>1, <1>2, ChainsEnd DEF min
<1>6. CASE min \in Chain(a, r2)
  <2>1. End(a, r2) <= min
    BY <1>6, ChainsEnd
  <2>2. min = End(a, r2)
    BY <2>1, <1>2, <1>3, <1>4
  <2> QED BY <2>2, <1>1, <1>2, ChainsEnd DEF min
<1> QED BY <1>2, <1>5, <1>6

LEMMA SetKeepsTable ==
  ASSUME NEW a \in AliasTable, NEW r1 \in 0 .. MaxCount - 1, NEW r2 \in 0 .. MaxCount - 1
  PROVE  alias_set(a, r1, r2) \in AliasTable
<1>1. CASE Same(r1, r2)
  BY <1>1 DEF alias_set
<1>2. CASE ~Same(r1, r2)
  <2> DEFINE both == Chain(a, r1) \cup Chain(a, r2)
             min == Least(both)
  <2>1. r1 \in Label /\ r2 \in Label
    BY <1>2, MaxCountAssumption DEF Same, Label
  <2>2. min \in Label /\ \A r \in both : min <= r
    BY <2>1, LeastOfBoth
  <2>3. both \subseteq Label
    BY <2>1, ChainIsLeast
  <2>4. alias_set(a, r1, r2) = Led(a, both, min)
    BY <1>2 DEF alias_set
  <2> HIDE DEF min, both
  <2>5. \A r \in Label : Led(a, both, min)[r] \in 0 .. MaxCount - 1 /\ Led(a, both, min)[r] < r
    BY <2>2, <2>3, MaxCountAssumption DEF Led, AliasTable, Label
  <2>6. Led(a, both, min) \in [Label -> 0 .. MaxCount - 1]
    BY <2>5 DEF Led
  <2> QED BY <2>4, <2>5, <2>6 DEF AliasTable
<1> QED BY <1>1, <1>2

(* alias_set gives the two classes one end and keeps the ends of others.   *)
THEOREM SetMerges ==
  ASSUME NEW a \in AliasTable, NEW r1 \in Label, NEW r2 \in Label, r1 # r2,
         NEW r \in Label
  PROVE  LET min == Least(Chain(a, r1) \cup Chain(a, r2))
         IN End(alias_set(a, r1, r2), r)
              = IF End(a, r) \in {End(a, r1), End(a, r2)} THEN min ELSE End(a, r)
<1> DEFINE both == Chain(a, r1) \cup Chain(a, r2)
           min == Least(both)
           b == alias_set(a, r1, r2)
           Merged(s) == IF End(a, s) \in {End(a, r1), End(a, r2)} THEN min ELSE End(a, s)
           Bad == {s \in Label : End(b, s) # Merged(s)}
<1>1. ~Same(r1, r2)
  BY LabelIsNat DEF Same
<1>2. b = Led(a, both, min)
  BY <1>1 DEF alias_set
<1>3. b \in AliasTable
  <2>1. r1 \in 0 .. MaxCount - 1 /\ r2 \in 0 .. MaxCount - 1
    BY MaxCountAssumption DEF Label
  <2> QED BY <2>1, SetKeepsTable
<1>4. /\ min \in Label /\ min \in {End(a, r1), End(a, r2)} /\ a[min] = 0
      /\ \A s \in both : min <= s
  BY LeastOfBoth
<1>5. both \subseteq Label
  BY ChainIsLeast
<1>6. End(a, r1) \in both /\ End(a, r2) \in both /\ r1 \in both /\ r2 \in both
  BY ChainsEnd, ChainIsLeast
<1>7. \A s \in both : End(a, s) \in {End(a, r1), End(a, r2)}
  BY EndOfChain
<1> HIDE DEF b, min, both
<1>8. End(b, min) = min
  <2>1. b[min] = 0
    BY <1>2, <1>4 DEF Led
  <2> QED BY <2>1, <1>3, <1>4, EndStep
<1>9. Bad = {}
  <2> SUFFICES ASSUME Bad # {} PROVE FALSE
    OBVIOUS
  <2>1. Bad \subseteq Nat
    BY LabelIsNat
  <2> DEFINE s == Least(Bad)
  <2>2. s \in Bad /\ \A t \in Bad : s <= t
    BY <2>1, LeastIsLeast
  <2> HIDE DEF s
  <2>3. s \in Label /\ s \in Nat /\ End(b, s) # Merged(s)
    BY <2>2, LabelIsNat
  <2>4. CASE s \in both /\ s # min
    <3>1. b[s] = min
      BY <2>3, <2>4, <1>2 DEF Led
    <3>2. End(b, s) = min
      BY <3>1, <2>3, <1>3, <1>4, <1>8, EndStep, LabelIsNat
    <3> QED BY <3>2, <2>3, <2>4, <1>7
  <2>5. CASE s = min
    <3>1. End(a, s) = min
      BY <2>5, <1>4, EndStep
    <3> QED BY <3>1, <2>3, <2>5, <1>4, <1>8
  <2>6. CASE s \notin both
    <3>1. b[s] = a[s]
      BY <2>3, <2>6, <1>2 DEF Led
    <3>2. CASE a[s] = 0
      <4>1. End(a, s) = s /\ End(b, s) = s
        BY <3>1, <3>2, <2>3, <1>3, EndStep
      <4> QED BY <4>1, <2>3, <2>6, <1>6
    <3>3. CASE a[s] # 0
      <4>1. a[s] \in Label /\ a[s] < s /\ a[s] \in Nat
        BY <3>3, <2>3, ChainStep, LabelIsNat
      <4>2. End(a, s) = End(a, a[s]) /\ End(b, s) = End(b, a[s])
        BY <3>1, <3>3, <2>3, <1>3, EndStep
      <4>3. a[s] \notin Bad
        BY <4>1, <2>2, <2>3
      <4> QED BY <4>1, <4>2, <4>3, <2>3
    <3> QED BY <3>2, <3>3
  <2> QED BY <2>4, <2>5, <2>6
<1> QED BY <1>9 DEF min, both, b

(* The same for alias_set of one number with itself: nothing changes.      *)
LEMMA SetEnds ==
  ASSUME NEW a \in AliasTable, NEW r1 \in Label, NEW r2 \in Label,
         NEW r \in Label, NEW s \in Label
  PROVE  LET b == alias_set(a, r1, r2)
         IN /\ b \in AliasTable
            /\ End(b, r1) = End(b, r2)
            /\ End(a, r) = End(a, s) => End(b, r) = End(b, s)
            /\ End(b, r) = End(b, s) =>
                 \/ End(a, r) = End(a, s)
                 \/ /\ End(a, r) \in {End(a, r1), End(a, r2)}
                    /\ End(a, s) \in {End(a, r1), End(a, r2)}
<1> DEFINE b == alias_set(a, r1, r2)
<1>1. b \in AliasTable
  <2>1. r1 \in 0 .. MaxCount - 1 /\ r2 \in 0 .. MaxCount - 1
    BY MaxCountAssumption DEF Label
  <2> QED BY <2>1, SetKeepsTable
<1>2. CASE r1 = r2
  <2>1. b = a
    BY <1>2 DEF alias_set, Same
  <2> QED BY <1>1, <1>2, <2>1
<1>3. CASE r1 # r2
  <2> DEFINE min == Least(Chain(a, r1) \cup Chain(a, r2))
  <2>1. min \in {End(a, r1), End(a, r2)}
    BY LeastOfBoth
  <2>2. \A x \in Label : End(b, x) = IF End(a, x) \in {End(a, r1), End(a, r2)}
                                     THEN min ELSE End(a, x)
    BY <1>3, SetMerges
  <2> HIDE DEF min, b
  <2> QED BY <1>1, <2>1, <2>2 DEF b
<1> QED BY <1>2, <1>3

(* alias_set stays among the numbers given so far.                         *)
LEMMA SetKeepsRange ==
  ASSUME NEW a \in AliasTable, NEW k \in Nat, k <= MaxCount,
         NEW r1 \in 0 .. k - 1, NEW r2 \in 0 .. k - 1,
         \A r \in Label : a[r] # 0 => r < k
  PROVE  \A r \in Label : alias_set(a, r1, r2)[r] # 0 => r < k
<1>1. CASE Same(r1, r2)
  BY <1>1 DEF alias_set
<1>2. CASE ~Same(r1, r2)
  <2> DEFINE both == Chain(a, r1) \cup Chain(a, r2)
             min == Least(both)
  <2>1. 1 .. k - 1 \subseteq Label /\ r1 \in 1 .. k - 1 /\ r2 \in 1 .. k - 1
    BY <1>2, MaxCountAssumption DEF Label, Same
  <2>2. Closed(a, 1 .. k - 1)
    <3> SUFFICES ASSUME NEW r \in 1 .. k - 1, a[r] # 0 PROVE a[r] \in 1 .. k - 1
      BY DEF Closed
    <3>1. r \in Label /\ a[r] \in 0 .. MaxCount - 1 /\ a[r] < r
      BY <2>1 DEF AliasTable
    <3> QED BY <3>1, MaxCountAssumption
  <2>3. both \subseteq 1 .. k - 1
    BY <2>1, <2>2, ChainIsLeast
  <2>4. alias_set(a, r1, r2) = Led(a, both, min)
    BY <1>2 DEF alias_set
  <2> HIDE DEF min, both
  <2> SUFFICES ASSUME NEW r \in Label, Led(a, both, min)[r] # 0 PROVE r < k
    BY <2>4
  <2>5. CASE r \in both \ {min}
    BY <2>3, <2>5
  <2>6. CASE r \notin both \ {min}
    BY <2>6 DEF Led
  <2> QED BY <2>5, <2>6
<1> QED BY <1>1, <1>2

(* With the border's number: what has the other's end gets it, too.        *)
LEMMA SetToBorder ==
  ASSUME NEW a \in AliasTable, NEW y \in 0 .. MaxCount - 1
  PROVE  LET b == alias_set(a, 1, y)
         IN /\ b \in AliasTable
            /\ \A r \in Label :
                 End(b, r) = IF End(a, r) = 1 \/ (y # 0 /\ End(a, r) = End(a, y))
                             THEN 1 ELSE End(a, r)
<1>1. 1 \in Label /\ 1 \in 0 .. MaxCount - 1 /\ End(a, 1) = 1
  <2>1. 1 \in Label /\ 1 \in 0 .. MaxCount - 1
    BY MaxCountAssumption DEF Label
  <2>2. a[1] = 0
    BY <2>1 DEF AliasTable
  <2> QED BY <2>1, <2>2, EndStep
<1>2. alias_set(a, 1, y) \in AliasTable
  BY <1>1, SetKeepsTable
<1>3. CASE y \in {0, 1}
  <2>1. alias_set(a, 1, y) = a
    BY <1>3 DEF alias_set, Same
  <2> QED BY <1>1, <1>2, <1>3, <2>1
<1>4. CASE y \notin {0, 1}
  <2> DEFINE min == Least(Chain(a, 1) \cup Chain(a, y))
  <2>1. y \in Label /\ 1 # y /\ y # 0
    BY <1>4, MaxCountAssumption DEF Label
  <2>2. min \in Label /\ \A r \in Chain(a, 1) \cup Chain(a, y) : min <= r
    BY <1>1, <2>1, LeastOfBoth
  <2>3. 1 \in Chain(a, 1)
    BY <1>1, ChainIsLeast
  <2>4. min = 1
    <3> HIDE DEF min
    <3>1. min <= 1 /\ min \in Label
      BY <2>2, <2>3
    <3> QED BY <3>1, MaxCountAssumption DEF Label
  <2>5. \A e \in Label : e # y => \A r \in Label :
          End(alias_set(a, e, y), r)
            = IF End(a, r) \in {End(a, e), End(a, y)}
              THEN Least(Chain(a, e) \cup Chain(a, y)) ELSE End(a, r)
    BY <2>1, SetMerges
  <2>6. \A r \in Label : End(alias_set(a, 1, y), r)
          = IF End(a, r) \in {End(a, 1), End(a, y)} THEN min ELSE End(a, r)
    BY <1>1, <2>1, <2>5
  <2> HIDE DEF min
  <2> QED BY <1>1, <1>2, <2>1, <2>4, <2>6
<1> QED BY <1>3, <1>4


-----------------------------------------------------------------------------
(* The state and the scan.                                                 *)
(* An image, and a scan that has numbers left.                             *)
WellFormed ==
  /\ image.width \in Nat \ {0} /\ image.height \in Nat \ {0}
  /\ image.white \subseteq Pixels(image)
  /\ op.border \in BOOLEAN /\ op.connect \in {4, 8} /\ op.kind \in {"find", "fill", "remove"}
  /\ phase \in {"scan", "update"} => count \in 2 .. MaxCount

LEMMA TypeOKIsTable == TypeOK => alias \in AliasTable
BY DEF TypeOK, AliasTable

LEMMA TypesInit == Init => TypeOK /\ WellFormed
<1> SUFFICES ASSUME NEW o \in Operation, NEW m \in Image,
               op = o,
               image = IF o.kind = "fill" THEN Negative(m) ELSE m,
               phase = IF Scannable(m, o.border) THEN "scan" ELSE "update",
               label = [p \in Pixels(m) |->
                          IF p \in Marked(image, o.border) THEN 1 ELSE IF o.fresh THEN 0 ELSE 2],
               alias = [r \in Label |-> 0], count = 2, out = {}
             PROVE  TypeOK /\ WellFormed
  BY DEF Init
<1>1. image.width = m.width /\ image.height = m.height /\ image.white \subseteq Pixels(m)
  <2>1. CASE o.kind = "fill"
    <3>1. image = [m EXCEPT !.white = Pixels(m) \ m.white]
      BY <2>1 DEF Negative
    <3> QED BY <3>1, ImageAssumption
  <2>2. CASE o.kind # "fill"
    BY <2>2, ImageAssumption DEF Pixels
  <2> QED BY <2>1, <2>2
<1>2. Pixels(image) = Pixels(m)
  BY <1>1 DEF Pixels
<1>3. o.border \in BOOLEAN /\ o.connect \in {4, 8} /\ o.kind \in {"find", "fill", "remove"}
  BY DEF Operation
<1>4. WellFormed
  BY <1>1, <1>2, <1>3, ImageAssumption, MaxCountAssumption DEF WellFormed
<1>5. label \in [Pixels(image) -> 0 .. MaxCount - 1]
  BY <1>2, MaxCountAssumption
<1>6. alias \in [Label -> 0 .. MaxCount - 1] /\ \A r \in Label : alias[r] < r
  BY MaxCountAssumption DEF Label
<1> QED BY <1>4, <1>5, <1>6, MaxCountAssumption DEF TypeOK

LEMMA StartType == ASSUME NEW p PROVE Start(p) \in 0 .. MaxCount - 1
BY MaxCountAssumption DEF Start

LEMMA WhiteHasLabel ==
  ASSUME TypeOK, WellFormed, NEW p, White(p)
  PROVE  label[p] \in 0 .. MaxCount - 1
BY DEF TypeOK, WellFormed, White

LEMMA RegionType ==
  ASSUME TypeOK, WellFormed, NEW p
  PROVE  /\ AfterLeft(p) \in 0 .. MaxCount - 1
         /\ Region(p) \in 0 .. MaxCount - 1
<1>1. AfterLeft(p) \in 0 .. MaxCount - 1
  BY StartType, WhiteHasLabel DEF AfterLeft
<1>2. AfterUp(p) \in 0 .. MaxCount - 1
  BY <1>1, WhiteHasLabel DEF AfterUp
<1>3. CASE AfterUp(p) # 0 \/ ~Corners
  BY <1>1, <1>2, <1>3 DEF Region
<1>4. CASE AfterUp(p) = 0 /\ Corners /\ White(UpLeft(p))
  BY <1>1, <1>4, WhiteHasLabel DEF Region
<1>5. CASE AfterUp(p) = 0 /\ Corners /\ ~White(UpLeft(p)) /\ White(UpRight(p))
  BY <1>1, <1>5, WhiteHasLabel DEF Region
<1>6. CASE AfterUp(p) = 0 /\ Corners /\ ~White(UpLeft(p)) /\ ~White(UpRight(p))
  BY <1>1, <1>6, MaxCountAssumption DEF Region
<1> QED BY <1>1, <1>3, <1>4, <1>5, <1>6

LEMMA JoinedIsTable ==
  ASSUME TypeOK, WellFormed, NEW p
  PROVE  Joined(p) \in AliasTable
<1> DEFINE first == IF LeftJoins(p) THEN alias_set(alias, Start(p), label[Left(p)]) ELSE alias
<1>1. first \in AliasTable
  <2>1. CASE LeftJoins(p)
    BY <2>1, StartType, WhiteHasLabel, SetKeepsTable, TypeOKIsTable DEF LeftJoins
  <2> QED BY <2>1, TypeOKIsTable
<1> HIDE DEF first
<1>2. CASE UpJoins(p)
  <2> DEFINE q == IF White(Up(p)) THEN Up(p) ELSE UpRight(p)
  <2>1. label[q] \in 0 .. MaxCount - 1
    BY <1>2, WhiteHasLabel DEF UpJoins
  <2>2. Joined(p) = alias_set(first, AfterLeft(p), label[q])
    BY <1>2 DEF Joined, first
  <2> QED BY <1>1, <2>1, <2>2, RegionType, SetKeepsTable
<1>3. CASE ~UpJoins(p) /\ CornersJoin(p)
  <2>1. label[UpLeft(p)] \in 0 .. MaxCount - 1 /\ label[UpRight(p)] \in 0 .. MaxCount - 1
    BY <1>3, WhiteHasLabel DEF CornersJoin
  <2>2. Joined(p) = alias_set(first, label[UpLeft(p)], label[UpRight(p)])
    BY <1>3 DEF Joined, first
  <2> QED BY <1>1, <2>1, <2>2, SetKeepsTable
<1>4. CASE ~UpJoins(p) /\ ~CornersJoin(p)
  BY <1>1, <1>4 DEF Joined, first
<1> QED BY <1>2, <1>3, <1>4

(* What a number becomes is a number.                                      *)
LEMMA RemappedType ==
  ASSUME TypeOK, NEW r \in Label
  PROVE  Remapped(r) \in 0 .. MaxCount - 1
<1>1. CASE r >= count
  BY <1>1 DEF Remapped, TypeOK
<1>2. CASE ~(r >= count) /\ End(alias, r) = 1
  BY <1>2, MaxCountAssumption DEF Remapped
<1>3. CASE ~(r >= count) /\ End(alias, r) # 1
  <2> DEFINE e == End(alias, r)
             S == {s \in 2 .. e : alias[s] = 0}
  <2>1. e \in Label /\ e \in Int /\ e >= 2 /\ e <= MaxCount - 1
    BY <1>3, TypeOKIsTable, ChainsEnd, MaxCountAssumption DEF Label
  <2> HIDE DEF e
  <2>2. IsFiniteSet(2 .. e) /\ Cardinality(2 .. e) = e - 1
    BY <2>1, FS_Interval
  <2>3. IsFiniteSet(S) /\ Cardinality(S) <= Cardinality(2 .. e)
    BY <2>2, FS_Subset
  <2>4. Cardinality(S) \in Nat
    BY <2>3, FS_CardinalityType
  <2>5. Remapped(r) = Cardinality(S)
    BY <1>3 DEF Remapped, e
  <2> HIDE DEF S
  <2> QED BY <2>1, <2>2, <2>3, <2>4, <2>5, MaxCountAssumption
<1> QED BY <1>1, <1>2, <1>3

(* Aliases are among the numbers given, so the count stays natural.        *)
LEMMA UpdatedCount ==
  ASSUME count \in 2 .. MaxCount
  PROVE  /\ IsFiniteSet(Aliases) /\ Cardinality(Aliases) \in Nat
         /\ count - 2 - Cardinality(Aliases) \in 0 .. MaxCount
<1>1. IsFiniteSet(2 .. count - 1) /\ Cardinality(2 .. count - 1) = count - 2
  <2>1. CASE count = 2
    <3>1. 2 .. count - 1 = {}
      BY <2>1
    <3> QED BY <2>1, <3>1, FS_EmptySet
  <2>2. CASE count # 2
    BY <2>2, MaxCountAssumption, FS_Interval
  <2> QED BY <2>1, <2>2
<1>2. Aliases \subseteq 2 .. count - 1
  BY DEF Aliases
<1>3. IsFiniteSet(Aliases) /\ Cardinality(Aliases) <= count - 2
  BY <1>1, <1>2, FS_Subset
<1>4. Cardinality(Aliases) \in Nat
  BY <1>3, FS_CardinalityType
<1> QED BY <1>3, <1>4, MaxCountAssumption

LEMMA TypesNext == TypeOK /\ WellFormed /\ [Next]_vars => TypeOK' /\ WellFormed'
<1> SUFFICES ASSUME TypeOK, WellFormed, [Next]_vars
             PROVE  TypeOK' /\ WellFormed'
  OBVIOUS
<1>1. CASE Black
  BY <1>1 DEF Black, Moves, TypeOK, WellFormed, Pixels
<1>2. CASE Connect
  <2>1. at \in Pixels(image)
    BY <1>2 DEF Connect, WellFormed, White
  <2>2. label' \in [Pixels(image) -> 0 .. MaxCount - 1]
    BY <1>2, <2>1, RegionType DEF Connect, TypeOK
  <2>3. alias' \in AliasTable
    BY <1>2, JoinedIsTable DEF Connect
  <2>4. phase' \in {"scan", "update"} /\ count \in 2 .. MaxCount /\ count' = count
    BY <1>2 DEF Connect, Moves, WellFormed
  <2>5. image' = image /\ op' = op /\ out' = out
    BY <1>2 DEF Connect
  <2> QED BY <2>2, <2>3, <2>4, <2>5 DEF TypeOK, WellFormed, AliasTable, Pixels
<1>3. CASE Alone
  <2>1. at \in Pixels(image) /\ count \in 2 .. MaxCount
    BY <1>3 DEF Alone, WellFormed, White
  <2>2. label' \in [Pixels(image) -> 0 .. MaxCount - 1]
    BY <1>3, <2>1, MaxCountAssumption DEF Alone, TypeOK
  <2>3. /\ phase' \in {"scan", "update", "use"} /\ count' \in -1 .. MaxCount
        /\ phase' \in {"scan", "update"} => count' \in 2 .. MaxCount
    <3>1. CASE Start(at) = 1
      BY <1>3, <2>1, <3>1, MaxCountAssumption DEF Alone, Moves
    <3>2. CASE Start(at) # 1 /\ count + 1 > MaxCount
      BY <1>3, <2>1, <3>2, MaxCountAssumption DEF Alone
    <3>3. CASE Start(at) # 1 /\ ~(count + 1 > MaxCount)
      BY <1>3, <2>1, <3>3, MaxCountAssumption DEF Alone, Moves
    <3> QED BY <3>1, <3>2, <3>3
  <2>4. image' = image /\ op' = op /\ out' = out /\ alias' = alias
    BY <1>3 DEF Alone
  <2> QED BY <2>2, <2>3, <2>4 DEF TypeOK, WellFormed, Pixels
<1>4. CASE Update
  <2>1. count \in 2 .. MaxCount
    BY <1>4 DEF Update, WellFormed
  <2>2. label' \in [Pixels(image) -> 0 .. MaxCount - 1]
    <3> SUFFICES ASSUME NEW p \in Pixels(image)
                 PROVE  (IF label[p] = 0 THEN 0 ELSE Remapped(label[p])) \in 0 .. MaxCount - 1
      BY <1>4 DEF Update
    <3>1. label[p] \in 0 .. MaxCount - 1
      BY DEF TypeOK
    <3>2. label[p] # 0 => label[p] \in Label
      BY <3>1, MaxCountAssumption DEF Label
    <3> QED BY <3>2, RemappedType, MaxCountAssumption
  <2>3. count' \in 0 .. MaxCount
    BY <1>4, <2>1, UpdatedCount DEF Update
  <2>4. /\ image' = image /\ op' = op /\ out' = out /\ alias' = alias /\ phase' = "use"
    BY <1>4 DEF Update
  <2>5. count' \in -1 .. MaxCount
    BY <2>3, MaxCountAssumption
  <2> QED BY <2>2, <2>4, <2>5 DEF TypeOK, WellFormed, Pixels
<1>5. CASE Use
  <2>1. out' \subseteq Pixels(image)
    <3>1. CASE op.kind = "find"
      BY <1>5, <3>1 DEF Use
    <3>2. CASE op.kind = "fill"
      BY <1>5, <3>2 DEF Use
    <3>3. CASE op.kind = "remove"
      BY <1>5, <3>3 DEF Use
    <3> QED BY <3>1, <3>2, <3>3 DEF WellFormed
  <2> QED BY <1>5, <2>1 DEF Use, TypeOK, WellFormed, Pixels
<1>6. CASE UNCHANGED vars
  BY <1>6 DEF vars, TypeOK, WellFormed, Pixels
<1> QED BY <1>1, <1>2, <1>3, <1>4, <1>5, <1>6 DEF Next

(* For every set of images and any number of numbers: the tables stay in   *)
(* range and an alias is a smaller number, so that the loops of            *)
(* alias_update, alias_getmin and alias_setmin end (ChainsEnd).            *)
THEOREM RegionsTypeCorrect == Spec => []TypeOK
<1>1. Spec => [](TypeOK /\ WellFormed)
  BY TypesInit, TypesNext, PTL DEF Spec
<1> QED BY <1>1, PTL

-----------------------------------------------------------------------------
(* Connected white pixels: what is in every set of white pixels that has   *)
(* the one and all neighbors of its own.                                   *)
HasNeighbors(m, c, S) == \A r \in S, s \in m.white : Near(c, r, s) => s \in S

Connected(m, c, p, q) ==
  \A S \in SUBSET m.white : p \in S /\ HasNeighbors(m, c, S) => q \in S

LEMMA NearSymmetric ==
  ASSUME NEW c \in {4, 8}, NEW p \in Int \X Int, NEW q \in Int \X Int
  PROVE  Near(c, p, p) /\ (Near(c, p, q) => Near(c, q, p))
BY DEF Near

LEMMA ConnectedReflexive ==
  ASSUME NEW m, NEW c, NEW p \in m.white
  PROVE  Connected(m, c, p, p)
BY DEF Connected

LEMMA ConnectedTransitive ==
  ASSUME NEW m, NEW c, NEW p, NEW q, NEW r,
         Connected(m, c, p, q), Connected(m, c, q, r)
  PROVE  Connected(m, c, p, r)
BY DEF Connected

LEMMA NeighborsConnected ==
  ASSUME NEW m, NEW c, NEW p \in m.white, NEW q \in m.white, Near(c, p, q)
  PROVE  Connected(m, c, p, q)
BY DEF Connected, HasNeighbors

(* A set that has all its neighbors has all that is connected.             *)
LEMMA ConnectedWithin ==
  ASSUME NEW m, NEW c, NEW S \in SUBSET m.white, HasNeighbors(m, c, S),
         NEW p \in S, NEW q, Connected(m, c, p, q)
  PROVE  q \in S
BY DEF Connected

LEMMA ConnectedSymmetric ==
  ASSUME NEW m, NEW c \in {4, 8}, m.white \subseteq Int \X Int,
         NEW p \in m.white, NEW q, Connected(m, c, p, q)
  PROVE  Connected(m, c, q, p)
<1> DEFINE S == {r \in m.white : Connected(m, c, r, p)}
<1>1. p \in S
  BY ConnectedReflexive
<1>2. HasNeighbors(m, c, S)
  <2> SUFFICES ASSUME NEW r \in S, NEW s \in m.white, Near(c, r, s)
               PROVE  s \in S
    BY DEF HasNeighbors
  <2>1. Near(c, s, r)
    BY NearSymmetric
  <2>2. Connected(m, c, s, r) /\ Connected(m, c, r, p)
    BY <2>1, NeighborsConnected
  <2>3. Connected(m, c, s, p)
    BY <2>2, ConnectedTransitive
  <2> QED BY <2>3
<1>3. q \in S
  BY <1>1, <1>2, ConnectedWithin
<1> QED BY <1>3

-----------------------------------------------------------------------------
(* What imAnalyzeFindRegions is measured by: the white pixels that can be   *)
(* reached are the connected ones.                                         *)
NeighborsOf(white, c, S) == {q \in white : \E r \in S : Near(c, r, q)}

(* The recursive definition has a solution: what paths of at most n steps  *)
(* reach.                                                                  *)
Path(white, c, p, n, f) ==
  /\ f \in [0 .. n -> white \cup {p}]
  /\ f[0] = p
  /\ \A i \in 0 .. n - 1 : f[i + 1] = f[i] \/ (f[i + 1] \in white /\ Near(c, f[i], f[i + 1]))

ByPaths(white, c, p, n) == {q \in white \cup {p} : \E f : Path(white, c, p, n, f) /\ f[n] = q}

LEMMA NoPath ==
  ASSUME NEW white, NEW c, NEW p
  PROVE  ByPaths(white, c, p, 0) = {p}
<1> DEFINE f == [i \in 0 .. 0 |-> p]
<1>1. Path(white, c, p, 0, f) /\ f[0] = p
  BY DEF Path
<1> QED BY <1>1 DEF ByPaths, Path

LEMMA LongerPath ==
  ASSUME NEW white, NEW c, NEW p, NEW n \in Nat
  PROVE  ByPaths(white, c, p, n + 1)
           = ByPaths(white, c, p, n) \cup NeighborsOf(white, c, ByPaths(white, c, p, n))
<1> DEFINE B == ByPaths(white, c, p, n)
<1>1. ASSUME NEW q \in ByPaths(white, c, p, n + 1) PROVE q \in B \cup NeighborsOf(white, c, B)
  <2>1. PICK f : Path(white, c, p, n + 1, f) /\ f[n + 1] = q
    BY <1>1 DEF ByPaths
  <2> DEFINE g == [i \in 0 .. n |-> f[i]]
  <2>2. Path(white, c, p, n, g) /\ g[n] = f[n] /\ f[n] \in white \cup {p}
    BY <2>1 DEF Path
  <2>3. f[n] \in B
    BY <2>2 DEF ByPaths
  <2>4. f[n + 1] = f[n] \/ (f[n + 1] \in white /\ Near(c, f[n], f[n + 1]))
    BY <2>1 DEF Path
  <2> HIDE DEF B
  <2> QED BY <2>1, <2>3, <2>4 DEF NeighborsOf
<1>2. ASSUME NEW q \in B \cup NeighborsOf(white, c, B) PROVE q \in ByPaths(white, c, p, n + 1)
  <2>1. PICK r \in B : q = r \/ (q \in white /\ Near(c, r, q))
    BY <1>2 DEF NeighborsOf
  <2>2. PICK f : Path(white, c, p, n, f) /\ f[n] = r
    BY <2>1 DEF ByPaths
  <2> DEFINE g == [i \in 0 .. n + 1 |-> IF i = n + 1 THEN q ELSE f[i]]
  <2>3. q \in white \cup {p}
    BY <2>1 DEF ByPaths
  <2>4. g \in [0 .. n + 1 -> white \cup {p}] /\ g[0] = p /\ g[n + 1] = q
    BY <2>2, <2>3 DEF Path
  <2>5. ASSUME NEW i \in 0 .. (n + 1) - 1
        PROVE  g[i + 1] = g[i] \/ (g[i + 1] \in white /\ Near(c, g[i], g[i + 1]))
    <3>1. CASE i = n
      <4>1. g[i] = r /\ g[i + 1] = q
        BY <3>1, <2>2
      <4> QED BY <4>1, <2>1
    <3>2. CASE i \in 0 .. n - 1
      <4>1. g[i] = f[i] /\ g[i + 1] = f[i + 1]
        BY <3>2
      <4> QED BY <4>1, <3>2, <2>2 DEF Path
    <3> QED BY <3>1, <3>2
  <2>6. Path(white, c, p, n + 1, g)
    BY <2>4, <2>5 DEF Path
  <2> QED BY <2>3, <2>4, <2>6 DEF ByPaths
<1> QED BY <1>1, <1>2

LEMMA GrowthIs ==
  ASSUME NEW white, NEW c, NEW p
  PROVE  /\ Growth(white, c, p)[0] = {p}
         /\ \A n \in Nat : Growth(white, c, p)[n + 1]
              = Growth(white, c, p)[n] \cup NeighborsOf(white, c, Growth(white, c, p)[n])
<1> DEFINE Step(g, n) == IF n = 0 THEN {p} ELSE g[n - 1] \cup {q \in white : \E r \in g[n - 1] : Near(c, r, q)}
           Solves(g) == g = [n \in Nat |-> Step(g, n)]
           G == [n \in Nat |-> ByPaths(white, c, p, n)]
<1>1. \A n \in Nat : G[n] = Step(G, n)
  <2> SUFFICES ASSUME NEW n \in Nat PROVE G[n] = Step(G, n)
    OBVIOUS
  <2>1. CASE n = 0
    BY <2>1, NoPath
  <2>2. CASE n # 0
    <3>1. n - 1 \in Nat /\ n = (n - 1) + 1
      BY <2>2
    <3>2. G[n] = G[n - 1] \cup NeighborsOf(white, c, G[n - 1])
      BY <3>1, LongerPath
    <3> QED BY <2>2, <3>2 DEF NeighborsOf
  <2> QED BY <2>1, <2>2
<1>2. Solves(G)
  BY <1>1
<1>3. Growth(white, c, p) = CHOOSE g : Solves(g)
  BY DEF Growth
<1> HIDE DEF Solves, G
<1>4. Solves(Growth(white, c, p))
  BY <1>2, <1>3
<1>5. Growth(white, c, p) = [n \in Nat |-> Step(Growth(white, c, p), n)]
  BY <1>4 DEF Solves
<1> HIDE DEF Step
<1>6. \A n \in Nat : Growth(white, c, p)[n] = Step(Growth(white, c, p), n)
  BY <1>5
<1>7. Growth(white, c, p)[0] = {p}
  BY <1>6 DEF Step
<1>8. ASSUME NEW n \in Nat PROVE Growth(white, c, p)[n + 1]
              = Growth(white, c, p)[n] \cup NeighborsOf(white, c, Growth(white, c, p)[n])
  <2>1. n + 1 \in Nat /\ n + 1 # 0 /\ (n + 1) - 1 = n
    OBVIOUS
  <2>2. Growth(white, c, p)[n + 1] = Step(Growth(white, c, p), n + 1)
    BY <1>6, <2>1
  <2> QED BY <2>1, <2>2 DEF Step, NeighborsOf
<1> QED BY <1>7, <1>8

(* Induction over the natural numbers, for sets.                           *)
LEMMA NoneIsBad ==
  ASSUME NEW Bad, Bad \subseteq Nat, 0 \notin Bad,
         \A n \in Nat : n \notin Bad => n + 1 \notin Bad
  PROVE  Bad = {}
<1> SUFFICES ASSUME Bad # {} PROVE FALSE
  OBVIOUS
<1> DEFINE n == Least(Bad)
<1>1. n \in Bad /\ \A t \in Bad : n <= t
  BY LeastIsLeast
<1> HIDE DEF n
<1>2. n \in Nat /\ n # 0
  BY <1>1
<1>3. n - 1 \in Nat /\ n - 1 \notin Bad /\ (n - 1) + 1 = n
  BY <1>1, <1>2
<1> QED BY <1>1, <1>3

(* What is reached in as many steps as there are white pixels is what is   *)
(* connected: as long as a step finds something there is one more.         *)
LEMMA ReachedIsConnected ==
  ASSUME NEW m, NEW c, NEW p \in m.white, IsFiniteSet(m.white)
  PROVE  Reached(m.white, c, p) = {q \in m.white : Connected(m, c, p, q)}
<1> DEFINE W == m.white
           G == Growth(W, c, p)
           N == Cardinality(W)
           Found(n) == G[n] \subseteq W /\ p \in G[n] /\ \A q \in G[n] : Connected(m, c, p, q)
           Done(n) == NeighborsOf(W, c, G[n]) \subseteq G[n]
           Grown(n) == Cardinality(G[n]) >= n + 1 \/ Done(n)
<1>1. /\ G[0] = {p}
      /\ \A n \in Nat : G[n + 1] = G[n] \cup NeighborsOf(W, c, G[n])
  BY GrowthIs
<1> HIDE DEF G
<1>2. \A n \in Nat : Found(n)
  <2> DEFINE Bad == {n \in Nat : ~Found(n)}
  <2>1. 0 \notin Bad
    BY <1>1, ConnectedReflexive
  <2>2. ASSUME NEW n \in Nat, Found(n) PROVE Found(n + 1)
    <3>1. G[n + 1] = G[n] \cup NeighborsOf(W, c, G[n])
      BY <1>1
    <3>2. ASSUME NEW q \in NeighborsOf(W, c, G[n]) PROVE q \in W /\ Connected(m, c, p, q)
      <4>1. PICK r \in G[n] : q \in W /\ Near(c, r, q)
        BY DEF NeighborsOf
      <4>2. r \in W /\ Connected(m, c, p, r) /\ Connected(m, c, r, q)
        BY <2>2, <4>1, NeighborsConnected
      <4> QED BY <4>1, <4>2, ConnectedTransitive
    <3> QED BY <2>2, <3>1, <3>2
  <2>3. \A n \in Nat : n \notin Bad => n + 1 \notin Bad
    BY <2>2
  <2>4. Bad = {}
    <3> HIDE DEF Found
    <3>1. Bad \subseteq Nat
      OBVIOUS
    <3> HIDE DEF Bad
    <3> QED BY <2>1, <2>3, <3>1, NoneIsBad
  <2> QED BY <2>4
<1>3. \A n \in Nat : /\ IsFiniteSet(G[n]) /\ Cardinality(G[n]) \in Nat
                     /\ Cardinality(G[n]) <= N
  BY <1>2, FS_Subset, FS_CardinalityType
<1>4. N \in Nat
  BY FS_CardinalityType
<1>5. \A n \in Nat : Grown(n)
  <2> DEFINE Bad == {n \in Nat : ~Grown(n)}
  <2>1. 0 \notin Bad
    <3>1. Cardinality(G[0]) = 1
      BY <1>1, FS_Singleton
    <3> QED BY <3>1
  <2>2. ASSUME NEW n \in Nat, Grown(n) PROVE Grown(n + 1)
    <3>1. G[n + 1] = G[n] \cup NeighborsOf(W, c, G[n]) /\ n + 1 \in Nat
      BY <1>1
    <3>2. CASE Done(n)
      <4>1. G[n + 1] = G[n]
        BY <3>1, <3>2
      <4> QED BY <4>1, <3>2
    <3>3. CASE ~Done(n)
      <4>1. PICK x : x \in G[n + 1] /\ x \notin G[n]
        BY <3>1, <3>3
      <4>2. /\ IsFiniteSet(G[n] \cup {x})
            /\ Cardinality(G[n] \cup {x}) = Cardinality(G[n]) + 1
        BY <1>3, <4>1, FS_AddElement
      <4>3. G[n] \cup {x} \subseteq G[n + 1]
        BY <3>1, <4>1
      <4>4. Cardinality(G[n]) + 1 <= Cardinality(G[n + 1])
        BY <1>3, <3>1, <4>2, <4>3, FS_Subset
      <4>5. Cardinality(G[n]) >= n + 1 /\ Cardinality(G[n]) \in Nat /\ Cardinality(G[n + 1]) \in Nat
        BY <1>3, <2>2, <3>1, <3>3
      <4> QED BY <4>4, <4>5
    <3> QED BY <3>2, <3>3
  <2>3. \A n \in Nat : n \notin Bad => n + 1 \notin Bad
    BY <2>2
  <2>4. Bad = {}
    <3> HIDE DEF Grown
    <3>1. Bad \subseteq Nat
      OBVIOUS
    <3> HIDE DEF Bad
    <3> QED BY <2>1, <2>3, <3>1, NoneIsBad
  <2> QED BY <2>4
<1>6. Done(N)
  <2> HIDE DEF N, Done
  <2>1. Grown(N) /\ Cardinality(G[N]) <= N /\ Cardinality(G[N]) \in Nat
    BY <1>3, <1>4, <1>5
  <2> QED BY <2>1, <1>4
<1>7. HasNeighbors(m, c, G[N])
  BY <1>6 DEF HasNeighbors, NeighborsOf
<1>8. G[N] \subseteq W /\ p \in G[N] /\ \A q \in G[N] : Connected(m, c, p, q)
  BY <1>2, <1>4
<1>9. \A q : Connected(m, c, p, q) => q \in G[N]
  BY <1>7, <1>8 DEF Connected
<1> QED BY <1>8, <1>9 DEF Reached, G
-----------------------------------------------------------------------------
(* The scan.  Seen: it has passed the pixel.                               *)
Seen(p) == p[1] < at[1] \/ (p[1] = at[1] /\ p[2] < at[2])
Known == {p \in image.white : phase = "update" \/ Seen(p)}

Exact == ~CornerIsLost /\ ~CornerIsStale

(* The pixel the scan without the border never visits: it has the border's *)
(* number, though it is not written.                                       *)
BottomLeft(m, o, p) == ~o.border /\ m.height > 1 /\ p = <<m.height - 1, 0>>

Number(m, o, a, l, p) == IF BottomLeft(m, o, p) THEN 1 ELSE End(a, l[p])

(* It is no region without the border.                                     *)
TouchesEdge(m, o, p) ==
  ~o.border /\ \E q \in m.white : OnEdge(m, q) /\ Connected(m, o.connect, p, q)

(* The strengthening, of the pixels K known so far, the table a and the    *)
(* result l with numbers less than k: neighbors have numbers of one end,   *)
(* but for a pair X that is compared next; pixels with numbers of one end  *)
(* are connected, or at the border if the end is 1; every number was given *)
(* to a pixel.                                                             *)
GoodNumber(m, o, K, l, k, p) ==
  IF BottomLeft(m, o, p) THEN l[p] = 0
  ELSE /\ ~o.border /\ OnEdge(m, p) /\ (p \in K \/ p[2] = 0) => l[p] = 1
       /\ p \in K => l[p] \in 1 .. k - 1

Numbered(m, o, K, a, l, k, X) ==
  /\ \A r \in Label : a[r] # 0 => r < k
  /\ \A p \in m.white : GoodNumber(m, o, K, l, k, p)
  /\ \A p, q \in K : Near(o.connect, p, q) /\ {p, q} # X =>
                       Number(m, o, a, l, p) = Number(m, o, a, l, q)
  /\ \A p, q \in K : /\ Number(m, o, a, l, p) = Number(m, o, a, l, q)
                     /\ Number(m, o, a, l, p) # 1
                     => Connected(m, o.connect, p, q)
  /\ \A p \in K : Number(m, o, a, l, p) = 1 => TouchesEdge(m, o, p)
  /\ \A r \in 2 .. k - 1 : \E p \in K : l[p] = r

(* The first pixel of a line is known before the scan comes to the second, *)
(* which alone may connect it with the one above that.                     *)
Pending ==
  IF ~op.border /\ phase = "scan" /\ at[2] = 1 /\ White(at) THEN {Left(at), Up(at)} ELSE {}

Scannable2 ==
  phase = "scan" => at \in Pixels(image) /\ (~op.border => at[1] >= 1 /\ at[2] >= 1)

BlackIsZero == op.fresh => \A p \in Pixels(image) \ image.white : label[p] = 0

Scanned ==
  phase \in {"scan", "update"} =>
    /\ Scannable2
    /\ BlackIsZero
    /\ Exact => Numbered(image, op, Known, alias, label, count, Pending)

LEMMA PixelsAreInts ==
  ASSUME WellFormed
  PROVE  /\ Pixels(image) \subseteq Int \X Int
         /\ image.white \subseteq Int \X Int /\ image.white \subseteq Pixels(image)
         /\ \A p \in Pixels(image) :
              /\ p = <<p[1], p[2]>>
              /\ p[1] \in 0 .. image.height - 1 /\ p[2] \in 0 .. image.width - 1
BY DEF WellFormed, Pixels

(* One step of the scan passes one pixel, and from the end of a line that  *)
(* starts at the second one, the first of the next as well.                *)
LEMMA ScanPasses ==
  ASSUME WellFormed, phase = "scan", Scannable2, Moves, image' = image, op' = op
  PROVE  /\ phase' \in {"scan", "update"}
         /\ Scannable2'
         /\ ~Seen(at)
         /\ \A p \in Pixels(image) : (phase' = "update" \/ Seen(p)') <=>
              \/ Seen(p) \/ p = at
              \/ ~op.border /\ at[2] = image.width - 1 /\ p = <<at[1] + 1, 0>>
         /\ ~op.border /\ at[2] = image.width - 1 => at' = <<at[1] + 1, 1>>
<1> DEFINE h == image.height  w == image.width
<1>1. h \in Nat \ {0} /\ w \in Nat \ {0} /\ op.border \in BOOLEAN
  BY DEF WellFormed
<1>2. /\ at \in Pixels(image)
      /\ at = <<at[1], at[2]>> /\ at[1] \in 0 .. h - 1 /\ at[2] \in 0 .. w - 1
  BY PixelsAreInts DEF Scannable2
<1>3. \A p \in Pixels(image) :
        p = <<p[1], p[2]>> /\ p[1] \in 0 .. h - 1 /\ p[2] \in 0 .. w - 1
  BY PixelsAreInts
<1>4. at' = NextPixel(at) /\ phase' = IF NextPixel(at)[1] = h THEN "update" ELSE "scan"
  BY DEF Moves
<1>5. ~op.border => at[1] >= 1 /\ at[2] >= 1
  BY DEF Scannable2
<1>6. ~Seen(at)
  BY <1>2 DEF Seen
<1>7. CASE at[2] < w - 1
  <2>1. at' = <<at[1], at[2] + 1>> /\ phase' = "scan"
    BY <1>1, <1>2, <1>4, <1>7 DEF NextPixel
  <2>2. at' \in Pixels(image) /\ at'[1] = at[1] /\ at'[2] = at[2] + 1
    BY <1>1, <1>2, <1>7, <2>1 DEF Pixels
  <2>3. \A p \in Pixels(image) : Seen(p)' <=> Seen(p) \/ p = at
    BY <1>2, <1>3, <2>1 DEF Seen
  <2>4. Pixels(image)' = Pixels(image)
    BY DEF Pixels
  <2>5. Scannable2'
    BY <1>2, <1>5, <2>2, <2>4 DEF Scannable2
  <2> QED BY <1>2, <1>6, <1>7, <2>1, <2>3, <2>5
<1>8. CASE at[2] = w - 1 /\ op.border
  <2>1. at' = <<at[1] + 1, 0>> /\ phase' = IF at[1] + 1 = h THEN "update" ELSE "scan"
    BY <1>1, <1>2, <1>4, <1>8 DEF NextPixel
  <2>2. at[1] + 1 # h => at' \in Pixels(image)
    BY <1>1, <1>2, <2>1 DEF Pixels
  <2>3. \A p \in Pixels(image) : Seen(p)' <=> Seen(p) \/ p = at
    BY <1>1, <1>2, <1>3, <1>8, <2>1 DEF Seen
  <2>4. at[1] + 1 = h => \A p \in Pixels(image) : Seen(p)'
    BY <1>1, <1>2, <1>3, <2>1 DEF Seen
  <2>5. Pixels(image)' = Pixels(image)
    BY DEF Pixels
  <2>6. Scannable2'
    BY <1>8, <2>1, <2>2, <2>5 DEF Scannable2
  <2> QED BY <1>6, <1>8, <2>1, <2>3, <2>4, <2>6
<1>9. CASE at[2] = w - 1 /\ ~op.border
  <2>1. at' = <<at[1] + 1, 1>> /\ phase' = IF at[1] + 1 = h THEN "update" ELSE "scan"
    BY <1>1, <1>2, <1>4, <1>9 DEF NextPixel
  <2>2. at[1] + 1 # h => at' \in Pixels(image) /\ at'[1] >= 1 /\ at'[2] >= 1
    BY <1>1, <1>2, <1>5, <1>9, <2>1 DEF Pixels
  <2>3. \A p \in Pixels(image) : Seen(p)' <=> Seen(p) \/ p = at \/ p = <<at[1] + 1, 0>>
    BY <1>1, <1>2, <1>3, <1>9, <2>1 DEF Seen
  <2>4. at[1] + 1 = h => \A p \in Pixels(image) : Seen(p)'
    BY <1>1, <1>2, <1>3, <2>1 DEF Seen
  <2>5. Pixels(image)' = Pixels(image)
    BY DEF Pixels
  <2>6. Scannable2'
    BY <2>1, <2>2, <2>5 DEF Scannable2
  <2> QED BY <1>6, <1>9, <2>1, <2>3, <2>4, <2>6
<1> QED BY <1>1, <1>2, <1>7, <1>8, <1>9

(* The pixels seen that are near the one the scan is at.                   *)
LEMMA NearAndSeen ==
  ASSUME WellFormed, at \in Pixels(image), NEW q \in Pixels(image),
         Seen(q), Near(op.connect, at, q)
  PROVE  \/ q = Left(at) \/ q = Up(at)
         \/ Corners /\ (q = UpLeft(at) \/ q = UpRight(at))
<1>1. /\ at = <<at[1], at[2]>> /\ at[1] \in Int /\ at[2] \in Int
      /\ q = <<q[1], q[2]>> /\ q[1] \in Int /\ q[2] \in Int
  BY PixelsAreInts
<1>2. op.connect \in {4, 8}
  BY DEF WellFormed
<1>3. /\ at[1] - q[1] \in -1 .. 1 /\ at[2] - q[2] \in -1 .. 1
      /\ op.connect = 4 => at[1] - q[1] = 0 \/ at[2] - q[2] = 0
  BY DEF Near
<1>4. \/ q[1] = at[1] /\ q[2] = at[2] - 1
      \/ q[1] = at[1] - 1 /\ q[2] = at[2]
      \/ op.connect = 8 /\ q[1] = at[1] - 1 /\ q[2] \in {at[2] - 1, at[2] + 1}
  BY <1>1, <1>2, <1>3 DEF Seen
<1> QED BY <1>1, <1>4 DEF Left, Up, UpLeft, UpRight, Corners

LEMMA NeighborsSeen ==
  ASSUME WellFormed, at \in Pixels(image), NEW q, White(q),
         \/ q \in {Left(at), Up(at)}
         \/ Corners /\ q \in {UpLeft(at), UpRight(at)}
  PROVE  q \in image.white /\ Seen(q) /\ Near(op.connect, at, q)
<1>1. at = <<at[1], at[2]>> /\ at[1] \in Int /\ at[2] \in Int
  BY PixelsAreInts
<1>2. op.connect \in {4, 8}
  BY DEF WellFormed
<1> QED BY <1>1, <1>2 DEF Left, Up, UpLeft, UpRight, Corners, Seen, Near, White

(* Two neighbors whose numbers are made one, the first's is the pixel's    *)
(* own, and every neighbor seen is also a neighbor of one of the two, and  *)
(* not the pair that is pending.                                           *)
Suffice(n1, n2) ==
  /\ Region(at) = label[n1]
  /\ Joined(at) = alias_set(alias, label[n1], label[n2])
  /\ \A q \in image.white : Seen(q) /\ Near(op.connect, at, q) =>
       \E n \in {n1, n2} : Near(op.connect, q, n) /\ {q, n} # {Left(at), Up(at)}

(* A white pixel inside that touches what was seen has two such.           *)
LEMMA TwoNeighbors ==
  ASSUME TypeOK, WellFormed, Start(at) = 0, at \in Pixels(image), Touches(at),
         \A p \in image.white : Seen(p) /\ Near(op.connect, at, p) => label[p] # 0
  PROVE  \E n1, n2 \in image.white :
           /\ Seen(n1) /\ Seen(n2) /\ Near(op.connect, at, n1) /\ Near(op.connect, at, n2)
           /\ Suffice(n1, n2)
<1> DEFINE l == Left(at)  u == Up(at)  ul == UpLeft(at)  ur == UpRight(at)
           Close(q, n) == Near(op.connect, q, n) /\ {q, n} # {l, u}
<1>1. /\ at = <<at[1], at[2]>> /\ at[1] \in Int /\ at[2] \in Int
      /\ l = <<at[1], at[2] - 1>> /\ u = <<at[1] - 1, at[2]>>
      /\ ul = <<at[1] - 1, at[2] - 1>> /\ ur = <<at[1] - 1, at[2] + 1>>
  BY PixelsAreInts DEF Left, Up, UpLeft, UpRight
<1>2. op.connect \in {4, 8} /\ (Corners <=> op.connect = 8)
  BY DEF WellFormed, Corners
<1>3. \A q \in {l, u} : White(q) =>
        q \in image.white /\ Seen(q) /\ Near(op.connect, at, q) /\ label[q] # 0
  BY NeighborsSeen
<1>4. \A q \in {ul, ur} : White(q) /\ Corners =>
        q \in image.white /\ Seen(q) /\ Near(op.connect, at, q) /\ label[q] # 0
  BY NeighborsSeen
<1>5. \A q \in image.white : Seen(q) /\ Near(op.connect, at, q) =>
        /\ White(q)
        /\ q \in {l, u} \/ (Corners /\ q \in {ul, ur})
  <2> SUFFICES ASSUME NEW q \in image.white, Seen(q), Near(op.connect, at, q)
               PROVE  White(q) /\ (q \in {l, u} \/ (Corners /\ q \in {ul, ur}))
    OBVIOUS
  <2>1. q \in Pixels(image) /\ White(q)
    BY DEF WellFormed, White
  <2>2. \/ q = Left(at) \/ q = Up(at)
        \/ Corners /\ (q = UpLeft(at) \/ q = UpRight(at))
    BY <2>1, NearAndSeen
  <2> QED BY <2>1, <2>2
<1>6. /\ Close(l, l) /\ Close(u, u) /\ Close(ul, ul) /\ Close(ur, ur)
      /\ Corners => Close(ul, l) /\ Close(ul, u) /\ Close(ur, u)
  <2>1. l # u /\ ul # l /\ ul # u /\ ur # l /\ ur # u
    BY <1>1
  <2>2. /\ Near(op.connect, l, l) /\ Near(op.connect, u, u)
        /\ Near(op.connect, ul, ul) /\ Near(op.connect, ur, ur)
        /\ Corners => /\ Near(op.connect, ul, l) /\ Near(op.connect, ul, u)
                      /\ Near(op.connect, ur, u)
    BY <1>1, <1>2 DEF Near
  <2> HIDE DEF l, u, ul, ur
  <2> QED BY <2>1, <2>2
<1>7. Start(at) = 0 /\ ~LeftJoins(at)
  BY DEF LeftJoins
<1>8. Touches(at) <=> White(l) \/ White(u) \/ (Corners /\ (White(ul) \/ White(ur)))
  BY DEF Touches
<1>9. /\ AfterLeft(at) = IF White(l) THEN label[l] ELSE 0
      /\ AfterUp(at) = IF AfterLeft(at) = 0 /\ White(u) THEN label[u] ELSE AfterLeft(at)
  BY <1>7 DEF AfterLeft, AfterUp
<1>10. \A n : alias_set(alias, n, n) = alias
  BY DEF alias_set, Same
<1>11. CASE White(l)
  <2>1. AfterLeft(at) = label[l] /\ AfterUp(at) = label[l] /\ label[l] # 0
    BY <1>3, <1>9, <1>11
  <2>2. Region(at) = label[l]
    BY <2>1 DEF Region
  <2>3. CASE White(u)
    <3>1. Joined(at) = alias_set(alias, label[l], label[u])
      BY <1>7, <2>1, <2>3 DEF Joined, UpJoins
    <3>2. Suffice(l, u)
      <4>1. ASSUME NEW q \in image.white, Seen(q), Near(op.connect, at, q)
            PROVE  Close(q, l) \/ Close(q, u)
        <5>1. q \in {l, u} \/ (Corners /\ q \in {ul, ur})
          BY <1>5, <4>1
        <5> HIDE DEF Close
        <5> QED BY <1>6, <5>1
      <4>2. \A q \in image.white : Seen(q) /\ Near(op.connect, at, q) =>
              \E n \in {l, u} : Close(q, n)
        <5> HIDE DEF Close, l, u
        <5> QED BY <4>1
      <4> QED BY <2>2, <3>1, <4>2 DEF Suffice
    <3>3. /\ l \in image.white /\ Seen(l) /\ Near(op.connect, at, l)
          /\ u \in image.white /\ Seen(u) /\ Near(op.connect, at, u)
      BY <1>3, <1>11, <2>3
    <3> QED BY <3>2, <3>3
  <2>4. CASE ~White(u) /\ Corners /\ White(ur)
    <3>1. Joined(at) = alias_set(alias, label[l], label[ur])
      BY <1>7, <2>1, <2>4 DEF Joined, UpJoins
    <3>2. Suffice(l, ur)
      BY <1>5, <1>6, <2>2, <2>4, <3>1 DEF Suffice
    <3> QED BY <1>3, <1>4, <1>11, <2>4, <3>2
  <2>5. CASE ~White(u) /\ ~(Corners /\ White(ur))
    <3>1. ~UpJoins(at) /\ ~CornersJoin(at)
      BY <2>1, <2>5 DEF UpJoins, CornersJoin
    <3>2. Joined(at) = alias_set(alias, label[l], label[l])
      BY <1>7, <1>10, <3>1 DEF Joined
    <3>3. Suffice(l, l)
      BY <1>5, <1>6, <2>2, <2>5, <3>2 DEF Suffice
    <3> QED BY <1>3, <1>11, <3>3
  <2> QED BY <2>3, <2>4, <2>5
<1>12. CASE ~White(l) /\ White(u)
  <2>1. AfterLeft(at) = 0 /\ AfterUp(at) = label[u] /\ label[u] # 0
    BY <1>3, <1>9, <1>12
  <2>2. Region(at) = label[u]
    BY <2>1 DEF Region
  <2>3. ~UpJoins(at) /\ ~CornersJoin(at)
    BY <2>1 DEF UpJoins, CornersJoin
  <2>4. Joined(at) = alias_set(alias, label[u], label[u])
    BY <1>7, <1>10, <2>3 DEF Joined
  <2>5. Suffice(u, u)
    BY <1>5, <1>6, <1>12, <2>2, <2>4 DEF Suffice
  <2> QED BY <1>3, <1>12, <2>5
<1>13. CASE ~White(l) /\ ~White(u)
  <2>1. AfterLeft(at) = 0 /\ AfterUp(at) = 0 /\ ~UpJoins(at)
    BY <1>9, <1>13 DEF UpJoins
  <2>2. Corners /\ (White(ul) \/ White(ur))
    BY <1>8, <1>13
  <2>3. CASE White(ul) /\ White(ur)
    <3>1. Region(at) = label[ul]
      BY <2>1, <2>2, <2>3 DEF Region
    <3>2. Joined(at) = alias_set(alias, label[ul], label[ur])
      BY <1>7, <2>1, <2>2, <2>3 DEF Joined, CornersJoin
    <3>3. Suffice(ul, ur)
      BY <1>5, <1>6, <1>13, <3>1, <3>2 DEF Suffice
    <3> QED BY <1>4, <2>2, <2>3, <3>3
  <2>4. CASE White(ul) /\ ~White(ur)
    <3>1. Region(at) = label[ul]
      BY <2>1, <2>2, <2>4 DEF Region
    <3>2. Joined(at) = alias_set(alias, label[ul], label[ul])
      BY <1>7, <1>10, <2>1, <2>4 DEF Joined, CornersJoin
    <3>3. Suffice(ul, ul)
      BY <1>5, <1>6, <1>13, <2>4, <3>1, <3>2 DEF Suffice
    <3> QED BY <1>4, <2>2, <2>4, <3>3
  <2>5. CASE ~White(ul)
    <3>1. White(ur) /\ Region(at) = label[ur]
      BY <2>1, <2>2, <2>5 DEF Region
    <3>2. Joined(at) = alias_set(alias, label[ur], label[ur])
      BY <1>7, <1>10, <2>1, <2>5 DEF Joined, CornersJoin
    <3>3. Suffice(ur, ur)
      BY <1>5, <1>6, <1>13, <2>5, <3>1, <3>2 DEF Suffice
    <3> QED BY <1>4, <2>2, <3>1, <3>3
  <2> QED BY <2>2, <2>3, <2>4, <2>5
<1> QED BY <1>11, <1>12, <1>13

(* A pixel of the last line or column is the border's, and makes what it   *)
(* compares itself with the border's, too.                                 *)
LEMMA LastEdgeJoins ==
  ASSUME Start(at) = 1
  PROVE  /\ Region(at) = 1
         /\ Joined(at) =
              LET y1 == IF White(Left(at)) THEN label[Left(at)] ELSE 0
                  y2 == IF White(Up(at)) THEN label[Up(at)]
                        ELSE IF Corners /\ White(UpRight(at)) THEN label[UpRight(at)] ELSE 0
              IN alias_set(alias_set(alias, 1, y1), 1, y2)
<1>1. AfterLeft(at) = 1 /\ AfterUp(at) = 1 /\ Region(at) = 1
  BY DEF AfterLeft, AfterUp, Region
<1>2. \A a : alias_set(a, 1, 0) = a
  BY DEF alias_set, Same
<1>3. ~CornersJoin(at) /\ (LeftJoins(at) <=> White(Left(at)))
  BY <1>1 DEF CornersJoin, LeftJoins
<1>4. UpJoins(at) <=> White(Up(at)) \/ (Corners /\ White(UpRight(at)))
  BY <1>1 DEF UpJoins
<1> DEFINE y1 == IF White(Left(at)) THEN label[Left(at)] ELSE 0
           first == IF LeftJoins(at) THEN alias_set(alias, Start(at), label[Left(at)]) ELSE alias
<1>5. first = alias_set(alias, 1, y1)
  BY <1>2, <1>3
<1>6. Joined(at) = IF UpJoins(at)
                   THEN alias_set(first, 1, label[IF White(Up(at)) THEN Up(at) ELSE UpRight(at)])
                   ELSE first
  BY <1>1, <1>3 DEF Joined
<1> HIDE DEF first, y1
<1>7. CASE White(Up(at))
  BY <1>1, <1>4, <1>5, <1>6, <1>7 DEF y1
<1>8. CASE ~White(Up(at)) /\ Corners /\ White(UpRight(at))
  BY <1>1, <1>4, <1>5, <1>6, <1>8 DEF y1
<1>9. CASE ~White(Up(at)) /\ ~(Corners /\ White(UpRight(at)))
  BY <1>1, <1>2, <1>4, <1>5, <1>6, <1>9 DEF y1
<1> QED BY <1>7, <1>8, <1>9

-----------------------------------------------------------------------------
(* Numbers of known pixels.                                                *)
LEMMA OneEnds ==
  ASSUME NEW a \in AliasTable
  PROVE  1 \in Label /\ End(a, 1) = 1
<1>1. 1 \in Label
  BY MaxCountAssumption DEF Label
<1>2. a[1] = 0
  BY <1>1 DEF AliasTable
<1> QED BY <1>1, <1>2, EndStep

LEMMA NumberType ==
  ASSUME NEW m, NEW o, NEW K \in SUBSET m.white, NEW a \in AliasTable, NEW l,
         NEW k \in 2 .. MaxCount, \A p \in m.white : GoodNumber(m, o, K, l, k, p),
         NEW p \in K
  PROVE  /\ ~BottomLeft(m, o, p) =>
              l[p] \in Label /\ l[p] \in 1 .. k - 1 /\ Number(m, o, a, l, p) = End(a, l[p])
         /\ Number(m, o, a, l, p) \in 1 .. k - 1
<1>1. CASE BottomLeft(m, o, p)
  BY <1>1 DEF Number
<1>2. CASE ~BottomLeft(m, o, p)
  <2>1. l[p] \in 1 .. k - 1 /\ Number(m, o, a, l, p) = End(a, l[p])
    BY <1>2 DEF GoodNumber, Number
  <2>2. l[p] \in Label
    BY <2>1, MaxCountAssumption DEF Label
  <2>3. End(a, l[p]) <= l[p] /\ End(a, l[p]) \in Label
    BY <2>2, EndStep, ChainsEnd
  <2>4. End(a, l[p]) \in 1 .. k - 1
    BY <2>1, <2>3 DEF Label
  <2> QED BY <2>1, <2>2, <2>4
<1> QED BY <1>1, <1>2

LEMMA EdgeNumber ==
  ASSUME NEW m, NEW o, ~o.border, NEW K \in SUBSET m.white, NEW a \in AliasTable, NEW l,
         NEW k, \A p \in m.white : GoodNumber(m, o, K, l, k, p),
         NEW p \in K, OnEdge(m, p)
  PROVE  Number(m, o, a, l, p) = 1
<1>1. CASE BottomLeft(m, o, p)
  BY <1>1 DEF Number
<1>2. CASE ~BottomLeft(m, o, p)
  <2>1. l[p] = 1
    BY <1>2 DEF GoodNumber
  <2> QED BY <1>2, <2>1, OneEnds DEF Number
<1> QED BY <1>1, <1>2

(* One more pixel, with number v, whose end becomes e: the ends of others  *)
(* stay or become e, as those of its neighbors do.                         *)
LEMMA OneMorePixel ==
  ASSUME NEW m, NEW o, m.white \subseteq Int \X Int, o.connect \in {4, 8},
         NEW K \in SUBSET m.white, NEW p0 \in m.white \ K, ~BottomLeft(m, o, p0),
         NEW a, NEW b, NEW l, NEW l2, NEW k \in Nat, NEW k2 \in Nat, NEW v \in 1 .. k2 - 1,
         NEW X, NEW e,
         Numbered(m, o, K, a, l, k, X),
         \A p \in m.white : l2[p] = IF p = p0 THEN v ELSE l[p],
         \A q \in X : q \in K => Near(o.connect, p0, q),
         k <= k2, \A r \in k .. k2 - 1 : r = v,
         ~o.border /\ OnEdge(m, p0) => v = 1,
         End(b, v) = e,
         \A r \in Label : b[r] # 0 => r < k2,
         \A p \in K : Number(m, o, a, l, p) = 1 => Number(m, o, b, l, p) = 1,
         \A p, q \in K : Number(m, o, a, l, p) = Number(m, o, a, l, q) =>
                           Number(m, o, b, l, p) = Number(m, o, b, l, q),
         \A p, q \in K : Number(m, o, b, l, p) = Number(m, o, b, l, q) =>
                           \/ Number(m, o, a, l, p) = Number(m, o, a, l, q)
                           \/ Number(m, o, b, l, p) = e,
         \A q \in K : Near(o.connect, p0, q) => Number(m, o, b, l, q) = e,
         e # 1 => \A q \in K : /\ Number(m, o, b, l, q) = e => Connected(m, o.connect, p0, q)
                               /\ Number(m, o, b, l, q) = 1 => Number(m, o, a, l, q) = 1,
         e = 1 => /\ TouchesEdge(m, o, p0)
                  /\ \A q \in K : Number(m, o, b, l, q) = 1 => TouchesEdge(m, o, q)
  PROVE  Numbered(m, o, K \cup {p0}, b, l2, k2, {})
<1> DEFINE A(p) == Number(m, o, a, l, p)
           B(p) == Number(m, o, b, l, p)
           C(p) == Number(m, o, b, l2, p)
           c == o.connect
<1>1. \A p \in K : C(p) = B(p)
  BY DEF Number
<1>2. C(p0) = e
  BY DEF Number
<1>3. \A p \in m.white : GoodNumber(m, o, K \cup {p0}, l2, k2, p)
  <2> SUFFICES ASSUME NEW p \in m.white PROVE GoodNumber(m, o, K \cup {p0}, l2, k2, p)
    OBVIOUS
  <2>1. GoodNumber(m, o, K, l, k, p)
    BY DEF Numbered
  <2>2. CASE p = p0
    BY <2>2 DEF GoodNumber
  <2>3. CASE p # p0
    <3>1. l2[p] = l[p] /\ (p \in K <=> p \in K \cup {p0})
      BY <2>3
    <3>2. 1 .. k - 1 \subseteq 1 .. k2 - 1
      OBVIOUS
    <3> QED BY <2>1, <3>1, <3>2 DEF GoodNumber
  <2> QED BY <2>2, <2>3
<1>4. /\ \A p, q \in K : Near(c, p, q) /\ {p, q} # X => A(p) = A(q)
      /\ \A p, q \in K : A(p) = A(q) /\ A(p) # 1 => Connected(m, c, p, q)
      /\ \A p \in K : A(p) = 1 => TouchesEdge(m, o, p)
      /\ \A r \in 2 .. k - 1 : \E p \in K : l[p] = r
  BY DEF Numbered
<1>5. ASSUME NEW p \in K \cup {p0}, NEW q \in K \cup {p0}, Near(c, p, q) PROVE C(p) = C(q)
  <2> HIDE DEF A, B, C
  <2>1. CASE p \in K /\ q \in K
    <3>1. CASE {p, q} # X
      <4>1. A(p) = A(q)
        BY <1>4, <1>5, <2>1, <3>1
      <4> QED BY <1>1, <2>1, <4>1 DEF A, B
    <3>2. CASE {p, q} = X
      <4>1. Near(c, p0, p) /\ Near(c, p0, q)
        BY <2>1, <3>2
      <4>2. B(p) = e /\ B(q) = e
        BY <2>1, <4>1 DEF B
      <4> QED BY <1>1, <2>1, <4>2
    <3> QED BY <3>1, <3>2
  <2>2. CASE p = p0 /\ q \in K
    <3>1. B(q) = e
      BY <1>5, <2>2 DEF B
    <3> QED BY <1>1, <1>2, <2>2, <3>1
  <2>3. CASE q = p0 /\ p \in K
    <3>1. Near(c, p0, p)
      BY <1>5, <2>3, NearSymmetric
    <3>2. B(p) = e
      BY <2>3, <3>1 DEF B
    <3> QED BY <1>1, <1>2, <2>3, <3>2
  <2>4. CASE p = p0 /\ q = p0
    BY <2>4
  <2> QED BY <2>1, <2>2, <2>3, <2>4
<1>6. ASSUME e # 1, NEW q \in K, B(q) = e
      PROVE  Connected(m, c, p0, q) /\ Connected(m, c, q, p0)
  <2>1. Connected(m, c, p0, q)
    BY <1>6
  <2> QED BY <2>1, ConnectedSymmetric
<1>7. ASSUME NEW p \in K \cup {p0}, NEW q \in K \cup {p0}, C(p) = C(q), C(p) # 1
      PROVE  Connected(m, c, p, q)
  <2>1. ASSUME \A x, y \in K : B(x) = B(y) => A(x) = A(y) \/ B(x) = e,
               \A x \in K : A(x) = 1 => B(x) = 1
        PROVE  Connected(m, c, p, q)
    <3> HIDE DEF A, B, C
    <3>1. CASE p \in K /\ q \in K
      <4>1. B(p) = B(q) /\ B(p) # 1
        BY <1>1, <1>7, <3>1
      <4>2. CASE A(p) = A(q)
        BY <1>4, <2>1, <3>1, <4>1, <4>2
      <4>3. CASE B(p) = e
        <5>1. Connected(m, c, p, p0) /\ Connected(m, c, p0, q)
          BY <1>6, <3>1, <4>1, <4>3
        <5> QED BY <5>1, ConnectedTransitive
      <4> QED BY <2>1, <3>1, <4>1, <4>2, <4>3
    <3>2. CASE p = p0 /\ q \in K
      BY <1>1, <1>2, <1>6, <1>7, <3>2
    <3>3. CASE q = p0 /\ p \in K
      BY <1>1, <1>2, <1>6, <1>7, <3>3
    <3>4. CASE p = p0 /\ q = p0
      BY <3>4, ConnectedReflexive
    <3> QED BY <3>1, <3>2, <3>3, <3>4
  <2> QED BY <2>1
<1>8. ASSUME NEW p \in K \cup {p0}, C(p) = 1 PROVE TouchesEdge(m, o, p)
  <2>1. CASE p = p0
    <3>1. e = 1
      BY <1>2, <1>8, <2>1
    <3> QED BY <2>1, <3>1
  <2>2. CASE p \in K
    <3>1. B(p) = 1
      BY <1>1, <1>8, <2>2
    <3>2. CASE e = 1
      BY <2>2, <3>1, <3>2
    <3>3. CASE e # 1
      <4>1. A(p) = 1
        BY <2>2, <3>1, <3>3
      <4> QED BY <1>4, <2>2, <4>1
    <3> QED BY <3>2, <3>3
  <2> QED BY <2>1, <2>2
<1>9. ASSUME NEW r \in 2 .. k2 - 1 PROVE \E p \in K \cup {p0} : l2[p] = r
  <2>1. CASE r \in 2 .. k - 1
    <3>1. PICK p \in K : l[p] = r
      BY <1>4, <2>1
    <3>2. l2[p] = r /\ p \in K \cup {p0}
      BY <3>1
    <3> QED BY <3>2
  <2>2. CASE r \in k .. k2 - 1
    <3>1. l2[p0] = r
      BY <2>2
    <3> QED BY <3>1
  <2> QED BY <2>1, <2>2
<1> QED BY <1>3, <1>5, <1>7, <1>8, <1>9 DEF Numbered

(* The first pixel of a line is the border's.                              *)
LEMMA FirstOfLine ==
  ASSUME NEW m, NEW o, m.white \subseteq Int \X Int, o.connect \in {4, 8}, ~o.border,
         NEW K \in SUBSET m.white, NEW x \in m.white, x[2] = 0, OnEdge(m, x),
         NEW b \in AliasTable, NEW l, NEW k \in 2 .. MaxCount, NEW X,
         Numbered(m, o, K, b, l, k, {}),
         \A q \in K : Near(o.connect, q, x) /\ {q, x} # X => Number(m, o, b, l, q) = 1
  PROVE  Numbered(m, o, K \cup {x}, b, l, k, X)
<1> DEFINE B(p) == Number(m, o, b, l, p)
           c == o.connect
<1>1. \A p \in m.white : GoodNumber(m, o, K \cup {x}, l, k, p)
  <2> SUFFICES ASSUME NEW p \in m.white PROVE GoodNumber(m, o, K \cup {x}, l, k, p)
    OBVIOUS
  <2>1. GoodNumber(m, o, K, l, k, p)
    BY DEF Numbered
  <2>2. CASE p = x
    <3>1. 1 \in 1 .. k - 1
      OBVIOUS
    <3> QED BY <2>1, <2>2, <3>1 DEF GoodNumber
  <2>3. CASE p # x
    <3>1. p \in K <=> p \in K \cup {x}
      BY <2>3
    <3> QED BY <2>1, <3>1 DEF GoodNumber
  <2> QED BY <2>2, <2>3
<1>2. B(x) = 1
  <2> DEFINE L == K \cup {x}
  <2>1. L \in SUBSET m.white /\ x \in L /\ \A p \in m.white : GoodNumber(m, o, L, l, k, p)
    BY <1>1
  <2> HIDE DEF L
  <2> QED BY <2>1, EdgeNumber
<1>3. /\ \A p, q \in K : Near(c, p, q) => B(p) = B(q)
      /\ \A p, q \in K : B(p) = B(q) /\ B(p) # 1 => Connected(m, c, p, q)
      /\ \A p \in K : B(p) = 1 => TouchesEdge(m, o, p)
      /\ \A r \in 2 .. k - 1 : \E p \in K : l[p] = r
      /\ \A r \in Label : b[r] # 0 => r < k
  BY DEF Numbered
<1>4. TouchesEdge(m, o, x)
  BY ConnectedReflexive DEF TouchesEdge
<1>5. ASSUME NEW p \in K \cup {x}, NEW q \in K \cup {x}, Near(c, p, q), {p, q} # X
      PROVE  B(p) = B(q)
  <2>1. CASE p \in K /\ q \in K
    BY <1>3, <1>5, <2>1
  <2>2. CASE p = x /\ q \in K
    <3>1. Near(c, q, x) /\ {q, x} = {p, q}
      BY <1>5, <2>2, NearSymmetric
    <3>2. B(q) = 1
      BY <1>5, <2>2, <3>1
    <3> QED BY <1>2, <2>2, <3>2
  <2>3. CASE q = x /\ p \in K
    <3>1. B(p) = 1
      BY <1>5, <2>3
    <3> QED BY <1>2, <2>3, <3>1
  <2>4. CASE p = x /\ q = x
    BY <2>4
  <2> QED BY <2>1, <2>2, <2>3, <2>4
<1>6. \A p, q \in K \cup {x} : B(p) = B(q) /\ B(p) # 1 => Connected(m, c, p, q)
  <2> HIDE DEF B
  <2> QED BY <1>2, <1>3
<1>7. \A p \in K \cup {x} : B(p) = 1 => TouchesEdge(m, o, p)
  BY <1>3, <1>4
<1>8. \A r \in 2 .. k - 1 : \E p \in K \cup {x} : l[p] = r
  BY <1>3
<1> QED BY <1>1, <1>3, <1>5, <1>6, <1>7, <1>8 DEF Numbered

LEMMA NothingPends ==
  ASSUME NEW m, NEW o, NEW K, NEW b, NEW l, NEW k, NEW X, Numbered(m, o, K, b, l, k, {})
  PROVE  Numbered(m, o, K, b, l, k, X)
<1>1. \A p, q \in K : {p, q} # {}
  OBVIOUS
<1> QED BY <1>1 DEF Numbered

(* When the pixel the scan is at is known, the scan goes on; a corner that *)
(* is not lost is compared, or what it belongs to is the border's.         *)
LEMMA ScanGoesOn ==
  ASSUME TypeOK, WellFormed, Exact, phase = "scan", Scannable2, Moves, image' = image, op' = op,
         NEW b \in AliasTable, NEW l, NEW k \in 2 .. MaxCount,
         Numbered(image, op, Known \cup ({at} \cap image.white), b, l, k, {})
  PROVE  Numbered(image, op, Known', b, l, k, Pending')
<1> DEFINE K == Known \cup ({at} \cap image.white)
           x == <<at[1] + 1, 0>>
           y == <<at[1], 0>>
           z == <<at[1], 1>>
           w == image.width
           h == image.height
           c == op.connect
           B(p) == Number(image, op, b, l, p)
<1>1. /\ w \in Nat \ {0} /\ h \in Nat \ {0} /\ op.border \in BOOLEAN /\ c \in {4, 8}
      /\ at \in Pixels(image) /\ at = <<at[1], at[2]>>
      /\ at[1] \in 0 .. h - 1 /\ at[2] \in 0 .. w - 1
      /\ ~op.border => at[1] >= 1 /\ at[2] >= 1
      /\ image.white \subseteq Int \X Int
      /\ \A p \in image.white : p \in Pixels(image) /\ p = <<p[1], p[2]>>
                                /\ p[1] \in 0 .. h - 1 /\ p[2] \in 0 .. w - 1
  BY PixelsAreInts DEF WellFormed, Scannable2
<1>2. /\ \A p \in Pixels(image) : (phase' = "update" \/ Seen(p)') <=>
           Seen(p) \/ p = at \/ (~op.border /\ at[2] = w - 1 /\ p = x)
      /\ ~op.border /\ at[2] = w - 1 => at' = <<at[1] + 1, 1>>
  BY ScanPasses
<1>3. Known' = {p \in image.white : Seen(p) \/ p = at \/ (~op.border /\ at[2] = w - 1 /\ p = x)}
  BY <1>1, <1>2 DEF Known
<1>4. K = {p \in image.white : Seen(p) \/ p = at} /\ K \in SUBSET image.white
  BY DEF Known
<1> HIDE DEF K
<1>5. CASE ~(~op.border /\ at[2] = w - 1 /\ x \in image.white)
  <2>1. Known' = K
    BY <1>3, <1>4, <1>5
  <2> QED BY <2>1, NothingPends DEF K
<1>6. CASE ~op.border /\ at[2] = w - 1 /\ x \in image.white
  <2>1. Known' = K \cup {x}
    BY <1>3, <1>4, <1>6
  <2>2. x[1] = at[1] + 1 /\ x[2] = 0 /\ OnEdge(image, x) /\ at[1] + 1 <= h - 1
    BY <1>1, <1>6 DEF OnEdge
  <2>3. at' = <<at[1] + 1, 1>> /\ phase' = "scan"
    <3>1. at' = <<at[1] + 1, 1>> /\ at'[1] = at[1] + 1
      BY <1>2, <1>6
    <3>2. at'[1] # h
      BY <1>1, <2>2, <3>1
    <3> QED BY <3>1, <3>2 DEF Moves
  <2>4. ASSUME NEW q \in K, Near(c, q, x)
        PROVE  q = y \/ (q = z /\ c = 8)
    <3>1. q = <<q[1], q[2]>> /\ q[1] \in Int /\ q[2] \in 0 .. w - 1 /\ q[1] <= at[1]
      BY <1>1, <1>4 DEF Seen
    <3>2. /\ q[1] - (at[1] + 1) \in -1 .. 1 /\ q[2] - 0 \in -1 .. 1
          /\ c = 4 => q[1] - (at[1] + 1) = 0 \/ q[2] - 0 = 0
      BY <2>2, <2>4 DEF Near
    <3>3. q[1] = at[1] /\ q[2] \in {0, 1}
      BY <1>1, <3>1, <3>2
    <3>4. q[2] = 1 => c = 8
      BY <1>1, <3>2, <3>3
    <3> QED BY <3>1, <3>3, <3>4
  <2>5. \A q \in K : ~op.border /\ OnEdge(image, q) => B(q) = 1
    <3>1. \A p \in image.white : GoodNumber(image, op, K, l, k, p)
      BY DEF Numbered, K
    <3> QED BY <1>4, <3>1, EdgeNumber
  <2>6. ASSUME y \in K PROVE B(y) = 1
    <3>1. OnEdge(image, y)
      BY DEF OnEdge
    <3> QED BY <1>6, <2>5, <2>6, <3>1
  <2>7. ASSUME z \in K, c = 8, ~White(at') PROVE B(z) = 1
    <3>1. /\ UpRight(x) = z /\ Up(x) = y /\ at' = <<x[1], 1>>
      BY <1>1, <2>2, <2>3 DEF UpRight, Up
    <3>2. White(z)
      BY <1>4, <2>7 DEF White
    <3>3. OnEdge(image, z) \/ White(y)
      BY <1>6, <2>2, <2>7, <3>1, <3>2 DEF Exact, CornerIsLost, LostCorner
    <3>4. CASE OnEdge(image, z)
      BY <1>6, <2>5, <2>7, <3>4
    <3>5. CASE White(y)
      <4>1. y \in K
        BY <1>1, <1>4, <1>6, <3>5 DEF White, Seen
      <4>2. Near(c, y, z)
        BY <1>1 DEF Near
      <4>3. B(y) = B(z)
        <5>1. {y, z} # {}
          OBVIOUS
        <5> QED BY <2>7, <4>1, <4>2, <5>1 DEF Numbered, K
      <4> QED BY <2>6, <4>1, <4>3
    <3> QED BY <3>3, <3>4, <3>5
  <2>8. White(at') => Pending' = {x, z}
    <3>1. Left(at') = x /\ Up(at') = z /\ at'[2] = 1
      BY <1>1, <2>3 DEF Left, Up
    <3>2. White(at') <=> White(at)'
      BY DEF White
    <3> QED BY <1>6, <2>3, <3>1, <3>2 DEF Pending, Left, Up
  <2>9. \A q \in K : Near(c, q, x) /\ {q, x} # Pending' => B(q) = 1
    <3> SUFFICES ASSUME NEW q \in K, Near(c, q, x), {q, x} # Pending' PROVE B(q) = 1
      OBVIOUS
    <3>1. CASE q = y
      BY <2>6, <3>1
    <3>2. CASE q = z /\ c = 8
      <4>1. ~White(at')
        BY <2>8, <3>2
      <4> QED BY <2>7, <3>2, <4>1
    <3> QED BY <2>4, <3>1, <3>2
  <2>10. Numbered(image, op, K, b, l, k, {})
    BY DEF K
  <2> HIDE DEF x, y, z
  <2>11. Numbered(image, op, K \cup {x}, b, l, k, Pending')
    <3> DEFINE X == Pending'
    <3>1. \A q \in K : Near(op.connect, q, x) /\ {q, x} # X => Number(image, op, b, l, q) = 1
      BY <2>9
    <3> HIDE DEF X
    <3>2. Numbered(image, op, K \cup {x}, b, l, k, X)
      BY <1>1, <1>4, <1>6, <2>2, <2>10, <3>1, FirstOfLine
    <3> QED BY <3>2 DEF X
  <2> QED BY <2>1, <2>11
<1> QED BY <1>5, <1>6

-----------------------------------------------------------------------------
(* What is known where the scan is.                                        *)
LEMMA AtScan ==
  ASSUME TypeOK, WellFormed, Scanned, phase = "scan", Exact
  PROVE  /\ alias \in AliasTable /\ count \in 2 .. MaxCount
         /\ at \in Pixels(image) /\ Known \in SUBSET image.white /\ at \notin Known
         /\ image.white \subseteq Int \X Int /\ op.connect \in {4, 8}
         /\ Numbered(image, op, Known, alias, label, count, Pending)
         /\ ~BottomLeft(image, op, at)
         /\ \A q \in image.white : q \in Known <=> Seen(q)
         /\ \A q \in Pending : q \in Known => Near(op.connect, at, q)
         /\ Start(at) \in {0, 1} /\ (Start(at) = 1 <=> ~op.border /\ OnEdge(image, at))
<1>1. /\ alias \in AliasTable /\ count \in 2 .. MaxCount /\ op.connect \in {4, 8}
      /\ image.white \subseteq Int \X Int /\ op.border \in BOOLEAN
  BY TypeOKIsTable, PixelsAreInts DEF WellFormed
<1>2. /\ at \in Pixels(image) /\ (~op.border => at[1] >= 1 /\ at[2] >= 1)
      /\ Numbered(image, op, Known, alias, label, count, Pending)
  BY DEF Scanned, Scannable2
<1>3. at[1] \in Int /\ at[2] \in Int
  BY <1>2, PixelsAreInts
<1>4. Known \in SUBSET image.white /\ \A q \in image.white : q \in Known <=> Seen(q)
  BY DEF Known
<1>5. at \notin Known
  BY <1>3 DEF Known, Seen
<1>6. ~BottomLeft(image, op, at)
  BY <1>2 DEF BottomLeft
<1>7. ASSUME NEW q \in Pending, q \in Known PROVE Near(op.connect, at, q)
  <2>1. q \in {Left(at), Up(at)} /\ White(q)
    BY <1>4, <1>7 DEF Pending, White
  <2> QED BY <1>2, <2>1, NeighborsSeen
<1>8. Start(at) \in {0, 1} /\ (Start(at) = 1 <=> ~op.border /\ OnEdge(image, at))
  BY <1>1, <1>2, <1>3 DEF Start, OnEdge, OnLastEdge
<1> QED BY <1>1, <1>2, <1>4, <1>5, <1>6, <1>7, <1>8

LEMMA ScannedAfter ==
  ASSUME TypeOK, WellFormed, Scanned, phase = "scan", Moves, image' = image, op' = op,
         alias' \in AliasTable, count' \in 2 .. MaxCount, BlackIsZero',
         Exact => Numbered(image, op, Known \cup ({at} \cap image.white), alias', label', count', {})
  PROVE  Scanned'
<1>1. Scannable2
  BY DEF Scanned
<1>2. Scannable2'
  BY <1>1, ScanPasses
<1>3. ASSUME Exact' PROVE Numbered(image', op', Known', alias', label', count', Pending')
  <2>1. Exact
    BY <1>3 DEF Exact, CornerIsLost, CornerIsStale, LostCorner, White, OnEdge, OnLastEdge
  <2>2. Numbered(image, op, Known', alias', label', count', Pending')
    BY <1>1, <2>1, ScanGoesOn
  <2> QED BY <2>2
<1> QED BY <1>2, <1>3 DEF Scanned

LEMMA TouchesTogether ==
  ASSUME NEW m, NEW o, NEW p, NEW q, Connected(m, o.connect, p, q), TouchesEdge(m, o, q)
  PROVE  TouchesEdge(m, o, p)
BY ConnectedTransitive DEF TouchesEdge

LEMMA BlackKeepsScanned ==
  ASSUME TypeOK, WellFormed, Scanned, Black
  PROVE  Scanned'
<1>1. /\ phase = "scan" /\ at \notin image.white /\ Moves /\ image' = image /\ op' = op
      /\ alias' = alias /\ label' = label /\ count' = count
  BY DEF Black, White
<1>2. alias' \in AliasTable /\ count' \in 2 .. MaxCount
  BY <1>1, TypeOKIsTable DEF WellFormed
<1>3. BlackIsZero'
  BY <1>1 DEF Scanned, BlackIsZero, Pixels
<1>4. ASSUME Exact
      PROVE  Numbered(image, op, Known \cup ({at} \cap image.white), alias', label', count', {})
  <2>1. Known \cup ({at} \cap image.white) = Known /\ Pending = {}
    BY <1>1 DEF Pending, White
  <2>2. Numbered(image, op, Known, alias, label, count, Pending)
    BY <1>1, <1>4 DEF Scanned
  <2> QED BY <1>1, <2>1, <2>2
<1> QED BY <1>1, <1>2, <1>3, <1>4, ScannedAfter

LEMMA SetEndOf ==
  ASSUME NEW a \in AliasTable, NEW r1 \in Label, NEW r2 \in Label
  PROVE  End(alias_set(a, r1, r2), r1) \in {End(a, r1), End(a, r2)}
<1>1. CASE r1 = r2
  BY <1>1 DEF alias_set, Same
<1>2. CASE r1 # r2
  <2> DEFINE min == Least(Chain(a, r1) \cup Chain(a, r2))
  <2>1. min \in {End(a, r1), End(a, r2)}
    BY LeastOfBoth
  <2>2. \A x \in Label : End(alias_set(a, r1, r2), x)
          = IF End(a, x) \in {End(a, r1), End(a, r2)} THEN min ELSE End(a, x)
    BY <1>2, SetMerges
  <2> HIDE DEF min
  <2> QED BY <2>1, <2>2
<1> QED BY <1>1, <1>2

(* A pixel inside that touches what was seen joins two neighbors' regions. *)
LEMMA JoinInside ==
  ASSUME TypeOK, WellFormed, Scanned, Exact, phase = "scan", White(at), Touches(at), Start(at) = 0,
         NEW l2, \A p \in image.white : l2[p] = IF p = at THEN Region(at) ELSE label[p]
  PROVE  /\ Joined(at) \in AliasTable
         /\ Numbered(image, op, Known \cup {at}, Joined(at), l2, count, {})
<1> DEFINE K == Known
           c == op.connect
           A(p) == Number(image, op, alias, label, p)
<1>1. /\ alias \in AliasTable /\ count \in 2 .. MaxCount
      /\ at \in Pixels(image) /\ K \in SUBSET image.white /\ at \notin K
      /\ image.white \subseteq Int \X Int /\ c \in {4, 8}
      /\ Numbered(image, op, K, alias, label, count, Pending)
      /\ ~BottomLeft(image, op, at)
      /\ \A q \in image.white : q \in K <=> Seen(q)
      /\ \A q \in Pending : q \in K => Near(c, at, q)
      /\ ~(~op.border /\ OnEdge(image, at))
      /\ at \in image.white
  BY AtScan DEF White
<1>2. \A p \in K : ~BottomLeft(image, op, p)
  <2> SUFFICES ASSUME NEW p \in K, BottomLeft(image, op, p) PROVE FALSE
    OBVIOUS
  <2>1. ~op.border /\ p[1] = image.height - 1 /\ p[2] = 0 /\ at[2] >= 1 /\ at[1] # image.height - 1
    BY <1>1 DEF BottomLeft, OnEdge, Scanned, Scannable2
  <2>2. at[1] \in 0 .. image.height - 1 /\ at[2] \in Int /\ image.height \in Nat
    BY <1>1, PixelsAreInts DEF WellFormed
  <2>3. Seen(p)
    BY <1>1
  <2> QED BY <2>1, <2>2, <2>3 DEF Seen
<1>3. /\ \A p \in image.white : GoodNumber(image, op, K, label, count, p)
      /\ \A p, q \in K : Near(c, p, q) /\ {p, q} # Pending => A(p) = A(q)
      /\ \A p, q \in K : A(p) = A(q) /\ A(p) # 1 => Connected(image, c, p, q)
      /\ \A p \in K : A(p) = 1 => TouchesEdge(image, op, p)
      /\ \A r \in Label : alias[r] # 0 => r < count
  BY <1>1 DEF Numbered
<1>4. \A p \in K : label[p] \in Label /\ label[p] \in 1 .. count - 1 /\ A(p) = End(alias, label[p])
  <2> SUFFICES ASSUME NEW p \in K
               PROVE  /\ label[p] \in Label /\ label[p] \in 1 .. count - 1
                      /\ A(p) = End(alias, label[p])
    OBVIOUS
  <2>1. 1 .. count - 1 \subseteq Label
    BY <1>1, MaxCountAssumption DEF Label
  <2>2. GoodNumber(image, op, K, label, count, p) /\ ~BottomLeft(image, op, p)
    BY <1>1, <1>2, <1>3
  <2>3. label[p] \in 1 .. count - 1
    BY <2>2 DEF GoodNumber
  <2>4. A(p) = End(alias, label[p])
    BY <2>2 DEF Number
  <2> QED BY <2>1, <2>3, <2>4
<1>5. \A p \in image.white : Seen(p) /\ Near(c, at, p) => label[p] # 0
  BY <1>1, <1>4
<1>6. PICK n1 \in image.white, n2 \in image.white :
        /\ Seen(n1) /\ Seen(n2) /\ Near(c, at, n1) /\ Near(c, at, n2)
        /\ Suffice(n1, n2)
  BY <1>1, <1>5, TwoNeighbors
<1> DEFINE r1 == label[n1]  r2 == label[n2]
           b == alias_set(alias, r1, r2)
           e == End(b, r1)
           B(p) == Number(image, op, b, label, p)
<1>7. /\ n1 \in K /\ n2 \in K /\ r1 \in Label /\ r2 \in Label
      /\ r1 \in 1 .. count - 1 /\ r2 \in 1 .. count - 1
      /\ Region(at) = r1 /\ Joined(at) = b
      /\ A(n1) = End(alias, r1) /\ A(n2) = End(alias, r2)
      /\ \A q \in image.white : Seen(q) /\ Near(c, at, q) =>
           \E n \in {n1, n2} : Near(c, q, n) /\ {q, n} # {Left(at), Up(at)}
  BY <1>1, <1>4, <1>6 DEF Suffice
<1>8. /\ b \in AliasTable /\ End(b, r2) = e
      /\ \A r, s \in Label : End(alias, r) = End(alias, s) => End(b, r) = End(b, s)
      /\ \A r, s \in Label : End(b, r) = End(b, s) =>
           \/ End(alias, r) = End(alias, s)
           \/ /\ End(alias, r) \in {End(alias, r1), End(alias, r2)}
              /\ End(alias, s) \in {End(alias, r1), End(alias, r2)}
  BY <1>1, <1>7, SetEnds
<1>9. e \in {End(alias, r1), End(alias, r2)}
  BY <1>1, <1>7, SetEndOf
<1>10. \A r \in Label : b[r] # 0 => r < count
  <2>1. r1 \in 0 .. count - 1 /\ r2 \in 0 .. count - 1 /\ count \in Nat /\ count <= MaxCount
    BY <1>1, <1>7, MaxCountAssumption
  <2> QED BY <1>1, <1>3, <2>1, SetKeepsRange
<1>11. \A p \in K : B(p) = End(b, label[p])
  BY <1>2 DEF Number
<1>12. 1 \in Label /\ End(alias, 1) = 1 /\ End(b, 1) = 1
  BY <1>1, <1>8, OneEnds
<1> HIDE DEF b, r1, r2, e, A, B, K
<1>13. \A p \in K : A(p) = 1 => B(p) = 1
  BY <1>4, <1>8, <1>11, <1>12
<1>14. \A p, q \in K : A(p) = A(q) => B(p) = B(q)
  BY <1>4, <1>8, <1>11
<1>15. B(n1) = e /\ B(n2) = e /\ A(n1) = End(alias, r1) /\ A(n2) = End(alias, r2)
  BY <1>7, <1>8, <1>11 DEF r1, r2, e
<1>16. \A p \in K : A(p) \in {A(n1), A(n2)} => B(p) = e
  BY <1>7, <1>14, <1>15
<1>17. \A p, q \in K : B(p) = B(q) =>
         A(p) = A(q) \/ (A(p) \in {A(n1), A(n2)} /\ A(q) \in {A(n1), A(n2)})
  BY <1>4, <1>8, <1>11, <1>15
<1>18. \A p, q \in K : B(p) = B(q) => A(p) = A(q) \/ B(p) = e
  BY <1>16, <1>17
<1>19. ASSUME NEW q \in K, Near(c, at, q) PROVE B(q) = e
  <2>1. PICK n \in {n1, n2} : Near(c, q, n) /\ {q, n} # {Left(at), Up(at)}
    BY <1>1, <1>7, <1>19 DEF K
  <2>2. {q, n} # Pending
    BY <2>1 DEF Pending
  <2>3. A(q) = A(n)
    BY <1>3, <1>7, <2>1, <2>2 DEF A, K
  <2> QED BY <1>16, <2>3
<1>20. \A q \in K : B(q) = e => A(q) \in {A(n1), A(n2)}
  BY <1>7, <1>15, <1>17
<1>21. /\ Connected(image, c, at, n1) /\ Connected(image, c, n1, at)
       /\ Connected(image, c, at, n2) /\ Connected(image, c, n2, at)
  <2>1. Connected(image, c, at, n1) /\ Connected(image, c, at, n2)
    BY <1>1, <1>6, NeighborsConnected
  <2> QED BY <1>1, <2>1, ConnectedSymmetric
<1>22. ASSUME NEW q \in K, A(q) \in {A(n1), A(n2)}, A(q) # 1
       PROVE  Connected(image, c, at, q) /\ Connected(image, c, q, at)
  <2>1. PICK n \in {n1, n2} : A(q) = A(n)
    BY <1>22
  <2>2. Connected(image, c, n, q) /\ Connected(image, c, q, n)
    BY <1>3, <1>7, <1>22, <2>1 DEF A, K
  <2>3. Connected(image, c, at, n) /\ Connected(image, c, n, at)
    BY <1>21, <2>1
  <2> QED BY <2>2, <2>3, ConnectedTransitive
<1>23. ASSUME e # 1, NEW q \in K
       PROVE  /\ B(q) = e => Connected(image, c, at, q)
              /\ B(q) = 1 => A(q) = 1
  <2>1. ASSUME B(q) = e PROVE Connected(image, c, at, q)
    <3>1. A(q) # 1
      BY <1>13, <1>23, <2>1
    <3> QED BY <1>20, <1>22, <2>1, <3>1
  <2>2. ASSUME B(q) = 1 PROVE A(q) = 1
    <3>1. \/ A(q) = 1
          \/ 1 \in {A(n1), A(n2)}
      BY <1>4, <1>8, <1>11, <1>12, <1>15, <2>2
    <3>2. A(n1) # 1 /\ A(n2) # 1
      BY <1>7, <1>13, <1>15, <1>23
    <3> QED BY <3>1, <3>2
  <2> QED BY <2>1, <2>2
<1>24. ASSUME e = 1
       PROVE  /\ TouchesEdge(image, op, at)
              /\ \A q \in K : B(q) = 1 => TouchesEdge(image, op, q)
  <2>1. PICK n \in {n1, n2} : A(n) = 1
    BY <1>9, <1>15, <1>24
  <2>2. TouchesEdge(image, op, n) /\ Connected(image, c, at, n)
    BY <1>3, <1>7, <1>21, <2>1 DEF A, K
  <2>3. TouchesEdge(image, op, at)
    BY <2>2, TouchesTogether
  <2>4. ASSUME NEW q \in K, B(q) = 1 PROVE TouchesEdge(image, op, q)
    <3>1. CASE A(q) = 1
      BY <1>3, <3>1 DEF A, K
    <3>2. CASE A(q) # 1
      <4>1. Connected(image, c, q, at)
        BY <1>20, <1>22, <1>24, <2>4, <3>2
      <4> QED BY <2>3, <4>1, TouchesTogether
    <3> QED BY <3>1, <3>2
  <2> QED BY <2>3, <2>4
<1>25. Numbered(image, op, K \cup {at}, b, l2, count, {})
  <2>1. /\ at \in image.white \ K /\ K \in SUBSET image.white /\ count \in Nat /\ count <= count
        /\ r1 \in 1 .. count - 1 /\ \A r \in count .. count - 1 : r = r1
    BY <1>1, <1>7, MaxCountAssumption DEF K
  <2>2. \A p \in image.white : l2[p] = IF p = at THEN r1 ELSE label[p]
    BY <1>7
  <2>3. /\ Numbered(image, op, K, alias, label, count, Pending)
        /\ \A q \in Pending : q \in K => Near(c, at, q)
        /\ ~op.border /\ OnEdge(image, at) => r1 = 1
        /\ End(b, r1) = e
    BY <1>1 DEF K, e
  <2> QED BY <1>1, <1>10, <1>13, <1>14, <1>18, <1>19, <1>23, <1>24, <2>1, <2>2, <2>3,
             OneMorePixel DEF A, B
<1> QED BY <1>7, <1>8, <1>25 DEF K

LEMMA SetTwoToBorder ==
  ASSUME NEW a \in AliasTable, NEW k \in 2 .. MaxCount,
         NEW y1 \in 0 .. k - 1, NEW y2 \in 0 .. k - 1,
         \A r \in Label : a[r] # 0 => r < k
  PROVE  LET b == alias_set(alias_set(a, 1, y1), 1, y2)
         IN /\ b \in AliasTable
            /\ \A r \in Label : b[r] # 0 => r < k
            /\ \A r \in Label :
                 End(b, r) = IF \/ End(a, r) = 1
                                \/ y1 # 0 /\ End(a, r) = End(a, y1)
                                \/ y2 # 0 /\ End(a, r) = End(a, y2)
                             THEN 1 ELSE End(a, r)
<1> DEFINE f == alias_set(a, 1, y1)
           b == alias_set(f, 1, y2)
<1>1. /\ y1 \in 0 .. MaxCount - 1 /\ y2 \in 0 .. MaxCount - 1 /\ k \in Nat /\ k <= MaxCount
      /\ 1 \in 0 .. k - 1 /\ (y1 # 0 => y1 \in Label) /\ (y2 # 0 => y2 \in Label)
  BY MaxCountAssumption DEF Label
<1>2. /\ f \in AliasTable
      /\ \A r \in Label : End(f, r) = IF End(a, r) = 1 \/ (y1 # 0 /\ End(a, r) = End(a, y1))
                                      THEN 1 ELSE End(a, r)
  BY <1>1, SetToBorder
<1>3. \A r \in Label : f[r] # 0 => r < k
  BY <1>1, SetKeepsRange
<1> HIDE DEF f
<1>4. /\ b \in AliasTable
      /\ \A r \in Label : End(b, r) = IF End(f, r) = 1 \/ (y2 # 0 /\ End(f, r) = End(f, y2))
                                      THEN 1 ELSE End(f, r)
  BY <1>1, <1>2, SetToBorder
<1>5. \A r \in Label : b[r] # 0 => r < k
  BY <1>1, <1>2, <1>3, SetKeepsRange
<1> HIDE DEF b
<1>6. ASSUME NEW r \in Label
      PROVE  End(b, r) = IF \/ End(a, r) = 1
                            \/ y1 # 0 /\ End(a, r) = End(a, y1)
                            \/ y2 # 0 /\ End(a, r) = End(a, y2)
                         THEN 1 ELSE End(a, r)
  BY <1>1, <1>2, <1>4
<1> QED BY <1>4, <1>5, <1>6 DEF b, f

(* A pixel of the last line or column makes the border's all that it       *)
(* touches, itself or by another neighbor, unless the corner is lost.      *)
LEMMA JoinAtEdge ==
  ASSUME TypeOK, WellFormed, Scanned, Exact, phase = "scan", White(at), Start(at) = 1,
         NEW l2, \A p \in image.white : l2[p] = IF p = at THEN Region(at) ELSE label[p]
  PROVE  /\ Joined(at) \in AliasTable
         /\ Numbered(image, op, Known \cup {at}, Joined(at), l2, count, {})
<1> DEFINE K == Known
           c == op.connect
           l == Left(at)  u == Up(at)  ul == UpLeft(at)  ur == UpRight(at)
           y1 == IF White(l) THEN label[l] ELSE 0
           y2 == IF White(u) THEN label[u] ELSE IF Corners /\ White(ur) THEN label[ur] ELSE 0
           b == Joined(at)
           A(p) == Number(image, op, alias, label, p)
           B(p) == Number(image, op, b, label, p)
<1>1. /\ alias \in AliasTable /\ count \in 2 .. MaxCount
      /\ at \in Pixels(image) /\ K \in SUBSET image.white /\ at \notin K
      /\ image.white \subseteq Int \X Int /\ c \in {4, 8}
      /\ Numbered(image, op, K, alias, label, count, Pending)
      /\ ~BottomLeft(image, op, at)
      /\ \A q \in image.white : q \in K <=> Seen(q)
      /\ \A q \in Pending : q \in K => Near(c, at, q)
      /\ ~op.border /\ OnEdge(image, at)
      /\ at \in image.white
  BY AtScan DEF White
<1>2. /\ \A p \in image.white : GoodNumber(image, op, K, label, count, p)
      /\ \A p, q \in K : Near(c, p, q) /\ {p, q} # Pending => A(p) = A(q)
      /\ \A p, q \in K : A(p) = A(q) /\ A(p) # 1 => Connected(image, c, p, q)
      /\ \A p \in K : A(p) = 1 => TouchesEdge(image, op, p)
      /\ \A r \in Label : alias[r] # 0 => r < count
  BY <1>1 DEF Numbered
<1>3. Region(at) = 1 /\ b = alias_set(alias_set(alias, 1, y1), 1, y2)
  BY LastEdgeJoins
<1>4. \A p \in K : /\ BottomLeft(image, op, p) => label[p] = 0 /\ A(p) = 1 /\ B(p) = 1
                   /\ label[p] \in 0 .. count - 1
                   /\ ~BottomLeft(image, op, p) =>
                        /\ label[p] # 0 /\ label[p] \in Label
                        /\ A(p) = End(alias, label[p]) /\ B(p) = End(b, label[p])
  <2>1. 1 .. count - 1 \subseteq Label /\ 1 .. count - 1 \subseteq 0 .. count - 1
        /\ 0 \in 0 .. count - 1 /\ 0 \notin 1 .. count - 1
    BY <1>1, MaxCountAssumption DEF Label
  <2> SUFFICES ASSUME NEW p \in K
               PROVE  /\ BottomLeft(image, op, p) => label[p] = 0 /\ A(p) = 1 /\ B(p) = 1
                      /\ label[p] \in 0 .. count - 1
                      /\ ~BottomLeft(image, op, p) =>
                           /\ label[p] # 0 /\ label[p] \in Label
                           /\ A(p) = End(alias, label[p]) /\ B(p) = End(b, label[p])
    OBVIOUS
  <2>2. GoodNumber(image, op, K, label, count, p)
    BY <1>1, <1>2
  <2> HIDE DEF b
  <2>3. CASE BottomLeft(image, op, p)
    BY <2>1, <2>2, <2>3 DEF GoodNumber, Number
  <2>4. CASE ~BottomLeft(image, op, p)
    <3>1. label[p] \in 1 .. count - 1
      BY <2>2, <2>4 DEF GoodNumber
    <3> QED BY <2>1, <2>4, <3>1 DEF Number
  <2> QED BY <2>3, <2>4
<1>5. /\ \A q \in {l, u} : White(q) => q \in K /\ Near(c, at, q)
      /\ \A q \in {ul, ur} : White(q) /\ Corners => q \in K /\ Near(c, at, q)
  BY <1>1, NeighborsSeen
<1>6. /\ y1 \in 0 .. count - 1 /\ y2 \in 0 .. count - 1
      /\ y1 # 0 => \E n \in K : Near(c, at, n) /\ label[n] = y1
      /\ y2 # 0 => \E n \in K : Near(c, at, n) /\ label[n] = y2
  <2>1. 0 \in 0 .. count - 1
    BY <1>1, MaxCountAssumption
  <2>2. y1 \in 0 .. count - 1 /\ (y1 # 0 => \E n \in K : Near(c, at, n) /\ label[n] = y1)
    BY <1>4, <1>5, <2>1
  <2>3. CASE White(u)
    BY <1>4, <1>5, <2>1, <2>2, <2>3
  <2>4. CASE ~White(u) /\ Corners /\ White(ur)
    BY <1>4, <1>5, <2>1, <2>2, <2>4
  <2>5. CASE ~White(u) /\ ~(Corners /\ White(ur))
    BY <2>1, <2>2, <2>5
  <2> QED BY <2>3, <2>4, <2>5
<1>7. /\ White(l) => y1 = label[l]
      /\ White(u) => y2 = label[u]
      /\ ~White(u) /\ Corners /\ White(ur) => y2 = label[ur]
  OBVIOUS
<1> HIDE DEF y1, y2
<1>8. /\ b \in AliasTable
      /\ \A r \in Label : b[r] # 0 => r < count
      /\ \A r \in Label :
           End(b, r) = IF \/ End(alias, r) = 1
                          \/ y1 # 0 /\ End(alias, r) = End(alias, y1)
                          \/ y2 # 0 /\ End(alias, r) = End(alias, y2)
                       THEN 1 ELSE End(alias, r)
  BY <1>1, <1>2, <1>3, <1>6, SetTwoToBorder
<1> HIDE DEF b, A, B
<1>9. \A p \in K : B(p) = IF \/ A(p) = 1
                             \/ y1 # 0 /\ A(p) = End(alias, y1)
                             \/ y2 # 0 /\ A(p) = End(alias, y2)
                          THEN 1 ELSE A(p)
  BY <1>4, <1>8
<1>10. /\ \A p \in K : A(p) = 1 => B(p) = 1
       /\ \A p, q \in K : A(p) = A(q) => B(p) = B(q)
       /\ \A p, q \in K : B(p) = B(q) => A(p) = A(q) \/ B(p) = 1
  BY <1>9
<1>11. /\ White(l) => B(l) = 1
       /\ White(u) => B(u) = 1
       /\ ~White(u) /\ Corners /\ White(ur) => B(ur) = 1
  BY <1>4, <1>5, <1>7, <1>9
<1>12. \A p, q \in K : Near(c, p, q) /\ {p, q} # {l, u} => B(p) = B(q)
  <2> SUFFICES ASSUME NEW p \in K, NEW q \in K, Near(c, p, q), {p, q} # {l, u} PROVE B(p) = B(q)
    OBVIOUS
  <2>1. {p, q} # Pending
    BY DEF Pending
  <2> QED BY <1>2, <1>10, <2>1 DEF A
<1>13. /\ Corners /\ White(ur) /\ White(u) => Near(c, ur, u) /\ {ur, u} # {l, u}
       /\ Corners /\ White(ul) /\ White(u) => Near(c, ul, u) /\ {ul, u} # {l, u}
       /\ Corners /\ White(ul) /\ White(l) => Near(c, ul, l) /\ {ul, l} # {l, u}
  <2>1. at[1] \in Int /\ at[2] \in Int
    BY <1>1, PixelsAreInts
  <2>2. ur # l /\ ul # l /\ ul # u /\ ur # u /\ l # u
    BY <2>1 DEF Left, Up, UpLeft, UpRight
  <2>3. Corners => Near(c, ur, u) /\ Near(c, ul, u) /\ Near(c, ul, l)
    BY <2>1 DEF Left, Up, UpLeft, UpRight, Near, Corners
  <2> HIDE DEF l, u, ul, ur
  <2> QED BY <2>2, <2>3
<1>14. ASSUME NEW q \in K, Near(c, at, q) PROVE B(q) = 1
  <2>1. q \in image.white /\ q \in Pixels(image) /\ Seen(q) /\ White(q)
    BY <1>1 DEF WellFormed, White
  <2>2. q \in {l, u} \/ (Corners /\ q \in {ul, ur})
    BY <1>1, <1>14, <2>1, NearAndSeen
  <2>3. CASE q \in {l, u}
    BY <1>11, <2>1, <2>3
  <2>4. CASE q = ur /\ Corners
    <3>1. CASE White(u)
      BY <1>5, <1>11, <1>12, <1>13, <2>1, <2>4, <3>1
    <3>2. CASE ~White(u)
      BY <1>11, <2>1, <2>4, <3>2
    <3> QED BY <3>1, <3>2
  <2>5. CASE q = ul /\ Corners
    <3>1. CASE White(u)
      BY <1>5, <1>11, <1>12, <1>13, <2>1, <2>5, <3>1
    <3>2. CASE White(l)
      BY <1>5, <1>11, <1>12, <1>13, <2>1, <2>5, <3>2
    <3>3. CASE ~White(u) /\ ~White(l)
      <4>1. OnLastEdge(image, at)
        BY DEF Start
      <4>2. OnEdge(image, q)
        BY <1>1, <2>1, <2>5, <3>3, <4>1 DEF Exact, CornerIsLost, LostCorner, Corners
      <4>3. A(q) = 1
        <5>1. /\ K \in SUBSET image.white /\ ~op.border /\ alias \in AliasTable
              /\ \A p \in image.white : GoodNumber(image, op, K, label, count, p)
          BY <1>1, <1>2
        <5> HIDE DEF K
        <5> QED BY <4>2, <5>1, EdgeNumber DEF A
      <4> QED BY <1>10, <4>3
    <3> QED BY <3>1, <3>2, <3>3
  <2> QED BY <2>2, <2>3, <2>4, <2>5
<1>15. TouchesEdge(image, op, at)
  BY <1>1, ConnectedReflexive DEF TouchesEdge
<1>16. ASSUME NEW q \in K, B(q) = 1 PROVE TouchesEdge(image, op, q)
  <2>1. CASE A(q) = 1
    BY <1>2, <2>1 DEF A
  <2>2. CASE A(q) # 1
    <3>1. PICK n \in K : Near(c, at, n) /\ A(n) = A(q)
      <4>1. PICK y \in {y1, y2} : y # 0 /\ A(q) = End(alias, y)
        BY <1>9, <1>16, <2>2
      <4>2. PICK n \in K : Near(c, at, n) /\ label[n] = y
        BY <1>6, <4>1
      <4>3. A(n) = A(q)
        BY <1>4, <4>1, <4>2
      <4> QED BY <4>2, <4>3
    <3>2. Connected(image, c, q, n)
      BY <1>2, <2>2, <3>1 DEF A
    <3>3. Connected(image, c, n, at)
      <4>1. Connected(image, c, at, n)
        BY <1>1, <3>1, NeighborsConnected
      <4> QED BY <1>1, <4>1, ConnectedSymmetric
    <3>4. Connected(image, c, q, at)
      BY <3>2, <3>3, ConnectedTransitive
    <3> QED BY <1>15, <3>4, TouchesTogether
  <2> QED BY <2>1, <2>2
<1>17. Numbered(image, op, K \cup {at}, b, l2, count, {})
  <2>1. /\ at \in image.white \ K /\ count \in Nat /\ count <= count
        /\ 1 \in 1 .. count - 1 /\ \A r \in count .. count - 1 : r = 1
    BY <1>1, MaxCountAssumption
  <2>2. \A p \in image.white : l2[p] = IF p = at THEN 1 ELSE label[p]
    BY <1>3
  <2>3. End(b, 1) = 1
    BY <1>8, OneEnds
  <2> DEFINE one == 1
             X == Pending
  <2>4. /\ one \in 1 .. count - 1 /\ \A r \in count .. count - 1 : r = one
        /\ \A p \in image.white : l2[p] = IF p = at THEN one ELSE label[p]
        /\ End(b, one) = one /\ one = 1
    BY <2>1, <2>2, <2>3
  <2>5. /\ Numbered(image, op, K, alias, label, count, X)
        /\ \A q \in X : q \in K => Near(op.connect, at, q)
        /\ image.white \subseteq Int \X Int /\ op.connect \in {4, 8}
        /\ K \in SUBSET image.white /\ ~BottomLeft(image, op, at)
    BY <1>1
  <2>6. \A q \in K : Near(op.connect, at, q) => B(q) = one
    BY <1>14
  <2>7. \A q \in K : B(q) = 1 => TouchesEdge(image, op, q)
    BY <1>16
  <2>8. \A p, q \in K : B(p) = B(q) => A(p) = A(q) \/ B(p) = one
    BY <1>10
  <2>9. \A p \in K : A(p) = 1 => B(p) = 1
    BY <1>10
  <2>10. \A p, q \in K : A(p) = A(q) => B(p) = B(q)
    BY <1>10
  <2>11. one # 1 => \A q \in K : /\ B(q) = one => Connected(image, op.connect, at, q)
                                /\ B(q) = 1 => A(q) = 1
    BY <2>4
  <2>12. one = 1 => /\ TouchesEdge(image, op, at)
                    /\ \A q \in K : B(q) = 1 => TouchesEdge(image, op, q)
    BY <1>15, <2>7
  <2>13. ~op.border /\ OnEdge(image, at) => one = 1
    BY <2>4
  <2>14. \A r \in Label : b[r] # 0 => r < count
    BY <1>8
  <2> HIDE DEF K, one, X
  <2> QED BY <2>1, <2>4, <2>5, <2>6, <2>8, <2>9, <2>10, <2>11, <2>12, <2>13, <2>14,
             OneMorePixel DEF A, B
<1> QED BY <1>8, <1>17 DEF b

LEMMA ConnectKeepsScanned ==
  ASSUME TypeOK, WellFormed, Scanned, Connect
  PROVE  Scanned'
<1>1. /\ phase = "scan" /\ White(at) /\ Touches(at) /\ Moves /\ image' = image /\ op' = op
      /\ alias' = Joined(at) /\ label' = [label EXCEPT ![at] = Region(at)] /\ count' = count
  BY DEF Connect
<1>2. at \in image.white /\ at \in Pixels(image) /\ image.white \subseteq Pixels(image)
  BY <1>1 DEF White, WellFormed
<1>3. alias' \in AliasTable /\ count' \in 2 .. MaxCount
  BY <1>1, JoinedIsTable DEF WellFormed
<1>4. \A p \in Pixels(image) : label'[p] = IF p = at THEN Region(at) ELSE label[p]
  BY <1>1, <1>2 DEF TypeOK
<1>5. BlackIsZero'
  BY <1>1, <1>2, <1>4 DEF Scanned, BlackIsZero, Pixels
<1>6. ASSUME Exact
      PROVE  Numbered(image, op, Known \cup ({at} \cap image.white), alias', label', count', {})
  <2>1. Known \cup ({at} \cap image.white) = Known \cup {at}
    BY <1>2
  <2>2. \A p \in image.white : label'[p] = IF p = at THEN Region(at) ELSE label[p]
    BY <1>2, <1>4
  <2>3. Start(at) \in {0, 1}
    BY DEF Start
  <2>4. CASE Start(at) = 0
    BY <1>1, <1>6, <2>1, <2>2, <2>4, JoinInside
  <2>5. CASE Start(at) = 1
    BY <1>1, <1>6, <2>1, <2>2, <2>5, JoinAtEdge
  <2> QED BY <2>3, <2>4, <2>5
<1> QED BY <1>1, <1>3, <1>5, <1>6, ScannedAfter

(* A pixel that touches nothing seen is a region of its own so far, or the *)
(* border's.                                                               *)
LEMMA NothingNear ==
  ASSUME WellFormed, at \in Pixels(image), ~Touches(at)
  PROVE  \A q \in image.white : Seen(q) => ~Near(op.connect, at, q)
<1> SUFFICES ASSUME NEW q \in image.white, Seen(q), Near(op.connect, at, q) PROVE FALSE
  OBVIOUS
<1>1. q \in Pixels(image) /\ White(q)
  BY DEF WellFormed, White
<1>2. \/ q = Left(at) \/ q = Up(at)
      \/ Corners /\ (q = UpLeft(at) \/ q = UpRight(at))
  BY <1>1, NearAndSeen
<1> QED BY <1>1, <1>2 DEF Touches

LEMMA AloneIsNumbered ==
  ASSUME TypeOK, WellFormed, Scanned, Exact, phase = "scan", White(at), ~Touches(at),
         NEW l2, NEW v \in Label, NEW k2 \in {count, count + 1},
         \A p \in image.white : l2[p] = IF p = at THEN v ELSE label[p],
         IF Start(at) = 1 THEN v = 1 /\ k2 = count ELSE v = count /\ k2 = count + 1
  PROVE  Numbered(image, op, Known \cup {at}, alias, l2, k2, {})
<1> DEFINE K == Known
           X == Pending
           c == op.connect
           A(p) == Number(image, op, alias, label, p)
<1>1. /\ alias \in AliasTable /\ count \in 2 .. MaxCount
      /\ at \in Pixels(image) /\ K \in SUBSET image.white /\ at \notin K
      /\ image.white \subseteq Int \X Int /\ c \in {4, 8}
      /\ Numbered(image, op, K, alias, label, count, X)
      /\ ~BottomLeft(image, op, at)
      /\ \A q \in image.white : q \in K <=> Seen(q)
      /\ \A q \in X : q \in K => Near(c, at, q)
      /\ Start(at) \in {0, 1} /\ (Start(at) = 1 <=> ~op.border /\ OnEdge(image, at))
      /\ at \in image.white
  BY AtScan DEF White
<1>2. /\ \A p \in image.white : GoodNumber(image, op, K, label, count, p)
      /\ \A p \in K : A(p) = 1 => TouchesEdge(image, op, p)
      /\ \A r \in Label : alias[r] # 0 => r < count
  BY <1>1 DEF Numbered
<1>3. count \in Nat /\ k2 \in Nat /\ count <= k2 /\ v \in Nat /\ v \in 1 .. k2 - 1
  BY <1>1, MaxCountAssumption DEF Label
<1>4. \A r \in count .. k2 - 1 : r = v
  BY <1>1, <1>3
<1>5. End(alias, v) = v
  <2>1. CASE Start(at) = 1
    BY <1>1, <2>1, OneEnds
  <2>2. CASE Start(at) # 1
    <3>1. v = count /\ alias[v] = 0
      BY <1>2, <1>3, <2>2
    <3> QED BY <1>1, <3>1, EndStep
  <2> QED BY <2>1, <2>2
<1>6. \A q \in K : ~Near(c, at, q)
  BY <1>1, NothingNear
<1>7. \A p \in K : A(p) \in 1 .. count - 1
  <2> HIDE DEF K
  <2> QED BY <1>1, <1>2, NumberType
<1>8. v # 1 => v = count /\ \A q \in K : A(q) # v
  BY <1>3, <1>7
<1>9. v # 1 => \A q \in K : /\ A(q) = v => Connected(image, c, at, q)
                            /\ A(q) = 1 => A(q) = 1
  BY <1>8
<1>10. v = 1 => /\ TouchesEdge(image, op, at)
                /\ \A q \in K : A(q) = 1 => TouchesEdge(image, op, q)
  <2>1. v = 1 => Start(at) = 1
    BY <1>1, <1>3
  <2>2. v = 1 => ~op.border /\ OnEdge(image, at) /\ Connected(image, c, at, at)
    BY <1>1, <2>1, ConnectedReflexive
  <2> QED BY <1>1, <1>2, <2>2 DEF TouchesEdge
<1>11. ~op.border /\ OnEdge(image, at) => v = 1
  BY <1>1
<1>12. /\ \A q \in K : Near(op.connect, at, q) => A(q) = v
       /\ \A p \in K : A(p) = 1 => A(p) = 1
       /\ \A p, q \in K : A(p) = A(q) => A(p) = A(q)
       /\ \A p, q \in K : A(p) = A(q) => A(p) = A(q) \/ A(p) = v
  BY <1>6
<1>13. \A r \in Label : alias[r] # 0 => r < k2
  BY <1>2, <1>3 DEF Label
<1>14. /\ at \in image.white \ K /\ image.white \subseteq Int \X Int /\ op.connect \in {4, 8}
       /\ K \in SUBSET image.white /\ ~BottomLeft(image, op, at)
       /\ Numbered(image, op, K, alias, label, count, X)
       /\ \A q \in X : q \in K => Near(op.connect, at, q)
  BY <1>1
<1>15. \A p \in image.white : l2[p] = IF p = at THEN v ELSE label[p]
  OBVIOUS
<1> HIDE DEF K, X
<1>16. Numbered(image, op, K \cup {at}, alias, l2, k2, {})
  BY <1>3, <1>4, <1>5, <1>9, <1>10, <1>11, <1>12, <1>13, <1>14, <1>15, OneMorePixel DEF A
<1> QED BY <1>16 DEF K

LEMMA AloneKeepsScanned ==
  ASSUME TypeOK, WellFormed, Scanned, Alone
  PROVE  Scanned'
<1> SUFFICES ASSUME phase' \in {"scan", "update"} PROVE Scanned'
  BY DEF Scanned
<1> DEFINE v == IF Start(at) = 1 THEN 1 ELSE count
           k2 == IF Start(at) = 1 THEN count ELSE count + 1
<1>1. /\ phase = "scan" /\ White(at) /\ ~Touches(at) /\ image' = image /\ op' = op /\ alias' = alias
      /\ count \in 2 .. MaxCount
  BY DEF Alone, WellFormed
<1>2. /\ Moves /\ label' = [label EXCEPT ![at] = v] /\ count' = k2
      /\ v \in Label /\ k2 \in 2 .. MaxCount
  <2>1. CASE Start(at) = 1
    BY <1>1, <2>1, MaxCountAssumption DEF Alone, Label
  <2>2. CASE Start(at) # 1
    <3>1. ~(count + 1 > MaxCount)
      BY <2>2 DEF Alone
    <3>2. count < MaxCount /\ count \in Label /\ count + 1 \in 2 .. MaxCount
      BY <1>1, <3>1, MaxCountAssumption DEF Label
    <3> QED BY <2>2, <3>1, <3>2 DEF Alone
  <2> QED BY <2>1, <2>2
<1>3. at \in image.white /\ at \in Pixels(image) /\ image.white \subseteq Pixels(image)
  BY <1>1 DEF White, WellFormed
<1>4. alias' \in AliasTable /\ count' \in 2 .. MaxCount
  BY <1>1, <1>2, TypeOKIsTable
<1>5. \A p \in Pixels(image) : label'[p] = IF p = at THEN v ELSE label[p]
  <2> HIDE DEF v
  <2> QED BY <1>2, <1>3 DEF TypeOK
<1>6. BlackIsZero'
  BY <1>1, <1>3, <1>5 DEF Scanned, BlackIsZero, Pixels
<1>7. ASSUME Exact
      PROVE  Numbered(image, op, Known \cup ({at} \cap image.white), alias', label', count', {})
  <2>1. Known \cup ({at} \cap image.white) = Known \cup {at}
    BY <1>3
  <2>2. \A p \in image.white : label'[p] = IF p = at THEN v ELSE label[p]
    BY <1>3, <1>5
  <2>3. /\ k2 \in {count, count + 1}
        /\ IF Start(at) = 1 THEN v = 1 /\ k2 = count ELSE v = count /\ k2 = count + 1
    OBVIOUS
  <2> HIDE DEF v, k2
  <2>4. Numbered(image, op, Known \cup {at}, alias, label', k2, {})
    BY <1>1, <1>2, <1>7, <2>2, <2>3, AloneIsNumbered
  <2> QED BY <1>1, <1>2, <2>1, <2>4
<1> QED BY <1>1, <1>2, <1>4, <1>6, <1>7, ScannedAfter

(* Without the border, what is known at the start is all on the edge: its  *)
(* first line and column, which are the border's, and all of an image of   *)
(* one line or column.                                                     *)
LEMMA ScannedInit == Init => Scanned
<1> SUFFICES ASSUME Init, TypeOK, WellFormed PROVE Scanned
  BY TypesInit
<1>1. PICK o \in Operation, m \in Image :
        /\ op = o
        /\ image = IF o.kind = "fill" THEN Negative(m) ELSE m
        /\ phase = IF Scannable(m, o.border) THEN "scan" ELSE "update"
        /\ at = IF o.border THEN <<0, 0>> ELSE <<1, 1>>
        /\ label = [p \in Pixels(m) |->
                      IF p \in Marked(image, o.border) THEN 1 ELSE IF o.fresh THEN 0 ELSE 2]
        /\ alias = [r \in Label |-> 0]
        /\ count = 2
  BY DEF Init
<1> DEFINE h == image.height  w == image.width
<1>2. h = m.height /\ w = m.width /\ Pixels(image) = Pixels(m)
  <2>1. m \in [width : Nat \ {0}, height : Nat \ {0}, white : SUBSET (Nat \X Nat)]
    BY ImageAssumption
  <2> QED BY <1>1, <2>1 DEF Negative, Pixels
<1>3. /\ h \in Nat \ {0} /\ w \in Nat \ {0} /\ op.border \in BOOLEAN /\ op.connect \in {4, 8}
      /\ image.white \subseteq Int \X Int
      /\ \A p \in image.white : /\ p \in Pixels(image) /\ p = <<p[1], p[2]>>
                                /\ p[1] \in 0 .. h - 1 /\ p[2] \in 0 .. w - 1
  BY PixelsAreInts DEF WellFormed
<1>4. Scannable(m, o.border) <=> op.border \/ (h > 1 /\ w > 1)
  BY <1>1, <1>2 DEF Scannable
<1>5. Scannable2
  <2>1. phase = "scan" => op.border \/ (h > 1 /\ w > 1)
    BY <1>1, <1>4
  <2>2. CASE op.border
    <3>1. at = <<0, 0>> /\ at \in Pixels(image)
      BY <1>1, <1>3, <2>2 DEF Pixels
    <3> QED BY <2>2, <3>1 DEF Scannable2
  <2>3. CASE ~op.border /\ phase = "scan"
    <3>1. at = <<1, 1>> /\ at \in Pixels(image)
      BY <1>1, <1>3, <2>1, <2>3 DEF Pixels
    <3> QED BY <3>1 DEF Scannable2
  <2> QED BY <2>2, <2>3 DEF Scannable2
<1>6. BlackIsZero
  BY <1>1, <1>2 DEF BlackIsZero, Marked
<1>7. ASSUME Exact PROVE Numbered(image, op, Known, alias, label, count, Pending)
  <2>1. Known \in SUBSET image.white /\ \A r \in Label : alias[r] = 0
    BY <1>1 DEF Known
  <2>2. 2 .. count - 1 = {} /\ 1 .. count - 1 = {1}
    BY <1>1
  <2>3. CASE op.border
    <3>1. phase = "scan" /\ at = <<0, 0>>
      BY <1>1, <1>4, <2>3
    <3>2. Known = {}
      BY <1>3, <3>1 DEF Known, Seen
    <3>3. \A p \in image.white : GoodNumber(image, op, {}, label, count, p)
      BY <2>3 DEF GoodNumber, BottomLeft
    <3> QED BY <2>1, <2>2, <3>2, <3>3 DEF Numbered
  <2>4. CASE ~op.border
    <3>1. \A p \in Known : p[1] = 0 \/ p[2] = 0 \/ h = 1 \/ w = 1
      <4>1. at = <<1, 1>> /\ (phase = "update" => h = 1 \/ w = 1)
        BY <1>1, <1>3, <1>4, <2>4
      <4> QED BY <1>3, <4>1 DEF Known, Seen
    <3>2. \A p \in image.white : p \in Known \/ p[2] = 0 =>
            p[1] = 0 \/ (p[2] = 0 /\ p[1] < h - 1) \/ (h > 1 /\ p = <<h - 1, 0>>)
      <4> SUFFICES ASSUME NEW p \in image.white, p \in Known \/ p[2] = 0
                   PROVE  p[1] = 0 \/ (p[2] = 0 /\ p[1] < h - 1) \/ (h > 1 /\ p = <<h - 1, 0>>)
        OBVIOUS
      <4>1. p[1] = 0 \/ p[2] = 0
        BY <1>3, <3>1
      <4> QED BY <1>3, <4>1
    <3>3. \A p \in image.white : p \in Known \/ p[2] = 0 =>
            BottomLeft(image, op, p) \/ p \in Marked(image, op.border)
      BY <2>4, <3>2 DEF BottomLeft, Marked
    <3>4. \A p \in image.white : p \in Marked(image, op.border) => label[p] = 1
      BY <1>1, <1>2, <1>3
    <3>5. ASSUME NEW p \in image.white, BottomLeft(image, op, p) PROVE label[p] = 0
      <4>1. p = <<h - 1, 0>> /\ h > 1
        BY <3>5 DEF BottomLeft
      <4>2. p \notin Marked(image, op.border)
        BY <1>3, <2>4, <4>1 DEF Marked
      <4>3. op.fresh
        BY <1>7, <2>4, <4>1 DEF Exact, CornerIsStale, White
      <4> QED BY <1>1, <1>2, <1>3, <4>2, <4>3
    <3>6. \A p \in Known : OnEdge(image, p)
      BY <1>3, <3>1 DEF OnEdge, Known
    <3>7. \A p \in image.white : GoodNumber(image, op, Known, label, count, p)
      <4> SUFFICES ASSUME NEW p \in image.white PROVE GoodNumber(image, op, Known, label, count, p)
        OBVIOUS
      <4>1. CASE BottomLeft(image, op, p)
        BY <3>5, <4>1 DEF GoodNumber
      <4>2. CASE ~BottomLeft(image, op, p)
        BY <2>2, <3>3, <3>4, <4>2 DEF GoodNumber
      <4> QED BY <4>1, <4>2
    <3>8. \A p \in Known : Number(image, op, alias, label, p) = 1
      <4> DEFINE K == Known
      <4>1. /\ K \in SUBSET image.white /\ alias \in AliasTable
            /\ \A p \in image.white : GoodNumber(image, op, K, label, count, p)
            /\ \A p \in K : OnEdge(image, p)
        BY <2>1, <3>6, <3>7, TypeOKIsTable
      <4> HIDE DEF K
      <4>2. \A p \in K : Number(image, op, alias, label, p) = 1
        BY <2>4, <4>1, EdgeNumber
      <4> QED BY <4>2 DEF K
    <3>9. \A p \in Known : TouchesEdge(image, op, p)
      BY <2>1, <2>4, <3>6, ConnectedReflexive DEF TouchesEdge
    <3> QED BY <2>1, <2>2, <3>7, <3>8, <3>9 DEF Numbered
  <2> QED BY <1>3, <2>3, <2>4
<1> QED BY <1>5, <1>6, <1>7 DEF Scanned

LEMMA ScannedNext ==
  TypeOK /\ WellFormed /\ Scanned /\ [Next]_vars => Scanned'
<1> SUFFICES ASSUME TypeOK, WellFormed, Scanned, [Next]_vars PROVE Scanned'
  OBVIOUS
<1>1. CASE Black
  BY <1>1, BlackKeepsScanned
<1>2. CASE Connect
  BY <1>2, ConnectKeepsScanned
<1>3. CASE Alone
  BY <1>3, AloneKeepsScanned
<1>4. CASE Update
  BY <1>4 DEF Update, Scanned
<1>5. CASE Use
  BY <1>5 DEF Use, Scanned
<1>6. CASE UNCHANGED vars
  <2>1. /\ op' = op /\ image' = image /\ phase' = phase /\ at' = at /\ label' = label
        /\ alias' = alias /\ count' = count
    BY <1>6 DEF vars
  <2>2. Known' = Known /\ Pending' = Pending /\ Pixels(image)' = Pixels(image)
    BY <2>1 DEF Known, Seen, Pending, White, Left, Up, Pixels
  <2>3. Exact' <=> Exact
    BY <2>1 DEF Exact, CornerIsLost, CornerIsStale, LostCorner, White, OnEdge, OnLastEdge
  <2>4. (BlackIsZero' <=> BlackIsZero) /\ (Scannable2' <=> Scannable2)
    BY <2>1, <2>2 DEF BlackIsZero, Scannable2
  <2> QED BY <2>1, <2>2, <2>3, <2>4 DEF Scanned
<1> QED BY <1>1, <1>2, <1>3, <1>4, <1>5, <1>6 DEF Next

-----------------------------------------------------------------------------
(* Making the numbers consecutive: the rank of a number among those that   *)
(* are not an alias.                                                       *)
Rank(e) == Cardinality({r \in 2 .. e : alias[r] = 0})

LEMMA RanksDiffer ==
  ASSUME TypeOK, count \in 2 .. MaxCount,
         NEW e \in 2 .. count - 1, NEW f \in 2 .. count - 1, e < f,
         alias[e] = 0, alias[f] = 0
  PROVE  Rank(e) < Rank(f)
<1> DEFINE E == {r \in 2 .. e : alias[r] = 0}
           F == {r \in 2 .. f : alias[r] = 0}
<1>1. E \subseteq F \ {f} /\ f \in F
  BY DEF TypeOK
<1>2. IsFiniteSet(2 .. f)
  BY FS_Interval
<1>3. IsFiniteSet(F) /\ Cardinality(F) \in Nat
  BY <1>2, FS_Subset, FS_CardinalityType
<1> HIDE DEF E, F
<1>4. IsFiniteSet(F \ {f}) /\ Cardinality(F \ {f}) = Cardinality(F) - 1
  BY <1>1, <1>3, FS_RemoveElement
<1>5. IsFiniteSet(E) /\ Cardinality(E) <= Cardinality(F \ {f}) /\ Cardinality(E) \in Nat
  BY <1>1, <1>4, FS_Subset, FS_CardinalityType
<1> QED BY <1>3, <1>4, <1>5 DEF Rank, E, F

LEMMA RanksAreCounted ==
  ASSUME TypeOK, count \in 2 .. MaxCount, NEW e \in 2 .. count - 1, alias[e] = 0
  PROVE  Rank(e) \in 1 .. count - 2 - Cardinality(Aliases)
<1> DEFINE N == 2 .. count - 1
           E == {r \in 2 .. e : alias[r] = 0}
<1>1. IsFiniteSet(N) /\ Cardinality(N) = count - 2
  BY MaxCountAssumption, FS_Interval
<1>2. Aliases \subseteq N /\ E \subseteq N \ Aliases /\ e \in E
  BY MaxCountAssumption DEF Aliases
<1> HIDE DEF N, E
<1>3. IsFiniteSet(Aliases) /\ Cardinality(Aliases) \in Nat
  BY UpdatedCount
<1>4. N \cap Aliases = Aliases
  BY <1>2
<1>5. /\ IsFiniteSet(N \ Aliases)
      /\ Cardinality(N \ Aliases) = Cardinality(N) - Cardinality(N \cap Aliases)
  BY <1>1, FS_Difference
<1>6. Cardinality(N \ Aliases) = count - 2 - Cardinality(Aliases)
  BY <1>1, <1>4, <1>5
<1>7. /\ IsFiniteSet(E) /\ Cardinality(E) <= Cardinality(N \ Aliases)
      /\ Cardinality(E) \in Nat
  BY <1>2, <1>5, FS_Subset, FS_CardinalityType
<1>8. Cardinality(E) # 0
  BY <1>2, <1>7, FS_EmptySet
<1>9. Cardinality(E) \in 1 .. count - 2 - Cardinality(Aliases)
  BY <1>3, <1>6, <1>7, <1>8, MaxCountAssumption
<1> QED BY <1>9 DEF Rank, E

LEMMA FirstNumbers ==
  ASSUME NEW n \in Nat
  PROVE  IsFiniteSet(1 .. n) /\ Cardinality(1 .. n) = n
<1>1. \A a, b \in Int : IsFiniteSet(a .. b) /\ Cardinality(a .. b) = IF a > b THEN 0 ELSE b - a + 1
  BY FS_Interval
<1>2. 1 \in Int /\ n \in Int
  OBVIOUS
<1>3. IsFiniteSet(1 .. n) /\ Cardinality(1 .. n) = IF 1 > n THEN 0 ELSE n - 1 + 1
  BY <1>1, <1>2
<1> QED BY <1>3

(* And every place in the ranking is taken.                                *)
LEMMA RanksAreAll ==
  ASSUME TypeOK, count \in 2 .. MaxCount, NEW n \in 1 .. count - 2 - Cardinality(Aliases)
  PROVE  \E e \in 2 .. count - 1 : alias[e] = 0 /\ Rank(e) = n
<1> DEFINE N == 2 .. count - 1
           Ends == N \ Aliases
           k == count - 2 - Cardinality(Aliases)
           f == [e \in Ends |-> Rank(e)]
<1>1. IsFiniteSet(N) /\ Cardinality(N) = count - 2 /\ Aliases \subseteq N
  BY MaxCountAssumption, FS_Interval DEF Aliases
<1>2. \A e : e \in Ends <=> e \in N /\ alias[e] = 0
  BY DEF Aliases
<1>3. IsFiniteSet(Aliases) /\ Cardinality(Aliases) \in Nat /\ k \in 0 .. MaxCount
  BY UpdatedCount
<1>4. \A e \in Ends : Rank(e) \in 1 .. k
  BY <1>2, RanksAreCounted
<1>5. ASSUME NEW d \in Ends, NEW e \in Ends, d # e PROVE Rank(d) # Rank(e)
  <2>1. d < e \/ e < d
    BY <1>2, <1>5, MaxCountAssumption
  <2>2. Rank(d) \in Int /\ Rank(e) \in Int
    BY <1>4
  <2>3. d < e => Rank(d) < Rank(e)
    BY <1>2, RanksDiffer
  <2>4. e < d => Rank(e) < Rank(d)
    BY <1>2, RanksDiffer
  <2> QED BY <2>1, <2>2, <2>3, <2>4
<1>6. N \cap Aliases = Aliases
  BY <1>1
<1> HIDE DEF N
<1>7. Cardinality(Ends) = Cardinality(N) - Cardinality(N \cap Aliases)
  BY <1>1, FS_Difference
<1>8. Cardinality(Ends) = k
  BY <1>1, <1>6, <1>7
<1>9. IsFiniteSet(1 .. k) /\ Cardinality(1 .. k) = k
  <2>1. k \in Nat
    BY <1>3, MaxCountAssumption
  <2> HIDE DEF k
  <2> QED BY <2>1, FirstNumbers
<1>10. f \in [Ends -> 1 .. k]
  BY <1>4
<1>11. f \in Injection(Ends, 1 .. k)
  <2>1. \A d, e \in Ends : f[d] = f[e] => d = e
    BY <1>5
  <2> HIDE DEF f, Ends, k
  <2> QED BY <1>10, <2>1 DEF Injection, IsInjective
<1> HIDE DEF Ends, k
<1>12. f \in Surjection(Ends, 1 .. k)
  <2> HIDE DEF f
  <2> QED BY <1>8, <1>9, <1>11, FS_Injection
<1>13. PICK e \in Ends : f[e] = n
  BY <1>12 DEF Surjection, k
<1> QED BY <1>2, <1>13 DEF N

(* When everything is known, a pixel's end tells what it is connected with.*)
LEMMA ScannedTells ==
  ASSUME TypeOK, WellFormed, Scanned, Exact, phase = "update"
  PROVE  LET n(p) == Number(image, op, alias, label, p)
         IN /\ \A p, q \in image.white : n(p) = n(q) /\ n(p) # 1 => Connected(image, op.connect, p, q)
            /\ \A p, q \in image.white : Connected(image, op.connect, p, q) => n(p) = n(q)
            /\ \A p \in image.white : n(p) = 1 <=> TouchesEdge(image, op, p)
            /\ op.border => \A p \in image.white : n(p) # 1
<1> DEFINE n(p) == Number(image, op, alias, label, p)
           c == op.connect
           K == image.white
<1>1. Known = K /\ Pending = {} /\ alias \in AliasTable
  BY TypeOKIsTable DEF Known, Pending
<1>2. Numbered(image, op, K, alias, label, count, {})
  BY <1>1 DEF Scanned
<1>3. /\ \A p, q \in K : Near(c, p, q) => n(p) = n(q)
      /\ \A p, q \in K : n(p) = n(q) /\ n(p) # 1 => Connected(image, c, p, q)
      /\ \A p \in K : n(p) = 1 => TouchesEdge(image, op, p)
      /\ \A p \in image.white : GoodNumber(image, op, K, label, count, p)
  <2>1. \A p, q : {p, q} # {}
    OBVIOUS
  <2> QED BY <1>2, <2>1 DEF Numbered
<1>4. ASSUME NEW p \in K, NEW q \in K, Connected(image, c, p, q) PROVE n(p) = n(q)
  <2> DEFINE S == {x \in K : n(x) = n(p)}
  <2>1. HasNeighbors(image, c, S)
    <3> HIDE DEF n
    <3> QED BY <1>3 DEF HasNeighbors
  <2>2. q \in S
    BY <1>4, <2>1, ConnectedWithin
  <2> QED BY <2>2
<1>5. ASSUME NEW p \in K, TouchesEdge(image, op, p) PROVE n(p) = 1
  <2>1. PICK q \in K : ~op.border /\ OnEdge(image, q) /\ Connected(image, c, p, q)
    BY <1>5 DEF TouchesEdge
  <2>2. n(q) = 1
    <3> DEFINE L == K
    <3>1. L \in SUBSET image.white /\ q \in L
          /\ \A x \in image.white : GoodNumber(image, op, L, label, count, x)
      BY <1>3
    <3> HIDE DEF L
    <3> QED BY <1>1, <2>1, <3>1, EdgeNumber
  <2> QED BY <1>4, <2>1, <2>2
<1>6. op.border => \A p \in K : n(p) # 1
  BY <1>3 DEF TouchesEdge
<1> HIDE DEF n
<1> QED BY <1>3, <1>4, <1>5, <1>6 DEF n

(* What the numbers tell at the end: those of the border's regions are 0,  *)
(* the others are the count's, one for every region.                       *)
NumbersTell ==
  phase \in {"use", "done"} /\ count >= 0 =>
    /\ BlackIsZero
    /\ Exact =>
         /\ \A p \in image.white :
              IF TouchesEdge(image, op, p) THEN label[p] = 0 ELSE label[p] \in 1 .. count
         /\ \A p, q \in image.white :
              ~TouchesEdge(image, op, p) /\ ~TouchesEdge(image, op, q) =>
                (label[p] = label[q] <=> Connected(image, op.connect, p, q))
         /\ \A n \in 1 .. count : \E p \in image.white : label[p] = n

LEMMA UpdateTells ==
  ASSUME TypeOK, WellFormed, Scanned, Update
  PROVE  NumbersTell'
<1>1. /\ phase = "update" /\ image' = image /\ op' = op
      /\ label' = [p \in Pixels(image) |-> IF label[p] = 0 THEN 0 ELSE Remapped(label[p])]
      /\ count' = count - 2 - Cardinality(Aliases)
  BY DEF Update
<1>2. /\ count \in 2 .. MaxCount /\ image.white \subseteq Pixels(image)
      /\ alias \in AliasTable
  BY <1>1, TypeOKIsTable DEF WellFormed
<1>3. BlackIsZero'
  <2>1. Pixels(image)' = Pixels(image)
    BY <1>1 DEF Pixels
  <2> QED BY <1>1, <2>1 DEF Scanned, BlackIsZero
<1>4. ASSUME Exact
      PROVE  /\ \A p \in image.white :
                  IF TouchesEdge(image, op, p) THEN label'[p] = 0 ELSE label'[p] \in 1 .. count'
             /\ \A p, q \in image.white :
                  ~TouchesEdge(image, op, p) /\ ~TouchesEdge(image, op, q) =>
                    (label'[p] = label'[q] <=> Connected(image, op.connect, p, q))
             /\ \A n \in 1 .. count' : \E p \in image.white : label'[p] = n
  <2> DEFINE m(p) == Number(image, op, alias, label, p)
             K == image.white
  <2>1. /\ \A p, q \in K : m(p) = m(q) /\ m(p) # 1 => Connected(image, op.connect, p, q)
        /\ \A p, q \in K : Connected(image, op.connect, p, q) => m(p) = m(q)
        /\ \A p \in K : m(p) = 1 <=> TouchesEdge(image, op, p)
    BY <1>1, <1>4, ScannedTells
  <2>2. Numbered(image, op, K, alias, label, count, {})
    BY <1>1, <1>4 DEF Scanned, Known, Pending
  <2>3. /\ \A p \in K : GoodNumber(image, op, K, label, count, p)
        /\ \A r \in 2 .. count - 1 : \E p \in K : label[p] = r
    BY <2>2 DEF Numbered
  <2>4. ASSUME NEW p \in K, ~BottomLeft(image, op, p)
        PROVE  /\ label[p] \in Label /\ label[p] \in 1 .. count - 1 /\ m(p) = End(alias, label[p])
               /\ m(p) \in 1 .. count - 1 /\ alias[m(p)] = 0
               /\ label'[p] = IF m(p) = 1 THEN 0 ELSE Rank(m(p))
    <3>1. /\ label[p] \in Label /\ label[p] \in 1 .. count - 1 /\ m(p) = End(alias, label[p])
          /\ m(p) \in 1 .. count - 1
      <4> DEFINE L == K
      <4>1. L \in SUBSET image.white /\ p \in L
            /\ \A x \in image.white : GoodNumber(image, op, L, label, count, x)
        BY <2>3
      <4> HIDE DEF L
      <4> QED BY <1>2, <2>4, <4>1, NumberType
    <3>2. alias[m(p)] = 0
      BY <1>2, <3>1, ChainsEnd
    <3>3. ~(label[p] >= count) /\ label[p] # 0
      BY <1>2, <3>1, MaxCountAssumption
    <3>4. label'[p] = Remapped(label[p])
      BY <1>1, <1>2, <3>3
    <3>5. Remapped(label[p]) = IF m(p) = 1 THEN 0 ELSE Rank(m(p))
      BY <3>1, <3>3 DEF Remapped, Rank
    <3> HIDE DEF m
    <3> QED BY <3>1, <3>2, <3>4, <3>5
  <2>5. ASSUME NEW p \in K, BottomLeft(image, op, p)
        PROVE  m(p) = 1 /\ label'[p] = 0
    <3>1. label[p] = 0 /\ m(p) = 1
      BY <2>3, <2>5 DEF GoodNumber, Number
    <3> QED BY <1>1, <1>2, <3>1
  <2>6. ASSUME NEW p \in K, TouchesEdge(image, op, p) PROVE label'[p] = 0
    <3>1. m(p) = 1
      BY <2>1, <2>6
    <3> HIDE DEF m
    <3> QED BY <2>4, <2>5, <3>1
  <2>7. ASSUME NEW p \in K, ~TouchesEdge(image, op, p)
        PROVE  /\ m(p) \in 2 .. count - 1 /\ alias[m(p)] = 0 /\ label'[p] = Rank(m(p))
               /\ label'[p] \in 1 .. count'
    <3>1. m(p) # 1
      BY <2>1, <2>7
    <3> HIDE DEF m
    <3>2. m(p) \in 1 .. count - 1 /\ alias[m(p)] = 0 /\ label'[p] = Rank(m(p))
      BY <2>4, <2>5, <3>1
    <3>3. m(p) \in 2 .. count - 1
      BY <1>2, <3>1, <3>2, MaxCountAssumption
    <3>4. Rank(m(p)) \in 1 .. count'
      BY <1>1, <1>2, <3>2, <3>3, RanksAreCounted
    <3> QED BY <3>2, <3>3, <3>4
  <2>8. ASSUME NEW p \in K, NEW q \in K, ~TouchesEdge(image, op, p), ~TouchesEdge(image, op, q)
        PROVE  label'[p] = label'[q] <=> Connected(image, op.connect, p, q)
    <3> DEFINE e == m(p)  f == m(q)
    <3>1. /\ e \in 2 .. count - 1 /\ alias[e] = 0 /\ label'[p] = Rank(e)
          /\ f \in 2 .. count - 1 /\ alias[f] = 0 /\ label'[q] = Rank(f)
      <4> HIDE DEF m
      <4> QED BY <2>7, <2>8
    <3>2. e # 1
      BY <2>1, <2>8
    <3>3. e = f <=> Connected(image, op.connect, p, q)
      <4> HIDE DEF m
      <4> QED BY <2>1, <3>2
    <3> HIDE DEF e, f
    <3>4. Rank(e) \in Int /\ Rank(f) \in Int
      BY <1>2, <3>1, RanksAreCounted
    <3>5. e # f => Rank(e) # Rank(f)
      <4>1. e # f => e < f \/ f < e
        BY <3>1
      <4>2. e < f => Rank(e) < Rank(f)
        BY <1>2, <3>1, RanksDiffer
      <4>3. f < e => Rank(f) < Rank(e)
        BY <1>2, <3>1, RanksDiffer
      <4> QED BY <3>4, <4>1, <4>2, <4>3
    <3> QED BY <3>1, <3>3, <3>5
  <2>9. ASSUME NEW n \in 1 .. count' PROVE \E p \in K : label'[p] = n
    <3>1. PICK e \in 2 .. count - 1 : alias[e] = 0 /\ Rank(e) = n
      BY <1>1, <1>2, RanksAreAll
    <3>2. PICK p \in K : label[p] = e
      BY <2>3
    <3>3. e \in Label /\ e # 0 /\ e # 1
      BY <1>2, MaxCountAssumption DEF Label
    <3>4. ~BottomLeft(image, op, p)
      BY <2>3, <3>2, <3>3 DEF GoodNumber
    <3>5. m(p) = End(alias, e) /\ label'[p] = IF m(p) = 1 THEN 0 ELSE Rank(m(p))
      BY <2>4, <3>2, <3>4
    <3>6. m(p) = e
      BY <1>2, <3>1, <3>3, <3>5, EndStep
    <3> HIDE DEF m
    <3>7. label'[p] = n
      BY <3>1, <3>3, <3>5, <3>6
    <3> QED BY <3>7
  <2> QED BY <2>6, <2>7, <2>8, <2>9
<1>5. Exact' <=> Exact
  BY <1>1 DEF Exact, CornerIsLost, CornerIsStale, LostCorner, White, OnEdge, OnLastEdge
<1> QED BY <1>1, <1>3, <1>4, <1>5 DEF NumbersTell

(* What the operation made of the numbers.                                 *)
OutIsUsed ==
  phase = "done" =>
    /\ op.kind = "fill" => out = {p \in Pixels(image) : label[p] # 0 \/ ~White(p)}
    /\ op.kind = "remove" =>
         out = {p \in Pixels(image) :
                  label[p] # 0 /\ (Area(label[p]) \in op.least .. op.most) = ~op.inside}

FindInv == op \in Operation /\ TypeOK /\ WellFormed /\ Scanned /\ NumbersTell /\ OutIsUsed

LEMMA FindInit == Init => FindInv
<1>1. Init => op \in Operation /\ NumbersTell /\ OutIsUsed
  BY DEF Init, NumbersTell, OutIsUsed
<1> QED BY <1>1, TypesInit, ScannedInit DEF FindInv

LEMMA TellsNext ==
  ASSUME TypeOK, WellFormed, Scanned, NumbersTell, [Next]_vars
  PROVE  NumbersTell'
<1>1. CASE Black
  BY <1>1 DEF Black, Moves, NumbersTell
<1>2. CASE Connect
  BY <1>2 DEF Connect, Moves, NumbersTell
<1>3. CASE Alone
  <2>1. phase' \in {"use", "done"} => count' = -1
    BY <1>3 DEF Alone, Moves
  <2> QED BY <2>1 DEF NumbersTell
<1>4. CASE Update
  BY <1>4, UpdateTells
<1>5. CASE Use \/ UNCHANGED vars
  <2>1. /\ op' = op /\ image' = image /\ label' = label /\ count' = count
        /\ phase' \in {"use", "done"} => phase \in {"use", "done"}
    BY <1>5 DEF Use, vars
  <2>2. Exact' <=> Exact
    BY <2>1 DEF Exact, CornerIsLost, CornerIsStale, LostCorner, White, OnEdge, OnLastEdge
  <2>3. BlackIsZero' <=> BlackIsZero
    BY <2>1 DEF BlackIsZero, Pixels
  <2> QED BY <2>1, <2>2, <2>3 DEF NumbersTell
<1> QED BY <1>1, <1>2, <1>3, <1>4, <1>5 DEF Next

LEMMA UsedNext ==
  ASSUME OutIsUsed, WellFormed, [Next]_vars
  PROVE  OutIsUsed'
<1>1. CASE Use
  <2>1. /\ op' = op /\ image' = image /\ label' = label
        /\ op.kind = "fill" => out' = {p \in Pixels(image) : label[p] # 0 \/ ~White(p)}
        /\ op.kind = "remove" =>
             out' = {p \in Pixels(image) :
                       label[p] # 0 /\ (Area(label[p]) \in op.least .. op.most) = ~op.inside}
    BY <1>1 DEF Use
  <2>2. Pixels(image)' = Pixels(image)
    BY <2>1 DEF Pixels
  <2>3. \A p : White(p)' <=> White(p)
    BY <2>1 DEF White
  <2>4. \A n : Area(n)' = Area(n)
    BY <2>1, <2>2 DEF Area
  <2> QED BY <2>1, <2>2, <2>3, <2>4 DEF OutIsUsed
<1>2. CASE Black \/ Connect \/ Alone \/ Update
  <2>1. phase' # "done"
    <3>1. ASSUME Moves PROVE phase' # "done"
      BY <3>1 DEF Moves
    <3> QED BY <1>2, <3>1 DEF Black, Connect, Alone, Update
  <2> QED BY <2>1 DEF OutIsUsed
<1>3. CASE UNCHANGED vars
  <2>1. op' = op /\ image' = image /\ label' = label /\ phase' = phase /\ out' = out
    BY <1>3 DEF vars
  <2>2. Pixels(image)' = Pixels(image)
    BY <2>1 DEF Pixels
  <2>3. \A p : White(p)' <=> White(p)
    BY <2>1 DEF White
  <2>4. \A n : Area(n)' = Area(n)
    BY <2>1, <2>2 DEF Area
  <2> QED BY <2>1, <2>2, <2>3, <2>4 DEF OutIsUsed
<1> QED BY <1>1, <1>2, <1>3 DEF Next

LEMMA FindNext == FindInv /\ [Next]_vars => FindInv'
<1> SUFFICES ASSUME FindInv, [Next]_vars PROVE FindInv'
  OBVIOUS
<1>1. op \in Operation /\ TypeOK /\ WellFormed /\ Scanned /\ NumbersTell /\ OutIsUsed
  BY DEF FindInv
<1>2. (op \in Operation)'
  <2>1. op' = op
    BY DEF Next, vars, Black, Connect, Alone, Update, Use
  <2> QED BY <1>1, <2>1
<1> QED BY <1>1, <1>2, TypesNext, ScannedNext, TellsNext, UsedNext DEF FindInv

-----------------------------------------------------------------------------
(* From the numbers to the regions.                                        *)
LEMMA RegionIsComponent ==
  ASSUME WellFormed, NEW p \in image.white
  PROVE  /\ RegionOf(p) = {q \in image.white : Connected(image, op.connect, p, q)}
         /\ Considered(p) <=> ~TouchesEdge(image, op, p)
<1>1. IsFiniteSet(image.white)
  <2>1. IsFiniteSet(0 .. image.height - 1) /\ IsFiniteSet(0 .. image.width - 1)
    <3>1. \A a, b \in Int : IsFiniteSet(a .. b)
      BY FS_Interval
    <3>2. 0 \in Int /\ image.height - 1 \in Int /\ image.width - 1 \in Int
      BY DEF WellFormed
    <3> QED BY <3>1, <3>2
  <2>2. IsFiniteSet(Pixels(image))
    BY <2>1, FS_Product DEF Pixels
  <2> QED BY <2>2, FS_Subset DEF WellFormed
<1>2. RegionOf(p) = {q \in image.white : Connected(image, op.connect, p, q)}
  BY <1>1, ReachedIsConnected DEF RegionOf
<1>3. op.border \in BOOLEAN
  BY DEF WellFormed
<1> QED BY <1>2, <1>3 DEF Considered, TouchesEdge

LEMMA TellsRegions ==
  ASSUME TypeOK, WellFormed, NumbersTell, phase \in {"use", "done"}, count >= 0, Exact
  PROVE  /\ NumbersAreRegions
         /\ \A p \in image.white : Considered(p) => label[p] # 0
         /\ \A p \in image.white : Considered(p) =>
              {q \in image.white : label[q] = label[p]} = RegionOf(p)
<1> DEFINE W == image.white
           c == op.connect
           T(p) == TouchesEdge(image, op, p)
           Of(n) == {q \in W : label[q] = n}
           considered == {p \in W : Considered(p)}
           regions == {RegionOf(p) : p \in considered}
<1>1. /\ \A p \in W : IF T(p) THEN label[p] = 0 ELSE label[p] \in 1 .. count
      /\ \A p, q \in W : ~T(p) /\ ~T(q) => (label[p] = label[q] <=> Connected(image, c, p, q))
      /\ \A n \in 1 .. count : \E p \in W : label[p] = n
  BY DEF NumbersTell
<1>2. \A p \in W : /\ RegionOf(p) = {q \in W : Connected(image, c, p, q)}
                   /\ Considered(p) <=> ~T(p)
  BY RegionIsComponent
<1>3. count \in Nat /\ 0 \notin 1 .. count
  BY DEF TypeOK
<1>4. ASSUME NEW p \in W, ~T(p) PROVE Of(label[p]) = RegionOf(p)
  <2>1. label[p] # 0
    BY <1>1, <1>3, <1>4
  <2>2. ASSUME NEW q \in W PROVE label[q] = label[p] <=> Connected(image, c, p, q)
    <3>1. CASE T(q)
      <4>1. label[q] = 0
        BY <1>1, <3>1
      <4>2. ~Connected(image, c, p, q)
        BY <1>4, <3>1, TouchesTogether
      <4> QED BY <2>1, <4>1, <4>2
    <3>2. CASE ~T(q)
      BY <1>1, <1>4, <3>2
    <3> QED BY <3>1, <3>2
  <2>3. \A q \in W : label[q] = label[p] <=> Connected(image, c, p, q)
    BY <2>2
  <2> QED BY <1>2, <2>3
<1>5. \A p \in W : ~T(p) => label[p] # 0 /\ label[p] \in 1 .. count
  BY <1>1, <1>3
<1>6. \A R \in regions : \E n \in 1 .. count : Of(n) = R
  <2> SUFFICES ASSUME NEW p \in W, Considered(p) PROVE \E n \in 1 .. count : Of(n) = RegionOf(p)
    OBVIOUS
  <2> QED BY <1>2, <1>4, <1>5
<1>7. \A n \in 1 .. count : Of(n) \in regions
  <2> SUFFICES ASSUME NEW n \in 1 .. count PROVE Of(n) \in regions
    OBVIOUS
  <2>1. PICK p \in W : label[p] = n
    BY <1>1
  <2>2. ~T(p)
    BY <1>1, <1>3, <2>1
  <2>3. p \in considered
    BY <1>2, <2>2
  <2> QED BY <1>4, <2>1, <2>2, <2>3
<1>8. \A n, k \in 1 .. count : Of(n) = Of(k) => n = k
  <2> SUFFICES ASSUME NEW n \in 1 .. count, NEW k \in 1 .. count, Of(n) = Of(k) PROVE n = k
    OBVIOUS
  <2>1. PICK p \in W : label[p] = n
    BY <1>1
  <2>2. p \in Of(k)
    BY <2>1
  <2> QED BY <2>1, <2>2
<1>9. count = Cardinality(regions)
  <2> DEFINE f == [n \in 1 .. count |-> Of(n)]
             N == 1 .. count
  <2> HIDE DEF Of, regions
  <2>1. f \in [N -> regions] /\ \A n \in N : f[n] = Of(n)
    BY <1>7
  <2>2. f \in Bijection(N, regions)
    <3> HIDE DEF f, N
    <3>1. \A n, k \in N : f[n] = f[k] => n = k
      BY <1>8, <2>1 DEF N
    <3>2. \A R \in regions : \E n \in N : f[n] = R
      BY <1>6, <2>1 DEF N
    <3> QED BY <2>1, <3>1, <3>2 DEF Bijection, Injection, Surjection, IsInjective
  <2>3. IsFiniteSet(N) /\ Cardinality(N) = count
    BY <1>3, FirstNumbers
  <2> HIDE DEF f, N
  <2>4. ExistsBijection(N, regions)
    BY <2>2 DEF ExistsBijection
  <2> QED BY <2>3, <2>4, FS_Bijection
<1>10. \A p \in W \ considered : label[p] = 0
  BY <1>1, <1>2
<1>11. NumbersAreRegions
  BY <1>6, <1>9, <1>10 DEF NumbersAreRegions
<1> QED BY <1>2, <1>4, <1>5, <1>11

LEMMA RegionsFollow == FindInv => RegionsAreRight
<1> SUFFICES ASSUME FindInv, phase = "done", count >= 0, Exact
             PROVE  /\ NumbersAreRegions
                    /\ op.fresh => \A p \in Pixels(image) \ image.white : label[p] = 0
                    /\ op.kind = "fill" => out = Source \cup {p \in image.white : Considered(p)}
                    /\ op.kind = "remove" =>
                         out = {p \in Source :
                                  (Cardinality(RegionOf(p)) \in op.least .. op.most) # op.inside}
  BY DEF RegionsAreRight, Trustworthy, Exact
<1>1. op \in Operation /\ TypeOK /\ WellFormed /\ NumbersTell /\ OutIsUsed
  BY DEF FindInv
<1>2. /\ NumbersAreRegions
      /\ \A p \in image.white : Considered(p) => label[p] # 0
      /\ \A p \in image.white : Considered(p) =>
           {q \in image.white : label[q] = label[p]} = RegionOf(p)
  BY <1>1, TellsRegions
<1>3. op.fresh => \A p \in Pixels(image) \ image.white : label[p] = 0
  BY <1>1 DEF NumbersTell, BlackIsZero
<1>4. \A p \in image.white : ~Considered(p) => label[p] = 0
  BY <1>2 DEF NumbersAreRegions
<1>5. image.white \subseteq Pixels(image)
  BY <1>1 DEF WellFormed
<1>6. ASSUME op.kind = "fill" PROVE out = Source \cup {p \in image.white : Considered(p)}
  <2>1. out = {p \in Pixels(image) : label[p] # 0 \/ p \notin image.white}
    BY <1>1, <1>6 DEF OutIsUsed, White
  <2>2. Source = Pixels(image) \ image.white
    BY <1>6 DEF Source
  <2>3. \A p \in image.white : label[p] # 0 <=> Considered(p)
    BY <1>2, <1>4
  <2> QED BY <1>5, <2>1, <2>2, <2>3
<1>7. ASSUME op.kind = "remove"
      PROVE  out = {p \in Source : (Cardinality(RegionOf(p)) \in op.least .. op.most) # op.inside}
  <2>1. op.border = TRUE /\ op.fresh = TRUE /\ op.inside \in BOOLEAN
    BY <1>1, <1>7 DEF Operation
  <2>2. out = {p \in Pixels(image) :
                 label[p] # 0 /\ (Area(label[p]) \in op.least .. op.most) = ~op.inside}
    BY <1>1, <1>7 DEF OutIsUsed
  <2>3. Source = image.white
    BY <1>7 DEF Source
  <2>4. \A p \in image.white : Considered(p) /\ label[p] # 0
    BY <1>2, <2>1 DEF Considered
  <2>5. \A p \in Pixels(image) : label[p] # 0 <=> p \in image.white
    BY <1>3, <2>1, <2>4
  <2>6. ASSUME NEW p \in image.white PROVE Area(label[p]) = Cardinality(RegionOf(p))
    <3>1. {q \in Pixels(image) : label[q] = label[p]} = {q \in image.white : label[q] = label[p]}
      BY <1>5, <2>4, <2>5
    <3> QED BY <1>2, <2>4, <3>1 DEF Area
  <2>7. \A p \in image.white :
          (Area(label[p]) \in op.least .. op.most) = ~op.inside
            <=> (Cardinality(RegionOf(p)) \in op.least .. op.most) # op.inside
    <3> SUFFICES ASSUME NEW p \in image.white
                 PROVE  (Area(label[p]) \in op.least .. op.most) = ~op.inside
                          <=> (Cardinality(RegionOf(p)) \in op.least .. op.most) # op.inside
      OBVIOUS
    <3>1. Area(label[p]) = Cardinality(RegionOf(p))
      BY <2>6
    <3> DEFINE fits == Cardinality(RegionOf(p)) \in op.least .. op.most
    <3>2. fits \in BOOLEAN
      OBVIOUS
    <3> HIDE DEF fits
    <3>3. fits = ~op.inside <=> fits # op.inside
      BY <2>1, <3>2, Zenon
    <3> QED BY <3>1, <3>3 DEF fits
  <2> QED BY <1>5, <2>2, <2>3, <2>5, <2>7
<1> QED BY <1>2, <1>3, <1>6, <1>7

(* For every set of images and any number of numbers: with and without the *)
(* border, in fours and in eights, every region of imAnalyzeFindRegions    *)
(* has one number of its own from 1 to the count whatever its shape,       *)
(* regions at the border have none unless they are asked for, and filling  *)
(* holes and removing regions by area keep exactly what they should, but   *)
(* for the corners that are lost or stale.                                 *)
THEOREM RegionsAlwaysRight == Spec => []RegionsAreRight
<1>1. Spec => []FindInv
  BY FindInit, FindNext, PTL DEF Spec
<1> QED BY <1>1, RegionsFollow, PTL

(* Safety: when the regions of an image are found, those at the border     *)
(* included (imProcessRemoveByArea does that), two white pixels have the   *)
(* same number exactly when they are connected, the number is one of those *)
(* counted, so that it is a place in the arrays of measures that have that *)
(* many, and the background has none unless the image held another result. *)
NumbersTellRegions ==
  phase \in {"use", "done"} /\ op.border /\ count >= 0 =>
    /\ \A p, q \in image.white :
         label[p] = label[q] <=> Connected(image, op.connect, p, q)
    /\ \A p \in image.white : label[p] \in 1 .. count
    /\ op.fresh => \A p \in Pixels(image) \ image.white : label[p] = 0

(* With the border no corner is lost: the numbers always tell the          *)
(* connected components of the image, and are in the range of the count.   *)
THEOREM NumbersAreComponents == Spec => []NumbersTellRegions
<1>1. FindInv => NumbersTellRegions
  <2> SUFFICES ASSUME NumbersTell, phase \in {"use", "done"}, op.border, count >= 0
               PROVE  /\ \A p, q \in image.white :
                           label[p] = label[q] <=> Connected(image, op.connect, p, q)
                      /\ \A p \in image.white : label[p] \in 1 .. count
                      /\ op.fresh => \A p \in Pixels(image) \ image.white : label[p] = 0
    BY DEF FindInv, NumbersTellRegions
  <2>1. Exact /\ \A p : ~TouchesEdge(image, op, p)
    BY DEF Exact, CornerIsLost, CornerIsStale, TouchesEdge
  <2> QED BY <2>1 DEF NumbersTell, BlackIsZero
<1>2. Spec => []FindInv
  BY FindInit, FindNext, PTL DEF Spec
<1> QED BY <1>1, <1>2, PTL
=============================================================================
