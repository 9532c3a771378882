--------------------------- MODULE ImAttribProofs ---------------------------
(***************************************************************************)
(* Proofs about ImAttrib for any tables, arrays, names and hash: the loops *)
(* that trust count meet every node, chains stay sound, and each operation *)
(* is one of a map.                                                        *)
(***************************************************************************)
EXTENDS ImAttrib, FiniteSetTheorems, TLAPS

(* What is in a chain, by name at most once, and where its names belong.   *)
Elems(c) == {c[p] : p \in DOMAIN c}
Unique(c) == \A p, q \in DOMAIN c : c[p][1] = c[q][1] => p = q
Hashed(t, i, c) == \A p \in DOMAIN c : iHashIndex(t, c[p][1]) = i

-----------------------------------------------------------------------------
(* Chains.                                                                 *)
LEMMA FoundIsPlace ==
  ASSUME NEW c, Unique(c), NEW n, NEW p \in DOMAIN c, c[p][1] = n
  PROVE  Places(c, n) = {p} /\ (c \in Seq(Node) => Found(c, n) = p)
<1>1. Places(c, n) = {p}
  BY DEF Places, Unique
<1>2. ASSUME c \in Seq(Node) PROVE Found(c, n) = p
  <2>1. p \in Nat
    BY <1>2
  <2>2. Found(c, n) = CHOOSE x \in {p} : \A y \in {p} : x <= y
    BY <1>1 DEF Found
  <2> QED BY <2>1, <2>2
<1> QED BY <1>1, <1>2

LEMMA Prepended ==
  ASSUME NEW c \in Seq(Node), NEW x \in Node, Unique(c), \A e \in Elems(c) : e[1] # x[1]
  PROVE  /\ <<x>> \o c \in Seq(Node) /\ Unique(<<x>> \o c)
         /\ Elems(<<x>> \o c) = Elems(c) \cup {x}
<1> DEFINE b == <<x>> \o c
<1>1. b \in Seq(Node) /\ Len(b) = Len(c) + 1 /\ b[1] = x
  OBVIOUS
<1>2. \A q \in 1 .. Len(c) : b[q + 1] = c[q]
  OBVIOUS
<1>3. \A q \in 2 .. Len(c) + 1 : b[q] = c[q - 1] /\ q - 1 \in 1 .. Len(c)
  OBVIOUS
<1>4. DOMAIN b = 1 .. Len(c) + 1 /\ DOMAIN c = 1 .. Len(c) /\ Len(c) \in Nat
  BY <1>1
<1> HIDE DEF b
<1>5. Elems(b) = Elems(c) \cup {x}
  <2>1. ASSUME NEW e \in Elems(b) PROVE e \in Elems(c) \cup {x}
    BY <1>1, <1>3, <1>4 DEF Elems
  <2>2. ASSUME NEW e \in Elems(c) PROVE e \in Elems(b)
    <3>1. PICK q \in 1 .. Len(c) : e = c[q]
      BY <1>4 DEF Elems
    <3>2. q + 1 \in DOMAIN b /\ b[q + 1] = e
      BY <1>2, <1>4, <3>1
    <3> QED BY <3>2 DEF Elems
  <2>3. 1 \in DOMAIN b
    BY <1>4
  <2> QED BY <1>1, <2>1, <2>2, <2>3 DEF Elems
<1>6. Unique(b)
  <2> SUFFICES ASSUME NEW p \in DOMAIN b, NEW q \in DOMAIN b, b[p][1] = b[q][1] PROVE p = q
    BY DEF Unique
  <2>1. \A r \in DOMAIN c : c[r][1] # x[1]
    BY DEF Elems
  <2>4. \A r \in DOMAIN b : r # 1 => r - 1 \in DOMAIN c /\ b[r] = c[r - 1]
    BY <1>3, <1>4
  <2>2. CASE p = 1 \/ q = 1
    BY <1>1, <2>1, <2>2, <2>4
  <2>3. CASE p # 1 /\ q # 1
    <3>1. p - 1 = q - 1
      BY <2>3, <2>4 DEF Unique
    <3> QED BY <1>4, <3>1
  <2> QED BY <2>2, <2>3
<1> QED BY <1>1, <1>5, <1>6 DEF b

LEMMA Exchanged ==
  ASSUME NEW c \in Seq(Node), NEW x \in Node, Unique(c), NEW p \in DOMAIN c, c[p][1] = x[1]
  PROVE  /\ [c EXCEPT ![p] = x] \in Seq(Node) /\ Unique([c EXCEPT ![p] = x])
         /\ Elems([c EXCEPT ![p] = x]) = {e \in Elems(c) : e[1] # x[1]} \cup {x}
         /\ DOMAIN [c EXCEPT ![p] = x] = DOMAIN c
<1> DEFINE b == [c EXCEPT ![p] = x]
<1>1. b \in Seq(Node) /\ DOMAIN b = DOMAIN c /\ b[p] = x /\ \A q \in DOMAIN c \ {p} : b[q] = c[q]
  OBVIOUS
<1> HIDE DEF b
<1>2. Unique(b)
  BY <1>1 DEF Unique
<1>3. Elems(b) = {e \in Elems(c) : e[1] # x[1]} \cup {x}
  BY <1>1 DEF Elems, Unique
<1> QED BY <1>1, <1>2, <1>3 DEF b

LEMMA WithoutOne ==
  ASSUME NEW c \in Seq(Node), Unique(c), NEW p \in DOMAIN c
  PROVE  /\ Without(c, p) \in Seq(Node) /\ Unique(Without(c, p))
         /\ Elems(Without(c, p)) = Elems(c) \ {c[p]}
         /\ \A e \in Elems(c) : e[1] = c[p][1] => e = c[p]
<1> DEFINE b == Without(c, p)
           m == Len(c)
           a == SubSeq(c, 1, p - 1)
           z == SubSeq(c, p + 1, Len(c))
<1>1. m \in Nat /\ DOMAIN c = 1 .. m /\ p \in 1 .. m
  OBVIOUS
<1>2. /\ a \in Seq(Node) /\ Len(a) = p - 1 /\ \A q \in 1 .. p - 1 : a[q] = c[q]
      /\ z \in Seq(Node) /\ Len(z) = m - p /\ \A q \in 1 .. m - p : z[q] = c[p + q]
  BY <1>1
<1> HIDE DEF a, z, m
<1>4. b = a \o z
  BY DEF Without, a, z, m
<1>3. b \in Seq(Node) /\ Len(b) = m - 1
  <2>1. b \in Seq(Node) /\ Len(b) = Len(a) + Len(z)
    BY <1>2, <1>4
  <2> QED BY <1>1, <1>2, <2>1
<1>5. \A q \in 1 .. m - 1 : b[q] = IF q < p THEN c[q] ELSE c[q + 1]
  <2> TAKE q \in 1 .. m - 1
  <2>1. CASE q < p
    BY <1>1, <1>2, <1>4, <2>1
  <2>2. CASE ~(q < p)
    <3>1. q - (p - 1) \in 1 .. m - p /\ p + (q - (p - 1)) = q + 1
      BY <1>1, <2>2
    <3>2. b[q] = z[q - Len(a)]
      BY <1>1, <1>2, <1>4, <2>2
    <3> QED BY <1>1, <1>2, <2>2, <3>1, <3>2
  <2> QED BY <2>1, <2>2
<1>6. DOMAIN b = 1 .. m - 1
  BY <1>1, <1>3
<1> HIDE DEF b
<1>7. Unique(b)
  <2> SUFFICES ASSUME NEW q \in DOMAIN b, NEW r \in DOMAIN b, b[q][1] = b[r][1] PROVE q = r
    BY DEF Unique
  <2>1. \A s \in DOMAIN b : s \in DOMAIN c /\ s + 1 \in DOMAIN c
    BY <1>1, <1>6
  <2> QED BY <1>1, <1>5, <1>6, <2>1 DEF Unique
<1>8. Elems(b) = Elems(c) \ {c[p]}
  <2>1. ASSUME NEW e \in Elems(b) PROVE e \in Elems(c) \ {c[p]}
    <3>1. PICK q \in 1 .. m - 1 : e = b[q]
      BY <1>6 DEF Elems
    <3>2. PICK s \in DOMAIN c : e = c[s] /\ s # p
      <4>1. CASE q < p
        BY <1>1, <1>5, <3>1, <4>1
      <4>2. CASE ~(q < p)
        <5>1. q + 1 \in DOMAIN c /\ q + 1 # p /\ e = c[q + 1]
          BY <1>1, <1>5, <3>1, <4>2
        <5> QED BY <5>1
      <4> QED BY <4>1, <4>2
    <3> QED BY <3>2 DEF Elems, Unique
  <2>2. ASSUME NEW e \in Elems(c), e # c[p] PROVE e \in Elems(b)
    <3>1. PICK s \in 1 .. m : e = c[s] /\ s # p
      BY <1>1, <2>2 DEF Elems
    <3>2. CASE s < p
      <4>1. s \in DOMAIN b /\ b[s] = c[s]
        BY <1>1, <1>5, <1>6, <3>1, <3>2
      <4> QED BY <3>1, <4>1 DEF Elems
    <3>3. CASE s > p
      <4>1. s - 1 \in DOMAIN b /\ b[s - 1] = c[s]
        BY <1>1, <1>5, <1>6, <3>1, <3>3
      <4> QED BY <3>1, <4>1 DEF Elems
    <3> QED BY <1>1, <3>1, <3>2, <3>3
  <2> QED BY <2>1, <2>2
<1>9. \A e \in Elems(c) : e[1] = c[p][1] => e = c[p]
  BY DEF Elems, Unique
<1> QED BY <1>3, <1>7, <1>8, <1>9 DEF b

LEMMA TailLess ==
  ASSUME NEW c \in Seq(Node), c # <<>>
  PROVE  /\ Tail(c) \in Seq(Node) /\ Len(Tail(c)) = Len(c) - 1
         /\ Elems(Tail(c)) \subseteq Elems(c) /\ 1 \in DOMAIN c
         /\ Unique(c) => Unique(Tail(c)) /\ Elems(Tail(c)) = Elems(c) \ {c[1]}
<1> DEFINE b == Tail(c)
<1>1. b \in Seq(Node) /\ Len(b) = Len(c) - 1 /\ Len(c) \in Nat /\ Len(c) # 0
  OBVIOUS
<1>2. \A q \in 1 .. Len(c) - 1 : b[q] = c[q + 1]
  OBVIOUS
<1>3. DOMAIN b = 1 .. Len(c) - 1 /\ DOMAIN c = 1 .. Len(c)
  BY <1>1
<1> HIDE DEF b
<1>4. \A q \in DOMAIN b : q + 1 \in DOMAIN c /\ b[q] = c[q + 1] /\ q + 1 # 1
  BY <1>1, <1>2, <1>3
<1>5. \A q \in DOMAIN c \ {1} : q - 1 \in DOMAIN b /\ b[q - 1] = c[q]
  BY <1>1, <1>2, <1>3
<1>6. Elems(b) \subseteq Elems(c) /\ 1 \in DOMAIN c
  BY <1>1, <1>3, <1>4 DEF Elems
<1>7. ASSUME Unique(c) PROVE Unique(b) /\ Elems(b) = Elems(c) \ {c[1]}
  <2>1. Unique(b)
    <3> SUFFICES ASSUME NEW q \in DOMAIN b, NEW r \in DOMAIN b, b[q][1] = b[r][1] PROVE q = r
      BY DEF Unique
    <3>1. q + 1 = r + 1
      BY <1>4, <1>7 DEF Unique
    <3> QED BY <1>3, <3>1
  <2>2. \A e \in Elems(b) : e \in Elems(c) /\ e # c[1]
    BY <1>4, <1>6, <1>7 DEF Elems, Unique
  <2>3. \A e \in Elems(c) : e # c[1] => e \in Elems(b)
    BY <1>5 DEF Elems
  <2> QED BY <2>1, <2>2, <2>3
<1> QED BY <1>1, <1>6, <1>7 DEF b

-----------------------------------------------------------------------------
(* Tables: one chain of one object changes.                                *)
Chains == DOMAIN chain = Object /\ \A t \in Object : chain[t] \in [Buckets(t) -> Seq(Node)]
Sound(t) == \A i \in Buckets(t) : Unique(chain[t][i]) /\ Hashed(t, i, chain[t][i])
Same(u) == chain'[u] = chain[u]
Becomes(t, i, c) ==
  /\ Chains' /\ chain'[t][i] = c
  /\ \A j \in Buckets(t) \ {i} : chain'[t][j] = chain[t][j]
  /\ \A u \in Object \ {t} : Same(u)

LEMMA BucketOfName ==
  ASSUME NEW t \in Object, NEW n \in Name
  PROVE  iHashIndex(t, n) \in Buckets(t)
<1>1. \A h \in Nat, s \in Nat \ {0} : h % s \in 0 .. s - 1
  OBVIOUS
<1>2. Hash[n] \in Nat /\ HashSize[t] \in Nat \ {0}
  <2>1. Hash[n] \in 0 .. 2^16 - 1
    BY HashAssumption
  <2> QED BY <2>1, SizeAssumption
<1> QED BY <1>1, <1>2 DEF iHashIndex, Buckets

LEMMA EntriesAre ==
  ASSUME NEW t, NEW e
  PROVE  e \in Entries(t) <=> \E i \in Buckets(t) : e \in Elems(chain[t][i])
BY DEF Entries, Elems

LEMMA EntriesAreNodes ==
  ASSUME Chains, NEW t \in Object
  PROVE  Entries(t) \subseteq Node
<1> SUFFICES ASSUME NEW i \in Buckets(t), NEW p \in DOMAIN chain[t][i] PROVE chain[t][i][p] \in Node
  BY DEF Entries
<1>1. chain[t][i] \in Seq(Node)
  BY DEF Chains
<1> QED BY <1>1

LEMMA NodeParts ==
  ASSUME NEW e \in Node
  PROVE  e[1] \in Name /\ e[2] \in Data /\ e = <<e[1], e[2]>>
BY DEF Node

LEMMA Rebucket ==
  ASSUME Chains, NEW t \in Object, NEW i \in Buckets(t), NEW c \in Seq(Node),
         chain' = [chain EXCEPT ![t] = [chain[t] EXCEPT ![i] = c]]
  PROVE  Becomes(t, i, c)
<1> DEFINE b == [chain[t] EXCEPT ![i] = c]
<1>1. b \in [Buckets(t) -> Seq(Node)] /\ b[i] = c /\ \A j \in Buckets(t) \ {i} : b[j] = chain[t][j]
  BY DEF Chains
<1>2. chain' = [chain EXCEPT ![t] = b]
  OBVIOUS
<1> HIDE DEF b
<1>3. DOMAIN chain' = Object /\ chain'[t] = b /\ \A u \in Object \ {t} : chain'[u] = chain[u]
  BY <1>2 DEF Chains
<1> QED BY <1>1, <1>3 DEF Becomes, Chains, Same

LEMMA SameEntries ==
  ASSUME NEW u, Same(u)
  PROVE  Entries(u)' = Entries(u) /\ (Sound(u)' <=> Sound(u))
BY DEF Same, Entries, Sound

(* In a sound table a name is only in its own chain.                       *)
LEMMA OwnChain ==
  ASSUME NEW t, Sound(t), NEW e \in Entries(t), NEW i \in Buckets(t)
  PROVE  e \in Elems(chain[t][i]) <=> iHashIndex(t, e[1]) = i
<1>1. \A j \in Buckets(t) : e \in Elems(chain[t][j]) => iHashIndex(t, e[1]) = j
  BY DEF Sound, Hashed, Elems
<1>2. PICK j \in Buckets(t) : e \in Elems(chain[t][j])
  BY EntriesAre
<1> QED BY <1>1, <1>2

LEMMA OncePerTable ==
  ASSUME NEW t, Sound(t), NEW e \in Entries(t), NEW f \in Entries(t), e[1] = f[1]
  PROVE  e = f
<1>1. PICK j \in Buckets(t) : e \in Elems(chain[t][j])
  BY EntriesAre
<1>2. f \in Elems(chain[t][j])
  BY <1>1, OwnChain
<1> QED BY <1>1, <1>2 DEF Sound, Unique, Elems

LEMMA SoundBecomes ==
  ASSUME NEW t \in Object, NEW i \in Buckets(t), NEW c, Becomes(t, i, c),
         Sound(t), Unique(c), Hashed(t, i, c)
  PROVE  Sound(t)' /\ Entries(t)' = (Entries(t) \ Elems(chain[t][i])) \cup Elems(c)
<1>1. \A j \in Buckets(t) : chain'[t][j] = IF j = i THEN c ELSE chain[t][j]
  BY DEF Becomes
<1>2. Sound(t)'
  BY <1>1 DEF Sound
<1>3. ASSUME NEW e
      PROVE  e \in Entries(t)' <=> e \in (Entries(t) \ Elems(chain[t][i])) \cup Elems(c)
  <2>1. e \in Entries(t)' <=> \E j \in Buckets(t) : e \in Elems(chain'[t][j])
    BY DEF Entries, Elems
  <2>2. e \in Entries(t)' <=> e \in Elems(c) \/ \E j \in Buckets(t) \ {i} : e \in Elems(chain[t][j])
    BY <1>1, <2>1
  <2>3. (\E j \in Buckets(t) \ {i} : e \in Elems(chain[t][j])) <=> e \in Entries(t) \ Elems(chain[t][i])
    BY EntriesAre, OwnChain
  <2> QED BY <2>2, <2>3
<1> QED BY <1>2, <1>3

(* What Put does to a sound table.                                         *)
Set(m, n, d) == {e \in m : e[1] # n} \cup {<<n, d>>}

LEMMA PutResult ==
  ASSUME Chains, NEW t \in Object, Sound(t), NEW n \in Name, NEW d \in Data, Put(t, n, d)
  PROVE  /\ Chains' /\ Sound(t)' /\ Entries(t)' = Set(Entries(t), n, d)
         /\ \A u \in Object \ {t} : Same(u)
         /\ (\A e \in Entries(t) : e[1] # n) => count' = [count EXCEPT ![t] = @ + 1]
         /\ (\E e \in Entries(t) : e[1] = n) => count' = count
<1> DEFINE i == iHashIndex(t, n)
           c == chain[t][i]
           x == <<n, d>>
<1>1. i \in Buckets(t)
  BY BucketOfName
<1>2. c \in Seq(Node) /\ Unique(c) /\ Hashed(t, i, c) /\ x \in Node /\ x[1] = n
  BY <1>1 DEF Chains, Sound, Node
<1>3. \A e \in Entries(t) : e[1] = n => e \in Elems(c)
  BY <1>1, OwnChain
<1>4. Elems(c) \subseteq Entries(t)
  BY <1>1, EntriesAre
<1>5. CASE Insert(t, n, d)
  <2>1. \A e \in Elems(c) : e[1] # n
    BY <1>5 DEF Insert, Places, Elems
  <2>2. chain' = [chain EXCEPT ![t] = [chain[t] EXCEPT ![i] = <<x>> \o c]]
    BY <1>5 DEF Insert
  <2> DEFINE b == <<x>> \o c
  <2> HIDE DEF i, c, x
  <2>3. b \in Seq(Node) /\ Unique(b) /\ Elems(b) = Elems(c) \cup {x}
    BY <1>2, <2>1, Prepended
  <2>4. chain' = [chain EXCEPT ![t] = [chain[t] EXCEPT ![i] = b]]
    BY <2>2
  <2> HIDE DEF b
  <2>5. Becomes(t, i, b)
    BY <1>1, <2>3, <2>4, Rebucket
  <2>6. Hashed(t, i, b)
    <3> SUFFICES ASSUME NEW p \in DOMAIN b PROVE iHashIndex(t, b[p][1]) = i
      BY DEF Hashed
    <3>1. b[p] \in Elems(c) \cup {x}
      BY <2>3 DEF Elems
    <3>2. CASE b[p] = x
      BY <1>2, <3>2 DEF i
    <3>3. CASE b[p] \in Elems(c)
      BY <1>2, <3>3 DEF Hashed, Elems
    <3> QED BY <3>1, <3>2, <3>3
  <2>7. Sound(t)' /\ Entries(t)' = (Entries(t) \ Elems(c)) \cup Elems(b)
    BY <1>1, <2>3, <2>5, <2>6, SoundBecomes DEF c
  <2>8. \A e \in Entries(t) : e[1] # n
    BY <1>3, <2>1
  <2>9. Entries(t)' = Set(Entries(t), n, d)
    BY <1>4, <2>3, <2>7, <2>8 DEF Set, x
  <2>10. count' = [count EXCEPT ![t] = @ + 1]
    BY <1>5 DEF Insert
  <2> QED BY <2>5, <2>7, <2>8, <2>9, <2>10 DEF Becomes
<1>6. CASE Replace(t, n, d)
  <2>1. PICK p \in DOMAIN c : c[p][1] = n
    BY <1>6 DEF Replace, Places
  <2>2. Found(c, n) = p
    BY <1>2, <2>1, FoundIsPlace
  <2> DEFINE b == [c EXCEPT ![p] = x]
  <2>3. chain' = [chain EXCEPT ![t] = [chain[t] EXCEPT ![i] = [c EXCEPT ![Found(c, n)] = x]]]
    BY <1>6 DEF Replace
  <2>4. chain' = [chain EXCEPT ![t] = [chain[t] EXCEPT ![i] = b]]
    BY <2>2, <2>3
  <2> HIDE DEF i, c, x
  <2>5. /\ b \in Seq(Node) /\ Unique(b) /\ Elems(b) = {e \in Elems(c) : e[1] # n} \cup {x}
        /\ DOMAIN b = DOMAIN c
    <3>1. c[p][1] = x[1]
      BY <1>2, <2>1
    <3>2. /\ b \in Seq(Node) /\ Unique(b) /\ DOMAIN b = DOMAIN c
          /\ Elems(b) = {e \in Elems(c) : e[1] # x[1]} \cup {x}
      BY <1>2, <3>1, Exchanged
    <3> QED BY <1>2, <3>2
  <2> HIDE DEF b
  <2>6. Becomes(t, i, b)
    BY <1>1, <2>4, <2>5, Rebucket
  <2>7. Hashed(t, i, b)
    <3> SUFFICES ASSUME NEW q \in DOMAIN b PROVE iHashIndex(t, b[q][1]) = i
      BY DEF Hashed
    <3>1. b[q] \in Elems(c) \/ b[q] = x
      BY <2>5 DEF Elems
    <3>2. CASE b[q] = x
      BY <1>2, <3>2 DEF i
    <3>3. CASE b[q] \in Elems(c)
      BY <1>2, <3>3 DEF Hashed, Elems
    <3> QED BY <3>1, <3>2, <3>3
  <2>8. Sound(t)' /\ Entries(t)' = (Entries(t) \ Elems(c)) \cup Elems(b)
    BY <1>1, <2>5, <2>6, <2>7, SoundBecomes DEF c
  <2>9. \E e \in Entries(t) : e[1] = n
    BY <1>4, <2>1 DEF Elems
  <2>10. Entries(t)' = Set(Entries(t), n, d)
    BY <1>3, <1>4, <2>5, <2>8 DEF Set, x
  <2>11. count' = count
    BY <1>6 DEF Replace
  <2> QED BY <2>6, <2>8, <2>9, <2>10, <2>11 DEF Becomes
<1> QED BY <1>5, <1>6 DEF Put


LEMMA UnSetResult ==
  ASSUME Chains, NEW t \in Table, Sound(t), NEW n \in Name, imAttribTableUnSet(t, n)
  PROVE  /\ Chains' /\ Sound(t)' /\ \A u \in Object \ {t} : Same(u)
         /\ \E e \in Entries(t) : e[1] = n /\ Entries(t)' = Entries(t) \ {e}
         /\ Entries(t)' = {e \in Entries(t) : e[1] # n}
         /\ count' = [count EXCEPT ![t] = @ - 1]
<1> DEFINE i == iHashIndex(t, n)
           c == chain[t][i]
<1>1. i \in Buckets(t) /\ t \in Object
  BY BucketOfName DEF Object
<1>2. c \in Seq(Node) /\ Unique(c) /\ Hashed(t, i, c)
  BY <1>1 DEF Chains, Sound
<1>3. PICK p \in DOMAIN c : c[p][1] = n
  BY DEF imAttribTableUnSet, Places
<1>4. Found(c, n) = p
  BY <1>2, <1>3, FoundIsPlace
<1> DEFINE b == Without(c, p)
<1>5. chain' = [chain EXCEPT ![t] = [chain[t] EXCEPT ![i] = Without(c, Found(c, n))]]
  BY DEF imAttribTableUnSet
<1>6. chain' = [chain EXCEPT ![t] = [chain[t] EXCEPT ![i] = b]]
  BY <1>4, <1>5
<1> HIDE DEF i, c
<1>7. b \in Seq(Node) /\ Unique(b) /\ Elems(b) = Elems(c) \ {c[p]}
  BY <1>2, <1>3, WithoutOne
<1> HIDE DEF b
<1>8. Becomes(t, i, b)
  BY <1>1, <1>6, <1>7, Rebucket
<1>9. Hashed(t, i, b)
  <2> SUFFICES ASSUME NEW q \in DOMAIN b PROVE iHashIndex(t, b[q][1]) = i
    BY DEF Hashed
  <2>1. b[q] \in Elems(c)
    BY <1>7 DEF Elems
  <2> QED BY <1>2, <2>1 DEF Hashed, Elems
<1>10. Sound(t)' /\ Entries(t)' = (Entries(t) \ Elems(c)) \cup Elems(b)
  BY <1>1, <1>7, <1>8, <1>9, SoundBecomes DEF c
<1>11. c[p] \in Entries(t) /\ Elems(c) \subseteq Entries(t) /\ c[p] \in Elems(c)
  BY <1>1, <1>3, EntriesAre DEF c, Elems
<1>12. Entries(t)' = Entries(t) \ {c[p]}
  BY <1>7, <1>10, <1>11
<1>13. Entries(t)' = {e \in Entries(t) : e[1] # n}
  <2>1. \A e \in Entries(t) : e[1] = n => e = c[p]
    BY <1>3, <1>11, OncePerTable
  <2> HIDE DEF c
  <2> QED BY <1>3, <1>12, <2>1
<1>14. count' = [count EXCEPT ![t] = @ - 1]
  BY DEF imAttribTableUnSet
<1> QED BY <1>3, <1>8, <1>10, <1>11, <1>12, <1>13, <1>14 DEF Becomes

(* imAttribTableGet gives what the table says of the name.                 *)
LEMMA GotIsEntry ==
  ASSUME Chains, NEW t \in Object, Sound(t), NEW n \in Name, count[t] = 0 => Entries(t) = {}
  PROVE  Got(t, n) = {e \in Entries(t) : e[1] = n}
<1> DEFINE i == iHashIndex(t, n)
           c == chain[t][i]
<1>1. i \in Buckets(t)
  BY BucketOfName
<1>2. c \in Seq(Node) /\ Unique(c)
  BY <1>1 DEF Chains, Sound
<1>3. \A e \in Entries(t) : e[1] = n => e \in Elems(c)
  BY <1>1, OwnChain
<1>4. Elems(c) \subseteq Entries(t)
  BY <1>1, EntriesAre
<1>5. Got(t, n) = IF count[t] = 0 \/ Places(c, n) = {} THEN {} ELSE {c[Found(c, n)]}
  BY DEF Got
<1> HIDE DEF i, c
<1>6. CASE Places(c, n) = {}
  BY <1>3, <1>5, <1>6 DEF Places, Elems
<1>7. CASE Places(c, n) # {}
  <2>1. PICK p \in DOMAIN c : c[p][1] = n
    BY <1>7 DEF Places
  <2>2. Found(c, n) = p
    BY <1>2, <2>1, FoundIsPlace
  <2>3. c[p] \in Entries(t)
    BY <1>4, <2>1 DEF Elems
  <2>4. {e \in Entries(t) : e[1] = n} = {c[p]}
    BY <2>1, <2>3, OncePerTable
  <2> QED BY <1>5, <1>7, <2>2, <2>3, <2>4
<1> QED BY <1>6, <1>7

(* How many: Put adds one unless the name is there.                        *)
LEMMA OneMore ==
  ASSUME NEW S, NEW x, IsFiniteSet(S), x \notin S
  PROVE  IsFiniteSet(S \cup {x}) /\ Cardinality(S \cup {x}) = Cardinality(S) + 1
         /\ Cardinality(S) \in Nat
BY FS_AddElement, FS_CardinalityType

LEMMA OneLess ==
  ASSUME NEW S, NEW x \in S, IsFiniteSet(S)
  PROVE  IsFiniteSet(S \ {x}) /\ Cardinality(S \ {x}) = Cardinality(S) - 1
         /\ Cardinality(S) \in Nat /\ Cardinality(S \ {x}) \in Nat
<1>1. IsFiniteSet(S \ {x}) /\ Cardinality(S \ {x}) = Cardinality(S) - 1
  BY FS_RemoveElement
<1> QED BY <1>1, FS_CardinalityType

LEMMA SetCounts ==
  ASSUME NEW S, IsFiniteSet(S), NEW n, NEW d, \A e, f \in S : e[1] = f[1] => e = f
  PROVE  /\ IsFiniteSet(Set(S, n, d)) /\ Cardinality(S) \in Nat
         /\ (\A e \in S : e[1] # n) => Cardinality(Set(S, n, d)) = Cardinality(S) + 1
         /\ (\E e \in S : e[1] = n) => Cardinality(Set(S, n, d)) = Cardinality(S)
<1> DEFINE x == <<n, d>>
<1>0. x[1] = n
  OBVIOUS
<1> HIDE DEF x
<1>1. CASE \A e \in S : e[1] # n
  <2>1. Set(S, n, d) = S \cup {x} /\ x \notin S
    BY <1>0, <1>1 DEF Set, x
  <2> QED BY <1>1, <2>1, OneMore
<1>2. CASE \E e \in S : e[1] = n
  <2>1. PICK e \in S : e[1] = n
    BY <1>2
  <2> DEFINE T == S \ {e}
  <2>2. IsFiniteSet(T) /\ Cardinality(T) = Cardinality(S) - 1 /\ Cardinality(S) \in Nat
    BY <2>1, OneLess
  <2>3. Set(S, n, d) = T \cup {x} /\ x \notin T
    BY <1>0, <2>1 DEF Set, x
  <2> HIDE DEF T
  <2>4. IsFiniteSet(T \cup {x}) /\ Cardinality(T \cup {x}) = Cardinality(T) + 1
    BY <2>2, <2>3, OneMore
  <2> QED BY <1>2, <2>2, <2>3, <2>4
<1> QED BY <1>1, <1>2


-----------------------------------------------------------------------------
(* The tables: sound, and counted but for what a removal has taken away.   *)
Gone(t) == IF Removing /\ loop.over = t THEN loop.n ELSE 0

TableInv ==
  \A t \in Table : /\ Sound(t) /\ IsFiniteSet(Entries(t))
                   /\ count[t] = Cardinality(Entries(t)) + Gone(t)

(* The arrays: one node at each place at most, and all places or none.     *)
ArrayInv ==
  \A t \in Array : /\ count[t] \in {0, HashSize[t]}
                   /\ \A i \in Buckets(t) : Len(chain[t][i]) <= 1

EmptyInv ==
  \A t \in Object : /\ t \notin alive => count[t] = 0
                    /\ count[t] = 0 => Entries(t) = {}

(* Which objects a loop is over and acts on.                               *)
LoopInv ==
  loop # Idle =>
    /\ loop \in LoopType /\ loop.i \in Buckets(loop.over)
    /\ {loop.over, loop.on} \subseteq alive /\ count[loop.over] # 0
    /\ loop.kind \in {"remove", "destroy", "tell"} => loop.on = loop.over
    /\ loop.kind \in {"tell", "copy", "merge"} => {loop.over, loop.on} \subseteq Table
    /\ loop.kind = "array" => {loop.over, loop.on} \subseteq Array
    /\ loop.kind \in {"copy", "merge", "array"} => loop.on # loop.over

(* A removal leaves nothing behind it, and in an array finds at most one   *)
(* node at a place: so it does not meet them all before the last place.    *)
RemoveInv ==
  Removing =>
    /\ \A j \in Buckets(loop.over) : j < loop.i => chain[loop.over][j] = <<>>
    /\ loop.over \in Array => loop.n <= loop.i + (IF Here = <<>> THEN 1 ELSE 0)

(* A visit has met what is before its place.                               *)
Met(t, i, p) ==
  {e \in Entries(t) : \E j \in Buckets(t) : \E q \in DOMAIN chain[t][j] :
                        e = chain[t][j][q] /\ (j < i \/ (j = i /\ q < p))}

VisitInv ==
  Visiting =>
    /\ loop.p <= Len(Here) + 1
    /\ loop.seen = Met(loop.over, loop.i, loop.p)
    /\ loop.over \in Table => IsFiniteSet(loop.seen) /\ loop.n = Cardinality(loop.seen)
    /\ loop.over \in Array => loop.n <= loop.i + loop.p - 1

(* What a copy or a merge has made of its table so far.                    *)
CopyInv ==
  /\ loop.kind = "tell" => loop.before = Entries(loop.on)
  /\ loop.kind = "copy" => Entries(loop.on) = Map!Overlay(loop.before, loop.seen)
  /\ loop.kind = "merge" => Entries(loop.on) = Map!Overlay(loop.seen, loop.before)

(* Where no place is empty the calls number the places.                    *)
Full(s) == \A i \in Buckets(s) : chain[s][i] # <<>>
FullInv ==
  loop.kind = "array" /\ Full(loop.over) =>
    /\ loop.n = loop.i + loop.p - 1
    /\ count[loop.on] >= HashSize[loop.over] =>
         \A j \in Buckets(loop.over) : j < loop.n => chain[loop.on][j] = chain[loop.over][j]

DataInv ==
  /\ Chains /\ alive \subseteq Object /\ count \in [Object -> Nat]
  /\ TableInv /\ ArrayInv /\ EmptyInv

-----------------------------------------------------------------------------
(* The data, step by step.                                                 *)
LEMMA TableParts ==
  ASSUME DataInv, NEW t \in Table
  PROVE  /\ t \in Object /\ Sound(t) /\ IsFiniteSet(Entries(t)) /\ Entries(t) \subseteq Node
         /\ Cardinality(Entries(t)) \in Nat /\ count[t] \in Nat
         /\ count[t] = Cardinality(Entries(t)) + Gone(t)
         /\ count[t] = 0 => Entries(t) = {}
         /\ \A e, f \in Entries(t) : e[1] = f[1] => e = f
<1>1. t \in Object /\ Sound(t) /\ IsFiniteSet(Entries(t)) /\ count[t] = Cardinality(Entries(t)) + Gone(t)
  BY DEF DataInv, TableInv, Object
<1>2. Entries(t) \subseteq Node
  BY <1>1, EntriesAreNodes DEF DataInv
<1>3. Cardinality(Entries(t)) \in Nat /\ count[t] \in Nat
  BY <1>1, FS_CardinalityType DEF DataInv
<1>4. \A e, f \in Entries(t) : e[1] = f[1] => e = f
  BY <1>1, OncePerTable
<1>5. count[t] = 0 => Entries(t) = {}
  BY <1>1 DEF DataInv, EmptyInv
<1> QED BY <1>1, <1>2, <1>3, <1>4, <1>5

LEMMA ArrayParts ==
  ASSUME DataInv, NEW t \in Array
  PROVE  /\ t \in Object /\ t \notin Table /\ count[t] \in {0, HashSize[t]}
         /\ HashSize[t] \in Nat \ {0} /\ count[t] \in Nat
         /\ \A i \in Buckets(t) : chain[t][i] \in Seq(Node) /\ Len(chain[t][i]) \in {0, 1}
<1>1. t \in Object /\ t \notin Table
  BY ObjectAssumption DEF Object
<1>2. ASSUME NEW i \in Buckets(t) PROVE chain[t][i] \in Seq(Node) /\ Len(chain[t][i]) \in {0, 1}
  <2>1. chain[t][i] \in Seq(Node) /\ Len(chain[t][i]) <= 1
    BY <1>1 DEF DataInv, Chains, ArrayInv
  <2>2. PICK l \in Nat : l = Len(chain[t][i])
    BY <2>1
  <2>3. l <= 1
    BY <2>1, <2>2
  <2>4. l \in {0, 1}
    BY <2>3
  <2> QED BY <2>1, <2>2, <2>4
<1>3. count[t] \in {0, HashSize[t]} /\ count[t] \in Nat
  BY <1>1 DEF DataInv, ArrayInv
<1>4. HashSize[t] \in Nat \ {0}
  BY <1>1, SizeAssumption
<1> QED BY <1>1, <1>2, <1>3, <1>4

LEMMA DataInit == Init => DataInv
<1> SUFFICES ASSUME Init PROVE DataInv
  OBVIOUS
<1>1. \A t \in Object : chain[t] = Empty(t) /\ count[t] = 0
  BY DEF Init
<1>2. \A t \in Object : \A i \in Buckets(t) : chain[t][i] = <<>>
  BY <1>1 DEF Empty
<1>3. Chains /\ alive \subseteq Object /\ count \in [Object -> Nat]
  BY DEF Init, Chains, Empty
<1>4. \A t \in Object : Entries(t) = {}
  BY <1>2 DEF Entries
<1>5. IsFiniteSet({}) /\ Cardinality({}) = 0
  BY FS_EmptySet
<1>6. \A t \in Table : Gone(t) = 0
  BY DEF Init, Gone, Removing, Idle
<1>7. \A t \in Table : Sound(t)
  BY <1>2 DEF Sound, Unique, Hashed, Object
<1>8. TableInv
  BY <1>1, <1>4, <1>5, <1>6, <1>7 DEF TableInv, Object
<1>9. ArrayInv
  BY <1>1, <1>2 DEF ArrayInv, Object
<1>10. EmptyInv
  BY <1>1, <1>4 DEF EmptyInv
<1> QED BY <1>3, <1>8, <1>9, <1>10 DEF DataInv

LEMMA DataSame ==
  ASSUME DataInv, chain' = chain, count' = count, alive' = alive, \A t \in Table : Gone(t)' = Gone(t)
  PROVE  DataInv'
<1>1. Chains' /\ alive' \subseteq Object /\ count' \in [Object -> Nat]
  BY DEF DataInv, Chains
<1>2. \A t : Entries(t)' = Entries(t) /\ (Sound(t)' <=> Sound(t))
  BY DEF Entries, Sound
<1>3. TableInv'
  BY <1>2 DEF DataInv, TableInv
<1>4. ArrayInv' /\ EmptyInv'
  BY <1>2 DEF DataInv, ArrayInv, EmptyInv
<1> QED BY <1>1, <1>3, <1>4 DEF DataInv

(* One object changes: what has to be shown of it, and nothing of others.  *)
LEMMA DataOne ==
  ASSUME DataInv, NEW t \in Object, Chains', count' \in [Object -> Nat],
         \A u \in Object \ {t} : Same(u) /\ count'[u] = count[u] /\ (u \in alive' <=> u \in alive),
         \A u \in Table \ {t} : Gone(u)' = Gone(u), alive' \subseteq Object,
         t \in Table => /\ Sound(t)' /\ IsFiniteSet(Entries(t)')
                        /\ count'[t] = Cardinality(Entries(t)') + Gone(t)',
         t \in Array => /\ count'[t] \in {0, HashSize[t]}
                        /\ \A i \in Buckets(t) : Len(chain'[t][i]) <= 1,
         t \notin alive' => count'[t] = 0,
         count'[t] = 0 => Entries(t)' = {}
  PROVE  DataInv'
<1>1. \A u \in Object \ {t} : Entries(u)' = Entries(u) /\ (Sound(u)' <=> Sound(u)) /\ chain'[u] = chain[u]
  BY SameEntries DEF Same
<1>2. TableInv'
  <2> SUFFICES ASSUME NEW u \in Table
               PROVE  Sound(u)' /\ IsFiniteSet(Entries(u)') /\ count'[u] = Cardinality(Entries(u)') + Gone(u)'
    BY DEF TableInv
  <2>1. CASE u = t
    BY <2>1
  <2>2. CASE u # t
    <3>1. u \in Object \ {t}
      BY <2>2 DEF Object
    <3>2. Sound(u) /\ IsFiniteSet(Entries(u)) /\ count[u] = Cardinality(Entries(u)) + Gone(u)
      BY TableParts
    <3>3. Gone(u)' = Gone(u) /\ Entries(u)' = Entries(u) /\ Sound(u)' /\ count'[u] = count[u]
      BY <1>1, <2>2, <3>1, <3>2
    <3> QED BY <3>2, <3>3
  <2> QED BY <2>1, <2>2
<1>3. ArrayInv'
  BY <1>1 DEF ArrayInv, DataInv, Object
<1>4. EmptyInv'
  BY <1>1 DEF EmptyInv, DataInv
<1> QED BY <1>2, <1>3, <1>4 DEF DataInv


LEMMA DataPut ==
  ASSUME DataInv, NEW t \in alive \cap Table, NEW n \in Name, NEW d \in Data, Put(t, n, d),
         alive' = alive, \A u \in Table : Gone(u) = 0 /\ Gone(u)' = 0
  PROVE  DataInv'
<1>1. t \in Object /\ Sound(t) /\ IsFiniteSet(Entries(t)) /\ count[t] = Cardinality(Entries(t))
      /\ Cardinality(Entries(t)) \in Nat /\ \A e, f \in Entries(t) : e[1] = f[1] => e = f
  <2>1. count[t] = Cardinality(Entries(t)) + 0 /\ Cardinality(Entries(t)) \in Nat
    BY TableParts
  <2> QED BY <2>1, TableParts
<1>2. /\ Chains' /\ Sound(t)' /\ Entries(t)' = Set(Entries(t), n, d)
      /\ \A u \in Object \ {t} : Same(u)
      /\ (\A e \in Entries(t) : e[1] # n) => count' = [count EXCEPT ![t] = @ + 1]
      /\ (\E e \in Entries(t) : e[1] = n) => count' = count
  BY <1>1, PutResult DEF DataInv
<1>3. /\ IsFiniteSet(Entries(t)')
      /\ (\A e \in Entries(t) : e[1] # n) => Cardinality(Entries(t)') = Cardinality(Entries(t)) + 1
      /\ (\E e \in Entries(t) : e[1] = n) => Cardinality(Entries(t)') = Cardinality(Entries(t))
  BY <1>1, <1>2, SetCounts
<1>4. count \in [Object -> Nat]
  BY DEF DataInv
<1>5. count' \in [Object -> Nat] /\ \A u \in Object \ {t} : count'[u] = count[u]
  BY <1>1, <1>2, <1>4
<1>6. count'[t] = Cardinality(Entries(t)') /\ Cardinality(Entries(t)') \in Nat
  <2>1. CASE \A e \in Entries(t) : e[1] # n
    BY <1>1, <1>2, <1>3, <1>4, <2>1
  <2>2. CASE \E e \in Entries(t) : e[1] = n
    BY <1>1, <1>2, <1>3, <1>4, <2>2
  <2> QED BY <2>1, <2>2
<1>7. Entries(t)' # {} /\ (Cardinality(Entries(t)') = 0 => Entries(t)' = {})
  BY <1>2, <1>3, FS_EmptySet DEF Set
<1>8. t \in alive' /\ alive' \subseteq Object /\ t \notin Array
  BY ObjectAssumption DEF DataInv
<1>9. count'[t] = Cardinality(Entries(t)') + Gone(t)'
  BY <1>6
<1> QED BY <1>1, <1>2, <1>3, <1>5, <1>6, <1>7, <1>8, <1>9, DataOne

LEMMA DataUnSet ==
  ASSUME DataInv, NEW t \in Table, NEW n \in Name, imAttribTableUnSet(t, n)
  PROVE  DataInv'
<1>0. loop = Idle /\ loop' = Idle /\ alive' = alive /\ t \in alive
  BY DEF imAttribTableUnSet
<1>1. \A u \in Table : Gone(u) = 0 /\ Gone(u)' = 0
  BY <1>0 DEF Gone, Removing, Idle
<1>2. t \in Object /\ Sound(t) /\ IsFiniteSet(Entries(t)) /\ count[t] = Cardinality(Entries(t))
      /\ Cardinality(Entries(t)) \in Nat
  <2>1. count[t] = Cardinality(Entries(t)) + 0 /\ Cardinality(Entries(t)) \in Nat
    BY <1>1, TableParts
  <2> QED BY <2>1, TableParts
<1>3. /\ Chains' /\ Sound(t)' /\ \A u \in Object \ {t} : Same(u)
      /\ count' = [count EXCEPT ![t] = @ - 1]
  BY <1>2, UnSetResult DEF DataInv
<1>4. PICK e \in Entries(t) : Entries(t)' = Entries(t) \ {e}
  BY <1>2, UnSetResult DEF DataInv
<1>5. IsFiniteSet(Entries(t)') /\ Cardinality(Entries(t)') = Cardinality(Entries(t)) - 1
      /\ Cardinality(Entries(t)') \in Nat
  BY <1>2, <1>4, OneLess
<1>6. count \in [Object -> Nat]
  BY DEF DataInv
<1>7. count' \in [Object -> Nat] /\ (\A u \in Object \ {t} : count'[u] = count[u])
      /\ count'[t] = Cardinality(Entries(t)')
  BY <1>2, <1>3, <1>5, <1>6
<1>8. count'[t] = 0 => Entries(t)' = {}
  BY <1>5, <1>7, FS_EmptySet
<1>9. t \in alive' /\ alive' \subseteq Object /\ t \notin Array
  BY <1>0, ObjectAssumption DEF DataInv
<1>10. count'[t] = Cardinality(Entries(t)') + Gone(t)'
  BY <1>1, <1>5, <1>7
<1> QED BY <1>0, <1>1, <1>2, <1>3, <1>5, <1>7, <1>8, <1>9, <1>10, DataOne

LEMMA PutAtResult ==
  ASSUME DataInv, NEW t \in Array, NEW i \in Nat, NEW x \in Node, PutAt(t, i, x)
  PROVE  /\ i < count[t] => i \in Buckets(t) /\ count[t] = HashSize[t] /\ Becomes(t, i, <<x>>)
         /\ ~(i < count[t]) => chain' = chain
<1>1. /\ t \in Object /\ count[t] \in {0, HashSize[t]} /\ HashSize[t] \in Nat \ {0}
  BY ArrayParts
<1>2. CASE i < count[t]
  <2>1. count[t] = HashSize[t] /\ i \in Buckets(t)
    BY <1>1, <1>2 DEF Buckets
  <2>2. chain' = [chain EXCEPT ![t] = [chain[t] EXCEPT ![i] = <<x>>]]
    BY <1>2 DEF PutAt
  <2> DEFINE c == <<x>>
  <2>3. c \in Seq(Node) /\ chain' = [chain EXCEPT ![t] = [chain[t] EXCEPT ![i] = c]]
    BY <2>2
  <2> HIDE DEF c
  <2>4. Becomes(t, i, c)
    BY <1>1, <2>1, <2>3, Rebucket DEF DataInv
  <2> QED BY <1>2, <2>1, <2>4 DEF c
<1>3. CASE ~(i < count[t])
  BY <1>3 DEF PutAt
<1> QED BY <1>2, <1>3

LEMMA DataPutAt ==
  ASSUME DataInv, NEW t \in alive \cap Array, NEW i \in Nat, NEW x \in Node, PutAt(t, i, x),
         alive' = alive, count' = count, \A u \in Table : Gone(u)' = Gone(u)
  PROVE  DataInv'
<1>1. CASE ~(i < count[t])
  BY <1>1, PutAtResult, DataSame
<1>2. CASE i < count[t]
  <2>1. i \in Buckets(t) /\ count[t] = HashSize[t] /\ Becomes(t, i, <<x>>)
    BY <1>2, PutAtResult
  <2>2. /\ t \in Object /\ t \notin Table /\ HashSize[t] \in Nat \ {0}
        /\ \A j \in Buckets(t) : Len(chain[t][j]) \in {0, 1}
    BY ArrayParts
  <2>3. Len(<<x>>) = 1
    OBVIOUS
  <2>4. ASSUME NEW j \in Buckets(t) PROVE Len(chain'[t][j]) <= 1
    <3>1. CASE j = i
      <4>1. chain'[t][j] = <<x>>
        BY <2>1, <3>1 DEF Becomes
      <4> QED BY <2>3, <4>1
    <3>2. CASE j # i
      <4>1. chain'[t][j] = chain[t][j]
        BY <2>1, <3>2 DEF Becomes
      <4>2. Len(chain[t][j]) <= 1
        BY DEF DataInv, ArrayInv
      <4> QED BY <4>1, <4>2
    <3> QED BY <3>1, <3>2
  <2>5. Chains' /\ \A u \in Object \ {t} : Same(u)
    BY <2>1 DEF Becomes
  <2>6. count' \in [Object -> Nat] /\ alive' \subseteq Object /\ t \in alive' /\ count'[t] # 0
        /\ count'[t] \in {0, HashSize[t]}
    BY <2>1, <2>2 DEF DataInv
  <2> QED BY <2>2, <2>4, <2>5, <2>6, DataOne
<1> QED BY <1>1, <1>2

LEMMA DataCreate ==
  ASSUME DataInv, NEW t \in Object, Create(t)
  PROVE  DataInv' /\ Entries(t)' = {} /\ \A u \in Object \ {t} : Same(u)
<1>1. /\ loop = Idle /\ loop' = Idle /\ alive' = alive \cup {t}
      /\ chain' = [chain EXCEPT ![t] = Empty(t)]
      /\ count' = [count EXCEPT ![t] = IF t \in Array THEN HashSize[t] ELSE 0]
  BY DEF Create
<1>2. Empty(t) \in [Buckets(t) -> Seq(Node)] /\ \A i \in Buckets(t) : Empty(t)[i] = <<>>
  BY DEF Empty
<1>3. chain'[t] = Empty(t) /\ Chains' /\ \A u \in Object \ {t} : Same(u)
  BY <1>1, <1>2 DEF Chains, DataInv, Same
<1>4. \A u \in Table : Gone(u) = 0 /\ Gone(u)' = 0
  BY <1>1 DEF Gone, Removing, Idle
<1>5. \A i \in Buckets(t) : chain'[t][i] = <<>>
  BY <1>2, <1>3
<1>6. Entries(t)' = {}
  BY <1>5 DEF Entries
<1>7. IsFiniteSet({}) /\ Cardinality({}) = 0
  BY FS_EmptySet
<1>8. Sound(t)' /\ \A i \in Buckets(t) : Len(chain'[t][i]) <= 1
  BY <1>5 DEF Sound, Unique, Hashed
<1>9. HashSize[t] \in Nat \ {0}
  BY SizeAssumption
<1>10. /\ count' \in [Object -> Nat] /\ \A u \in Object \ {t} : count'[u] = count[u]
       /\ t \in Array => count'[t] = HashSize[t]
       /\ t \notin Array => count'[t] = 0
  BY <1>1, <1>9 DEF DataInv
<1>11. t \in Table => t \notin Array
  BY ObjectAssumption
<1>12. alive' \subseteq Object /\ t \in alive' /\ \A u \in Object \ {t} : u \in alive' <=> u \in alive
  BY <1>1 DEF DataInv
<1>13. t \in Table => count'[t] = Cardinality(Entries(t)') + Gone(t)'
  BY <1>4, <1>6, <1>7, <1>10, <1>11
<1>14. DataInv'
  BY <1>3, <1>4, <1>6, <1>7, <1>8, <1>10, <1>11, <1>12, <1>13, DataOne
<1> QED BY <1>3, <1>6, <1>14

LEMMA DataDestroyEmpty ==
  ASSUME DataInv, NEW t \in Object, Destroy(t), count[t] = 0
  PROVE  DataInv' /\ loop' = Idle /\ alive' = alive \ {t} /\ Entries(t) = {}
         /\ chain' = chain /\ count' = count
<1>1. loop = Idle /\ loop' = Idle /\ alive' = alive \ {t} /\ chain' = chain /\ count' = count
  BY DEF Destroy
<1>2. \A u \in Table : Gone(u)' = Gone(u)
  BY <1>1 DEF Gone, Removing
<1>3. \A u : Entries(u)' = Entries(u) /\ (Sound(u)' <=> Sound(u))
  BY <1>1 DEF Entries, Sound
<1>4. TableInv' /\ ArrayInv'
  BY <1>1, <1>2, <1>3 DEF TableInv, ArrayInv, DataInv
<1>5. EmptyInv'
  BY <1>1, <1>3 DEF EmptyInv, DataInv
<1>6. Chains' /\ alive' \subseteq Object /\ count' \in [Object -> Nat]
  BY <1>1 DEF DataInv, Chains
<1>7. Entries(t) = {}
  BY DEF DataInv, EmptyInv
<1> QED BY <1>1, <1>4, <1>5, <1>6, <1>7 DEF DataInv


-----------------------------------------------------------------------------
(* Loops: what they are over, and how a step moves them.                   *)
LEMMA LoopParts ==
  ASSUME LoopInv, loop # Idle
  PROVE  /\ loop \in LoopType /\ loop.over \in Object /\ loop.on \in Object
         /\ loop.i \in Buckets(loop.over) /\ loop.i \in Nat /\ loop.p \in Nat \ {0} /\ loop.n \in Nat
         /\ loop.over \in alive /\ loop.on \in alive /\ count[loop.over] # 0
         /\ HashSize[loop.over] \in Nat \ {0} /\ loop.i < HashSize[loop.over]
<1>1. loop \in LoopType /\ loop.i \in Buckets(loop.over)
      /\ {loop.over, loop.on} \subseteq alive /\ count[loop.over] # 0
  BY DEF LoopInv
<1>2. loop.over \in Object /\ loop.on \in Object /\ loop.i \in Nat /\ loop.p \in Nat \ {0} /\ loop.n \in Nat
  BY <1>1 DEF LoopType
<1>3. HashSize[loop.over] \in Nat \ {0}
  BY <1>2, SizeAssumption
<1>4. loop.i < HashSize[loop.over]
  BY <1>1, <1>2, <1>3 DEF Buckets
<1> QED BY <1>1, <1>2, <1>3, <1>4

LEMMA InLoop == (Removing => loop # Idle) /\ (Visiting => loop # Idle) /\ ~(Removing /\ Visiting)
BY DEF Removing, Visiting, Idle

LEMMA HereIsChain ==
  ASSUME DataInv, LoopInv, loop # Idle
  PROVE  Here \in Seq(Node) /\ Len(Here) \in Nat /\ DOMAIN Here = 1 .. Len(Here)
<1>1. Here \in Seq(Node)
  BY LoopParts DEF Here, DataInv, Chains
<1> QED BY <1>1

(* After a step that ends the loop there is nothing to say of it.          *)
LoopInvs == LoopInv /\ RemoveInv /\ VisitInv /\ CopyInv /\ FullInv

LEMMA IdleAfter == loop' = Idle => LoopInvs'
BY DEF LoopInvs, LoopInv, RemoveInv, VisitInv, CopyInv, FullInv, Removing, Visiting, Idle

LEMMA NothingGone == ~Removing => \A u \in Table : Gone(u) = 0
BY DEF Gone

LEMMA IdleNothingGone == loop = Idle => ~Removing
BY DEF Removing, Idle

(* The loop after one more node of a removal.                              *)
LEMMA RemovedLoop ==
  ASSUME loop \in LoopType, loop' = [loop EXCEPT !.n = @ + 1]
  PROVE  /\ loop' \in LoopType /\ loop'.kind = loop.kind /\ loop'.over = loop.over
         /\ loop'.on = loop.on /\ loop'.i = loop.i /\ loop'.p = loop.p /\ loop'.n = loop.n + 1
         /\ loop'.seen = loop.seen /\ loop'.before = loop.before
BY DEF LoopType

LEMMA NextLoop ==
  ASSUME loop \in LoopType, loop' = [loop EXCEPT !.i = @ + 1, !.p = 1]
  PROVE  /\ loop' \in LoopType /\ loop'.kind = loop.kind /\ loop'.over = loop.over
         /\ loop'.on = loop.on /\ loop'.i = loop.i + 1 /\ loop'.p = 1 /\ loop'.n = loop.n
         /\ loop'.seen = loop.seen /\ loop'.before = loop.before
<1>1. loop.i \in Nat
  BY DEF LoopType
<1>2. /\ loop'.kind = loop.kind /\ loop'.over = loop.over
      /\ loop'.on = loop.on /\ loop'.i = loop.i + 1 /\ loop'.p = 1 /\ loop'.n = loop.n
      /\ loop'.seen = loop.seen /\ loop'.before = loop.before
  BY DEF LoopType
<1>3. loop.i + 1 \in Nat /\ 1 \in Nat \ {0}
  BY <1>1
<1>4. loop' \in LoopType
  BY <1>3 DEF LoopType
<1> QED BY <1>2, <1>4

LEMMA VisitedLoop ==
  ASSUME loop \in LoopType, loop' = Visited, Here[loop.p] \in Node
  PROVE  /\ loop' \in LoopType /\ loop'.kind = loop.kind /\ loop'.over = loop.over
         /\ loop'.on = loop.on /\ loop'.i = loop.i /\ loop'.p = loop.p + 1 /\ loop'.n = loop.n + 1
         /\ loop'.seen = loop.seen \cup {Here[loop.p]} /\ loop'.before = loop.before
<1>1. loop.p \in Nat \ {0} /\ loop.n \in Nat /\ loop.seen \subseteq Node
  BY DEF LoopType
<1> DEFINE x == Here[loop.p]
           s == loop.seen \cup {x}
<1>2. loop' = [loop EXCEPT !.p = loop.p + 1, !.n = loop.n + 1, !.seen = s]
  BY DEF Visited
<1>3. loop.p + 1 \in Nat \ {0} /\ loop.n + 1 \in Nat /\ s \in SUBSET Node
  BY <1>1
<1> HIDE DEF s, x
<1>4. /\ loop'.kind = loop.kind /\ loop'.over = loop.over
      /\ loop'.on = loop.on /\ loop'.i = loop.i /\ loop'.p = loop.p + 1 /\ loop'.n = loop.n + 1
      /\ loop'.seen = s /\ loop'.before = loop.before
  BY <1>2 DEF LoopType
<1>5. loop' \in LoopType
  BY <1>2, <1>3 DEF LoopType
<1> QED BY <1>4, <1>5 DEF s, x

(* A removal takes the first node of the chain.                            *)
LEMMA RemoveNodeResult ==
  ASSUME DataInv, LoopInv, RemoveNode
  PROVE  /\ Becomes(loop.over, loop.i, Tail(Here)) /\ Here \in Seq(Node) /\ Len(Here) # 0
         /\ loop # Idle /\ loop' \in LoopType /\ loop'.kind = loop.kind /\ loop'.over = loop.over
         /\ loop'.on = loop.on /\ loop'.i = loop.i /\ loop'.n = loop.n + 1
         /\ loop'.before = loop.before /\ alive' = alive /\ count' = count
<1>1. loop # Idle /\ Here # <<>> /\ alive' = alive /\ count' = count
      /\ loop' = [loop EXCEPT !.n = @ + 1]
  BY InLoop DEF RemoveNode
<1> DEFINE t == loop.over
           i == loop.i
           c == Here
           b == Tail(c)
<1>2. t \in Object /\ i \in Buckets(t) /\ loop \in LoopType
  BY <1>1, LoopParts
<1>3. c \in Seq(Node)
  BY <1>1, HereIsChain
<1>4. chain' = [chain EXCEPT ![t] = [chain[t] EXCEPT ![i] = Tail(chain[t][i])]]
  BY DEF RemoveNode
<1>5. chain' = [chain EXCEPT ![t] = [chain[t] EXCEPT ![i] = b]]
  BY <1>4 DEF Here
<1> HIDE DEF c
<1>6. b \in Seq(Node)
  BY <1>1, <1>3, TailLess DEF c
<1> HIDE DEF b, t, i
<1>7. Becomes(t, i, b)
  BY <1>2, <1>5, <1>6, Rebucket DEF DataInv
<1>8. Len(c) # 0
  BY <1>1, <1>3 DEF c
<1>9. Becomes(loop.over, loop.i, Tail(Here))
  BY <1>7 DEF t, i, b, c
<1> QED BY <1>1, <1>2, <1>3, <1>8, <1>9, RemovedLoop DEF c

LEMMA DataRemoveNode ==
  ASSUME DataInv, LoopInv, RemoveNode
  PROVE  DataInv'
<1>0. loop # Idle
  BY RemoveNodeResult
<1> PICK t \in Object : t = loop.over
  BY <1>0, LoopParts
<1> PICK i \in Buckets(t) : i = loop.i
  BY <1>0, LoopParts
<1> PICK b : b = Tail(Here)
  OBVIOUS
<1>1. /\ Becomes(t, i, b) /\ Here \in Seq(Node) /\ Len(Here) # 0 /\ loop # Idle
      /\ loop'.kind = loop.kind /\ loop'.over = t /\ loop'.n = loop.n + 1
      /\ alive' = alive /\ count' = count /\ Removing
  BY RemoveNodeResult DEF RemoveNode
<1>2. t \in Object /\ i \in Buckets(t) /\ t \in alive /\ count[t] # 0 /\ loop.n \in Nat
  BY <1>1, LoopParts
<1>3. /\ b \in Seq(Node) /\ Len(b) = Len(Here) - 1 /\ Elems(b) \subseteq Elems(Here) /\ 1 \in DOMAIN Here
      /\ Unique(Here) => Unique(b) /\ Elems(b) = Elems(Here) \ {Here[1]}
  BY <1>1, TailLess
<1>4. Here = chain[t][i]
  BY DEF Here
<1>5. Removing' /\ (\A u \in Table \ {t} : Gone(u)' = Gone(u)) /\ Gone(t) = loop.n /\ Gone(t)' = loop.n + 1
  BY <1>1 DEF Removing, Gone
<1>6. ASSUME t \in Table
      PROVE  Sound(t)' /\ IsFiniteSet(Entries(t)') /\ count'[t] = Cardinality(Entries(t)') + Gone(t)'
  <2>1. Sound(t) /\ IsFiniteSet(Entries(t)) /\ count[t] = Cardinality(Entries(t)) + Gone(t)
    BY <1>6, TableParts
  <2>2. Unique(Here) /\ Hashed(t, i, Here)
    BY <1>2, <1>4, <2>1 DEF Sound
  <2>3. Unique(b) /\ Elems(b) = Elems(Here) \ {Here[1]}
    BY <1>3, <2>2
  <2>4. Hashed(t, i, b)
    <3> SUFFICES ASSUME NEW p \in DOMAIN b PROVE iHashIndex(t, b[p][1]) = i
      BY DEF Hashed
    <3>1. b[p] \in Elems(Here)
      BY <1>3 DEF Elems
    <3> QED BY <2>2, <3>1 DEF Hashed, Elems
  <2>5. Sound(t)' /\ Entries(t)' = (Entries(t) \ Elems(Here)) \cup Elems(b)
    BY <1>1, <1>2, <1>4, <2>1, <2>3, <2>4, SoundBecomes
  <2>6. Here[1] \in Elems(Here) /\ Elems(Here) \subseteq Entries(t)
    BY <1>2, <1>3, <1>4, EntriesAre DEF Elems
  <2>7. Entries(t)' = Entries(t) \ {Here[1]} /\ Here[1] \in Entries(t)
    BY <2>3, <2>5, <2>6
  <2>8. IsFiniteSet(Entries(t)') /\ Cardinality(Entries(t)') = Cardinality(Entries(t)) - 1
        /\ Cardinality(Entries(t)) \in Nat
    BY <2>1, <2>7, OneLess
  <2>9. count'[t] = Cardinality(Entries(t)') + Gone(t)'
    BY <1>1, <1>2, <1>5, <2>1, <2>8
  <2> QED BY <2>5, <2>8, <2>9
<1>7. ASSUME t \in Array
      PROVE  count'[t] \in {0, HashSize[t]} /\ \A j \in Buckets(t) : Len(chain'[t][j]) <= 1
  <2>1. count'[t] \in {0, HashSize[t]}
    BY <1>1, <1>7, ArrayParts
  <2>2. ASSUME NEW j \in Buckets(t) PROVE Len(chain'[t][j]) <= 1
    <3>1. Len(chain[t][j]) <= 1
      BY <1>7 DEF DataInv, ArrayInv
    <3>2. CASE j = i
      <4>1. chain'[t][j] = b
        BY <1>1, <3>2 DEF Becomes
      <4>2. Len(Here) <= 1 /\ Len(Here) \in Nat
        BY <1>1, <1>4, <3>1, <3>2
      <4> QED BY <1>3, <4>1, <4>2
    <3>3. CASE j # i
      <4>1. chain'[t][j] = chain[t][j]
        BY <1>1, <3>3 DEF Becomes
      <4> QED BY <3>1, <4>1
    <3> QED BY <3>2, <3>3
  <2> QED BY <2>1, <2>2
<1>8. Chains' /\ \A u \in Object \ {t} : Same(u)
  BY <1>1 DEF Becomes
<1>9. count' \in [Object -> Nat] /\ alive' \subseteq Object /\ t \in alive' /\ count'[t] # 0
  BY <1>1, <1>2 DEF DataInv
<1> QED BY <1>1, <1>2, <1>5, <1>6, <1>7, <1>8, <1>9, DataOne

(* The early exit forgets no node.                                         *)
LEMMA AllRemoved ==
  ASSUME DataInv, LoopInv, RemoveInv, Removing, Here = <<>>, AllMet \/ LastBucket
  PROVE  Entries(loop.over) = {}
<1> DEFINE t == loop.over
<1>1. loop # Idle
  BY InLoop
<1>2. /\ t \in Object /\ loop.i \in Buckets(t) /\ loop.i \in Nat /\ loop.n \in Nat
      /\ HashSize[t] \in Nat \ {0} /\ loop.i < HashSize[t] /\ count[t] # 0
  BY <1>1, LoopParts
<1>3. CASE LastBucket
  <2>1. loop.i + 1 = HashSize[t]
    BY <1>3 DEF LastBucket
  <2>2. ASSUME NEW j \in Buckets(t) PROVE chain[t][j] = <<>>
    <3>1. j < loop.i \/ j = loop.i
      BY <1>2, <2>1 DEF Buckets
    <3> QED BY <3>1 DEF RemoveInv, Here
  <2> QED BY <2>2 DEF Entries
<1>4. CASE AllMet /\ t \in Table
  <2>1. IsFiniteSet(Entries(t)) /\ count[t] = Cardinality(Entries(t)) + Gone(t)
        /\ Cardinality(Entries(t)) \in Nat
    BY <1>4, TableParts
  <2>2. Gone(t) = count[t] /\ Gone(t) = loop.n
    BY <1>4 DEF Gone, AllMet
  <2>3. Cardinality(Entries(t)) = 0
    BY <1>2, <2>1, <2>2
  <2> QED BY <2>1, <2>3, FS_EmptySet
<1>5. CASE AllMet /\ t \in Array
  <2>1. count[t] = HashSize[t] /\ loop.n = count[t]
    BY <1>2, <1>5, ArrayParts DEF AllMet
  <2>2. loop.n <= loop.i + 1
    BY <1>5 DEF RemoveInv
  <2>3. LastBucket
    BY <1>2, <2>1, <2>2 DEF LastBucket
  <2> QED BY <1>3, <2>3
<1> QED BY <1>2, <1>3, <1>4, <1>5 DEF Object

LEMMA DataRemoveEnd ==
  ASSUME DataInv, LoopInv, RemoveInv, RemoveEnd
  PROVE  /\ DataInv' /\ loop' = Idle /\ Entries(loop.over) = {} /\ chain' = chain
         /\ alive' = IF loop.kind = "destroy" THEN alive \ {loop.over} ELSE alive
<1>0. Removing /\ loop # Idle
  BY InLoop DEF RemoveEnd
<1> PICK t \in Object : t = loop.over
  BY <1>0, LoopParts
<1>1. /\ Removing /\ Here = <<>> /\ (AllMet \/ LastBucket) /\ loop' = Idle /\ chain' = chain
      /\ count' = [count EXCEPT ![t] = 0] /\ alive' \in {alive, alive \ {t}}
      /\ alive' = IF loop.kind = "destroy" THEN alive \ {loop.over} ELSE alive
  BY DEF RemoveEnd
<1>2. t \in Object /\ loop # Idle
  BY <1>1, InLoop, LoopParts
<1>3. Entries(t) = {}
  BY <1>1, AllRemoved
<1>4. \A u : Entries(u)' = Entries(u) /\ (Sound(u)' <=> Sound(u))
  BY <1>1 DEF Entries, Sound
<1>5. (\A u \in Table : Gone(u)' = 0) /\ \A u \in Table \ {t} : Gone(u) = 0
  BY <1>1 DEF Gone, Removing, Idle
<1>6. count' \in [Object -> Nat] /\ count'[t] = 0 /\ \A u \in Object \ {t} : count'[u] = count[u]
  BY <1>1, <1>2 DEF DataInv
<1>7. IsFiniteSet({}) /\ Cardinality({}) = 0
  BY FS_EmptySet
<1>8. ASSUME t \in Table
      PROVE  Sound(t)' /\ IsFiniteSet(Entries(t)') /\ count'[t] = Cardinality(Entries(t)') + Gone(t)'
  <2>1. Sound(t)' /\ Entries(t)' = {}
    BY <1>3, <1>4, <1>8, TableParts
  <2> QED BY <1>5, <1>6, <1>7, <1>8, <2>1
<1>9. ASSUME t \in Array
      PROVE  count'[t] \in {0, HashSize[t]} /\ \A j \in Buckets(t) : Len(chain'[t][j]) <= 1
  BY <1>1, <1>6, <1>9 DEF DataInv, ArrayInv
<1>10. Chains' /\ \A u \in Object \ {t} : Same(u)
  BY <1>1 DEF DataInv, Chains, Same
<1>11. alive' \subseteq Object /\ \A u \in Object \ {t} : u \in alive' <=> u \in alive
  BY <1>1 DEF DataInv
<1>12. Entries(t)' = {}
  BY <1>3, <1>4
<1>13. DataInv'
  BY <1>2, <1>5, <1>6, <1>8, <1>9, <1>10, <1>11, <1>12, DataOne
<1> QED BY <1>1, <1>3, <1>13


-----------------------------------------------------------------------------
(* A loop begins.                                                          *)
LEMMA LoopIs ==
  ASSUME DataInv, NEW t \in Object, NEW d \in Object,
         NEW kind \in {"remove", "destroy", "tell", "copy", "merge", "array"}, loop' = Loop(kind, t, d)
  PROVE  /\ loop' # Idle /\ loop' \in LoopType
         /\ loop'.kind = kind /\ loop'.over = t /\ loop'.on = d /\ loop'.i = 0 /\ loop'.p = 1
         /\ loop'.n = 0 /\ loop'.seen = {} /\ loop'.before = Entries(d)
<1>1. Entries(d) \in SUBSET Node
  BY EntriesAreNodes DEF DataInv
<1> DEFINE e == Entries(d)
<1>2. loop' = [kind |-> kind, over |-> t, on |-> d, i |-> 0, p |-> 1, n |-> 0, seen |-> {}, before |-> e]
  BY DEF Loop
<1> HIDE DEF e
<1>3. /\ loop'.kind = kind /\ loop'.over = t /\ loop'.on = d /\ loop'.i = 0 /\ loop'.p = 1
      /\ loop'.n = 0 /\ loop'.seen = {} /\ loop'.before = e
  BY <1>2
<1>4. loop' \in LoopType
  BY <1>1, <1>2 DEF LoopType, e
<1>5. loop' # Idle
  BY <1>3 DEF Idle
<1> QED BY <1>3, <1>4, <1>5 DEF e

LEMMA Begins ==
  ASSUME DataInv, ~Removing, NEW t \in alive, NEW d \in alive, count[t] # 0,
         NEW kind \in {"remove", "destroy", "tell", "copy", "merge", "array"}, loop' = Loop(kind, t, d),
         kind \in {"remove", "destroy", "tell"} => d = t,
         kind \in {"tell", "copy", "merge"} => {t, d} \subseteq Table,
         kind = "array" => {t, d} \subseteq Array,
         kind \in {"copy", "merge", "array"} => d # t,
         alive' = alive, chain' = chain, count' = count
  PROVE  DataInv' /\ LoopInvs'
<1>0. t \in Object /\ d \in Object
  BY DEF DataInv
<1>1. /\ loop' # Idle /\ loop' \in LoopType
      /\ loop'.kind = kind /\ loop'.over = t /\ loop'.on = d /\ loop'.i = 0 /\ loop'.p = 1
      /\ loop'.n = 0 /\ loop'.seen = {} /\ loop'.before = Entries(d)
  BY <1>0, LoopIs
<1>2. \A u \in Table : Gone(u)' = Gone(u)
  BY <1>1 DEF Gone, Removing
<1>3. DataInv'
  BY <1>2, DataSame
<1>4. 0 \in Buckets(t)
  BY <1>0, SizeAssumption DEF Buckets
<1>5. LoopInv'
  BY <1>1, <1>4 DEF LoopInv
<1>6. \A j \in Buckets(t) : ~(j < 0)
  BY <1>0, SizeAssumption DEF Buckets
<1>7. Here' = chain[t][0] /\ Here' \in Seq(Node)
  BY <1>0, <1>1, <1>4 DEF Here, DataInv, Chains
<1>8. RemoveInv'
  <2>1. 0 <= 0 + (IF Here' = <<>> THEN 1 ELSE 0)
    OBVIOUS
  <2> QED BY <1>1, <1>6, <2>1 DEF RemoveInv
<1>9. VisitInv'
  <2>1. Len(Here') \in Nat
    BY <1>7
  <2>2. ASSUME NEW e \in Met(t, 0, 1)' PROVE FALSE
    <3>1. PICK j \in Buckets(t) : \E q \in DOMAIN chain[t][j] : j < 0 \/ (j = 0 /\ q < 1)
      BY <2>2 DEF Met
    <3>2. PICK q \in DOMAIN chain[t][j] : j < 0 \/ (j = 0 /\ q < 1)
      BY <3>1
    <3>3. chain[t][j] \in Seq(Node)
      BY <1>0 DEF DataInv, Chains
    <3>4. q \in Nat \ {0}
      BY <3>3
    <3> QED BY <1>6, <3>2, <3>4
  <2>3. Met(t, 0, 1)' = {}
    BY <2>2
  <2>4. IsFiniteSet({}) /\ Cardinality({}) = 0
    BY FS_EmptySet
  <2>5. 1 <= Len(Here') + 1
    BY <2>1
  <2> QED BY <1>1, <2>3, <2>4, <2>5 DEF VisitInv, Met
<1>10. CopyInv'
  <2>1. Entries(d)' = Entries(d)
    BY DEF Entries
  <2>2. Map!Overlay(Entries(d), {}) = Entries(d) /\ Map!Overlay({}, Entries(d)) = Entries(d)
    BY DEF Map!Overlay
  <2> HIDE DEF Map!Overlay
  <2> QED BY <1>1, <2>1, <2>2 DEF CopyInv, Entries
<1>11. FullInv'
  BY <1>1, <1>6 DEF FullInv
<1> QED BY <1>3, <1>5, <1>8, <1>9, <1>10, <1>11 DEF LoopInvs

-----------------------------------------------------------------------------
(* A removal goes on.                                                      *)
LEMMA LoopsElsewhere ==
  ASSUME ~Visiting', Removing'
  PROVE  VisitInv' /\ CopyInv' /\ FullInv'
BY DEF VisitInv, CopyInv, FullInv, Removing

LEMMA RemoveNodeLoop ==
  ASSUME DataInv, LoopInv, RemoveInv, RemoveNode
  PROVE  LoopInvs'
<1>0. loop # Idle /\ Removing /\ Here # <<>>
  BY InLoop DEF RemoveNode
<1> PICK t \in Object : t = loop.over
  BY <1>0, LoopParts
<1> PICK i \in Buckets(t) : i = loop.i
  BY <1>0, LoopParts
<1>1. /\ Becomes(t, i, Tail(Here)) /\ Here \in Seq(Node) /\ Len(Here) # 0
      /\ loop' \in LoopType /\ loop'.kind = loop.kind /\ loop'.over = t
      /\ loop'.on = loop.on /\ loop'.i = i /\ loop'.n = loop.n + 1
      /\ alive' = alive /\ count' = count
  BY RemoveNodeResult
<1>2. Removing' /\ ~Visiting' /\ loop' # Idle
  BY <1>0, <1>1 DEF Removing, Visiting, Idle
<1>3. LoopInv'
  BY <1>0, <1>1, <1>2 DEF LoopInv, Removing
<1>4. ASSUME NEW j \in Buckets(t), j < i PROVE chain'[t][j] = <<>>
  <2>1. j # i
    BY <1>4, SizeAssumption DEF Buckets
  <2> QED BY <1>0, <1>1, <1>4, <2>1 DEF Becomes, RemoveInv
<1>5. ASSUME t \in Array PROVE loop'.n <= loop'.i + (IF Here' = <<>> THEN 1 ELSE 0)
  <2>1. Len(Here) \in {0, 1}
    BY <1>5, ArrayParts DEF Here
  <2>2. Tail(Here) = <<>>
    <3>1. Len(Tail(Here)) = Len(Here) - 1 /\ Tail(Here) \in Seq(Node)
      BY <1>0, <1>1, TailLess
    <3>2. Len(Here) = 1
      BY <1>1, <2>1
    <3>3. Len(Tail(Here)) = 0
      BY <3>1, <3>2
    <3>4. \A s \in Seq(Node) : Len(s) = 0 => s = <<>>
      OBVIOUS
    <3> QED BY <3>1, <3>3, <3>4
  <2>3. Here' = <<>>
    BY <1>1, <2>2 DEF Becomes, Here
  <2>4. loop.n <= i + 0 /\ loop.n \in Nat /\ i \in Nat
    BY <1>0, <1>5, LoopParts DEF RemoveInv
  <2> QED BY <1>1, <2>3, <2>4
<1>6. RemoveInv'
  BY <1>1, <1>4, <1>5 DEF RemoveInv
<1> QED BY <1>2, <1>3, <1>6, LoopsElsewhere DEF LoopInvs

LEMMA NextInBuckets ==
  ASSUME LoopInv, loop # Idle, ~LastBucket
  PROVE  loop.i + 1 \in Buckets(loop.over)
<1>1. loop.i \in Nat /\ HashSize[loop.over] \in Nat \ {0} /\ loop.i < HashSize[loop.over]
      /\ loop.i + 1 # HashSize[loop.over]
  BY LoopParts DEF LastBucket
<1> QED BY <1>1 DEF Buckets

LEMMA NextBucketLoop ==
  ASSUME LoopInv, loop # Idle, NEW b, NextBucket(b)
  PROVE  /\ b /\ ~AllMet /\ LoopInv' /\ loop' # Idle /\ alive' = alive /\ chain' = chain /\ count' = count
         /\ loop'.kind = loop.kind /\ loop'.over = loop.over
         /\ loop'.on = loop.on /\ loop'.i = loop.i + 1 /\ loop'.p = 1 /\ loop'.n = loop.n
         /\ loop'.seen = loop.seen /\ loop'.before = loop.before
<1>1. /\ b /\ ~AllMet /\ ~LastBucket /\ loop' = [loop EXCEPT !.i = @ + 1, !.p = 1]
      /\ alive' = alive /\ chain' = chain /\ count' = count
  BY DEF NextBucket
<1>2. loop \in LoopType
  BY LoopParts
<1>3. /\ loop' \in LoopType /\ loop'.kind = loop.kind /\ loop'.over = loop.over
      /\ loop'.on = loop.on /\ loop'.i = loop.i + 1 /\ loop'.p = 1 /\ loop'.n = loop.n
      /\ loop'.seen = loop.seen /\ loop'.before = loop.before
  BY <1>1, <1>2, NextLoop
<1>4. loop'.i \in Buckets(loop'.over)
  BY <1>1, <1>3, NextInBuckets
<1>5. loop' # Idle
  BY <1>2, <1>3 DEF LoopType, Idle
<1>6. LoopInv'
  BY <1>1, <1>3, <1>4 DEF LoopInv
<1> QED BY <1>1, <1>3, <1>5, <1>6

LEMMA RemoveNextLoop ==
  ASSUME DataInv, LoopInv, RemoveInv, RemoveNext
  PROVE  DataInv' /\ LoopInvs'
<1>0. loop # Idle /\ Removing /\ NextBucket(Here = <<>>)
  BY InLoop DEF RemoveNext
<1>1. /\ Here = <<>> /\ LoopInv' /\ alive' = alive /\ chain' = chain /\ count' = count
      /\ loop'.kind = loop.kind /\ loop'.over = loop.over
      /\ loop'.i = loop.i + 1 /\ loop'.n = loop.n
  BY <1>0, NextBucketLoop
<1>2. Removing' /\ ~Visiting' /\ \A u \in Table : Gone(u)' = Gone(u)
  BY <1>0, <1>1 DEF Removing, Visiting, Gone
<1>3. DataInv'
  BY <1>1, <1>2, DataSame
<1>4. loop.i \in Nat /\ loop.n \in Nat /\ loop.over \in Object
  BY <1>0, LoopParts
<1>5. ASSUME NEW j \in Buckets(loop.over), j < loop.i + 1 PROVE chain[loop.over][j] = <<>>
  <2>1. j \in Int
    BY <1>4, SizeAssumption DEF Buckets
  <2>2. j < loop.i \/ j = loop.i
    BY <1>4, <1>5, <2>1
  <2> QED BY <1>0, <1>1, <2>2 DEF RemoveInv, Here
<1>6. loop.over \in Array => loop.n <= loop.i + 1
  BY <1>0, <1>1 DEF RemoveInv
<1>7. loop.over \in Array => loop'.n <= loop'.i + (IF Here' = <<>> THEN 1 ELSE 0)
  BY <1>1, <1>4, <1>6
<1>8. RemoveInv'
  BY <1>1, <1>5, <1>7 DEF RemoveInv
<1> QED BY <1>1, <1>2, <1>3, <1>8, LoopsElsewhere DEF LoopInvs


-----------------------------------------------------------------------------
(* A visit goes on.                                                        *)
LEMMA MetOne ==
  ASSUME Chains, NEW t \in Object, NEW i \in Buckets(t), NEW p \in DOMAIN chain[t][i]
  PROVE  /\ Met(t, i, p + 1) = Met(t, i, p) \cup {chain[t][i][p]}
         /\ Sound(t) => chain[t][i][p] \notin Met(t, i, p)
         /\ chain[t][i][p] \in Entries(t) /\ chain[t][i][p] \in Node /\ p \in Nat \ {0}
<1> DEFINE x == chain[t][i][p]
<1>0. \A j \in Buckets(t) : chain[t][j] \in Seq(Node) /\ \A q \in DOMAIN chain[t][j] : q \in Nat \ {0}
  BY DEF Chains
<1>1. x \in Entries(t) /\ p \in Nat \ {0} /\ x \in Node
  <2>1. p \in Nat \ {0} /\ x \in Node
    BY <1>0
  <2> QED BY <2>1 DEF Entries
<1>2. \A j \in Buckets(t) : j \in Nat
  BY SizeAssumption DEF Buckets
<1>3. ASSUME NEW e \in Met(t, i, p + 1) PROVE e \in Met(t, i, p) \cup {x}
  <2>1. PICK j \in Buckets(t) : \E q \in DOMAIN chain[t][j] :
               e = chain[t][j][q] /\ (j < i \/ (j = i /\ q < p + 1))
    BY <1>3 DEF Met
  <2>2. PICK q \in DOMAIN chain[t][j] : e = chain[t][j][q] /\ (j < i \/ (j = i /\ q < p + 1))
    BY <2>1
  <2>3. q \in Nat
    BY <1>0
  <2>4. j < i \/ (j = i /\ q < p) \/ (j = i /\ q = p)
    BY <1>1, <2>2, <2>3
  <2>5. e \in Entries(t)
    BY <1>3 DEF Met
  <2> QED BY <2>2, <2>4, <2>5 DEF Met
<1>4. ASSUME NEW e \in Met(t, i, p) PROVE e \in Met(t, i, p + 1)
  <2>1. PICK j \in Buckets(t) : \E q \in DOMAIN chain[t][j] :
               e = chain[t][j][q] /\ (j < i \/ (j = i /\ q < p))
    BY <1>4 DEF Met
  <2>2. PICK q \in DOMAIN chain[t][j] : e = chain[t][j][q] /\ (j < i \/ (j = i /\ q < p))
    BY <2>1
  <2>3. q \in Nat
    BY <1>0
  <2>4. j < i \/ (j = i /\ q < p + 1)
    BY <1>1, <2>2, <2>3
  <2>5. e \in Entries(t)
    BY <1>4 DEF Met
  <2> QED BY <2>2, <2>4, <2>5 DEF Met
<1>5. x \in Met(t, i, p + 1)
  <2>1. p < p + 1
    BY <1>1
  <2> QED BY <1>1, <2>1 DEF Met
<1>6. ASSUME Sound(t), x \in Met(t, i, p) PROVE FALSE
  <2>1. PICK j \in Buckets(t) : \E q \in DOMAIN chain[t][j] :
               x = chain[t][j][q] /\ (j < i \/ (j = i /\ q < p))
    BY <1>6 DEF Met
  <2>2. PICK q \in DOMAIN chain[t][j] : x = chain[t][j][q] /\ (j < i \/ (j = i /\ q < p))
    BY <2>1
  <2>3. j = iHashIndex(t, x[1]) /\ i = iHashIndex(t, x[1])
    BY <1>6, <2>2 DEF Sound, Hashed
  <2>4. q = p
    BY <1>6, <2>2, <2>3 DEF Sound, Unique
  <2>5. j = i
    BY <2>3
  <2>6. i \in Nat
    BY <1>2
  <2>7. ~(i < i) /\ ~(p < p)
    BY <1>1, <2>6
  <2> HIDE DEF x
  <2> QED BY <2>2, <2>4, <2>5, <2>7
<1> QED BY <1>1, <1>3, <1>4, <1>5, <1>6

LEMMA MetChain ==
  ASSUME Chains, NEW t \in Object, NEW i \in Buckets(t), NEW p \in Nat, p > Len(chain[t][i])
  PROVE  /\ Met(t, i + 1, 1) = Met(t, i, p)
         /\ i + 1 = HashSize[t] => Met(t, i, p) = Entries(t)
<1>0. \A j \in Buckets(t) : \A q \in DOMAIN chain[t][j] : q \in Nat \ {0} /\ (j = i => q < p)
  <2> SUFFICES ASSUME NEW j \in Buckets(t), NEW q \in DOMAIN chain[t][j]
               PROVE  q \in Nat \ {0} /\ (j = i => q < p)
    OBVIOUS
  <2>1. chain[t][j] \in Seq(Node)
    BY DEF Chains
  <2>2. q \in Nat \ {0} /\ q <= Len(chain[t][j]) /\ Len(chain[t][j]) \in Nat
    BY <2>1
  <2> QED BY <2>2
<1>1. i \in Nat /\ \A j \in Buckets(t) : j \in Nat
  BY SizeAssumption DEF Buckets
<1>2. \A j \in Buckets(t) : \A q \in DOMAIN chain[t][j] :
        (j < i + 1 \/ (j = i + 1 /\ q < 1)) <=> (j < i \/ (j = i /\ q < p))
  BY <1>0, <1>1
<1>3. Met(t, i + 1, 1) = Met(t, i, p)
  BY <1>2 DEF Met
<1>4. ASSUME i + 1 = HashSize[t] PROVE Met(t, i, p) = Entries(t)
  <2>1. \A j \in Buckets(t) : j < i \/ j = i
    BY <1>1, <1>4 DEF Buckets
  <2>2. \A j \in Buckets(t) : \A q \in DOMAIN chain[t][j] : j < i \/ (j = i /\ q < p)
    BY <1>0, <2>1
  <2>3. ASSUME NEW e \in Entries(t) PROVE e \in Met(t, i, p)
    <3>1. PICK j \in Buckets(t) : e \in Elems(chain[t][j])
      BY EntriesAre
    <3>2. PICK q \in DOMAIN chain[t][j] : e = chain[t][j][q]
      BY <3>1 DEF Elems
    <3> QED BY <2>2, <3>2 DEF Met
  <2> QED BY <2>3 DEF Met
<1> QED BY <1>3, <1>4

LEMMA MetSame ==
  ASSUME NEW t, Same(t), NEW i, NEW p
  PROVE  Met(t, i, p)' = Met(t, i, p)
BY DEF Met, Entries, Same

(* Past the last node of a chain the place is the next after it.           *)
LEMMA PastEnd ==
  ASSUME DataInv, LoopInv, VisitInv, Visiting, loop.p \notin DOMAIN Here
  PROVE  loop.p = Len(Here) + 1 /\ Len(Here) \in Nat
<1>1. Len(Here) \in Nat /\ DOMAIN Here = 1 .. Len(Here) /\ loop.p \in Nat \ {0}
  BY InLoop, HereIsChain, LoopParts
<1>2. loop.p <= Len(Here) + 1
  BY DEF VisitInv
<1> QED BY <1>1, <1>2

LEMMA LastOfArray ==
  ASSUME NEW h \in Nat, NEW a \in Nat, NEW l \in {0, 1}, h <= a + (l + 1) - 1, a < h
  PROVE  a + 1 = h
OBVIOUS

(* A loop that ends by itself has met everything, whichever way it ended.  *)
LEMMA AllVisited ==
  ASSUME DataInv, LoopInv, VisitInv, Visiting, VisitDone
  PROVE  loop.seen = Entries(loop.over) /\ (loop.over \in Array => LastBucket)
<1>0. loop # Idle /\ ~Removing
  BY InLoop
<1> PICK t \in Object : t = loop.over
  BY <1>0, LoopParts
<1> PICK i \in Buckets(t) : i = loop.i
  BY <1>0, LoopParts
<1>1. /\ loop.seen = Met(t, i, loop.p) /\ loop.p = Len(Here) + 1 /\ Here = chain[t][i]
      /\ Len(Here) \in Nat
  BY PastEnd DEF VisitInv, VisitDone, Here
<1> PICK l \in Nat : l = Len(Here)
  BY <1>1
<1> PICK p \in Nat : p = loop.p
  BY <1>0, LoopParts
<1>2. p = l + 1 /\ l = Len(chain[t][i])
  BY <1>1
<1>6. p > Len(chain[t][i])
  <2>1. p > l
    BY <1>2
  <2> QED BY <1>2, <2>1
<1>3. CASE LastBucket
  <2>1. i + 1 = HashSize[t]
    BY <1>3 DEF LastBucket
  <2>2. Met(t, i, p) = Entries(t)
    BY <1>6, <2>1, MetChain DEF DataInv
  <2> QED BY <1>1, <1>3, <2>2
<1>4. CASE AllMet /\ t \in Table
  <2>1. /\ IsFiniteSet(Entries(t)) /\ count[t] = Cardinality(Entries(t)) + Gone(t)
        /\ Cardinality(Entries(t)) \in Nat
    BY <1>4, TableParts
  <2>2. Gone(t) = 0
    BY <1>0 DEF Gone
  <2>3. loop.seen \subseteq Entries(t) /\ Cardinality(loop.seen) = Cardinality(Entries(t))
    <3>1. loop.seen \subseteq Entries(t)
      BY <1>1 DEF Met
    <3>2. loop.n = Cardinality(loop.seen) /\ loop.n = count[t]
      BY <1>4 DEF VisitInv, AllMet
    <3> QED BY <2>1, <2>2, <3>1, <3>2
  <2>4. loop.seen = Entries(t)
    BY <2>1, <2>3, FS_Subset
  <2>5. t \notin Array
    BY <1>4, ObjectAssumption
  <2> QED BY <2>4, <2>5
<1>5. CASE AllMet /\ t \in Array
  <2>1. loop.n = HashSize[t] /\ HashSize[t] \in Nat \ {0}
    <3>1. count[t] # 0
      BY <1>0, LoopParts
    <3> QED BY <1>5, <3>1, ArrayParts DEF AllMet
  <2>2. loop.n <= i + p - 1
    BY <1>5 DEF VisitInv
  <2>3. l \in {0, 1}
    BY <1>1, <1>5, ArrayParts
  <2>4. i \in Nat /\ i < HashSize[t]
    BY <1>0, LoopParts
  <2>6. i + 1 = HashSize[t]
    <3>1. p = l + 1
      BY <1>2
    <3>3. HashSize[t] <= i + (l + 1) - 1
      BY <2>1, <2>2, <3>1
    <3> QED BY <2>1, <2>3, <2>4, <3>3, LastOfArray
  <2>5. LastBucket
    BY <2>6 DEF LastBucket
  <2> QED BY <1>3, <2>5
<1> QED BY <1>3, <1>4, <1>5 DEF VisitDone, Object

LEMMA PlaceOfNode ==
  ASSUME NEW n \in Nat, NEW p \in Nat \ {0}, NEW l \in Nat, p \in 1 .. l, NEW i \in Nat, n <= i + p - 1
  PROVE  p + 1 <= l + 1 /\ n + 1 <= i + (p + 1) - 1 /\ p + 1 \in Nat
OBVIOUS

(* A visit meets one more node of the table it is over, which its callback *)
(* has not touched.                                                        *)
LEMMA VisitStep ==
  ASSUME DataInv, LoopInv, VisitInv, AtNode, loop' = Visited, alive' = alive,
         Same(loop.over), count'[loop.over] = count[loop.over]
  PROVE  /\ loop # Idle /\ LoopInv' /\ RemoveInv' /\ VisitInv'
         /\ \A u \in Table : Gone(u) = 0 /\ Gone(u)' = 0
         /\ Here[loop.p] \in Entries(loop.over) /\ Here[loop.p] \in Node
         /\ loop.over \in Table => loop.seen \subseteq Entries(loop.over) /\ Here[loop.p] \notin loop.seen
         /\ loop'.kind = loop.kind /\ loop'.over = loop.over /\ loop'.on = loop.on
         /\ loop'.i = loop.i /\ loop'.p = loop.p + 1 /\ loop'.n = loop.n + 1
         /\ loop'.seen = loop.seen \cup {Here[loop.p]} /\ loop'.before = loop.before
<1>0. Visiting /\ loop # Idle /\ ~Removing /\ loop.p \in DOMAIN Here
  BY InLoop DEF AtNode
<1> PICK t \in Object : t = loop.over
  BY <1>0, LoopParts
<1> PICK i \in Buckets(t) : i = loop.i
  BY <1>0, LoopParts
<1> PICK p \in DOMAIN chain[t][i] : p = loop.p
  BY <1>0 DEF Here
<1> PICK x : x = chain[t][i][p]
  OBVIOUS
<1>1. Here = chain[t][i] /\ Here[loop.p] = x
  BY DEF Here
<1>2. /\ Met(t, i, p + 1) = Met(t, i, p) \cup {x} /\ (Sound(t) => x \notin Met(t, i, p))
      /\ x \in Entries(t) /\ x \in Node /\ p \in Nat \ {0}
  BY MetOne DEF DataInv
<1>3. loop \in LoopType /\ loop.n \in Nat /\ i \in Nat
  BY <1>0, LoopParts
<1>4. /\ loop' \in LoopType /\ loop'.kind = loop.kind /\ loop'.over = t
      /\ loop'.on = loop.on /\ loop'.i = i /\ loop'.p = p + 1 /\ loop'.n = loop.n + 1
      /\ loop'.seen = loop.seen \cup {x} /\ loop'.before = loop.before
  <2> HIDE DEF Visited
  <2> QED BY <1>1, <1>2, <1>3, VisitedLoop
<1>5. loop' # Idle /\ Visiting' /\ ~Removing'
  BY <1>0, <1>4 DEF Visiting, Removing, Idle
<1>6. LoopInv'
  BY <1>0, <1>4 DEF LoopInv
<1>7. RemoveInv' /\ \A u \in Table : Gone(u) = 0 /\ Gone(u)' = 0
  BY <1>0, <1>5 DEF RemoveInv, Gone
<1>8. /\ loop.seen = Met(t, i, p)
      /\ t \in Table => IsFiniteSet(loop.seen) /\ loop.n = Cardinality(loop.seen)
      /\ t \in Array => loop.n <= i + p - 1
  BY <1>0 DEF VisitInv
<1>9. loop.seen \subseteq Entries(t) /\ (t \in Table => x \notin loop.seen)
  BY <1>2, <1>8, TableParts DEF Met
<1>10. Met(t, i, p + 1)' = Met(t, i, p + 1)
  BY MetSame
<1>11. Here' = Here
  BY <1>1, <1>4 DEF Here, Same
<1>12. VisitInv'
  <2>1. loop'.seen = Met(t, i, p + 1)'
    BY <1>2, <1>4, <1>8, <1>10
  <2>2. loop'.p <= Len(Here') + 1
    <3>1. Len(Here) \in Nat /\ p \in 1 .. Len(Here)
      BY <1>0, HereIsChain
    <3>2. PICK l \in Nat : l = Len(Here)
      BY <3>1
    <3>3. p + 1 <= l + 1
      BY <1>2, <3>1, <3>2
    <3>4. Len(Here') = l /\ loop'.p = p + 1
      BY <1>4, <1>11, <3>2
    <3> HIDE DEF Here
    <3> QED BY <3>3, <3>4
  <2>3. t \in Table => IsFiniteSet(loop'.seen) /\ loop'.n = Cardinality(loop'.seen)
    <3>1. HAVE t \in Table
    <3>2. PICK S : S = loop.seen
      OBVIOUS
    <3>3. IsFiniteSet(S) /\ x \notin S /\ loop.n = Cardinality(S)
      BY <1>8, <1>9, <3>1, <3>2
    <3>4. IsFiniteSet(S \cup {x}) /\ Cardinality(S \cup {x}) = Cardinality(S) + 1
      BY <3>3, OneMore
    <3>5. loop'.seen = S \cup {x} /\ loop'.n = loop.n + 1
      BY <1>4, <3>2
    <3> QED BY <3>3, <3>4, <3>5
  <2>4. t \in Array => loop'.n <= loop'.i + loop'.p - 1
    <3>1. HAVE t \in Array
    <3>2. loop.n + 1 <= i + (p + 1) - 1
      BY <1>2, <1>3, <1>8, <3>1
    <3> QED BY <1>4, <3>2
  <2>5. loop'.seen = Met(loop.over, loop.i, loop.p)'
    BY <1>4, <2>1 DEF Met, Entries
  <2> QED BY <1>4, <2>2, <2>3, <2>4, <2>5 DEF VisitInv
<1> QED BY <1>0, <1>1, <1>2, <1>4, <1>6, <1>7, <1>9, <1>12

LEMMA VisitNextLoop ==
  ASSUME DataInv, LoopInv, VisitInv, CopyInv, FullInv, VisitNext
  PROVE  DataInv' /\ LoopInvs'
<1>0. loop # Idle /\ Visiting /\ ~Removing /\ NextBucket(loop.p \notin DOMAIN Here)
  BY InLoop DEF VisitNext
<1> PICK t \in Object : t = loop.over
  BY <1>0, LoopParts
<1> PICK i \in Buckets(t) : i = loop.i
  BY <1>0, LoopParts
<1>1. /\ loop.p \notin DOMAIN Here /\ LoopInv' /\ loop' # Idle
      /\ alive' = alive /\ chain' = chain /\ count' = count
      /\ loop'.kind = loop.kind /\ loop'.over = t
      /\ loop'.on = loop.on /\ loop'.i = i + 1 /\ loop'.p = 1 /\ loop'.n = loop.n
      /\ loop'.seen = loop.seen /\ loop'.before = loop.before
  BY <1>0, NextBucketLoop
<1>2. ~Removing' /\ Visiting'
  BY <1>0, <1>1 DEF Removing, Visiting
<1>3. \A u \in Table : Gone(u)' = Gone(u)
  BY <1>0, <1>2 DEF Gone
<1>4. DataInv' /\ RemoveInv'
  BY <1>1, <1>2, <1>3, DataSame DEF RemoveInv
<1>5. loop.p = Len(Here) + 1 /\ Len(Here) \in Nat /\ Here = chain[t][i]
  BY <1>0, <1>1, PastEnd DEF Here
<1> PICK l \in Nat : l = Len(Here)
  BY <1>5
<1> PICK p \in Nat : p = loop.p
  BY <1>0, LoopParts
<1>6. p = l + 1 /\ i \in Nat /\ loop.n \in Nat
  BY <1>0, <1>5, LoopParts
<1>7. Met(t, i + 1, 1) = Met(t, i, p)
  <2>1. p > l
    BY <1>6
  <2>2. p > Len(chain[t][i])
    BY <1>5, <2>1
  <2> QED BY <2>2, MetChain DEF DataInv
<1>8. /\ loop.seen = Met(t, i, p)
      /\ t \in Table => IsFiniteSet(loop.seen) /\ loop.n = Cardinality(loop.seen)
      /\ t \in Array => loop.n <= i + p - 1
  BY <1>0 DEF VisitInv
<1>9. t \in Array => l \in {0, 1}
  BY <1>5, ArrayParts
<1>10. VisitInv'
  <2>1. 1 <= Len(Here') + 1
    <3>1. Here' \in Seq(Node)
      BY <1>1, <1>4 DEF Here, DataInv, Chains, LoopInv
    <3>2. Len(Here') \in Nat
      BY <3>1
    <3> QED BY <3>2
  <2>2. t \in Array => loop.n <= (i + 1) + 1 - 1
    <3>1. HAVE t \in Array
    <3>2. loop.n <= i + (l + 1) - 1
      BY <1>6, <1>8, <3>1
    <3> QED BY <1>6, <1>9, <3>1, <3>2
  <2>3. Met(loop.over, loop.i, loop.p)' = Met(t, i + 1, 1)
    BY <1>1 DEF Met, Entries
  <2> QED BY <1>1, <1>7, <1>8, <2>1, <2>2, <2>3 DEF VisitInv
<1>11. CopyInv'
  <2>1. Entries(loop.on)' = Entries(loop.on)
    BY <1>1 DEF Entries
  <2> QED BY <1>1, <2>1 DEF CopyInv
<1>12. FullInv'
  <2> SUFFICES ASSUME loop.kind = "array", Full(t)
               PROVE  /\ loop.n = (i + 1) + 1 - 1
                      /\ count[loop.on] >= HashSize[t] =>
                           \A j \in Buckets(t) : j < loop.n => chain[loop.on][j] = chain[t][j]
    BY <1>1 DEF FullInv, Full
  <2>1. t \in Array /\ Here # <<>> /\ Here \in Seq(Node)
    BY <1>0, <1>5, HereIsChain DEF LoopInv, Full
  <2>2. l # 0
    BY <2>1
  <2>3. l = 1
    BY <1>9, <2>1, <2>2
  <2>4. loop.n = i + p - 1
    BY DEF FullInv
  <2>5. loop.n = i + (1 + 1) - 1
    BY <1>6, <2>3, <2>4
  <2>6. loop.n = (i + 1) + 1 - 1
    BY <1>6, <2>5
  <2> QED BY <2>6 DEF FullInv
<1> QED BY <1>1, <1>4, <1>10, <1>11, <1>12 DEF LoopInvs

LEMMA TellNodeLoop ==
  ASSUME DataInv, LoopInv, VisitInv, CopyInv, TellNode
  PROVE  DataInv' /\ LoopInvs'
<1>1. AtNode /\ loop.kind = "tell" /\ loop' = Visited /\ alive' = alive /\ chain' = chain /\ count' = count
  BY DEF TellNode
<1>2. /\ LoopInv' /\ RemoveInv' /\ VisitInv' /\ \A u \in Table : Gone(u) = 0 /\ Gone(u)' = 0
      /\ loop'.kind = loop.kind /\ loop'.on = loop.on /\ loop'.before = loop.before
  <2>1. Same(loop.over)
    BY <1>1 DEF Same
  <2> QED BY <1>1, <2>1, VisitStep
<1>3. DataInv'
  BY <1>1, <1>2, DataSame
<1>4. CopyInv'
  <2>1. Entries(loop.on)' = Entries(loop.on)
    BY <1>1, <1>2 DEF Entries
  <2> QED BY <1>1, <1>2, <2>1 DEF CopyInv
<1>5. FullInv'
  BY <1>1, <1>2 DEF FullInv
<1> QED BY <1>2, <1>3, <1>4, <1>5 DEF LoopInvs

(* What the callbacks of CopyFrom and MergeFrom add up to.                 *)
LEMMA CopiesOne ==
  ASSUME NEW m, NEW S, NEW x \in Node, \A e \in S : e[1] # x[1]
  PROVE  Set(Map!Overlay(m, S), x[1], x[2]) = Map!Overlay(m, S \cup {x})
<1>1. <<x[1], x[2]>> = x
  BY NodeParts
<1> DEFINE n == x[1]
<1>2. Set(Map!Overlay(m, S), x[1], x[2]) = {e \in Map!Overlay(m, S) : e[1] # n} \cup {x}
  BY <1>1 DEF Set
<1>3. \A e : e \in Map!Overlay(m, S) <=> (e \in m /\ \A f \in S : f[1] # e[1]) \/ e \in S
  BY DEF Map!Overlay
<1>4. \A e : e \in Map!Overlay(m, S \cup {x})
               <=> (e \in m /\ (\A f \in S : f[1] # e[1]) /\ n # e[1]) \/ e \in S \/ e = x
  BY DEF Map!Overlay
<1>5. \A e \in S : e[1] # n
  OBVIOUS
<1> HIDE DEF n
<1> QED BY <1>2, <1>3, <1>4, <1>5

LEMMA MergesOne ==
  ASSUME NEW m, NEW S, NEW x \in Node, \A e \in S : e[1] # x[1]
  PROVE  /\ (\A e \in Map!Overlay(S, m) : e[1] # x[1])
               => Set(Map!Overlay(S, m), x[1], x[2]) = Map!Overlay(S \cup {x}, m)
         /\ (\E e \in Map!Overlay(S, m) : e[1] = x[1]) => Map!Overlay(S \cup {x}, m) = Map!Overlay(S, m)
<1>1. <<x[1], x[2]>> = x
  BY NodeParts
<1> DEFINE n == x[1]
<1>2. Set(Map!Overlay(S, m), x[1], x[2]) = {e \in Map!Overlay(S, m) : e[1] # n} \cup {x}
  BY <1>1 DEF Set
<1>3. \A e : e \in Map!Overlay(S, m) <=> (e \in S /\ \A f \in m : f[1] # e[1]) \/ e \in m
  BY DEF Map!Overlay
<1>4. \A e : e \in Map!Overlay(S \cup {x}, m)
               <=> ((e \in S \/ e = x) /\ \A f \in m : f[1] # e[1]) \/ e \in m
  BY DEF Map!Overlay
<1>5. x[1] = n /\ \A e \in S : e[1] # n
  OBVIOUS
<1> HIDE DEF n
<1>6. ASSUME \A e \in Map!Overlay(S, m) : e[1] # n
      PROVE  Set(Map!Overlay(S, m), x[1], x[2]) = Map!Overlay(S \cup {x}, m)
  <2>1. \A f \in m : f[1] # n
    BY <1>3, <1>6
  <2> QED BY <1>2, <1>3, <1>4, <1>5, <1>6, <2>1
<1>7. ASSUME NEW e \in Map!Overlay(S, m), e[1] = n
      PROVE  Map!Overlay(S \cup {x}, m) = Map!Overlay(S, m)
  <2>1. e \in m
    BY <1>3, <1>5, <1>7
  <2>2. ~ \A f \in m : f[1] # x[1]
    BY <1>5, <1>7, <2>1
  <2> QED BY <1>3, <1>4, <2>2
<1> QED BY <1>6, <1>7 DEF n

(* The table a callback writes to, and the node it is called with.         *)
LEMMA CopyParts ==
  ASSUME DataInv, LoopInv, VisitInv, AtNode, loop.kind \in {"copy", "merge"}
  PROVE  /\ loop # Idle /\ loop.over \in Table /\ loop.on \in alive \cap Table /\ loop.on # loop.over
         /\ Here[loop.p] \in Node /\ Here[loop.p][1] \in Name /\ Here[loop.p][2] \in Data
         /\ \A e \in loop.seen : e[1] # Here[loop.p][1]
         /\ \A u \in Table : Gone(u) = 0
<1>0. Visiting /\ loop # Idle /\ ~Removing /\ loop.p \in DOMAIN Here
  BY InLoop DEF AtNode
<1> PICK t \in Table : t = loop.over
  BY <1>0 DEF LoopInv
<1>1. t \in Object /\ loop.on \in alive \cap Table /\ loop.on # loop.over
  BY <1>0 DEF LoopInv, Object
<1> PICK i \in Buckets(t) : i = loop.i
  BY <1>0, LoopParts
<1> PICK p \in DOMAIN chain[t][i] : p = loop.p
  BY <1>0 DEF Here
<1> PICK x : x = chain[t][i][p]
  OBVIOUS
<1>2. Here[loop.p] = x
  BY DEF Here
<1>3. Sound(t) /\ \A e, f \in Entries(t) : e[1] = f[1] => e = f
  BY TableParts
<1>4. x \notin Met(t, i, p) /\ x \in Entries(t) /\ x \in Node
  BY <1>1, <1>3, MetOne DEF DataInv
<1>5. loop.seen = Met(t, i, p)
  BY <1>0 DEF VisitInv
<1>6. \A e \in loop.seen : e \in Entries(t)
  BY <1>5 DEF Met
<1>7. \A e \in loop.seen : e[1] # x[1]
  BY <1>3, <1>4, <1>5, <1>6
<1>8. \A u \in Table : Gone(u) = 0
  BY <1>0 DEF Gone
<1> QED BY <1>0, <1>1, <1>2, <1>4, <1>7, <1>8, NodeParts

(* Putting the node in the table of the callback leaves the other alone.   *)
LEMMA CopyPut ==
  ASSUME DataInv, LoopInv, VisitInv, AtNode, loop.kind \in {"copy", "merge"}, loop' = Visited,
         alive' = alive, Put(loop.on, Here[loop.p][1], Here[loop.p][2])
  PROVE  /\ DataInv' /\ Same(loop.over) /\ count'[loop.over] = count[loop.over]
         /\ Entries(loop.on)' = Set(Entries(loop.on), Here[loop.p][1], Here[loop.p][2])
         /\ \A u \in Object \ {loop.on} : Same(u)
<1> PICK d \in alive \cap Table : d = loop.on
  BY CopyParts
<1> PICK n \in Name : n = Here[loop.p][1]
  BY CopyParts
<1> PICK v \in Data : v = Here[loop.p][2]
  BY CopyParts
<1>1. loop # Idle /\ loop.over \in Table /\ loop.over # d /\ d \in Object /\ loop.over \in Object
  BY CopyParts DEF Object
<1>2. Put(d, n, v)
  BY DEF Put, Insert, Replace
<1>3. Sound(d)
  BY TableParts
<1>4. /\ Chains' /\ Sound(d)' /\ Entries(d)' = Set(Entries(d), n, v)
      /\ \A u \in Object \ {d} : Same(u)
      /\ (\A e \in Entries(d) : e[1] # n) => count' = [count EXCEPT ![d] = @ + 1]
      /\ (\E e \in Entries(d) : e[1] = n) => count' = count
  BY <1>1, <1>2, <1>3, PutResult DEF DataInv
<1>5. Same(loop.over)
  BY <1>1, <1>4
<1>6. count'[loop.over] = count[loop.over]
  BY <1>1, <1>4 DEF DataInv
<1>7. \A u \in Table : Gone(u) = 0 /\ Gone(u)' = 0
  BY <1>5, <1>6, VisitStep
<1>8. DataInv'
  BY <1>2, <1>7, DataPut
<1>9. loop'.on = d
  BY <1>5, <1>6, VisitStep
<1>10. Entries(loop.on)' = Entries(d)'
  BY <1>9 DEF Entries
<1> QED BY <1>4, <1>5, <1>6, <1>8, <1>10

LEMMA CopyNodeLoop ==
  ASSUME DataInv, LoopInv, VisitInv, CopyInv, CopyNode
  PROVE  DataInv' /\ LoopInvs' /\ \A u \in Object \ {loop.on} : Same(u)
<1>1. AtNode /\ loop.kind = "copy" /\ loop' = Visited /\ alive' = alive
      /\ Put(loop.on, Here[loop.p][1], Here[loop.p][2])
  BY DEF CopyNode
<1>2. /\ DataInv' /\ Same(loop.over) /\ count'[loop.over] = count[loop.over]
      /\ Entries(loop.on)' = Set(Entries(loop.on), Here[loop.p][1], Here[loop.p][2])
      /\ \A u \in Object \ {loop.on} : Same(u)
  BY <1>1, CopyPut
<1>3. /\ LoopInv' /\ RemoveInv' /\ VisitInv'
      /\ loop'.kind = loop.kind /\ loop'.on = loop.on /\ loop'.before = loop.before
      /\ loop'.seen = loop.seen \cup {Here[loop.p]}
  BY <1>1, <1>2, VisitStep
<1> PICK x : x = Here[loop.p]
  OBVIOUS
<1>4. x \in Node /\ \A e \in loop.seen : e[1] # x[1]
  BY <1>1, CopyParts
<1>5. Entries(loop.on) = Map!Overlay(loop.before, loop.seen)
  BY <1>1 DEF CopyInv
<1>6. Entries(loop.on)' = Map!Overlay(loop.before, loop.seen \cup {x})
  BY <1>2, <1>4, <1>5, CopiesOne
<1>7. CopyInv'
  BY <1>1, <1>3, <1>6 DEF CopyInv
<1>8. FullInv'
  BY <1>1, <1>3 DEF FullInv
<1> QED BY <1>2, <1>3, <1>7, <1>8 DEF LoopInvs

LEMMA MergeNodeLoop ==
  ASSUME DataInv, LoopInv, VisitInv, CopyInv, MergeNode
  PROVE  DataInv' /\ LoopInvs' /\ \A u \in Object \ {loop.on} : Same(u)
<1>1. AtNode /\ loop.kind = "merge" /\ loop' = Visited /\ alive' = alive
  BY DEF MergeNode
<1> PICK x : x = Here[loop.p]
  OBVIOUS
<1>4. x \in Node /\ (\A e \in loop.seen : e[1] # x[1]) /\ x[1] \in Name /\ loop.on \in Table
  BY <1>1, CopyParts
<1> PICK d \in Table : d = loop.on
  BY <1>4
<1>5. Entries(d) = Map!Overlay(loop.seen, loop.before)
  BY <1>1 DEF CopyInv
<1>6. Got(d, x[1]) = {e \in Entries(d) : e[1] = x[1]}
  BY <1>4, TableParts, GotIsEntry DEF DataInv
<1>7. CASE Got(d, x[1]) = {}
  <2>1. Put(loop.on, Here[loop.p][1], Here[loop.p][2])
    BY <1>7 DEF MergeNode
  <2>2. /\ DataInv' /\ Same(loop.over) /\ count'[loop.over] = count[loop.over]
        /\ Entries(loop.on)' = Set(Entries(d), x[1], x[2])
        /\ \A u \in Object \ {loop.on} : Same(u)
    BY <1>1, <2>1, CopyPut
  <2>3. /\ LoopInv' /\ RemoveInv' /\ VisitInv'
        /\ loop'.kind = loop.kind /\ loop'.on = loop.on /\ loop'.before = loop.before
        /\ loop'.seen = loop.seen \cup {x}
    BY <1>1, <2>2, VisitStep
  <2>4. \A e \in Map!Overlay(loop.seen, loop.before) : e[1] # x[1]
    BY <1>5, <1>6, <1>7
  <2>5. Entries(loop.on)' = Map!Overlay(loop.seen \cup {x}, loop.before)
    BY <1>4, <1>5, <2>2, <2>4, MergesOne
  <2>6. CopyInv'
    BY <1>1, <2>3, <2>5 DEF CopyInv
  <2>7. FullInv'
    BY <1>1, <2>3 DEF FullInv
  <2> QED BY <2>2, <2>3, <2>6, <2>7 DEF LoopInvs
<1>8. CASE Got(d, x[1]) # {}
  <2>1. chain' = chain /\ count' = count
    BY <1>8 DEF MergeNode
  <2>2. \A u : Same(u)
    BY <2>1 DEF Same
  <2>3. /\ LoopInv' /\ RemoveInv' /\ VisitInv' /\ \A u \in Table : Gone(u) = 0 /\ Gone(u)' = 0
        /\ loop'.kind = loop.kind /\ loop'.on = loop.on /\ loop'.before = loop.before
        /\ loop'.seen = loop.seen \cup {x}
    BY <1>1, <2>1, <2>2, VisitStep
  <2>4. \E e \in Map!Overlay(loop.seen, loop.before) : e[1] = x[1]
    BY <1>5, <1>6, <1>8
  <2>5. Entries(loop.on)' = Entries(d)
    BY <2>1, <2>3 DEF Entries
  <2>6. Entries(loop.on)' = Map!Overlay(loop.seen \cup {x}, loop.before)
    BY <1>4, <1>5, <2>4, <2>5, MergesOne
  <2>7. CopyInv'
    BY <1>1, <2>3, <2>6 DEF CopyInv
  <2>8. FullInv'
    BY <1>1, <2>3 DEF FullInv
  <2>9. DataInv'
    BY <1>1, <2>1, <2>3, DataSame
  <2> QED BY <2>2, <2>3, <2>7, <2>8, <2>9 DEF LoopInvs
<1> QED BY <1>7, <1>8

(* A full array is copied place by place: the call for place i is call i.  *)
LEMMA ArrayNodeLoop ==
  ASSUME DataInv, LoopInv, VisitInv, FullInv, ArrayNode
  PROVE  DataInv' /\ LoopInvs' /\ \A u \in Object \ {loop.on} : Same(u)
<1>1. AtNode /\ loop.kind = "array" /\ loop' = Visited /\ alive' = alive /\ count' = count
  BY DEF ArrayNode
<1>0. Visiting /\ loop # Idle /\ ~Removing /\ loop.p \in DOMAIN Here
  BY <1>1, InLoop DEF AtNode
<1> PICK s \in Array : s = loop.over
  BY <1>0, <1>1 DEF LoopInv
<1> PICK d \in alive \cap Array : d = loop.on
  BY <1>0, <1>1 DEF LoopInv
<1> PICK x : x = Here[loop.p]
  OBVIOUS
<1> PICK n \in Nat : n = loop.n
  BY <1>0, LoopParts
<1> PICK i \in Buckets(s) : i = loop.i
  BY <1>0, LoopParts
<1>2. d # s /\ s \in Object /\ s \notin Table /\ i \in Nat /\ i < HashSize[s]
  BY <1>0, <1>1, LoopParts, ArrayParts DEF LoopInv
<1>3. Here = chain[s][i] /\ Here \in Seq(Node) /\ Len(Here) \in {0, 1}
  BY <1>0, HereIsChain, ArrayParts DEF Here
<1>4. loop.p \in DOMAIN Here /\ x \in Node
  BY <1>0, <1>3
<1>5. PutAt(d, n, x)
  BY DEF ArrayNode, PutAt
<1>6. /\ n < count[d] => n \in Buckets(d) /\ count[d] = HashSize[d] /\ Becomes(d, n, <<x>>)
      /\ ~(n < count[d]) => chain' = chain
  BY <1>4, <1>5, PutAtResult
<1>7. \A u \in Object \ {d} : Same(u)
  BY <1>6 DEF Becomes, Same
<1>8. /\ LoopInv' /\ RemoveInv' /\ VisitInv' /\ \A u \in Table : Gone(u) = 0 /\ Gone(u)' = 0
      /\ loop'.kind = loop.kind /\ loop'.over = s /\ loop'.on = d
      /\ loop'.i = i /\ loop'.p = loop.p + 1 /\ loop'.n = n + 1
  <2>1. Same(loop.over) /\ count'[loop.over] = count[loop.over]
    BY <1>1, <1>2, <1>7
  <2> QED BY <1>1, <2>1, VisitStep
<1>9. DataInv'
  BY <1>1, <1>4, <1>5, <1>8, DataPutAt
<1>10. CopyInv'
  BY <1>1, <1>8 DEF CopyInv
<1>11. FullInv'
  <2>0. chain'[s] = chain[s]
    BY <1>2, <1>7 DEF Same
  <2> SUFFICES ASSUME Full(s)
               PROVE  /\ n + 1 = i + (loop.p + 1) - 1
                      /\ count[d] >= HashSize[s] =>
                           \A j \in Buckets(s) : j < n + 1 => chain'[d][j] = chain[s][j]
    BY <1>1, <1>8, <2>0 DEF FullInv, Full
  <2>1. Len(Here) = 1 /\ Here = <<Here[1]>>
    <3>1. Here # <<>>
      BY <1>3 DEF Full
    <3>2. Len(Here) # 0
      BY <1>3, <3>1
    <3>3. Len(Here) = 1
      BY <1>3, <3>2
    <3>4. \A c \in Seq(Node) : Len(c) = 1 => c = <<c[1]>>
      OBVIOUS
    <3> QED BY <1>3, <3>3, <3>4
  <2>2. loop.p = 1
    BY <1>3, <1>4, <2>1
  <2>3. n = i + loop.p - 1
    BY <1>1 DEF FullInv
  <2>4. n = i
    BY <1>2, <2>2, <2>3
  <2>5. ASSUME count[d] >= HashSize[s], NEW j \in Buckets(s), j < n + 1
        PROVE  chain'[d][j] = chain[s][j]
    <3>1. /\ count[d] \in {0, HashSize[d]} /\ count[d] \in Nat /\ HashSize[d] \in Nat \ {0}
          /\ HashSize[s] \in Nat \ {0}
      BY ArrayParts
    <3>2. n < count[d]
      BY <1>2, <2>4, <2>5, <3>1
    <3>3. count[d] = HashSize[d] /\ Becomes(d, n, <<x>>)
      BY <1>6, <3>2
    <3>4. j \in Buckets(d) /\ j \in Nat
      BY <2>5, <3>1, <3>3 DEF Buckets
    <3>5. CASE j = n
      <4>1. chain'[d][j] = <<x>>
        BY <3>3, <3>5 DEF Becomes
      <4>2. <<x>> = Here
        BY <2>1, <2>2
      <4> QED BY <1>3, <2>4, <3>5, <4>1, <4>2
    <3>6. CASE j # n
      <4>1. j < n
        BY <2>5, <3>4, <3>6
      <4>2. chain[d][j] = chain[s][j]
        BY <1>1, <2>5, <4>1 DEF FullInv
      <4>3. chain'[d][j] = chain[d][j]
        BY <3>3, <3>4, <3>6 DEF Becomes
      <4> QED BY <4>2, <4>3
    <3> QED BY <3>5, <3>6
  <2> QED BY <1>2, <2>2, <2>4, <2>5
<1> QED BY <1>7, <1>8, <1>9, <1>10, <1>11 DEF LoopInvs

-----------------------------------------------------------------------------
(* The inductive invariant.                                                *)
AttribInv == DataInv /\ LoopInvs

LEMMA InvInit == Init => AttribInv
<1> SUFFICES ASSUME Init PROVE LoopInvs
  BY DataInit DEF AttribInv
<1>1. loop = Idle
  BY DEF Init
<1> QED BY <1>1 DEF LoopInvs, LoopInv, RemoveInv, VisitInv, CopyInv, FullInv, Removing, Visiting, Idle

LEMMA InvStutters == AttribInv /\ UNCHANGED vars => AttribInv'
<1> SUFFICES ASSUME AttribInv, UNCHANGED vars PROVE AttribInv'
  OBVIOUS
<1>1. chain' = chain /\ count' = count /\ alive' = alive /\ loop' = loop
  BY DEF vars
<1>2. \A u \in Table : Gone(u)' = Gone(u)
  BY <1>1 DEF Gone, Removing
<1>3. DataInv'
  BY <1>1, <1>2, DataSame DEF AttribInv
<1>4. LoopInv' /\ RemoveInv'
  BY <1>1 DEF AttribInv, LoopInvs, LoopInv, RemoveInv, Removing, Here
<1>5. VisitInv'
  BY <1>1 DEF AttribInv, LoopInvs, VisitInv, Visiting, Met, Entries, Here
<1>6. CopyInv'
  BY <1>1 DEF AttribInv, LoopInvs, CopyInv, Entries
<1>7. FullInv'
  BY <1>1 DEF AttribInv, LoopInvs, FullInv, Full
<1> QED BY <1>3, <1>4, <1>5, <1>6, <1>7 DEF AttribInv, LoopInvs

(* The operations that need no loop, and those that begin one.             *)
Immediate(t) ==
  \/ Create(t)
  \/ (Destroy(t) /\ count[t] = 0)
  \/ \E n \in Name : imAttribTableUnSet(t, n)
  \/ \E n \in Name, d \in Data : imAttribTableSet(t, n, d)
  \/ \E n \in Name, d \in Data, i \in Buckets(t) : imAttribArraySet(t, i, n, d)

Beginning(t) ==
  \/ (Destroy(t) /\ count[t] # 0)
  \/ RemoveAll(t) \/ ForEach(t)
  \/ \E s \in Object : CopyFrom(t, s) \/ MergeFrom(t, s) \/ ArrayCopyFrom(t, s)

LEMMA UserKinds == ASSUME NEW t, User(t) PROVE Immediate(t) \/ Beginning(t)
<1>1. CASE Create(t)
  BY <1>1 DEF Immediate
<1>2. CASE Destroy(t)
  BY <1>2 DEF Immediate, Beginning
<1>3. CASE \/ RemoveAll(t) \/ ForEach(t)
           \/ \E s \in Object : CopyFrom(t, s) \/ MergeFrom(t, s) \/ ArrayCopyFrom(t, s)
  BY <1>3 DEF Beginning
<1>4. CASE \E n \in Name :
             \/ imAttribTableUnSet(t, n)
             \/ \E d \in Data :
                  \/ imAttribTableSet(t, n, d)
                  \/ \E i \in Buckets(t) : imAttribArraySet(t, i, n, d)
  <2>1. PICK n \in Name :
             \/ imAttribTableUnSet(t, n)
             \/ \E d \in Data :
                  \/ imAttribTableSet(t, n, d)
                  \/ \E i \in Buckets(t) : imAttribArraySet(t, i, n, d)
    BY <1>4
  <2> QED BY <2>1 DEF Immediate
<1> QED BY <1>1, <1>2, <1>3, <1>4 DEF User

LEMMA AtOnce ==
  ASSUME AttribInv, NEW t \in Object, Immediate(t)
  PROVE  AttribInv' /\ loop = Idle /\ loop' = Idle /\ \A u \in Object \ {t} : Same(u)
<1>0. DataInv
  BY DEF AttribInv
<1>1. CASE Create(t)
  <2>1. loop = Idle /\ loop' = Idle
    BY <1>1 DEF Create
  <2> QED BY <1>0, <1>1, <2>1, DataCreate, IdleAfter DEF AttribInv
<1>2. CASE Destroy(t) /\ count[t] = 0
  <2>1. loop = Idle /\ loop' = Idle /\ chain' = chain
    BY <1>2 DEF Destroy
  <2>2. \A u : Same(u)
    BY <2>1 DEF Same
  <2> QED BY <1>0, <1>2, <2>1, <2>2, DataDestroyEmpty, IdleAfter DEF AttribInv
<1>3. ASSUME NEW n \in Name, imAttribTableUnSet(t, n)
      PROVE  AttribInv' /\ loop = Idle /\ loop' = Idle /\ \A u \in Object \ {t} : Same(u)
  <2>1. loop = Idle /\ loop' = Idle /\ t \in Table
    BY <1>3 DEF imAttribTableUnSet
  <2>2. \A u \in Object \ {t} : Same(u)
    BY <1>0, <1>3, <2>1, UnSetResult, TableParts DEF DataInv
  <2> QED BY <1>0, <1>3, <2>1, <2>2, DataUnSet, IdleAfter DEF AttribInv
<1>4. ASSUME NEW n \in Name, NEW d \in Data, imAttribTableSet(t, n, d)
      PROVE  AttribInv' /\ loop = Idle /\ loop' = Idle /\ \A u \in Object \ {t} : Same(u)
  <2>1. loop = Idle /\ loop' = Idle /\ t \in alive \cap Table /\ Put(t, n, d) /\ alive' = alive
    BY <1>4 DEF imAttribTableSet
  <2>2. \A u \in Object \ {t} : Same(u)
    BY <1>0, <2>1, PutResult, TableParts DEF DataInv
  <2>3. \A u \in Table : Gone(u) = 0 /\ Gone(u)' = 0
    BY <2>1 DEF Gone, Removing, Idle
  <2> QED BY <1>0, <2>1, <2>2, <2>3, DataPut, IdleAfter DEF AttribInv
<1>5. ASSUME NEW n \in Name, NEW d \in Data, NEW i \in Buckets(t), imAttribArraySet(t, i, n, d)
      PROVE  AttribInv' /\ loop = Idle /\ loop' = Idle /\ \A u \in Object \ {t} : Same(u)
  <2> PICK x \in Node : x = <<n, d>>
    BY DEF Node
  <2>1. /\ loop = Idle /\ loop' = Idle /\ t \in alive \cap Array /\ PutAt(t, i, x)
        /\ alive' = alive /\ count' = count
    BY <1>5 DEF imAttribArraySet
  <2>2. i \in Nat
    BY SizeAssumption DEF Buckets
  <2>3. \A u \in Object \ {t} : Same(u)
    BY <1>0, <2>1, <2>2, PutAtResult DEF Becomes, Same
  <2>4. \A u \in Table : Gone(u)' = Gone(u)
    BY <2>1 DEF Gone, Removing, Idle
  <2> QED BY <1>0, <2>1, <2>2, <2>3, <2>4, DataPutAt, IdleAfter DEF AttribInv
<1> QED BY <1>1, <1>2, <1>3, <1>4, <1>5 DEF Immediate

(* A call that begins a loop.                                              *)
Starts(kind, t, d) ==
  /\ loop = Idle /\ loop' = Loop(kind, t, d) /\ t \in alive /\ d \in alive /\ count[t] # 0
  /\ kind \in {"remove", "destroy", "tell"} => d = t
  /\ kind \in {"tell", "copy", "merge"} => {t, d} \subseteq Table
  /\ kind = "array" => {t, d} \subseteq Array
  /\ kind \in {"copy", "merge", "array"} => d # t
  /\ UNCHANGED <<alive, chain, count>>

Kinds == {"remove", "destroy", "tell", "copy", "merge", "array"}

LEMMA UserStarts ==
  ASSUME NEW t \in Object, Beginning(t)
  PROVE  \E kind \in Kinds, o \in Object, d \in Object : Starts(kind, o, d)
<1>1. CASE Destroy(t) /\ count[t] # 0
  <2>1. Starts("destroy", t, t)
    BY <1>1 DEF Destroy, Starts
  <2> QED BY <2>1 DEF Kinds
<1>2. CASE RemoveAll(t)
  <2>1. Starts("remove", t, t)
    BY <1>2 DEF RemoveAll, Starts
  <2> QED BY <2>1 DEF Kinds
<1>3. CASE ForEach(t)
  <2>1. Starts("tell", t, t)
    BY <1>3 DEF ForEach, Starts
  <2> QED BY <2>1 DEF Kinds
<1>4. ASSUME NEW s \in Object, CopyFrom(t, s) \/ MergeFrom(t, s) \/ ArrayCopyFrom(t, s)
      PROVE  \E kind \in Kinds : Starts(kind, s, t)
  <2>1. CASE CopyFrom(t, s)
    <3>1. Starts("copy", s, t)
      BY <2>1 DEF CopyFrom, CopyBegins, Starts
    <3> QED BY <3>1 DEF Kinds
  <2>2. CASE MergeFrom(t, s)
    <3>1. Starts("merge", s, t)
      BY <2>2 DEF MergeFrom, CopyBegins, Starts
    <3> QED BY <3>1 DEF Kinds
  <2>3. CASE ArrayCopyFrom(t, s)
    <3>1. Starts("array", s, t)
      BY <2>3 DEF ArrayCopyFrom, CopyBegins, Starts
    <3> QED BY <3>1 DEF Kinds
  <2> QED BY <1>4, <2>1, <2>2, <2>3
<1> QED BY <1>1, <1>2, <1>3, <1>4 DEF Beginning

LEMMA InvStarts ==
  ASSUME AttribInv, NEW kind \in Kinds, NEW t \in Object, NEW d \in Object, Starts(kind, t, d)
  PROVE  AttribInv'
<1>1. DataInv /\ loop = Idle
  BY DEF AttribInv, Starts
<1>2. ~Removing
  BY <1>1, IdleNothingGone
<1>3. /\ loop' = Loop(kind, t, d) /\ t \in alive /\ d \in alive /\ count[t] # 0
      /\ kind \in {"remove", "destroy", "tell"} => d = t
      /\ kind \in {"tell", "copy", "merge"} => {t, d} \subseteq Table
      /\ kind = "array" => {t, d} \subseteq Array
      /\ kind \in {"copy", "merge", "array"} => d # t
      /\ alive' = alive /\ chain' = chain /\ count' = count
  BY DEF Starts
<1> QED BY <1>1, <1>2, <1>3, Begins DEF AttribInv, Kinds

(* A visit that ends, by itself or because the callback said so.           *)
LEMMA InvVisitEnds ==
  ASSUME AttribInv, TellStops \/ VisitEnd
  PROVE  AttribInv' /\ loop' = Idle /\ chain' = chain /\ alive' = alive
<1>1. Visiting /\ loop' = Idle /\ chain' = chain /\ count' = count /\ alive' = alive
  BY DEF TellStops, VisitEnd, AtNode
<1>2. \A u \in Table : Gone(u)' = Gone(u)
  BY <1>1, InLoop DEF Gone, Removing, Idle
<1>3. DataInv'
  BY <1>1, <1>2, DataSame DEF AttribInv
<1> QED BY <1>1, <1>3, IdleAfter DEF AttribInv

LEMMA InvWalk == AttribInv /\ Walk => AttribInv'
<1> SUFFICES ASSUME AttribInv, Walk PROVE AttribInv'
  OBVIOUS
<1>1. DataInv /\ LoopInv /\ RemoveInv /\ VisitInv /\ CopyInv /\ FullInv
  BY DEF AttribInv, LoopInvs
<1>2. CASE RemoveNode
  BY <1>1, <1>2, DataRemoveNode, RemoveNodeLoop DEF AttribInv
<1>3. CASE RemoveNext
  BY <1>1, <1>3, RemoveNextLoop DEF AttribInv
<1>4. CASE RemoveEnd
  BY <1>1, <1>4, DataRemoveEnd, IdleAfter DEF AttribInv
<1>5. CASE TellNode
  BY <1>1, <1>5, TellNodeLoop DEF AttribInv
<1>6. CASE TellStops \/ VisitEnd
  BY <1>6, InvVisitEnds
<1>7. CASE CopyNode
  BY <1>1, <1>7, CopyNodeLoop DEF AttribInv
<1>8. CASE MergeNode
  BY <1>1, <1>8, MergeNodeLoop DEF AttribInv
<1>9. CASE ArrayNode
  BY <1>1, <1>9, ArrayNodeLoop DEF AttribInv
<1>10. CASE VisitNext
  BY <1>1, <1>10, VisitNextLoop DEF AttribInv
<1> QED BY <1>2, <1>3, <1>4, <1>5, <1>6, <1>7, <1>8, <1>9, <1>10 DEF Walk

LEMMA InvUser == ASSUME AttribInv, NEW t \in Object, User(t) PROVE AttribInv'
BY UserKinds, AtOnce, UserStarts, InvStarts

LEMMA InvStep == AttribInv /\ [Next]_vars => AttribInv'
BY InvWalk, InvUser, InvStutters DEF Next

LEMMA InvAlways == Spec => []AttribInv
BY InvInit, InvStep, PTL DEF Spec

-----------------------------------------------------------------------------
(* Types: lists hold nodes, counts are never negative, and a loop never    *)
(* leaves the array of chains (im_attrib.cpp:132, :277).                   *)
THEOREM AttribTypeCorrect == Spec => []TypeOK
<1>1. AttribInv => TypeOK
  BY DEF AttribInv, DataInv, Chains, LoopInvs, LoopInv, TypeOK
<1> QED BY <1>1, InvAlways, PTL

(* Between operations each name is once in a table and in the chain of its *)
(* hash, count is the number of nodes, and imAttribTableGet gives what is  *)
(* stored under a name (im_attrib.cpp:153-242).                             *)
THEOREM ChainsAlwaysSound == Spec => []ChainsAreSound
<1>1. AttribInv => ChainsAreSound
  <2> SUFFICES ASSUME AttribInv, loop = Idle, NEW t \in alive \cap Table
               PROVE  /\ \A i \in Buckets(t) : \A p \in DOMAIN chain[t][i] :
                           /\ iHashIndex(t, chain[t][i][p][1]) = i
                           /\ \A q \in DOMAIN chain[t][i] :
                                chain[t][i][p][1] = chain[t][i][q][1] => p = q
                      /\ count[t] = Cardinality(Entries(t))
                      /\ \A n \in Name : Got(t, n) = {e \in Entries(t) : e[1] = n}
    BY DEF ChainsAreSound
  <2>1. DataInv /\ ~Removing
    BY IdleNothingGone DEF AttribInv
  <2>2. /\ t \in Object /\ Sound(t) /\ Cardinality(Entries(t)) \in Nat
        /\ count[t] = Cardinality(Entries(t)) + 0 /\ (count[t] = 0 => Entries(t) = {})
    BY <2>1, TableParts, NothingGone
  <2>3. \A n \in Name : Got(t, n) = {e \in Entries(t) : e[1] = n}
    BY <2>1, <2>2, GotIsEntry DEF DataInv
  <2>4. count[t] = Cardinality(Entries(t))
    BY <2>2
  <2> QED BY <2>2, <2>3, <2>4 DEF Sound, Unique, Hashed
<1> QED BY <1>1, InvAlways, PTL

(* The early exits of imAttribTableRemoveAll forget no node, in a table or *)
(* in an array with holes (im_attrib.cpp:116-150).                         *)
THEOREM NothingEverLeaks == Spec => []NothingLeaks
<1>1. AttribInv => NothingLeaks
  BY DEF AttribInv, DataInv, EmptyInv, NothingLeaks
<1> QED BY <1>1, InvAlways, PTL

(* A loop of ForEach that nobody stopped met each entry once, whichever of *)
(* its two exits it took (im_attrib.cpp:273-294).                          *)
THEOREM VisitAlwaysMeetsAll == Spec => []VisitMeetsAll
<1>1. AttribInv => VisitMeetsAll
  <2> SUFFICES ASSUME AttribInv, Visiting, VisitDone
               PROVE  /\ loop.seen = Entries(loop.over)
                      /\ loop.over \in Table => loop.n = Cardinality(loop.seen)
    BY DEF VisitMeetsAll
  <2>1. DataInv /\ LoopInv /\ VisitInv
    BY DEF AttribInv, LoopInvs
  <2> QED BY <2>1, AllVisited DEF VisitInv
<1> QED BY <1>1, InvAlways, PTL

(* An array without holes is copied place by place into one large enough,  *)
(* although iCopyArrayFunc takes the index of the call                     *)
(* (im_attrib.cpp:324-335).                                                *)
THEOREM FullArrayAlwaysCopied == Spec => []FullArrayCopied
<1>1. AttribInv => FullArrayCopied
  <2> SUFFICES ASSUME AttribInv, Visiting, VisitDone, loop.kind = "array",
                      Full(loop.over), count[loop.on] >= HashSize[loop.over]
               PROVE  \A i \in Buckets(loop.over) : chain[loop.on][i] = chain[loop.over][i]
    BY DEF FullArrayCopied, Full
  <2>1. DataInv /\ LoopInv /\ VisitInv /\ loop # Idle
    BY InLoop DEF AttribInv, LoopInvs
  <2>2. loop.over \in Array
    BY <2>1 DEF LoopInv
  <2>3. loop.i + 1 = HashSize[loop.over]
    BY <2>1, <2>2, AllVisited DEF LastBucket
  <2>4. /\ loop.n = loop.i + loop.p - 1
        /\ \A j \in Buckets(loop.over) : j < loop.n => chain[loop.on][j] = chain[loop.over][j]
    BY DEF AttribInv, LoopInvs, FullInv
  <2>5. Here # <<>> /\ loop.p = Len(Here) + 1 /\ Len(Here) \in Nat /\ Here \in Seq(Node)
    BY <2>1, PastEnd, HereIsChain DEF Here, Full, VisitDone, LoopInv
  <2>6. PICK l \in Nat : l = Len(Here)
    BY <2>5
  <2>7. l # 0 /\ loop.p = l + 1
    BY <2>5, <2>6
  <2>8. loop.i \in Nat /\ loop.n \in Nat /\ HashSize[loop.over] \in Nat
    BY <2>1, LoopParts
  <2>9. loop.n >= HashSize[loop.over]
    BY <2>3, <2>4, <2>7, <2>8
  <2>10. \A j \in Buckets(loop.over) : j < loop.n
    BY <2>8, <2>9 DEF Buckets
  <2> QED BY <2>4, <2>10
<1> QED BY <1>1, InvAlways, PTL

-----------------------------------------------------------------------------
(* The tables as a map: what is under way has not happened yet.            *)
MapOf(t) == IF loop # Idle /\ t = loop.on THEN loop.before ELSE Entries(t)
TheMap == [t \in Table |-> MapOf(t)]

LEMMA MapSame ==
  ASSUME alive' \cap Table = alive \cap Table, \A u \in Table : MapOf(u)' = MapOf(u)
  PROVE  UNCHANGED Map!vars
<1>1. TheMap' = TheMap
  BY DEF TheMap
<1> QED BY <1>1 DEF Map!vars, TheMap, MapOf

LEMMA MapOne ==
  ASSUME NEW t \in Table, NEW m, MapOf(t)' = m, \A u \in Table \ {t} : MapOf(u)' = MapOf(u)
  PROVE  TheMap' = [TheMap EXCEPT ![t] = m]
<1>1. TheMap' = [u \in Table |-> IF u = t THEN m ELSE MapOf(u)]
  BY DEF TheMap
<1> QED BY <1>1 DEF TheMap

LEMMA MapIdle ==
  /\ loop = Idle => \A t : MapOf(t) = Entries(t)
  /\ loop' = Idle => \A t : MapOf(t)' = Entries(t)'
BY DEF MapOf, Entries

LEMMA TableOrArray == \A t \in Object : t \in Table <=> t \notin Array
BY ObjectAssumption DEF Object

(* An operation without a loop is one operation of the map.                *)
LEMMA ImmediateMaps ==
  ASSUME AttribInv, NEW t \in Object, Immediate(t)
  PROVE  [Map!Next]_(Map!vars)
<1>1. DataInv /\ loop = Idle /\ loop' = Idle /\ \A u \in Object \ {t} : Same(u)
  BY AtOnce DEF AttribInv
<1>2. \A u : MapOf(u) = Entries(u) /\ MapOf(u)' = Entries(u)'
  BY <1>1, MapIdle
<1>3. \A u \in Table \ {t} : MapOf(u)' = MapOf(u)
  <2>1. \A u \in Table \ {t} : Entries(u)' = Entries(u)
    BY <1>1, SameEntries DEF Object
  <2> QED BY <1>2, <2>1
<1>4. ASSUME t \in Array, alive' \cap Table = alive \cap Table PROVE UNCHANGED Map!vars
  BY <1>3, <1>4, TableOrArray, MapSame
<1>5. CASE Create(t)
  <2>1. alive' = alive \cup {t} /\ t \notin alive /\ Entries(t)' = {} /\ Entries(t) = {}
    BY <1>1, <1>5, DataCreate DEF Create, DataInv, EmptyInv
  <2>2. CASE t \in Table
    <3>1. \A u \in Table : MapOf(u)' = MapOf(u)
      BY <1>2, <1>3, <2>1
    <3>2. TheMap' = TheMap
      BY <3>1 DEF TheMap
    <3>3. Map!Create(t)
      BY <2>1, <2>2, <3>2 DEF Map!Create, TheMap, MapOf
    <3> QED BY <2>2, <3>3 DEF Map!Next
  <2>3. CASE t \notin Table
    BY <1>4, <2>1, <2>3, TableOrArray
  <2> QED BY <2>2, <2>3
<1>6. CASE Destroy(t) /\ count[t] = 0
  <2>1. t \in alive /\ alive' = alive \ {t} /\ chain' = chain /\ Entries(t) = {}
    BY <1>1, <1>6, DataDestroyEmpty DEF Destroy
  <2>2. CASE t \in Table
    <3>1. MapOf(t)' = {}
      BY <1>2, <2>1 DEF Entries
    <3>2. TheMap' = [TheMap EXCEPT ![t] = {}]
      BY <1>3, <2>2, <3>1, MapOne
    <3>3. Map!Destroy(t)
      BY <2>1, <2>2, <3>2 DEF Map!Destroy, TheMap, MapOf
    <3> QED BY <2>2, <3>3 DEF Map!Next
  <2>3. CASE t \notin Table
    BY <1>4, <2>1, <2>3, TableOrArray
  <2> QED BY <2>2, <2>3
<1>7. ASSUME NEW n \in Name, imAttribTableUnSet(t, n) PROVE Map!Next
  <2>1. t \in Table /\ t \in alive /\ alive' = alive
    BY <1>7 DEF imAttribTableUnSet
  <2>2. Entries(t)' = {e \in Entries(t) : e[1] # n}
    BY <1>1, <1>7, <2>1, TableParts, UnSetResult DEF DataInv
  <2>3. MapOf(t)' = MapOf(t) \ Map!Of(MapOf(t), n)
    BY <1>2, <2>2 DEF Map!Of
  <2>4. TheMap[t] = MapOf(t)
    BY <2>1 DEF TheMap
  <2>5. TheMap' = [TheMap EXCEPT ![t] = MapOf(t) \ Map!Of(MapOf(t), n)]
    BY <1>3, <2>1, <2>3, MapOne
  <2>6. TheMap' = [TheMap EXCEPT ![t] = @ \ Map!Of(@, n)]
    BY <2>4, <2>5
  <2>7. Map!UnSet(t, n)
    BY <2>1, <2>6 DEF Map!UnSet, TheMap, MapOf
  <2> QED BY <2>1, <2>7 DEF Map!Next
<1>8. ASSUME NEW n \in Name, NEW d \in Data, imAttribTableSet(t, n, d) PROVE Map!Next
  <2>1. t \in Table /\ t \in alive /\ alive' = alive /\ Put(t, n, d)
    BY <1>8 DEF imAttribTableSet
  <2>2. Entries(t)' = Set(Entries(t), n, d)
    BY <1>1, <2>1, TableParts, PutResult DEF DataInv
  <2>3. MapOf(t)' = Map!With(MapOf(t), n, d)
    BY <1>2, <2>2 DEF Map!With, Set
  <2>4. TheMap[t] = MapOf(t)
    BY <2>1 DEF TheMap
  <2>5. TheMap' = [TheMap EXCEPT ![t] = Map!With(MapOf(t), n, d)]
    BY <1>3, <2>1, <2>3, MapOne
  <2>6. TheMap' = [TheMap EXCEPT ![t] = Map!With(@, n, d)]
    BY <2>4, <2>5
  <2>7. Map!Set(t, n, d)
    BY <2>1, <2>6 DEF Map!Set, TheMap, MapOf
  <2> QED BY <2>1, <2>7 DEF Map!Next
<1>9. ASSUME NEW n \in Name, NEW d \in Data, NEW i \in Buckets(t), imAttribArraySet(t, i, n, d)
      PROVE  UNCHANGED Map!vars
  BY <1>4, <1>9 DEF imAttribArraySet
<1> QED BY <1>5, <1>6, <1>7, <1>8, <1>9 DEF Immediate

(* A loop that begins, or goes on, does nothing to the map.                *)
LEMMA StartsMap ==
  ASSUME AttribInv, NEW kind \in Kinds, NEW t \in Object, NEW d \in Object, Starts(kind, t, d)
  PROVE  UNCHANGED Map!vars
<1>1. loop = Idle /\ alive' = alive /\ chain' = chain
  BY DEF Starts
<1>2. loop' # Idle /\ loop'.on = d /\ loop'.before = Entries(d)
  BY LoopIs DEF AttribInv, Starts, Kinds
<1>3. \A u : Entries(u)' = Entries(u)
  BY <1>1 DEF Entries
<1>4. \A u \in Table : MapOf(u)' = MapOf(u)
  BY <1>1, <1>2, <1>3 DEF MapOf
<1> QED BY <1>1, <1>4, MapSame

LEMMA LoopGoesOn ==
  ASSUME loop # Idle, loop' # Idle, loop'.on = loop.on, loop'.before = loop.before,
         alive' = alive, \A u \in Object \ {loop.on} : Same(u)
  PROVE  UNCHANGED Map!vars
<1>1. \A u \in Table \ {loop.on} : Entries(u)' = Entries(u)
  BY SameEntries DEF Object
<1>2. \A u \in Table : MapOf(u)' = MapOf(u)
  BY <1>1 DEF MapOf
<1> QED BY <1>2, MapSame

LEMMA WalkGoesOn ==
  ASSUME AttribInv, RemoveNode \/ RemoveNext \/ TellNode \/ CopyNode \/ MergeNode \/ ArrayNode \/ VisitNext
  PROVE  UNCHANGED Map!vars
<1>1. DataInv /\ LoopInv /\ RemoveInv /\ VisitInv /\ CopyInv /\ FullInv
  BY DEF AttribInv, LoopInvs
<1>2. CASE RemoveNode
  <2>1. /\ Becomes(loop.over, loop.i, Tail(Here)) /\ loop # Idle /\ loop' \in LoopType
        /\ loop'.kind = loop.kind /\ loop'.on = loop.on
        /\ loop'.before = loop.before /\ alive' = alive /\ Removing
    BY <1>1, <1>2, RemoveNodeResult DEF RemoveNode
  <2>2. loop' # Idle /\ loop.on = loop.over
    BY <1>1, <2>1 DEF Removing, Idle, LoopInv
  <2>3. \A u \in Object \ {loop.on} : Same(u)
    BY <2>1, <2>2 DEF Becomes
  <2> QED BY <2>1, <2>2, <2>3, LoopGoesOn
<1>3. CASE RemoveNext \/ VisitNext
  <2>1. PICK b : loop # Idle /\ NextBucket(b)
    BY <1>3, InLoop DEF RemoveNext, VisitNext
  <2>2. loop' # Idle /\ alive' = alive /\ chain' = chain /\ loop'.on = loop.on /\ loop'.before = loop.before
    BY <1>1, <2>1, NextBucketLoop
  <2>3. \A u : Same(u)
    BY <2>2 DEF Same
  <2> QED BY <2>1, <2>2, <2>3, LoopGoesOn
<1>4. CASE TellNode \/ CopyNode \/ MergeNode \/ ArrayNode
  <2>1. /\ AtNode /\ loop' = Visited /\ alive' = alive
        /\ loop.kind \in {"tell", "copy", "merge", "array"}
    BY <1>4 DEF TellNode, CopyNode, MergeNode, ArrayNode
  <2>2. \A u \in Object \ {loop.on} : Same(u)
    <3>1. CASE TellNode
      BY <3>1 DEF TellNode, Same
    <3> QED BY <1>1, <1>4, <3>1, CopyNodeLoop, MergeNodeLoop, ArrayNodeLoop
  <2>3. loop # Idle /\ loop.p \in DOMAIN Here
    BY <2>1, InLoop DEF AtNode
  <2>4. Here[loop.p] \in Node /\ loop \in LoopType
    BY <1>1, <2>3, HereIsChain, LoopParts
  <2>5. /\ loop' \in LoopType /\ loop'.kind = loop.kind /\ loop'.on = loop.on /\ loop'.before = loop.before
    BY <2>1, <2>4, VisitedLoop
  <2>6. loop' # Idle
    BY <2>1, <2>5 DEF Idle
  <2> QED BY <2>1, <2>2, <2>3, <2>5, <2>6, LoopGoesOn
<1> QED BY <1>2, <1>3, <1>4

(* The end of a removal is the removal, and the end of a copy the copy.    *)
LEMMA RemoveEndMaps ==
  ASSUME AttribInv, RemoveEnd
  PROVE  [Map!Next]_(Map!vars)
<1>0. Removing /\ loop # Idle
  BY InLoop DEF RemoveEnd
<1>1. DataInv /\ LoopInv /\ RemoveInv
  BY DEF AttribInv, LoopInvs
<1> PICK t \in Object : t = loop.over /\ t \in alive
  BY <1>0, <1>1, LoopParts
<1>2. loop.on = t
  BY <1>0, <1>1 DEF LoopInv, Removing
<1>3. /\ loop' = Idle /\ Entries(t) = {} /\ chain' = chain
      /\ alive' = IF loop.kind = "destroy" THEN alive \ {t} ELSE alive
  BY <1>1, DataRemoveEnd
<1>4. (\A u : Entries(u)' = Entries(u)) /\ (\A u : MapOf(u)' = Entries(u)')
  BY <1>3, MapIdle DEF Entries
<1>5. MapOf(t)' = {} /\ \A u \in Table \ {t} : MapOf(u)' = MapOf(u)
  BY <1>2, <1>3, <1>4 DEF MapOf
<1>6. CASE t \in Table
  <2>1. TheMap' = [TheMap EXCEPT ![t] = {}]
    BY <1>5, <1>6, MapOne
  <2>2. CASE loop.kind = "destroy"
    <3>1. Map!Destroy(t)
      BY <1>3, <1>6, <2>1, <2>2 DEF Map!Destroy, TheMap, MapOf
    <3> QED BY <1>6, <3>1 DEF Map!Next
  <2>3. CASE loop.kind # "destroy"
    <3>1. Map!RemoveAll(t)
      BY <1>3, <1>6, <2>1, <2>3 DEF Map!RemoveAll, TheMap, MapOf
    <3> QED BY <1>6, <3>1 DEF Map!Next
  <2> QED BY <2>2, <2>3
<1>7. CASE t \notin Table
  BY <1>3, <1>5, <1>7, MapSame
<1> QED BY <1>6, <1>7

LEMMA TellEndMaps ==
  ASSUME AttribInv, TellStops \/ VisitEnd, loop.kind \in {"tell", "array"}
  PROVE  UNCHANGED Map!vars
<1>1. loop # Idle /\ loop' = Idle /\ chain' = chain /\ alive' = alive
  BY InLoop, InvVisitEnds DEF TellStops, VisitEnd, AtNode
<1>2. (\A u : Entries(u)' = Entries(u)) /\ (\A u : MapOf(u)' = Entries(u)')
  BY <1>1, MapIdle DEF Entries
<1>3. CASE loop.kind = "tell"
  <2>1. loop.before = Entries(loop.on)
    BY <1>3 DEF AttribInv, LoopInvs, CopyInv
  <2>2. \A u \in Table : MapOf(u)' = MapOf(u)
    BY <1>2, <2>1 DEF MapOf
  <2> QED BY <1>1, <2>2, MapSame
<1>4. CASE loop.kind = "array"
  <2>1. loop.on \notin Table
    BY <1>1, <1>4, ObjectAssumption DEF AttribInv, LoopInvs, LoopInv
  <2>2. \A u \in Table : MapOf(u)' = MapOf(u)
    BY <1>2, <2>1 DEF MapOf
  <2> QED BY <1>1, <2>2, MapSame
<1> QED BY <1>3, <1>4

LEMMA CopyEndMaps ==
  ASSUME AttribInv, VisitEnd, loop.kind \in {"copy", "merge"}
  PROVE  Map!Next
<1>1. Visiting /\ VisitDone /\ loop # Idle /\ loop' = Idle /\ chain' = chain /\ alive' = alive
  BY InLoop, InvVisitEnds DEF VisitEnd
<1>2. DataInv /\ LoopInv /\ VisitInv /\ CopyInv
  BY DEF AttribInv, LoopInvs
<1> PICK t \in alive \cap Table : t = loop.on
  BY <1>1, <1>2 DEF LoopInv
<1> PICK s \in alive \cap Table : s = loop.over
  BY <1>1, <1>2 DEF LoopInv
<1>3. t # s
  BY <1>1, <1>2 DEF LoopInv
<1>4. (\A u : Entries(u)' = Entries(u)) /\ (\A u : MapOf(u)' = Entries(u)')
  BY <1>1, MapIdle DEF Entries
<1>5. loop.seen = MapOf(s) /\ loop.before = MapOf(t) /\ \A u \in Table \ {t} : MapOf(u)' = MapOf(u)
  BY <1>1, <1>2, <1>3, <1>4, AllVisited DEF MapOf
<1>6. TheMap[t] = MapOf(t) /\ TheMap[s] = MapOf(s)
  BY DEF TheMap
<1>7. CASE loop.kind = "copy"
  <2>1. MapOf(t)' = Map!Overlay(MapOf(t), MapOf(s))
    BY <1>2, <1>4, <1>5, <1>7 DEF CopyInv
  <2>2. TheMap' = [TheMap EXCEPT ![t] = Map!Overlay(MapOf(t), MapOf(s))]
    BY <1>5, <2>1, MapOne
  <2>3. TheMap' = [TheMap EXCEPT ![t] = Map!Overlay(@, TheMap[s])]
    BY <1>6, <2>2
  <2>4. Map!CopyFrom(t, s)
    BY <1>1, <2>3 DEF Map!CopyFrom, TheMap, MapOf
  <2> QED BY <2>4 DEF Map!Next
<1>8. CASE loop.kind = "merge"
  <2>1. MapOf(t)' = Map!Overlay(MapOf(s), MapOf(t))
    BY <1>2, <1>4, <1>5, <1>8 DEF CopyInv
  <2>2. TheMap' = [TheMap EXCEPT ![t] = Map!Overlay(MapOf(s), MapOf(t))]
    BY <1>5, <2>1, MapOne
  <2>3. TheMap' = [TheMap EXCEPT ![t] = Map!Overlay(TheMap[s], @)]
    BY <1>6, <2>2
  <2>4. Map!MergeFrom(t, s)
    BY <1>1, <2>3 DEF Map!MergeFrom, TheMap, MapOf
  <2> QED BY <2>4 DEF Map!Next
<1> QED BY <1>7, <1>8

LEMMA StepMaps == AttribInv /\ [Next]_vars => [Map!Next]_(Map!vars)
<1> SUFFICES ASSUME AttribInv, [Next]_vars PROVE [Map!Next]_(Map!vars)
  OBVIOUS
<1>1. ASSUME NEW t \in Object, User(t) PROVE [Map!Next]_(Map!vars)
  BY <1>1, UserKinds, ImmediateMaps, UserStarts, StartsMap
<1>2. CASE TellStops \/ VisitEnd
  <2>1. loop.kind \in {"tell", "array", "copy", "merge"}
    BY <1>2 DEF TellStops, VisitEnd, Visiting
  <2>2. TellStops => loop.kind = "tell"
    BY DEF TellStops
  <2> QED BY <1>2, <2>1, <2>2, TellEndMaps, CopyEndMaps
<1>3. CASE Walk
  BY <1>2, <1>3, WalkGoesOn, RemoveEndMaps DEF Walk
<1>4. CASE UNCHANGED vars
  BY <1>4 DEF vars, Map!vars, Entries
<1> QED BY <1>1, <1>3, <1>4 DEF Next

(* Each operation on the tables, loop and all, is one operation on a map,  *)
(* which happens when the loop ends (im_attrib.h:19-96).                   *)
THEOREM TablesImplementMap == Spec => ImplementsMap
<1>1. Init => Map!Init
  <2> SUFFICES ASSUME Init PROVE Map!Init
    OBVIOUS
  <2>1. \A t \in Table : Entries(t) = {}
    BY DEF Init, Entries, Empty, Object
  <2>2. loop = Idle /\ alive = {}
    BY DEF Init
  <2> QED BY <2>1, <2>2 DEF Map!Init
<1> QED BY <1>1, StepMaps, InvAlways, PTL DEF Spec, ImplementsMap, Map!Spec
=============================================================================
