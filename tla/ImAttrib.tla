------------------------------ MODULE ImAttrib ------------------------------
(***************************************************************************)
(* The attribute tables of IM (im_attrib.cpp).  A table is an array of     *)
(* chains and a count of its nodes; loops over a table stop early once     *)
(* they met count nodes.  An attribute array is the same structure: its    *)
(* count is its length and a chain is one node or none.  RemoveAll and     *)
(* ForEach are loops, one step per node; copying and merging are ForEach   *)
(* with a callback that writes to another table.  A node is the pair of    *)
(* its name and its data; a table is never copied onto itself, since the   *)
(* callback would delete the node the loop stands at.                      *)
(***************************************************************************)
EXTENDS Integers, Sequences, FiniteSets

CONSTANTS
  Table, Array,   \* hash tables and arrays the program may have
  Name, Data,     \* names and data of attributes
  Hash,           \* the sixteen bit hash of each name
  HashSize,       \* hash_size of a table, the length of an array
  MaxAlive        \* tables and arrays alive at a time

Object == Table \cup Array

ASSUME ObjectAssumption == Table \cap Array = {}
ASSUME HashAssumption == Hash \in [Name -> 0 .. 2^16 - 1]
ASSUME SizeAssumption == HashSize \in [Object -> Nat \ {0}]
ASSUME AliveAssumption == MaxAlive \in Nat

VARIABLES
  alive,   \* the objects that exist
  chain,   \* chain[t][i] is the list at hash_table[i]
  count,   \* ptable->count
  loop     \* the loop under way, or Idle

vars == <<alive, chain, count, loop>>

Node == Name \X Data
Idle == [kind |-> "none"]

Buckets(t) == 0 .. HashSize[t] - 1
iHashIndex(t, n) == Hash[n] % HashSize[t]
Empty(t) == [i \in Buckets(t) |-> <<>>]

(* Everything stored in t, wherever it is.                                 *)
Entries(t) == UNION {{chain[t][i][p] : p \in DOMAIN chain[t][i]} : i \in Buckets(t)}

(* Where a list holds name n, and the place a walk from its head finds.    *)
Places(c, n) == {p \in DOMAIN c : c[p][1] = n}
Found(c, n) == CHOOSE p \in Places(c, n) : \A q \in Places(c, n) : p <= q

Without(c, p) == SubSeq(c, 1, p - 1) \o SubSeq(c, p + 1, Len(c))

-----------------------------------------------------------------------------
Init ==
  /\ alive = {}
  /\ chain = [t \in Object |-> Empty(t)]
  /\ count = [t \in Object |-> 0]
  /\ loop = Idle

(* imAttribTableCreate, imAttribArrayCreate                                *)
Create(t) ==
  /\ loop = Idle /\ t \notin alive /\ Cardinality(alive) < MaxAlive
  /\ alive' = alive \cup {t}
  /\ chain' = [chain EXCEPT ![t] = Empty(t)]
  /\ count' = [count EXCEPT ![t] = IF t \in Array THEN HashSize[t] ELSE 0]
  /\ UNCHANGED loop

(* A name that is not there: the new node goes first.                      *)
Insert(t, n, d) ==
  /\ Places(chain[t][iHashIndex(t, n)], n) = {}
  /\ chain' = [chain EXCEPT ![t][iHashIndex(t, n)] = <<<<n, d>>>> \o @]
  /\ count' = [count EXCEPT ![t] = @ + 1]

(* A name that is there: the new node takes the place of the old one.      *)
Replace(t, n, d) ==
  LET i == iHashIndex(t, n)
  IN /\ Places(chain[t][i], n) # {}
     /\ chain' = [chain EXCEPT ![t][i][Found(chain[t][i], n)] = <<n, d>>]
     /\ UNCHANGED count

Put(t, n, d) == Insert(t, n, d) \/ Replace(t, n, d)

imAttribTableSet(t, n, d) ==
  /\ loop = Idle /\ t \in alive \cap Table
  /\ Put(t, n, d)
  /\ UNCHANGED <<alive, loop>>

(* Seeded bug: the node goes and the count stays.                          *)
BugUnSetKeepsCount(t, n) ==
  LET i == iHashIndex(t, n)
      c == chain[t][i]
  IN /\ loop = Idle /\ t \in alive \cap Table
     /\ count[t] # 0 /\ Places(c, n) # {}
     /\ chain' = [chain EXCEPT ![t][i] = Without(c, Found(c, n))]
     /\ UNCHANGED <<alive, count, loop>>

imAttribTableUnSet(t, n) ==
  LET i == iHashIndex(t, n)
      c == chain[t][i]
  IN /\ loop = Idle /\ t \in alive \cap Table
     /\ count[t] # 0 /\ Places(c, n) # {}
     /\ chain' = [chain EXCEPT ![t][i] = Without(c, Found(c, n))]
     /\ count' = [count EXCEPT ![t] = @ - 1]
     /\ UNCHANGED <<alive, loop>>

(* What imAttribTableGet gives: the first node of the name, or nothing.    *)
Got(t, n) ==
  LET c == chain[t][iHashIndex(t, n)]
  IN IF count[t] = 0 \/ Places(c, n) = {} THEN {} ELSE {c[Found(c, n)]}

(* imAttribArraySet; an index past the end is refused.                     *)
PutAt(t, i, node) ==
  IF i < count[t] THEN chain' = [chain EXCEPT ![t][i] = <<node>>] ELSE UNCHANGED chain

imAttribArraySet(t, i, n, d) ==
  /\ loop = Idle /\ t \in alive \cap Array
  /\ PutAt(t, i, <<n, d>>)
  /\ UNCHANGED <<alive, count, loop>>

-----------------------------------------------------------------------------
(* A loop over t that acts on d, from the first chain.                     *)
Loop(kind, t, d) ==
  [kind |-> kind, over |-> t, on |-> d, i |-> 0, p |-> 1, n |-> 0,
   seen |-> {}, before |-> Entries(d)]

Here == chain[loop.over][loop.i]
LastBucket == loop.i + 1 = HashSize[loop.over]
AllMet == loop.n = count[loop.over]

(* Seeded bugs: the walk goes on past the last chain; the place in the     *)
(* next chain is that in the former.                                       *)
BugNextBucketPastEnd(at_end) ==
  /\ at_end /\ ~AllMet
  /\ loop' = [loop EXCEPT !.i = @ + 1, !.p = 1]
  /\ UNCHANGED <<alive, chain, count>>

BugNextBucketKeepsPlace(at_end) ==
  /\ at_end /\ ~AllMet /\ ~LastBucket
  /\ loop' = [loop EXCEPT !.i = @ + 1]
  /\ UNCHANGED <<alive, chain, count>>

NextBucket(at_end) ==
  /\ at_end /\ ~AllMet /\ ~LastBucket
  /\ loop' = [loop EXCEPT !.i = @ + 1, !.p = 1]
  /\ UNCHANGED <<alive, chain, count>>

(* imAttribTableRemoveAll and imAttribTableDestroy, nothing to do if empty *)
RemoveAll(t) ==
  /\ loop = Idle /\ t \in alive /\ count[t] # 0
  /\ loop' = Loop("remove", t, t)
  /\ UNCHANGED <<alive, chain, count>>

Destroy(t) ==
  /\ loop = Idle /\ t \in alive
  /\ IF count[t] = 0 THEN alive' = alive \ {t} /\ UNCHANGED loop
                     ELSE loop' = Loop("destroy", t, t) /\ UNCHANGED alive
  /\ UNCHANGED <<chain, count>>

Removing == loop.kind \in {"remove", "destroy"}

RemoveNode ==
  /\ Removing /\ Here # <<>>
  /\ chain' = [chain EXCEPT ![loop.over][loop.i] = Tail(@)]
  /\ loop' = [loop EXCEPT !.n = @ + 1]
  /\ UNCHANGED <<alive, count>>

RemoveNext == Removing /\ NextBucket(Here = <<>>)

(* Seeded bug: the loop ends one node early.                               *)
BugRemoveEndsEarly ==
  /\ Removing /\ Here = <<>> /\ (loop.n + 1 >= count[loop.over] \/ LastBucket)
  /\ count' = [count EXCEPT ![loop.over] = 0]
  /\ alive' = IF loop.kind = "destroy" THEN alive \ {loop.over} ELSE alive
  /\ loop' = Idle
  /\ UNCHANGED chain

RemoveEnd ==
  /\ Removing /\ Here = <<>> /\ (AllMet \/ LastBucket)
  /\ count' = [count EXCEPT ![loop.over] = 0]
  /\ alive' = IF loop.kind = "destroy" THEN alive \ {loop.over} ELSE alive
  /\ loop' = Idle
  /\ UNCHANGED chain

-----------------------------------------------------------------------------
(* imAttribTableForEach with the callback of a user, of CopyFrom and of    *)
(* MergeFrom, and imAttribArrayCopyFrom.  An empty table calls nothing.    *)
ForEach(t) ==
  /\ loop = Idle /\ t \in alive \cap Table
  /\ count[t] # 0
  /\ loop' = Loop("tell", t, t)
  /\ UNCHANGED <<alive, chain, count>>

CopyBegins(kind, d, s) ==
  /\ loop = Idle /\ d # s /\ count[s] # 0
  /\ loop' = Loop(kind, s, d)
  /\ UNCHANGED <<alive, chain, count>>

CopyFrom(d, s) == {d, s} \subseteq alive \cap Table /\ CopyBegins("copy", d, s)
MergeFrom(d, s) == {d, s} \subseteq alive \cap Table /\ CopyBegins("merge", d, s)
ArrayCopyFrom(d, s) == {d, s} \subseteq alive \cap Array /\ CopyBegins("array", d, s)

Visiting == loop.kind \in {"tell", "copy", "merge", "array"}
AtNode == Visiting /\ loop.p \in DOMAIN Here
Visited == [loop EXCEPT !.p = @ + 1, !.n = @ + 1, !.seen = @ \cup {Here[loop.p]}]

TellNode ==
  /\ AtNode /\ loop.kind = "tell"
  /\ loop' = Visited
  /\ UNCHANGED <<alive, chain, count>>

(* The callback answers zero.                                              *)
TellStops ==
  /\ AtNode /\ loop.kind = "tell"
  /\ loop' = Idle
  /\ UNCHANGED <<alive, chain, count>>

(* iCopyFunc                                                               *)
CopyNode ==
  /\ AtNode /\ loop.kind = "copy"
  /\ Put(loop.on, Here[loop.p][1], Here[loop.p][2])
  /\ loop' = Visited
  /\ UNCHANGED alive

(* Seeded bug: the test is the wrong way round.                            *)
BugMergeNode ==
  /\ AtNode /\ loop.kind = "merge"
  /\ IF Got(loop.on, Here[loop.p][1]) # {}
     THEN Put(loop.on, Here[loop.p][1], Here[loop.p][2])
     ELSE UNCHANGED <<chain, count>>
  /\ loop' = Visited
  /\ UNCHANGED alive

(* iMergeFunc                                                              *)
MergeNode ==
  /\ AtNode /\ loop.kind = "merge"
  /\ IF Got(loop.on, Here[loop.p][1]) = {}
     THEN Put(loop.on, Here[loop.p][1], Here[loop.p][2])
     ELSE UNCHANGED <<chain, count>>
  /\ loop' = Visited
  /\ UNCHANGED alive

(* Seeded bug: the index is the number of calls including this one.        *)
BugArrayNode ==
  /\ AtNode /\ loop.kind = "array"
  /\ PutAt(loop.on, loop.n + 1, Here[loop.p])
  /\ loop' = Visited
  /\ UNCHANGED <<alive, count>>

(* iCopyArrayFunc: the index is that of the call, not that of the node.    *)
ArrayNode ==
  /\ AtNode /\ loop.kind = "array"
  /\ PutAt(loop.on, loop.n, Here[loop.p])
  /\ loop' = Visited
  /\ UNCHANGED <<alive, count>>

VisitDone == loop.p \notin DOMAIN Here /\ (AllMet \/ LastBucket)

VisitNext == Visiting /\ NextBucket(loop.p \notin DOMAIN Here)

VisitEnd ==
  /\ Visiting /\ VisitDone
  /\ loop' = Idle
  /\ UNCHANGED <<alive, chain, count>>

-----------------------------------------------------------------------------
User(t) ==
  \/ Create(t) \/ Destroy(t) \/ RemoveAll(t) \/ ForEach(t)
  \/ \E s \in Object : CopyFrom(t, s) \/ MergeFrom(t, s) \/ ArrayCopyFrom(t, s)
  \/ \E n \in Name :
       \/ imAttribTableUnSet(t, n)
       \/ \E d \in Data :
            \/ imAttribTableSet(t, n, d)
            \/ \E i \in Buckets(t) : imAttribArraySet(t, i, n, d)

Walk ==
  \/ RemoveNode \/ RemoveNext \/ RemoveEnd
  \/ TellNode \/ TellStops \/ CopyNode \/ MergeNode \/ ArrayNode
  \/ VisitNext \/ VisitEnd

Next == Walk \/ \E t \in Object : User(t)

Spec == Init /\ [][Next]_vars

-----------------------------------------------------------------------------
LoopType ==
  [kind: {"remove", "destroy", "tell", "copy", "merge", "array"},
   over: Object, on: Object, i: Nat, p: Nat \ {0}, n: Nat,
   seen: SUBSET Node, before: SUBSET Node]

(* Types: every list holds nodes, counts are never negative, and a loop    *)
(* stays inside the array of chains (im_attrib.cpp:132, :277).             *)
TypeOK ==
  /\ alive \in SUBSET Object
  /\ DOMAIN chain = Object
  /\ \A t \in Object : chain[t] \in [Buckets(t) -> Seq(Node)]
  /\ count \in [Object -> Nat]
  /\ loop # Idle => loop \in LoopType /\ loop.i \in Buckets(loop.over)

(* Between operations a name is once in a table, in the chain of its hash, *)
(* and count, by which every operation decides to stop early, is the       *)
(* number of nodes; imAttribTableGet gives what is stored under the name   *)
(* and nothing else.                                                       *)
ChainsAreSound ==
  loop = Idle =>
    \A t \in alive \cap Table :
      /\ \A i \in Buckets(t) : \A p \in DOMAIN chain[t][i] :
           /\ iHashIndex(t, chain[t][i][p][1]) = i
           /\ \A q \in DOMAIN chain[t][i] :
                chain[t][i][p][1] = chain[t][i][q][1] => p = q
      /\ count[t] = Cardinality(Entries(t))
      /\ \A n \in Name : Got(t, n) = {e \in Entries(t) : e[1] = n}

(* The early exits of RemoveAll forget no node: what is destroyed is       *)
(* empty, and nothing is left in a table or array of count zero.           *)
NothingLeaks ==
  \A t \in Object : (loop = Idle /\ (t \notin alive \/ count[t] = 0)) => Entries(t) = {}

(* A loop that was not stopped met every entry, each once, although it     *)
(* trusts count and the copy writes to another table meanwhile.            *)
VisitMeetsAll ==
  (Visiting /\ VisitDone) =>
    /\ loop.seen = Entries(loop.over)
    /\ loop.over \in Table => loop.n = Cardinality(loop.seen)

(* An array with no holes is copied place by place into one that is large  *)
(* enough, although the copy counts calls and not places.  With a hole it  *)
(* is not, a mistake: what is behind the hole moves up, though the copy is *)
(* said to be of "the contents of the given table" (im_attrib.h:129).      *)
FullArrayCopied ==
  (Visiting /\ VisitDone /\ loop.kind = "array") =>
    LET d == loop.on  s == loop.over
    IN ((\A i \in Buckets(s) : chain[s][i] # <<>>) /\ count[d] >= HashSize[s])
         => \A i \in Buckets(s) : chain[d][i] = chain[s][i]

(* The tables are maps: each operation, with its loop, is one operation on *)
(* a map, which takes effect when the loop ends (im_attrib.h:19-96).       *)
Map == INSTANCE AttribMap
  WITH alive <- alive \cap Table,
       map <- [t \in Table |-> IF loop # Idle /\ t = loop.on THEN loop.before
                                                            ELSE Entries(t)]
ImplementsMap == Map!Spec
=============================================================================
