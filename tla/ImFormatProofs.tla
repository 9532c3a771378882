--------------------------- MODULE ImFormatProofs ---------------------------
(***************************************************************************)
(* Proofs about ImFormat, for any formats, plugins and kinds of files: the *)
(* list is long enough, nothing is left behind, and a search ends with the *)
(* format the documentation promises.                                      *)
(***************************************************************************)
EXTENDS ImFormat, FiniteSetTheorems, TLAPS

-----------------------------------------------------------------------------
(* The list.                                                               *)
(* How often formats were registered shows in the list: a plugin once, the *)
(* internal ones at most once by the program and once by the library.      *)
L == Len(Internal)
Plugged == Cardinality(Plugin \cap Members(list))

ListType == list \in Seq(Format) /\ registered \in BOOLEAN

ListGrows ==
  /\ Internal[1] \notin Members(list) => ~registered /\ Len(list) <= Plugged
  /\ ~registered => Len(list) <= Plugged + L
  /\ Len(list) <= Plugged + 2 * L

ListInv == ListType /\ ListGrows

LEMMA MembersOfLonger ==
  ASSUME NEW S, NEW s \in Seq(S), NEW t \in Seq(S)
  PROVE  Members(s \o t) = Members(s) \cup Members(t)
<1>1. ASSUME NEW x \in Members(s \o t) PROVE x \in Members(s) \cup Members(t)
  <2>1. PICK i \in DOMAIN (s \o t) : (s \o t)[i] = x
    BY DEF Members
  <2>2. CASE i <= Len(s)
    <3>1. i \in DOMAIN s /\ s[i] = x
      BY <2>1, <2>2
    <3>2. QED
      BY <3>1 DEF Members
  <2>3. CASE i > Len(s)
    <3>1. i - Len(s) \in DOMAIN t /\ t[i - Len(s)] = x
      BY <2>1, <2>3
    <3>2. QED
      BY <3>1 DEF Members
  <2>4. QED
    BY <2>1, <2>2, <2>3
<1>2. ASSUME NEW x \in Members(s) PROVE x \in Members(s \o t)
  <2>1. PICK i \in DOMAIN s : s[i] = x
    BY <1>2 DEF Members
  <2>2. i \in DOMAIN (s \o t) /\ (s \o t)[i] = x
    BY <2>1
  <2>3. QED
    BY <2>2 DEF Members
<1>3. ASSUME NEW x \in Members(t) PROVE x \in Members(s \o t)
  <2>1. PICK i \in DOMAIN t : t[i] = x
    BY <1>3 DEF Members
  <2>2. i + Len(s) \in DOMAIN (s \o t) /\ (s \o t)[i + Len(s)] = x
    BY <2>1
  <2>3. QED
    BY <2>2 DEF Members
<1>4. QED
  BY <1>1, <1>2, <1>3

LEMMA MembersOfAppend ==
  ASSUME NEW S, NEW s \in Seq(S), NEW x \in S
  PROVE  Members(Append(s, x)) = Members(s) \cup {x}
<1>1. Append(s, x) = s \o <<x>> /\ <<x>> \in Seq(S)
  OBVIOUS
<1>2. Members(<<x>>) = {x}
  <2>1. <<x>> \in Seq(S) /\ DOMAIN <<x>> = {1} /\ <<x>>[1] = x
    OBVIOUS
  <2>2. QED
    BY <2>1 DEF Members
<1>3. QED
  <2>1. Members(s \o <<x>>) = Members(s) \cup Members(<<x>>)
    BY <1>1, MembersOfLonger
  <2>2. QED
    BY <1>1, <1>2, <2>1

LEMMA LengthOfLonger ==
  ASSUME NEW S, NEW s \in Seq(S), NEW t \in Seq(S)
  PROVE  Len(s \o t) = Len(s) + Len(t) /\ s \o t \in Seq(S)
OBVIOUS

LEMMA InternalType ==
  /\ Internal \in Seq(Format) /\ L \in Nat \ {0}
  /\ Internal[1] \in Members(Internal)
BY FormatAssumption DEF L, Members

LEMMA PluggedType ==
  ASSUME NEW M, NEW N, M \subseteq N
  PROVE  /\ Cardinality(Plugin \cap M) \in Nat
         /\ Cardinality(Plugin \cap M) <= Cardinality(Plugin \cap N)
         /\ Cardinality(Plugin \cap M) <= Cardinality(Plugin)
<1>1. IsFiniteSet(Plugin) /\ IsFiniteSet(Plugin \cap M) /\ IsFiniteSet(Plugin \cap N)
  BY PluginAssumption, FS_Subset
<1>2. QED
  BY <1>1, FS_Subset, FS_CardinalityType

LEMMA NoFormats == <<>> \in Seq(Format)
OBVIOUS

LEMMA PluginIsFormat == Plugin \subseteq Format
BY DEF Format

(* A plugin is registered.                                                 *)
LEMMA PluginGrows ==
  ASSUME ListInv, NEW f \in Plugin, f \notin Members(list),
         list' = Append(list, f), UNCHANGED registered
  PROVE  ListInv'
<1>1. Members(list') = Members(list) \cup {f}
  BY MembersOfAppend, PluginIsFormat DEF ListInv, ListType
<1>2. Plugged' = Plugged + 1
  <2>1. Plugin \cap Members(list') = (Plugin \cap Members(list)) \cup {f}
    BY <1>1
  <2>2. IsFiniteSet(Plugin \cap Members(list))
    BY PluginAssumption, FS_Subset
  <2>3. f \notin Plugin \cap Members(list)
    OBVIOUS
  <2>4. Cardinality((Plugin \cap Members(list)) \cup {f}) = Cardinality(Plugin \cap Members(list)) + 1
    BY <2>2, <2>3, FS_AddElement
  <2>5. QED
    BY <2>1, <2>4 DEF Plugged
<1>3. Plugged \in Nat /\ Len(list) \in Nat /\ Len(list') = Len(list) + 1 /\ L \in Nat
  <2>1. Plugged \in Nat
    BY PluggedType DEF Plugged
  <2>2. Len(list) \in Nat /\ Len(Append(list, f)) = Len(list) + 1
    BY PluginIsFormat DEF ListInv, ListType
  <2>3. QED
    BY <2>1, <2>2, InternalType
<1>4. ListType'
  BY PluginIsFormat DEF ListInv, ListType
<1>5. ListGrows'
  BY <1>1, <1>2, <1>3 DEF ListInv, ListType, ListGrows
<1>6. QED
  BY <1>4, <1>5 DEF ListInv

(* So are the internal formats, by the program or by the library.          *)
LEMMA InternalGrows ==
  ASSUME ListInv, list' = list \o Internal,
         \/ Internal[1] \notin Members(list) /\ UNCHANGED registered
         \/ ~registered /\ registered' = TRUE
  PROVE  ListInv'
<1>1. Members(list') = Members(list) \cup Members(Internal)
  BY MembersOfLonger, InternalType DEF ListInv, ListType
<1>2. Internal[1] \in Members(list')
  BY <1>1, InternalType
<1>3. Plugged <= Plugged' /\ Plugged \in Nat /\ Plugged' \in Nat
  BY <1>1, PluggedType DEF Plugged
<1>4. Len(list) \in Nat /\ Len(list') = Len(list) + L /\ L \in Nat
  BY InternalType, LengthOfLonger DEF ListInv, ListType, L
<1>5. ListType'
  BY InternalType, LengthOfLonger DEF ListInv, ListType
<1>6. ListGrows'
  <2>1. CASE Internal[1] \notin Members(list) /\ UNCHANGED registered
    <3>1. Len(list) <= Plugged
      BY <2>1 DEF ListInv, ListGrows
    <3>2. Len(list') <= Plugged' + L /\ Len(list') <= Plugged' + 2 * L
      BY <3>1, <1>3, <1>4
    <3>3. QED
      BY <3>2, <1>2 DEF ListGrows
  <2>2. CASE ~registered /\ registered' = TRUE
    <3>1. Len(list) <= Plugged + L
      BY <2>2 DEF ListInv, ListGrows
    <3>2. Len(list') <= Plugged' + 2 * L
      BY <3>1, <1>3, <1>4
    <3>3. QED
      BY <3>2, <2>2, <1>2 DEF ListGrows
  <2>3. QED
    BY <2>1, <2>2
<1>7. QED
  BY <1>5, <1>6 DEF ListInv

LEMMA EmptyList ==
  ASSUME list' = <<>>, registered' = FALSE
  PROVE  ListInv'
<1>1. Members(list') = {}
  BY DEF Members
<1>2. Plugged' = 0
  BY <1>1, FS_EmptySet DEF Plugged
<1>3. Len(list') = 0 /\ L \in Nat
  BY InternalType
<1>4. ListType'
  BY NoFormats DEF ListType
<1>5. ListGrows'
  BY <1>2, <1>3 DEF ListGrows
<1>6. QED
  BY <1>4, <1>5 DEF ListInv

LEMMA InitList == Init => ListInv
<1> SUFFICES ASSUME Init PROVE ListInv
  OBVIOUS
<1>1. list = <<>> /\ registered = FALSE
  BY DEF Init
<1>2. Members(list) = {}
  BY <1>1 DEF Members
<1>3. Plugged = 0
  BY <1>2, FS_EmptySet DEF Plugged
<1>4. Len(list) = 0 /\ L \in Nat
  BY <1>1, InternalType
<1>5. ListType
  BY <1>1, NoFormats DEF ListType
<1>6. ListGrows
  BY <1>1, <1>3, <1>4 DEF ListGrows
<1>7. QED
  BY <1>5, <1>6 DEF ListInv

LEMMA AccessGrows ==
  ASSUME ListInv, Access
  PROVE  ListInv' /\ Members(list) \subseteq Members(list')
<1>1. CASE registered
  <2>1. UNCHANGED <<list, registered>>
    BY <1>1 DEF Access, ListInv, ListType
  <2>2. QED
    BY <2>1 DEF ListInv, ListType, ListGrows, Plugged, Members
<1>2. CASE ~registered
  <2>1. list' = list \o Internal /\ registered' = TRUE
    BY <1>2 DEF Access
  <2>2. QED
    BY <1>2, <2>1, InternalGrows, MembersOfLonger, InternalType DEF ListInv, ListType
<1>3. QED
  BY <1>1, <1>2

LEMMA SameList ==
  ASSUME ListInv, UNCHANGED <<list, registered>>
  PROVE  ListInv'
BY DEF ListInv, ListType, ListGrows, Plugged, Members

LEMMA ListStep ==
  ASSUME ListInv, [Next]_vars
  PROVE  ListInv'
<1>1. CASE imFormatRegisterInternal
  BY <1>1, InternalGrows DEF imFormatRegisterInternal
<1>2. CASE imFormatRemoveAll
  BY <1>2, EmptyList DEF imFormatRemoveAll
<1>3. ASSUME NEW f \in Plugin, imFormatRegister(f) PROVE ListInv'
  BY <1>3, PluginGrows DEF imFormatRegister
<1>4. ASSUME NEW k \in Kind, imFileOpen(k) PROVE ListInv'
  BY <1>4, AccessGrows DEF imFileOpen, Opens
<1>5. ASSUME NEW k \in Kind, NEW f \in Format, imFileOpenAs(k, f) PROVE ListInv'
  BY <1>5, AccessGrows DEF imFileOpenAs, Opens
<1>6. ASSUME NEW k \in Kind, NEW f \in Format, imFileNew(k, f) PROVE ListInv'
  BY <1>6, AccessGrows DEF imFileNew, Opens
<1>7. CASE OtherModule \/ (\E o \in open : imFileClose(o)) \/ Search \/ UNCHANGED vars
  <2>1. UNCHANGED <<list, registered>>
    BY <1>7 DEF OtherModule, imFileClose, Search, Skip, Try, SecondPass, NoneLeft, vars, registry
  <2>2. QED
    BY <2>1, SameList
<1>8. QED
  BY <1>1, <1>2, <1>3, <1>4, <1>5, <1>6, <1>7 DEF Next, Program

LEMMA ListAlways == Spec => []ListInv
BY InitList, ListStep, PTL DEF Spec

(* The list, which nobody checks for its length, is long enough for any    *)
(* internal formats and plugins that fit in with the former there twice.   *)
THEOREM ListAlwaysFits == Spec => []ListFits
<1>1. ListInv => ListFits
  <2> SUFFICES ASSUME ListInv PROVE ListFits
    OBVIOUS
  <2>1. Plugged \in Nat /\ Plugged <= Cardinality(Plugin)
    BY PluggedType DEF Plugged
  <2>2. Cardinality(Plugin) \in Nat
    BY PluginAssumption, FS_CardinalityType
  <2>3. L \in Nat /\ Len(list) \in Nat /\ MaxFormats \in Nat
    BY InternalType, PluginAssumption DEF ListInv, ListType
  <2>4. Cardinality(Plugin) + 2 * L <= MaxFormats
    BY PluginAssumption DEF L
  <2>5. Len(list) <= Plugged + 2 * L
    BY DEF ListInv, ListGrows
  <2>6. QED
    BY <2>1, <2>2, <2>3, <2>4, <2>5 DEF ListFits
<1>2. QED
  BY <1>1, ListAlways, PTL
-----------------------------------------------------------------------------
(* What drivers leave.                                                     *)
Holding(files_open) == {o \in files_open : ~o.hollow}

FileInv ==
  /\ open \subseteq OpenFile /\ IsFiniteSet(open)
  /\ lost \in Nat
  /\ objects = Cardinality(open)
  /\ handles = Cardinality(Holding(open)) + lost

LEMMA HoldingFinite ==
  ASSUME NEW S, IsFiniteSet(S)
  PROVE  IsFiniteSet(Holding(S)) /\ Cardinality(Holding(S)) \in Nat /\ Cardinality(S) \in Nat
<1>1. Holding(S) \subseteq S
  BY DEF Holding
<1>2. QED
  BY <1>1, FS_Subset, FS_CardinalityType

(* One more open file.                                                     *)
LEMMA OneMore ==
  ASSUME NEW S, IsFiniteSet(S), NEW x, x \notin S, x.hollow \in BOOLEAN
  PROVE  /\ IsFiniteSet(S \cup {x})
         /\ Cardinality(S \cup {x}) = Cardinality(S) + 1
         /\ x.hollow => Cardinality(Holding(S \cup {x})) = Cardinality(Holding(S))
         /\ ~x.hollow => Cardinality(Holding(S \cup {x})) = Cardinality(Holding(S)) + 1
<1>1. IsFiniteSet(S \cup {x}) /\ Cardinality(S \cup {x}) = Cardinality(S) + 1
  BY FS_AddElement
<1>2. CASE x.hollow
  <2>1. Holding(S \cup {x}) = Holding(S)
    BY <1>2 DEF Holding
  <2>2. QED
    BY <1>1, <1>2, <2>1
<1>3. CASE ~x.hollow
  <2>1. Holding(S \cup {x}) = Holding(S) \cup {x} /\ x \notin Holding(S)
    BY <1>3 DEF Holding
  <2>2. Cardinality(Holding(S) \cup {x}) = Cardinality(Holding(S)) + 1
    BY <2>1, HoldingFinite, FS_AddElement
  <2>3. QED
    BY <1>1, <1>3, <2>1, <2>2
<1>4. QED
  BY <1>2, <1>3

(* One less.                                                               *)
LEMMA OneLess ==
  ASSUME NEW S, IsFiniteSet(S), NEW x \in S, x.hollow \in BOOLEAN
  PROVE  /\ IsFiniteSet(S \ {x})
         /\ Cardinality(S \ {x}) = Cardinality(S) - 1
         /\ x.hollow => Cardinality(Holding(S \ {x})) = Cardinality(Holding(S))
         /\ ~x.hollow => Cardinality(Holding(S \ {x})) = Cardinality(Holding(S)) - 1
<1>1. IsFiniteSet(S \ {x}) /\ x \notin S \ {x} /\ S = (S \ {x}) \cup {x}
  BY FS_RemoveElement
<1>2. /\ Cardinality(S) = Cardinality(S \ {x}) + 1
      /\ x.hollow => Cardinality(Holding(S)) = Cardinality(Holding(S \ {x}))
      /\ ~x.hollow => Cardinality(Holding(S)) = Cardinality(Holding(S \ {x})) + 1
  BY <1>1, OneMore
<1>3. Cardinality(S \ {x}) \in Nat /\ Cardinality(Holding(S \ {x})) \in Nat
  BY <1>1, HoldingFinite
<1>4. QED
  BY <1>1, <1>2, <1>3

(* A file of kind k is opened and its driver keeps a handle or not.        *)
LEMMA OpenedFile ==
  ASSUME FileInv, NEW k \in Kind, NEW f \in Format, NEW hollow \in BOOLEAN,
         \A o \in open : o.kind # k,
         open' = open \cup {[kind |-> k, format |-> f, hollow |-> hollow]},
         objects' = objects + 1, handles' = (IF hollow THEN handles ELSE handles + 1),
         UNCHANGED lost
  PROVE  FileInv'
<1> DEFINE x == [kind |-> k, format |-> f, hollow |-> hollow]
<1>1. x \in OpenFile /\ x \notin open /\ (x.hollow <=> hollow) /\ x.hollow \in BOOLEAN
  BY DEF OpenFile
<1>2. open' = open \cup {x}
  OBVIOUS
<1> HIDE DEF x
<1>3. /\ IsFiniteSet(open')
      /\ Cardinality(open') = Cardinality(open) + 1
      /\ x.hollow => Cardinality(Holding(open')) = Cardinality(Holding(open))
      /\ ~x.hollow => Cardinality(Holding(open')) = Cardinality(Holding(open)) + 1
  BY <1>1, <1>2, OneMore DEF FileInv
<1>4. Cardinality(Holding(open)) \in Nat
  BY HoldingFinite DEF FileInv
<1>5. handles' = Cardinality(Holding(open')) + lost'
  <2>1. handles = Cardinality(Holding(open)) + lost /\ lost \in Nat
    BY DEF FileInv
  <2>2. CASE hollow
    BY <1>1, <1>3, <1>4, <2>1, <2>2
  <2>3. CASE ~hollow
    BY <1>1, <1>3, <1>4, <2>1, <2>3
  <2>4. QED
    BY <2>2, <2>3
<1>6. QED
  BY <1>1, <1>2, <1>3, <1>5 DEF FileInv

LEMMA AttemptLeaves ==
  ASSUME FileInv, NEW k \in Kind, NEW f \in Format, NEW answer \in Answer,
         \A o \in open : o.kind # k, Attempt(f, k, answer)
  PROVE  FileInv'
<1>1. CASE answer = "NONE"
  <2>1. open' = open \cup {[kind |-> k, format |-> f, hollow |-> FALSE]}
    BY <1>1 DEF Attempt
  <2>2. handles' = handles + 1 /\ lost' = lost /\ objects' = objects + 1
    BY <1>1 DEF Attempt
  <2>3. QED
    BY <2>1, <2>2, OpenedFile
<1>2. CASE answer = "HOLLOW"
  <2>1. open' = open \cup {[kind |-> k, format |-> f, hollow |-> TRUE]}
    BY <1>2 DEF Attempt
  <2>2. handles' = handles /\ lost' = lost /\ objects' = objects + 1
    BY <1>2 DEF Attempt
  <2>3. QED
    BY <2>1, <2>2, OpenedFile
<1>3. CASE answer \notin {"NONE", "HOLLOW"}
  <2>1. UNCHANGED <<open, objects>>
    BY <1>3 DEF Attempt
  <2>2. Holding(open') = Holding(open)
    BY <2>1
  <2>3. CASE f \in Tiff /\ answer = "COMPRESS"
    <3>1. handles' = handles + 1 /\ lost' = lost + 1
      BY <2>3 DEF Attempt
    <3>2. Cardinality(Holding(open)) \in Nat
      BY HoldingFinite DEF FileInv
    <3>3. QED
      BY <2>1, <2>2, <3>1, <3>2 DEF FileInv
  <2>4. CASE ~(f \in Tiff /\ answer = "COMPRESS")
    <3>1. handles' = handles /\ lost' = lost
      BY <1>3, <2>4 DEF Attempt
    <3>2. QED
      BY <2>1, <2>2, <3>1 DEF FileInv
  <2>5. QED
    BY <2>3, <2>4
<1>4. QED
  BY <1>1, <1>2, <1>3

LEMMA SameFiles ==
  ASSUME FileInv, UNCHANGED files
  PROVE  FileInv'
<1>1. UNCHANGED <<open, handles, objects, lost>>
  BY DEF files
<1>2. Holding(open') = Holding(open)
  BY <1>1
<1>3. QED
  BY <1>1, <1>2 DEF FileInv

LEMMA ClosedFile ==
  ASSUME FileInv, NEW o \in open, imFileClose(o)
  PROVE  FileInv'
<1>1. open' = open \ {o} /\ objects' = objects - 1 /\ lost' = lost
  BY DEF imFileClose
<1>2. o.hollow \in BOOLEAN /\ handles' = IF o.hollow THEN handles ELSE handles - 1
  BY DEF imFileClose, FileInv, OpenFile
<1>3. /\ IsFiniteSet(open')
      /\ Cardinality(open') = Cardinality(open) - 1
      /\ o.hollow => Cardinality(Holding(open')) = Cardinality(Holding(open))
      /\ ~o.hollow => Cardinality(Holding(open')) = Cardinality(Holding(open)) - 1
  BY <1>1, <1>2, OneLess DEF FileInv
<1>4. Cardinality(Holding(open)) \in Nat
  BY HoldingFinite DEF FileInv
<1>5. handles' = Cardinality(Holding(open')) + lost'
  <2>1. handles = Cardinality(Holding(open)) + lost /\ lost \in Nat
    BY DEF FileInv
  <2>2. CASE o.hollow
    BY <1>1, <1>2, <1>3, <1>4, <2>1, <2>2
  <2>3. CASE ~o.hollow
    BY <1>1, <1>2, <1>3, <1>4, <2>1, <2>3
  <2>4. QED
    BY <2>2, <2>3
<1>6. QED
  BY <1>1, <1>3, <1>5 DEF FileInv
-----------------------------------------------------------------------------
(* A search under way.  Its kind of file is not open; the formats marked   *)
(* or passed were asked and do not open it for certain.                    *)
CallType == [phase : {"ext", "rest"}, i : Nat \ {0}, kind : Kind, mark : SUBSET Nat]
LastType == [error : Answer, kind : Kind, format : Format \cup {NoFormat}]

CallInv ==
  call # Idle =>
    /\ call \in CallType
    /\ call.i <= Len(list) + 1 /\ call.mark \subseteq DOMAIN list
    /\ last = NoSearch
    /\ \A o \in open : o.kind # call.kind

Passed(j) ==
  IF call.phase = "ext" THEN j < call.i /\ list[j] \in Traits[call.kind].ext
                        ELSE j < call.i \/ list[j] \in Traits[call.kind].ext

AskedInv ==
  call # Idle =>
    \A j \in DOMAIN list : /\ Passed(j) => j \in call.mark
                           /\ j \in call.mark => ~SurelyOpens(list[j], call.kind)

LastInv == (last # NoSearch => last \in LastType) /\ SearchEndsRight

Flags == memory \in BOOLEAN /\ crashed \in BOOLEAN

SearchInv == CallInv /\ AskedInv /\ LastInv /\ Flags

FormatInv == ListInv /\ FileInv /\ SearchInv

LEMMA SearchIsNotIdle == \A c \in CallType : c # Idle
BY DEF CallType, Idle

LEMMA NeverIsNoAnswer == \A l \in LastType : l # NoSearch
BY DEF LastType, NoSearch, Answer

LEMMA NextFormat ==
  ASSUME NEW c \in CallType
  PROVE  LET d == [c EXCEPT !.i = @ + 1]
         IN d \in CallType /\ d.i = c.i + 1 /\ d.phase = c.phase /\ d.kind = c.kind /\ d.mark = c.mark
BY DEF CallType

LEMMA NextMarked ==
  ASSUME NEW c \in CallType, NEW j \in Nat
  PROVE  LET d == [c EXCEPT !.i = @ + 1, !.mark = @ \cup {j}]
         IN /\ d \in CallType /\ d.i = c.i + 1 /\ d.phase = c.phase /\ d.kind = c.kind
            /\ d.mark = c.mark \cup {j}
<1> DEFINE e == [c EXCEPT !.i = c.i + 1]
           d == [e EXCEPT !.mark = c.mark \cup {j}]
<1>1. e \in CallType /\ e.i = c.i + 1 /\ e.phase = c.phase /\ e.kind = c.kind /\ e.mark = c.mark
  BY DEF CallType
<1>2. c.mark \cup {j} \in SUBSET Nat
  BY DEF CallType
<1> HIDE DEF e
<1>3. /\ d \in CallType /\ d.i = e.i /\ d.phase = e.phase /\ d.kind = e.kind
      /\ d.mark = c.mark \cup {j}
  BY <1>1, <1>2 DEF CallType
<1>4. d = [c EXCEPT !.i = @ + 1, !.mark = @ \cup {j}]
  BY DEF e, CallType
<1>5. QED
  BY <1>1, <1>3, <1>4

LEMMA FromTheStart ==
  ASSUME NEW c \in CallType
  PROVE  LET d == [c EXCEPT !.phase = "rest", !.i = 1]
         IN d \in CallType /\ d.i = 1 /\ d.phase = "rest" /\ d.kind = c.kind /\ d.mark = c.mark
<1> DEFINE e == [c EXCEPT !.phase = "rest"]
           d == [e EXCEPT !.i = 1]
<1>1. /\ e \in CallType /\ e.i = c.i /\ e.phase = "rest"
      /\ e.kind = c.kind /\ e.mark = c.mark
  BY DEF CallType
<1> HIDE DEF e
<1>2. /\ d \in CallType /\ d.i = 1 /\ d.phase = e.phase /\ d.kind = e.kind
      /\ d.mark = e.mark
  BY <1>1 DEF CallType
<1>3. d = [c EXCEPT !.phase = "rest", !.i = 1]
  BY DEF e, CallType
<1>4. QED
  BY <1>1, <1>2, <1>3

(* A format that opens a file for certain does not decline it.             *)
LEMMA SureAnswer ==
  ASSUME NEW f, NEW k, SurelyOpens(f, k), NEW answer \in Answers(f, k)
  PROVE  answer = "NONE"
BY DEF SurelyOpens, Answers

LEMMA InSearch ==
  ASSUME ListInv, CallInv, call # Idle
  PROVE  /\ call \in CallType /\ call.i \in Nat \ {0} /\ call.kind \in Kind
         /\ call.phase \in {"ext", "rest"}
         /\ Len(list) \in Nat /\ DOMAIN list = 1 .. Len(list)
         /\ call.i <= Len(list) + 1 /\ call.mark \subseteq DOMAIN list
         /\ last = NoSearch
         /\ \A j \in DOMAIN list : list[j] \in Format
BY DEF CallInv, CallType, ListInv, ListType

-----------------------------------------------------------------------------
LEMMA SkipStep ==
  ASSUME ListInv, FileInv, SearchInv, Skip
  PROVE  FileInv' /\ SearchInv'
<1>1. call # Idle /\ call.i <= Len(list) /\ ~Wanted(call.i) /\ call' = [call EXCEPT !.i = @ + 1]
  BY DEF Skip
<1>2. UNCHANGED <<memory, list, last, crashed>> /\ UNCHANGED files
  BY DEF Skip, registry
<1>3. /\ call \in CallType /\ call.i \in Nat \ {0} /\ call.phase \in {"ext", "rest"}
      /\ Len(list) \in Nat /\ DOMAIN list = 1 .. Len(list) /\ call.mark \subseteq DOMAIN list
      /\ last = NoSearch
  BY <1>1, InSearch DEF SearchInv
<1>4. /\ call' \in CallType /\ call'.i = call.i + 1 /\ call'.phase = call.phase
      /\ call'.kind = call.kind /\ call'.mark = call.mark
  BY <1>1, <1>3, NextFormat
<1>5. CallInv'
  BY <1>1, <1>2, <1>3, <1>4 DEF SearchInv, CallInv, files
<1>6. AskedInv'
  <2>1. ASSUME NEW j \in DOMAIN list, Passed(j)' PROVE j \in call.mark
    <3>1. CASE Passed(j)
      BY <1>1, <3>1 DEF SearchInv, AskedInv
    <3>2. CASE ~Passed(j)
      <4>1. j = call.i
        BY <2>1, <3>2, <1>2, <1>3, <1>4 DEF Passed
      <4>2. CASE call.phase = "ext"
        BY <1>1, <2>1, <4>1, <4>2, <1>2, <1>4 DEF Wanted, Passed
      <4>3. CASE call.phase = "rest"
        BY <1>1, <4>1, <4>3 DEF Wanted
      <4>4. QED
        BY <4>2, <4>3, <1>3
    <3>3. QED
      BY <3>1, <3>2
  <2>2. ASSUME NEW j \in DOMAIN list, j \in call.mark PROVE ~SurelyOpens(list[j], call.kind)
    BY <1>1, <2>2 DEF SearchInv, AskedInv
  <2>3. QED
    BY <2>1, <2>2, <1>2, <1>4 DEF AskedInv, SurelyOpens
<1>7. LastInv'
  BY <1>2, <1>3 DEF LastInv, SearchEndsRight
<1>8. QED
  BY <1>2, <1>5, <1>6, <1>7, SameFiles DEF SearchInv, Flags

LEMMA SecondPassStep ==
  ASSUME ListInv, FileInv, SearchInv, SecondPass
  PROVE  FileInv' /\ SearchInv'
<1>1. /\ call # Idle /\ call.phase = "ext" /\ call.i > Len(list)
      /\ call' = [call EXCEPT !.phase = "rest", !.i = 1]
  BY DEF SecondPass
<1>2. UNCHANGED <<memory, list, last, crashed>> /\ UNCHANGED files
  BY DEF SecondPass, registry
<1>3. /\ call \in CallType /\ call.i \in Nat \ {0}
      /\ Len(list) \in Nat /\ DOMAIN list = 1 .. Len(list) /\ call.mark \subseteq DOMAIN list
      /\ last = NoSearch
  BY <1>1, InSearch DEF SearchInv
<1>4. /\ call' \in CallType /\ call'.i = 1 /\ call'.phase = "rest"
      /\ call'.kind = call.kind /\ call'.mark = call.mark
  BY <1>1, <1>3, FromTheStart
<1>5. CallInv'
  BY <1>1, <1>2, <1>3, <1>4 DEF SearchInv, CallInv, files
<1>6. AskedInv'
  <2>1. ASSUME NEW j \in DOMAIN list, Passed(j)' PROVE j \in call.mark
    <3>1. list[j] \in Traits[call.kind].ext
      BY <2>1, <1>2, <1>3, <1>4 DEF Passed
    <3>2. Passed(j)
      BY <1>1, <1>3, <3>1 DEF Passed
    <3>3. QED
      BY <1>1, <3>2 DEF SearchInv, AskedInv
  <2>2. ASSUME NEW j \in DOMAIN list, j \in call.mark PROVE ~SurelyOpens(list[j], call.kind)
    BY <1>1, <2>2 DEF SearchInv, AskedInv
  <2>3. QED
    BY <2>1, <2>2, <1>2, <1>4 DEF AskedInv, SurelyOpens
<1>7. LastInv'
  BY <1>2, <1>3 DEF LastInv, SearchEndsRight
<1>8. QED
  BY <1>2, <1>5, <1>6, <1>7, SameFiles DEF SearchInv, Flags

LEMMA NoneLeftStep ==
  ASSUME ListInv, FileInv, SearchInv, NoneLeft
  PROVE  FileInv' /\ SearchInv'
<1>1. call # Idle /\ call.phase = "rest" /\ call.i > Len(list)
  BY DEF NoneLeft
<1>2. /\ call' = Idle /\ last' = [error |-> "FORMAT", kind |-> call.kind, format |-> NoFormat]
      /\ UNCHANGED <<memory, list, crashed>> /\ UNCHANGED files
  BY DEF NoneLeft, Ends, registry
<1>3. /\ call.i \in Nat \ {0} /\ call.kind \in Kind
      /\ Len(list) \in Nat /\ DOMAIN list = 1 .. Len(list)
  BY <1>1, InSearch DEF SearchInv
<1>4. \A j \in DOMAIN list : ~SurelyOpens(list[j], call.kind)
  <2>1. ASSUME NEW j \in DOMAIN list PROVE Passed(j)
    BY <1>1, <1>3 DEF Passed
  <2>2. QED
    BY <1>1, <2>1 DEF SearchInv, AskedInv
<1>5. LastInv'
  <2>1. last' \in LastType
    BY <1>2, <1>3 DEF LastType, Answer
  <2>2. last'.error = "FORMAT" /\ last'.kind = call.kind
    BY <1>2
  <2>3. \A g \in Members(list') : ~SurelyOpens(g, call.kind)
    BY <1>2, <1>4 DEF Members
  <2>4. QED
    BY <2>1, <2>2, <2>3 DEF LastInv, SearchEndsRight, SurelyOpens
<1>6. CallInv' /\ AskedInv'
  BY <1>2 DEF CallInv, AskedInv
<1>7. QED
  BY <1>2, <1>5, <1>6, SameFiles DEF SearchInv, Flags

-----------------------------------------------------------------------------
(* What an answer says of the file.                                        *)
LEMMA AnswersMean ==
  ASSUME NEW k \in Kind, NEW f \in Format, NEW answer \in Answers(f, k), memory \in BOOLEAN
  PROVE  /\ answer \in {"NONE", "HOLLOW"} => f \in Traits[k].bears \cup Traits[k].short
         /\ answer = "OPEN" => ~Traits[k].exists
         /\ answer \in {"ACCESS", "COMPRESS"} =>
              \/ answer \in Traits[k].flaws
              \/ Traits[k].short # {} /\ (memory \/ Traits[k].empty)
<1>1. Traits[k].flaws \subseteq Answer \ {"OPEN"}
  BY KindAssumption
<1>2. CASE ~Traits[k].exists
  <2>1. answer \in {"FORMAT", "OPEN"}
    BY <1>2 DEF Answers
  <2>2. QED
    BY <1>2, <2>1
<1>3. CASE Traits[k].exists /\ f \in Traits[k].short
  <2>1. answer \in ShortAnswers(f, k)
    BY <1>3 DEF Answers
  <2>2. CASE f \in Tiff
    <3>1. answer = "FORMAT"
      BY <2>1, <2>2 DEF ShortAnswers
    <3>2. QED
      BY <3>1
  <2>3. CASE f \notin Tiff /\ IF f \in Lenient THEN Traits[k].empty ELSE memory
    <3>1. answer = "ACCESS"
      BY <2>1, <2>3 DEF ShortAnswers
    <3>2. memory \/ Traits[k].empty
      BY <2>3
    <3>3. QED
      BY <1>3, <3>1, <3>2
  <2>4. CASE f \notin Tiff /\ ~(IF f \in Lenient THEN Traits[k].empty ELSE memory)
    <3>1. answer \in {"FORMAT", "NONE"}
      BY <2>1, <2>4 DEF ShortAnswers
    <3>2. QED
      BY <1>3, <3>1
  <2>5. QED
    BY <2>2, <2>3, <2>4
<1>4. CASE Traits[k].exists /\ f \notin Traits[k].short /\ f \in Traits[k].bears
  <2>1. answer \in {"NONE"} \cup Traits[k].flaws
    BY <1>4 DEF Answers
  <2>2. QED
    BY <1>1, <1>4, <2>1
<1>5. CASE Traits[k].exists /\ f \notin Traits[k].short /\ f \notin Traits[k].bears
  <2>1. answer = "FORMAT"
    BY <1>5 DEF Answers
  <2>2. QED
    BY <2>1
<1>6. QED
  BY <1>2, <1>3, <1>4, <1>5

(* The format whose turn it is comes first of those that open the file.    *)
LEMMA NoneEarlier ==
  ASSUME ListInv, SearchInv, call # Idle, call.i <= Len(list), Wanted(call.i),
         NEW g \in Members(list), SurelyOpens(g, call.kind)
  PROVE  ~Earlier(g, list[call.i], call.kind)
<1> DEFINE f == list[call.i]
           ext == Traits[call.kind].ext
<1> SUFFICES ASSUME Earlier(g, f, call.kind) PROVE FALSE
  OBVIOUS
<1>1. /\ call.i \in 1 .. Len(list) /\ Len(list) \in Nat /\ DOMAIN list = 1 .. Len(list)
      /\ call.phase \in {"ext", "rest"}
  BY InSearch DEF SearchInv
<1>2. ASSUME NEW p \in DOMAIN list, list[p] = g PROVE ~Passed(p)
  BY <1>2 DEF SearchInv, AskedInv
<1>3. CASE g \in ext <=> f \in ext
  <2>1. PICK p \in DOMAIN list : list[p] = g /\ \A j \in 1 .. p : list[j] # f
    BY <1>3 DEF Earlier
  <2>2. p < call.i
    BY <2>1, <1>1
  <2>3. CASE call.phase = "ext"
    <3>1. f \in ext
      BY <2>3 DEF Wanted
    <3>2. QED
      BY <1>2, <1>3, <2>1, <2>2, <2>3, <3>1 DEF Passed
  <2>4. CASE call.phase = "rest"
    BY <1>2, <2>1, <2>2, <2>4 DEF Passed
  <2>5. QED
    BY <1>1, <2>3, <2>4
<1>4. CASE ~(g \in ext <=> f \in ext)
  <2>1. g \in ext /\ f \notin ext
    BY <1>4 DEF Earlier
  <2>2. PICK p \in DOMAIN list : list[p] = g
    BY DEF Members
  <2>3. call.phase = "rest"
    BY <1>1, <2>1 DEF Wanted
  <2>4. QED
    BY <1>2, <2>1, <2>2, <2>3 DEF Passed
<1>5. QED
  BY <1>3, <1>4

LEMMA TryStep ==
  ASSUME ListInv, FileInv, SearchInv, Try
  PROVE  FileInv' /\ SearchInv'
<1> DEFINE f == list[call.i]
           k == call.kind
<1>1. call # Idle /\ call.i <= Len(list) /\ Wanted(call.i)
  BY DEF Try
<1>2. UNCHANGED <<memory, list, crashed>>
  BY DEF Try, registry
<1>3. PICK answer \in Answer :
        /\ Attempt(f, k, answer)
        /\ \/ /\ answer = "FORMAT"
              /\ call' = [call EXCEPT !.i = @ + 1, !.mark = @ \cup {call.i}]
              /\ UNCHANGED last
           \/ answer # "FORMAT" /\ Ends(answer, f)
  BY DEF Try
<1>4. /\ call \in CallType /\ call.i \in Nat \ {0} /\ call.phase \in {"ext", "rest"}
      /\ Len(list) \in Nat /\ DOMAIN list = 1 .. Len(list) /\ call.mark \subseteq DOMAIN list
      /\ last = NoSearch /\ call.i \in DOMAIN list /\ k \in Kind /\ f \in Format
  BY <1>1, InSearch DEF SearchInv
<1>5. \A o \in open : o.kind # k
  BY <1>1 DEF SearchInv, CallInv
<1>6. FileInv'
  BY <1>3, <1>4, <1>5, AttemptLeaves
<1>7. answer \in Answers(f, k)
  BY <1>3 DEF Attempt
<1>8. CASE answer = "FORMAT"
  <2>1. /\ call' \in CallType /\ call'.i = call.i + 1 /\ call'.phase = call.phase
        /\ call'.kind = k /\ call'.mark = call.mark \cup {call.i}
    <3>1. call' = [call EXCEPT !.i = @ + 1, !.mark = @ \cup {call.i}]
      BY <1>3, <1>8
    <3>2. QED
      BY <3>1, <1>4, NextMarked
  <2>2. UNCHANGED <<open, last>>
    BY <1>3, <1>8 DEF Attempt
  <2>3. CallInv'
    BY <1>1, <1>2, <1>4, <1>5, <2>1, <2>2 DEF CallInv
  <2>4. ASSUME NEW j \in DOMAIN list, Passed(j)' PROVE j \in call'.mark
    <3>1. CASE Passed(j)
      BY <1>1, <2>1, <3>1 DEF SearchInv, AskedInv
    <3>2. CASE ~Passed(j)
      <4>1. j = call.i
        BY <2>4, <3>2, <1>2, <1>4, <2>1 DEF Passed
      <4>2. QED
        BY <4>1, <2>1
    <3>3. QED
      BY <3>1, <3>2
  <2>5. ASSUME NEW j \in DOMAIN list, j \in call'.mark PROVE ~SurelyOpens(list[j], k)
    <3>1. CASE j \in call.mark
      BY <1>1, <3>1 DEF SearchInv, AskedInv
    <3>2. CASE j = call.i
      BY <1>7, <1>8, <3>2, SureAnswer
    <3>3. QED
      BY <2>1, <2>5, <3>1, <3>2
  <2>6. AskedInv'
    BY <2>4, <2>5, <1>2, <2>1 DEF AskedInv, SurelyOpens
  <2>7. LastInv'
    BY <1>4, <2>2 DEF LastInv, SearchEndsRight
  <2>8. QED
    BY <1>2, <1>6, <2>3, <2>6, <2>7 DEF SearchInv, Flags
<1>9. CASE answer # "FORMAT"
  <2>1. call' = Idle /\ last' = [error |-> answer, kind |-> k, format |-> f]
    BY <1>3, <1>9 DEF Ends
  <2>2. last' \in LastType /\ last'.error = answer /\ last'.kind = k /\ last'.format = f
    BY <2>1, <1>4 DEF LastType
  <2>3. memory \in BOOLEAN
    BY DEF SearchInv, Flags
  <2>4. /\ answer \in {"NONE", "HOLLOW"} => f \in Traits[k].bears \cup Traits[k].short
        /\ answer = "OPEN" => ~Traits[k].exists
        /\ answer \in {"ACCESS", "COMPRESS"} =>
             \/ answer \in Traits[k].flaws
             \/ Traits[k].short # {} /\ (memory \/ Traits[k].empty)
    BY <1>4, <1>7, <2>3, AnswersMean
  <2>5. \A g \in Members(list) : SurelyOpens(g, k) => ~Earlier(g, f, k)
    BY <1>1, NoneEarlier
  <2>6. PICK kind \in Kind : kind = k
    BY <1>4
  <2>7. PICK format \in Format : format = f
    BY <1>4
  <2>8. SearchEndsRight'
    <3>1. last'.error = answer /\ last'.kind = kind /\ last'.format = format
      BY <2>2, <2>6, <2>7
    <3>2. \A g \in Members(list') : SurelyOpens(g, kind)' => ~Earlier(g, format, kind)'
      BY <2>5, <2>6, <2>7, <1>2 DEF Members, SurelyOpens, Earlier
    <3>3. /\ answer \in {"NONE", "HOLLOW"} => format \in Traits[kind].bears \cup Traits[kind].short
          /\ answer = "OPEN" => ~Traits[kind].exists
          /\ answer \in {"ACCESS", "COMPRESS"} =>
               \/ answer \in Traits[kind].flaws
               \/ Traits[kind].short # {} /\ (memory' \/ Traits[kind].empty)
      BY <2>4, <2>6, <2>7, <1>2
    <3>4. QED
      BY <1>9, <3>1, <3>2, <3>3 DEF SearchEndsRight
  <2>9. LastInv'
    BY <2>2, <2>8 DEF LastInv
  <2>10. CallInv' /\ AskedInv'
    BY <2>1 DEF CallInv, AskedInv
  <2>11. QED
    BY <1>2, <1>6, <2>9, <2>10 DEF SearchInv, Flags
<1>10. QED
  BY <1>8, <1>9

-----------------------------------------------------------------------------
LEMMA NoSearchUnderWay ==
  ASSUME call' = Idle, last' = NoSearch, Flags'
  PROVE  SearchInv'
BY DEF SearchInv, CallInv, AskedInv, LastInv, SearchEndsRight

LEMMA OpenStep ==
  ASSUME ListInv, ListInv', FileInv, SearchInv, NEW k \in Kind, imFileOpen(k)
  PROVE  FileInv' /\ SearchInv'
<1> DEFINE c == [phase |-> "ext", i |-> 1, kind |-> k, mark |-> {}]
<1>1. /\ call' = c /\ last' = NoSearch
      /\ UNCHANGED <<memory, crashed>> /\ UNCHANGED files
      /\ \A o \in open : o.kind # k
  BY DEF imFileOpen, Opens, Calls
<1>2. c \in CallType /\ c.phase = "ext" /\ c.i = 1 /\ c.kind = k /\ c.mark = {}
  BY DEF CallType
<1>3. Len(list') \in Nat /\ DOMAIN list' = 1 .. Len(list')
  BY DEF ListInv, ListType
<1> HIDE DEF c
<1>4. CallInv'
  BY <1>1, <1>2, <1>3 DEF CallInv, files
<1>5. AskedInv'
  <2>1. ASSUME NEW j \in DOMAIN list' PROVE ~(j < 1)
    BY <2>1, <1>3
  <2>2. \A j \in DOMAIN list' : ~Passed(j)'
    BY <1>1, <1>2, <2>1 DEF Passed
  <2>3. QED
    BY <1>1, <1>2, <2>2 DEF AskedInv
<1>6. LastInv' /\ Flags'
  BY <1>1 DEF SearchInv, LastInv, SearchEndsRight, Flags
<1>7. QED
  BY <1>1, <1>4, <1>5, <1>6, SameFiles DEF SearchInv

LEMMA OpenAsStep ==
  ASSUME FileInv, SearchInv, NEW k \in Kind, NEW f \in Format, imFileOpenAs(k, f)
  PROVE  FileInv' /\ SearchInv'
<1>1. call' = Idle /\ last' = NoSearch /\ UNCHANGED memory /\ \A o \in open : o.kind # k
  BY DEF imFileOpenAs, Opens, Calls
<1>2. CASE (\E answer \in Answer : Attempt(f, k, answer)) /\ UNCHANGED crashed
  <2>1. PICK answer \in Answer : Attempt(f, k, answer)
    BY <1>2
  <2>2. FileInv'
    BY <1>1, <2>1, AttemptLeaves
  <2>3. QED
    BY <1>1, <1>2, <2>2, NoSearchUnderWay DEF SearchInv, Flags
<1>3. CASE crashed' = TRUE /\ UNCHANGED files
  BY <1>1, <1>3, SameFiles, NoSearchUnderWay DEF SearchInv, Flags
<1>4. QED
  BY <1>2, <1>3 DEF imFileOpenAs

LEMMA NewStep ==
  ASSUME FileInv, SearchInv, NEW k \in Kind, NEW f \in Format, imFileNew(k, f)
  PROVE  FileInv' /\ SearchInv'
<1>1. /\ call' = Idle /\ last' = NoSearch /\ UNCHANGED <<memory, lost, crashed>>
      /\ \A o \in open : o.kind # k
  BY DEF imFileNew, Opens, Calls
<1>2. SearchInv'
  BY <1>1, NoSearchUnderWay DEF SearchInv, Flags
<1>3. CASE UNCHANGED <<open, handles, objects>>
  BY <1>1, <1>2, <1>3, SameFiles DEF files
<1>4. CASE /\ open' = open \cup {[kind |-> k, format |-> f, hollow |-> FALSE]}
           /\ handles' = handles + 1 /\ objects' = objects + 1
  BY <1>1, <1>2, <1>4, OpenedFile
<1>5. QED
  BY <1>3, <1>4 DEF imFileNew

LEMMA CloseStep ==
  ASSUME FileInv, SearchInv, NEW o \in open, imFileClose(o)
  PROVE  FileInv' /\ SearchInv'
<1>1. call' = Idle /\ last' = NoSearch /\ UNCHANGED memory /\ crashed' = o.hollow
  BY DEF imFileClose, Calls
<1>2. o.hollow \in BOOLEAN
  BY DEF FileInv, OpenFile
<1>3. SearchInv'
  BY <1>1, <1>2, NoSearchUnderWay DEF SearchInv, Flags
<1>4. QED
  BY <1>3, ClosedFile

LEMMA RegistryStep ==
  ASSUME FileInv, SearchInv,
         \/ imFormatRegisterInternal \/ imFormatRemoveAll \/ OtherModule
         \/ \E f \in Plugin : imFormatRegister(f)
  PROVE  FileInv' /\ SearchInv'
<1>1. /\ call' = Idle /\ last' = NoSearch /\ UNCHANGED crashed /\ UNCHANGED files
      /\ memory' = memory \/ memory' = ~memory
  BY DEF imFormatRegisterInternal, imFormatRemoveAll, OtherModule, imFormatRegister, Calls
<1>2. Flags'
  BY <1>1 DEF SearchInv, Flags
<1>3. QED
  BY <1>1, <1>2, SameFiles, NoSearchUnderWay

LEMMA StutterStep ==
  ASSUME FileInv, SearchInv, UNCHANGED vars
  PROVE  FileInv' /\ SearchInv'
<1>1. UNCHANGED <<memory, list, call, last, crashed, open>> /\ UNCHANGED files
  BY DEF vars, registry, files
<1>2. CallInv' /\ Flags'
  BY <1>1 DEF SearchInv, CallInv, Flags
<1>3. AskedInv'
  BY <1>1 DEF SearchInv, AskedInv, Passed, SurelyOpens
<1>4. LastInv'
  BY <1>1 DEF SearchInv, LastInv, SearchEndsRight, Members, SurelyOpens, Earlier
<1>5. QED
  BY <1>1, <1>2, <1>3, <1>4, SameFiles DEF SearchInv

LEMMA FormatStep == FormatInv /\ [Next]_vars => FormatInv'
<1> SUFFICES ASSUME ListInv, FileInv, SearchInv, [Next]_vars PROVE FormatInv'
  BY DEF FormatInv
<1>1. ListInv'
  BY ListStep
<1>2. FileInv' /\ SearchInv'
  <2>1. CASE Search
    BY <2>1, SkipStep, TryStep, SecondPassStep, NoneLeftStep DEF Search
  <2>2. CASE \/ imFormatRegisterInternal \/ imFormatRemoveAll \/ OtherModule
             \/ \E f \in Plugin : imFormatRegister(f)
    BY <2>2, RegistryStep
  <2>3. ASSUME NEW k \in Kind, imFileOpen(k) PROVE FileInv' /\ SearchInv'
    BY <2>3, <1>1, OpenStep
  <2>4. ASSUME NEW k \in Kind, NEW f \in Format, imFileOpenAs(k, f) \/ imFileNew(k, f)
        PROVE  FileInv' /\ SearchInv'
    BY <2>4, OpenAsStep, NewStep
  <2>5. ASSUME NEW o \in open, imFileClose(o) PROVE FileInv' /\ SearchInv'
    BY <2>5, CloseStep
  <2>6. CASE UNCHANGED vars
    BY <2>6, StutterStep
  <2>7. QED
    BY <2>1, <2>2, <2>3, <2>4, <2>5, <2>6 DEF Next, Program
<1>3. QED
  BY <1>1, <1>2 DEF FormatInv

LEMMA InitFormat == Init => FormatInv
<1> SUFFICES ASSUME Init PROVE FormatInv
  OBVIOUS
<1>1. /\ memory \in BOOLEAN /\ crashed = FALSE /\ call = Idle /\ last = NoSearch
      /\ open = {} /\ handles = 0 /\ objects = 0 /\ lost = 0
  BY DEF Init
<1>2. FileInv
  <2>1. Holding(open) = {}
    BY <1>1 DEF Holding
  <2>2. QED
    BY <1>1, <2>1, FS_EmptySet DEF FileInv
<1>3. SearchInv
  BY <1>1 DEF SearchInv, CallInv, AskedInv, LastInv, SearchEndsRight, Flags
<1>4. QED
  BY <1>2, <1>3, InitList DEF FormatInv

LEMMA FormatInvAlways == Spec => []FormatInv
BY InitFormat, FormatStep, PTL DEF Spec

(* The driver objects and handles are those of the open files, but for the *)
(* handles the TIFF driver loses, whatever drivers answer in whatever      *)
(* order.                                                                  *)
THEOREM NothingEverLeftBehind == Spec => []NothingLeftBehind
<1>1. FormatInv => NothingLeftBehind
  BY DEF FormatInv, FileInv, Holding, NothingLeftBehind
<1>2. QED
  BY <1>1, FormatInvAlways, PTL

(* A search ends with the first format that opens the file, those with its *)
(* extension before the others - not in the order of registration alone,   *)
(* as im.h:264-265 has it - and without one only if there is none or an    *)
(* error stopped it, for any formats, lists and traits of files.           *)
THEOREM SearchAlwaysEndsRight == Spec => []SearchEndsRight
<1>1. FormatInv => SearchEndsRight
  BY DEF FormatInv, SearchInv, LastInv
<1>2. QED
  BY <1>1, FormatInvAlways, PTL

(* Every variable keeps its type, and a search its place in the list.      *)
THEOREM FormatTypeCorrect == Spec => []TypeOK
<1>1. ASSUME FormatInv PROVE TypeOK
  <2>1. {memory, registered, crashed} \subseteq BOOLEAN
    BY <1>1 DEF FormatInv, SearchInv, Flags, ListInv, ListType
  <2>2. list \in Seq(Format)
    BY <1>1 DEF FormatInv, ListInv, ListType
  <2>3. call # Idle => /\ call \in CallType
                       /\ call.i <= Len(list) + 1 /\ call.mark \subseteq DOMAIN list
    BY <1>1 DEF FormatInv, SearchInv, CallInv
  <2>4. last # NoSearch => last \in LastType
    BY <1>1 DEF FormatInv, SearchInv, LastInv
  <2>5. open \in SUBSET OpenFile /\ {handles, objects, lost} \subseteq Nat
    <3>1. Cardinality(Holding(open)) \in Nat /\ Cardinality(open) \in Nat
      BY <1>1, HoldingFinite DEF FormatInv, FileInv
    <3>2. QED
      BY <1>1, <3>1 DEF FormatInv, FileInv
  <2>6. QED
    BY <2>1, <2>2, <2>3, <2>4, <2>5 DEF TypeOK, CallType, LastType
<1>2. QED
  BY <1>1, FormatInvAlways, PTL
=============================================================================
