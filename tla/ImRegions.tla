------------------------------ MODULE ImRegions ------------------------------
(***************************************************************************)
(* Finding the regions of a binary image (src/process/im_analyze.cpp): one *)
(* scan gives every white pixel the number of a neighbor already seen, or  *)
(* a new one, and writes down in the alias table which numbers turn out to *)
(* be one region; then numbers are made consecutive.  Two operations built *)
(* on it are here too: filling holes and removing regions by their area.   *)
(***************************************************************************)
EXTENDS Integers, FiniteSets

CONSTANTS
  Image,     \* width, height and the white pixels
  MaxCount   \* MAX_COUNT: numbers there are, with 0 (background) and 1 (border)

ASSUME MaxCountAssumption == MaxCount \in Nat /\ MaxCount > 2
ASSUME ImageAssumption ==
  \A m \in Image :
    /\ m \in [width : Nat \ {0}, height : Nat \ {0}, white : SUBSET (Nat \X Nat)]
    /\ m.white \subseteq (0 .. m.height - 1) \X (0 .. m.width - 1)

Label == 1 .. MaxCount - 1

VARIABLES
  op,     \* what is done, and with which parameters
  image,  \* the one that is scanned
  phase,  \* "scan", "update", "use" or "done"
  at,     \* the line and column the scan is at
  label,  \* the result: new_map
  alias,  \* the alias table
  count,  \* numbers given, then the regions found, -1 if there are too many
  out     \* white pixels of the operation's result

vars == <<op, image, phase, at, label, alias, count, out>>

Pixels(m) == (0 .. m.height - 1) \X (0 .. m.width - 1)

(* The image a caller gives; holes are looked for in the negative one, and *)
(* regions that touch the border do not count then.  fresh: the image for  *)
(* the result was just created, and not that of an earlier call.           *)
Operation ==
  [kind : {"find"}, connect : {4, 8}, border : BOOLEAN, fresh : BOOLEAN]
    \cup [kind : {"fill"}, connect : {4, 8}, border : {FALSE}, fresh : {TRUE}]
    \cup [kind : {"remove"}, connect : {4, 8}, border : {TRUE}, fresh : {TRUE},
          inside : BOOLEAN, least : {2}, most : {3, 100}]

Negative(m) == [m EXCEPT !.white = Pixels(m) \ m.white]

White(p) == p \in image.white
Left(p) == <<p[1], p[2] - 1>>
Up(p) == <<p[1] - 1, p[2]>>
UpLeft(p) == <<p[1] - 1, p[2] - 1>>
UpRight(p) == <<p[1] - 1, p[2] + 1>>

OnEdge(m, p) == p[1] \in {0, m.height - 1} \/ p[2] \in {0, m.width - 1}
OnLastEdge(m, p) == p[1] = m.height - 1 \/ p[2] = m.width - 1

-----------------------------------------------------------------------------
(* The numbers a number leads to, itself included: the least set that is   *)
(* closed under the table.                                                 *)
Closed(a, S) == \A r \in S : a[r] # 0 => a[r] \in S

Chain(a, region) ==
  {r \in Label : \A S \in SUBSET Label : region \in S /\ Closed(a, S) => r \in S}

Least(S) == CHOOSE s \in S : \A t \in S : s <= t

(* The last of them.                                                       *)
End(a, region) == CHOOSE r \in Chain(a, region) : a[r] = 0

(* Nothing to do for one number; nor for 1, which is never an alias, and   *)
(* the 0 of a pixel that has no number yet (the corner at the bottom left).*)
Same(region1, region2) == region1 = region2 \/ 0 \in {region1, region2}

Led(a, numbers, min) == [r \in Label |-> IF r \in numbers \ {min} THEN min ELSE a[r]]

(* Seeded bug: only the number itself is rewritten, not what it led to.    *)
BugSetsOne(a, region1, region2) ==
  LET min == Least(Chain(a, region1) \cup Chain(a, region2))
  IN IF Same(region1, region2) THEN a ELSE Led(a, {region1, region2}, min)

(* Seeded bug: alias_getmin is forgotten, and the least of the two numbers *)
(* is taken for the least of all that they lead to.                        *)
BugLeastOfTwo(a, region1, region2) ==
  IF Same(region1, region2) THEN a
  ELSE Led(a, Chain(a, region1) \cup Chain(a, region2), Least({region1, region2}))

(* alias_set, with alias_getmin and alias_setmin: all of both chains lead  *)
(* to the least number among them.                                         *)
alias_set(a, region1, region2) ==
  LET both == Chain(a, region1) \cup Chain(a, region2)
  IN IF Same(region1, region2) THEN a ELSE Led(a, both, Least(both))

Aliases == {r \in 2 .. count - 1 : alias[r] # 0}
(* alias_update: what a number stands for in the end.  The table is only   *)
(* rewritten up to the numbers given.                                      *)
Remapped(region) ==
  IF region >= count THEN alias[region]
  ELSE IF End(alias, region) = 1 THEN 0
  ELSE Cardinality({r \in 2 .. End(alias, region) : alias[r] = 0})

-----------------------------------------------------------------------------
(* Without the border the first line and column are marked at once, but    *)
(* the corner at the bottom left is not.                                   *)
Marked(m, border) ==
  IF border THEN {}
  ELSE {p \in m.white : p[1] = 0 \/ (p[2] = 0 /\ p[1] < m.height - 1)}

Scannable(m, border) ==
  border \/ (m.height > 1 /\ m.width > 1)

Init ==
  \E o \in Operation, m \in Image :
    /\ op = o
    /\ image = IF o.kind = "fill" THEN Negative(m) ELSE m
    /\ phase = IF Scannable(m, o.border) THEN "scan" ELSE "update"
    /\ at = IF o.border THEN <<0, 0>> ELSE <<1, 1>>
    /\ label = [p \in Pixels(m) |->
                  IF p \in Marked(image, o.border) THEN 1 ELSE IF o.fresh THEN 0 ELSE 2]
    /\ alias = [r \in Label |-> 0]
    /\ count = 2
    /\ out = {}

(* The number of a white pixel that touches one already seen, and the      *)
(* pairs of numbers that are one region because of it.                     *)
Start(p) == IF ~op.border /\ OnLastEdge(image, p) THEN 1 ELSE 0
Corners == op.connect = 8

Touches(p) ==
  White(Left(p)) \/ White(Up(p)) \/ (Corners /\ (White(UpLeft(p)) \/ White(UpRight(p))))

(* The number so far: after the left neighbor, and after the upper one.    *)
AfterLeft(p) == IF Start(p) = 0 /\ White(Left(p)) THEN label[Left(p)] ELSE Start(p)
AfterUp(p) == IF AfterLeft(p) = 0 /\ White(Up(p)) THEN label[Up(p)] ELSE AfterLeft(p)
Region(p) ==
  IF AfterUp(p) # 0 \/ ~Corners THEN AfterUp(p)
  ELSE IF White(UpLeft(p)) THEN label[UpLeft(p)]
  ELSE IF White(UpRight(p)) THEN label[UpRight(p)] ELSE 0

LeftJoins(p) == Start(p) # 0 /\ White(Left(p))
UpJoins(p) ==
  AfterLeft(p) # 0 /\ (White(Up(p)) \/ (Corners /\ White(UpRight(p))))
CornersJoin(p) == AfterUp(p) = 0 /\ Corners /\ White(UpLeft(p)) /\ White(UpRight(p))

Joined(p) ==
  LET first == IF LeftJoins(p) THEN alias_set(alias, Start(p), label[Left(p)]) ELSE alias
  IN IF UpJoins(p)
     THEN alias_set(first, AfterLeft(p), label[IF White(Up(p)) THEN Up(p) ELSE UpRight(p)])
     ELSE IF CornersJoin(p) THEN alias_set(first, label[UpLeft(p)], label[UpRight(p)])
     ELSE first

NextPixel(p) ==
  IF p[2] < image.width - 1 THEN <<p[1], p[2] + 1>>
  ELSE <<p[1] + 1, IF op.border THEN 0 ELSE 1>>

Moves == at' = NextPixel(at) /\ phase' = IF NextPixel(at)[1] = image.height THEN "update" ELSE "scan"

Black ==
  /\ phase = "scan" /\ ~White(at)
  /\ Moves
  /\ UNCHANGED <<op, image, label, alias, count, out>>

(* It touches what was seen.                                               *)
Connect ==
  /\ phase = "scan" /\ White(at) /\ Touches(at)
  /\ alias' = Joined(at)
  /\ label' = [label EXCEPT ![at] = Region(at)]
  /\ Moves
  /\ UNCHANGED <<op, image, count, out>>

(* It is alone: at the border, or a new number, if there is one left (the  *)
(* first that there is not is written as an unsigned short: 0).            *)
Alone ==
  /\ phase = "scan" /\ White(at) /\ ~Touches(at)
  /\ IF Start(at) = 1
     THEN /\ label' = [label EXCEPT ![at] = 1]
          /\ Moves /\ UNCHANGED count
     ELSE /\ label' = [label EXCEPT ![at] = IF count < MaxCount THEN count ELSE 0]
          /\ IF count + 1 > MaxCount
             THEN count' = -1 /\ phase' = "use" /\ UNCHANGED at
             ELSE count' = count + 1 /\ Moves
  /\ UNCHANGED <<op, image, alias, out>>

Update ==
  /\ phase = "update"
  /\ label' = [p \in Pixels(image) |-> IF label[p] = 0 THEN 0 ELSE Remapped(label[p])]
  /\ count' = count - 2 - Cardinality(Aliases)
  /\ phase' = "use"
  /\ UNCHANGED <<op, image, at, alias, out>>

(* What the caller does with it: nothing; imProcessFillHoles; and          *)
(* imProcessRemoveByArea, which needs the regions to be counted.           *)
Area(n) == Cardinality({p \in Pixels(image) : label[p] = n})

Use ==
  /\ phase = "use"
  /\ op.kind = "remove" => count >= 0
  /\ out' = CASE op.kind = "find" -> {}
              [] op.kind = "fill" -> {p \in Pixels(image) : label[p] # 0 \/ ~White(p)}
              [] op.kind = "remove" ->
                   {p \in Pixels(image) :
                      label[p] # 0 /\ (Area(label[p]) \in op.least .. op.most) = ~op.inside}
  /\ phase' = "done"
  /\ UNCHANGED <<op, image, at, label, alias, count>>

Next == Black \/ Connect \/ Alone \/ Update \/ Use

Spec == Init /\ [][Next]_vars

-----------------------------------------------------------------------------
(* What a region is, without the scan: the white pixels that can be        *)
(* reached from one by steps to a neighbor.                                *)
Near(connect, p, q) ==
  LET down == p[1] - q[1] right == p[2] - q[2]
  IN /\ down \in -1 .. 1 /\ right \in -1 .. 1
     /\ connect = 4 => down = 0 \/ right = 0

Growth(white, connect, p) ==
  LET Grow[n \in Nat] ==
        IF n = 0 THEN {p}
        ELSE LET before == Grow[n - 1]
             IN before \cup {q \in white : \E r \in before : Near(connect, r, q)}
  IN Grow

Reached(white, connect, p) == Growth(white, connect, p)[Cardinality(white)]

RegionOf(p) == Reached(image.white, op.connect, p)

Considered(p) == op.border \/ \A q \in RegionOf(p) : ~OnEdge(image, q)

(* Corners that are never compared: that of a pixel of the last line or    *)
(* column, which is the border's at once, with what it only touches by its *)
(* upper left one; and that of a pixel of the first column with what it    *)
(* only touches by its upper right one, which was scanned before, when     *)
(* nobody looked down.                                                     *)
LostCorner(p, corner, side) ==
  White(corner) /\ ~OnEdge(image, corner) /\ ~White(Up(p)) /\ ~White(side)

CornerIsLost ==
  /\ op.connect = 8 /\ ~op.border
  /\ \E p \in image.white :
       \/ OnLastEdge(image, p) /\ LostCorner(p, UpLeft(p), Left(p))
       \/ p[2] = 0 /\ LostCorner(p, UpRight(p), <<p[1], 1>>)

(* The corner at the bottom left has what an earlier call left there.      *)
CornerIsStale ==
  ~op.border /\ ~op.fresh /\ image.height > 1 /\ White(<<image.height - 1, 0>>)

Trustworthy == phase = "done" /\ count >= 0 /\ ~CornerIsLost /\ ~CornerIsStale

(* The tables stay in range, and a number is only ever an alias of a       *)
(* smaller one: the three loops that follow aliases all end                *)
(* (im_analyze.cpp:35, 67 and 79).                                         *)
TypeOK ==
  /\ phase \in {"scan", "update", "use", "done"}
  /\ count \in -1 .. MaxCount
  /\ label \in [Pixels(image) -> 0 .. MaxCount - 1]
  /\ alias \in [Label -> 0 .. MaxCount - 1]
  /\ \A r \in Label : alias[r] < r
  /\ out \subseteq Pixels(image)

NumbersAreRegions ==
  LET considered == {p \in image.white : Considered(p)}
      regions == {RegionOf(p) : p \in considered}
  IN /\ count = Cardinality(regions)
     /\ \A R \in regions : \E n \in 1 .. count :
          {p \in image.white : label[p] = n} = R
     /\ \A p \in image.white \ considered : label[p] = 0

Source == IF op.kind = "fill" THEN Pixels(image) \ image.white ELSE image.white

(* What im_process_ana.h:166 promises, and the two operations that rest on *)
(* it: every region has one number of its own from 1 to the count whatever *)
(* shape it has, regions at the border have none unless they are asked     *)
(* for, a hole is filled exactly when it does not reach the border         *)
(* (imProcessFillHoles), and a region stays exactly when its area says so  *)
(* (imProcessRemoveByArea).  Not so with more regions than numbers, for a  *)
(* corner that is lost, and in an image that held another result.          *)
RegionsAreRight ==
  Trustworthy =>
    /\ NumbersAreRegions
    /\ op.fresh => \A p \in Pixels(image) \ image.white : label[p] = 0
    /\ op.kind = "fill" => out = Source \cup {p \in image.white : Considered(p)}
    /\ op.kind = "remove" =>
         out = {p \in Source :
                  (Cardinality(RegionOf(p)) \in op.least .. op.most) # op.inside}
=============================================================================
