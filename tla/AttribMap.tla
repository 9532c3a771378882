----------------------------- MODULE AttribMap ------------------------------
(***************************************************************************)
(* What the attribute tables of IM promise their users (im_attrib.h, class *)
(* imAttribTable): each is a map from names to data, however it is stored. *)
(* Every operation takes effect at once.                                   *)
(***************************************************************************)
EXTENDS Integers, FiniteSets

CONSTANTS Table,    \* tables the program may have
          Name,     \* names of attributes
          Data      \* data of attributes (type, count and values)

VARIABLES alive,    \* the tables that exist
          map       \* map[t] holds the pairs <<name, data>> of t

vars == <<alive, map>>

Of(m, n) == {e \in m : e[1] = n}
With(m, n, d) == {e \in m : e[1] # n} \cup {<<n, d>>}
(* All of m2, and what m1 says of other names.                             *)
Overlay(m1, m2) == {e \in m1 : \A f \in m2 : f[1] # e[1]} \cup m2

Init ==
  /\ alive = {}
  /\ map = [t \in Table |-> {}]

Create(t) ==
  /\ t \notin alive
  /\ alive' = alive \cup {t}
  /\ UNCHANGED map

Destroy(t) ==
  /\ t \in alive
  /\ alive' = alive \ {t}
  /\ map' = [map EXCEPT ![t] = {}]

Set(t, n, d) ==
  /\ t \in alive
  /\ map' = [map EXCEPT ![t] = With(@, n, d)]
  /\ UNCHANGED alive

UnSet(t, n) ==
  /\ t \in alive
  /\ map' = [map EXCEPT ![t] = @ \ Of(@, n)]
  /\ UNCHANGED alive

RemoveAll(t) ==
  /\ t \in alive
  /\ map' = [map EXCEPT ![t] = {}]
  /\ UNCHANGED alive

CopyFrom(t, s) ==
  /\ {t, s} \subseteq alive
  /\ map' = [map EXCEPT ![t] = Overlay(@, map[s])]
  /\ UNCHANGED alive

MergeFrom(t, s) ==
  /\ {t, s} \subseteq alive
  /\ map' = [map EXCEPT ![t] = Overlay(map[s], @)]
  /\ UNCHANGED alive

Next ==
  \E t \in Table :
    \/ Create(t) \/ Destroy(t) \/ RemoveAll(t)
    \/ \E n \in Name : UnSet(t, n) \/ \E d \in Data : Set(t, n, d)
    \/ \E s \in Table : CopyFrom(t, s) \/ MergeFrom(t, s)

Spec == Init /\ [][Next]_vars

=============================================================================
