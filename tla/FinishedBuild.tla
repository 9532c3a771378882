--------------------------- MODULE FinishedBuild ----------------------------
(***************************************************************************)
(* What a build directory promises to whoever installs from it: while the  *)
(* marker build_done is there, the configuration names a share directory   *)
(* that holds all the libraries it lists, among them the essential ones,   *)
(* and neither changes.  Without the marker anything may be in them.       *)
(***************************************************************************)
CONSTANTS Subdir,      \* names of share directories
          Target,      \* names of libraries
          Essential    \* those a build cannot do without

VARIABLES build_done,  \* the marker file exists
          share,       \* the libraries in sharedir/<subdir>
          subdir,      \* config_data share_subdir
          libs         \* config_data iup_libs

result == <<share, subdir, libs>>
vars == <<build_done, result>>

Whole ==
  /\ subdir \in Subdir
  /\ libs \subseteq share[subdir]
  /\ Essential \subseteq libs

Init ==
  /\ build_done = FALSE
  /\ share = [s \in Subdir |-> {}]
  /\ subdir = "none" /\ libs = {}

(* A build at work, or one that died: the marker is off before and after,  *)
(* or taken off first.                                                     *)
Unfinished ==
  /\ build_done' = FALSE
  /\ share' \in [Subdir -> SUBSET Target]
  /\ subdir' \in Subdir \cup {"none"}
  /\ libs' \in SUBSET Target
  /\ build_done => UNCHANGED result

Finish ==
  /\ ~build_done /\ build_done' = TRUE
  /\ Whole
  /\ UNCHANGED result

Next == Unfinished \/ Finish

Spec == Init /\ [][Next]_vars
=============================================================================
