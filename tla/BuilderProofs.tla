--------------------------- MODULE BuilderProofs ----------------------------
(***************************************************************************)
(* Proofs about Builder, for any libraries, targets, patches and stamps:   *)
(* what the marker of a finished build stands for, at every step of every  *)
(* process that makes, clears or only follows it; then the types, what is  *)
(* unpacked and what is made of it.                                        *)
(***************************************************************************)
EXTENDS AlienInstall, TLAPS

(* The part of the state the marker speaks of.                             *)
ResultType ==
  /\ li \in Nat \ {0}
  /\ share \in [Subdir -> SUBSET Target]
  /\ done \subseteq Target
  /\ conf_done \subseteq Target /\ conf_libs \subseteq Target
  /\ conf_config \subseteq Target
  /\ conf_subdir \in Subdir \cup {"none"} /\ subdir \in Subdir \cup {"none"}

(* The process has chosen its share directory.                             *)
Building == {"unpack", "rmtree", "fetch", "archive", "extract", "patch",
             "github", "gui", "make", "collect", "verdict", "config"}

(* What the stored configuration, once whole, says.                        *)
Stored ==
  /\ conf_subdir \in Subdir
  /\ conf_libs \subseteq share[conf_subdir]
  /\ Essential \subseteq conf_libs

(* How far the result is, for each stage of the build.                     *)
Stages ==
  /\ pc \in Building => subdir \in Subdir
  /\ pc = "make" => done \subseteq share[subdir]
  /\ pc \in {"collect", "verdict"} => conf_done \subseteq share[subdir]
  /\ pc \in {"verdict", "config"} => conf_libs = share[subdir]
  /\ pc = "config" => conf_subdir = subdir
  /\ pc \in {"config", "mark"} => Stored
  /\ pc = "mark" => conf_config = conf_libs

(* The marker is only there between the processes and at the very end of   *)
(* one.                                                                    *)
Marked ==
  build_done => /\ pc \in {"idle", "super"}
                /\ Stored
                /\ conf_config = conf_libs

WholeInv == ResultType /\ Stages /\ Marked

LEMMA NoneIsNoSubdir == "none" \notin Subdir
BY StampAssumption DEF Subdir

(* The places of Build.PL.                                                 *)
Noted == {"first", "rel_url", "rel_sha1", "rel_patches", "cvs_url", "cvs_sha1", "cvs_devel"}

(* It sets notes and nothing else.                                         *)
LEMMA NotingFrame ==
  ASSUME Noting
  PROVE  /\ pc \in Noted
         /\ UNCHANGED <<build_done, sources, share, conf, calm>>
         /\ \/ Ends
            \/ /\ pc' \in Noted /\ li' \in {li, li + 1}
               /\ UNCHANGED <<subdir, archive, kept, opengl, done, success>>
<1>1. CASE \E v \in Flavours : FirstNotes(v)
  BY <1>1 DEF FirstNotes, Noted
<1>2. CASE ReleaseUrl \/ ReleaseSha1 \/ ReleasePatches
  BY <1>2 DEF ReleaseUrl, ReleaseSha1, ReleasePatches, Note, Noted
<1>3. CASE CvsUrl \/ CvsSha1 \/ CvsDevel
  BY <1>3 DEF CvsUrl, CvsSha1, CvsDevel, Note, Noted
<1>4. QED
  BY <1>1, <1>2, <1>3 DEF Noting

LEMMA InitWhole == Init => WholeInv
<1> SUFFICES ASSUME Init PROVE WholeInv
  OBVIOUS
<1>1. ResultType
  BY DEF Init, ResultType
<1>2. Stages
  BY DEF Init, Stages, Building
<1>3. Marked
  BY DEF Init, Marked
<1>4. QED
  BY <1>1, <1>2, <1>3 DEF WholeInv

(* A process that ends leaves the result to the marker.                    *)
LEMMA EndsWhole ==
  ASSUME WholeInv, Ends, UNCHANGED <<build_done, share, conf>>
  PROVE  WholeInv'
<1>1. ResultType'
  BY DEF WholeInv, ResultType, Ends, conf
<1>2. Stages'
  BY DEF Ends, Stages, Building
<1>3. Marked'
  BY DEF WholeInv, Marked, Stored, Ends, conf
<1>4. QED
  BY <1>1, <1>2, <1>3 DEF WholeInv

(* So do the steps before the first make.                                  *)
LEMMA SourcesWhole ==
  ASSUME WholeInv, UNCHANGED <<build_done, share, conf, done, subdir>>,
         pc \in Building, pc' \in Building,
         pc' \notin {"make", "collect", "verdict", "config"},
         li' \in Nat \ {0}
  PROVE  WholeInv'
<1>1. ResultType'
  BY DEF WholeInv, ResultType, conf
<1>2. Stages'
  BY DEF WholeInv, Stages, Building
<1>3. ~build_done'
  BY DEF WholeInv, Marked, Building
<1>4. QED
  BY <1>1, <1>2, <1>3 DEF WholeInv, Marked

LEMMA NextLibNext ==
  ASSUME li \in Nat \ {0}, NextLib
  PROVE  li' \in Nat \ {0} /\ pc' \in {"unpack", "github"}
BY DEF NextLib

(* Building the binaries adds to the chosen share directory only what it   *)
(* notes as done.                                                          *)
LEMMA MakeWhole == WholeInv /\ Make => WholeInv'
<1> SUFFICES ASSUME WholeInv, Make PROVE WholeInv'
  OBVIOUS
<1>1. PICK built \in SUBSET Target :
        /\ done' = done \cup built
        /\ share' = [share EXCEPT ![subdir] = @ \cup built]
  <2>1. CASE \E built \in SUBSET Wants(lib) :
               /\ done' = done \cup built
               /\ share' = [share EXCEPT ![subdir] = @ \cup built]
    <3>1. lib \in Lib
      BY OrderAssumption DEF Make, WholeInv, ResultType, lib
    <3>2. PICK built \in SUBSET Wants(lib) :
            /\ done' = done \cup built
            /\ share' = [share EXCEPT ![subdir] = @ \cup built]
      BY <2>1
    <3>3. Wants(lib) \subseteq Target
      BY <3>1 DEF Wants, Target
    <3>4. QED
      BY <3>2, <3>3
  <2>2. CASE UNCHANGED <<done, success, share>>
    <3>1. done' = done \cup {} /\ share' = [share EXCEPT ![subdir] = @ \cup {}]
      BY <2>2 DEF Make, WholeInv, ResultType
    <3>2. QED
      BY <3>1
  <2>3. QED
    BY <2>1, <2>2 DEF Make
<1>2. /\ pc = "make" /\ pc' = "make" /\ li' = li + 1
      /\ UNCHANGED <<build_done, conf, subdir>>
  BY DEF Make
<1>3. subdir \in Subdir
  BY <1>2 DEF WholeInv, Stages, Building
<1>4. ResultType'
  <2>1. share' \in [Subdir -> SUBSET Target]
    BY <1>1, <1>3 DEF WholeInv, ResultType
  <2>2. QED
    BY <1>1, <1>2, <2>1 DEF WholeInv, ResultType, conf
<1>5. done' \subseteq share'[subdir']
  BY <1>1, <1>2, <1>3 DEF WholeInv, ResultType, Stages
<1>6. ~build_done'
  BY <1>2 DEF WholeInv, Marked
<1>7. QED
  BY <1>2, <1>3, <1>4, <1>5, <1>6 DEF WholeInv, Stages, Marked, Building

(* The end of a build turns what was made into what is configured.         *)
LEMMA FinalWhole ==
  ASSUME WholeInv, Made \/ Collect \/ StoreSubdir \/ StoreConfig \/ Mark
  PROVE  WholeInv'
<1>1. CASE Made
  <2>1. ~build_done'
    BY <1>1 DEF Made, WholeInv, Marked
  <2>2. ResultType'
    BY <1>1 DEF Made, WholeInv, ResultType, locals
  <2>3. Stages'
    BY <1>1 DEF Made, WholeInv, Stages, Building, locals
  <2>4. QED
    BY <2>1, <2>2, <2>3 DEF WholeInv, Marked
<1>2. CASE Collect
  <2>1. ~build_done'
    BY <1>2 DEF Collect, WholeInv, Marked
  <2>2. subdir \in Subdir
    BY <1>2 DEF Collect, WholeInv, Stages, Building
  <2>3. ResultType'
    BY <1>2, <2>2 DEF Collect, WholeInv, ResultType
  <2>4. Stages'
    BY <1>2, <2>2 DEF Collect, WholeInv, Stages, Building
  <2>5. QED
    BY <2>1, <2>3, <2>4 DEF WholeInv, Marked
<1>3. CASE StoreSubdir
  <2>1. ~build_done'
    BY <1>3 DEF StoreSubdir, WholeInv, Marked
  <2>2. subdir \in Subdir
    BY <1>3 DEF StoreSubdir, WholeInv, Stages, Building
  <2>3. ResultType'
    BY <1>3, <2>2 DEF StoreSubdir, WholeInv, ResultType, locals
  <2>4. Stages'
    BY <1>3, <2>2 DEF StoreSubdir, WholeInv, Stages, Stored, Building, locals
  <2>5. QED
    BY <2>1, <2>3, <2>4 DEF WholeInv, Marked
<1>4. CASE StoreConfig
  <2>1. ~build_done'
    BY <1>4 DEF StoreConfig, WholeInv, Marked
  <2>2. ResultType'
    BY <1>4 DEF StoreConfig, WholeInv, ResultType, locals
  <2>3. Stages'
    BY <1>4 DEF StoreConfig, WholeInv, Stages, Stored, Building, locals
  <2>4. QED
    BY <2>1, <2>2, <2>3 DEF WholeInv, Marked
<1>5. CASE Mark
  <2>1. ResultType'
    BY <1>5 DEF Mark, WholeInv, ResultType, locals, conf
  <2>2. Stages'
    BY <1>5 DEF Mark, Stages, Building
  <2>3. Marked'
    BY <1>5 DEF Mark, WholeInv, Stages, Stored, Marked, conf
  <2>4. QED
    BY <2>1, <2>2, <2>3 DEF WholeInv
<1>6. QED
  BY <1>1, <1>2, <1>3, <1>4, <1>5

(* Build.PL, clean and a kill: the marker is gone before anything it       *)
(* speaks of is.                                                           *)
LEMMA UpsetWhole ==
  ASSUME WholeInv,
         (\E v \in Flavours : BuildPL(v)) \/ Clean \/ CleanRest \/ Killed
  PROVE  WholeInv'
<1>1. CASE (\E v \in Flavours : BuildPL(v)) \/ Clean
  <2>1. /\ ~build_done' /\ pc' \in Noted \cup {"clean"}
        /\ UNCHANGED <<share, conf, locals>>
    BY <1>1 DEF BuildPL, Clean, Noted
  <2>2. ResultType'
    BY <2>1 DEF WholeInv, ResultType, conf, locals
  <2>3. Stages'
    BY <2>1 DEF Stages, Building, Noted
  <2>4. QED
    BY <2>1, <2>2, <2>3 DEF WholeInv, Marked
<1>2. CASE CleanRest \/ (Killed /\ pc = "clean")
  <2>1. ~build_done /\ UNCHANGED <<build_done, conf>> /\ Ends
    BY <1>2 DEF CleanRest, Killed, WholeInv, Marked
  <2>2. share' \in [Subdir -> SUBSET Target]
    <3>1. CASE CleanRest
      BY <3>1 DEF CleanRest
    <3>2. CASE Killed /\ pc = "clean"
      <4>1. CASE UNCHANGED share
        BY <4>1 DEF WholeInv, ResultType
      <4>2. CASE \E gone \in SUBSET Subdir :
                   share' = [s \in Subdir |-> IF s \in gone THEN {} ELSE share[s]]
        BY <4>2 DEF WholeInv, ResultType
      <4>3. QED
        BY <3>2, <4>1, <4>2 DEF Killed, sources
    <3>3. QED
      BY <1>2, <3>1, <3>2
  <2>3. ResultType'
    BY <2>1, <2>2 DEF WholeInv, ResultType, Ends, conf
  <2>4. Stages'
    BY <2>1 DEF Stages, Ends, Building
  <2>5. QED
    BY <2>1, <2>3, <2>4 DEF WholeInv, Marked
<1>3. CASE Killed /\ pc # "clean"
  <2>1. UNCHANGED <<build_done, share, conf>> /\ Ends
    BY <1>3 DEF Killed, sources
  <2>2. QED
    BY <2>1, EndsWhole
<1>4. QED
  BY <1>1, <1>2, <1>3

LEMMA StepWhole == WholeInv /\ [Next]_vars => WholeInv'
<1> SUFFICES ASSUME WholeInv, [Next]_vars PROVE WholeInv'
  OBVIOUS
<1> USE DEF locals
<1>1. CASE (\E v \in Flavours : BuildPL(v)) \/ Clean \/ CleanRest \/ Killed
  BY <1>1, UpsetWhole
<1>2. CASE Made \/ Collect \/ StoreSubdir \/ StoreConfig \/ Mark
  BY <1>2, FinalWhole
<1>3. CASE Make
  BY <1>3, MakeWhole
<1>4. CASE Noting
  <2>1. pc \in Noted /\ UNCHANGED <<build_done, share, conf>>
    BY <1>4, NotingFrame
  <2>2. CASE Ends
    BY <2>1, <2>2, EndsWhole
  <2>3. CASE pc' \in Noted /\ li' \in {li, li + 1} /\ UNCHANGED <<subdir, done>>
    <3>1. ResultType'
      BY <2>1, <2>3 DEF WholeInv, ResultType, conf
    <3>2. Stages'
      BY <2>3 DEF Stages, Building, Noted
    <3>3. ~build_done'
      BY <2>1 DEF WholeInv, Marked, Noted
    <3>4. QED
      BY <3>1, <3>2, <3>3 DEF WholeInv, Marked
  <2>4. QED
    BY <1>4, <2>2, <2>3, NotingFrame
<1>12. CASE NoGui \/ BuildFailed \/ Super \/ FetchFails \/ ExtractFails
  <2>1. Ends /\ UNCHANGED <<build_done, share, conf>>
    BY <1>12 DEF NoGui, BuildFailed, Super, FetchFails, ExtractFails, sources
  <2>2. QED
    BY <2>1, EndsWhole
<1>5. CASE Keep \/ Patched
  <2>1. NextLib /\ pc \in {"unpack", "patch"} /\ UNCHANGED <<build_done, share, conf, done, subdir>>
    BY <1>5 DEF Keep, Patched
  <2>2. QED
    BY <2>1, NextLibNext, SourcesWhole DEF Building, WholeInv, ResultType
<1>6. CASE Replace \/ Rmtree \/ FetchLocal \/ Archive \/ Extract \/ Patch \/ Github
  <2>1. /\ UNCHANGED <<build_done, share, conf, done, subdir, li>>
        /\ pc \in {"unpack", "rmtree", "fetch", "archive", "extract", "patch", "github"}
        /\ pc' \in {"rmtree", "fetch", "archive", "extract", "patch", "gui"}
    BY <1>6 DEF Replace, Rmtree, FetchLocal, Archive, Extract, Patch, Github, sources
  <2>2. QED
    BY <2>1, SourcesWhole DEF Building, WholeInv, ResultType
<1>7. CASE FetchRemote
  <2>1. CASE Ends
    BY <1>7, <2>1, EndsWhole DEF FetchRemote
  <2>2. CASE pc' = "archive" /\ UNCHANGED <<li, subdir, done>>
    BY <1>7, <2>2, SourcesWhole DEF FetchRemote, Downloading, Building, WholeInv, ResultType
  <2>3. QED
    BY <1>7, <2>1, <2>2 DEF FetchRemote
<1>8. CASE Build
  <2>1. ResultType'
    BY <1>8 DEF Build, WholeInv, ResultType, Subdir, conf
  <2>2. Stages'
    BY <1>8 DEF Build, Stages, Building, Subdir
  <2>3. Marked'
    BY <1>8 DEF Build, WholeInv, Marked, Stored, conf
  <2>4. QED
    BY <2>1, <2>2, <2>3 DEF WholeInv
<1>9. CASE Gui
  <2>1. subdir \in Subdir /\ ~build_done
    BY <1>9 DEF Gui, WholeInv, Stages, Marked, Building
  <2>2. ResultType'
    BY <1>9 DEF Gui, WholeInv, ResultType, conf
  <2>3. Stages' /\ Marked'
    BY <1>9, <2>1 DEF Gui, Stages, Building, Marked
  <2>4. QED
    BY <2>2, <2>3 DEF WholeInv
<1>10. CASE CalmsDown \/ UNCHANGED vars
  <2>1. UNCHANGED <<build_done, share, conf, pc, locals>>
    BY <1>10 DEF CalmsDown, vars
  <2>2. QED
    BY <2>1 DEF WholeInv, ResultType, Stages, Marked, Stored, conf
<1>11. QED
  BY <1>1, <1>2, <1>3, <1>4, <1>5, <1>6, <1>7, <1>8, <1>9, <1>10, <1>12 DEF Next, Step

THEOREM WholeAlways == Spec => []WholeInv
<1>1. QED
  BY InitWhole, StepWhole, PTL DEF Spec

(* The marker stands for a whole build, for every set of libraries, order  *)
(* of making, number of patches and however many processes died.           *)
THEOREM MarkerStandsForBuild == Spec => []MarkedBuildIsWhole
<1>1. WholeInv => MarkedBuildIsWhole
  BY NoneIsNoSubdir DEF WholeInv, Marked, Stored, MarkedBuildIsWhole
<1>2. QED
  BY <1>1, WholeAlways, PTL

(* Only the last step of a build sets the marker; while it is there only   *)
(* Build.PL and clean, which remove it, touch the result or it.            *)
LEMMA MarkerMoves ==
  ASSUME WholeInv, [Next]_vars
  PROVE  \/ Mark
         \/ ~build_done'  /\ (build_done => UNCHANGED <<share, conf>>)
         \/ UNCHANGED <<build_done, share, conf>>
<1> USE DEF locals, sources
<1>1. CASE (\E v \in Flavours : BuildPL(v)) \/ Clean
  BY <1>1 DEF BuildPL, Clean
<1>2. CASE Build \/ CalmsDown \/ UNCHANGED vars
  BY <1>2 DEF Build, CalmsDown, vars
<1>3. CASE Super \/ Killed
  <2>1. build_done => pc # "clean"
    BY DEF WholeInv, Marked
  <2>2. QED
    BY <1>3, <2>1 DEF Super, Killed
<1>6. CASE Noting
  BY <1>6, NotingFrame
<1>4. CASE Step /\ ~Mark /\ ~Super /\ ~Noting
  <2>1. pc \notin {"idle", "super"} /\ build_done' = build_done
    BY <1>4 DEF Step, Keep, Replace, Rmtree, FetchLocal,
       FetchRemote, FetchFails, Downloading, Archive, Extract, ExtractFails, Patch,
       Patched, Github, NoGui, Gui, Make, Made, Collect, BuildFailed, StoreSubdir,
       StoreConfig, CleanRest
  <2>2. QED
    BY <2>1 DEF WholeInv, Marked
<1>5. QED
  BY <1>1, <1>2, <1>3, <1>4, <1>6 DEF Next

MarkerType == build_done \in BOOLEAN

LEMMA InitMarker == Init => MarkerType
BY DEF Init, MarkerType

LEMMA StepMarker == MarkerType /\ [Next]_vars => MarkerType'
BY NotingFrame DEF MarkerType, Next, Step, vars, BuildPL, Clean, Build, CalmsDown, Killed, Keep, Replace, Rmtree, FetchLocal, FetchRemote, FetchFails,
   Archive, Extract, ExtractFails, Patch, Patched, Github, NoGui, Gui, Make, Made,
   Collect, BuildFailed, StoreSubdir, StoreConfig, Mark, Super, CleanRest

LEMMA MarkerIsBoolean == Spec => []MarkerType
BY InitMarker, StepMarker, PTL DEF Spec

LEMMA BuilderStepAllowed ==
  ASSUME WholeInv, WholeInv', MarkerType', [Next]_vars
  PROVE  AFinished!Next \/ UNCHANGED AFinished!vars
<1>1. CASE Mark
  <2>1. AFinished!Whole
    BY <1>1 DEF Mark, WholeInv, Stages, Stored, AFinished!Whole
  <2>2. ~build_done
    BY <1>1 DEF Mark, WholeInv, Marked
  <2>3. AFinished!Finish
    BY <1>1, <2>1, <2>2 DEF Mark, conf, AFinished!Finish, AFinished!result
  <2>4. QED
    BY <2>3 DEF AFinished!Next
<1>2. CASE ~build_done'  /\ (build_done => UNCHANGED <<share, conf>>)
  <2>1. /\ share' \in [Subdir -> SUBSET Target]
        /\ conf_subdir' \in Subdir \cup {"none"}
        /\ conf_config' \in SUBSET Target
    BY DEF WholeInv, ResultType
  <2>2. build_done' = FALSE
    BY <1>2 DEF MarkerType
  <2>3. AFinished!Unfinished
    BY <1>2, <2>1, <2>2 DEF conf, AFinished!Unfinished, AFinished!result
  <2>4. QED
    BY <2>3 DEF AFinished!Next
<1>3. CASE UNCHANGED <<build_done, share, conf>>
  BY <1>3 DEF conf, AFinished!vars, AFinished!result
<1>4. QED
  BY <1>1, <1>2, <1>3, MarkerMoves

(* The build directory implements what the installation relies on.         *)
THEOREM BuilderImplementsFinishedBuild == Spec => ImplementsFinishedBuild
<1>1. Init => AFinished!Init
  BY DEF Init, AFinished!Init
<1>2. WholeInv /\ WholeInv' /\ MarkerType' /\ [Next]_vars => [AFinished!Next]_(AFinished!vars)
  BY BuilderStepAllowed
<1>3. QED
  BY <1>1, <1>2, WholeAlways, MarkerIsBoolean, PTL DEF Spec, ImplementsFinishedBuild, AFinished!Spec

-----------------------------------------------------------------------------
(* The types of the whole state.                                           *)
(* An index into LibOrder is one as long as the sources are prepared.      *)
Phases == {"idle", "first", "rel_url", "rel_sha1", "rel_patches", "cvs_url",
           "cvs_sha1", "cvs_devel", "unpack", "rmtree", "fetch", "archive",
           "extract", "patch", "github", "gui", "make", "collect", "verdict",
           "config", "mark", "super", "clean"}
ReleaseNotes == {"rel_url", "rel_sha1", "rel_patches"}
InSources == {"unpack", "rmtree", "fetch", "archive", "extract", "patch"}

ControlInv ==
  /\ pc \in Phases
  /\ li \in Nat \ {0}
  /\ pc = "idle" => li = 1
  /\ pc \in InSources => li <= Len(LibOrder)
  /\ pc \in ReleaseNotes => li <= Len(NoteOrder)

LEMMA ControlInit == Init => ControlInv
BY DEF Init, ControlInv, Phases, InSources, ReleaseNotes

LEMMA ControlStep == ControlInv /\ [Next]_vars => ControlInv'
<1> SUFFICES ASSUME ControlInv, [Next]_vars PROVE ControlInv'
  OBVIOUS
<1> USE DEF ControlInv, Phases, InSources, ReleaseNotes, locals
<1>1. CASE (\E v \in Flavours : BuildPL(v)) \/ Clean \/ CalmsDown \/ UNCHANGED vars
  <2>1. Len(NoteOrder) \in Nat \ {0}
    BY OrderAssumption
  <2>2. QED
    BY <1>1, <2>1 DEF BuildPL, Clean, CalmsDown, vars
<1>2. CASE Build
  <2>1. Len(LibOrder) \in Nat \ {0}
    BY OrderAssumption
  <2>2. QED
    BY <1>2, <2>1 DEF Build
<1>3. ASSUME Ends PROVE ControlInv'
  BY <1>3 DEF Ends
<1>4. CASE Keep \/ Patched
  <2>1. NextLib /\ pc \in InSources
    BY <1>4 DEF Keep, Patched
  <2>2. Len(LibOrder) \in Nat
    BY OrderAssumption
  <2>3. QED
    BY <2>1, <2>2 DEF NextLib
<1>5. CASE Replace \/ Rmtree \/ FetchLocal \/ Archive \/ Extract \/ Patch
  <2>1. pc \in InSources /\ pc' \in InSources /\ li' = li
    BY <1>5 DEF Replace, Rmtree, FetchLocal, Archive, Extract, Patch
  <2>2. QED
    BY <2>1
<1>6. CASE FetchRemote
  <2>1. Ends \/ (pc \in InSources /\ pc' = "archive" /\ li' = li)
    BY <1>6 DEF FetchRemote, Downloading
  <2>2. QED
    BY <2>1, <1>3
<1>7. CASE Github \/ Gui \/ Made \/ Collect \/ StoreSubdir \/ StoreConfig \/ Mark
  <2>1. pc' \in Phases \ (InSources \cup ReleaseNotes \cup {"idle"}) /\ li' \in {1, li}
    BY <1>7 DEF Github, Gui, Made, Collect, StoreSubdir, StoreConfig, Mark
  <2>2. QED
    BY <2>1
<1>8. CASE Make
  <2>1. pc' = "make" /\ li' = li + 1
    BY <1>8 DEF Make
  <2>2. QED
    BY <2>1
<1>9. CASE FetchFails \/ ExtractFails \/ NoGui \/ BuildFailed \/ Super \/ CleanRest
           \/ Killed
  BY <1>3, <1>9 DEF FetchFails, ExtractFails, NoGui, BuildFailed, Super, CleanRest, Killed
<1>10. CASE ReleaseUrl \/ ReleaseSha1 \/ ReleasePatches
  <2>1. /\ pc \in ReleaseNotes
        /\ \/ Ends
           \/ pc' \in ReleaseNotes /\ (li' = li \/ (li' = li + 1 /\ li < Len(NoteOrder)))
    BY <1>10 DEF ReleaseUrl, ReleaseSha1, ReleasePatches, Note
  <2>2. Len(NoteOrder) \in Nat
    BY OrderAssumption
  <2>3. QED
    BY <1>3, <2>1, <2>2
<1>11. CASE CvsUrl \/ CvsSha1 \/ CvsDevel \/ (\E v \in Flavours : FirstNotes(v))
  <2>1. Ends \/ (pc' \in {"cvs_url", "cvs_sha1", "cvs_devel"} /\ li' \in {li, li + 1})
    BY <1>11 DEF CvsUrl, CvsSha1, CvsDevel, FirstNotes, Note
  <2>2. QED
    BY <1>3, <2>1
<1>12. QED
  BY <1>1, <1>2, <1>4, <1>5, <1>6, <1>7, <1>8, <1>9, <1>10, <1>11 DEF Next, Step, Noting

LEMMA CurrentLibrary == ControlInv /\ pc \in InSources => cur \in Lib
BY OrderAssumption DEF ControlInv, cur

Flags ==
  /\ build_done \in BOOLEAN /\ devel \in BOOLEAN
  /\ opengl \in BOOLEAN /\ success \in BOOLEAN
  /\ calm \in BOOLEAN

LEMMA FlagsInit == Init => Flags
BY DEF Init, Flags

LEMMA FlagsStep == Flags /\ [Next]_vars => Flags'
<1> SUFFICES ASSUME Flags, [Next]_vars PROVE Flags'
  OBVIOUS
<1> USE DEF Flags, notes, locals
<1>1. CASE (\E v \in Flavours : BuildPL(v)) \/ Clean \/ CalmsDown \/ Killed \/ UNCHANGED vars
  BY <1>1 DEF BuildPL, Clean, CalmsDown, Killed, Ends, Upset, vars
<1>2. CASE Build
  BY <1>2 DEF Build
<1>3. CASE FetchFails \/ ExtractFails \/ NoGui \/ BuildFailed \/ Super \/ CleanRest
  BY <1>3 DEF FetchFails, ExtractFails, NoGui, BuildFailed, Super, CleanRest, Ends
<1>11. CASE Noting
  <2>1. devel' \in BOOLEAN
    BY <1>11 DEF Noting, FirstNotes, ReleaseUrl, ReleaseSha1, ReleasePatches, CvsUrl,
                 CvsSha1, CvsDevel, Note
  <2>2. QED
    BY <1>11, <2>1, NotingFrame DEF Ends
<1>4. CASE Keep \/ Patched \/ Replace \/ Rmtree \/ FetchLocal \/ Archive \/ Extract
           \/ Patch \/ Github
  BY <1>4 DEF Keep, Patched, Replace, Rmtree, FetchLocal, Archive, Extract, Patch, Github
<1>5. CASE FetchRemote
  BY <1>5 DEF FetchRemote, Ends
<1>6. CASE Gui
  BY <1>6 DEF Gui
<1>7. CASE Make
  BY <1>7 DEF Make
<1>8. CASE Collect
  <2>1. success' \in BOOLEAN
    BY <1>8 DEF Collect
  <2>2. QED
    BY <1>8, <2>1 DEF Collect
<1>9. CASE Made \/ StoreSubdir \/ StoreConfig \/ Mark
  BY <1>9 DEF Made, StoreSubdir, StoreConfig, Mark
<1>10. QED
  BY <1>1, <1>2, <1>3, <1>4, <1>5, <1>6, <1>7, <1>8, <1>9, <1>11 DEF Next, Step

TreeType(t, l) ==
  /\ t \in [ver : {"none", "rel", "cvs"}, whole : BOOLEAN, patches : Nat]
  /\ t.patches <= NPatches[l]

(* A library that is worked on has an address.                             *)
UrlInv ==
  /\ url \in [Lib -> {"undef", "rel", "cvs"}]
  /\ sha1 \in [Lib -> {"undef", "rel", "any"}]
  /\ patch_notes \subseteq Lib
  /\ pc \in InSources => \A l \in Core : url[l] # "undef"
  /\ pc \in InSources \ {"unpack"} => url[cur] # "undef"

LEMMA UrlInit == Init => UrlInv
BY DEF Init, UrlInv, InSources

LEMMA UrlStep == ControlInv /\ UrlInv /\ [Next]_vars => UrlInv'
<1> SUFFICES ASSUME ControlInv, UrlInv, [Next]_vars PROVE UrlInv'
  OBVIOUS
<1> USE DEF UrlInv, InSources, notes, locals
<1>1. ASSUME Ends, UNCHANGED <<url, sha1, patch_notes>> PROVE UrlInv'
  BY <1>1 DEF Ends
<1>2. CASE Noting
  <2>1. pc' \notin InSources
    BY <1>2, NotingFrame DEF Noted, Ends
  <2>2. url' \in [Lib -> {"undef", "rel", "cvs"}] /\ sha1' \in [Lib -> {"undef", "rel", "any"}]
    BY <1>2, FlavourAssumption DEF Noting, FirstNotes, ReleaseUrl, ReleaseSha1, ReleasePatches,
       CvsUrl, CvsSha1, CvsDevel
  <2>3. patch_notes' \subseteq Lib
    <3>1. Range(NoteOrder) \subseteq Lib
      BY OrderAssumption DEF Range
    <3>2. pc = "rel_patches" => NoteOrder[li] \in Lib
      BY OrderAssumption DEF ControlInv, ReleaseNotes
    <3>3. QED
      BY <1>2, <3>1, <3>2 DEF Noting, FirstNotes, ReleaseUrl, ReleaseSha1, ReleasePatches,
         CvsUrl, CvsSha1, CvsDevel
  <2>4. QED
    BY <2>1, <2>2, <2>3
<1>3. CASE (\E v \in Flavours : BuildPL(v)) \/ Clean
  BY <1>3 DEF BuildPL, Clean
<1>4. CASE CalmsDown \/ UNCHANGED vars
  BY <1>4 DEF CalmsDown, vars, cur
<1>5. CASE Build
  BY <1>5 DEF Build, Configured
<1>6. CASE Keep \/ Patched
  <2>1. UNCHANGED <<url, sha1, patch_notes>> /\ pc \in InSources /\ pc' \in {"unpack", "github"}
    BY <1>6 DEF Keep, Patched, NextLib
  <2>2. QED
    BY <2>1
<1>7. CASE Replace
  <2>1. /\ pc = "unpack" /\ Wanted(cur) /\ UNCHANGED <<url, sha1, patch_notes, li>>
        /\ pc' \in {"rmtree", "fetch"}
    BY <1>7 DEF Replace
  <2>2. url[cur] # "undef"
    BY <2>1 DEF Wanted
  <2>3. QED
    BY <2>1, <2>2 DEF cur
<1>8. CASE Rmtree \/ FetchLocal \/ Archive \/ Extract \/ Patch
  <2>1. /\ pc \in InSources \ {"unpack"} /\ pc' \in InSources \ {"unpack"}
        /\ UNCHANGED <<url, sha1, patch_notes, li>>
    BY <1>8 DEF Rmtree, FetchLocal, Archive, Extract, Patch
  <2>2. QED
    BY <2>1 DEF cur
<1>9. CASE FetchRemote
  <2>1. CASE pc' = "archive" /\ UNCHANGED locals
    BY <1>9, <2>1 DEF FetchRemote, Downloading, cur
  <2>2. CASE Ends
    BY <1>9, <1>1, <2>2 DEF FetchRemote
  <2>3. QED
    BY <1>9, <2>1, <2>2 DEF FetchRemote
<1>10. CASE Github \/ Gui \/ Make \/ Made \/ Collect \/ StoreSubdir \/ StoreConfig \/ Mark
  <2>1. UNCHANGED <<url, sha1, patch_notes>> /\ pc' \notin InSources
    BY <1>10 DEF Github, Gui, Make, Made, Collect, StoreSubdir, StoreConfig, Mark
  <2>2. QED
    BY <2>1
<1>11. CASE FetchFails \/ ExtractFails \/ NoGui \/ BuildFailed \/ Super \/ CleanRest
            \/ Killed
  BY <1>1, <1>11 DEF FetchFails, ExtractFails, NoGui, BuildFailed, Super, CleanRest, Killed
<1>12. QED
  BY <1>2, <1>3, <1>4, <1>5, <1>6, <1>7, <1>8, <1>9, <1>10, <1>11 DEF Next, Step

SourcesInv ==
  /\ download \in [FileName -> Content]
  /\ tree = [l \in Lib |-> tree[l]] /\ \A l \in Lib : TreeType(tree[l], l)
  /\ raw \in [Lib -> {"none", "part", "whole"}]
  /\ archive \in Content
  /\ kept \subseteq Lib

LEMMA ContentParts ==
  /\ NoFile \in Content /\ BadFile \in Content
  /\ \A l \in Lib : \A v \in {"rel", "cvs"} : <<l, v>> \in Content /\ FileOf(l, v) \in FileName
BY DEF Content, FileName

LEMMA TreeTypes ==
  ASSUME NEW l \in Lib, NEW w \in BOOLEAN, NEW v \in {"rel", "cvs"}
  PROVE  TreeType(Tree(v, w, 0), l) /\ TreeType(Absent, l)
<1>1. NPatches[l] \in Nat
  BY LibAssumption
<1>2. QED
  BY <1>1 DEF TreeType, Tree, Absent

LEMMA SourcesInit == Init => SourcesInv
<1> SUFFICES ASSUME Init PROVE SourcesInv
  OBVIOUS
<1>1. \A l \in Lib : TreeType(tree[l], l)
  BY TreeTypes DEF Init
<1>2. QED
  BY <1>1, ContentParts DEF Init, SourcesInv

LEMMA EndsLocals == Ends => archive' \in Content /\ kept' \subseteq Lib
BY ContentParts DEF Ends

(* One tree replaced by another one.                                       *)
LEMMA TreeExcept ==
  ASSUME SourcesInv, NEW l \in Lib, NEW t, TreeType(t, l),
         tree' = [tree EXCEPT ![l] = t]
  PROVE  tree' = [k \in Lib |-> tree'[k]] /\ \A k \in Lib : TreeType(tree'[k], k)
BY DEF SourcesInv

(* A tree a process died in.                                               *)
LEMMA TornTree ==
  ASSUME NEW l \in Lib, NEW t, TreeType(t, l)
  PROVE  TreeType([t EXCEPT !.whole = FALSE], l)
BY DEF TreeType

LEMMA UnpackedType ==
  ASSUME SourcesInv, NEW w \in BOOLEAN, Unpacked(w)
  PROVE  /\ tree' = [k \in Lib |-> tree'[k]] /\ \A k \in Lib : TreeType(tree'[k], k)
         /\ raw' \in [Lib -> {"none", "part", "whole"}]
<1>1. CASE archive[2] = "rel"
  <2>1. archive[1] \in Lib
    BY <1>1 DEF SourcesInv, Content, NoFile, BadFile
  <2>2. TreeType(Tree("rel", w, 0), archive[1])
    BY <2>1, TreeTypes
  <2>3. tree' = [tree EXCEPT ![archive[1]] = Tree("rel", w, 0)] /\ raw' = raw
    BY <1>1 DEF Unpacked
  <2>4. QED
    BY <2>1, <2>2, <2>3, TreeExcept DEF SourcesInv
<1>2. CASE archive[2] # "rel"
  BY <1>2 DEF Unpacked, SourcesInv
<1>3. QED
  BY <1>1, <1>2

LEMMA DownloadStep ==
  ASSUME SourcesInv, ControlInv, UrlInv,
         FetchRemote \/ FetchFails \/ Archive \/ FetchLocal
  PROVE  SourcesInv'
<1>0. pc \in InSources \ {"unpack"}
  BY DEF FetchRemote, FetchFails, Archive, FetchLocal, Downloading, InSources
<1>1. cur \in Lib /\ url[cur] \in {"rel", "cvs"}
  BY <1>0, CurrentLibrary DEF UrlInv
<1>2. FileOf(cur, url[cur]) \in FileName /\ <<cur, url[cur]>> \in Content
  BY <1>1, ContentParts
<1>3. CASE FetchFails
  <2>1. download' \in [FileName -> Content]
    BY <1>3, ContentParts DEF FetchFails, SourcesInv
  <2>2. QED
    BY <1>3, <2>1, EndsLocals DEF FetchFails, SourcesInv
<1>4. CASE FetchLocal
  BY <1>4 DEF FetchLocal, SourcesInv, sources, locals
<1>5. CASE FetchRemote
  <2>1. download' \in [FileName -> Content]
    BY <1>2, <1>5, ContentParts DEF FetchRemote, SourcesInv
  <2>2. archive' \in Content /\ kept' \subseteq Lib
    BY <1>5, EndsLocals DEF FetchRemote, SourcesInv, locals
  <2>3. QED
    BY <1>5, <2>1, <2>2 DEF FetchRemote, SourcesInv
<1>6. CASE Archive
  <2>1. download' \in [FileName -> Content]
    BY <1>6, ContentParts DEF Archive, SourcesInv
  <2>2. archive' \in Content
    BY <1>2, <1>6 DEF Archive, SourcesInv
  <2>3. QED
    BY <1>6, <2>1, <2>2 DEF Archive, SourcesInv
<1>7. QED
  BY <1>3, <1>4, <1>5, <1>6

LEMMA TreeStep ==
  ASSUME SourcesInv, ControlInv, Rmtree \/ Extract \/ ExtractFails \/ Patch \/ Github
  PROVE  SourcesInv'
<1>1. CASE Rmtree
  <2>1. cur \in Lib
    BY <1>1, CurrentLibrary DEF Rmtree, InSources
  <2>2. TreeType(Absent, cur)
    BY <2>1, TreeTypes
  <2>3. QED
    BY <1>1, <2>1, <2>2, TreeExcept DEF Rmtree, SourcesInv, locals
<1>2. CASE Extract
  BY <1>2, UnpackedType DEF Extract, SourcesInv, locals
<1>3. CASE ExtractFails
  <2>1. UNCHANGED <<tree, raw>> \/ Unpacked(FALSE)
    BY <1>3 DEF ExtractFails
  <2>2. QED
    BY <1>3, <2>1, UnpackedType, EndsLocals DEF ExtractFails, SourcesInv
<1>4. CASE Patch
  <2>1. cur \in Lib
    BY <1>4, CurrentLibrary DEF Patch, InSources
  <2>2. tree[cur].patches < NPatches[cur]
    BY <1>4, <2>1, LibAssumption DEF Patch, Unpatched, Patches, SourcesInv, TreeType
  <2>3. TreeType([tree[cur] EXCEPT !.patches = @ + 1], cur)
    BY <2>1, <2>2, LibAssumption DEF SourcesInv, TreeType
  <2>4. tree' = [tree EXCEPT ![cur] = [tree[cur] EXCEPT !.patches = @ + 1]]
    BY <1>4 DEF Patch
  <2>5. QED
    BY <1>4, <2>1, <2>3, <2>4, TreeExcept DEF Patch, SourcesInv, locals
<1>5. CASE Github
  <2>1. \A l \in Lib : TreeType(tree'[l], l)
    BY <1>5, TreeTypes DEF Github, SourcesInv
  <2>2. raw' \in [Lib -> {"none", "part", "whole"}]
    BY <1>5 DEF Github, SourcesInv
  <2>3. QED
    BY <1>5, <2>1, <2>2 DEF Github, SourcesInv, locals
<1>6. QED
  BY <1>1, <1>2, <1>3, <1>4, <1>5

LEMMA KilledStep ==
  ASSUME SourcesInv, ControlInv, Killed
  PROVE  SourcesInv'
<1>1. archive' \in Content /\ kept' \subseteq Lib
  BY EndsLocals DEF Killed
<1>2. CASE UNCHANGED <<sources, share>>
  BY <1>1, <1>2 DEF SourcesInv, sources
<1>3. CASE /\ pc = "rmtree" \/ (pc = "patch" /\ Unpatched)
           /\ tree' = [tree EXCEPT ![cur].whole = FALSE]
           /\ UNCHANGED <<download, raw, share>>
  <2>1. cur \in Lib
    BY <1>3, CurrentLibrary DEF InSources
  <2>2. tree' = [tree EXCEPT ![cur] = [tree[cur] EXCEPT !.whole = FALSE]]
    BY <1>3
  <2>3. TreeType([tree[cur] EXCEPT !.whole = FALSE], cur)
    BY <2>1, TornTree DEF SourcesInv
  <2>4. QED
    BY <1>1, <1>3, <2>1, <2>2, <2>3, TreeExcept DEF SourcesInv
<1>4. CASE /\ Downloading
           /\ download' = [download EXCEPT ![FileOf(cur, url[cur])] = BadFile]
           /\ UNCHANGED <<tree, raw, share>>
  <2>1. download' \in [FileName -> Content]
    BY <1>4, ContentParts DEF SourcesInv
  <2>2. QED
    BY <1>1, <1>4, <2>1 DEF SourcesInv
<1>5. CASE Unpacked(FALSE) /\ UNCHANGED <<download, share>>
  BY <1>1, <1>5, UnpackedType DEF SourcesInv
<1>6. CASE /\ pc = "clean"
           /\ \E gone \in SUBSET Lib :
                tree' = [l \in Lib |-> IF l \in gone THEN Absent ELSE tree[l]]
           /\ UNCHANGED <<download, raw>>
  <2>1. \A l \in Lib : TreeType(tree'[l], l)
    BY <1>6, TreeTypes DEF SourcesInv
  <2>2. QED
    BY <1>1, <1>6, <2>1 DEF SourcesInv
<1>7. QED
  BY <1>2, <1>3, <1>4, <1>5, <1>6 DEF Killed

LEMMA SourcesStep == SourcesInv /\ ControlInv /\ UrlInv /\ [Next]_vars => SourcesInv'
<1> SUFFICES ASSUME SourcesInv, ControlInv, UrlInv, [Next]_vars PROVE SourcesInv'
  OBVIOUS
<1> USE DEF locals, sources
<1>1. CASE FetchRemote \/ FetchFails \/ Archive \/ FetchLocal
  BY <1>1, DownloadStep
<1>2. CASE Rmtree \/ Extract \/ ExtractFails \/ Patch \/ Github
  BY <1>2, TreeStep
<1>3. CASE Killed
  BY <1>3, KilledStep
<1>4. CASE NoGui \/ BuildFailed \/ Super
  BY <1>4, EndsLocals DEF NoGui, BuildFailed, Super, SourcesInv
<1>5. CASE CleanRest
  <2>1. \A l \in Lib : TreeType(tree'[l], l)
    BY <1>5, TreeTypes DEF CleanRest
  <2>2. QED
    BY <1>5, <2>1, EndsLocals DEF CleanRest, SourcesInv
<1>6. CASE Keep
  <2>1. kept' \subseteq Lib
    BY <1>6, CurrentLibrary DEF Keep, InSources, SourcesInv
  <2>2. QED
    BY <1>6, <2>1 DEF Keep, SourcesInv
<1>7. CASE Replace \/ Patched \/ Gui \/ Make \/ Made \/ Collect \/ StoreSubdir
           \/ StoreConfig \/ Mark
  <2>1. UNCHANGED <<sources, archive, kept>>
    BY <1>7 DEF Replace, Patched, Gui, Make, Made, Collect, StoreSubdir, StoreConfig, Mark
  <2>2. QED
    BY <2>1 DEF SourcesInv
<1>8. CASE (\E v \in Flavours : BuildPL(v)) \/ Clean \/ Build \/ CalmsDown \/ UNCHANGED vars
  <2>1. UNCHANGED <<sources, archive, kept>>
    BY <1>8 DEF BuildPL, Clean, Build, CalmsDown, vars
  <2>2. QED
    BY <2>1 DEF SourcesInv
<1>9. CASE Noting
  BY <1>9, NotingFrame, EndsLocals DEF SourcesInv
<1>10. QED
  BY <1>1, <1>2, <1>3, <1>4, <1>5, <1>6, <1>7, <1>8, <1>9 DEF Next, Step

LEMMA TypesAlways == Spec => [](ControlInv /\ UrlInv /\ SourcesInv /\ Flags)
<1>1. QED
  BY ControlInit, ControlStep, UrlInit, UrlStep, SourcesInit, SourcesStep,
     FlagsInit, FlagsStep, PTL DEF Spec

(* Every variable keeps its type, and no more patches are ever applied to  *)
(* a tree than the release has for it.                                     *)
THEOREM BuilderTypeCorrect == Spec => []TypeOK
<1>1. ControlInv /\ UrlInv /\ SourcesInv /\ Flags /\ WholeInv => TypeOK
  <2> SUFFICES ASSUME ControlInv, UrlInv, SourcesInv, Flags, WholeInv PROVE TypeOK
    OBVIOUS
  <2>1. tree \in [Lib -> [ver : {"none", "rel", "cvs"}, whole : BOOLEAN, patches : Nat]]
    BY DEF SourcesInv, TreeType
  <2>2. \A l \in Lib : tree[l].patches <= NPatches[l]
    BY DEF SourcesInv, TreeType
  <2>3. share \in [Subdir -> SUBSET Target] /\ conf_done \subseteq Target
        /\ conf_libs \subseteq Target /\ conf_config \subseteq Target
        /\ conf_subdir \in Subdir \cup {"none"} /\ subdir \in Subdir \cup {"none"}
        /\ done \subseteq Target
    BY DEF WholeInv, ResultType
  <2>4. pc \in Phases /\ li \in Nat \ {0}
    BY DEF ControlInv
  <2>5. QED
    BY <2>1, <2>2, <2>3, <2>4, Zenon DEF TypeOK, UrlInv, SourcesInv, Flags, Phases
<1>2. QED
  BY <1>1, TypesAlways, WholeAlways, PTL

-----------------------------------------------------------------------------
(* What a file of download/ can hold, by its name: nothing, a damaged      *)
(* archive or the release it is named after; under the name of all the     *)
(* development archives no release.                                        *)
Master == <<"master", "cvs">>
Fits(f, content) ==
  IF f = Master THEN content[2] # "rel"
  ELSE content \in {NoFile, BadFile, <<f[1], "rel">>}

CurFile == FileOf(cur, url[cur])

HomeInv ==
  /\ \A f \in FileName : Fits(f, download[f])
  /\ pc = "archive" => download[CurFile] # NoFile
  /\ pc = "extract" => Fits(CurFile, archive) /\ archive # NoFile

LEMMA FitsAll ==
  ASSUME NEW l \in Lib, NEW v \in {"rel", "cvs"}
  PROVE  Fits(FileOf(l, v), <<l, v>>)
BY DEF Fits, FileOf, Master

LEMMA FitsAny == \A f : Fits(f, NoFile) /\ Fits(f, BadFile)
BY DEF Fits, NoFile, BadFile

LEMMA CurrentUrl ==
  ControlInv /\ UrlInv /\ pc \in InSources \ {"unpack"} =>
    cur \in Lib /\ url[cur] \in {"rel", "cvs"} /\ CurFile \in FileName
<1> SUFFICES ASSUME ControlInv, UrlInv, pc \in InSources \ {"unpack"}
             PROVE  cur \in Lib /\ url[cur] \in {"rel", "cvs"} /\ CurFile \in FileName
  OBVIOUS
<1>1. cur \in Lib
  BY CurrentLibrary
<1>2. url[cur] \in {"rel", "cvs"}
  BY <1>1 DEF UrlInv
<1>3. QED
  BY <1>1, <1>2, ContentParts DEF CurFile

LEMMA HomeInit == Init => HomeInv
BY FitsAny DEF Init, HomeInv

(* One file gets another content.                                          *)
LEMMA HomeExcept ==
  ASSUME SourcesInv, HomeInv, NEW f \in FileName, NEW content, Fits(f, content),
         download' = [download EXCEPT ![f] = content]
  PROVE  \A g \in FileName : Fits(g, download'[g])
BY DEF SourcesInv, HomeInv

LEMMA HomeElsewhere ==
  ASSUME \A f \in FileName : Fits(f, download'[f]), pc' \notin {"archive", "extract"}
  PROVE  HomeInv'
BY DEF HomeInv, Fits

LEMMA HomeStep ==
  ControlInv /\ UrlInv /\ SourcesInv /\ HomeInv /\ [Next]_vars => HomeInv'
<1> SUFFICES ASSUME ControlInv, UrlInv, SourcesInv, HomeInv, [Next]_vars PROVE HomeInv'
  OBVIOUS
<1> USE DEF InSources
<1>1. CASE FetchRemote
  <2>1. pc \in InSources \ {"unpack"}
    BY <1>1 DEF FetchRemote, Downloading
  <2>2. cur \in Lib /\ url[cur] \in {"rel", "cvs"} /\ CurFile \in FileName
    BY <2>1, CurrentUrl
  <2>3. PICK content \in {<<cur, url[cur]>>, BadFile} :
          download' = [download EXCEPT ![CurFile] = content]
    BY <1>1 DEF FetchRemote, CurFile
  <2>4. Fits(CurFile, content) /\ content # NoFile
    <3>1. url[cur] # "none"
      BY <2>2
    <3>2. <<cur, url[cur]>> # NoFile /\ BadFile # NoFile
      BY <3>1 DEF NoFile, BadFile
    <3>3. Fits(CurFile, <<cur, url[cur]>>) /\ Fits(CurFile, BadFile)
      BY <2>2, FitsAll, FitsAny DEF CurFile
    <3>4. QED
      BY <2>3, <3>2, <3>3
  <2>5. \A f \in FileName : Fits(f, download'[f])
    BY <2>2, <2>3, <2>4, HomeExcept
  <2>6. CASE Ends
    BY <2>5, <2>6, HomeElsewhere DEF Ends
  <2>7. CASE pc' = "archive" /\ UNCHANGED locals
    <3>1. CurFile' = CurFile
      BY <1>1, <2>7 DEF FetchRemote, CurFile, cur, notes, locals
    <3>2. download'[CurFile] # NoFile
      BY <2>2, <2>3, <2>4 DEF SourcesInv
    <3>3. QED
      BY <2>5, <2>7, <3>1, <3>2 DEF HomeInv, Fits
  <2>8. QED
    BY <1>1, <2>6, <2>7 DEF FetchRemote
<1>2. CASE FetchFails
  <2>1. pc \in InSources \ {"unpack"} /\ pc' = "idle"
    BY <1>2 DEF FetchFails, Downloading, Ends
  <2>2. CurFile \in FileName
    BY <2>1, CurrentUrl
  <2>3. \A f \in FileName : Fits(f, download'[f])
    BY <1>2, <2>2, HomeExcept, FitsAny DEF FetchFails, CurFile
  <2>4. QED
    BY <2>1, <2>3, HomeElsewhere
<1>3. CASE Archive
  <2>1. pc = "archive" /\ pc' = "extract" /\ archive' = download[CurFile] /\ CurFile' = CurFile
    BY <1>3 DEF Archive, CurFile, cur, notes
  <2>2. CurFile \in FileName
    BY <2>1, CurrentUrl
  <2>3. \A f \in FileName : Fits(f, download'[f])
    BY <1>3, <2>2, HomeExcept, FitsAny DEF Archive, CurFile, HomeInv
  <2>4. Fits(CurFile, archive') /\ archive' # NoFile
    BY <2>1, <2>2 DEF HomeInv
  <2>5. QED
    BY <2>1, <2>3, <2>4 DEF HomeInv, Fits
<1>4. CASE FetchLocal
  <2>1. /\ pc' = "archive" /\ CurFile' = CurFile /\ UNCHANGED download
        /\ download[CurFile] # NoFile
    BY <1>4 DEF FetchLocal, CurFile, cur, notes, locals, sources
  <2>2. QED
    BY <2>1 DEF HomeInv, Fits
<1>5. CASE Killed
  <2>1. pc' = "idle"
    BY <1>5 DEF Killed, Ends
  <2>2. CASE UNCHANGED download
    BY <2>1, <2>2, HomeElsewhere DEF HomeInv
  <2>3. CASE Downloading /\ download' = [download EXCEPT ![FileOf(cur, url[cur])] = BadFile]
    <3>1. pc \in InSources \ {"unpack"}
      BY <2>3 DEF Downloading
    <3>2. CurFile \in FileName
      BY <3>1, CurrentUrl
    <3>3. \A f \in FileName : Fits(f, download'[f])
      BY <2>3, <3>2, HomeExcept, FitsAny DEF CurFile
    <3>4. QED
      BY <2>1, <3>3, HomeElsewhere
  <2>4. QED
    BY <1>5, <2>2, <2>3 DEF Killed, sources
<1>6. CASE CalmsDown \/ UNCHANGED vars
  <2>1. UNCHANGED <<pc, url, li, download, archive>>
    BY <1>6 DEF CalmsDown, vars, notes, sources, locals
  <2>2. CurFile' = CurFile
    BY <2>1 DEF CurFile, cur
  <2>3. QED
    BY <2>1, <2>2 DEF HomeInv, Fits
<1>7. CASE Clean \/ Build \/ (\E v \in Flavours : BuildPL(v)) \/ Noting
  <2>1. UNCHANGED download /\ pc' \notin {"archive", "extract"}
    BY <1>7, NotingFrame DEF Clean, Build, BuildPL, Noted, Ends, sources
  <2>2. QED
    BY <2>1, HomeElsewhere DEF HomeInv
<1>8. CASE Step /\ ~Noting /\ ~FetchRemote /\ ~FetchFails /\ ~Archive /\ ~FetchLocal
  <2>1. UNCHANGED download /\ pc' \notin {"archive", "extract"}
    BY <1>8 DEF Step, Keep, Replace, Rmtree, Extract, ExtractFails, Patch, Patched, Github,
       NoGui, Gui, Make, Made, Collect, BuildFailed, StoreSubdir, StoreConfig, Mark, Super,
       CleanRest, Ends, NextLib, sources
  <2>2. QED
    BY <2>1, HomeElsewhere DEF HomeInv
<1>9. QED
  BY <1>1, <1>2, <1>3, <1>4, <1>5, <1>6, <1>7, <1>8 DEF Next

(* What is about to be unpacked.                                           *)
LEMMA HomeArchive ==
  ASSUME HomeInv, pc = "extract", cur \in Lib
  PROVE  /\ url[cur] = "rel" /\ archive # BadFile => archive = <<cur, "rel">>
         /\ url[cur] = "cvs" => archive[2] # "rel"
BY DEF HomeInv, Fits, CurFile, FileOf, Master

-----------------------------------------------------------------------------
(* An archive with a checksum is checked where it is fetched; from there   *)
(* on nobody but this process touches it, nor the notes.                   *)
VerifiedInv ==
  /\ pc = "archive" /\ sha1[cur] = "rel" => download[CurFile] = <<cur, "rel">>
  /\ pc = "extract" /\ sha1[cur] = "rel" => archive = <<cur, "rel">>

LEMMA VerifiedInit == Init => VerifiedInv
BY DEF Init, VerifiedInv

LEMMA VerifiedElsewhere ==
  ASSUME pc' \notin {"archive", "extract"} PROVE VerifiedInv'
BY DEF VerifiedInv

LEMMA VerifiedStep ==
  ControlInv /\ UrlInv /\ SourcesInv /\ VerifiedInv /\ [Next]_vars => VerifiedInv'
<1> SUFFICES ASSUME ControlInv, UrlInv, SourcesInv, VerifiedInv, [Next]_vars
             PROVE  VerifiedInv'
  OBVIOUS
<1>1. CASE FetchLocal
  <2>1. /\ pc' = "archive" /\ UNCHANGED <<url, sha1, li, download>>
        /\ check_sha1sum(cur, download[CurFile])
    BY <1>1 DEF FetchLocal, notes, sources, locals, CurFile
  <2>2. CurFile' = CurFile /\ cur' = cur
    BY <2>1 DEF CurFile, cur
  <2>3. QED
    BY <2>1, <2>2 DEF VerifiedInv, check_sha1sum
<1>2. CASE FetchRemote
  <2>1. CASE Ends
    BY <2>1, VerifiedElsewhere DEF Ends
  <2>2. CASE pc' = "archive" /\ UNCHANGED locals
    <3>1. pc \in InSources \ {"unpack"} /\ pc # "archive" /\ UNCHANGED <<url, sha1, li>>
      BY <1>2, <2>2 DEF FetchRemote, Downloading, InSources, notes, locals
    <3>2. CurFile \in DOMAIN download
      BY <3>1, CurrentUrl DEF SourcesInv
    <3>3. CurFile' = CurFile /\ cur' = cur
      BY <3>1 DEF CurFile, cur
    <3>4. PICK content \in {<<cur, url[cur]>>, BadFile} :
            /\ download' = [download EXCEPT ![CurFile] = content]
            /\ sha1[cur] # "undef" => check_sha1sum(cur, content)
      BY <1>2, <2>2 DEF FetchRemote, Ends, CurFile
    <3>5. sha1[cur] = "rel" => download'[CurFile] = <<cur, "rel">>
      BY <3>2, <3>4 DEF check_sha1sum
    <3>6. QED
      BY <2>2, <3>1, <3>3, <3>5 DEF VerifiedInv
  <2>3. QED
    BY <1>2, <2>1, <2>2 DEF FetchRemote
<1>3. CASE Archive
  <2>1. /\ pc = "archive" /\ pc' = "extract" /\ UNCHANGED <<sha1, li>>
        /\ archive' = download[CurFile]
    BY <1>3 DEF Archive, notes, CurFile
  <2>2. QED
    BY <2>1 DEF VerifiedInv, cur
<1>4. CASE CalmsDown \/ UNCHANGED vars
  <2>1. UNCHANGED <<pc, url, sha1, li, download, archive>>
    BY <1>4 DEF CalmsDown, vars, notes, sources, locals
  <2>2. CurFile' = CurFile /\ cur' = cur
    BY <2>1 DEF CurFile, cur
  <2>3. QED
    BY <2>1, <2>2 DEF VerifiedInv
<1>5. CASE Killed \/ Clean \/ Build \/ (\E v \in Flavours : BuildPL(v)) \/ Noting
  <2>1. pc' \notin {"archive", "extract"}
    BY <1>5, NotingFrame DEF Killed, Clean, Build, BuildPL, Noted, Ends
  <2>2. QED
    BY <2>1, VerifiedElsewhere
<1>6. CASE Step /\ ~Noting /\ ~FetchLocal /\ ~FetchRemote /\ ~Archive
  <2>1. pc' \notin {"archive", "extract"}
    BY <1>6 DEF Step, Keep, Replace, Rmtree, FetchFails, Extract, ExtractFails, Patch,
       Patched, Github, NoGui, Gui, Make, Made, Collect, BuildFailed, StoreSubdir,
       StoreConfig, Mark, Super, CleanRest, Ends, NextLib
  <2>2. QED
    BY <2>1, VerifiedElsewhere
<1>7. QED
  BY <1>1, <1>2, <1>3, <1>4, <1>5, <1>6 DEF Next

(* Where the notes have a checksum, only the release it belongs to is      *)
(* unpacked, and only for the release's own address, wherever Build.PL and *)
(* the builds before were killed.                                          *)
THEOREM OnlyVerifiedUnpacked == Spec => []UnpackedIsVerified
<1>1. ControlInv /\ UrlInv /\ HomeInv /\ VerifiedInv => UnpackedIsVerified
  <2> SUFFICES ASSUME ControlInv, UrlInv, HomeInv, VerifiedInv,
                      pc = "extract", sha1[cur] = "rel"
               PROVE  archive = <<cur, "rel">> /\ url[cur] = "rel"
    BY DEF UnpackedIsVerified
  <2>1. archive = <<cur, "rel">>
    BY DEF VerifiedInv
  <2>2. cur \in Lib /\ url[cur] \in {"rel", "cvs"}
    BY CurrentUrl DEF InSources
  <2>3. url[cur] = "cvs" => archive[2] # "rel"
    BY <2>2, HomeArchive
  <2>4. QED
    BY <2>1, <2>2, <2>3
<1>2. Spec => [](VerifiedInv /\ HomeInv /\ ControlInv /\ UrlInv)
  BY TypesAlways, VerifiedInit, VerifiedStep, HomeInit, HomeStep, PTL DEF Spec
<1>3. QED
  BY <1>1, <1>2, PTL
-----------------------------------------------------------------------------
(* The libraries behind li are as they are to be made, while the one at li *)
(* is removed, fetched, unpacked and patched.                              *)
Sound(l) ==
  Wanted(l) => IF url[l] = "rel" THEN tree[l] = Tree("rel", TRUE, Patches(l))
                                 ELSE tree[l].ver # "rel"
Prepared == {"github", "gui", "make"}

SoundInv ==
  /\ pc \in InSources =>
       \A i \in 1 .. li - 1 :
         LibOrder[i] \notin kept /\ (pc = "unpack" \/ LibOrder[i] # cur) => Sound(LibOrder[i])
  /\ pc \in Prepared => \A l \in Range(LibOrder) \ kept : Sound(l)
  /\ pc \in {"fetch", "archive", "extract"} => tree[cur] = Absent
  /\ pc = "patch" => IF url[cur] = "rel"
                     THEN \E n \in 0 .. Patches(cur) : tree[cur] = Tree("rel", TRUE, n)
                     ELSE tree[cur] = Absent

LEMMA SoundElsewhere ==
  ASSUME pc' \notin InSources \cup Prepared PROVE SoundInv'
BY DEF SoundInv, InSources

LEMMA SoundInit == Init => SoundInv
BY DEF Init, SoundInv, InSources, Prepared

(* When the library at li is settled, the next one is taken.               *)
LEMMA NextLibSound ==
  ASSUME ControlInv, pc \in InSources, NextLib,
         \A i \in 1 .. li : LibOrder[i] \notin kept' => Sound(LibOrder[i])'
  PROVE  SoundInv'
<1>1. li \in Nat \ {0} /\ li <= Len(LibOrder) /\ Len(LibOrder) \in Nat
      /\ DOMAIN LibOrder = 1 .. Len(LibOrder)
  BY OrderAssumption DEF ControlInv
<1>2. CASE li < Len(LibOrder)
  <2>1. li' = li + 1 /\ pc' = "unpack"
    BY <1>2 DEF NextLib
  <2>2. li' - 1 = li
    BY <1>1, <2>1
  <2>3. QED
    BY <2>1, <2>2 DEF SoundInv, Prepared
<1>3. CASE li = Len(LibOrder)
  <2>1. pc' = "github"
    BY <1>1, <1>3 DEF NextLib
  <2>2. \A l \in Range(LibOrder) \ kept' : Sound(l)'
    BY <1>1, <1>3 DEF Range
  <2>3. QED
    BY <2>1, <2>2 DEF SoundInv, InSources
<1>4. li < Len(LibOrder) \/ li = Len(LibOrder)
  <2> DEFINE n == Len(LibOrder)
  <2>1. li \in Nat /\ n \in Nat /\ li <= n
    BY <1>1
  <2> HIDE DEF n
  <2>2. li < n \/ li = n
    BY <2>1
  <2>3. QED
    BY <2>2 DEF n
<1>5. QED
  BY <1>2, <1>3, <1>4

(* Work on the library at li leaves those behind it as they are.           *)
LEMMA BehindSound ==
  ASSUME ControlInv, SoundInv, pc \in InSources, pc' \in InSources \ {"unpack"},
         UNCHANGED <<url, patch_notes, li, kept>>,
         \A l \in Lib : l # cur => tree'[l] = tree[l]
  PROVE  \A i \in 1 .. li' - 1 :
           LibOrder[i] \notin kept' /\ LibOrder[i] # cur' => Sound(LibOrder[i])'
<1> SUFFICES ASSUME NEW i \in 1 .. li - 1, LibOrder[i] \notin kept, LibOrder[i] # cur
             PROVE  Sound(LibOrder[i])'
  BY DEF cur
<1>1. Sound(LibOrder[i])
  BY DEF SoundInv
<1>2. LibOrder[i] \in Lib
  BY OrderAssumption DEF ControlInv
<1>3. tree'[LibOrder[i]] = tree[LibOrder[i]]
  BY <1>2
<1>4. QED
  BY <1>1, <1>3 DEF Sound, Wanted, Patches

LEMMA SettledSound ==
  ASSUME ControlInv, SoundInv, Keep \/ Patched
  PROVE  SoundInv'
<1>1. /\ pc \in InSources /\ NextLib /\ UNCHANGED <<url, patch_notes, tree>>
      /\ kept \subseteq kept'
  BY DEF Keep, Patched, InSources, notes, sources
<1>2. cur \in Lib /\ li \in Nat \ {0} /\ cur = LibOrder[li]
  BY <1>1, CurrentLibrary DEF ControlInv, cur
<1>3. \A l : Sound(l) => Sound(l)'
  BY <1>1 DEF Sound, Wanted, Patches
<1>4. cur \notin kept' => Sound(cur)
  <2>1. CASE Keep
    BY <2>1 DEF Keep, Sound
  <2>2. CASE Patched
    <3>1. pc = "patch" /\ ~Unpatched
      BY <2>2 DEF Patched
    <3>2. CASE url[cur] = "rel"
      <4>1. PICK n \in 0 .. Patches(cur) : tree[cur] = Tree("rel", TRUE, n)
        BY <3>1, <3>2 DEF SoundInv
      <4>2. Patches(cur) \in Nat
        BY <1>2, LibAssumption DEF Patches
      <4>3. tree[cur].ver = "rel" /\ tree[cur].patches = n
        BY <4>1 DEF Tree
      <4>4. n = Patches(cur)
        <5>1. ~(n < Patches(cur))
          BY <3>1, <4>3 DEF Unpatched
        <5>2. QED
          BY <4>2, <5>1
      <4>5. QED
        BY <3>2, <4>1, <4>4 DEF Sound
    <3>3. CASE url[cur] # "rel"
      BY <3>1, <3>3 DEF SoundInv, Sound, Absent
    <3>4. QED
      BY <3>2, <3>3
  <2>3. QED
    BY <2>1, <2>2
<1>5. ASSUME NEW i \in 1 .. li, LibOrder[i] \notin kept' PROVE Sound(LibOrder[i])
  <2>1. CASE LibOrder[i] = cur
    BY <1>4, <1>5, <2>1
  <2>2. CASE LibOrder[i] # cur
    <3>1. i \in 1 .. li - 1
      BY <1>2, <2>2
    <3>2. QED
      BY <1>1, <1>5, <2>2, <3>1 DEF SoundInv
  <2>3. QED
    BY <2>1, <2>2
<1>6. QED
  BY <1>1, <1>3, <1>5, NextLibSound

LEMMA OneMorePatch ==
  ASSUME NEW v, NEW w, NEW n \in Nat
  PROVE  [Tree(v, w, n) EXCEPT !.patches = @ + 1] = Tree(v, w, n + 1)
BY DEF Tree

(* Removing, fetching and unpacking the library at li, and patching it.    *)
LEMMA WorkSound ==
  ASSUME ControlInv, UrlInv, SourcesInv, HomeInv, SoundInv,
         Replace \/ Rmtree \/ FetchLocal \/ FetchRemote \/ Archive \/ Extract \/ Patch
  PROVE  SoundInv'
<1>1. pc \in InSources /\ UNCHANGED <<url, patch_notes>>
  BY DEF Replace, Rmtree, FetchLocal, FetchRemote, Downloading, Archive, Extract,
         Patch, InSources, notes
<1>2. cur \in Lib /\ Patches(cur) \in Nat
  BY <1>1, CurrentLibrary, LibAssumption DEF Patches
<1>3. CASE Ends
  BY <1>3, SoundElsewhere DEF Ends, InSources, Prepared
<1>4. CASE Replace \/ FetchLocal \/ Archive \/ (FetchRemote /\ ~Ends)
  <2>1. /\ pc' \in {"rmtree", "fetch", "archive", "extract"}
        /\ UNCHANGED <<tree, li, kept>>
        /\ pc' # "rmtree" => tree[cur] = Absent
    BY <1>4 DEF Replace, FetchLocal, FetchRemote, Downloading, Archive, SoundInv,
                sources, locals
  <2>2. pc' \in InSources \ {"unpack"} /\ pc' \notin Prepared \cup {"patch"}
    BY <2>1 DEF InSources, Prepared
  <2>3. \A i \in 1 .. li' - 1 :
          LibOrder[i] \notin kept' /\ LibOrder[i] # cur' => Sound(LibOrder[i])'
    BY <1>1, <2>1, <2>2, BehindSound
  <2>4. pc' # "rmtree" => tree'[cur'] = Absent
    BY <2>1 DEF cur
  <2>5. QED
    BY <2>2, <2>3, <2>4 DEF SoundInv
<1>5. CASE Rmtree
  <2>1. /\ pc' = "fetch" /\ UNCHANGED <<li, kept>>
        /\ tree' = [tree EXCEPT ![cur] = Absent]
    BY <1>5 DEF Rmtree, locals
  <2>2. tree'[cur'] = Absent /\ \A l \in Lib : l # cur => tree'[l] = tree[l]
    BY <1>2, <2>1 DEF SourcesInv, cur
  <2>3. \A i \in 1 .. li' - 1 :
          LibOrder[i] \notin kept' /\ LibOrder[i] # cur' => Sound(LibOrder[i])'
    BY <1>1, <2>1, <2>2, BehindSound DEF InSources
  <2>4. QED
    BY <2>1, <2>2, <2>3 DEF SoundInv, Prepared
<1>6. CASE Extract
  <2>1. /\ pc = "extract" /\ pc' = "patch" /\ li' = li /\ kept' = kept
        /\ Unpacked(TRUE)
    BY <1>6, Zenon DEF Extract, locals
  <2>2. tree[cur] = Absent
    BY <2>1 DEF SoundInv
  <2>3. CASE url[cur] = "rel"
    <3>1. archive = <<cur, "rel">>
      BY <1>2, <1>6, <2>1, <2>3, HomeArchive DEF Extract
    <3>2. tree' = [tree EXCEPT ![cur] = Tree("rel", TRUE, 0)]
      BY <2>1, <3>1 DEF Unpacked
    <3>3. tree'[cur'] = Tree("rel", TRUE, 0) /\ \A l \in Lib : l # cur => tree'[l] = tree[l]
      BY <1>2, <2>1, <3>2 DEF SourcesInv, cur
    <3>4. \A i \in 1 .. li' - 1 :
            LibOrder[i] \notin kept' /\ LibOrder[i] # cur' => Sound(LibOrder[i])'
      BY <1>1, <2>1, <3>3, BehindSound DEF InSources
    <3>5. 0 \in 0 .. Patches(cur) /\ Patches(cur)' = Patches(cur) /\ cur' = cur
      BY <1>1, <1>2, <2>1 DEF cur, Patches
    <3>6. \E n \in 0 .. Patches(cur)' : tree'[cur'] = Tree("rel", TRUE, n)
      BY <1>2, <3>3, <3>5
    <3>7. QED
      BY <1>1, <2>1, <2>3, <3>4, <3>5, <3>6 DEF SoundInv, Prepared
  <2>4. CASE url[cur] # "rel"
    <3>1. UNCHANGED tree
      BY <1>2, <2>1, <2>4, HomeArchive, CurrentUrl DEF Unpacked, InSources
    <3>2. \A i \in 1 .. li' - 1 :
            LibOrder[i] \notin kept' /\ LibOrder[i] # cur' => Sound(LibOrder[i])'
      BY <1>1, <2>1, <3>1, BehindSound DEF InSources
    <3>3. QED
      BY <1>1, <2>1, <2>2, <2>4, <3>1, <3>2 DEF SoundInv, Prepared, cur
  <2>5. QED
    BY <2>3, <2>4
<1>7. CASE Patch
  <2>1. /\ pc = "patch" /\ pc' = "patch" /\ UNCHANGED <<li, kept>> /\ Unpatched
        /\ tree' = [tree EXCEPT ![cur].patches = @ + 1]
    BY <1>7 DEF Patch, locals
  <2>2. url[cur] = "rel"
    <3>1. tree[cur] # Absent
      BY <2>1 DEF Unpatched, Absent
    <3>2. QED
      BY <2>1, <3>1 DEF SoundInv
  <2>3. PICK n \in 0 .. Patches(cur) : tree[cur] = Tree("rel", TRUE, n)
    BY <2>1, <2>2 DEF SoundInv
  <2>4. n + 1 \in 0 .. Patches(cur)
    BY <1>2, <2>1, <2>3 DEF Unpatched, Tree
  <2>5. tree'[cur] = Tree("rel", TRUE, n + 1) /\ \A l \in Lib : l # cur => tree'[l] = tree[l]
    <3>1. tree' = [tree EXCEPT ![cur] = [tree[cur] EXCEPT !.patches = @ + 1]]
      BY <2>1
    <3>2. [Tree("rel", TRUE, n) EXCEPT !.patches = @ + 1] = Tree("rel", TRUE, n + 1)
      <4>1. n \in Nat
        BY <1>2
      <4>2. PICK w : w = TRUE
        OBVIOUS
      <4>3. [Tree("rel", w, n) EXCEPT !.patches = @ + 1] = Tree("rel", w, n + 1)
        BY <4>1, OneMorePatch
      <4>4. QED
        BY <4>2, <4>3
    <3>3. QED
      BY <1>2, <2>3, <3>1, <3>2 DEF SourcesInv
  <2>6. \A i \in 1 .. li' - 1 :
          LibOrder[i] \notin kept' /\ LibOrder[i] # cur' => Sound(LibOrder[i])'
    BY <1>1, <2>1, <2>5, BehindSound DEF InSources
  <2>7. cur' = cur /\ Patches(cur)' = Patches(cur)
    BY <1>1, <2>1 DEF cur, Patches
  <2>8. QED
    BY <1>1, <2>1, <2>2, <2>4, <2>5, <2>6, <2>7 DEF SoundInv, Prepared
<1>8. QED
  BY <1>3, <1>4, <1>5, <1>6, <1>7

LEMMA GithubSound == ASSUME SoundInv, SourcesInv, Github PROVE SoundInv'
<1>1. pc = "github" /\ pc' = "gui" /\ UNCHANGED <<url, patch_notes, kept>>
  BY DEF Github, notes, locals
<1>2. ASSUME NEW l \in Range(LibOrder), l \notin kept, Wanted(l) PROVE Sound(l)'
  <2>1. l \in Lib
    BY OrderAssumption DEF Range
  <2>2. Sound(l)
    BY <1>1, <1>2 DEF SoundInv, Prepared
  <2>3. tree'[l] = tree[l] \/
        (tree[l] = Absent /\ tree'[l].ver = "cvs")
    BY <2>1 DEF Github, Tree
  <2>4. CASE url[l] = "rel"
    <3>1. tree[l] # Absent
      BY <1>2, <2>2, <2>4 DEF Sound, Tree, Absent
    <3>2. tree'[l] = tree[l]
      BY <2>3, <3>1
    <3>3. QED
      BY <1>1, <2>2, <3>2 DEF Sound, Wanted, Patches
  <2>5. CASE url[l] # "rel"
    <3>1. tree'[l].ver # "rel"
      BY <1>2, <2>2, <2>3, <2>5 DEF Sound
    <3>2. QED
      BY <1>1, <2>5, <3>1 DEF Sound
  <2>6. QED
    BY <2>4, <2>5
<1>3. \A l \in Range(LibOrder) \ kept' : Sound(l)'
  <2> SUFFICES ASSUME NEW l \in Range(LibOrder), l \notin kept PROVE Sound(l)'
    BY <1>1
  <2>1. CASE Wanted(l)
    BY <1>2, <2>1
  <2>2. CASE ~Wanted(l)
    BY <1>1, <2>2 DEF Sound, Wanted
  <2>3. QED
    BY <2>1, <2>2
<1>4. QED
  BY <1>1, <1>3 DEF SoundInv, InSources

LEMMA SoundStep ==
  ControlInv /\ UrlInv /\ SourcesInv /\ HomeInv /\ SoundInv
    /\ [Next]_vars => SoundInv'
<1> SUFFICES ASSUME ControlInv, UrlInv, SourcesInv, HomeInv, SoundInv,
                    [Next]_vars
             PROVE  SoundInv'
  OBVIOUS
<1>1. CASE Keep \/ Patched
  BY <1>1, SettledSound
<1>2. CASE Replace \/ Rmtree \/ FetchLocal \/ FetchRemote \/ Archive \/ Extract \/ Patch
  BY <1>2, WorkSound
<1>3. CASE Github
  BY <1>3, GithubSound
<1>4. CASE Gui \/ Make
  <2>1. /\ pc \in Prepared /\ pc' = "make"
        /\ UNCHANGED <<url, patch_notes, tree, kept>>
    BY <1>4 DEF Gui, Make, Prepared, notes, sources
  <2>2. \A l \in Range(LibOrder) \ kept' : Sound(l)'
    BY <2>1 DEF SoundInv, Sound, Wanted, Patches
  <2>3. QED
    BY <2>1, <2>2 DEF SoundInv, InSources
<1>5. CASE Build
  <2>1. pc' = "super" \/ (pc' = "unpack" /\ li' = 1)
    BY <1>5 DEF Build
  <2>2. CASE pc' = "super"
    BY <2>2, SoundElsewhere DEF InSources, Prepared
  <2>3. CASE pc' = "unpack" /\ li' = 1
    <3>1. 1 .. li' - 1 = {}
      BY <2>3
    <3>2. QED
      BY <2>3, <3>1 DEF SoundInv, Prepared
  <2>4. QED
    BY <2>1, <2>2, <2>3
<1>6. CASE CalmsDown \/ UNCHANGED vars
  <2>1. UNCHANGED <<pc, url, patch_notes, li, tree, kept>>
    BY <1>6 DEF CalmsDown, vars, notes, sources, locals
  <2>2. QED
    BY <2>1 DEF SoundInv, Sound, Wanted, Patches, cur
<1>7. CASE Noting \/ FetchFails \/ ExtractFails \/ NoGui \/ Made
           \/ Collect \/ BuildFailed \/ StoreSubdir \/ StoreConfig \/ Mark \/ Super
           \/ CleanRest \/ Killed \/ Clean \/ (\E v \in Flavours : BuildPL(v))
  <2>1. pc' \notin InSources \cup Prepared
    BY <1>7, NotingFrame DEF Noted, FetchFails, ExtractFails, NoGui, Made, Collect,
       BuildFailed, StoreSubdir, StoreConfig, Mark, Super, CleanRest, Killed, Clean,
       BuildPL, Ends, InSources, Prepared
  <2>2. QED
    BY <2>1, SoundElsewhere
<1>8. QED
  BY <1>1, <1>2, <1>3, <1>4, <1>5, <1>6, <1>7 DEF Next, Step

(* However many processes died in the middle of a library, what is made is *)
(* the release the notes name, whole and fully patched, or what the user   *)
(* chose to keep; a development build makes no release of its libraries.   *)
THEOREM AlwaysMadeFromCleanSources == Spec => []MadeFromCleanSources
<1>1. SoundInv => MadeFromCleanSources
  BY DEF SoundInv, MadeFromCleanSources, Sound, Prepared
<1>2. Spec => [](ControlInv /\ UrlInv /\ SourcesInv /\ HomeInv)
  BY TypesAlways, HomeInit, HomeStep, PTL DEF Spec
<1>3. Spec => []SoundInv
  BY <1>2, SoundInit, SoundStep, PTL DEF Spec
<1>4. QED
  BY <1>1, <1>3, PTL
-----------------------------------------------------------------------------
(* The installation.  Its steps are Builder's as far as the build directory *)
(* goes, and a process that reached Module::Build's part found the marker  *)
(* or set it.                                                              *)
SuperIsMarked == pc = "super" => build_done

LEMMA SuperStep == SuperIsMarked /\ [Next]_vars => SuperIsMarked'
<1> SUFFICES ASSUME SuperIsMarked, [Next]_vars PROVE SuperIsMarked'
  OBVIOUS
<1> USE DEF SuperIsMarked
<1>1. CASE Build \/ Mark
  BY <1>1 DEF Build, Mark
<1>2. CASE Next /\ ~Build /\ ~Mark /\ ~CalmsDown
  <2>1. pc' # "super"
    BY <1>2, NotingFrame DEF Noted, Next, Step, BuildPL, Clean, Killed, Ends, NextLib, Keep, Replace, Rmtree, FetchLocal, FetchRemote, FetchFails, Archive, Extract,
       ExtractFails, Patch, Patched, Github, NoGui, Gui, Make, Made, Collect, BuildFailed,
       StoreSubdir, StoreConfig, Super, CleanRest
  <2>2. QED
    BY <2>1
<1>3. CASE CalmsDown \/ UNCHANGED vars
  BY <1>3 DEF CalmsDown, vars
<1>4. QED
  BY <1>1, <1>2, <1>3

LEMMA InstallStepsBuild ==
  [InstallNext]_<<vars, site>> => [Next]_vars \/ NewDirectory
<1>1. Configures => Next
  BY DEF Configures, Next
<1>2. Cleans \/ Builds \/ Install \/ Dies => Next
  BY DEF Cleans, Builds, Install, Dies, Next
<1>3. Works => Next
  BY DEF Works, Next
<1>4. BlibShare \/ CopyShare \/ CopyConf => UNCHANGED vars
  BY DEF BlibShare, CopyShare, CopyConf
<1>5. BlibConf \/ Installed => Next \/ UNCHANGED vars
  BY DEF BlibConf, EndsOrCopies, Installed, Next, Step
<1>6. QED
  BY <1>1, <1>2, <1>3, <1>4, <1>5 DEF InstallNext

LEMMA NewDirectoryWhole ==
  ASSUME WholeInv, NewDirectory
  PROVE  WholeInv' /\ SuperIsMarked'
<1> USE DEF NewDirectory
<1>1. ResultType'
  BY DEF WholeInv, ResultType, Empty, locals
<1>2. Stages'
  BY DEF Stages, Building
<1>3. Marked'
  BY DEF Marked
<1>4. QED
  BY <1>1, <1>2, <1>3 DEF WholeInv, SuperIsMarked

LEMMA BuildWholeAlways == InstallSpec => [](WholeInv /\ SuperIsMarked)
<1>1. InstallInit => WholeInv /\ SuperIsMarked
  BY InitWhole DEF InstallInit, Init, SuperIsMarked
<1>2. WholeInv /\ SuperIsMarked /\ [InstallNext]_<<vars, site>> => (WholeInv /\ SuperIsMarked)'
  BY InstallStepsBuild, StepWhole, SuperStep, NewDirectoryWhole
<1>3. QED
  BY <1>1, <1>2, PTL DEF InstallSpec

-----------------------------------------------------------------------------
InstallTypes ==
  /\ blib_share \in Shares /\ dist_dir \in Shares
  /\ blib_conf \in Conf /\ ConfigData \in Conf

InstallFlags ==
  /\ installing \in BOOLEAN /\ copying \in BOOLEAN /\ torn \in BOOLEAN
  /\ copying => pc = "super" /\ installing
  /\ installing => torn /\ pc # "idle"

WholeShare(config, shares) ==
  /\ config.subdir \in Subdir
  /\ config.libs \subseteq shares[config.subdir]
  /\ Essential \subseteq config.libs

(* blib/ is whole because the marked build is, and the installation        *)
(* because blib/ is, and neither changes while it is copied.               *)
Chain ==
  /\ copying => WholeShare(blib_conf, blib_share)
  /\ ~torn => ConfigData.subdir = "none" \/ WholeShare(ConfigData, dist_dir)

InstallInv == InstallTypes /\ InstallFlags /\ Chain

LEMMA InitInstall == InstallInit => InstallInv
<1> SUFFICES ASSUME InstallInit PROVE InstallInv
  OBVIOUS
<1> USE DEF InstallInit
<1>1. InstallTypes
  BY DEF InstallTypes, Shares, Conf, Empty, NoConf
<1>2. InstallFlags
  BY DEF InstallFlags
<1>3. Chain
  BY DEF Chain, NoConf
<1>4. QED
  BY <1>1, <1>2, <1>3 DEF InstallInv

LEMMA InstallTypesStep ==
  ASSUME InstallTypes, WholeInv, [InstallNext]_<<vars, site>>
  PROVE  InstallTypes'
<1> USE DEF InstallTypes, Conf, blib, installed, site
<1>1. CASE Configures \/ Builds \/ Works \/ Dies \/ Installed \/ UNCHANGED <<vars, site>>
  BY <1>1 DEF Configures, Builds, Works, Dies, Installed
<1>2. CASE Cleans \/ NewDirectory \/ Install
  BY <1>2 DEF Cleans, NewDirectory, Install, Shares, Empty, NoConf
<1>3. CASE BlibShare
  BY <1>3 DEF BlibShare, CopiedTo, Shares, WholeInv, ResultType
<1>4. CASE BlibConf
  BY <1>4 DEF BlibConf, WholeInv, ResultType
<1>5. CASE CopyShare
  BY <1>5 DEF CopyShare, CopiedTo, Shares
<1>6. CASE CopyConf
  BY <1>6 DEF CopyConf
<1>7. QED
  BY <1>1, <1>2, <1>3, <1>4, <1>5, <1>6 DEF InstallNext

LEMMA InstallFlagsStep ==
  ASSUME InstallFlags, [InstallNext]_<<vars, site>>
  PROVE  InstallFlags'
<1> USE DEF InstallFlags, blib, installed, site
<1>1. CASE Configures \/ Cleans \/ NewDirectory \/ Builds
  <2>1. pc = "idle" /\ UNCHANGED <<installing, copying, torn>>
    BY <1>1 DEF Configures, BuildPL, Cleans, Clean, NewDirectory, Builds, Build
  <2>2. QED
    BY <2>1
<1>2. CASE Install
  <2>1. pc' # "idle" /\ ~copying'
    BY <1>2 DEF Install, Build
  <2>2. QED
    BY <1>2, <2>1 DEF Install
<1>3. CASE Works
  <2>1. ~copying /\ UNCHANGED <<copying, torn>>
    BY <1>3 DEF Works
  <2>2. installing' = (installing /\ pc' # "idle")
    BY <1>3 DEF Works
  <2>3. CASE installing /\ pc' # "idle"
    <3>1. installing' = TRUE
      BY <2>2, <2>3
    <3>2. QED
      BY <2>1, <2>3, <3>1
  <2>4. CASE ~(installing /\ pc' # "idle")
    <3>1. installing' = FALSE
      BY <2>2, <2>4
    <3>2. QED
      BY <2>1, <3>1
  <2>5. QED
    BY <2>3, <2>4
<1>4. CASE Dies
  BY <1>4 DEF Dies
<1>5. CASE BlibConf
  <2>1. CASE installing /\ copying' = TRUE /\ UNCHANGED vars
    BY <1>5, <2>1 DEF BlibConf, vars
  <2>2. CASE ~installing /\ copying' = FALSE
    BY <1>5, <2>2 DEF BlibConf
  <2>3. QED
    BY <1>5, <2>1, <2>2 DEF BlibConf, EndsOrCopies
<1>6. CASE Installed
  BY <1>6 DEF Installed
<1>7. CASE BlibShare \/ CopyShare \/ CopyConf \/ UNCHANGED <<vars, site>>
  <2>1. UNCHANGED <<pc, installing, copying, torn>>
    BY <1>7 DEF BlibShare, CopyShare, CopyConf, vars
  <2>2. QED
    BY <2>1
<1>8. QED
  BY <1>1, <1>2, <1>3, <1>4, <1>5, <1>6, <1>7 DEF InstallNext

LEMMA ChainStep ==
  ASSUME InstallInv, WholeInv, SuperIsMarked, [InstallNext]_<<vars, site>>
  PROVE  Chain'
<1> USE DEF InstallInv, InstallFlags, Chain, blib, installed, site
<1>1. CASE Configures \/ NewDirectory \/ Builds \/ Cleans
  <2>1. ~copying' /\ UNCHANGED <<installed, torn>>
    BY <1>1 DEF Configures, BuildPL, Cleans, Clean, NewDirectory, Builds, Build
  <2>2. QED
    BY <2>1 DEF WholeShare
<1>2. CASE Works \/ Dies
  <2>1. ~copying' /\ UNCHANGED <<installed, torn>>
    BY <1>2 DEF Works, Dies
  <2>2. QED
    BY <2>1 DEF WholeShare
<1>3. CASE Install
  <2>1. ~copying' /\ torn'
    BY <1>3 DEF Install, Build
  <2>2. QED
    BY <2>1
<1>4. CASE BlibShare
  <2>1. ~copying' /\ UNCHANGED <<installed, torn>>
    BY <1>4 DEF BlibShare
  <2>2. QED
    BY <2>1 DEF WholeShare
<1>5. CASE BlibConf
  <2>1. Stored /\ conf_config = conf_libs
    BY <1>5 DEF BlibConf, SuperIsMarked, WholeInv, Marked
  <2>2. WholeShare(blib_conf', blib_share')
    BY <1>5, <2>1 DEF BlibConf, Stored, Within, WholeShare
  <2>3. QED
    BY <1>5, <2>2 DEF BlibConf, WholeShare
<1>6. CASE CopyShare \/ CopyConf
  <2>1. torn /\ UNCHANGED <<blib, torn>>
    BY <1>6 DEF CopyShare, CopyConf
  <2>2. QED
    BY <1>6, <2>1 DEF WholeShare, CopyShare, CopyConf
<1>7. CASE Installed
  <2>1. WholeShare(ConfigData, dist_dir)
    BY <1>7 DEF Installed, Within, WholeShare
  <2>2. QED
    BY <1>7, <2>1 DEF Installed, WholeShare
<1>8. CASE UNCHANGED <<vars, site>>
  BY <1>8 DEF WholeShare
<1>9. QED
  BY <1>1, <1>2, <1>3, <1>4, <1>5, <1>6, <1>7, <1>8 DEF InstallNext

LEMMA InstallInvAlways == InstallSpec => []InstallInv
<1>1. /\ InstallInv /\ WholeInv /\ SuperIsMarked
      /\ [InstallNext]_<<vars, site>>
      => InstallInv'
  BY InstallTypesStep, InstallFlagsStep, ChainStep DEF InstallInv
<1>2. QED
  BY <1>1, InitInstall, BuildWholeAlways, PTL DEF InstallSpec

(* Every variable keeps its type; only ./Build install copies to the perl  *)
(* library tree, and it is torn until it ends.                             *)
THEOREM InstallTypeCorrect == InstallSpec => []InstallTypeOK
<1>1. InstallInv => InstallTypeOK
  BY DEF InstallInv, InstallTypes, InstallFlags, InstallTypeOK
<1>2. QED
  BY <1>1, InstallInvAlways, PTL

(* blib/ is only ever installed from when it holds a whole build, whatever *)
(* process of Builder's died or was killed where.                          *)
THEOREM BlibAlwaysWhole == InstallSpec => []BlibIsWhole
<1>1. InstallInv => BlibIsWhole
  BY DEF InstallInv, Chain, WholeShare, BlibIsWhole
<1>2. QED
  BY <1>1, InstallInvAlways, PTL

(* Over any sequence of releases, builds, failures and installations, what *)
(* Alien::IUP says it has is there, unless the last installation was cut   *)
(* short.                                                                  *)
THEOREM InstallationUsable == InstallSpec => []InstalledIsUsable
<1>1. InstallInv => InstalledIsUsable
  BY NoneIsNoSubdir DEF InstallInv, Chain, WholeShare, InstalledIsUsable, Usable, Prefix, havelib
<1>2. QED
  BY <1>1, InstallInvAlways, PTL
=============================================================================
