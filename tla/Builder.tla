------------------------------ MODULE Builder -------------------------------
(***************************************************************************)
(* Building Alien::IUP in its distribution directory: `perl Build.PL', then *)
(* `./Build' (My::Builder::ACTION_code) as many times as it takes, each of  *)
(* them a process that may die or be killed at any step.  What they leave  *)
(* on disk - the marker build_done, the notes and config_data of           *)
(* Module::Build, download/, build_src/ and sharedir/ - is what the next    *)
(* process starts from.                                                     *)
(***************************************************************************)
EXTENDS Integers, Sequences, FiniteSets

CONSTANTS
  Lib,          \* libraries with a source archive
  LibOrder,     \* the order ACTION_code unpacks them in
  NoteOrder,    \* the order Build.PL notes their addresses in, for a release
  CoreOrder,    \* those, in order, --cvs notes new addresses for: iup, im, cd
  SysLibs,      \* those the system provides (sys*_lflags is set)
  NPatches,     \* number of patch files the release has for a library
  MakeOrder,    \* the order build_via_tecmake makes them in
  Targets,      \* make targets of a library; each leaves a lib of its name
  GLTargets,    \* targets dropped when OpenGL parts are skipped
  Essential,    \* targets ACTION_code insists on
  MinLibs,      \* fewest files in lib/ that count as complete
  Stamps,       \* date stamps of development builds
  Flavours,     \* what Build.PL is run for: "rel", "cvs" (--cvs)
  Travis        \* $ENV{TRAVIS}: no questions asked

ASSUME OrderAssumption ==
  /\ {LibOrder, MakeOrder, NoteOrder, CoreOrder} \subseteq Seq(Lib)
  /\ <<>> \notin {LibOrder, NoteOrder, CoreOrder}
ASSUME LibAssumption == SysLibs \subseteq Lib /\ NPatches \in [Lib -> Nat]
ASSUME FlavourAssumption == Flavours \subseteq {"rel", "cvs"}
ASSUME FlagAssumption == Travis \in BOOLEAN /\ MinLibs \in Nat
ASSUME TargetAssumption == Targets \in [Lib -> SUBSET UNION {Targets[l] : l \in Lib}]
ASSUME StampAssumption == "rel" \notin Stamps /\ "none" \notin Stamps

VARIABLES
  \* on disk
  build_done,   \* the marker file exists
  url,          \* notes '<lib>_url': "undef", "rel" or "cvs"
  sha1,         \* notes '<lib>_sha1': "undef", "rel" or "any", which is
                \* DO_NOT_CHECK_SHA1
  patch_notes,  \* libraries whose note '<lib>_patches' is set
  devel,        \* note is_devel_cvs_version
  download,     \* what each file of download/ holds
  tree,         \* build_src/<lib>
  raw,          \* build_src/kmx-mirror-<lib>-<hash>, a GitHub archive unpacked
  share,        \* the files of sharedir/<subdir>/lib
  conf_done, conf_libs,          \* config_data info_done, iup_libs
  conf_subdir, conf_config,      \* config_data share_subdir, config
  \* of the running process
  pc,           \* what it does next, "idle" when none runs
  li,           \* index in LibOrder or MakeOrder, or in Build.PL's order
  subdir,       \* $share_subdir
  archive,      \* what the archive about to be unpacked holds
  kept,         \* trees the user did not want replaced
  opengl,       \* OpenGL targets are built
  done, success,   \* %done and $success
  \* of the environment
  calm          \* from now on no one kills, cleans or configures, the machine
                \* has a GUI system, sound archives come out whole, make works

notes == <<url, sha1, patch_notes, devel>>
sources == <<download, tree, raw>>
conf == <<conf_done, conf_libs, conf_subdir, conf_config>>
locals == <<li, subdir, archive, kept, opengl, done, success>>
vars == <<build_done, notes, sources, share, conf, pc, locals, calm>>

-----------------------------------------------------------------------------
Subdir == {"rel"} \cup Stamps
Target == UNION {Targets[l] : l \in Lib}

(* A file of download/ holds the archive of a library and version, an      *)
(* unusable piece of one, or does not exist.                               *)
NoFile == <<"none", "none">>
BadFile == <<"bad", "bad">>
Content == {NoFile, BadFile} \cup (Lib \X {"rel", "cvs"})

(* The local file name: the last part of the address.  The development     *)
(* addresses all end in tarball/master.                                    *)
FileOf(l, v) == IF v = "cvs" THEN <<"master", "cvs">> ELSE <<l, "rel">>
FileName == {FileOf(l, v) : l \in Lib, v \in {"rel", "cvs"}}

Absent == [ver |-> "none", whole |-> FALSE, patches |-> 0]
Tree(v, w, n) == [ver |-> v, whole |-> w, patches |-> n]

Range(f) == {f[i] : i \in DOMAIN f}
Core == Range(CoreOrder)
cur == LibOrder[li]
Patches(l) == IF l \in patch_notes THEN NPatches[l] ELSE 0

(* A library outside Core is unpacked when it has an address and the       *)
(* system does not provide it.                                             *)
Wanted(l) == l \in Core \/ (url[l] # "undef" /\ l \notin SysLibs)

(* Seeded bugs: a file of the right name will do, and the checksum is      *)
(* compared with something it never equals.                                *)
BugCheckSkipped(l, content) == TRUE
BugCheckNeverPasses(l, content) == sha1[l] = "any"

(* check_sha1sum: the checksum of a release is that of its archive,        *)
(* DO_NOT_CHECK_SHA1 accepts anything.                                     *)
check_sha1sum(l, content) == sha1[l] = "any" \/ content = <<l, "rel">>

-----------------------------------------------------------------------------
Init ==
  /\ build_done = FALSE
  /\ url = [l \in Lib |-> "undef"] /\ sha1 = [l \in Lib |-> "undef"]
  /\ patch_notes = {} /\ devel = FALSE
  /\ download = [f \in FileName |-> NoFile]
  /\ tree = [l \in Lib |-> Absent] /\ raw = [l \in Lib |-> "none"]
  /\ share = [s \in Subdir |-> {}]
  /\ conf_done = {} /\ conf_libs = {}
  /\ conf_subdir = "none" /\ conf_config = {}
  /\ pc = "idle"
  /\ li = 1 /\ subdir = "none" /\ archive = NoFile /\ kept = {}
  /\ opengl = FALSE /\ done = {} /\ success = FALSE
  /\ calm = FALSE

(* The process ends, by die, by exit or killed, and forgets.               *)
Ends ==
  /\ pc' = "idle"
  /\ li' = 1 /\ subdir' = "none" /\ archive' = NoFile /\ kept' = {}
  /\ opengl' = FALSE /\ done' = {} /\ success' = FALSE

Upset == ~calm /\ calm' = calm

(* There is no _build/ before the first Build.PL has come to its end.      *)
Configured == \A l \in Core : url[l] # "undef"

(* perl Build.PL deletes the marker before anything else.                  *)
BuildPL(v) ==
  /\ pc = "idle" /\ Upset
  /\ build_done' = FALSE
  /\ pc' = IF ~Configured THEN "first" ELSE IF v = "cvs" THEN "cvs_url" ELSE "rel_url"
  /\ UNCHANGED <<notes, sources, share, conf, locals>>

(* Without _build/ the notes wait in memory for create_build_script.       *)
FirstNotes(v) ==
  LET noted == IF v = "cvs" THEN Core ELSE Range(NoteOrder)
  IN /\ pc = "first"
     /\ url' = [l \in Lib |-> IF l \in noted THEN v ELSE url[l]]
     /\ sha1' = [l \in Lib |-> IF l \notin noted THEN sha1[l]
                               ELSE IF v = "cvs" THEN "any" ELSE "rel"]
     /\ patch_notes' = IF v = "cvs" THEN patch_notes ELSE patch_notes \cup noted
     /\ devel' = (devel \/ v = "cvs")
     /\ Ends
     /\ UNCHANGED <<build_done, sources, share, conf, calm>>

(* Afterwards each note is on disk as soon as it is set: the address of a  *)
(* library, its checksum and, for a release, its patches.                  *)
Note(place, next) ==
  /\ pc = place /\ pc' = next
  /\ UNCHANGED <<build_done, devel, sources, share, conf, calm, subdir, archive, kept,
                 opengl, done, success>>

ReleaseUrl ==
  /\ Note("rel_url", "rel_sha1")
  /\ url' = [url EXCEPT ![NoteOrder[li]] = "rel"]
  /\ UNCHANGED <<sha1, patch_notes, li>>

ReleaseSha1 ==
  /\ Note("rel_sha1", "rel_patches")
  /\ sha1' = [sha1 EXCEPT ![NoteOrder[li]] = "rel"]
  /\ UNCHANGED <<url, patch_notes, li>>

(* Notes of an earlier --cvs run that the release branch does not set stay.*)
ReleasePatches ==
  /\ pc = "rel_patches"
  /\ patch_notes' = patch_notes \cup {NoteOrder[li]}
  /\ \/ li < Len(NoteOrder) /\ Note("rel_patches", "rel_url") /\ li' = li + 1
     \/ li >= Len(NoteOrder) /\ Ends
        /\ UNCHANGED <<build_done, devel, sources, share, conf, calm>>
  /\ UNCHANGED <<url, sha1>>

CvsUrl ==
  /\ Note("cvs_url", "cvs_sha1")
  /\ url' = [url EXCEPT ![CoreOrder[li]] = "cvs"]
  /\ UNCHANGED <<sha1, patch_notes, li>>

CvsSha1 ==
  /\ pc = "cvs_sha1"
  /\ sha1' = [sha1 EXCEPT ![CoreOrder[li]] = "any"]
  /\ \/ li < Len(CoreOrder) /\ Note("cvs_sha1", "cvs_url") /\ li' = li + 1
     \/ li >= Len(CoreOrder) /\ Note("cvs_sha1", "cvs_devel") /\ li' = li
  /\ UNCHANGED <<url, patch_notes>>

CvsDevel ==
  /\ pc = "cvs_devel"
  /\ devel' = TRUE
  /\ Ends
  /\ UNCHANGED <<build_done, url, sha1, patch_notes, sources, share, conf, calm>>

Noting ==
  \/ \E v \in Flavours : FirstNotes(v)
  \/ ReleaseUrl \/ ReleaseSha1 \/ ReleasePatches \/ CvsUrl \/ CvsSha1 \/ CvsDevel

(* Seeded bug: the marker is not looked at.                                *)
BugBuildIgnoresMarker ==
  /\ pc = "idle"
  /\ Configured
  /\ pc' = "unpack" /\ li' = 1
  /\ \/ ~devel /\ subdir' = "rel"
     \/ devel /\ subdir' \in Stamps
  /\ UNCHANGED <<build_done, notes, sources, share, conf, archive, kept,
                 opengl, done, success, calm>>

(* ./Build: nothing but Module::Build's own work when the marker exists,   *)
(* otherwise from the first library on, for the directory named after the  *)
(* version and, in development, the time.                                  *)
Build ==
  /\ pc = "idle"
  /\ Configured
  /\ \/ build_done /\ pc' = "super" /\ UNCHANGED locals
     \/ /\ ~build_done
        /\ pc' = "unpack" /\ li' = 1
        /\ \/ ~devel /\ subdir' = "rel"
           \/ devel /\ subdir' \in Stamps
        /\ UNCHANGED <<archive, kept, opengl, done, success>>
  /\ UNCHANGED <<build_done, notes, sources, share, conf, calm>>

-----------------------------------------------------------------------------
(* Sources: one library after the other.                                   *)
NextLib ==
  IF li < Len(LibOrder) THEN li' = li + 1 /\ pc' = "unpack"
                        ELSE li' = 1 /\ pc' = "github"

(* An existing tree is replaced without asking under Travis; otherwise the *)
(* question is asked, with "n" as the default.                             *)
Keep ==
  /\ pc = "unpack"
  /\ \/ tree[cur] # Absent /\ ~Travis /\ kept' = kept \cup {cur}
     \/ ~Wanted(cur) /\ kept' = kept
  /\ NextLib
  /\ UNCHANGED <<build_done, notes, sources, share, conf, subdir, archive,
                 opengl, done, success, calm>>

Replace ==
  /\ pc = "unpack" /\ Wanted(cur)
  /\ pc' = IF tree[cur] # Absent THEN "rmtree" ELSE "fetch"
  /\ UNCHANGED <<build_done, notes, sources, share, conf, locals, calm>>

Rmtree ==
  /\ pc = "rmtree"
  /\ tree' = [tree EXCEPT ![cur] = Absent]
  /\ pc' = "fetch"
  /\ UNCHANGED <<build_done, notes, download, raw, share, conf, locals, calm>>

(* fetch_file: a local file that passes the check is used as it is; not    *)
(* without a checksum to pass.                                             *)
FetchLocal ==
  LET f == FileOf(cur, url[cur])
  IN /\ pc = "fetch" /\ sha1[cur] # "undef"
     /\ download[f] # NoFile /\ check_sha1sum(cur, download[f])
     /\ pc' = "archive"
     /\ UNCHANGED <<build_done, notes, sources, share, conf, locals, calm>>

(* Any other local file is unlinked and the archive is downloaded.         *)
Downloading ==
  /\ pc = "fetch"
  /\ LET f == FileOf(cur, url[cur])
     IN ~(sha1[cur] # "undef" /\ download[f] # NoFile /\ check_sha1sum(cur, download[f]))

(* It arrives whole or, with the same return code 200, damaged; a failed   *)
(* check stops the build and leaves the file.                              *)
FetchRemote ==
  LET f == FileOf(cur, url[cur])
  IN /\ Downloading
     /\ \E content \in {<<cur, url[cur]>>, BadFile} :
          /\ download' = [download EXCEPT ![f] = content]
          /\ IF sha1[cur] # "undef" => check_sha1sum(cur, content)
             THEN pc' = "archive" /\ UNCHANGED locals
             ELSE Ends
     /\ UNCHANGED <<build_done, notes, tree, raw, share, conf, calm>>

(* Any other return code: nothing is stored.                               *)
FetchFails ==
  /\ Downloading
  /\ download' = [download EXCEPT ![FileOf(cur, url[cur])] = NoFile]
  /\ Ends
  /\ UNCHANGED <<build_done, notes, tree, raw, share, conf, calm>>

(* prepare_sources: a file without an archive's extension is renamed to    *)
(* one that has the process id in it.                                      *)
Archive ==
  LET f == FileOf(cur, url[cur])
  IN /\ pc = "archive"
     /\ archive' = download[f]
     /\ download' = IF url[cur] = "cvs" THEN [download EXCEPT ![f] = NoFile]
                                       ELSE download
     /\ pc' = "extract"
     /\ UNCHANGED <<build_done, notes, tree, raw, share, conf, li, subdir,
                    kept, opengl, done, success, calm>>

(* Archive::Extract puts down the directory the archive names, which only  *)
(* for a release is build_src/<lib>.                                       *)
Unpacked(whole) ==
  IF archive[2] = "rel"
  THEN tree' = [tree EXCEPT ![archive[1]] = Tree("rel", whole, 0)] /\ raw' = raw
  ELSE /\ raw' = [raw EXCEPT ![archive[1]] = IF whole THEN "whole" ELSE "part"]
       /\ tree' = tree

Extract ==
  /\ pc = "extract" /\ archive # BadFile
  /\ Unpacked(TRUE)
  /\ pc' = "patch"
  /\ UNCHANGED <<build_done, notes, download, share, conf, locals, calm>>

(* A damaged archive, or a full disk: the process dies, with what came out *)
(* of the archive left behind.                                             *)
ExtractFails ==
  /\ pc = "extract" /\ (calm => archive = BadFile)
  /\ \/ UNCHANGED <<tree, raw>>
     \/ archive # BadFile /\ Unpacked(FALSE)
  /\ Ends
  /\ UNCHANGED <<build_done, notes, download, share, conf, calm>>

(* apply_patch, one file at a time.  A patch for a tree that is not there  *)
(* under its own name only warns.                                          *)
(* Seeded bugs: the patches have no end, and the last one is skipped.      *)
BugPatchForEver == tree[cur].ver = "rel" /\ Patches(cur) > 0
BugLastPatchSkipped ==
  tree[cur].ver = "rel" /\ tree[cur].patches < Patches(cur) - 1

Unpatched == tree[cur].ver = "rel" /\ tree[cur].patches < Patches(cur)

Patch ==
  /\ pc = "patch" /\ Unpatched
  /\ tree' = [tree EXCEPT ![cur].patches = @ + 1]
  /\ UNCHANGED <<build_done, notes, download, raw, share, conf, pc, locals, calm>>

Patched ==
  /\ pc = "patch" /\ ~Unpatched
  /\ NextLib
  /\ UNCHANGED <<build_done, notes, sources, share, conf, subdir, archive,
                 kept, opengl, done, success, calm>>

(* Unless the three trees are there, unpacked GitHub archives get their    *)
(* names; rename leaves a tree that exists alone.                          *)
Github ==
  /\ pc = "github"
  /\ LET named == IF \A l \in Core : tree[l] # Absent THEN {}
                  ELSE {l \in Core : raw[l] # "none" /\ tree[l] = Absent}
     IN /\ tree' = [l \in Lib |-> IF l \in named
                                 THEN Tree("cvs", raw[l] = "whole", 0)
                                 ELSE tree[l]]
        /\ raw' = [l \in Lib |-> IF l \in named THEN "none" ELSE raw[l]]
  /\ pc' = "gui"
  /\ UNCHANGED <<build_done, notes, download, share, conf, locals, calm>>

-----------------------------------------------------------------------------
(* build_binaries: without a GUI system it dies; without OpenGL the user   *)
(* is asked whether to skip the parts that need it.                        *)
NoGui ==
  /\ pc = "gui" /\ ~calm
  /\ Ends
  /\ UNCHANGED <<build_done, notes, sources, share, conf, calm>>

Gui ==
  /\ pc = "gui"
  /\ opengl' \in BOOLEAN
  /\ done' = {} /\ success' = TRUE
  /\ li' = 1 /\ pc' = "make"
  /\ UNCHANGED <<build_done, notes, sources, share, conf, subdir, archive, kept,
                 calm>>

lib == MakeOrder[li]
Wants(l) == IF opengl THEN Targets[l] ELSE Targets[l] \ GLTargets

(* build_via_tecmake: make every target of a tree that is there, note      *)
(* which succeeded, and copy the libs to the share directory, failures or  *)
(* not.  A tree that is not there, or has no src/ yet, is no failure.      *)
Make ==
  /\ pc = "make" /\ li <= Len(MakeOrder)
  /\ \/ /\ tree[lib] # Absent
        /\ \E built \in SUBSET Wants(lib) :
             /\ done' = done \cup built
             /\ success' = (success /\ built = Wants(lib))
             /\ share' = [share EXCEPT ![subdir] = @ \cup built]
     \/ /\ ~tree[lib].whole
        /\ UNCHANGED <<done, success, share>>
  /\ calm => success' = success
  /\ li' = li + 1
  /\ UNCHANGED <<build_done, notes, sources, conf, pc, subdir, archive,
                 kept, opengl, calm>>

Made ==
  /\ pc = "make" /\ li > Len(MakeOrder)
  /\ conf_done' = done
  /\ pc' = "collect"
  /\ UNCHANGED <<build_done, notes, sources, share, conf_libs, conf_subdir,
                 conf_config, locals, calm>>

(* The list of libs is what lies in the share directory.                   *)
Collect ==
  /\ pc = "collect"
  /\ success' = (success /\ Cardinality(share[subdir]) >= MinLibs)
  /\ conf_libs' = share[subdir]
  /\ pc' = "verdict"
  /\ UNCHANGED <<build_done, notes, sources, share, conf_done, conf_subdir,
                 conf_config, li, subdir, archive, kept, opengl, done, calm>>

(* die "###BUILD FAILED###" unless the essential targets and $success.     *)
BuildFailed ==
  /\ pc = "verdict"
  /\ ~(Essential \subseteq conf_done /\ success)
  /\ Ends
  /\ UNCHANGED <<build_done, notes, sources, share, conf, calm>>

(* Seeded bug: a failed build goes on.                                     *)
BugStoreUnchecked ==
  /\ pc = "verdict"
  /\ conf_subdir' = subdir
  /\ pc' = "config"
  /\ UNCHANGED <<build_done, notes, sources, share, conf_done, conf_libs,
                 conf_config, locals, calm>>

StoreSubdir ==
  /\ pc = "verdict"
  /\ Essential \subseteq conf_done /\ success
  /\ conf_subdir' = subdir
  /\ pc' = "config"
  /\ UNCHANGED <<build_done, notes, sources, share, conf_done, conf_libs,
                 conf_config, locals, calm>>

StoreConfig ==
  /\ pc = "config"
  /\ conf_config' = conf_libs
  /\ pc' = "mark"
  /\ UNCHANGED <<build_done, notes, sources, share, conf_done, conf_libs,
                 conf_subdir, locals, calm>>

Mark ==
  /\ pc = "mark"
  /\ build_done' = TRUE
  /\ pc' = "super"
  /\ UNCHANGED <<notes, sources, share, conf, locals, calm>>

(* Module::Build copies to blib/, which matters to the installation only.  *)
Super ==
  /\ pc = "super"
  /\ Ends
  /\ UNCHANGED <<build_done, notes, sources, share, conf, calm>>

-----------------------------------------------------------------------------
(* ./Build clean removes what was added to the cleanup list, in the order  *)
(* of the names: build_done, build_src, then sharedir/<subdir>.            *)
Clean ==
  /\ pc = "idle" /\ Upset
  /\ Configured
  /\ build_done' = FALSE
  /\ pc' = "clean"
  /\ UNCHANGED <<notes, sources, share, conf, locals>>

CleanRest ==
  /\ pc = "clean"
  /\ tree' = [l \in Lib |-> Absent] /\ raw' = [l \in Lib |-> "none"]
  /\ share' = [s \in Subdir |-> {}]
  /\ Ends
  /\ UNCHANGED <<build_done, notes, download, conf, calm>>

(* A process killed between two steps loses only itself; in the middle of  *)
(* removing, downloading, unpacking or patching it leaves half a job.      *)
Killed ==
  /\ pc # "idle" /\ Upset
  /\ \/ UNCHANGED <<sources, share>>
     \/ /\ pc = "rmtree"
        /\ tree' = [tree EXCEPT ![cur].whole = FALSE]
        /\ UNCHANGED <<download, raw, share>>
     \/ /\ Downloading
        /\ download' = [download EXCEPT ![FileOf(cur, url[cur])] = BadFile]
        /\ UNCHANGED <<tree, raw, share>>
     \/ /\ pc = "extract" /\ archive # BadFile
        /\ Unpacked(FALSE)
        /\ UNCHANGED <<download, share>>
     \/ /\ pc = "patch" /\ Unpatched
        /\ tree' = [tree EXCEPT ![cur].whole = FALSE]
        /\ UNCHANGED <<download, raw, share>>
     \/ /\ pc = "clean"
        /\ \E gone \in SUBSET Lib : tree' = [l \in Lib |-> IF l \in gone THEN Absent ELSE tree[l]]
        /\ \E gone \in SUBSET Subdir : share' = [s \in Subdir |-> IF s \in gone THEN {} ELSE share[s]]
        /\ UNCHANGED <<download, raw>>
  /\ Ends
  /\ UNCHANGED <<build_done, notes, conf>>

Step ==
  \/ Noting
  \/ Keep \/ Replace \/ Rmtree
  \/ FetchLocal \/ FetchRemote \/ FetchFails \/ Archive
  \/ Extract \/ ExtractFails \/ Patch \/ Patched \/ Github
  \/ NoGui \/ Gui \/ Make \/ Made \/ Collect
  \/ BuildFailed \/ StoreSubdir \/ StoreConfig \/ Mark \/ Super
  \/ CleanRest

(* No library has the address of one kind and the checksum of the other:   *)
(* Build.PL was not killed between writing the two.                        *)
NotesAgree == \A l \in Lib : sha1[l] # "undef" => (url[l] = "cvs" <=> sha1[l] = "any")

(* The person at the keyboard configured the build and now only repeats it.*)
CalmsDown ==
  /\ ~calm /\ calm' = TRUE
  /\ pc = "idle" /\ Configured /\ NotesAgree
  /\ UNCHANGED <<build_done, notes, sources, share, conf, pc, locals>>

Next ==
  \/ \E v \in Flavours : BuildPL(v)
  \/ Build \/ Clean \/ Killed \/ CalmsDown
  \/ Step

Spec == Init /\ [][Next]_vars

-----------------------------------------------------------------------------
TypeOK ==
  /\ build_done \in BOOLEAN /\ patch_notes \subseteq Lib /\ devel \in BOOLEAN
  /\ url \in [Lib -> {"undef", "rel", "cvs"}]
  /\ sha1 \in [Lib -> {"undef", "rel", "any"}]
  /\ download \in [FileName -> Content]
  /\ tree \in [Lib -> [ver : {"none", "rel", "cvs"}, whole : BOOLEAN, patches : Nat]]
  /\ \A l \in Lib : tree[l].patches <= NPatches[l]
  /\ raw \in [Lib -> {"none", "part", "whole"}]
  /\ share \in [Subdir -> SUBSET Target]
  /\ conf_done \subseteq Target /\ conf_libs \subseteq Target
  /\ conf_config \subseteq Target
  /\ conf_subdir \in Subdir \cup {"none"} /\ subdir \in Subdir \cup {"none"}
  /\ pc \in {"idle", "first", "rel_url", "rel_sha1", "rel_patches", "cvs_url",
             "cvs_sha1", "cvs_devel", "unpack", "rmtree", "fetch", "archive",
             "extract", "patch", "github", "gui", "make", "collect", "verdict",
             "config", "mark", "super", "clean"}
  /\ li \in Nat \ {0} /\ archive \in Content
  /\ kept \subseteq Lib
  /\ opengl \in BOOLEAN /\ success \in BOOLEAN
  /\ done \subseteq Target
  /\ calm \in BOOLEAN

(* The marker stands for a whole build: as long as build_done exists, the  *)
(* stored configuration names a share directory that holds every library   *)
(* it lists and every essential one, however many builds died or were      *)
(* killed before (ACTION_code, from its -e test to touchfile).             *)
MarkedBuildIsWhole ==
  build_done => /\ conf_subdir # "none"
                /\ conf_config = conf_libs
                /\ Essential \cup conf_libs \subseteq share[conf_subdir]

(* Where the notes have a checksum, nothing else is unpacked, whatever a   *)
(* killed or failed process left in download/ and whichever of the notes a *)
(* killed Build.PL had come to: a development address with the checksum of *)
(* the release unpacks nothing.  Killed between Build.PL:107 and 108 after *)
(* a --cvs run, the release's own address is left with DO_NOT_CHECK_SHA1,  *)
(* and its archive is unpacked unchecked: that is what sha1 says here.     *)
UnpackedIsVerified ==
  pc = "extract" /\ sha1[cur] = "rel" => archive = <<cur, "rel">> /\ url[cur] = "rel"

(* What is made is what the notes name: each library the user did not      *)
(* choose to keep is in its own tree, unpacked whole, with every patch     *)
(* noted on it, even after processes killed while noting, removing,        *)
(* unpacking, patching; a development address makes no release sources.    *)
MadeFromCleanSources ==
  pc = "make" =>
    \A l \in Range(LibOrder) \ kept :
      Wanted(l) => IF url[l] = "rel"
                   THEN tree[l] = Tree("rel", TRUE, Patches(l))
                   ELSE tree[l].ver # "rel"

(* Build.PL: "use the latest sources from iup repository": what is         *)
(* unpacked for a library is the archive of its repository.                *)
SourcesOfItsRepository ==
  pc = "extract" /\ archive # BadFile => archive[1] = cur

(* The build directory keeps its promise to the installation: a marked     *)
(* build is whole and frozen, and the marker goes before anything else     *)
(* does when Build.PL or clean start over.                                 *)
AFinished == INSTANCE FinishedBuild WITH subdir <- conf_subdir, libs <- conf_config
ImplementsFinishedBuild == AFinished!Spec

-----------------------------------------------------------------------------
(* A process that runs goes on, the user repeats a build that died, and no *)
(* download fails or is damaged every time.                                *)
FetchGood(l) ==
  /\ pc = "fetch" /\ cur = l /\ FetchRemote /\ pc' = "archive"
  /\ download'[FileOf(l, url[l])] = <<l, url[l]>>

CalmSpec ==
  /\ Spec
  /\ WF_vars(Build) /\ WF_vars(Step)
  /\ \A l \in Lib : SF_vars(FetchGood(l))

(* Nothing a dead or killed process left behind - a damaged archive, half  *)
(* a tree, notes of two kinds - stops the builds that follow from          *)
(* succeeding, as long as the notes agree; where they do not, only another *)
(* Build.PL helps.                                                         *)
BuildsEventually == calm ~> build_done
=============================================================================
