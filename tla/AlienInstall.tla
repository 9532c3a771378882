---------------------------- MODULE AlienInstall ----------------------------
(***************************************************************************)
(* Installing Alien::IUP and using what is installed: what the processes   *)
(* of Builder go on to do behind SUPER::ACTION_code (pc is "super"), which *)
(* fills blib/, and behind SUPER::ACTION_install, which copies blib/ to    *)
(* the perl library tree; and a client that calls Alien::IUP->config.      *)
(* The files of a share directory are known by the library they are of.    *)
(***************************************************************************)
EXTENDS Builder

VARIABLES
  blib_share, blib_conf,   \* what ./Build put into blib/
  dist_dir,                \* installed share/dist/Alien-IUP
  ConfigData,              \* installed Alien::IUP::ConfigData
  installing,              \* the process that runs is ./Build install
  copying,                 \* it has filled blib/ and copies from there
  torn                     \* the last ./Build install did not finish

blib == <<blib_share, blib_conf>>
installed == <<dist_dir, ConfigData>>
site == <<blib, installed, installing, copying, torn>>

Shares == [Subdir -> SUBSET Target]
Conf == [subdir : Subdir \cup {"none"}, libs : SUBSET Target]
NoConf == [subdir |-> "none", libs |-> {}]
Empty == [s \in Subdir |-> {}]

(* All the files of one directory are in the other one.                    *)
Within(from, to) == \A s \in Subdir : from[s] \subseteq to[s]
CopiedTo(to, from) ==
  \E s \in Subdir : \E f \in from[s] \ to[s] : to' = [to EXCEPT ![s] = @ \cup {f}]

InstallInit ==
  /\ Init
  /\ blib_share = Empty /\ blib_conf = NoConf
  /\ dist_dir = Empty /\ ConfigData = NoConf
  /\ installing = FALSE /\ copying = FALSE /\ torn = FALSE

-----------------------------------------------------------------------------
(* perl Build.PL; ./Build clean, with blib/ on the cleanup list once       *)
(* anything was copied to it.                                              *)
Configures == (\E v \in Flavours : BuildPL(v)) /\ UNCHANGED site
Cleans ==
  /\ Clean
  /\ UNCHANGED blib \/ (blib_share' = Empty /\ blib_conf' = NoConf)
  /\ UNCHANGED <<installed, installing, copying, torn>>

Builds == Build /\ UNCHANGED site

(* ACTION_install removes the installed share directory and makes it anew, *)
(* then calls Module::Build's install, which first depends on the build.   *)
Install ==
  /\ Build
  /\ dist_dir' = Empty
  /\ torn' = TRUE /\ installing' = TRUE
  /\ UNCHANGED <<blib, ConfigData, copying>>

(* What a process does before the marker is there; it may die of it.       *)
Works ==
  /\ pc # "super" /\ Step
  /\ installing' = (installing /\ pc' # "idle")
  /\ UNCHANGED <<blib, installed, copying, torn>>

Dies ==
  /\ Killed
  /\ installing' = FALSE /\ copying' = FALSE
  /\ UNCHANGED <<blib, installed, torn>>

(* Another release, or this one again, is unpacked in a directory of its   *)
(* own.                                                                    *)
NewDirectory ==
  /\ pc = "idle" /\ Upset
  /\ build_done' = FALSE
  /\ url' = [l \in Lib |-> "undef"] /\ sha1' = [l \in Lib |-> "undef"]
  /\ patch_notes' = {} /\ devel' = FALSE
  /\ download' = [f \in FileName |-> NoFile]
  /\ tree' = [l \in Lib |-> Absent] /\ raw' = [l \in Lib |-> "none"]
  /\ share' = Empty
  /\ conf_done' = {} /\ conf_libs' = {} /\ conf_subdir' = "none" /\ conf_config' = {}
  /\ blib_share' = Empty /\ blib_conf' = NoConf
  /\ UNCHANGED <<installed, pc, locals, installing, copying, torn>>

-----------------------------------------------------------------------------
(* Module::Build's ACTION_code: the share directories are added to blib/,  *)
(* file by file, then ConfigData is written there.                         *)
BlibShare ==
  /\ pc = "super" /\ ~copying
  /\ CopiedTo(blib_share, share)
  /\ UNCHANGED <<vars, blib_conf, installed, installing, copying, torn>>

(* Seeded bug: every ./Build goes on to install.                           *)
BugAlwaysInstalls == copying' = TRUE /\ UNCHANGED vars

(* Without an installation to go on with the process is through.           *)
EndsOrCopies ==
  \/ installing /\ copying' = TRUE /\ UNCHANGED vars
  \/ ~installing /\ copying' = FALSE /\ Super

(* Seeded bug: ConfigData does not wait for the share directories.         *)
BugConfFirst ==
  /\ pc = "super" /\ ~copying
  /\ blib_conf' = [subdir |-> conf_subdir, libs |-> conf_config]
  /\ EndsOrCopies
  /\ UNCHANGED <<blib_share, installed, installing, torn>>

BlibConf ==
  /\ pc = "super" /\ ~copying /\ Within(share, blib_share)
  /\ blib_conf' = [subdir |-> conf_subdir, libs |-> conf_config]
  /\ EndsOrCopies
  /\ UNCHANGED <<blib_share, installed, installing, torn>>

(* ExtUtils::Install copies the files of blib/ one by one, in an order of  *)
(* its own.                                                                *)
CopyShare ==
  /\ copying
  /\ CopiedTo(dist_dir, blib_share)
  /\ UNCHANGED <<vars, blib, ConfigData, installing, copying, torn>>

CopyConf ==
  /\ copying
  /\ ConfigData # blib_conf
  /\ ConfigData' = blib_conf
  /\ UNCHANGED <<vars, blib, dist_dir, installing, copying, torn>>

(* Seeded bug: the share directory is removed after the installation.      *)
BugRemovesTooLate ==
  /\ copying
  /\ ConfigData = blib_conf /\ Within(blib_share, dist_dir)
  /\ Super
  /\ dist_dir' = Empty
  /\ installing' = FALSE /\ copying' = FALSE /\ torn' = FALSE
  /\ UNCHANGED <<blib, ConfigData>>

Installed ==
  /\ copying
  /\ ConfigData = blib_conf /\ Within(blib_share, dist_dir)
  /\ Super
  /\ installing' = FALSE /\ copying' = FALSE /\ torn' = FALSE
  /\ UNCHANGED <<blib, installed>>

InstallNext ==
  \/ Configures \/ Cleans \/ NewDirectory
  \/ Builds \/ Install \/ Works \/ Dies
  \/ BlibShare \/ BlibConf \/ CopyShare \/ CopyConf \/ Installed

InstallSpec == InstallInit /\ [][InstallNext]_<<vars, site>>

-----------------------------------------------------------------------------
(* Alien::IUP as a client sees it.  config('PREFIX') is undefined until a  *)
(* build was installed.                                                    *)
Prefix == ConfigData.subdir
havelib(l) == l \in ConfigData.libs

InstallTypeOK ==
  /\ blib_share \in Shares /\ dist_dir \in Shares
  /\ blib_conf \in Conf /\ ConfigData \in Conf
  /\ {installing, copying, torn} \subseteq BOOLEAN
  /\ copying => pc = "super" /\ installing
  /\ installing => torn /\ pc # "idle"

Usable ==
  Prefix # "none" => /\ \A l \in Target : havelib(l) => l \in dist_dir[Prefix]
                     /\ \A l \in Essential : havelib(l)

(* Between installations, and as long as none was cut short, every library *)
(* havelib admits to is in the directory config('PREFIX') names, and the   *)
(* essential ones are among them, whatever was configured, built, cleaned  *)
(* or killed in the build directory meanwhile, and over upgrades.          *)
InstalledIsUsable == ~torn => Usable

(* What ./Build install copies from blib/ is a whole build: no build       *)
(* that failed, died or started over shows in it.                          *)
BlibIsWhole ==
  copying => /\ blib_conf.subdir \in Subdir
             /\ blib_conf.libs \subseteq blib_share[blib_conf.subdir]
             /\ Essential \subseteq blib_conf.libs
=============================================================================
