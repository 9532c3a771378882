------------------------------ MODULE ImFormat ------------------------------
(***************************************************************************)
(* The file formats of IM (im_format.cpp, im_format_all.cpp) and how       *)
(* imFileOpen finds the one of a file: the list of registered formats, the *)
(* search that asks the driver of each one to open the file, and what the  *)
(* Open functions of the drivers (im_format_*.cpp) answer.  A file is      *)
(* known by its kind, the kind by its traits: whether it exists, whether   *)
(* it is empty, the formats whose extensions it has (ext), whose signature *)
(* it bears (bears) and whose signature it is too short for (short).       *)
(* The I/O module behind the drivers is the system's or that of memory     *)
(* files: only the latter calls a read that meets the end an error.        *)
(***************************************************************************)
EXTENDS Integers, Sequences, FiniteSets

CONSTANTS
  Internal,      \* the internal formats, in the order of imFormatRegisterInternal
  Plugin,        \* formats of the program, each registered at most once
  Tiff,          \* formats whose driver opens the file with libtiff
  Lenient,       \* formats whose driver tests the number of bytes read (JPEG, PNG, GIF)
  Traits,        \* what the formats find in each kind of file
  MaxFormats,    \* the length of iFormatList
  MaxOpen,       \* files open at a time
  MaxLost        \* handles lost before the program stops opening files

Format == {Internal[i] : i \in DOMAIN Internal} \cup Plugin
NoFormat == "none"
Kind == DOMAIN Traits

(* HOLLOW is NONE although the driver has closed its handle.               *)
Answer == {"NONE", "HOLLOW", "FORMAT", "OPEN", "ACCESS", "COMPRESS"}

ASSUME FormatAssumption ==
  /\ Internal \in Seq(Format) /\ Internal # <<>>
  /\ Tiff \subseteq Format /\ Lenient \subseteq Format /\ NoFormat \notin Format
ASSUME KindAssumption ==
  \A k \in Kind : /\ {Traits[k].exists, Traits[k].empty} \subseteq BOOLEAN
                 /\ {Traits[k].ext, Traits[k].bears, Traits[k].short} \subseteq SUBSET Format
                 /\ Traits[k].flaws \subseteq Answer \ {"OPEN"}
ASSUME PluginAssumption ==
  /\ IsFiniteSet(Plugin) /\ MaxFormats \in Nat
  /\ Cardinality(Plugin) + 2 * Len(Internal) <= MaxFormats

VARIABLES
  memory,      \* the I/O module is that of memory files
  list,        \* iFormatList, iFormatCount long
  registered,  \* iFormatRegistredAll
  call,        \* the search under way, or Idle
  last,        \* how the search that just ended did, or NoSearch
  open,        \* the open files
  handles,     \* binary files the drivers hold open
  objects,     \* objects of drivers (imFileFormatBase) not yet deleted
  lost,        \* handles no object knows any more
  crashed

registry == <<list, registered>>
files == <<open, handles, objects, lost>>
vars == <<memory, registry, call, last, files, crashed>>

Idle == [phase |-> "idle"]
NoSearch == [error |-> "never"]

Members(s) == {s[i] : i \in DOMAIN s}

-----------------------------------------------------------------------------
Init ==
  /\ memory \in BOOLEAN
  /\ list = <<>> /\ registered = FALSE
  /\ call = Idle /\ last = NoSearch
  /\ open = {} /\ handles = 0 /\ objects = 0 /\ lost = 0
  /\ crashed = FALSE

(* The program calls something: no search is under way.                    *)
Calls == call = Idle /\ ~crashed /\ last' = NoSearch

imFormatRegister(f) ==
  /\ Calls /\ f \notin Members(list)
  /\ list' = Append(list, f)
  /\ UNCHANGED <<memory, registered, call, files, crashed>>

(* Called by the program, once: this is not remembered, and the next       *)
(* access to a format registers all the internal ones again.               *)
imFormatRegisterInternal ==
  /\ Calls /\ Internal[1] \notin Members(list)
  /\ list' = list \o Internal
  /\ UNCHANGED <<memory, registered, call, files, crashed>>

(* Every access to a format starts with this.                              *)
Access ==
  /\ registered' = TRUE
  /\ list' = IF registered THEN list ELSE list \o Internal

(* Seeded bug: the flag is reset and the formats stay in the list.         *)
BugFormatRemoveAll ==
  /\ Calls /\ open = {}
  /\ registered' = FALSE
  /\ UNCHANGED <<memory, list, call, files, crashed>>

(* Only while no file is open: an open file keeps a pointer to its format. *)
imFormatRemoveAll ==
  /\ Calls /\ open = {}
  /\ list' = <<>> /\ registered' = FALSE
  /\ UNCHANGED <<memory, call, files, crashed>>

(* imBinFileSetCurrentModule                                               *)
OtherModule ==
  /\ Calls
  /\ memory' = ~memory
  /\ UNCHANGED <<registry, call, files, crashed>>

-----------------------------------------------------------------------------
(* What the driver of f may answer when the file ends within its signature *)
(* A driver that is told of no error compares bytes it never read.         *)
ShortAnswers(f, k) ==
  LET told == IF f \in Lenient THEN Traits[k].empty ELSE memory
  IN CASE f \in Tiff -> {"FORMAT"}
       [] f \notin Tiff /\ told -> {"ACCESS"}
       [] f \notin Tiff /\ ~told -> {"FORMAT", "NONE"}

(* What it may answer to Open.  flaws are other answers a file may get     *)
(* that is damaged behind its signature.                                   *)
Answers(f, k) ==
  IF ~Traits[k].exists THEN IF f \in Tiff THEN {"FORMAT"} ELSE {"OPEN"}
  ELSE IF f \in Traits[k].short THEN ShortAnswers(f, k)
  ELSE IF f \in Traits[k].bears THEN {"NONE"} \cup Traits[k].flaws
  ELSE {"FORMAT"}

(* Seeded bug: a driver that fails leaves its handle open.                 *)
BugAttempt(f, k, answer) ==
  /\ answer \in Answers(f, k)
  /\ handles' = IF answer \in {"HOLLOW", "OPEN"} THEN handles ELSE handles + 1
  /\ lost' = IF f \in Tiff /\ answer = "COMPRESS" THEN lost + 1 ELSE lost
  /\ IF answer \in {"NONE", "HOLLOW"}
     THEN /\ open' = open \cup {[kind |-> k, format |-> f, hollow |-> answer = "HOLLOW"]}
          /\ objects' = objects + 1
     ELSE UNCHANGED <<open, objects>>

(* One attempt: an object of the driver is created and opens the file;     *)
(* unless that works the driver closes its handle, but for TIFF with a     *)
(* compression it does not know, and the object is deleted.                *)
Attempt(f, k, answer) ==
  /\ answer \in Answers(f, k)
  /\ handles' = IF answer = "NONE" \/ (f \in Tiff /\ answer = "COMPRESS")
                THEN handles + 1 ELSE handles
  /\ lost' = IF f \in Tiff /\ answer = "COMPRESS" THEN lost + 1 ELSE lost
  /\ IF answer \in {"NONE", "HOLLOW"}
     THEN /\ open' = open \cup {[kind |-> k, format |-> f, hollow |-> answer = "HOLLOW"]}
          /\ objects' = objects + 1
     ELSE UNCHANGED <<open, objects>>

Ends(answer, f) ==
  /\ call' = Idle
  /\ last' = [error |-> answer, kind |-> call.kind, format |-> f]

(* The program opens or creates a file that is not open.                   *)
Opens(k) ==
  /\ Calls
  /\ Cardinality(open) < MaxOpen /\ lost < MaxLost
  /\ \A o \in open : o.kind # k
  /\ Access

-----------------------------------------------------------------------------
(* imFileFormatBaseOpen: the formats whose extensions include that of the  *)
(* file are tried first and marked, then all those not marked.  FORMAT     *)
(* goes on with the next one, any other answer ends the search.            *)
imFileOpen(k) ==
  /\ Opens(k)
  /\ call' = [phase |-> "ext", i |-> 1, kind |-> k, mark |-> {}]
  /\ UNCHANGED <<memory, files, crashed>>

Wanted(i) ==
  IF call.phase = "ext" THEN list[i] \in Traits[call.kind].ext ELSE i \notin call.mark

Skip ==
  /\ call # Idle /\ call.i <= Len(list) /\ ~Wanted(call.i)
  /\ call' = [call EXCEPT !.i = @ + 1]
  /\ UNCHANGED <<memory, registry, last, files, crashed>>

Try ==
  /\ call # Idle /\ call.i <= Len(list) /\ Wanted(call.i)
  /\ \E answer \in Answer :
       /\ Attempt(list[call.i], call.kind, answer)
       /\ \/ /\ answer = "FORMAT"
             /\ call' = [call EXCEPT !.i = @ + 1, !.mark = @ \cup {call.i}]
             /\ UNCHANGED last
          \/ answer # "FORMAT" /\ Ends(answer, list[call.i])
  /\ UNCHANGED <<memory, registry, crashed>>

(* Seeded bug: the second pass goes on where the first one was.            *)
BugSecondPass ==
  /\ call # Idle /\ call.phase = "ext" /\ call.i > Len(list)
  /\ call' = [call EXCEPT !.phase = "rest"]
  /\ UNCHANGED <<memory, registry, last, files, crashed>>

SecondPass ==
  /\ call # Idle /\ call.phase = "ext" /\ call.i > Len(list)
  /\ call' = [call EXCEPT !.phase = "rest", !.i = 1]
  /\ UNCHANGED <<memory, registry, last, files, crashed>>

NoneLeft ==
  /\ call # Idle /\ call.phase = "rest" /\ call.i > Len(list)
  /\ Ends("FORMAT", NoFormat)
  /\ UNCHANGED <<memory, registry, files, crashed>>

-----------------------------------------------------------------------------
(* imFileFormatBaseOpenAs: whether the format was found is not tested, and *)
(* the null pointer is used.                                               *)
imFileOpenAs(k, f) ==
  /\ Opens(k)
  /\ \/ f \in Members(list') /\ (\E answer \in Answer : Attempt(f, k, answer)) /\ UNCHANGED crashed
     \/ f \notin Members(list') /\ crashed' = TRUE /\ UNCHANGED files
  /\ UNCHANGED <<memory, call>>

(* imFileFormatBaseNew: an unknown format is refused; creating the file    *)
(* may fail.                                                               *)
imFileNew(k, f) ==
  /\ Opens(k)
  /\ \/ UNCHANGED <<open, handles, objects>>
     \/ /\ f \in Members(list')
        /\ open' = open \cup {[kind |-> k, format |-> f, hollow |-> FALSE]}
        /\ handles' = handles + 1 /\ objects' = objects + 1
  /\ UNCHANGED <<memory, call, lost, crashed>>

(* Seeded bug: the handle is counted down whether it is open or not.       *)
BugFileClose(o) ==
  /\ Calls /\ o \in open
  /\ open' = open \ {o} /\ objects' = objects - 1
  /\ handles' = handles - 1
  /\ UNCHANGED <<memory, registry, call, lost, crashed>>

(* The driver closes its handle, also one it has closed before.            *)
imFileClose(o) ==
  /\ Calls /\ o \in open
  /\ open' = open \ {o} /\ objects' = objects - 1
  /\ handles' = IF o.hollow THEN handles ELSE handles - 1
  /\ crashed' = o.hollow
  /\ UNCHANGED <<memory, registry, call, lost>>

Program ==
  \/ imFormatRegisterInternal \/ imFormatRemoveAll \/ OtherModule
  \/ \E f \in Plugin : imFormatRegister(f)
  \/ \E k \in Kind : imFileOpen(k) \/ \E f \in Format : imFileOpenAs(k, f) \/ imFileNew(k, f)
  \/ \E o \in open : imFileClose(o)

Search == Skip \/ Try \/ SecondPass \/ NoneLeft

Next == Search \/ Program

Spec == Init /\ [][Next]_vars

-----------------------------------------------------------------------------
OpenFile == [kind: Kind, format: Format, hollow: BOOLEAN]

(* Types; a search stays within the list.                                  *)
TypeOK ==
  /\ {memory, registered, crashed} \subseteq BOOLEAN
  /\ list \in Seq(Format)
  /\ call # Idle => /\ call \in [phase: {"ext", "rest"}, i: Nat \ {0}, kind: Kind, mark: SUBSET Nat]
                    /\ call.i <= Len(list) + 1 /\ call.mark \subseteq DOMAIN list
  /\ last # NoSearch =>
       last \in [error: Answer, kind: Kind, format: Format \cup {NoFormat}]
  /\ open \in SUBSET OpenFile
  /\ {handles, objects, lost} \subseteq Nat

(* f certainly opens a file of kind k; it would be asked before g.         *)
SurelyOpens(f, k) ==
  Traits[k].exists /\ f \in Traits[k].bears \ Traits[k].short /\ Traits[k].flaws = {}
Earlier(f, g, k) ==
  IF f \in Traits[k].ext <=> g \in Traits[k].ext
  THEN \E i \in DOMAIN list : list[i] = f /\ \A j \in 1 .. i : list[j] # g
  ELSE f \in Traits[k].ext

(* A search finds the format of a file if there is one, and it is the      *)
(* first of those with the file's extension, or, if none of them reads it, *)
(* the first of all in the order of registration, although internal        *)
(* formats may be twice in the list.  im.h:264-265 promises more: of two   *)
(* drivers that handle a format "the first registered format will always   *)
(* be used first"; the code lets a later one with the extension go before  *)
(* it, so a program cannot put its driver in front by registering it.  The *)
(* search gives up early only for an error of the file or, in a memory     *)
(* file, at a signature longer than the file (im_format.cpp:205).          *)
SearchEndsRight ==
  last # NoSearch =>
    LET k == last.kind
    IN /\ last.error \in {"NONE", "HOLLOW"} =>
            /\ last.format \in Traits[k].bears \cup Traits[k].short
            /\ \A g \in Members(list) : SurelyOpens(g, k) => ~Earlier(g, last.format, k)
       /\ last.error = "FORMAT" => \A g \in Members(list) : ~SurelyOpens(g, k)
       /\ last.error = "OPEN" => ~Traits[k].exists
       /\ last.error \in {"ACCESS", "COMPRESS"} =>
            last.error \in Traits[k].flaws \/ (Traits[k].short # {} /\ (memory \/ Traits[k].empty))

(* Between calls every driver object belongs to an open file, and every    *)
(* handle too, but for those the TIFF driver leaves behind when it does    *)
(* not know the compression; a file whose handle is already closed, as     *)
(* GIF's without an image, is open nevertheless.                           *)
NothingLeftBehind ==
  call = Idle =>
    /\ objects = Cardinality(open)
    /\ handles = Cardinality({o \in open : ~o.hollow}) + lost

(* The list, which nobody checks for its length, is long enough even if    *)
(* the internal formats are in it twice (im_format.cpp:35).                *)
ListFits == Len(list) <= MaxFormats
=============================================================================
