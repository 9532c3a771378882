# Verification of alien-iup

alien-iup is the Perl distribution `Alien::IUP`. It downloads, patches, compiles
and installs the C libraries IUP, IM and CD with some libraries they need, and
tells other Perl modules where they are. The repository also holds, under
`download/im`, the sources of IM, the imaging toolkit, with the third-party
libraries IM bundles. This directory holds TLA+ models of both, TLC
configurations that check them and proofs checked by TLAPS.

Paths below are relative to the repository's root; `im/` stands for
`download/im/`.

## 1. Inventory

### The build and installation (Perl)

| Component | State | Operations | Hard behaviours | What makes it correct |
|---|---|---|---|---|
| Build procedure: `Build.PL`, `inc/My/Builder.pm` | on disk: marker `build_done`, the notes and config data of Module::Build, `download/`, `build_src/`, `sharedir/<version>/`; in the process: where it is, `%done`, `$success` | `perl Build.PL [--cvs]`, `./Build`, `./Build clean` | a process may die (`die`, Ctrl-C) at every step; the next starts from what is on disk; downloads are damaged; make targets fail one by one; the notes of a release and of a development build mix | the marker stands for a whole build; what is compiled is what was verified and patched; a repeated build gets somewhere |
| Platform builders: `inc/My/Builder/{Unix,Windows,Cygwin}.pm` | config data on what was detected and made | `build_binaries`, `build_via_tecmake`, `get_make` | partial failure of make | the success reported is that of all targets wanted |
| Installation: `ACTION_install`, Module::Build, ExtUtils::Install | `blib/`, installed `share/dist/Alien-IUP`, installed `ConfigData` | `./Build install` | copying is not atomic; old version underneath | a client finds what the configuration names |
| `lib/Alien/IUP.pm` | none of its own | `config`, `havelib` | reads what two files written separately say | the same |
| `_internals/`, `patches/`, `t/` | none | maintainer's scripts, patch files, tests | - | - |

They interact through the disk only: Build.PL writes notes and the script
`./Build`; that writes `sharedir/` and config data and copies them to `blib/`;
`./Build install` copies `blib/` to the Perl library tree; `Alien::IUP` reads it.

### IM (C++)

| Component | State | Operations | Hard behaviours | What makes it correct |
|---|---|---|---|---|
| Binary files, `im/src/im_binfile.cpp` | per handle: block, sizes, position, error; per process: list of modules, the current one | open, new, close, read, write, three seeks | memory files grow by `realloc`, share a structure with the user; unsigned sizes; sub files share a position | positions stay in the block; every module behaves as a file |
| Progress counters, `im_counter.cpp`, `process/im_process_counter.cpp` | a fixed list of ten counters, the callback | begin, end, total, inc, inc-to, user data | several holders share a counter and end in any order; aborts; callback set and unset; OpenMP locks kept in the shared counter | a held counter is not released; callbacks are bracketed; each holder's progress is its own |
| Parallel loops of `process/` | the flag of a loop, the lock, memory the threads share | begin, one iteration, count a line, end | threads interleave between computing, storing, counting and looking at the flag | counts are told in order; the answer is true; few calls after an abort; it ends |
| File access, `im_file.cpp` | the open image, the information of the last image read, palette, attributes | open, new, read and write information and data | cached information after failures; repeated reads | what is returned belongs to the image asked for |
| Formats, `im_format.cpp`, `im_format_all.cpp`, the Open functions of `im_format_*.cpp` | the list of formats; handles and objects of drivers | register, remove all, search, open as, new, close | two passes with marks; internal formats registered twice; drivers that fail half way | the right format is found; nothing is left behind |
| Attribute table, `im_attrib.cpp` | chained hash table and its count | set, unset, get, iterate, copy, merge | loops that stop by a cached count while callbacks write elsewhere | it is a map |
| Line buffer and codings, `im_filebuffer.cpp`, PCX, RAS, TGA, SGI and BMP drivers | conversion settings of a file, the bytes written | line by line layout, packing, run-length coding, both ways | planes, alpha, orientation, alignment, counts at the limit of a byte, aborts | reading undoes writing |
| Regions, `process/im_analyze.cpp` | label image, table of aliases | find regions, fill holes, remove by area | numbers that turn out to be one region in any order; borders; table at its limit | one number for each region |
| Images, palettes, conversions | images in memory | create, convert | floating point | - |
| Processing library, `process/` | none between calls | operations on images | nested operations, abort, OpenMP | counters are returned |
| Lua binding, legacy interface, DIB, capture | - | forward to the above | - | - |
| libtiff, libpng, libjpeg, libjasper, libexif, FFTW, LZF, LZO | vendored | - | - | - |

Files call binary files for bytes, the line buffer for conversion, the attribute
table for attributes and the counters for progress; the processing library calls
the counters, which call back into the application, whose answer aborts the
operation. The search for a format calls the Open function of one driver after
the other, and the driver opens its handle with a binary file module.

## 2. Modules

| Module | Models | Composition |
|---|---|---|
| `FinishedBuild` | abstract: what a build directory promises an installation | used by `Builder` (refinement) |
| `Builder` | Build.PL, ACTION_code, fetching, unpacking, patching, making, clean, kills | implements `FinishedBuild` |
| `AlienInstall` | blib, installation, client | extends `Builder`: its processes go on to blib and the installation |
| `ByteFile` | abstract: an open file of bytes | used by `ImBinMemoryFile` |
| `ImBinMemoryFile` | IM's memory files | implements `ByteFile` |
| `ImCounter` | IM's progress counters, plain and OpenMP, and who holds them | - |
| `ImProcess` | the threads of one operation of the processing library | refines in detail the step `imCounterInc` of `ImCounter` |
| `ImFile` | reading images from a file through the TIFF driver | - |
| `ImFormat` | the list of formats, the search, what drivers leave behind | - |
| `AttribMap` | abstract: tables are maps | used by `ImAttrib` |
| `ImAttrib` | hash tables and arrays of attributes, with their loops | implements `AttribMap` |
| `RunLength` | the five run-length codings, as pure operators | used by `ImImageData` |
| `ImImageData` | an image on its way to a file and back | composes `RunLength` with the line buffer and the drivers' loops |
| `ImRegions` | imAnalyzeFindRegions and two operations that use it | - |
| `MC*` | instances for TLC | - |
| `*Proofs` | theorems and their proofs | extend the module they are about; `ImDataProofs` those of `ImBinMemoryFile` and `ImImageData` |

Definitions whose name begins with `Bug` are seeded errors: replacing the
definition after them by one of them makes a property fail.

### Builder

State. `build_done` is the marker file; `url`, `sha1`, `patch_notes` and `devel`
are the notes; `download` maps file names to what lies in `download/`; `tree[l]` is
`build_src/<l>` with the version it came from, whether it is whole, and how many
patches are on it; `raw[l]` is an unpacked GitHub archive under its own name;
`share` is `sharedir/<subdir>/lib`; `conf_*` are entries of the config data.
`pc`, `li`, `subdir`, `archive`, `kept`, `opengl`, `done` and
`success` are the running process; they are forgotten when it ends, and one
process runs at a time.

Actions follow the code's order: `BuildPL` (unlink the marker); the first time
`FirstNotes`, since Module::Build keeps notes in memory until
`create_build_script` has made `_build/`, and afterwards one action for each
note, which is on disk as soon as it is set: `ReleaseUrl`, `ReleaseSha1` and
`ReleasePatches` for one library after the other, or `CvsUrl` and `CvsSha1` and
at last `CvsDevel`; `Build` (marker test, name of the share directory);
for every library `Keep` or `Replace`, `Rmtree`, `FetchLocal`, `FetchRemote` or
`FetchFails`, `Archive` (prepare_sources renames archives without an extension),
`Extract` or `ExtractFails`, `Patch` for each patch file, `Patched`; `Github`;
`NoGui` or `Gui`, `Make` for every library, `Made`, `Collect`; `BuildFailed` or
`StoreSubdir`, `StoreConfig`, `Mark`, `Super`. `Clean` and `CleanRest` are
`./Build clean`. A step ends where a process that is killed leaves something
different on disk; `Killed` ends the process between steps, and inside a
removal, download, extraction or patch leaves half of it. Names are abstracted
to the library and `rel` or `cvs`: what counts is that the three development
archives share the name `master` and that their unpacked directories have other
names than `build_src/<lib>`. A checksum is equality with the archive of the
notes; a download may be damaged; every make target may fail. `calm` belongs to
the environment: it may come true at any time a configured build is idle whose notes agree
(`NotesAgree`), and from then on nobody kills, cleans or configures, and the machine has a GUI
system, unpacks sound archives and makes every target.

A Build.PL killed among its notes leaves a mixture, which the properties name
where it matters: between the address and the checksum of a library
(`Build.PL:90` and 91 over a release) every later `./Build` dies at the checksum
until Build.PL is run again, so `BuildsEventually` asks for notes that agree;
the other way round (107 and 108 over a development configuration) the release's
archive is unpacked with DO_NOT_CHECK_SHA1, so `UnpackedIsVerified` speaks of
libraries that have a checksum. Killed before `is_devel_cvs_version` is noted, the
development sources go to the share directory of the release. The writing of one
note, a file of Module::Build, is taken as one step.

Left out: the branch that uses an IUP already on the system
(`check_installed_lib` returns at once in the source), the questions about
verbosity, include files (they are copied with the libraries) and compiler
flags.

### AlienInstall

The processes are those of `Builder`, step by step (`Configures`, `Cleans`,
`Builds`, `Works`, `Dies` are its actions with what they do to the rest), in one
directory after the other (`NewDirectory`). `Install` starts `./Build install`:
the removal in ACTION_install, then the build it depends on. Where `Builder` is
behind SUPER::ACTION_code (`pc` is "super") the process goes on here: `BlibShare`
copies one file to blib/, `BlibConf` writes ConfigData there when all are
copied and ends the process, or lets an installation go on with `CopyShare` and
`CopyConf`, one file at a time in any order, until `Installed`. `Dies` may come
between any two of these. `torn` remembers that the last installation did not
finish; the property exempts this, since ACTION_install removes the installed
files before the build it depends on (`inc/My/Builder.pm:28`), so that a failing
build leaves a ConfigData without files. ExtUtils::Install only adds and
replaces files, so old ones stay unless ACTION_install removed them. `./Build
clean` may or may not take blib/ along.

### ImBinMemoryFile

The block is a function from positions to cells, `Junk` where nobody wrote.
`buffer` and `name_size` are the user's structure, the other variables the
handle's fields. `WriteBuf` is split as the code branches: it fits, it grows, it
is cut short because `realloc` fails or growing is off, or it never returns
because the growing loop adds nothing. `malloc` and `realloc` give up at
`HeapLimit`. ByteFile's file may do less than asked only where it says so.

### ImCounter

`iCounterList` and `iCounterFunc` are the static variables of the source.
`opened` and `counter` are the files and the counter each holds from open to
close; `running` is the call stack of operations, each with the counter it
began, and its own loop, which is independent of the counter so that the two
can be compared. An operation that began its own counter is `own`; reading or
writing a file's data uses the file's. A process with an OpenMP build of the
processing library (`OMP`) has both kinds of operations, those of the core
library without a lock and those with one (`omp`); an operation calls operations
of its own library. `note` is what the last step told the
callback, `shown` which sequences the application believes open. `userdata` is
the lock of an OpenMP operation, named by the depth of the operation
that made it; using a lock that is not there is `Crash`, which does happen:
`imCounterBegin_OMP` overwrites the lock of the outer operation when both share
a counter, and `imCounterEnd_OMP` clears it. `LockIsOwn` says what remains true.
The callback is changed only between operations.
`imCounterEnd` returns without releasing a counter that has no total, so that a
file opened and closed without reading its data keeps its counter for ever: the
model does the same, and holders are therefore compared with `<=`.

### ImProcess

An operation (`op`) is told apart by how its loops are written, the five kinds
that occur in `im/src/process/`: an own part of a buffer for each thread
(`rank`), a loop over planes that does not look at the answer (`resize`), a
pointer or kernel all threads share (`convolve`), a shared line and two loops
(`separable`), one loop over pixels (`point`). Each thread is at one of nine
places (`at`): taking an iteration, computing, storing, waiting for the lock,
reading the counter, adding and calling back, giving the lock back, and, after
an abort, clearing the flag. `scratch` is whose values lie in the shared memory.
An operation on a small image runs in one thread (`parallel`). The properties
exempt what the code really does: convolutions may store values of another line,
and DoUnaryPointColorOp takes the remainder by the width as the line, so that its
number of counts is not the total. `Reduce` and `Resize` answer for their last
plane only: `AnswerIsTrue` states that, and exempts their answer of 1 after an
abort if the callback relents, which contradicts the header (section 4).

### ImFile

State. `pages` is the file on disk; `directory` is where libtiff stands; the
variables of `file` are fields of `imFile`; `out` is what the last call told.
`failed`, `used` and `inherited` record what happened since the image's
information was read, to state what is promised when.

One action per return of `imFileReadImageInfo`: `InfoNoSuchImage`, `InfoCached`,
`InfoNoDirectory`, `InfoFails` (the driver gives up and leaves the fields it has
set) and `InfoRead`; `DataRefused` and `DataRead` for `imFileReadImageData`, which
may fail or be aborted by the counter's callback. A page is one pixel, since
every operation treats pixels one by one, and its flaw is the place where the
driver gives up. What lies behind the palette in the uninitialised array `remap`
is any value. Some drivers read in sequence only; TIFF reads in any order and is
the one modelled. Mistakes of the code that the model reproduces and the
properties exempt:

* after a reading of the information failed, the former image is still remembered
  and told with the fields the failed one left (`failed`);
* the palette belongs to the file, so that a gray image after one with a palette
  is rearranged by it (`inherited`);
* a palette of grays is put in order at the first reading of the data, also a
  failed or aborted one, and the next one does not remap: it returns the index,
  as `DataIsOfImage` says (`used = 2`);
* an image of two or four bits with a palette of grays is spread over the levels
  and then remapped with values outside the palette (`p.bpp \in {2, 4}`);
* `iFileExpandBits` takes as many samples apart as the line has pixels; of a packed
  line of one, two or four bits, which the TIFF driver admits (contiguous planes),
  the rest stays as it was read (`Garbled` in `Raw`, `p.mode.packed`);
* `iConvertType2Byte` scales unsigned shorts from the range of their type and not
  of the image, against `im.h:238` (section 4; `out.bitmap`).

Left out: attributes (with them the transparency map that is remapped with the
palette), tiles, alpha, top-down order, types other than bytes and unsigned shorts,
and writing (see `ImImageData`).

### ImFormat

`list` is `iFormatList`, `registered` the flag `iFormatRegistredAll`. A format that
is in the list twice counts where it is first. A search is one action per format: `Skip` or `Try`, `SecondPass` between the two passes,
`NoneLeft` at the end; the marks are part of `call`. Formats with the file's
extension go first: `SearchEndsRight` states this order, which is not the one
`im.h:264` promises (section 4). What a driver answers
depends on the traits of the kind of file and on the I/O module: a file that ends
inside a signature is "not mine" for some drivers, an access error for others,
and with the system's module may be anything, since drivers compare bytes they
never read (`ShortAnswers`). `handles`, `objects` and `lost` count what is left.
`imFileOpenAs` with an unknown format uses a null pointer (`crashed`), and closing
a GIF whose handle is closed already closes it twice. Removing all formats while
a file is open is not modelled: the file keeps a pointer into what is deleted.

### AttribMap and ImAttrib

`chain[t][i]` is the list at a hash table's entry `i`, `count` the cached number
of nodes. Setting, unsetting and getting are one step. RemoveAll, Destroy and
every form of ForEach (a user's callback, CopyFrom, MergeFrom, the array's copy)
are loops of one step per node that end when `count` nodes were met or at the
last chain, as in the source. Under the refinement a loop takes effect on the map
when it ends: until then the map of the table written to is what it was before
(`loop.before`). An array copy counts calls and not places; `FullArrayCopied`
says when that makes no difference (with holes it does, section 4). A table is not copied onto itself: the
callback would delete the node the loop stands at.

### RunLength and ImImageData

`RunLength` has for each of PCX, Sun Raster, Targa, SGI and BMP what one code of
the encoder takes and gives (`PCXPacket` and its siblings), the encoder that
repeats it (`EncodeFrom`) and the decoder over the bytes of a file (`DecodeFrom`),
both recursive functions: of the places of the line, and of those of the file with
the bytes already made. `ImImageData` composes them with the layouts: memory of any combination of
alpha, packing and orientation (`FillLine`, `FillMemory`), the padding and
swapping of each driver (`Raw`, `Unraw`), bits (`Compact`, `Expand`), and the
loops `WriteLine` and `ReadLine` (specification `DataSpec`, of `DataInit` and
`DataNext`, since it is proved about together with the memory file), which the callback may abort after any line.
What the code leaves uninitialised behind a line is junk of two values.
`WriteTrailer` is what three drivers write behind the last line if the callback
did not abort there: the palette of a gray PCX, Targa's extension area, SGI's
tables. Each may fail; of SGI's nobody asks. A gray PCX without its palette cannot
be opened (`OpenFails`), unless a byte of its data is taken for the palette's mark;
Targa's reader does without the extension area. `p.reports` tells files whose
read function reports a short read (memory files, Windows) from those that do not
(`im_sysfile_unix.cpp:94`, streams): of these a reader gets what was in its buffer
(`Unreported`).
Exempted, and mistakes of the code: RAS reads a run of 256 as nothing; SGI's tables
of an aborted file, or of one whose tables could not be written, are memory nobody
filled; an image cut short reads as a success where a short read is not reported;
SGI's coded line of three pixels or less may be longer than its buffer. Not
modelled: what a palette holds, headers, and a last write that is cut short without
an error.

### ImRegions

The image is the set of its white pixels. `label` is the result image, `alias`
the table, `at` the pixel of the scan. `Black`, `Connect` and `Alone` are one
pixel, `Update` renumbers, `Use` is what the caller does. `alias_set` is one
operator: all numbers both chains lead to are led to the least of them, which is
what `alias_getmin` and `alias_setmin` do in two walks. Exempted
(`Trustworthy`): more regions than numbers answers -1 with half a result;
without the border two corners are never compared (`CornerIsLost`): that of a
pixel of the last line or column, which is the border's at once, with what it
touches only by its upper left one, and that of a pixel of the first column, which
is not scanned, with what touches it only by a lower left one (`LostCorner` says when
neither has another way); the pixel at the bottom left keeps what an earlier
result left there (`CornerIsStale`). `CornerIsLost` stands for a mistake of the
code (section 4).

## 3. Runs

| Run | Instance | Question and answer |
|---|---|---|
| `build_release` | libraries iup and im, one patch, an optional OpenGL target, questions asked | Do the marker and the promise to installations survive every failure and kill: yes |
| `build_calm` | iup and ftgl, which only releases have; release and development, no questions | Is anything unpacked that does not have the noted checksum, do sources of one kind end up in a build of the other: no, wherever Build.PL was killed. After any past, does repeating `./Build` succeed: yes, if the notes agree |
| `build_latest` | iup and im, development only | Are a library's sources those of its repository, as Build.PL says: **no** (finding) |
| `install` | one library, its release and a development build, all of Builder's processes | Is what a finished installation leaves usable: yes |
| `memory_file` | two byte values, blocks up to four cells, operations of up to three, factor 1/2 | Does a memory file stay in its block and behave as a file: yes; a write hangs only on a block too small for the factor |
| `counters` | two counters, two files, nesting two, operations of both libraries | Are held counters kept, callbacks bracketed, progress and locks each operation's own: yes, until an operation finds its lock gone |
| `process` | three threads, three lines, two columns, two planes, five kinds of loops | Is every count told once and in order, the answer that of the last loop, an abort followed by few calls, and the operation ended: yes, but for the exceptions `AnswerIsTrue` and `ProgressInOrder` name |
| `file` | two pages out of sixteen kinds, sixteen levels | Are information and data those of the image asked for: yes, with the exceptions `DataIsOfImage` and `InfoIsOfImage` name |
| `format` | four internal formats and a plugin, nine kinds of files, both I/O modules | Is the first format found, those with the extension before the others, nothing left behind, the list long enough: yes, but for what TIFF and GIF leave |
| `attributes` | two of two tables and two arrays alive, three names, two of them in one chain | Are chains and count sound, loops complete, tables maps: yes |
| `image_data` | some thousand images, five drivers, all layouts, files that report their end or not | Does what was written come back, also after aborts and failures behind the last line, and does the coded line fit: yes, with the exceptions `ImageComesBack` and `LineFits` name |
| `regions` | all images of 3x3, 2x5, 1x3 and 3x1, larger ones with a border, combs; six numbers | Does every region get one number, are holes filled and regions removed rightly: yes, with the exceptions `Trustworthy` names |

The bounds. Two libraries are enough for the build: its loop treats them one
after the other, and properties relate one library to itself or two of them (the
shared file name, `Github`). One patch on one of them and none on the other
give both kinds; killed patching of several is not more than one, half done.
`MinLibs` stands for the number 3 in Unix.pm. For the counters two of the ten
suffice to have one busy, one shared and none left; `MaxSequence` bounds how
deep one counter may be shared, `MaxDepth` the call stack. Four cells let a
memory file start at every size up to the growing loop's second turn.
Two pages let one leave something behind for the other; sixteen levels are the
least for which two bits are spread (by five), and four bits are bytes.
Three threads let two wait for the lock while the third aborts; two columns and
three lines make the remainder by the width differ from the line. Nine formats
hold the internal ones twice and the plugin (`MaxFormats`; 50 in the code, of
which the internal ones are 14). `MaxOpen` and `MaxLost` bound open files and lost
handles. Three names give chains of two and one; `MaxAlive` keeps two objects at
a time, the most an operation relates. Long lines stop just after the counts of
the codings (63, 126 to 128, 255, 256). Six numbers (`MAX_COUNT`, 65536 in the code) are
exhausted by four regions, and suffice for chains of three aliases, which the combs
make.

Fairness is used in two runs. `CalmSpec` says: the process runs on
(`WF_vars(Step)`: it is a sequential program and make terminates); the user
repeats `./Build` (`WF_vars(Build)`); the download of a library does not fail or
come damaged every time (`SF_vars(FetchGood(l))`, the environment's choice). Once
`calm`, the machine has a GUI system, unpacks sound archives and makes every
target. Of what was on disk before only this is assumed, that no library has the
address of one kind and the checksum of the other (`NotesAgree`): then Build.PL has to
be run again. In `ImProcess` every
thread of the team runs on (`WF_vars(Step(t))`, which OpenMP's barrier relies on
as well) and so does the loop over planes; that the callback returns is part of
`Count`, and a thread waiting for the lock gets it since each holder gives it back
and the iterations are finite.

`CHECK_DEADLOCK FALSE` is set where the system may stop: a memory file whose
write hung, a process that crashed, a function that has returned.

## 4. Findings

* `build_latest`: `fetch_file` uses a leftover `download/master` for any of the
  three development archives, although Build.PL promises the latest sources
  (`Build.PL:86`). The run shows a build killed while it had im's archive, and a
  later one that unpacks it for iup.

The following contradict a line of the repository as well; no run of their own is
spent on them, and the property that meets each says so and excepts it.

* `im_process_loc.h:31` and `:44` say of Reduce and Resize "Returns zero if the
  counter aborted." They go on with the next plane (`im_resize.cpp:138`) and return
  the last one's answer: aborted in one plane and content in the next, they answer 1
  (`AnswerIsTrue`: an operation of kind `resize` that is not `sticky`).
* `im.h:238` says that "Data type conversion to byte will always scan for min-max
  then scale to 0-255, except integer values that min-max are already between
  0-255." Reading scales by the range of the type (`im_filebuffer.cpp:203`), so
  that an image of unsigned shorts below 256 becomes black (`DataIsOfImage`).
* `im.h:264` says of two drivers that handle the same format that "The first
  registered format will always be used first." A later one goes before it if its
  list of extensions has the file's and the first one's has not
  (`im_format.cpp:199`; `SearchEndsRight`, kind `twice` with JP2 registered first).
* `im_attrib.h:129` says that copying an array "Copies the contents of the given
  table into this table." What is behind a hole moves up by one
  (`im_attrib.cpp:329`; `FullArrayCopied`).
* The corners of the regions: with eight neighbors and without `touch_border`, a region that touches the border only by a
  corner the scan does not compare is counted and numbered, although
  `im_process_ana.h:168` says "Regions touching the border are considered only if
  touch_border=1". Of three by three pixels of which the middle one and the one at
  the bottom left are white, one region is counted; so it is at the bottom right
  (`im_analyze.cpp:156`: the pixel is 1 before its corner is looked at, and the block
  at 196 wants none), and at the first column, which the scan never visits (145 to
  153). The run `regions` comes upon them when `CornerIsLost` is taken out of
  `Trustworthy`. The attempt to prove `RegionsAreRight` showed that of the first column.

Other mistakes, of which no line of the repository says otherwise, are part
of the models and named where a property exempts them (section 2): notes of two
kinds after a killed Build.PL, the installation removed before the build it depends
on, the lock lost on a shared counter, the inherited and the rearranged palette, few
bits in packed lines, shared memory in the convolutions, runs of 256 bytes, SGI's
tables and short lines, a gray PCX aborted at its last line, short reads nobody
reports, the null pointer of `imFileOpenAs`, the handles TIFF and GIF leave.

## 5. Proofs

TLC checks the instances above; the following hold for all values of the
constants that satisfy the assumptions in the modules.

| Theorem | Says | Argument |
|---|---|---|
| `BuilderProofs!MarkerStandsForBuild` | `[]MarkedBuildIsWhole` | `WholeInv`: at every `pc` after making, the config data already stored agree with the share directory and with `done`, and every target done is in it. The marker property alone is not inductive, since the marker is set long after the verdict |
| `BuilderProofs!BuilderImplementsFinishedBuild` | the build refines `FinishedBuild` | initial states map to initial states; every step is a stutter, an `Unfinished` or, for `Mark`, a `Finish`, using `WholeInv` |
| `BuilderProofs!BuilderTypeCorrect` | `[]TypeOK` | types of disk, notes and process, with the bound on patches |
| `BuilderProofs!OnlyVerifiedUnpacked` | `[]UnpackedIsVerified`: of a library with a checksum, whatever its address | `VerifiedInv`: at `archive` and `extract` the file or archive passed `check_sha1sum` under the current notes; `HomeInv`: a file of `download/` is of the kind its name is for, so that of a development address none passes |
| `BuilderProofs!AlwaysMadeFromCleanSources` | `[]MadeFromCleanSources` | `SoundInv`: the libraries behind `li` are settled, the one at `li` is absent while it is fetched and, once unpacked, a whole tree with some of its patches; it needs that no file of `download/`, and no archive about to be unpacked, is of another kind than its name (`HomeInv`), and the checksum (`VerifiedInv`). `MadeFromCleanSources` alone speaks only of the moment of making |
| `BuilderProofs!InstallTypeCorrect`, `!BlibAlwaysWhole`, `!InstallationUsable` | types, `[]BlibIsWhole`, `[]InstalledIsUsable`, of `AlienInstall` with the processes of `Builder` in the build directory | `WholeInv` holds of these processes in whatever an installation does between (`InstallStepsBuild`, `BuildWholeAlways`); `InstallInv`: blib/ is whole when it is installed from, because the marker vouches for what was copied there, and the installation is, unless torn, because blib/ is |
| `ImDataProofs!TypeCorrect`, `!StaysInBlock` | `[]TypeOK`, `[]FileInBlock` | position, current size and block size are ordered, and the user's structure names the block |
| `ImDataProofs!HangsOnlyAtFirst` | `[]HangsOnlyOnFirstSize` | `Grown`: a block that is not of a first size is larger than one from which the factor added at least a byte, so it adds one again |
| `ImDataProofs!MemoryFileIsFile` | `Spec => ImplementsByteFile` | every action, under the invariants above, is one of the file's or a stutter; reallocation keeps the cells up to the file's size |
| `ImCounterProofs!HeldNeverReleased` | `[]HeldIsNotReleased` | `IInv`: types, finitely many open files, and the number of holders of a counter is at most its sequence; every begin adds a holder and one to the sequence, every end removes a holder and at most one |
| `ImCounterProofs!AlwaysBracketed` | `[]Bracketed` | from the same invariant: sequences go from and to zero exactly when -1 and 1001 are told |
| `ImCounterProofs!CounterTypeCorrect`, `!ProgressAlwaysOwn` | `[]TypeOK`, `[]ProgressIsOwn` | `CountInv`: only the innermost operation counts, and if its counter works, the counter stands where the operation's loop does |
| `ImCounterProofs!LockAlwaysOwn` | `[]LockIsOwn` | `LockInv`: the counter of an OpenMP operation holds its lock, that of an operation it called in the same counter, or none; a return leaves none |
| `ImFileProofs!FileTypeCorrect`, `!InfoBelongs`, `!DataBelongs` | `[]TypeOK`, `[]InfoIsOfImage`, `[]DataIsOfImage` | `Inv`: unless a reading failed, the fields are those of image `image_index` and libtiff stands at it (`Agrees`); until its grays are read the palette is the image's own (`Own`), and then it is in order (`Ordered`); before any image brought one it is the initial one (`Plain`). The mode told depends only on the entries of the palette in use, which are the image's own (`ModeOfEntries`) |
| `ImProcessProofs!ProgressAlwaysInOrder` | `[]ProgressInOrder` for any number of threads and any image | `LockInv`: only the holder of the lock is between its two calls, and counts on from what it read. `CountInv`: the calls made, the threads on their way to one (`Owed`) and the lines nobody has taken (`Left`) add up to the lines of the loops begun, or less once a thread has stopped; a thread that takes, counts or passes over a line moves it from one part of the sum to another |
| `ImProcessProofs!AnswerAlwaysTrue` | `[]AnswerIsTrue` | `StoreInv`, the same sum for the results; `AbortInv`: the flag is cleared, or about to be, exactly if the callback aborted this loop, and an abort of an earlier loop is left only to operations that do not look at an answer, so the answer is that of the last loop; `TeamInv`: a thread alone has the shared line to itself. `LastInv` keeps what is said of an operation that ended |
| `ImProcessProofs!AlwaysFewAfterAbort`, `!ProcessTypeCorrect` | `[]FewAfterAbort`, `[]TypeOK` | `LateInv`: every call after the abort is that of a thread that from then on clears the flag or finds it cleared (`Told`), and the thread that was told first is one of them |
| `ImAttribProofs!AttribTypeCorrect`, `!ChainsAlwaysSound`, `!NothingEverLeaks` | `[]TypeOK`, `[]ChainsAreSound`, `[]NothingLeaks` for any names, hash and sizes | `AttribInv`. `TableInv`: chains are sound also within loops, and `count` is the number of nodes and of those a removal has taken away. `RemoveInv`: a removal leaves nothing behind it. So `index == count` means nothing is left. In an array, whose count is its length, one node at a place at most (`ArrayInv`) makes the early exit come only at the last place |
| `ImAttribProofs!VisitAlwaysMeetsAll`, `!FullArrayAlwaysCopied` | `[]VisitMeetsAll`, `[]FullArrayCopied` | `VisitInv`: a visit has met exactly what is before its place (`Met`), as many as it counted; a subset of a finite set with as many members is the set (`AllVisited`). `FullInv`: without holes the call for place i is call i |
| `ImAttribProofs!TablesImplementMap` | `Spec => ImplementsMap` | during a loop the table it acts on counts as what it was before (`MapOf`); `CopyInv` says what a copy or a merge has made of it so far, namely the overlay of what it was and what was met, and `AllVisited` makes that the whole at the end. Every other step of a loop stutters (`LoopGoesOn`) |
| `ImRegionsProofs!ChainsEnd`, `!SetMerges` | what `alias_set` does to a table in which aliases descend | a chain is the least closed set of numbers; induction along a chain is the choice of the least number that fails, which the next in its chain would contradict |
| `ImRegionsProofs!RegionsTypeCorrect` | `[]TypeOK` | aliases descend; every step keeps numbers in range |
| `ImRegionsProofs!RegionsAlwaysRight` | `[]RegionsAreRight` for any images and numbers: regions, holes and areas, with and without the border | `Scanned`: of the pixels known so far (`Known`), neighbors have numbers of one end; pixels with numbers of one end are connected, or at the border if it is 1 (`TouchesEdge`); every number was given to a pixel. The new pixel joins all its neighbors, of which two compared ones suffice (`TwoNeighbors`: the others touch those). Without the border the first pixel of a line is known before the two beside it are joined (`Pending`), and an end of 1 may be reached by way of the pixel at the bottom left, which has no number (`Number`). `Update` gives the other ends their rank, one-to-one and onto the count (`RanksDiffer`, `RanksAreAll`); what `RegionOf` reaches in as many steps as there are white pixels is what is connected (`ReachedIsConnected`: a step that adds nothing is the last, and each of the others adds one) |
| `ImRegionsProofs!NumbersAreComponents` | with the border, after `Update`, two white pixels have one number exactly when they are connected, with no exception | the same invariant; no corner is lost there |
| `ImFormatProofs!FormatTypeCorrect`, `!SearchAlwaysEndsRight`, `!NothingEverLeftBehind`, `!ListAlwaysFits` | `[]TypeOK`, `[]SearchEndsRight`, `[]NothingLeftBehind`, `[]ListFits` for any formats, plugins, files and traits of drivers | `ListInv`: the list holds each plugin once and the internal formats at most twice, so it fits its array. `FileInv`: objects are the open files and handles those that hold one, plus the lost ones. `AskedInv`: every format the search has passed or marked was asked and does not open the file for certain, so no sure one is before the answer |
| `ImDataProofs!LineComes` | each decoder of `RunLength` makes of an encoder's codes the line, for lines of any length, anywhere in a file | `Sound`: each packet of an encoder is codes that take the decoder (`Leads`) from a place and a number of bytes it has to later ones, having made the bytes the packet stands for, or to an error when the file ends within them. Long stretches of SGI are taken chunk by chunk. Then from the end of the line to its start: if there were an element from whose codes on the decoder fails, there would be a last one (`MinIsLeast`), and its packet contradicts that |
| `ImDataProofs!CodeSmall`, `!LinesFit` | a coded line is at most twice as long, and the code of the end; `DataSpec => LineFits` | a packet is at most two bytes for each it takes, and in SGI the code of the end fits as well when the line has four bytes or more (`SGIFits`) |
| `ImDataProofs!RawReady`, `!BackWhole`, `!LineReads` | bits, planes and swapped colors are undone; lines put where memory wants them are the image; a line is read as itself, or an error | `Place` is the inverse of `Offset` (`OffsetIs`, `PlaceIs`); `BackIs` says of every place of memory whether its line has been read |
| `ImDataProofs!ImagesComeBack` | `DataSpec => []ImageComesBack` for all images, layouts and failures, with the exceptions the property names | `DataInv`: there are starts such that the lines written are in the file from one to the next (`Begins`), behind them nothing or a piece of the next (`Ends`); the table, once written, holds them (`Tabled`); a reader stands at the start of the line it is to read (`Stands`) and memory has the lines before it (`Reading`). `ImageComesBack` says nothing between a writing and a finished reading, so it needs all of these |

`ImDataProofs` holds the proofs of `ImBinMemoryFile`, of `RunLength` and of
`ImImageData`. The last two assume of a picture what `AnImage` says: sizes are
positive, values are bytes, 0 or 1 in black and white, there are as many as the
layout of memory wants, and BMP codes gray images only, as its `CanWrite` answers.
The encoders and decoders are recursive functions; what they compute is had from
the equation of the function (the decoder's by a least counterexample among the
approximations of it) without an induction theorem. `DataInv` speaks of starts
of any value, which TLC cannot enumerate: it is proved, and of its parts the run
`image_data` checks `ImageComesBack` only.

Only model-checked: liveness (`BuildsEventually`, `OperationEnds`), since fairness
is out of the prover's reach.

## 6. What could follow

Writing through `ImFile`; the conversion of types while reading; the other
measures of regions.

## 7. Not modelled, and why

Third-party libraries are only compiled here. The pixel arithmetic of
conversions and processing is floating point, beyond TLC's values. Of the format
drivers, headers and the drivers over libraries are byte layouts or calls; how
they open is in `ImFormat`. `im_fileraw.cpp`, twelve bits and the conversion of
data types while reading are arithmetic on single values. A sub file forwards
each call to its parent, the stream and system files to the operating system, and
the registry of I/O modules is one variable. Wrong use of `imFormatRemoveAll` (with
files open) and of `imAttribTableCopyFrom` (onto itself) is undefined behaviour in
the program that calls. The Lua binding, the legacy interface, DIB and capture
forward calls. Detection of headers and compiler flags in the platform builders
are questions to the system.
Module::Build, ExtUtils::Install and Archive::Extract are outside the repository and are
modelled from how the builder uses them (the external entries of the map).
