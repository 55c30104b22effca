# Models of PS4-Hen-Plugins

TLA+ modules for the plugins of this repository, configurations that check
them with TLC on small instances, and proofs that TLAPS checks for all of them.
Paths below are relative to the repository.

## 1. The system

| Part | State it keeps | Operations | Talks to |
|---|---|---|---|
| **FTP server** `plugin_server/source/ftp` | per connection an `ftp_env_t` on its thread's stack: `active_fd`, `passive_fd`, `data_fd`, `data_addr`, `data_offset`, `rename_path`, and `cwd`, a string that no command normalises | `ftp_serve` (listen, accept), one thread per connection, 30 commands | the descriptor table of its process, the disk, the client |
| **klog server** `plugin_server/source/klog.c` | `sockfd`, `file_fd`, `output_set`, `nb_connections` | `serve_file`, `serve_file_while_connected` | the same descriptor table, `/dev/klog` |
| **plugin_server** `lib.c` | none | starts both as threads of one process | |
| **ini.c** `common/ini.c` | lists of sections, keys and comments | `ini_load`, `ini_save`, `ini_get`, `ini_set*`, `ini_delete_*`, `ini_add_*`, `ini_free` | one file |
| **Settings pages** `plugin_mono/.../settings_menu.c` | `g_PageID`; `plugins.ini`, `hen.ini` | hooks for pages that open and close and for elements that are created and pressed | ini.c; ShellUI calls the hooks |
| **plugin_shellcore** `lib.c` | the `app_info` file of each title | a hook in SceShellCore, once for every game that starts | plugin_loader, by the file |
| **plugin_loader** `lib.cpp` | none | `loadPlugins` in the process of each game | `plugins.ini`, `app_info` |
| **Hooks and patches** `common/memory.c` | the cave and `caveInstSize` | pattern scans, `CreatePrologueHook`, `Make32to64Jmp` | the code of the process, or of another |
| **Hook chain of plugin_mono** `lib.cc`, `mono.c`, `debug_settings.c` | once flags, `g_only_hdd`, a mark in `/user/temp` | installs the hooks in ShellUI; a thread patches SceShellCore | memory.c |
| **Package browser** `pkg_broswer.c` | `g_last_scan` (entries, `overflow`), `g_has_scanned`, the symbol `resolve_installer` keeps | a recursive scan of the USB drives, a page in XML, installation | the file tree the FTP server writes to, and drives that are pulled out; nothing calls it yet |
| the rest | none of interest | device information, remote play, bootloader, example, glue to the system, HDE64 (third-party) | |

What is hard here, and hard to test:

* *Numbers of descriptors outlive their descriptors.*  All threads of
  plugin_server index one table.  A number that stays in a variable after
  `close` belongs to whoever opens next.
* *Threads meet on files.*  `STOR` truncates at the end, `APPE` looks at the
  size before it opens, `RENAME` and `DELE` come in between.
* *Processes meet on files.*  ShellUI rewrites `plugins.ini`, and may die while
  it does, when a game reads it; SceShellCore writes `app_info` as the game
  starts.
* *Long sequences.*  Every `ini_load` reverses the file and every `ini_save` adds
  blank lines; offsets, names and addresses of one FTP command are used by
  later ones that do not expect them; a client dropped by klog must be counted
  out once.
* *One process patches another.*  ShellUI writes into its own code while it runs, from
  more than one thread, and into SceShellCore's; it is restarted, SceShellCore is not.
* *Paths are resolved anew.*  `cwd` is text; dots, slashes and CDUPs pile up in it, and
  what another connection removes changes where it leads.  `LIST` opens a relative
  path from the directory of the process and looks at its entries below `cwd`.
* *A tree that changes while it is read.*  The scan of the package browser and `LIST`
  read a directory and then look at each entry by its path, while others make and
  remove files and drives are pulled out; the scan ends at a limit that is tested in
  two places of a recursion.
* *Retry.*  Both servers come back from failures by a loop with a sleep.

The properties that make each part correct: the FTP threads use and return
their own descriptors (`Ownership`, `EndedSessionHoldsNothing`,
`FirstStrayIsStale`); a transfer that nobody disturbed has exactly its effect
(`StorInPlace`, `StorComplete`, `AppendKeeps`, `RetrWhole`); klog counts the
clients it has and goes back to waiting (`ClientsCounted`,
`KlogHoldsNothingIdle`, `NoIdleLoop`); the services do not touch each other and
come back (`ServicesApart`, `ServicesReturn`); ini.c is a table with comments
(`StoreSpec`, `KeyCommentsSurvive`, `FileSettles`); settings stay as chosen and
nothing is enabled that was not (`SettingsKept`, `EnabledByUser`,
`OwnPageOnly`); a game gets the plugins enabled for it and no others
(`OwnSectionsOnly`, `NoneForgotten`, `LoaderEnds`); a function is hooked once, and
its hook gets back to it (`HookedOnce`, `HooksLeadBack`);
SceShellCore is patched no more often than ShellUI dies before it left the mark, at
the right place, and the mark that says so is true (`PatchedOnce`, `ScanFindsFirst`,
`MarkTold`); a working directory leads to a
directory and CDUP to the one above it (`CwdLeads`, `CdupGoesUp`); a list has what was
there, whole or marked as not whole (`ListTells`, `ScanFaithful`), and a scan gives
back every directory it opens (`StreamsReturned`).

## 2. The modules

```
Descriptors ──┬── FtpServer ──┬── FtpServerProofs
              │               └── PluginServer
              └── Klog ───────────┘
FtpFiles ── FtpFilesProofs
KvStore ···(refined by)··· IniFile ── IniFileProofs
Settings ── Loader ── LoaderProofs
Hooks ──┬── MonoPlugin ── MonoPluginProofs
Scan ───┘
DriveTree ──┬── FtpPaths ────┬── Drives ── DrivesProofs
            └── PkgBrowser ──┘
```

A line is EXTENDS; `PluginServerProofs` extends `PluginServer` and `FtpServerProofs`, and
the proofs of IniFile, MonoPlugin and Drives extend **DataLemmas**, facts about numbers and sequences that
have nothing to do with the plugins.  Each `MC*` module instantiates the one it is named after.

**Descriptors** is the kernel's table as the code relies on it: the lowest free
number is handed out, `close` closes what is there whoever opened it, `exit`
closes everything.  `kind` says what a number refers to.  `owner` and `stray`
are for the properties: who opened an entry, and the ways (through which
variable) a thread first reached an entry that was not its own.  The code sees
numbers only.

**FtpServer** is `ftp.c` and the part of `cmd.c` that opens, connects, accepts
or closes.  A thread is cut where it blocks.  `PasvClose` and the three actions
that follow it are `ftp_cmd_PASV` before and after its new `socket`;
`StartTransfer`, then `DataConnect`, `DataAccept` or `DataOpenFails`, then
`EndTransfer` are `LIST`, `RETR` and `STOR` (`APPE` ends in `STOR`);
`EndActive`, `EndPassive`, `EndData` are the three `close` at the end of
`ftp_thread`.  Every other command is `Command`: one reply, which may fail and
then ends the thread.  `data_fd` keeps its number after `ftp_data_close`, and
`passive_fd` after a PASV that failed half way, as in the code.  A session
is one accepted connection and happens once.

**Klog** is the thread of `klog.c`.  One pass through its loop is one action.  Any call
may fail, `select` among them: then `serve_file_while_connected` closes the device and
returns, and the clients it has stay open for good.  `lost` is a history variable: these
clients.

**PluginServer** puts both into one process over one table.  `pthread_ftp` is the test of
the jailbreak before `ftp_main`: without one, or without a free descriptor for the file the
test makes, FTP never starts.

**FtpFiles** is what the same commands do to files: a byte per step, `APPE` in two
steps, open files that lose their name.  Which connection wrote a byte is the
byte, so contents show whose data a file has.  It leaves the descriptors to
FtpServer.

**KvStore** is what the callers of ini.c take it for: a table that is loaded,
changed and saved as a whole.  **IniFile** is ini.c with its lists in the order
the code keeps them and its pending comments: `LoadComment`, `LoadSection` and `LoadKey` are the
three branches of the loop of `ini_load`, one line each, and `Loaded` is the loop.  `Store` is the refinement,
from the lines of the file to `stored` and from the lists to `mem`.  `FilesAssumption` says that
the first file has no section twice and no key of a section twice, as the files of the repository
have it; nothing is assumed of the files that are saved later.

**Settings** is the thread of ShellUI: `g_PageID` as the hooks for pages set it,
in any order (a page may come before the one it replaces is left, after it, or without its
being reported at all, since the hook for pages that are left may not be installed),
reads that write a default, presses, and `ini_save` in three steps (`SaveOpen`
empties the file, `SaveFlush` shows any part of it, `SaveClose` all of it), at any
of which ShellUI may die.  Of ini.c it keeps the table and the order of
sections.  `FirstDisk` is what the files may say before; a file there has no section
twice (`IsFile`).  `told` is a history variable: no transition of the kind `OnNone`, which the
hook passes over, has brought a page over another that nobody reported as left.  **Loader** adds the hook in SceShellCore and the processes of games.  A game reads
`plugins.ini` in one step: the file is shorter than the buffer of stdio, so that
`ini_load` goes line by line through what was read at once.

**Hooks** is how a function is hooked: `CreatePrologueHook` copies its first
instructions to the cave, the caller keeps their place and writes a jump over
the function.  `Ends` says where the instructions of a function end, as far as
hde64 decodes them, and `GetInstructionSize` counts whole ones until there is room for
the jump.  A thread is cut between any two of its writes to shared state.
`raced` is a history variable: two threads were in `CreatePrologueHook` at the same time.
**Scan** has `PatternScan` and `pid_chunk_scan` as functions of a memory and a
pattern.  `PatternScan` may look behind the place it was told to end at; what it meets there, behind
the copy of a chunk, is the stack of the thread, any member of `Stack`.  Nobody looks whether a
chunk could be read: `View` is what is searched when only the chunks `read` were, the copy of an earlier
one or the stack as it was.  **MonoPlugin** uses both: `LoadApp`, `LoadRoot` and `LoadBranch` are the three
branches of the hook of Mono's loader, `Boot` is `FinishBootEffect`, the `Fixup` actions
are the thread that patches SceShellCore, and `Restart` is a new ShellUI, which finds
SceShellCore and the mark as the old one left them.  Reads of SceShellCore and the write to
it may fail, and the mark is left all the same; the writes ShellUI makes to its own code by the same
call are taken to succeed.  `found`, `astray`, `failed` and `cut` are history variables: the places
that were patched, whether one of them did not hold the pattern, whether a write failed, and how many
ShellUIs ended between the patch and the mark.  That Mono loads one module at a time, on any
thread, and that the effect at the end of boot is not shown twice at once, is assumed of
ShellUI.  A function may not be found, as its name may differ between
firmwares; where the code checks that, the model has both ways.

**DriveTree** is the file tree: nodes are sequences of names, `Lookup` resolves a path
as the kernel does, name by name (`Way` is the node after each), with `.`, `..` and empty names, and
fails where a path passes something that is no directory.  **FtpPaths** is `cwd` and the commands
that take paths: `ftp_abspath`, CWD, CDUP, LIST, MKD, RMD, DELE and the file that STOR
makes.  A path is the sequence of what follows its slashes, so that `cwd` can end in
an empty name or in `..`, as in the code.  LIST is cut at every entry
(`ListPath` and `ListRelative` open, `ListEntry` is `readdir`, `stat` and a line, which may be
lost: nobody looks at what `ftp_data_printf` returns).
`astray` is a history variable: connections whose `cwd` passes a directory that was removed
since the last CWD.  **PkgBrowser** is `scan_all_usb` and `scan_dir_recursive`
with the calls as a stack, cut at every entry; a directory is read as a whole when it is opened, and
one that cannot be opened is passed over, as in the code, without a word; `ScanFull` is the `break` at
`PKG_MAX_RESULTS`, and the two other limits are in `scan_dir_recursive` itself.  `PageOpen` and
`PageClose` are `write_page`, and `resolve_installer` keeps what its first call found.
`stay` and `seen` are history variables: the packages in reach during the whole scan, and at any
time of it.  **Drives** puts both over one tree and adds `Pull`, a drive that is pulled out.

## 3. The runs

| Run | What it asks | Bounds |
|---|---|---|
| `ftp_sessions` | Do connections keep to their own descriptors, and return them? | 2 connections, 2 commands that open something each, 6 numbers; faults of `bind`, `connect`, and KILL |
| `plugin_server` | The same for klog beside FTP, and do both services come back whatever fails? | 1 connection with 2 commands, up to 2 klog clients, 4 numbers; every call of the listener, of klog and of the test for a jailbreak may fail, `select` included |
| `ftp_files` | What do two connections do to the same files? | 2 connections, 2 commands each, 2 paths, 3 files, transfers of up to 2 bytes, offsets -1 to 2 |
| `ini_file` | Is ini.c a table with comments? | 4 files, 2 sections, 2 keys, 2 values, 1 comment, 3 changes with any number of saves and loads between them |
| `plugins` | Do settings stay, and does a game get what is enabled? | 2 plugins, one of them builtin, 1 option, 2 saves (presses, or reads that write a default), 1 death with a file open, 1 game, 3 of these events in a run; any order of pages; files with sections for all games, this one and another |
| `mono_plugin` | Do the hooks of ShellUI and the patch of SceShellCore stay whole? | 5 functions, a cave for two of them and a bit, 2 threads, 1 restart; 14 bytes of SceShellCore in chunks of 5, with the pattern across two chunks, in one, in the last, or twice; 2 contents of the stack, any reads and writes that fail |
| `drives` | Do working directories lead somewhere, and do LIST and the scan tell the truth while the tree changes? | 2 connections over a tree of 2 drives with 13 places; plans of 5 commands of one connection, 2 and 2, 2 beside a scan, and 1 and 2 scans; paths of up to 4 names; lists of up to 2 packages; 1 level below a drive; any number of drives pulled out |
| `ftp_close_own_data`, `ftp_pasv_mode`, `ftp_retr_offset`, `ftp_stor_reset`, `loader_sections` | the findings of section 6, one property each, violated | as above |

Why the bounds are enough for what they are to show.  The hazards of the table
need a number that is closed, reused by a second owner and closed again: two
owners, one transfer, and a table in which the lowest free number is that one.
A second command lets a stale number be used by a later PASV, PORT or transfer.
Six numbers are the listener's, two control connections, a passive socket, a
file and a data connection: one transfer fills the table, so that the error
paths for a full one are taken as well.  klog needs two clients for a count
that differs from "some"; the four numbers of its run are the listener's, klog's own, the device and one
client, or fewer of these and a connection's, so that clients a failed `select` left, sockets
that `bind` failed on and connections without a thread fill the table, and everything after that is
tried with a full one.  Two bytes show an offset inside a file, at its end
and beyond it, and two commands per connection are REST and a transfer, RNFR
and RNTO, or a transfer and a second one.  For ini.c two of each show the order
the lists are in; the four files are empty, commented throughout, with and
without blank lines, and with a trailing comment.
The cave is one that the third hook leaves, by the address that
`validnateBlockSize` forgets, and that has no room for the fourth; one
function is too short for a jump of 64 bits and one cannot be decoded.  The
places of the pattern are in the second chunk, across two chunks, in the last
chunk, and, twice, in the first and in the second, so that a ShellUI that starts between patch and mark
finds another to patch.  One content of the stack has nothing of the pattern, the other has its
start where a chunk ends and the rest behind, so that a scan may answer with what is not there.  One restart is one ShellUI before the
patch, the mark or a hook, and one after.  For `drives`: five commands are enough to make a `cwd` that ends in dots or slashes, remove
what it passes and go up again; `PATH_MAX` of 4 lets CWD build paths that are
refused and a LIST whose `cwd` leaves no room for the name of an entry.  With room for 2
packages, of 4 in reach, the limit is reached in a drive, in a directory below one, and exactly at the last
package; with one level below a drive a package is in reach, or one too deep, or in a
directory that is passed over.  Two scans show a list, and a page, left over from the one before.
The bounds `Plans`, `Budget`, `MaxLen`,
`MaxOps`, `MaxSaves`, `MaxLost`, `MaxEvents`, `Crowd` and `MaxRestart` are in the guards of the actions and are the only
places where the models stop what the code would go on with.

`CHECK_DEADLOCK FALSE` everywhere: the threads end, the process may exit, a
`STOR` whose data connection is no connection spins without effect, and the
bounds end the rest.

*Until a stale number is used.*  The server does use stale numbers (section 6), and after
the first time nothing can be promised: a thread may read another client's
commands.  `Ownership`, `ClientsCounted` and `ServicesApart` therefore speak of states with
`stray = {}`, and `FirstStrayIsStale` says where the first misuse can come from:
only `data_fd` and `passive_fd`.  Together they say that the two stale
variables are the only thing wrong with the ownership of descriptors.

*Until ShellUI dies with a file open.*  The same for `SettingsKept`: the file is
emptied before it is written, so such a death loses settings, and the next
read writes `0` for them.  `EnabledByUser` holds nevertheless: what is lost is
never enabled.

*Until two threads are in `CreatePrologueHook` at once.*  `caveInstSize` is read, and
written three system calls later; `PrintTimeTick` and `UploadOnBranch` may do so
together, and then two hooks get one place in the cave.  `HooksLeadBack`
speaks of states with `raced = FALSE`; the run reaches both.

*Until `select` fails.*  The clients klog has then are never closed.  `ClientsCounted` and
`KlogHoldsNothingIdle` say that they, `lost`, are all it forgets, whatever else fails, and that the
count is true of the others; `ServicesReturn` excuses the table once they have filled it.

*Until a page comes over another unheard.*  `g_PageID` is not set by transitions of the kind `OnNone`.
If the page before was not reported as left either, what is pressed on the new one goes to the
file of the old one, under the ids of the new one.  `OwnPageOnly` says, with `told`, that this is the only way.

*One patch more for each ShellUI that died.*  A ShellUI that dies between the patch and the mark is followed by
one that scans again, finds another occurrence of the pattern, if there is one, and patches that as well.
`PatchedOnce` bounds the patches by `1 + cut` and says that no two of them overlap, unless a
place without the pattern was patched (`astray`), as a read that failed or the stack behind a copy may bring about.
`MarkTold` excuses a write that failed (`failed`), of which the mark takes no notice.

*Until a line is lost.*  LIST answers 226 whether or not its lines could be sent.  `ListTells` asks for all
that was there only where they were, and never for more than was there.

Mutants.  For each property of each passing run there is a variant of a definition as a
plausible mistake would make it (a missing reset, a count that is kept, an
error path that forgets a close), under which TLC finds the property violated.

## 4. Fairness

Most specifications have none: their properties are safety properties.

`PluginServer!Spec` is fair to `pthread_ftp`, `Serve`, `KlogServe` and `KlogTimeout` only:
the thread of FTP goes from its test to `ftp_main` without waiting for anyone,
`ftp_main` and `pthread_kserver` call their service again after a sleep
whatever it returned, and `select` in `serve_file_while_connected` has a timeout
of 10 ms.  No client has to do anything.  `ServicesReturn` assumes that an interface has an
address (`ftp_serve` returns 0 and is called again until one has) and
excuses a full table, which nobody empties, a process that has exited, and an FTP server that was
refused because the process is not jailbroken (`lib.c:75`).

`Loader!Spec` is fair to `SaveClose` (the thread that writes is not waiting for
anyone), to the hook and to the loop of each game's loader.  Nobody has to press
a switch or start a game.  `LoadSection` is enabled only where the section
matches: the pass of the loop that changes nothing is a stuttering step, so
fairness does not carry the loader past a section the code does not pass.

## 5. The proofs

Each theorem says for every value of the constants what a run shows for one.

### FtpServerProofs

For every set of connections, table, budget and set
of faults, from `FdAssumption` (numbers are positive, `Nobody` owns nothing)
and `SessionAssumption` (connections and the listener are different owners):

| Theorem | States |
|---|---|
| `FtpTypeCorrect` | `FtpSpec => []FtpTypeOK` |
| `OwnershipHolds` | `FtpSpec => []Ownership` |
| `EndedHoldsNothing` | `FtpSpec => []EndedSessionHoldsNothing` |
| `FirstStrayHolds` | `FtpSpec => FirstStrayIsStale` |

`Ownership` is not inductive: it says that `active_fd` is among the
descriptors a thread holds, and nothing of a `data_fd` or `passive_fd` that is
stale and, by bad luck, the same number.  The inductive invariant `IInv` adds
two directions for every connection.  `Refers`: what the variables refer to,
and that neither stale variable equals `active_fd` while the thread lives (a
number that is open is not handed out a second time).  `Found`: conversely, for
every descriptor that is open and owned by the thread, which variable has it and at
which point of the thread, so that nothing is lost but sockets of PORT and
directories of LIST.  `Listens` is the listener's part, and a process that has exited has an
empty table.

The argument for a step of one connection: while `stray` stays empty, the
step changed only entries that were free or its own (`SessionStepMine`), and
only its own variables (`SessionStepSame`); so what holds of the others still
does (`OthersKept`, `ListensKept`), and what holds of itself is shown action by
action (`SessionStepOwn`).  `FirstStray` uses `Refers` to exclude each way but the four
that go through `data_fd` and `passive_fd`.

### PluginServerProofs

From `KlogAssumption` and `ThreadsAssumption` (the klog thread is none of the FTP server's)
besides.  `Safety` is `PluginServer!Spec` without its fairness.

| Theorem | States |
|---|---|
| `KlogTypeCorrect` | `Safety => []KlogTypeOK` |
| `CountIsTrue` | `Safety => []ClientsCounted` |
| `IdleHoldsNothing` | `Safety => []KlogHoldsNothingIdle` |
| `ApartFromEachOther` | `Safety => []ServicesApart` |

The inductive invariant `KInv` is that of FtpServer, the types of the klog thread, and,
while `stray` is empty, the same two directions for klog: what its variables refer to
(`KlogRefers`) and which variable has each descriptor it owns (`KlogFound`), with the count
equal to the size of the set.  The count alone is not inductive: it says nothing of a number in
the set that is no longer the client's, and is closed and counted out all the same.  The clients a
failed `select` left open are a third part, apart from the set and from every other owner.  That neither side disturbs the other is one
lemma each way: a step changes only entries that were free or its own.

### FtpFilesProofs

From `FilesAssumption`: `FilesTypeCorrect`, `StoredInPlace`, `StoreCompletes`,
`AppendCompletes` and `RetrieveCompletes`, for `FilesTypeOK`, `StorInPlace`, `StorComplete`, `AppendKeeps`
and `RetrWhole` (of a client that marked no offset; what REST is to mean for RETR is section 6).  `IInv` says what the file of a transfer holds at every byte of it
(`Contents`: `Stored(old, first, got)`, the old contents with what was received from the
offset on) as long as nobody disturbed the connection, and how the counters of the thread
agree (`Counts`).  `StorInPlace` alone is not inductive, as it says nothing of where the
next byte goes.  The action properties follow from `IInv` before the last step.

### MonoPluginProofs

From `HooksAssumption`, `MonoAssumption`, `StackAssumption`, `PatternAssumption` and `ChainAssumption` (a function has one name,
and one part of the code hooks it): `MonoTypeCorrect`, `NeverHookedTwice`, `OriginalsLeadBack`,
`MarkIsTrue`, `PatchesCounted` and `ScanIsRight`, for `MonoTypeOK`, `HookedOnce`, `HooksLeadBack`,
`MarkTold`, `PatchedOnce` and `ScanFindsFirst`.  `ChainInv` says which functions are still untouched while the flags of the chain
allow a thread to start on them, which the flags alone do not say, since they are set
after the hooks.  `CaveInv`, until two threads are in `CreatePrologueHook` at once,
says that every original and every block under way is whole and lies below `caveInstSize`,
so that the next block covers none.  `CoreInvariant` is for SceShellCore: there is at most one patch for each ShellUI that
ended before it left the mark, and one of the present one, which is not
counted while it still scans; the mark is there, or about to be, only after a patch or a failed write; and each patch is
whole as long as none was made astray.  The last part rests on `PatternAssumption`, which is true of the bytes in
`debug_settings.c`: wherever two places are nearer to each other than a patch is long, a byte the first patch
wrote is not the one the pattern has there, so that the second does not hold the pattern.  Nothing is assumed of how often the
pattern occurs, of what a scan answers or of which reads and writes fail.

`ScanIsRight` is for every memory, every size of a chunk, every pattern and every content of the stack, provided all chunks
could be read.  `PatternScan` and `ChunkScan` are functions
that are defined from the end of the memory down; `Downward` in DataLemmas is why there are such
functions.  From the last place upward, the answer at a place is the first match
from there on (`FirstFrom`), by one chunk at a time for `ChunkScan`, for which a place is in a chunk
that starts at a multiple of its size.

### DrivesProofs

From `TreeAssumption`, `PathsAssumption`, `BrowserAssumption` (no root of the scan is a prefix
of another) and `FirstTreeAssumption` (at first, too, what leads to a file is a
directory):

| Theorem | States |
|---|---|
| `DrivesTypeCorrect` | `DrivesSpec => []DrivesTypeOK` |
| `EveryStreamReturned` | `DrivesSpec => []StreamsReturned` |
| `EveryScanFaithful` | `DrivesSpec => []ScanFaithful` |
| `EveryCwdLeads` | `DrivesSpec => []CwdLeads` |
| `EveryCdupGoesUp` | `DrivesSpec => CdupGoesUp` |
| `EveryListTells` | `DrivesSpec => []ListTells` |

`DrivesInv` has for every package that has been in reach during
the whole scan that it is listed, or the list is marked as not whole, or it lies *ahead*: below a
root the scan has not come to, or below an entry not yet read of one of the calls in the stack.
The calls go down one name at a time from the present root and no path is ahead and listed, which
is why nothing is listed twice.

`PathsInv` adds `CwdLeads` and `ListInv`.  `CwdLeads` is inductive with the types, but only by what
the lookup does: a path whose last name is dropped leads to where it went before that
name (so CDUP leads somewhere, and up if the name was entered), and a path that led to a
directory still leads to the same one in a tree from which other files and directories
are gone, or with more in it, as long as it passes none of those that are gone (so RMD and
a drive that is pulled out leave the others, and `astray` catches the rest).
Both are shown of `Way`, one name after the other.  `ListTells` speaks of two names for one
directory: the one the client asked for, below `cwd`, and the one LIST opened.  `ListInv` keeps for
each LIST that what it sent it met in the directory meant (`SameWay` is why an entry below `cwd` was looked
up there), and, if that is the one it opened, that what was in it throughout is sent or still to be read.

### IniFileProofs

From `IniAssumption`, `FilesAssumption` (above) and `NoCopyAssumption` (what stands for no table is no
table):

| Theorem | States |
|---|---|
| `IniTypeCorrect` | `IniSpec => []IniTypeOK` |
| `IniIsStore` | `IniSpec => StoreSpec` |
| `IniKeepsComments` | `IniSpec => []KeyCommentsSurvive` |
| `IniFileSettles` | `IniSpec => []FileSettles` |

`IniIsStore` is the refinement.  Its invariant, `IniInv`, is that neither the lists nor the file
ever has a section twice, or a key twice in a section: `find_section` and `find_key` take the first
match, every load reverses the order, so what ini.c says of a key that is there twice changes
from load to load.  The argument has three parts.

* *What a list says.*  `Holds(t, s, k, v)`: some section of that name has some key of that name
  with that value.  It does not look at the order, and with nothing twice it is what
  `ini_get` answers (`GetIs`) and what the lines of a file say to a reader who goes up from the
  key to the next section line (`FileViewIs`, from an invariant over the lines loaded so far, `LoadedSays`).
  `SetValueIs`, `DeleteKeyIs` and `SectionRemoved` say what each function does to it.
* *What a save and a load make.*  `ReloadIs`: the lists with their sections and their keys in reverse, the
  comments of keys as they were, the comments before sections lost, and before the first section of
  the new list (the last one of the file) the blank line that `ini_save` put behind the one before.  `Saved` is
  pieces in a row, and `ReadFlat` says that they may be loaded piece by piece: header, then
  for each section its head, its keys and the blank line, whose fate depends on what comes next.
* *The steps.*  One lemma for each action says what it does to `Mem` and `Stored`, the two variables of
  KvStore, and `IniStep` puts them together.

`IniKeepsComments` follows from `ReloadIs`, since reversing a list keeps the set of its elements.
`IniFileSettles` needs it three times: after two rounds the order is the first one again, and from then on
each round only exchanges pieces of the same length, the blank line staying before the
first section (`TurnedLength`: the same pieces in reverse are as long in sum).

Loops over a file, a list or a memory are recursive functions in the models, and their properties are shown
by `Climb` in DataLemmas: a set of numbers that has 0, and with each number up to n the next, has all of 0 to n.  The
set is given in each place, so no theorem of induction over an operator is needed.

### LoaderProofs

From `SettingsAssumption`, `LoaderAssumption` and `FirstDiskAssumption` (at first no file has a section
twice, nor ids of the other file): `LoaderTypeCorrect`, `PagesApart`, `OnlyUserEnables`,
`EverySettingKept`, `OthersNotLoaded` and `NothingForgotten`, for `LoaderTypeOK`, `OwnPageOnly`, `EnabledByUser`,
`SettingsKept`, `OwnSectionsOnly` and `NoneForgotten`.  `Inv` has two parts.  `SettingsInv`: what is on disk
is part of `Whole`, the file that is being written or the one that was, and `Whole`
agrees with `chosen`, one way always and the other way until ShellUI has died with a file open; and, while `told`
holds, `g_PageID` is the page on show or none, so that what is saved has ids of its own page.
`LoaderInv`: for each game, what is still to load and what is
loaded lie within what was wanted when it read the file, and make it up if the file
was whole.  A file is treated by its entries (`Entry`: a section, an id and a value), which
`Reverse`, a cut and a change keep or alter in one place; that no section is twice is kept as well,
and is what makes `ini_get` and the loader see the same value.

### Only model-checked

All liveness: `ServicesReturn` and `NoIdleLoop` of PluginServer and `LoaderEnds` of Loader, which need
fairness and so ENABLED, which TLAPS does not have.  Every other property of a passing run is
stated by one of the theorems above.

## 6. Where the code differs from what it says

| Run | Where | What |
|---|---|---|
| `ftp_close_own_data` | `cmd.c:178`, `ftp.c:263` | `ftp_data_close` is to "Close an existing data connection."; after a transfer the same number is closed again at the end of the thread, when another connection or klog may own it |
| `ftp_pasv_mode` | `cmd.c:254`, `cmd.c:122` | PASV is to "Enter passive mode."; after one PORT, transfers connect to the address of PORT for good |
| `ftp_retr_offset` | `cmd.c:563`, `cmd.c:623` | REST is to "Mark the offset to start from in a future file transer."; RETR sends the file from its first byte, and leaves the mark for the next STOR |
| `ftp_stor_reset` | `cmd.c:736`, `cmd.c:782` | STOR is to "Store recieved data in a given file."; a `recv` that fails passes for a write of -1 bytes, and the last byte received is cut off under a 226 |
| `loader_sections` | `hen_settings.xml:36`, `lib.cpp:105` | "Plugins will be loaded on game (BigApp) launch."; a section for another title stops the loader for good |

Met while reading, and not the subject of a run:

* CDUP does not go up after a path that ends in a slash or in `..` (`cmd.c:312`); FtpPaths has
  it so, and `CdupGoesUp` asks for the parent only after a name.
* With the mark in `/user/temp`, a new ShellUI does not hook `_DownloadRegisterTaskByStorageEx`
  (`debug_settings.c:116`); MonoPlugin has it (`bgft`).
* The mark is left whether or not the write to SceShellCore succeeded (`debug_settings.c:105`); the next ShellUI
  then prints "already patched" (`debug_settings.c:118`) and does nothing.  MonoPlugin has it (`failed`).
* The check of the room in the cave leaves out the address behind each jump (`memory.c:625`): the last block may reach
  eight bytes past the `MAX_CAVE_SIZE` bytes that `cavePadFunc` has.  Hooks has the check as it is.
* After an early `PrintTimeTick`, `UploadOnBranch` is never called (`lib.cc:183`); MonoPlugin has it.
* `overflow` is also set by a directory that is entered at the limit, which may have no package
  in it (`pkg_broswer.c:188`); the page then says that the list is truncated.  `ScanFaithful` asks
  only that the list is full.
* A directory that cannot be opened is left out of the list without a word, not even `overflow`
  (`pkg_broswer.c:191`), and a line of LIST that could not be sent is missing under a 226 (`cmd.c:469`).
* A title id needs ten characters before it is taken from a name, and the example beside it,
  `CUSA00001`, has nine (`pkg_broswer.c:72`).
* `REPLACE_LINE` in `str_replace` keeps the part of the line before the match (`settings_menu.c:84`).
* The comments of `pkg_broswer.c` name an FTP command `SITE PKGS` that `cmd.c` does not have.

## 7. What is left out

* Texts.  Names, values and comments are short and free of `;` and `#`; the
  limits of ini.c's buffers, `startsWith` on prefixes of title ids (ids of equal
  length), the values other than `1` that enable a plugin, and the wording of
  replies are not modelled.  Duplicate sections or keys in a hand-written file are
  left out of `ini_file`: `StoreSpec` would need a table with several values.  So is the comment that
  `ini_set_with_comment` may add (`ini.c:485`): every caller passes none.
* A `plugins.ini` longer than a buffer of stdio, which a game would read in pieces while it may be written.
* Writes of ShellUI to its own code that fail.
* Lines: `ftp_readline` and `ftp_execute`, which cut a command from what was received.
* Of paths: buffers that are too short, symbolic links, and RNTO of a directory that
  a `cwd` passes.  LIST, and the scan, read a directory as a whole and then look at its entries, without `.` and
  `..` (`readdir` reads it by buffers, so that entries of a long one may come later); the directory of the process is taken to be `/`.  FtpFiles has one directory.
  CHMOD, SIZE, PWD and MTRW change no state of the server and are `Command` in FtpServer.
* Of the package browser: title ids, sizes, the text of the page, and paths longer than their buffer.
* Threads of ShellUI other than the one that calls the hooks.
* A game whose `app_info` is missing loads every section (`Matches` has it);
  no property promises anything for it.
* What a plugin does after it is loaded, what `bootloader` and `example` do,
  device information, remote play and the bindings to Mono: no state of their own.
* Of memory.c, the scans for words and strings and the patches of calls; of
  `RunPost`, the patches of texts and of single bytes, made once.  The code of
  other threads of ShellUI that runs through a function while it is written
  over: MonoPlugin has the state (`code[f] = "cut"`) and no property about it.
* `g_only_hdd` and the paths of the package installer: each hook tests a flag or a prefix
  and calls its original with another path.
* A reboot: SceShellCore and the files in `/user/temp` are taken to end together.

## 8. Plan

Done, in this order, the most important first: descriptors and FTP threads with proofs; klog and
their composition; files under FTP; ini.c with its abstract table; settings and loader; hooks,
scans and the hook chain; paths and the package browser over one tree; proofs of all safety
properties of these, among them that ini.c implements its table.

Next:

1. In the model: `g_only_hdd` and the paths of the installer, with what a restart with the mark costs
   the feature "Install Packages from Hard Disk" (`.github/README.md:15`); lines of commands; RNTO
   in FtpPaths.
2. In proofs: that the table Settings works on is that of KvStore, so that IniFile, Settings and Loader are joined
   by theorems and not by reading alone; what PASV, PORT and transfers still promise of a connection after
   another one has used a stale number.
