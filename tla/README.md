# MFS: a specification of the Maestro File System

MFS is a small FAT-like file system. The repository holds a Linux kernel module
that mounts it (`super.c`, `namei.c`, `dir.c`, `file.c`), the layers below it
that user-space programs share (`entry.c`, `fat.c`, `volume.c`, `util.c`), a
layer for a database that stores its files on a volume (`sqliteio.c`), the
formatters (`progs/mkfs.c`, `progs/mdbfs.c`) and the SQLite shell with one call
into that layer added (`progs/shell.c`). This directory specifies them in TLA+,
checks the specification on small instances with TLC, and proves the properties
that matter most for volumes of every size with TLAPS.

## 1. The system

### Components

| Component | State | Operations | Correct when |
|---|---|---|---|
| FAT, `fat.c` | one value per index: 0 unused, next cluster, end mark | `read_fat_index`, `write_in_fat_index`, `find_empty_fat_index` | a free index is found whenever there is one, and only a free one; an index never reaches outside of the table |
| Directory entries, `entry.c` | 64-byte entries in the clusters of a directory's chain | `get_dentry`, `alloc_new_dirent`, `alloc_new_entry`, `get_cluster_number`, `read_cluster` | chains never merge and always end; an entry that was written is found, one that was not is not; the entry updated is the entry looked up |
| Directories, `dir.c` | as above | `__mfs_mkdir`, `__mfs_lookup`, `mfs_readdir` | a path goes on leading where it led; a name looked up before it is made is not listed twice; a listing is whole |
| Files, `file.c` | head cluster and size in the entry, content along the chain | `__mfs_create`, `write_file`, `read_file`; `mfs_write`, `mfs_read` in the kernel | reading returns what was written; size and chain agree; a call returns what it did |
| SQLite I/O, `sqliteio.c` | none of its own | `open`, `create`, `lookup`, `write`, `read` of a file by route and name | as files |
| Formatters, `progs/` | the super block; the copy loop of `create_dummy` | parse the sizes, make or open the volume, zero it, write the super block, mark the root; copy `test.db` | FAT and data do not overlap and match the volume; a refused run changes nothing; the copy is complete and ends |
| Volume I/O, `volume.c` | the position of the volume's file, one for all callers | seek, read, write, `read_sb`, `get_end_cluster` | a transfer happens at the position its caller sought |
| VFS operations, `namei.c` | inodes, the kernel's dentry cache | `create`, `lookup`, `mkdir`, `mknod`, `getattr`; the kernel's `simple_unlink`, `simple_rmdir`, `simple_rename`, `simple_link` | the cache and the volume agree |
| Paths and sizes, `util.c` | the static position of `strtok`, static path buffers | tokenizer, paths from dentries, `parse_size` | a path resolves to the names it was made of; a size is read as it is meant |
| Mount, `super.c` | the kernel's super block | mount, unmount, module load | nothing is in use when the volume goes |
| SQLite shell, `progs/shell.c` | the session: streams, connections, modes, counters | arguments, scripts, SQL lines, dot-commands, Ctrl-C | streams and connections stay in order; SQL is run once, as typed; text that is written can be read back; copies are whole |
| FUSE, `progs/fuse.c` | - | passes through to the host file system | - |
| Scripts, build files, images | - | - | - |

### How they interact

A call starts in `namei.c`/`file.c` (kernel) or `sqliteio.c` (user space) with a
path and a name. `get_cluster_number` walks the path from the root, cluster 2,
and returns the head of the directory; a search by name in that directory's
chain returns the entry; `file.c` walks the file's chain to the cluster of the
offset, transfers at most one cluster, and grows the chain when it ends; at last
`alloc_new_entry` searches the directory again by name and puts the updated
entry, with the new size, in the place of the old. Each step reads the super
block again and seeks the one file behind the volume. There are no locks in the
module (the kernel holds the parent directory's mutex during a lookup and the
creation after it), and none in the user-space programs, which are sequential.
Everything is on the volume: what a call learns it learns by reading, and what
it leaves is what the next one finds, after a restart too. In front of the
volume stands the kernel's dentry cache, which some operations change and the
volume does not hear of.

The shell reads lines from its arguments, from `~/.sqliterc`, from scripts and
from standard input, one input inside another; it hands SQL to SQLite, writes
the rows, and moves tables between files and databases. Ctrl-C sets a counter
from a signal handler, and interrupts the connection it knows of.

### What is hard

* **The full volume.** `find_empty_fat_index` answers FALSE, which is 0, and
  every caller uses the answer as an index. 0 is not refused further down: as an
  index it wraps to the four bytes before the FAT, as a cluster it is the last
  but one sector of the FAT.
* **The probe.** `find_empty_fat_index` compares four bytes where an index has
  two, so an index whose right neighbour is in use is passed over, and the last
  one of a sector is compared with whatever lies behind the buffer.
* **Offsets and lengths.** One call writes into one cluster; its length
  arithmetic, the cluster boundary and the growth by one cluster are where a
  write can go wrong, and the size grows with every write wherever it was.
* **Order on the volume.** Two writes extend a chain, three make a file; a crash
  may come between any two of them.
* **Overlap.** The file position, `strtok` and the path buffers are shared by
  all callers; a free index is found in one step and marked in another; the
  update of an entry writes the whole cluster back.
* **The dentry cache.** Deleting and renaming never reach the volume, making a
  directory never reaches the cache.
* **The geometry.** The width of an index, the size of the FAT and the place of
  the data come out of integer arithmetic with boundaries at 256, 32768 and
  65536 clusters.
* **The session.** Streams, connections, a one-shot redirection and saved
  settings of the shell outlive the command that made them, and every command
  has its early returns; Ctrl-C and another process come in between.

`PROJECT.json` lists these and others as hazards at their lines, each with the
properties that cover it.

## 2. The modules

| Module | Models | Depends on |
|---|---|---|
| `Fat` | the FAT as a table, the search for an empty index, chain walks (`fat.c` and the loops over chains) | |
| `FatBytes` | `fat.c` on the bytes of the volume, around the super block and the data | `Fat`, `FatCalls` |
| `FatCalls` | abstract: the table of `Fat` under the calls the program makes | `Fat` |
| `Mfs` | the operations on a mounted volume, a call at a time (`entry.c`, `dir.c`, `file.c`); its properties | `Fat` |
| `FileStore` | abstract: what a client that extends its files may rely on | |
| `MfsView` | what lookup and read show of the volume, and that it implements `FileStore` | `Mfs`, `FileStore` |
| `MfsCalls` | the last write call and what it returned, against the comments on the functions | `Mfs` |
| `MfsIO` | the calls as seeks and transfers of several callers, with crashes, and that one caller implements `Mfs` | `Mfs` |
| `CreateDummy` | `create_dummy`, the copy loop of `mdbfs`, on a fresh volume | `Mfs` |
| `MfsProofs` | theorems about `Mfs`: types, chains, names, sizes, lost clusters, the full volume | `Mfs` |
| `ClientProofs` | theorems about what clients see: `MfsCalls`, `MfsView` as a `FileStore`, and the copy of `CreateDummy` | `MfsProofs`, `MfsCalls`, `MfsView`, `CreateDummy` |
| `IOProofs` | theorems about `MfsIO` with one caller: that it implements `Mfs`, and what crashes leave | `MfsProofs`, `MfsIO` |
| `FatBytesProofs` | theorems about `FatBytes`, and that it implements `FatCalls` | `FatBytes` |
| `MkfsProofs` | theorems about `Mkfs` | `Mkfs` |
| `VfsProofs` | theorems about `Vfs` | `Vfs` |
| `PathsProofs` | theorems about `Paths` | `Paths` |
| `ShellProofs` | theorems about `Shell` | `Shell` |
| `Vfs` | the operations of `namei.c`, `file.c` and `dir.c` on the volume and the dentry cache | |
| `Paths` | paths spelled from dentries and walked with `strtok`, over shared static variables (`util.c`, `entry.c`, `sqliteio.c`) | |
| `Mkfs` | a run of the formatters, from the command line to the formatted volume | |
| `ShellLines` | lines of SQL: what is blank, ends a command, is complete | |
| `ShellText`, `ShellRows` | how the shell writes values, names and rows and reads fields and arguments | `ShellLines` |
| `ShellData` | the shell's commands that move whole tables: `.import`, `.clone`, `.dump`, `.backup`, `.restore` | `ShellRows` |
| `ShellMeta` | the session, the SQL it runs and every dot-command | `ShellLines` |
| `Shell` | `main`, `process_input`, `.read`, Ctrl-C, around `ShellMeta` | `ShellMeta` |
| `MCMfsCalls`, `MCMfsView`, `MCMfsIO`, `MCVfs`, `MCPaths`, `MCMkfs`, `MCShellData`, `MCShell` | instances for TLC: symmetry, and the inputs that are given | |

### Volumes: `Fat`, `FatBytes`, `Mfs`

`fat` is the table of the 2-byte layout, the only one with which the formatters
make a usable volume (below 256 clusters the FAT gets no sectors, from 65536
clusters on no width fits). Beside the indices `2..MaxIndex` it has the index 0:
the bytes before the FAT behave as one more index. `disk` is the data region, a
flat array of 64-byte slots, eight to a cluster in the code and `CS` in the
model: the size of a directory entry, and the unit in which the model counts
content. It is flat because a write may run over the end of its cluster. A slot
holds a directory entry, a piece of file content, or zeros; file content is
assumed never to look like an entry. `status` becomes "wrecked" when a call
writes over the FAT (cluster 0) or with a length that has gone below zero: the
model says nothing of the volume after that, as nothing can be said.

`bytes`, in `FatBytes`, is the volume from the super block to the first data:
six bytes for the super block, of which the last four are padding (in the code
512, with `end_of_sb` ending at 508), two sectors of the FAT and some data. Its
operators compute positions as `fat.c` does, in unsigned words, which is how
index 0 comes to lie in the padding. A byte has 4 values, so that the end mark,
0xFFFF in the code, is 15; the machine word has 64.

Each action of `Mfs` is one whole call. `mfs_create(p, n)` and `mfs_mkdir(p, n)`
are `__mfs_create` and `__mfs_mkdir`: `find_empty_fat_index`, the mark, then
`alloc_new_dirent` with the first free slot of the directory or one more
cluster. Neither looks whether the name is there. The kernel asks its dentry,
which `mfs_mkdir` leaves negative (`namei.c:109`, `namei.c:164`), so a directory
made twice is listed twice, with no overlap and no crash. `WriteFile(p, n, off,
buf)` is `write_sqlite_file`, the same as `mfs_write`: `get_dentry`,
`write_file` (inside the chain: `WriteInChain`; past its end: `WriteExtending`,
by one cluster only) and `alloc_new_entry`. `valid_len` is the length arithmetic
of `write_file`. Reading changes nothing; `read_file` and `Content` are
operators that the views and the properties use. An operation that runs over a
chain is an operator on `Walk(f, h)`, the function from the number of reads of
the FAT to the cluster reached; `find_empty_fat_index` is the set of its
possible answers, because of the bytes behind the sector buffer.

`Next` has every client: any name, whether it is there or not, any offset, any
length. `NextLookedUp` has those that look a name up on the volume before they
make it (`CreateNew`, `MkdirNew`), as `open_sqlite_file` does, and the kernel as
long as its dentry says what the volume does. `NextAtEnd` has those of them that
write as `create_dummy` and `cp` do: at the end of the file, and not over the
end of a cluster from its middle. `MfsView` adds two variables, the directories
and files that lookup and read show, computed from the volume in every state.
`CreateDummy` adds the buffer, the offset and the place in the loop; `MfsCalls`
the arguments and the result of the last write.

### Transfers and crashes: `MfsIO`

`calls[c]` is what caller `c` has in its variables: the call, its place (`pc`),
the cluster and the index it is at, the entry and the cluster it has copied;
`pos` is the one file position. A step is a `Seek`, the read of the super block
(`ReadSb`), or a `Transfer`, whose effect (`ReadCluster`, `ReadIndex`,
`Walking`, `ReadSector`, `WriteIndex`, `WriteDirent`, `WriteData`,
`WriteCluster`) is that of the code up to its next seek. `seen` is the volume as
it was when the last call returned: the variable through which `MfsIO` is shown
to implement `Mfs`. A creation begins with the lookup, so that what it makes is
an action of `NextLookedUp`; what the kernel makes without one is in `Vfs`.
`Crash` kills the callers between any two steps; what was transferred is on the
volume, the rest is not, and new calls begin on what is there. `torn` remembers
a crash between the two writes that grow a chain.

Left out: reads of the super block in a row are one; `mfs_read`, which changes
nothing; the last read of a lookup, at the position the end mark stands for,
whose result nothing looks at. Assumed: transfers are complete and reach the
volume in the order in which they are made. When another caller has sought in
between, a transfer happens in the wrong place and what follows is anybody's
guess; such histories end there (the transfer is not enabled), so what is said
of two callers is what happens when each transfer is where it should be.

### Cache: `Vfs`

`vol` is the sequence of the directory entries in the order they were made (that
is all a search depends on, as nothing is ever taken off a volume), `cache` the
dentries by path: what each says there is, and whether it has that from the
volume, from an operation that told only one of the two, or from one that pins
the dentry too. `handle` and `listing` are an open file and an open directory. A
write goes where the handle stands (`Write`) or, as `pwrite` has it, anywhere
(`Pwrite`); a read moves the handle (`mfs_read`), and there is no other way to.
The kernel's part (`simple_*`, dropping a dentry, unmounting) is external,
modelled from how `namei.c` and `super.c` name it. Bounds: `MaxEntries`, one
file or directory open at a time, and `MaxSize`, of the sizes together and of
where a `pwrite` ends; what is open is not removed. The volume does not fill up
here.

### Paths: `Paths`

A path is the sequence of its names. `tmp` are the static path buffers of
`util.c`, `last` the position of `strtok`: in which caller's buffer, or in
nobody's. A caller spells its path dentry by dentry (`Spell`, `Copy`), then
walks it (`First`, `Match`, `Load`, `CutName`, ...): `strtok` loads its position
and stores it in two steps, and leaves its marks in the buffer it cuts.
`CutDead` is a cut in the buffer of a call that has returned: anything may be
there. `program` is the kernel, with several threads, or the shell, whose
`open_sqlite_file` looks up and then creates with one route.

### Formatters: `Mkfs`

One run: `Options` (`parse_size`, the checks of `main`), `create_loopback` or
`open_device`, `make_data_cluster`, `create_volume` with `initialize_sb`,
`make_fat`. Sizes and positions are bytes, as in the program; only the word has
`W` bits, so that products that wrap can be reached. `SectorsOfFat` is the cast
of `mkfs.c:114` as the macro of `mkfs.h:13` expands: the bytes of the FAT modulo
2^16, then divided by 512. `before` is what of the volume's old content is still
there, `zeros` what was zeroed, `mark` where the root's mark went.

### Shell: `ShellLines` to `Shell`

A text is a sequence of characters, from an alphabet of those the code tells
apart. The conversions of `ShellText` are recursive operators, so nothing is
proved about it and the two modules on it; what `Shell` needs, the lines of SQL,
is in `ShellLines`, as recursive functions. `ShellData` runs one command at a
time on a table or a database that may be damaged (`bad`), while
`interrupt_handler` and the `Write` of another process come in between; SQLite
is modelled by what the shell sees of it: an INSERT that is interrupted rolls
the transaction back (`sqlite3.h:2048`), an interrupt is in force until no
statement runs (`sqlite3.h:2052`), a connection keeps its read transaction while
one of its statements is active, and a backup starts over when its source is
written. `ShellMeta` has the session, `s`, and one operator for each command or
kind of command: the set of the ways it may be left, one for each return of the
code and each outcome of SQLite. `Shell` walks through the arguments twice, as
`main` does, and keeps the inputs it is in as a stack (`frames`), because
`.read` reads inside of an input.

Simplifications: a command is given by its full name (the table of abbreviations
is left out), a name stands for a file or database that can be opened or (in
`Unopenable`) cannot; `pclose` and `fclose` are not told apart; truncation of
separators, the indentation of EXPLAIN, and what `.show`, `.help`, `.dbinfo` and
`-stats` print are left out; `-backslash` is read and has no effect, because the
SQL of the model has no backslashes; `.dump` treats SQLite's bookkeeping tables
as tables.

Operators called faulty variants (`ProbedByNeighbour`, `LinkOnly`, ...) are
definitions with a plausible bug; no specification uses them. Put in place of
the definition they vary, each makes TLC report a property of a run violated,
which shows that the property is about the code.

## 3. What is checked

| Run | Instance | Properties | States |
|---|---|---|---|
| `any` | 3 indices, clusters of 2 slots, 2 names, depth 1, writes of 1..2 slots at offsets 0..3 | `TypeOK`, `NoMergedChains`, `ChainsSound`, `FirstEntryStays`, `FittingWritesReadBack` | 155903 |
| `content` | 6 indices in 2 sectors, clusters of 1 slot, 2 names, 2 contents, depth 1, files of up to 2 slots | `SizeFitsChain`, `UsedOrBlank`, `OnlyAFullVolumeIsWrecked`, `ImplementsFileStore` | 14548 |
| `bytes` | 6 indices in 2 sectors | `FindAgrees`, `ImplementsFatCalls`, `OutsideIntact` | 44599 |
| `copy` | 4 indices in 2 sectors, clusters of 2 slots, host files of 0..7 slots of 2 contents | `CopiedSoFar`, `CopyEnds` | 4367 |
| `io` | one caller, one crash, 3 indices in 3 sectors, clusters of 1 slot, 2 names, depth 1 | `CrashKeepsChains`, `CrashLosesOneCluster`, `ImplementsMfs`, `CallsReturn`, `EntriesAndContentStay` | 781035 |
| `vfs` | two names at the root and one in each of them, 3 entries, 2 units of data, 1 name to a buffer | `TypeOK`, `CacheAgrees`, `ListingIsWhole`, `HarmOnlyByCache`, `StatCoversFile` | 845660 |
| `paths` | 2 callers, 2 calls, paths of up to 3 names | `HarmNeedsOverlap`, `FirstNameSurvives`, `CallsEnd` | 150779 |
| `mkfs` | sizes and devices around each boundary, a word of 30 bits | `SizesAreMeant`, `LayoutHolds`, `WritesWhatItShould` | 76250 |
| `data` | texts of up to 4 characters of 9; files of up to 2 records; 3 tables of 2 rows, up to 2 damaged places; 3 parts of a database, 2 foreign writes, 3 Ctrl-C | `TextsReadBack`, `ImportKeepsRecords`, `ImportLeavesTransaction`, `CopyIsWhole`, `CommandEnds` | 865125 |
| `shell` | up to 4 lines of one of 5 menus, after 16 command lines | `HandlesOpen`, `OnceOnce`, `LinesRunOnce`, `ExplainRestores`, `StopsWhenTold` | 1422224 |

* `any` is the run for the full volume and for clients that write anywhere and
  make any name again: whatever they do, the first entry of a name stays the one
  that every search finds, so that a path leads where it led and a write updates
  the entry it started from (`FirstEntryStays`), and nothing but making a name
  again lists it twice. A write of two slots starting inside a cluster runs into
  the next one, which may be a directory; a volume of three clusters is full
  after two creations or one growth; offsets go up to the third cluster of a
  file that has one.
* `content` is about what clients see. With one slot per cluster every second
  entry makes its directory grow, in both sectors of the FAT, and a new cluster
  may be one that was passed over before. `ImplementsFileStore` is the
  refinement: every call that does not wreck the volume creates one node, or
  extends one file by a non-empty prefix of the buffer, and leaves every other
  node and its content as it was.
* `bytes` justifies `Fat`: the bytes read as its table, and each call finds and
  changes in the bytes what the operator of `Fat` does in the table
  (`ImplementsFatCalls`, a refinement); the search gives all of its answers and
  no other (`FindAgrees`).
* `copy` runs `mdbfs` from the formatted volume to the end: four clusters, of
  which the root has one, the probe is sure to find one and finds the last of
  each sector when it is lucky; host files that fit, that fit only when the
  probe is lucky, and that do not fit.
* `io` justifies the atomicity of `Mfs`: without a crash every call, made of its
  transfers, changes the volume as the action of `Mfs` does (`ImplementsMfs`),
  and returns (`CallsReturn`). With a crash anywhere but between the two writes
  that grow a chain, chains stay apart and end, no file has a size its chain has
  no room for, and at most one cluster is lost.
* `vfs` finds where cache and volume part: every harm (a duplicate name, a
  lookup that hangs, a write through a wrong entry) needs a name that `mkdir`,
  `mknod`, `link`, `unlink`, `rmdir` or `rename` changed on one side only. A
  file has more that stat does not report only after a write under a name of
  which that is true, or after a `pwrite` (`StatCoversFile`).
* `paths`: every harm needs two overlapping calls; names at the root are safe
  even then; and the shell's create goes to the first directory of its route.
* `mkfs`: no volume that is made has an index that looks like a mark, and none a
  FAT that runs into its data (`FatAssumption`); from 256 to 32767 clusters, and
  on no other volume, every cluster of data has an index and the root's mark is
  in the FAT, as `Init` of the other modules has it; and a volume made with
  `--auto` is the blank one of `Init`.
* `data` and `shell`: what the shell does to data, and to itself. The menus of
  `MCShell` group lines that touch the same state (streams, looks, SQL text,
  scripts and errors, every other command), because any line may follow any
  other and a run over all would not end; each has the lines that open, use,
  fail and end what the group is about, and four lines are the least for
  open-use-change-end; after the odder command lines two lines follow, which
  meet what the arguments left. The command lines have each kind of option,
  `-cmd`, `-init`, SQL and dot-commands as arguments, and names that cannot be
  opened.

Why the bounds are enough: the code treats all indices alike but for the first
(the root), the last of a sector and the last of the table, and all slots alike
but for the first and last of a cluster; each instance has these and at least
one of the others or a second sector. Two names are the least for which one
update can hit the wrong entry; two contents the least for which data can be
exchanged; one crash the least, and a second finds the same kinds of volume once
more. Two callers of `paths` are enough for one position to be another's.
Damaged places come in twos because a table is read from both ends. `MaxSize`
bounds when a write is issued (`size + length <= MaxSize`): the code has no such
bound, and no property is about it. `MaxDepth` bounds the paths. `mkfs` has a
list of boundary values, not a range.

`CHECK_DEADLOCK FALSE` is given because the systems do stop: when the volume is
wrecked, when every name of every directory is taken and the files have reached
`MaxSize`, when a copy, a formatter, a command or the shell is done, and where a
bound on calls is reached. Symmetry is over names and contents, which no action
and no property prefers; no run with a liveness property uses it.

### Fairness

Every fairness condition is weak and is that of a sequential program that waits
for nobody: `CreateDummy` of its next step, `MfsIO` and `Paths` of each caller's
next step within a call (a caller may never begin another), `ShellData` of the
next step of the command that runs. Ctrl-C, crashes and other processes are not
fair: they may come or not. `MfsIO` with one caller needs nothing of a
scheduler; in `Paths` the callers are threads that the kernel goes on running.
`CommandEnds` rests on the bound on foreign writes: a backup starts over
whenever its source is written, and would go on for ever under a writer that
never pauses. `Mfs`, `Vfs`, `Mkfs` and `Shell` state none.

### Where code and comments disagree

Two runs are expected to end with a violation. Each checks what a comment says
of a function and shows the shortest history in which the code does otherwise:

* `call_size`: overwriting makes the file longer (`file.c:311`; `namei.c:230`).
* `io_lost`: two callers; the update of a file's entry writes back the cluster
  as it was read, and with it undoes the creation of another entry
  (`entry.c:457`; `entry.c:388`).

The properties of `content` and `copy` hold because their clients look a name up
before they make it and do not overwrite, and those of `io` because there is one
caller.

### What the properties leave out

These the model does, and the properties above exclude by what they say. No run
is spent on them:

* Files: a short write over the end of its cluster computes a length below zero
  and returns it (`file.c:261`); one of a cluster or more that starts inside a
  cluster writes past it, out of the file (`file.c:266`); on a full volume
  entries get cluster 0 (`file.c:215`, `dir.c:479`); the search passes over an
  empty index (`fat.c:114`).
* Overlap: a transfer at a position another caller sought (`volume.c:94`); an
  index handed out twice (`fat.c:117`).
* Crash between the two writes that grow a chain: the chain runs into an unused
  cluster, and a walk or a search never ends (`entry.c:292`).
* Cache: unlinked names come back when the dentry goes; a directory made twice;
  listings cut at the size of the buffer; `stat` of a directory reports whatever
  was on the stack.
* Formatters: below 256 clusters the FAT has no sectors and the root's mark lies
  in the root's own cluster; from 32768 clusters (16 MB) on the cast at
  `mkfs.c:114` leaves a FAT that is too small, at 16 MB one of no sectors, and
  the clusters at the end of the volume have no index; from 65536 on the width
  is 0 and the formatter gives up, after it has written the super block. Both
  copies of the FAT are used as one table, about half of whose indices lie past
  the end of the volume. On a device the zeros go behind what is there. `-c`
  only controls the zeroing; ` -1` is a size; a refused cluster size leaves an
  empty volume file behind with `--auto`.
* Shell, streams: SQL that is an argument never ends `.once`, any dot-command
  does; `.once` as the last line of a script is undone at the end of `.read`;
  early returns of commands do not count.
* Shell, databases: `.open` of a file that cannot be opened closes the database
  there was, and may leave Ctrl-C without a connection; after `main` has closed
  its connection Ctrl-C still goes to it; the value of `-heap` is taken for the
  name of the database in the first pass.
* Shell, input: text that a line without a semicolon completes is not run; `go`
  after pending text that ends in a `--` comment is not seen; `.quit` in a
  script ends only the script; `.bail on` after an earlier error ends the script
  at once; Ctrl-C in a script that is an argument lets the next arguments run,
  and Ctrl-C just before `.import` is lost.
* Shell, texts: `resolve_backslashes` has a `\s` in its comment and none in its
  code; `output_csv` writes the text for NULL unquoted; `.explain off` does not
  bring back the separators `.mode` set; an ascii record whose first field is
  empty is taken for the end of the file.
* Shell, copies: the table `.import` makes is made outside of its transaction;
  `.clone` reads a damaged schema again from the end after Ctrl-C and then has
  keyless rows twice; `.dump` ends with COMMIT after Ctrl-C between two tables,
  or in the query for the columns of a table (`shell.c:1681`), which is then in
  the dump without its rows.

## 4. What is proved

The theorems hold for every value of the constants that satisfies the named
assumptions (`FatAssumption`, `MfsAssumption`, `FatBytesAssumption`,
`MkfsAssumption`, `VfsAssumption`, `PathsAssumption`, `MfsIOAssumption`): every
size of the FAT, of a sector, a cluster, a byte and a machine word, every set of
names and contents, every tree of paths, every number of callers, every bound on
paths, writes and sizes and crashes, every command line and everything that may
be typed. The theorems of `IOProofs` have hypotheses of their own, which are
those of the run `io`: there is one caller (`OneCaller`), and, where crashes
come in, clients write at the end of their files (`AtEndOnly`). All but
`AtEndIsAllowed` and `LookedUpNamesAreUnique` state a property that a run
checks.

| Theorem | States | Module |
|---|---|---|
| `TypeCorrect` | `Spec => []TypeOK` | `MfsProofs` |
| `ChainsNeverMerge` | `Spec => []NoMergedChains` | `MfsProofs` |
| `ChainsAlwaysSound` | `Spec => []ChainsSound` | `MfsProofs` |
| `AtEndIsAllowed` | `SpecAtEnd => Spec`: all of these hold of the clients of `content` and `copy` as well | `MfsProofs` |
| `FirstEntryAlwaysStays` | `Spec => FirstEntryStays` | `MfsProofs` |
| `LookedUpNamesAreUnique` | `SpecLookedUp => []NamesUnique`: no directory lists a name twice if names are looked up before they are made | `MfsProofs` |
| `SizeAlwaysFits` | `SpecAtEnd => []SizeFitsChain` | `MfsProofs` |
| `NothingIsLost` | `SpecAtEnd => []UsedOrBlank` | `MfsProofs` |
| `OnlyFullIsWrecked` | `SpecAtEnd => OnlyAFullVolumeIsWrecked` | `MfsProofs` |
| `FittingWritesWork` | `CallSpec => []FittingWritesReadBack` | `ClientProofs` |
| `ViewIsAFileStore` | `ViewSpec => ImplementsFileStore`, the refinement | `ClientProofs` |
| `CopyIsFaithful` | `CopySpec => []CopiedSoFar` | `ClientProofs` |
| `CallsImplementMfs` | `OneCaller => (IOSpec => ImplementsMfs)`, the refinement | `IOProofs` |
| `CrashesKeepChains` | `OneCaller /\ AtEndOnly => (IOSpec => []CrashKeepsChains)` | `IOProofs` |
| `CrashesLoseOneCluster` | `OneCaller /\ AtEndOnly => (IOSpec => []CrashLosesOneCluster)` | `IOProofs` |
| `CrashesKeepContent` | `OneCaller /\ AtEndOnly => (IOSpec => EntriesAndContentStay)` | `IOProofs` |
| `SearchAgrees` | `Spec => []FindAgrees` | `FatBytesProofs` |
| `FatCallsStayInside` | `Spec => OutsideIntact` | `FatBytesProofs` |
| `BytesAreATable` | `Spec => ImplementsFatCalls`, the refinement | `FatBytesProofs` |
| `AcceptedSizesAreMeant` | `Spec => []SizesAreMeant` | `MkfsProofs` |
| `LayoutsHold` | `Spec => []LayoutHolds` | `MkfsProofs` |
| `OnlyBlanksAreWritten` | `Spec => []WritesWhatItShould` | `MkfsProofs` |
| `VfsTypes` | `Spec => []TypeOK` | `VfsProofs` |
| `CacheAlwaysAgrees` | `Spec => []CacheAgrees` | `VfsProofs` |
| `ListingsAlwaysWhole` | `Spec => []ListingIsWhole` | `VfsProofs` |
| `HarmComesByCache` | `Spec => HarmOnlyByCache` | `VfsProofs` |
| `StatAlwaysCovers` | `Spec => StatCoversFile` | `VfsProofs` |
| `HarmTakesOverlap` | `PathsSpec => []HarmNeedsOverlap` | `PathsProofs` |
| `FirstNameAlwaysSurvives` | `PathsSpec => []FirstNameSurvives` | `PathsProofs` |
| `HandlesStayOpen` | `Spec => []HandlesOpen` | `ShellProofs` |
| `OnceIsOnce` | `Spec => []OnceOnce` | `ShellProofs` |
| `ExplainAlwaysRestores` | `Spec => ExplainRestores` | `ShellProofs` |
| `StopsAlways` | `Spec => StopsWhenTold` | `ShellProofs` |

### The volume: a chain of invariants

Each invariant of `Mfs` contains one before it.

* `IInv` is `TypeOK /\ NoMergedChains`. Merging is prevented by three facts that
  need each other: no two indices continue in the same cluster, no index
  continues in an unused cluster or in the head of an entry, and no head is
  unused. A new cluster is taken from `find_empty_fat_index`; that it is unused
  (`FoundIsUnused`) or 0 then says that nothing continues in it and that it is
  nobody's head, so marking it (`MarkKeepsApart`) and linking a tail to it
  (`ExtendKeepsApart`) keep the three. The tail that is linked held the end mark
  before, so no chain loses a part. An entry is only ever added with the head
  just marked (`AllocKeepsApart`), or rewritten with the head it had
  (`StoreAddsNoHead`); data written over entries makes heads fewer
  (`FewerHeads`). The answer 0 needs care at each step: it is in use once it has
  been handed out, and `NoMergedChains` allows several links to it. Type
  correctness needs that a search returns an address that holds what was
  searched for (`SearchIsSound`, `FoundIsEntry`) and that a length that is not
  below zero fits the buffer (`ValidLenFits`).
* `CInv` adds that no two entries have the same head, but 0 (`OwnHeads`). From
  it: a walk that visits a cluster twice would make that cluster the
  continuation of two, or of a head; so a walk visits new clusters until it
  ends, and it ends because there are `MaxIndex` of them (`WalkEnds`); two walks
  that meet have met at their heads. That is `ChainsSound`.
* `NInv` adds that every entry lies in a cluster in use that the chain of 0 does
  not reach, and that no directory has a free slot before one of its entries. A
  name made again therefore comes behind the entry that a search finds, which is
  what `FirstEntryStays` says; and an entry that goes into one directory goes
  into no other, because their chains are disjoint.
* `LInv` adds to `NInv`, for clients that look names up first, that no
  directory's chain holds two entries of one name: the lookup walked all of the
  chain (`SearchComplete`) and found none.
* `FInv` adds to `NInv` that no entry lies in a cluster of a file. A write that
  fits its cluster then changes content and one size, nothing else
  (`FitEffects`), so paths lead where they led (`TreeKept`) and the same entry
  is found again. `FittingWritesReadBack` follows, with the position of an
  offset in the chain (`Walk`, `ExtendedWalk`) and the reader's walk, which does
  not look for the end (`BlindWalkDef`).
* `AInv`, which joins `LInv` and `FInv`, is for clients that look names up and
  write at the end. It adds: a cluster not in use is blank and one in use
  belongs to a head (`BlankUnused`, `UsedOwned`); every entry is listed by a
  directory that a path leads to (`EntryOwned`); the size of a file takes all
  clusters of its chain and no more (`FilesHaveRoom`); and cluster 0 is only
  given out by a full volume, to files that then stay empty (`ZeroIsEmpty`).
  `SizeFitsChain`, `UsedOrBlank` and `OnlyAFullVolumeIsWrecked` are read off it;
  none of them is inductive by itself.

For the refinement of `FileStore` the variables of `MfsView` are those computed
from the volume (`Seen`), and `AInv` gives what the mapping needs: entries form
a tree, with one path to each (`TreeShape`, `OnePath`), and reading a file gives
the slots of its chain in order, which are content (`FilesRead`, `FilesShape`).
A creation is one new node (`NewNode`, `MakeIsPromised`), an append is one file
extended by a prefix (`AppendIsPromised`), a wrecked volume is a lost store
(`WreckIsPromised`).

For the copy, `DInv` is `AInv` with what the loop of `create_dummy` adds: the
one entry of the volume has the size that was copied, its chain holds what was
copied (`Copied`), the root's chain stays one cluster, and the indices in use
are packed: behind one that the probe is sure to see and finds unused, all are
unused. A volume on which the search finds nothing then has no such index left
(`PackedFull`), so that the host file is longer than they are (`TooLong`).

### Calls as transfers, and crashes

In the middle of a call the volume is none that `Mfs` knows, and nothing that
could be said of it alone is kept by the next transfer. The invariants of
`IOProofs` therefore speak of the volume `f0`, `d0` that the call found, and of
what has become of it: `Progress(f0, d0, fat, disk, r)`, where `r` are the
variables of the call, has one case for each phase (on the way to the directory,
looking up, looking for an index, marking the head, growing a chain, writing the
entry, walking to the offset, writing the data, updating the entry). Each gives
the FAT and the data as functions of `f0`, `d0` and `r`, and says of `r` what
the function the call is in has established: the clusters before this one hold
nothing that is searched for (`Comes`, `Passes`), nor do the sectors before this
one an index (`Passed`); this is the end of the chain (`AtTail`); this is the
cluster of the offset (`Reached`). For each transfer there is a lemma that it
takes the call from one phase to the next with the same `f0`, `d0` (`Moves`), or
ends it with a volume that one action of `Mfs` may make of `f0`, `d0`
(`Returns`, `Outcome`); `Effects` collects them.

* The refinement: until a first crash `f0`, `d0` is `seen`, whose chains are
  apart (`RInv`). A seek or a transfer that moves leaves `seen` as it is; one
  that returns is the action of `Mfs` (`OutcomeSteps`). This holds of any
  client. It says nothing of what comes after a crash: the call that was killed
  is half an action.
* Crashes: the next call begins on the volume that a crash has left, so what is
  said of `f0`, `d0` has to survive a crash as well as a call (`XInv`). It is
  weaker than `AInv`, which a crash does break, and still implies the
  properties: chains are apart, each entry has a head of its own and lies in a
  cluster that is in use and that no file has, the chain of a file has room for
  its size (`Sound`); each entry lies in a directory that a path leads to
  (`Owned`); and the clusters in use that are in no chain (`LostOf`) are as many
  as there were crashes, at most. What a call makes of such a volume, at any
  moment but while it grows a chain, is such a volume again (`Midway`,
  `OutcomeLeaves`), with the entries and the content that were there (`Leaves`),
  and has lost no cluster but the one it has marked for an entry not yet
  written. The order of the writes is what makes this so: a chain grows before
  data goes into it, data is written before the size, and an entry after its
  head is marked (`MarkLeaves`, `DirLeaves`, `ArriveLeaves`, `DataLeaves`,
  `EntryLeaves`). While a chain grows it runs into a cluster that is not in use;
  then only the data is known to be what it was (`GrowingData`), which is all
  that `EntriesStay` asks for.

For the content, `ContentKept` compares slot by slot what a reader gets before
and after: an append writes behind the end of its file (`ContentBefore`), and
nothing is written to a cluster of another (`ContentAside`).

### The bytes of the FAT

`BInv`: the bytes are bytes, and every entry, the padding at index 0 included,
reads as a cluster or as the end mark. The rest is arithmetic: positions in an
unsigned word (`PositionIs`), entries that do not overlap (`EntriesApart`), two
bytes to a value (`TwoBytes`), the sector of an index (`SectorOf`), and what the
four-byte probe meets (`ProbeIs`). `SearchIs` then shows that the search over
bytes, with anything behind the sector buffers, has exactly the answers of the
search over the table.

### The formatters

`IInv` of `MkfsProofs` says, step by step of `main`, what has been opened, asked
for and blanked, and that the super block is `initialize_sb(size)`. A size that
`parse_size` accepts does not wrap because a number of `n` bits times one of `k`
has at most `n + k` (`Bits`, `TwoSum`, `TwoGrows`); the geometry is integer
arithmetic on the number of clusters: below 32768 of them the cast takes nothing
from the bytes of the FAT, above it takes 2^16 (`SmallFat`, `LargeFat`,
`LayoutIsSound`).

### The dentry cache

`VInv` joins `TypeOK` and `CacheAgrees` with what they need of each other: a
directory's entry lies before those of what is in it (`Sound`), what is pinned
is a node (`PinnedIs`), an open file's position is not past its size
(`HandleFits`), and what was listed is the head of what there is
(`ListingFits`). The argument is about routes. A route that is right ends in an
entry to which no other path leads (`RouteOnce`: an entry has one directory and
one name, and directories are numbered before what is in them), and an entry
that is added changes no search that had an answer, and no route (`SearchKept`,
`RouteKept`). A dentry that is not local has only such dentries above it, so
that its directory's route is right (`DirRoute`) and the entry added or changed
under its name is the one the cache means. Everything that a rename moves is
local from then on (`RenameKeeps`). Of `HarmOnlyByCache` and `StatCoversFile`
the steps that leave the volume as it is say nothing; the others follow from the
same facts.

### Paths

`PInv` says of each place in a call that no other overlaps what it has in its
variables, in the static buffers and in `strtok`'s position: what is spelled so
far is the end of the path (`Rest`), what is walked so far its beginning
(`Upto`), and the marks are behind the names that were cut off (`CutOff`). When
another call takes a step the first is not alone any more, and nothing is said
of it (`StepKeeps`), but that a name at the root takes no walk (`AtRoot`). That
a call which is alone finds no position in a dead buffer or in another's
(`AloneHolds`) is what makes `CutName` cut in the call's own buffer.

### The session of the shell

A session is a record of which only handles, files, connections and counters are
given types: texts, names and separators are whatever the user gives, and none
of the four theorems depends on them, nor on `SessionsAssumption`. `Inv` of
`ShellProofs` is all of a run between two steps.

* `HandlesOpen` is not inductive: that what is pointed at is open does not say
  that closing one of the three streams leaves the other two. `Sound` adds that
  they are numbers of a finite table (so that there is always an unused one,
  `UnusedHandle`), that a file is pointed at once (`StreamsOpen`), that the two
  connections are two while `.open` has both, the new one being the one Ctrl-C
  goes to (`ConnsOpen`), and that explain mode keeps no mode INSERT without the
  name of the table (`SettingsKnown`).
* Each command is an operator that gives the ways it may be left, and for each
  there is a lemma that all of them leave a session that is sound again
  (`Completed`; `CommandCompletes` puts them together): one that only writes or
  does nothing (`QuietCompletes`), one that opens the database first, whether
  that succeeds or not (`AnswersComplete`), one that changes settings
  (`SettingCompletes`), and a lemma of its own for `.output`, `.log`, `.trace`,
  `.import`, `.open`, `.mode` and `.explain`.
* `.once` is a count that must be over before its file is written a second time
  (`OnceFresh`), also while a command is on its way out, which is where the
  count is taken from (`OnceLeaving`).
* `.explain off` restores what `before` has because `before` is what explain
  mode keeps (`Kept`), and no command changes what is kept while it is on
  (`SettingsStep`).
* After an error under `-bail`, or Ctrl-C, the input that is left has no line
  waiting to be run: `Stopped`, `Interrupted`. These have to hold across the
  return from any number of scripts, so that the stack of inputs is part of the
  invariant: all but the first are scripts (`Stacked`).

### Induction

Two lemmas, `LeastNumber` and `Induction`, carry all inductions: a non-empty set
of numbers has a least element, and a set that holds 0 and every successor of
its elements holds all numbers. They stand in each module that uses them, and
with sets, because a lemma with a predicate as a parameter cannot be used by the
provers; with them it is proved that the recursive functions (`Walk`,
`BlindWalk`, `Route`, `Two`) satisfy the equations that define them, and what
they compute.

### Model-checked only

* Liveness (`CopyEnds`, `CallsReturn`, `CallsEnd`, `CommandEnds`), which is out
  of the prover's reach.
* What two callers do to each other: `io_lost` shows that entries disappear
  then.
* `LinesRunOnce`, and the invariants of `ShellData` (`TextsReadBack`,
  `ImportKeepsRecords`, `ImportLeavesTransaction`, `CopyIsWhole`): they are
  about what recursive definitions compute of every text or table, which takes
  induction over data. The prover has no use for a `RECURSIVE` operator either,
  of which `ShellText` and the modules on it are made.

## 5. What is not modelled

* `progs/sqlite3.h`, `progs/sqlite3ext.h`: declarations of a library. What the
  shell sees of SQLite is chosen in `ShellData` and `ShellMeta`.
* FUSE, `progs/fuse.c`: every call goes to the host file system, the code for
  MFS is commented out. Scripts, build files and images.
* Mount and module: filling the kernel's super block and registering the file
  system keep no state of the program; unmounting is in `Vfs`.
* Index widths other than two bytes on a volume that is in use: no volume works
  with them. `Mkfs` has the widths. Clusters without an index, which volumes of
  16 MB and more have: nothing reaches them.
* A device with old content: `Init` is a volume of zeros, as `--auto` makes it;
  that a device is not blank is in `Mkfs`.
* Long file names (`composite_long_file_name`): reached by no entry the program
  writes. Names longer than the field that holds them.
* I/O errors: the program looks at no result of a transfer.
* Of the shell: see the simplifications in section 2.

## 6. Plan

All modules of the plan are there, and the theorems about the volume, its
transfers and crashes, the FAT, the formatters, the copy, the cache and the
paths: each safety property that a run checks of these is a theorem. What is
left is of the shell: the indentation of EXPLAIN (`explain_data_prepare`), the
table of abbreviations.
