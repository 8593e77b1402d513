# libdmg-hfsplus: a TLA+ verification project

The repository builds three command-line tools on two libraries: `hfsplus` edits
an HFS+ volume in an image file, `dmg` converts between raw images and Apple's
compressed disk images (UDIF, `.dmg`), and `hdutil` reads HFS+ volumes inside
disk images. This directory holds TLA+ models of the parts of it in which order,
failure and bookkeeping can go wrong, TLC configurations that check them on
small instances, and proofs, checked by TLAPS, of what the most delicate of them
guarantees for every size.

To run something: `tlc -config MCAllocator_safety.cfg MCAllocator.tla`,
`tlapm RunPipelineProofs.tla`. `PROJECT.json` maps every definition to the lines
it models, and lists the runs, the hazards and, for each property, a mutation of
a definition that breaks it.

## 1. Inventory

| component | state | operations | status |
| --- | --- | --- | --- |
| **BLKX writer**, `dmg/io.c` | input position, read-ahead buffer, run counter; pending list, run table, output position; two mutexes | `blockRead`, `blockCompress`, `blockQueueAndWrite` in `ncpu + 2` threads; `insertBLKX`, `extractBLKX` | modelled: `RunPipeline` |
| **Attribution hooks**, `dmg/attribution.c` | `keepRaw` automaton, lengths and checksums before, in and after the raw region | `shouldKeepRaw`, `observeBuffers`, `beforeMainBlkx`, `afterMainBlkx` | modelled: `RunPipeline` |
| **Attribution of a finished image**, `dmg/attribution.c` | raw region, stored checksums, property list, trailer | `updateAttribution` | modelled: `DiskImage` |
| **Block allocator, raw files**, `hfs/rawfile.c`, `hfs/volume.c`, `hfs/hfslib.c`, `hfs/extents.c` | allocation bitmap, extent lists, overflow records, fork data, two volume headers | `allocate`, `rawFileRead/Write`, `readExtents`/`writeExtents`/`removeExtents`, `updateVolume`, `grow_hfs` | modelled: `Allocator` |
| **B-trees**, `hfs/btree.c` | nodes, links, header record, node map | `search`, `addToBTree`, `removeFromBTree`, `growBTree`, `debugBTree` | partly: `BTree` |
| **Catalog**, `hfs/catalog.c`, `hfs/hfslib.c` | folder, file and thread records, valences, next ID, counts | `newFile`, `newFolder`, `add_hfs`, `move`, `removeFile`, `makeSymlink`, `updateCatalog`, path lookup | partly: `Catalog` |
| **Extended attributes**, `hfs/xattr.c` | attribute records | get, set, unset, list | partly: `Catalog` |
| **Compressed files**, `hfs/hfscompress.c` | one cached block, dirty flag, attribute, fork | open, read, write, close | modelled: `CompressedFile` |
| **DMG reader**, `dmg/dmgfile.c` | one cached run, partition offset | open, choice of the partition, read | modelled: `DmgFile` |
| **FileVault**, `dmg/filevault.c` | one cached chunk, dirty flags, header | open, read, write, seek, close | modelled: `FileVault`, `EncryptedImage` |
| **Abstract files**, `common/abstractfile.c` | offset, buffer; for a pipe also the file position | read, write, seek, eof, the io_func around them | modelled: `AbstractFiles` |
| **Image builder, converters, partition map**, `dmg/dmglib.c`, `dmg/partition.c` | partition number, offsets, running checksums | `buildDmg`, `convertToDMG`, `extractDmg`, `convertToISO` | modelled: `DiskImage` |
| Resources, UDIF trailer, `dmg/resources.c`, `dmg/udif.c` | resource lists, trailer | `insertData`, property list, `writeUDIFResourceFile` | partly: `DiskImage` |
| Compressors, checksums, base64, Unicode order, byte order | none | pure functions | not modelled |
| Command lines | none | one library call each | not modelled |

### How the components interact

```
 dmg build/dmg/iso       hfsplus commands               hdutil
      |                       |                            |
   dmglib  --beforeMainBlkx-> attribution                  |
      |    <--raw? observe--    ^                          |
  BLKX writer (threads) --------'    catalog  xattr -- hfscompress
      |                                 \      /
  resources, UDIF trailer                B-trees
                                            |  a tree is a file that grows
                                        raw files  <-- block allocator (bitmap
                                            |               is a file too)
                                        io_func: flat file | DMG reader | FileVault
```

* **Shared state, locks.** Only the BLKX writer is concurrent. Its two critical
  sections call the attribution hooks.
* **Recursion through the layers.** A raw file that grows changes the bitmap,
  which is a raw file; its overflow extents go into a B-tree, which is a raw file;
  its fork data goes into the catalog, which is a B-tree. A failed `allocate`
  surfaces several layers up, mostly in a return value nobody looks at.
* **Failure.** `ASSERT` (`includes/common.h:35`) and `hfs_panic`
  (`hfs/utility.c:5`) end the process wherever it stands, with the volume as far
  written as it is. Nothing is journalled.

### What is hard, and what correctness means

* *BLKX writer*: threads finish runs in any order. Correct: the image is the one a
  single thread would have written, whatever the schedule and the sizes
  compression yields; the caller gets its threads back.
* *Attribution hooks*: the verdict over a run depends on its neighbour, which
  another thread may hold. Correct: the sentinel is inside a raw, contiguous
  region, and the three recorded lengths split the file at it.
* *Allocator*: cursor, current extent, `nextAllocation` and the block counter must
  agree when blocks are taken, when the volume is full, and when it is enlarged.
  Correct: no block has two owners, bitmap and free count tell the truth, files
  keep their bytes, and a stop at any write loses no file that was complete.
* *B-trees*: a change cascades through splits, removals, longer keys and growth.
  Correct: what `debugBTree` checks, and that the tree holds exactly the keys its
  callers put there.
* *Catalog*: record, thread, the parent's counters and the header agree about every
  file, and each is written on its own. Correct: callers see a tree of names, and a
  stop between two writes damages one entry at most.
* *DMG reader, FileVault, compressed files*: each keeps one piece of a file in memory
  and moves a position behind its caller's back. Correct: it reads as a flat file does,
  whatever was read before; what was written and closed is what is opened again.
* *Abstract files*: standard input cannot go back, yet programs seek in it. Correct: a
  program that stays within what a kind of file can do cannot tell the kinds apart.
* *Image builder, attribution of a finished image*: data fork, run tables, partition
  map, checksums and trailer are written by different functions that repeat each
  other's arithmetic. Correct: they describe one device, the one that went in; and an
  image that was attributed is the one that would have been built.

`PROJECT.json` lists the places where these can go wrong ("hazards"), each at its
line, with the properties that watch it, or the reason why none does.

## 2. Modules

| module | what it is |
| --- | --- |
| `SequentialImage` | abstract: the runs of an image, appended in order |
| `RunPipeline` | the BLKX writer with its threads and the attribution hooks |
| `RunPipelineProofs` | theorems about `RunPipeline`: its order, its data, its refinement |
| `DiskImage` | the commands of `dmg` on whole images; uses `SequentialImage` for `insertBLKX` |
| `DiskImageProofs` | theorems about `DiskImage` |
| `FileStore` | abstract: every file is a sequence of units of its own |
| `Allocator` | block allocator, raw files, volume header, growth |
| `AllocatorProofs` | theorems about `Allocator` |
| `BTree` | B-trees |
| `Namespace` | abstract: a tree of names, whose entries keep their identity |
| `Catalog` | catalog operations and attributes over trees that are maps |
| `CatalogProofs` | theorems about `Catalog`: its records and its counters |
| `NamespaceProofs` | the theorem that `Catalog` implements `Namespace` |
| `ByteFile` | abstract: bytes and a position; what every kind of file promises |
| `AbstractFiles` | plain, memory and piped files, and the io_func around them |
| `AbstractFilesProofs` | theorems about `AbstractFiles` |
| `CompressedFile` | a compressed file of a volume, from opening to closing |
| `CompressedFileProofs` | theorems about `CompressedFile` |
| `DmgFile` | a disk image read as a device |
| `FileVault` | an encrypted file |
| `EncryptedImage` | composition: `DmgFile` on a plain file or on a `FileVault` |
| `EncryptedImageProofs` | theorems about `DmgFile`, `FileVault` and `EncryptedImage` |
| `MC...` | constants for TLC |

Operators named in a "Variant" comment are the mutated forms of the definition
that follows them. No behaviour of `Spec` uses them.

### RunPipeline (`dmg/io.c`, `dmg/attribution.c`)

Variables carry the names of the fields of `threadData`. Each worker has a program
counter: `loop` (wants `inMut`), `take`, `ahead` (inside it), `compress` (no lock),
`queue` (wants `outMut`), `write`, `advance` (inside it), `done`.

| action | code |
| --- | --- |
| `LockIn`, `Leave`, `ShortRead` | `blockRead` up to the early return and the `ASSERT` of a short read |
| `TakeBlock` | the block takes over the read-ahead buffer, pads it, counts |
| `ReadAhead` | `readNext`, the `keepRaw` automaton, unlock |
| `Compress` | `blockCompress`: raw if wanted or if 15 sectors are not gained |
| `LockOutAndQueue` | lock, `blockQueue` |
| `WriteBlock`, `Advance`, `UnlockOut` | one turn of `blockWriteAll`, and its end |
| `Finish` | joins, terminator run, `afterMainBlkx` |
| `ExternalFailure` | `malloc`, `compress`, `write` or `pthread_*` fails: `exit(1)` |

A critical section is two or more steps wherever it reads and then writes shared
state, so that its atomicity comes from the mutex and is not assumed. Data is the
interval of the input it came from; compression picks any size of
`CompressedSizes`; the sentinel is the set of positions where it starts. Checksums
are represented by what they are fed: the sequence `out`.

### DiskImage (`dmg/dmglib.c`, `dmg/partition.c`, `dmg/attribution.c`, `dmg/resources.c`, `dmg/udif.c`)

An image is a record: the data fork, a sequence of cells of which each is a sector or
a compressed run; the `blkx` resources with their run tables; `cSum`, `nsiz` and
attribution resources; the trailer. `w` is the image a command works on, `img` the
last one that was finished. The commands of `dmg` follow each other on the result of
the one before, as in a release pipeline: build, attribute, convert, extract.

| action | code |
| --- | --- |
| `BuildDmg`, `WriteDriverDescriptorMap`, `WriteApplePartitionMap`, `WriteATAPI`, `WriteMain`, `WriteFreePartition`, `WriteTrailer` | `buildDmg`, one action for each part that it writes |
| `ConvertToDMG`, `ReadEntries`, `ConvertPartition`, `FinishConversion`, `ConvertWhole` | `convertToDMG`, with and without a driver descriptor map |
| `ConvertToISO`, `ExtractDmg` | the functions of that name |
| `UpdateAttribution`, `PatchRaw`, `RewriteResources`, `RewriteTrailer` | `updateAttribution`: copy and search, patch, property list, trailer |

A checksum is the sequence it was fed with, and combining two appends one to the
other, so that equal sums mean equal data in equal order. The sectors of the driver
descriptor map and of the partition map say what they are; the code that reads them
back finds what the code that wrote them put there, in the block size it expects.
An attribution that is given an image without attribution resource is taken as
refused. `ContentAssumption` says that no sector of a volume, of the driver or of a
patch looks like one of those that say what they are: what the converter would make of
a volume that begins with a driver descriptor map of its own is not modelled.

### Allocator (`hfs/rawfile.c`, `hfs/volume.c`, `hfs/hfslib.c`, `hfs/extents.c`)

The program has one thread, so an operation runs to its end; `at` names the step
it is at and a step ends wherever something reaches the image. The disk (`used`,
`catalog`, `overflow`, `alternate`, `primary`, `image`) is kept apart from memory
(`hdr`, `fork`, `ext`), so that every state is also a crash.

| action | code |
| --- | --- |
| `Open`, `Close`, `SetSize`, `WriteFile` | `openRawFile`, `readExtents`, `closeRawFile`, `allocate` and `rawFileWrite` as the commands call them |
| `GrowTree` | `growBTree`'s call of `allocate` |
| `GrowVolume`, `Enlarge`, `Reserve`, `Mark` | `grow_hfs` |
| `Refuse`, `BeginGrow`, `Skip`, `Take`, `Shrink`, `Keep` | `allocate` |
| `SaveExtents` | `writeExtents` with `removeExtents`, overflow records |
| `SaveAlternate`, `SavePrimary`, `SaveCatalog` | `updateVolume`, `updateCatalog` |
| `WriteData` | the copying loop of `rawFileWrite` |

The catalog and the overflow tree are maps here. `updateCatalog`, a removal and an
insertion in the code, is one step; `Catalog` has the state between the two. A byte
of the bitmap that lies beyond its file is read from uninitialised memory by the
code: `Mark` lets it be anything and `wild` remembers that it was not clear.

The block that `allocate` takes is zeroed at `curBlock * blockSize`, a product of 32
bits (`hfs/rawfile.c:91`), which on a volume of 4 GiB or more is the place of another
block: `Take` zeroes the block `Sought`, with whatever it holds - data, bits of the
bitmap, a volume header, nodes of the tree - and marks the one it was to take. What a
program does with a tree that lost a node this way is not followed (`adrift`).
`Reach` is the number of blocks that the product tells apart, and a volume is `Narrow`
as long as it has no more.

### BTree (`hfs/btree.c`)

`tree` holds the nodes, the header record and the map; an action is one call by a
user of the tree: `AddKey` (`addToBTree`), `RemoveKey` (`removeFromBTree`),
`UpdateKey` (`updateAttributes`: search, remove, add). The recursive functions of
the code take a tree and return one, in the order in which the code touches the
nodes. `tree.file` is the number of nodes the tree's file has room for: a clump more
each time the tree grows or, once the volume has no clump left, one node more each time
a node behind the last is written (`hfs/btree.c:770`, `hfs/rawfile.c:225`), until the
volume is full and the write ends in an `ASSERT`. Keys are numbers in the order of `COMPARE` with sizes of their own, and a
record is never split from its size, since room in a node is what decides between
inserting, splitting and rekeying. `status` says whether the program runs, has
panicked, has been ended by an `ASSERT`, or has written a record over a node's
offset table (`overrun`); what happens after that is not followed.

### Catalog (`hfs/catalog.c`, `hfs/hfslib.c`, `hfs/xattr.c`)

`cat` maps a parent's ID and a name to a record, and an ID without a name to its
thread. An operation reads everything it needs when it is called, as the code does,
and leaves the writes it is going to make in `todo`; every write is a step, so that a
state with writes left is one the process may stop in. `hdr` is the header in memory,
`disk` the saved one. Two history variables name what the code spoils: `drift`, whose
counters an operation has miscounted, and `lost`, what was made at, or moved to, a
name that was taken.

| action | code |
| --- | --- |
| `NewFolder`, `AddNewFile`, `AddToFile` | `newFolder`, `newFile`, `add_hfs` with `writeToHFSFile` |
| `Move` | `move` |
| `RemoveEntry` | `removeFile` up to its first write; `Removal` lists the writes |
| `ChangeInfo` | `chmodFile`, `attrFile`, `chownFile` |
| `SetAttribute` | `setAttribute`, `updateAttributes` |
| `DropRecord`, `PutRecord`, `AddAttribute`, `UnsetAttribute` | one call of `removeFromBTree` or `addToBTree` |
| `BeginUpdate` | `updateCatalog` up to the removal |
| `StripAttributes` | `getAllExtendedAttributes`, called after the record is gone |
| `UncountEntry`, `SaveHeader` | `fileCount--`, `folderCount--`; `updateVolume` |

`newFolder` and `move` do not look whether the name they are given is taken, and
`addToBTree` leaves a record that is there alone and reports success. So a folder that
is made twice costs an ID, a thread and a count that belong to nothing, and what is
moved to a taken name is gone with everything under it. Both are calls like any other
in the model; `Namespace` names them (`NeverThere`, `Vanished`). `add_hfs`, the only
caller of `newFile` that is modelled, does look.

### AbstractFiles (`common/abstractfile.c`)

`file` is one of five kinds; `bytes` is what is behind it, `head` and `filePos` the
buffered part and the stream position of a pipe. The actions are the operations of the
interface: `Read`, `Write`, `Seek`, `GetLength`, and `IoRead` and `IoWrite`, the
`io_func` that positions and reads in one call without looking at what `seek`
answers. `status` says how an operation that is not answered ends: `exited` (an
`ASSERT`), `stuck` (an endless loop), `wild` (memory outside a buffer), `astray` (a
read from a place that was not asked for), `refused`.

### CompressedFile (`hfs/hfscompress.c`)

`attr` is the attribute, `fork` the resource fork as a sequence of cells, `handle` the
block in memory. Compression is a function that either makes a block shorter or, for
noise, does not. `attr` also says whether the volume has an attributes tree at all
(`NoTree`): without one `setAttribute` writes nothing.

| action | code |
| --- | --- |
| `Open`, `Close` | `openHFSPlusCompressed`, `closeHFSPlusCompressed`, which writes if something was changed |
| `Read`, `Turn` with `LoadBlock` | `compressedRead`, one turn of its loop, which loads a block |
| `Write`, `Turn`, `Change` | `compressedWrite`: the whole file is gathered, then changed |
| `SaveInline`, `SaveBlock`, `SaveHead`, `SaveTable`, `SaveEnd` | the writes of `closeHFSPlusCompressed`, in their order |
| `ClearAttribute`, `SetAttribute` | `setAttribute`, the last of them: the attribute that is there is removed, the new one is added |
| `Stop` | the program ends there; the file is opened again |

### DmgFile, FileVault, EncryptedImage (`dmg/dmgfile.c`, `dmg/filevault.c`)

`DmgFile` has one run in memory (`cache`) and one call under way (`call`). `Look` is
`cacheOffset`, `Fetch` and `Arrive` are `cacheRun`, `Copy` is the `memcpy` of
`dmgFileRead` and its call of itself. `Open`, `ReadFirstEntry`, `ReadMap` and `Select`
are `openDmgFile` with `seekDmgPartition`, which reads the partition map through the
same function before the position of the volume is known. A copy out of memory that
holds nothing for the place ends in `wild`.

`FileVault` has one chunk in memory (`vault`). `VaultRead` and `VaultWrite` begin a
call, `ReadTurn` and `WriteTurn` are one level of its recursion, `VaultSeek` and
`OpenVault` cache a chunk, `VaultClose` is `fvClose`. A chunk of the file remembers
the number it was encrypted with, and gives garbage under another.

`EncryptedImage` puts them together: a reader of a plain image, a reader of an
encrypted one, whose `cacheRun` becomes a seek (`AskPlace`, or `NeedNot` when the
run is not read from the file), a read (`AskBytes`) and an answer (`Deliver`), and a
program that uses the vault itself (`DirectUse`), including the writes of bytes that
are there already, which are all that `fvWrite` accepts.

## 3. What the runs show

Runs that pass:

| run | instance | question |
| --- | --- | --- |
| `pipeline_safety` | 3 threads, 0 to 4 runs, 12 inputs, any call may fail | is the image the sequential one, and are all threads joined? |
| `image_commands` | 7 volumes, 2 block sizes, 5 patches, up to 3 commands in a row | does every finished image describe itself, and hold what went in? |
| `allocator_safety` | 6 blocks, may grow to 8, 9 or 12, of which a 32-bit offset reaches 9; 2 files, a B-tree, the bitmap; 2 extents per record | do files keep their blocks and bytes, also across a stop? |
| `btree_tree` | 5 keys of 2 lengths, 2 or 3 records per node, 8 nodes, the first 7 in clumps of 2 | does the tree stay consistent and complete? |
| `catalog_safety` | 2 names, paths of 2, 2 entries in a volume's life, 2 modes, 2 attributes | do callers get a tree of names, whole after every operation? |
| `files_kinds` | 5 kinds of file, up to 4 bytes, a pipe whose head is 2 | is a file a file, whatever is behind it? |
| `image_reader` | 4 images, each plain, encrypted and used directly | does a device read as the tables say, whatever was read before? |
| `compressed_save` | files of 0 to 2 blocks, inline, in the fork and without an attributes tree, 2 writes, a stop anywhere | is what was closed what is opened? |

**`pipeline_safety`.** `RunTableFits`: the table is never indexed beyond its memory.
`RoundTrip`: after the join `extractBLKX` over the finished table gives back every
unit of the input, with zeros for the padding and nothing else. `AttributionSplit`:
the recorded lengths split the file at the raw runs, which are adjacent.
`SentinelStaysRaw`: a whole copy of the sentinel lies in them.
`ImplementsSequentialImage`: the threads refine `SequentialImage`, in which the input
alone decides which runs are raw. `Terminates`: the caller gets its threads back.
`FullInv` is the invariant of the proofs; section 4 has what follows from it.

**`image_commands`.** `SumsDescribeImage`: the trailer, every run table and the
attribution resource hold the checksum of what the image holds, also in the copy that
a refused attribution leaves behind. `TablesTile`: tables cover the device, runs cover
their table and the data fork, without gap or overlap, and the partition map inside
the image says what the tables say. `HoldsInput`: an image holds the volume it was
built of, or what a 32-bit size leaves of it (`dmg/dmglib.c:162`); attribution changes
the sentinel and nothing else; a conversion holds its device. `AttributedIsRebuilt`:
an attributed image is the image that would be built of the attributed volume, the
standard of `docs/attribution.md`, for as long as the sentinel is still found where it
was. `TypeOK` has, beside the types, that a build counts its partitions
(`TablesNumbered`): `insertData` puts a table in the place of one with the same number,
so a number that is given twice costs the image a table.

**`allocator_safety`.** `SpaceAccounting` relates extent lists, bitmap and header: no
block has two owners, a block is marked when it has one, and the free count is right
while the program runs (a growth whose bitmap cannot be extended ends in an `ASSERT`
with the old last block already cleared, `hfs/hfslib.c:205`).
`CrashKeepsFiles`: between operations memory and disk agree; wherever the process
stops, the blocks that records on the disk give to a file are given to no other and
are marked. While a fork is shrunk the blocks that are cut off need not be marked (the
code clears bits first and saves the shorter record after, so a stop in between leaves
a record over free blocks), but still no other record has them; a fork whose overflow
records cannot be followed, the subject of a finding, is exempt. `ImplementsFileStore`:
each file behaves as a private sequence of units, whatever other files do.
`AllocateReturns`: the search for a free block ends.

`SpaceAccounting`, `CrashKeepsFiles` and `ImplementsFileStore` are statements about
volumes that are `Narrow`. The run also enlarges a volume beyond the reach of a 32-bit
offset and follows it up to the first block that cannot be sought: there another block
is zeroed than the one that is taken, and none of the three would hold.

**`btree_tree`.** `TreeClean`: `debugBTree` finds nothing to complain of after any
sequence of calls, but for the count of free nodes once it has wrapped, and the leaves
hold exactly the keys callers have added. The count wraps when the volume has room for
a node but for no clump (section 5), which the last node of the run is there for: the
tree is sound even then. `SearchFinds`: `search` agrees with the keys, also after a
removal that had to be called again because a longer key had no room in an index node
(`hfs/btree.c:1484`). Both hold for the sizes of the run; section 5 has what other sizes
do.

**`catalog_safety`.** `OneTornEntry`: a file or folder has one record and one thread,
which name each other, between operations; at every write, and so wherever the
process stops, at most one entry has not. What was lost at a taken name is exempt, and
costs no other entry anything. `CountsExact`: a folder's valence, the only thing that
keeps `removeFile` from taking it from under its entries, is never too small, and is
exact, as `folderCount` is, unless the folder is in `drift`; the saved header counts
files and folders and has given out every ID in use. `AttributesOwned`: no attribute
outlives its file (the attributes of the next file with that ID would be its).
`ImplementsNamespace`: each operation changes the tree of names in one step.

**`files_kinds`.** `ShortReadMeansEOF`: a read comes short only if `eof` says so
afterwards, which is what `blockRead` needs of its input. `TroubleOnlyPastHead`: a
pipe whose head alone was read can be positioned anywhere within it; whoever meets an
endless loop or reads from a wrong place has read past it. `ImplementsByteFile`: every
kind is the file `ByteFile` describes, until it stops.

**`image_reader`.** `CacheCoherent`: what is in memory is one whole run, at its place.
`ReadsVolume`: once open, the reader stands at the first HFS+ volume of the partition
map, and what it answers is what the tables have. `WildOnlyUncovered`: the difference
`runEnd - location` of `dmg/dmgfile.c:92` wraps only for a place that no table has.
`VaultIsByteFile`: the vault reads, writes and seeks as `ByteFile` does, with a device
reader or without. `VaultTypeOK`: the chunk in memory is always that of the position,
and is written back under its own number. `CoveredReadReturns`: the recursion over
runs ends.

**`compressed_save`.** `SavedIsReadBack`: a closed file opens as it was closed, from the
attribute or the fork; a stop leaves the old contents or the new ones, unless the
program had begun to write over a file that was in the fork already, or had taken its
attribute away and not yet given it the new one. A volume without attributes tree keeps
nothing, and tells nobody. `WildOnlyOutgrown`:
saving writes past the buffer of the attribute only when the file has come to need more
room in it than it had when it was opened. `ImplementsByteFile`, `CallReturns`: reads and writes
are those of a file, and come back.

Runs that end in a violation, each a statement of the repository that the code does
not keep:

| run | statement | what happens |
| --- | --- | --- |
| `allocator_extents` | `hfs/rawfile.c:447`, "inconsistent extents information!" | overflow records are stored under a volume block and looked up under a file block, so a file of more than eight extents panics over what the program wrote |
| `btree_search` | `hfs/btree.c:228`, "BTree inconsistent!" | a key before the first one panics on a consistent tree |
| `catalog_rename` | `hfs/catalog.c:856`, "folder not empty" | `move` inside a folder updates two copies of its record; the valence stays one too high, and the emptied folder cannot be removed |
| `files_seek` | `common/abstractfile.c:391`, "seek forward can be done by reading" | the number of bytes left never gets less, so that the loop reads to the end of the pipe and `ASSERT` ends the program |

### Bounds, and why they suffice

* *Pipeline*: sizes are in units, two per sector, three sectors per run, so that
  partial sectors and partial runs are distinct cases. Four runs with three threads
  are the least in which a thread can find two finished successors waiting and the
  table has to be doubled beyond its initial two entries. `RawSlack` is 2 instead of
  15, so that the verdict, the unsigned wrap of a short run included, differs
  between runs. The twelve inputs place the sentinel inside a run, across two, twice,
  at the end, and nowhere, and end the input on a run, in a sector, before its
  stated length, and in an error.
* *Image commands*: runs of 16 sectors and the real `RawSlack` of 15, so that a run of
  noise is stored raw and a short last run wraps the comparison. The seven volumes have
  the sentinel in the first run, across two, after a run of noise, twice, at the end of
  the raw region, and not at all; one is longer than the 64 sectors that stand for
  2^32 bytes. The patches have the sentinel's length, less, more, begin with the
  sentinel, and do not fit. Three commands are a build, an attribution and whatever is
  then done with the result.
* *Allocator*: six blocks, of which the headers, the bitmap and the tree have four, keep the volume
  full most of the time; two extents per record instead of eight and three blocks per
  bitmap byte instead of eight bring overflow records and byte boundaries into a
  volume of nine blocks. Sizes 0 and 3 and one write across a block boundary, by two
  files and a B-tree that cannot shrink, fragment it completely. `GrowTotals` has a
  total that fills its last bitmap byte, one that does not, and one beyond `Reach`,
  which is the size of the second.
* *B-tree*: a leaf has room for two records, an index node for two or, of the short
  keys, three, so five keys reach splits of leaves and of index nodes, a third level, a
  new root, removals that empty a leaf, an index node and the tree, growth, and a file
  that cannot grow. Two key lengths make rekeying change sizes in both directions, and
  fill an index node so that a longer key has no room in it. Eight nodes are two clumps
  and one node more than the tree begins with. `Word` is 16, above any count of nodes.
* *Catalog*: with two entries there are folders with a file or a folder in them, moves
  between two folders, renames inside one, moves onto each other, folders made twice,
  removals of emptied folders, and attributes of one entry before, behind and without
  those of another. A counter wraps at 4 instead of 2^32, so that a `folderCount` that
  has drifted below zero wraps. A third entry multiplies the states beyond what a run
  can visit.
* *Files*: with four bytes, a head of two and a buffer of two, a read or a seek can stay
  in the head, cross its end, begin behind it and end at or past the end of the input;
  a buffer of one doubles twice.
* *Image reader*: sectors have two bytes and chunks three, so that runs begin and end
  inside chunks; a read of up to ten bytes spans every run of a volume, the sector no
  table has, the run that cannot be decompressed, and the end. `WordBytes` is 12, so
  that the product of chunk number and chunk size wraps.
* *Compressed files*: blocks of two bytes, of which calm ones compress and noisy ones do
  not; two blocks are the least in which a read crosses one, the table has more than
  one entry, and a file changes between attribute and fork in both directions. One
  stop: the state it leaves is opened and saved like any other.

### Fairness

`pipeline_safety` assumes weak fairness of every thread and of the joining caller:
the kernel runs every runnable thread eventually. Nothing is assumed about who gets
a contended mutex (no strong fairness); termination holds because the input is
finite. `allocator_safety`, `image_reader` and `compressed_save` assume weak fairness of the steps
inside an operation (`Step`, `Work`, `Turn` and `Change`), which is what a single
thread does that is not killed. None assumes that callers call. `btree_tree`,
`catalog_safety`, `image_commands` and `files_kinds` ask no temporal question and
assume nothing.

`image_commands`, `files_kinds`, `image_reader`, `compressed_save` and `files_seek` do
not look for deadlock: a program that has ended, or has used up its commands, stops.

## 4. What is proved

### The BLKX writer

`RunPipelineProofs` shows, for every number of threads, run size, input and compression
result, that `Spec` implies:

| theorem | property | what it says |
| --- | --- | --- |
| `Inductive` | `IndInv` | the invariant below |
| `TypeCorrect` | `TypeOK` | types; `bytesRemain` never drops below zero |
| `EveryRunOwned` | `OneOwner` | a run that was read and not yet written is with exactly one thread or in the list |
| `OrderedOutput` | `OutputInOrder` | the file is a gap-free, ordered concatenation of the runs |
| `TableFits` | `RunTableFits` | the run table is never indexed beyond its memory |
| `AllRunsWritten` | `NothingLeftBehind` | when the caller returns everything read is written |
| `FinalRuns` | `RunsAreFinal` | an entry of the run table, once written, stays |
| `FullyInductive` | `FullInv` | `IndInv` with what is in the buffers |
| `LengthsSplit` | `AttributionSplit` | the attribution's lengths split the file at the raw runs |
| `SentinelKept` | `SentinelStaysRaw` | a whole copy of the sentinel lies in the raw part; later ones may not |
| `RoundTripHolds` | `RoundTrip` | `extractBLKX` gives back the input, and zeros for the padding |
| `Refines` | `ImplementsSequentialImage` | the threads implement the loop of one thread |

The assumptions are the named `ASSUME`s of `RunPipeline`: at least one thread, sizes
positive, jobs well-formed, and a sentinel that is not longer than a run
(`SentinelAssumption`), which `dmg/dmg.c:92` sees to: it refuses runs of less than 512
sectors, and the sentinel is one argument of a command line. A longer one could begin
in one run and end in the third, where `keepRaw` has forgotten the first. The number of
threads need not be finite.

None of the properties is inductive by itself. `OneOwner` needs to know that a run's
index was given out once, so it needs the ownership of `inMut` (`LockInv`), and the
list's order to know that the head is the smallest (`WriteInv`). `OutputInOrder`
speaks of input positions, so it needs that a block is the slice of the input that
its index names and that only the last slice is short (`SliceInv`), which rests on
the relation between the read-ahead and the counters, in both its forms, while a
thread refills it and between (`ReadInv`). `RunTableFits` is the least obvious:
`RoomFor` doubles the table at most once per run, and one doubling suffices only
because runs arrive without gaps (`TableInv` with `WriteInv`). `IndInv` is their
conjunction; the proof has one lemma per conjunct and one step per action. The
caller's part needs that an empty read-ahead stays empty (`Dry`), for otherwise a
thread might leave while another has work. `LeastNat` is the lemma that a
non-empty set of naturals has a least member, without which "the next run is with
somebody" does not become "with the thread that holds the smallest".

`IndInv` says nothing of data, so `FullInv` adds it. `InputInv` has what the caller has
read and what is read ahead; `VerdictInv` that the mode of a run is the one the input
alone decides, which rests on the automaton of `keepRaw` being fed the runs in their
order (it is under `inMut`) and once each; `ContentInv` that a block on its way holds
the slice of its index; `EntryInv` that an entry of the table leads to the bytes of its
run; `SeenInv` that the attribution was shown the bytes that are in the file, in their
order. `AttributionSplit` is then inductive together with these.

For the refinement the image of the sequential loop is what is written so far. Every
step but two leaves it alone; `WriteBlock` of a run appends its entry, which `VerdictInv`
and `ContentInv` say is the one the loop would append, and `Finish` ends it, for which
`NothingLeftBehind` and `AttributionSplit` say that nothing is missing.
`RoundTrip` speaks of units of the input, while the invariant speaks of runs: the
lemmas `Quotient` and `QuotientUnique` translate, since a unit lies in the run whose
number is its quotient by the length of a run, and in no other.

### The allocator

`AllocatorProofs` shows, for every size of a volume and of its blocks, every number of
files, and any writes, growths and stops, that `Spec /\ []FewExtents` implies, as long
as the volume is `Narrow`:

| theorem | property | what it says |
| --- | --- | --- |
| `AllocInductive` | `AllocInv` | the invariant below |
| `AllocatorTypes` | `TypeOK` | types; the loop of `allocate` reads no bit past the bitmap |
| `SpaceIsAccounted` | `SpaceAccounting` | extents, bitmap and free count agree |
| `FilesSurvive` | `CrashKeepsFiles` | wherever the program stops, files have their blocks, marked but for what is being cut off |
| `AllocatorImplementsFileStore` | `ImplementsFileStore` | a file is a sequence of units of its own |

`FewExtents` says that no file has more extents than fit its own record, eight in the
code (`InlineMax`). It is a condition on the run of the program and not on its
constants, and it is needed: an overflow record is stored under one key and looked up
under another, the finding of `allocator_extents`, after which `ExtentsConsistent` is
false and what a file owns is lost. The run `allocator_safety` has both kinds of
volume, and checks the same properties without the condition. `Narrow` is one, too, and
part of the statements: a volume that never grows beyond `Reach` has it for good, and
one that does has it until then, since volumes only grow (`GrowsInv`). The named `ASSUME`s
bound the volume, too: its bitmap has one block to begin with and no more than two
after it has grown (`VolumeAssumption`, `GrowAssumption`), which with blocks of 4 KiB
is 128 MiB and 256 MiB. Larger volumes are not covered by the theorems.

`AllocInv` has these parts beside `Narrow` and the properties:

* `ControlInv`: which call the steps belong to and what follows it; while the loop runs
  it needs no more blocks than the header counts as free.
* `ShapeInv`: the record of a file and its list of blocks say the same, except in the
  call that changes them, where the list is ahead by what was taken or already short of
  what was dropped. What the record has is always a beginning of the list, or the
  list a beginning of it.
* `MapInv`: a block that is marked has a bit in the bitmap. A volume that grows has
  more blocks than its bitmap has bits for a while.
* `MarkInv`: marked is what is owned, block 0 and the last block, the latter not while
  the volume grows; the converse unless the program has read past the bitmap.
* `GrowInv`: between `Enlarge` and `Mark` the allocation for the bitmap itself looks at
  bits of a bitmap that is too short. It ends in time because the old last block was
  just freed: it is clear, has a bit, and is not behind the cursor. This is the one
  part that no other property hints at.
* `DiskInv`: the disk has the record as it is in memory or, between two writes, as it
  was before, and the old record is a beginning of the list unless the file shrinks.
* `ApartInv`: no record on the disk has a block of another file's list, which also
  covers the blocks that a shrinking file still has on the disk. They may be clear, but
  nothing is allocated before the record is saved. `FilesSurvive` needs it for those.

`FreeCount` compares a cardinality with a counter. A step marks one clear block or
frees the tail of a list, whose blocks are as many as its places because no block is in
a list twice (`NoSharing`), by the theorems on finite sets of the library. That
`FirstTotal` blocks need one block of bitmap is a matter of division and uses `Quotient`.

The refinement needs `DataInv` beside `AllocInv`: a unit in a block of a file is zero or
was written for that place of that file (`UnitsInv`), and a write has made the fork
large enough by the time its data is written (`WriteInv`). Every step but the writing of
data keeps the blocks a file keeps, in their order, and what is in them, and a block that
is added is zeroed before its file has it; so such a step is `Resize` of one file or
changes no file. Writing the data is `Write`, because a unit of a file is in one place
(`PlaceOnce`) and, by `NoSharing`, in no place of another file.

### The DMG reader

The first part of `EncryptedImageProofs` shows, for every set of images, sector size and
sequence of reads, that `Spec` of `DmgFile` implies:

| theorem | property | what it says |
| --- | --- | --- |
| `TypeCorrect` | `TypeOK` | a call never copies more than it was asked for |
| `CacheIsCoherent` | `CacheCoherent` | memory holds one whole run, at its place |
| `ReadsAreOfDevice` | `ReadsDevice` | a read answers with what the tables have |
| `ReadsAreOfVolume` | `ReadsVolume` | the volume that is read is the one the maps name |
| `InBoundsIfCovered` | `WildOnlyUncovered` | `runEnd - location` wraps only where no table has anything |

The assumptions are the named `ASSUME`s of `DmgFile`. The one that matters is
`ImagesAssumption`, which says two things of an image. No two runs of it share a sector:
without that the reader may answer with either of two runs, depending on what was read
before, since a run that is in memory is taken without looking further and otherwise the
last one in the tables wins. And a run that begins in its table ends in it: a longer one
would answer for places that no table has, once it is in memory, and not before. The
images that this repository writes satisfy both: `TablesTile` of `DiskImage` says so of
each of a run. The others restrict what the images can say: sizes are numbers.

`ReadsDevice` is not inductive: whether the next copy is right depends on what the
cache holds, which `CacheCoherent` has, and on the cached run having the place the call
has reached. That is `Aimed`: while a run is waited for it has that place, and a call
that is about to copy finds the place in memory unless no table has it. With `Aimed`
the length of the copy (`Portion`) is positive and stays within the run, from which the
type of `call.have` and the bounds follow. The lemmas translate between bytes and
sectors, which is where the assumption is used: two runs with a byte in common are one.
`Fields` says that a call has no fields but its own, which the prover needs in order to
compare records.

`ReadsVolume` relates the place of the volume to the device as a whole, and the reader
finds that place by reads of its own. So the invariant gets a second layer, `FInv`: what
is in memory lies in a table (`Lying`), what was answered so far is of places that a
table has (`Exact`), and as long as the image is being opened each read is at the place
that the sectors read before it name (`Searching`).

### The reader on an encrypted file

The rest of `EncryptedImageProofs` is about the composition, for every set of images,
chunk size and width of numbers. `ImageSpec`, in which a reader of a plain file, a reader of an
encrypted file or another program uses the file, implies:

| theorem | property | what it says |
| --- | --- | --- |
| `VaultTypes` | `VaultTypeOK` | the chunk in memory is the one the position is in; none that the file lacks waits to be written |
| `KeyedCacheIsCoherent` | `CacheCoherent` | as above, with a key or without |
| `KeyedReadsAreOfVolume` | `ReadsVolume` | likewise |
| `KeyedInBoundsIfCovered` | `WildOnlyUncovered` | likewise |
| `VaultImplementsByteFile` | `VaultIsByteFile` | a FileVault refines `ByteFile` |

Beside the assumptions of the two components there is `FileAssumption`: the runs of an
image are in its file, and what decryption makes of a chunk under a wrong number is
none of the bytes of the image.

The invariant `EInv` is that of the reader, `FInv`, with four parts for the vault.
`VaultShape`: the encrypted file is what it was in the beginning. `ChunkInMemory`: the
chunk is that of the position, and may be written back only in its own place.
`Progress`: a call has the bytes between where it began and where the position is.
`Errand`: the vault works on what the reader waits for. They need each other. That the
file never changes is because a write is accepted only if the chunk in memory has the
same bytes, and what is in memory for a chunk that the file lacks, or whose number has
wrapped around, is garbage that no caller writes; so a dirty chunk is a chunk of the
file. That `Deliver` hands over the bytes of the run, which makes it a step of `Arrive`
as `DmgFile` has it for a plain file, needs all four, and that an image with a reader
is not longer than numbers reach.

For the refinement, seeking, opening and closing are `Seek`; the last turn of a read is
`Read` and that of a write is `Write`, with content that stays what it is; a
write that is refused is `Fail`; every other turn, and every step of the reader, changes
nothing that a user of the file sees.

### Abstract files

`AbstractFilesProofs` shows, for every length of a file, of the head of a pipe and of the
first room of a memory file, and for any calls, that `Spec` of `AbstractFiles` implies:

| theorem | property | what it says |
| --- | --- | --- |
| `FilesTypes` | `TypeOK` | buffers stay bounded, positions are those of legal calls |
| `ShortReadsAreLast` | `ShortReadMeansEOF` | who answers short says that it is at its end |
| `HeadIsSafe` | `TroubleOnlyPastHead` | a pipe is safe within its head |
| `FilesImplementByteFile` | `ImplementsByteFile` | each kind refines `ByteFile` |

The invariant is `FileInv` of the file: a buffer is never empty (otherwise doubling it
would not end), what is behind a pipe or a FILE has no uninitialised byte, a memory file
has no more than `MaxLen` bytes of its own, and a pipe is at the position of its FILE or
within its head. The operations are operators on a file, so most of the work is in
lemmas on them: `ReadWorks`, `SeekWorks` and `WriteWorks` say of every kind what a call
makes of the file and of what it `Holds`. A memory file holds a beginning of its buffer,
and a read of a pipe is a piece of the head with a piece of the FILE behind it; both
come down to pieces of sequences (`Joined`, `Within`). `DoubledLen` says that doubling
ends, at less than twice what is needed: there are powers of two beyond every number,
and the least one that is enough has a half that is not. For the provers a power of two
is a number that no odd number but one divides (`Power`).

### Compressed files

`CompressedFileProofs` shows, for every size of a block, of an attribute and of a file,
for all bytes, and for any calls and a stop anywhere, that `Spec` of `CompressedFile`
implies:

| theorem | property | what it says |
| --- | --- | --- |
| `FileInductive` | `FileInv` | the invariant below |
| `FileTypes` | `TypeOK` | one block in memory, or all of a changed file |
| `ClosedIsReadBack` | `SavedIsReadBack` | what was closed is what opening finds, where there is an attributes tree and no stop tore the file |
| `OnlyOutgrownIsWild` | `WildOnlyOutgrown` | out of bounds is only an attribute that outgrew its buffer |
| `CompressedImplementsByteFile` | `ImplementsByteFile` | until the program stops, a file is bytes that can be read and written |

The assumptions are `BlockAssumption` and `ContentAssumption`: a block has at least one
byte, what memory holds by chance is no byte that was written, and files and writes are
non-empty sequences of bytes that are not longer than `MaxSize`.

`FileInv` speaks of one sequence of bytes, the contents, and says where it is:

* On disk. `Regular`: packed or plain in the attribute, or in the fork. `Laid` says what
  the latter means: the number of entries in the table is the number of blocks, and at the
  place of every entry is that block, packed or plain. `Kept` has `Regular` of what was
  closed (`Was`, which is nothing once a volume without attributes tree has lost it), but
  after a stop that tore the file and in the two stretches of a save in which neither the
  old contents nor the new ones are there (`Overwriting`): blocks are written over a fork
  that the attribute still names, or the old attribute is gone and the new one not there.
* On the way there. `Written`: the blocks that were saved are where the table in memory
  says, each behind the place where the table will be (`BlockArea`) and before the next
  block. So neither a later block nor the table, nor what ends the fork, is written over
  an earlier block. `TableWritten`: the table in the fork is the one in memory. Both make
  the fork `Laid` when `SetAttribute` comes, which is the last write.
* In memory. `InMemory`: the cached block is the piece of the contents that `start` says,
  all of them once the file was changed, and the table that was read at opening is the
  fork's. `GotPart`: what a call has got is the piece from where it began.

`Bounded` is `WildOnlyOutgrown` in terms of these. It follows because `BlockAt` of a byte
that the file has is less than `BlocksOf` its size, which the table has as its length.

For the refinement the contents are those in memory if the file was changed, and else
those on disk. Opening, closing, and the beginning of a call are `Seek`; the last turn of
a read is `ReadAt`; `Change` is `Write`; a stop, and what is out of bounds, is `Fail`; a
turn that is not the last and every step of the saving change nothing that is seen.

### The catalog

`CatalogProofs` shows, for every set of names, modes and attributes, every depth of
paths, number of IDs and of entries in a folder, and every width of the counters, that
`Spec` of `Catalog` implies:

| theorem | property | what it says |
| --- | --- | --- |
| `CatalogInductive` | `IInv` | the invariant below |
| `EntriesAreWhole` | `OneTornEntry` | record and thread name each other; while a call writes, those of one entry may not |
| `AttributesAreOwned` | `AttributesOwned` | no attribute is left without a file or folder |
| `CountsInductive` | `CountInv` | the invariant about the counters, further below |
| `CatalogTypes` | `TypeOK` | no counter wraps but `folderCount`; the header stays below its bounds |
| `CountsAreExact` | `CountsExact` | between calls valences, folder counts and the header count what there is |

The assumptions are the named `ASSUME`s of `Catalog`: the volume's name and the empty
one are no names of files, the bounds are numbers, and a counter (32 bits in the code)
can count the entries of a folder and the IDs that are given out.

A property of the catalog alone cannot be inductive: what the next write does to it is
in `todo`, which the operation filled long before. So `IInv` says of the catalog that
what is left of `todo` sets it right. A catalog is `Tidy` if every record has a thread
that names it, every thread below `nextCatalogID` has a record, except those of IDs that
were lost, and the root is in place. The writes left are in one of six phases:

* `Resting`: the catalog is tidy, every attribute has a thread, and the writes to come
  rewrite records with their own ID and kind (`Settles`) or remove one entry, wherever
  in `todo` that begins (`RemovingAt`).
* `Coming`: a record and its thread come next, and with both of them the catalog is tidy.
* `Filling`: one key is missing, the next write puts it there, and then it is tidy.
* `Clearing`: a record has gone; what is left in front of its thread's removal unsets each
  of its attributes, or has not listed them yet, and without the thread it is tidy.
* `Crossing` and `Departing`: in `move`, with the thread, or record and thread, to go.

Where one is `Tidy` every entry is whole; `Filling` lacks one key, and `Clearing` and
`Crossing` have one thread too many, each of one ID. `Tidy` is stated with a set of lost
IDs because `newFolder` and `move` at a taken name leave a thread that leads to another
record; `Departing` needs both the set before and the one after.

The operations have to show that what they queue fits. For this a path is a walk: the
lemmas from `FolderAtWalk` on turn the recursion of `FolderAt` into its steps, and
`FolderOne`, by the shortest of two paths that lead to the same folder, says that there
is only one path to it. So the folder whose record an operation rewrites last is not the
entry that it removes (`FoundParts`), and the folder that an entry is moved to is not
that entry, or a rewritten record would come back (`OutsideItself`); the latter needs
that the caller does not move a folder into itself.

That the counters are right between two calls says nothing about the time in between,
when a parent's record is about to be rewritten up to twice and the header counts an
entry that is half there. `CountInv` states everything about `Ahead`, the catalog that
the writes left will leave:

* `ExactBut` with no exception: the record of every folder counts its entries and its
  folders, up to what `drift` names (`Right`), and a valence is never less than the
  entries, which is what keeps `removeFile` from taking away a folder under its files.
* `Tallied`: the header counts the files and folders, those that were `lost` included,
  and the one entry that a removal has gone past but not yet taken off (`Owes`).
* `Stored`: the disk has the header, or `todo` saves it after its last change.
* `Fine`: the types of the catalog, of what is queued for it, and of the header, whose
  counts are no more than the IDs given out. That is why they cannot wrap.

A write moves the front of `todo` into the catalog, and `Ahead` is the same before and
after (`AheadStays` and the lemmas it rests on, which turn the recursion over `todo` into
the catalogs after its first, second, ... write). So a write can disturb only `Tallied`,
`Stored` and the types, and the counters are the business of the operations: each has a
lemma that says which entries the catalog `Ahead` of its writes has and has no more
(`Came`, `Loses`, `Gains`), and that the records it rewrites follow. Within one folder
`move` rewrites the second of two copies over the first: the folder's valence is then
one too high, and `ExactBut` gets it from `drift`.

`NamespaceProofs` adds `CatalogImplementsNamespace`, of the property
`ImplementsNamespace`: every operation does to the tree of names what it says and
nothing else, in one step. The mapping `View` is the tree of `Ahead`. So the step that
begins an operation is the one that changes the tree, and the writes after it are
stutters, since they leave `Ahead` as it is (`NamesWrite`), whichever of them is the last.
The invariant is `IInv`, `CountInv` and `Shallow`, that nothing in the catalog `Ahead`
lies deeper than `MaxDepth`; without it `View`, which has the paths up to that depth,
could have a part of a tree, and `move` could bring an entry into sight that was not there.
`IInv` gives that a folder has one path only and that a move leaves no loop; `CountInv`
that a folder with valence 0 has nothing under it (`EmptyBelow`), so that what
`removeFile` takes away is a leaf.

The proof goes from paths to trees to writes. A path leads in a new catalog where it led in
the old one if what lies along it is the same (`MatchWalk`), which is then read for a
record that goes (`GoneWalk`), one that comes (`ComeWalk`), and one that is now
elsewhere (`MoveWalk`); paths are rebased and back for the last (`RebaseParts`,
`RebaseBack`). From these follow what becomes of the tree (`TreeChanged`, `TreeCreated`,
`TreeDeleted`, `TreeRenamed`, `TreeVanished`, `TreeNeverThere`), each of them one way in which
`Namespace` lets the entries change. One lemma per operation (`NamesNewFolder`,
`NamesAddNewFile`, `NamesRemoveEntry`, `NamesMove`, ...) shows that what it queues leaves
such a catalog behind, its rewritten records the same but for their counters (`Same`).

### The commands of dmg

`DiskImageProofs` shows, for all volumes, patches and sentinels, every length of a run and
width of the sector count, and any commands one after the other, that `Spec` of
`DiskImage` implies:

| theorem | property | what it says |
| --- | --- | --- |
| `ImageInductive` | `ImageInv` | the invariant below |
| `ImageTypesOK` | `TypeOK` | the images have their types, and no table of a build takes the place of another |
| `SumsDescribe` | `SumsDescribeImage` | the checksums of a finished image are those of what it holds, and its attribution resource describes it |
| `BuildHolds` | `BuiltHolds`, first part of `HoldsInput` | the volume of a built image is the one it was built of |
| `AttributionHolds` | `OnlyRawChanges` | an attribution writes its data over the first anchor in the raw runs, and nothing else of the volume |

The assumptions are the named `ASSUME`s of `DiskImage`: sizes are numbers, a run has at
least one sector, a sentinel is not empty and has no zero in it, a patch has an anchor,
and `ContentAssumption` (section 2).

`OnlyRawChanges` is in the proofs' module. It says in terms of the attribution resource
what `HoldsInput` says of the volume, and holds for any anchor and however often an
image is attributed. Its checksum is right only if the bytes in front of the raw runs,
in them and behind them, as the writer recorded them, are those of the image, and the
image can be read back only if the tables do not mind what is in the raw runs. So the
invariant says what the tables and the resource mean, from the bottom up:

* `Sound`: the runs of a table lie in the fork, what they expand to has the length that
  the table says, and what the checksum was fed with is what they hold. Everything that
  is appended to the fork leaves it so (`AllSoundGrown`).
* `Tables`: one table is that of a volume and holds the volume (`HasData`), all others are
  sound. `HasData` leaves the checksum open, which is wrong while it is rewritten.
* `Signature`: the fork is `before`, `raw` and `after` of the attribution resource one
  after the other, and, `Writable`, for every content of the raw runs with the same length,
  the tables hold the volume with that content between `beforeU` and `afterU`. That is
  what an attribution relies on: it writes into the fork without looking at the tables.
* `Complete`, what every finished image is: sound tables, a trailer with the sums, and
  no attribution resource or one with `Signature`. `Rewriting`, what an attribution has
  under way: the same, but for the checksums.

`ImageInv` says which of these the image of a command has at each step of it. Most of
the work is that `WithMain` makes a `Signature`. `InsertIs`, `Inserted` and the lemmas on
sequences made of pieces say that run `k` of a table is where the pieces before it end,
and hence that `extractBLKX` gives back what `insertBLKX` was given, for any choice of
runs to keep raw. `KeptIs`, from `SequentialImage`, says that the raw runs are one or two
that follow each other. So they are one piece of the fork that has, sector by sector,
one piece of the volume (`InPlace`), and to put other sectors there is to put them into
both (`Patch`). The induction over pieces is a search for the least number of
them that fails (`LeastNat`).

### Only model-checked

* Of `Allocator`: all properties for volumes with overflow extents. The panic over them
  is the subject of a finding (`allocator_extents`), not of a theorem.
* Liveness: `Terminates`, `AllocateReturns`, `CoveredReadReturns`, `CallReturns`. It is out of
  the prover's reach under fairness.
* Of `DiskImage`: `TablesTile`, `AttributedIsRebuilt`, and what `HoldsInput` says of
  conversions and of the place of the sentinel in the volume. `AttributedIsRebuilt` and
  the latter are not true of all constants: a patch can put the end of a sentinel at the
  start of the raw runs, behind a run that ends with its beginning, so that the next
  attribution finds in the volume what it does not find in the raw runs. The run has
  patches and volumes that do not. `TablesTile` needs what the partition map of the
  device that is converted says, which the invariant does not have.
* All of `BTree`, whose definitions are recursive operators over trees, for which TLAPS
  has no support.

## 5. What is not modelled

Left out because there is no order, failure or bookkeeping in it that a model could get
at:

* Compressors, the arithmetic of checksums, Base64, byte order, the Unicode order of
  names, printing: functions without state. Where the order of their calls matters
  (which bytes enter which checksum), the order is modelled.
* The text of the property list and its scanner, and `dmg res`, which prints it.
* Dummy files: nothing in the repository creates one.
* The extraction of a partition by number, which is `extractBLKX` of another table.

Left out because the model would not fit a run:

* In `Catalog`: symbolic and hard links (`makeSymlink`, `getLinkTarget`); the commands
  that walk a folder (`addAllInFolder`, `removeAllInFolder`, `extractAllInFolder`,
  `hfs_untar`), which repeat the modelled operations; a folder that is moved into
  itself; and the space of forks, so that no property sees `removeFile` forget the
  blocks of a resource fork (`hfs/catalog.c:829`).
* In `BTree`: map nodes, which only a tree of more than some thirty thousand nodes has
  (`hfs/btree.c:773`), and two programs on one volume.
* In `Allocator`: resource forks (they share the code of data forks) and a catalog that
  grows as a side effect of saving a file.
* The sector count of a run table that wraps at 2 TiB (`dmg/io.c:142`). Reads beyond a
  buffer (`dmg/attribution.c:37`): there is no memory outside the variables.

The models follow the code in places where it does not do what a comment or a caller
expects. Apart from the four findings these are:

* `dmg/io.c:160` says that `KeepCurrentRaw` becomes `KeepNoneRaw`, so that the search
  for sentinels resumes; it becomes `KeepRemainingRaw`, and a second sentinel is not
  looked for. `includes/dmg/attribution.h:110` has several sentinels refused; they are
  not. With incompressible data an image has more raw blocks than the one or two of
  `includes/dmg/attribution.h:11` (`dmg/io.c:182`).
* An enlarged volume may have blocks marked that belong to nothing, if it grows by less
  than a byte of bitmap (`hfs/hfslib.c:205`, `:221`).
* `allocate` zeroes a block at a 32-bit product (`hfs/rawfile.c:91`), as
  `dmg/dmglib.c:162` sizes a volume and `dmg/filevault.c:82` places a chunk. On a volume
  of 4 GiB or more it zeroes another block, possibly of another file, and the block that
  is taken keeps what was in it.
* `growBTree` does not look whether `allocate` gave it its clump (`hfs/btree.c:770`). On
  a volume without room for one, `findFree` takes the first clear bit of the map, that
  of the node behind the last (`hfs/btree.c:694`), `freeNodes` wraps below zero, and the
  write of the node allocates the room it needs if there is any. The tree works, and
  does not ask for a clump again before removals bring `freeNodes` back to zero;
  `debugBTree` complains of the count (`hfs/btree.c:593`).
* `splitNode` halves a node by the number of its records (`hfs/btree.c:936`). With
  records of very different sizes one half has no room for the insertion, which then
  runs over the offset table. So it does when `addRecord` has lengthened the first key
  of an index node for the key it adds and then takes up a new child in the room it had
  measured before (`hfs/btree.c:1145`, `:1237`). The sizes of `btree_tree` exclude both,
  so that `TreeClean` can be asked about the rest.
* A call that is to be repeated ("tell them to call again") has changed the tree. For a
  removal that does no harm in the run. For an addition (`hfs/btree.c:1208`) the second
  call may find the key in an index node that was rekeyed, take it for present and lose
  the record. The sizes with which an addition gets there are those with which nodes
  overrun, so the run does not have it.
* `setAttribute` is a removal and an addition (`hfs/xattr.c:183`), so that a stop in
  between leaves a compressed file without its `com.apple.decmpfs`, and with it without
  its contents or the way to them. On a volume without attributes tree it answers
  `FALSE` (`hfs/xattr.c:263`), which `closeHFSPlusCompressed` does not look at
  (`hfs/hfscompress.c:209`): what was written is lost.
* A compressed file that is written over with less keeps its old length, since only the
  branch of plain files calls `allocate` (`hfs/hfslib.c:96`).
* `fvRead` never comes short and has no end of file: past the last chunk it gives what
  decryption makes of nothing.
* Converting an image of 2048-byte blocks reads the first block of the partition map
  into a buffer of 512 bytes (`dmg/dmglib.c:334`, `:350`), and takes entries at
  512-byte steps.

## 6. Plan

Done: the modules of section 2 and the proofs of section 4. Left, in this order:

1. Symbolic links and the blocks of removed files, by composition of `Catalog` with
   `Allocator`.
2. The property list as a sequence of tokens, with its scanner.
