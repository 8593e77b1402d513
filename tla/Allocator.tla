----------------------------- MODULE Allocator -----------------------------
(***************************************************************************)
(* The block allocator of an HFS+ volume: allocate, rawFileRead,           *)
(* rawFileWrite and the extents code of hfs/rawfile.c, updateVolume of     *)
(* hfs/volume.c and grow_hfs of hfs/hfslib.c.                              *)
(*                                                                         *)
(* The program has one thread, so an operation is a sequence of steps that *)
(* nothing interleaves with; a step ends wherever something has reached    *)
(* the disk, since the process may stop there (hfs_panic, ASSERT, a kill). *)
(* The bitmap, the overflow records, the catalog records and the two       *)
(* volume headers are on the disk; hdr, fork and ext are in memory.        *)
(*                                                                         *)
(* An extent list is modelled by the blocks it names, one after the other. *)
(* Neighbouring extents are never contiguous, because a new one is begun   *)
(* only when the block after the last one is taken: where one block is not *)
(* the successor of the one before, a new extent starts.                   *)
(***************************************************************************)
EXTENDS Integers, Sequences, FiniteSets

CONSTANTS
  DataFiles,   \* the files with a catalog record
  NoFile,
  Zero,        \* an image unit that is zero
  InlineMax,   \* extents in a fork and in an overflow record: 8 in the code
  BlockUnits,  \* units of data (and bytes of bitmap) in a block
  MapBits,     \* blocks a byte of the bitmap covers: 8 in the code
  Reach,       \* blocks a 32-bit offset reaches: 2^32 bytes in the code
  FirstTotal,  \* blocks of the volume when it is opened
  GrowTotals,  \* blocks it may be grown to
  FirstNext,   \* nextAllocation when it is opened
  Sizes,       \* sizes asked of allocate
  Writes,      \* <<location, size>> of writes
  Clump        \* units a B-tree file grows by

(* The allocation file and a B-tree file: their forks are in the header.   *)
MapFile  == "map"
TreeFile == "tree"
Specials == {MapFile, TreeFile}
Files    == DataFiles \cup Specials

ASSUME FilesAssumption == NoFile \notin Files /\ DataFiles \cap Specials = {}
ASSUME UnitsAssumption ==
  /\ InlineMax \in Nat \ {0} /\ BlockUnits \in Nat \ {0}
  /\ MapBits \in Nat \ {0} /\ Clump \in Nat \ {0} /\ Reach \in Nat \ {0}
  /\ Sizes \subseteq Nat /\ Writes \subseteq Nat \X (Nat \ {0})
ASSUME VolumeAssumption ==
  /\ FirstTotal \in Nat /\ FirstTotal >= 4
  /\ FirstTotal <= BlockUnits * MapBits
  /\ FirstNext \subseteq 0 .. FirstTotal - 1
(* A larger bitmap needs one block more, which is what makes the nested    *)
(* allocation of Reserve end before it reads past the bitmap.              *)
ASSUME GrowAssumption ==
  GrowTotals \subseteq 0 .. (2 * BlockUnits * MapBits)

VARIABLES
  used,      \* blocks whose bit is set
  hdr,       \* the volume header in memory: total, free, next
  fork,      \* size, total and inline extents of every file, in memory
  ext,       \* the extent list of every file
  open,      \* the data file that is open
  catalog,   \* the fork data in the catalog records
  overflow,  \* the extents overflow file
  alternate, \* the volume header in the last block but one kilobyte
  primary,   \* the volume header in block 0
  image,     \* the units of the volume
  at,        \* the step the program is at
  op,        \* the operation it is in
  wild       \* has an uninitialised byte become part of the bitmap?

disk    == <<used, catalog, overflow, alternate, primary, image>>
vars    == <<hdr, fork, ext, open, disk, at, op, wild>>

-----------------------------------------------------------------------------
(* Sizes and extents.                                                      *)

Blocks(size) == (size \div BlockUnits) + (IF size % BlockUnits = 0 THEN 0 ELSE 1)

Last(s) == s[Len(s)]

BlocksOf(s) == {s[i] : i \in DOMAIN s}

(* Position i of a list is in its n-th extent; InlineMax of them make a    *)
(* record: record 0 is the fork's own, the others are overflow records.    *)
Breaks(bs, i) == {j \in 1 .. i : j = 1 \/ bs[j] # bs[j - 1] + 1}
RecordAt(bs, i) == (Cardinality(Breaks(bs, i)) - 1) \div InlineMax
Record(bs, r) ==
  LET first == Cardinality({i \in DOMAIN bs : RecordAt(bs, i) < r}) + 1
      last  == Cardinality({i \in DOMAIN bs : RecordAt(bs, i) <= r})
  IN  SubSeq(bs, first, last)

(* readExtents and removeExtents follow the records of a fork: the next    *)
(* one is looked up under the number of blocks seen so far.                *)
Follow(f, fk) ==
  LET more[got \in Seq(Nat)] ==
        IF Len(got) >= fk.total THEN [ok |-> TRUE, blocks |-> got, keys |-> {}]
        ELSE LET key == <<f, Len(got)>>
             IN  IF key \notin DOMAIN overflow
                 THEN [ok |-> FALSE, blocks |-> got, keys |-> {}]
                 ELSE LET rest == more[got \o overflow[key]]
                      IN  [rest EXCEPT !.keys = @ \cup {key}]
  IN  more[fk.ext]

(* writeExtents stores a record under the volume block it starts with.     *)
RecordsOf(f, bs) ==
  LET count == IF bs = <<>> THEN 0 ELSE RecordAt(bs, Len(bs))
      key(r) == <<f, Record(bs, r)[1]>>
  IN  [k \in {key(r) : r \in 1 .. count} |->
         Record(bs, CHOOSE r \in 1 .. count : key(r) = k)]

(* Unit u of a file in the volume, as rawFileRead and rawFileWrite walk.   *)
Place(bs, u) == bs[(u \div BlockUnits) + 1] * BlockUnits + (u % BlockUnits)

-----------------------------------------------------------------------------
(* The bitmap, which is itself a file.                                     *)

ByteOf(b) == b \div MapBits
InByte(n) == n * MapBits .. (n + 1) * MapBits - 1

(* isBlockUsed can read the bit of b; it ignores a read that fails.        *)
Mapped(b) == ByteOf(b) < Len(ext[MapFile]) * BlockUnits

Header == [hdr |-> hdr, forks |-> [s \in Specials |-> fork[s]]]

NoFork == [size |-> 0, total |-> 0, ext |-> <<>>]
Fork(size, bs) == [size |-> size, total |-> Len(bs), ext |-> Record(bs, 0)]

(* A volume header that has been zeroed.                                   *)
NoHeader == [hdr   |-> [total |-> 0, free |-> 0, next |-> 0],
             forks |-> [s \in Specials |-> NoFork]]

NoOp == [f |-> NoFile]

(* allocate(f, size), after which the program goes on with `then`.         *)
Call(f, size, then) ==
  [f |-> f, size |-> size, then |-> then, left |-> 0, cur |-> 0,
   fresh |-> FALSE, loc |-> 0, len |-> 0, total |-> 0, blind |-> FALSE]

Need == Blocks(op.size)
Have == fork[op.f].total

Grown == at \in {"reserve", "mark"} \/ (op # NoOp /\ op.then = "mark")

-----------------------------------------------------------------------------
Init ==
  /\ hdr \in [total : {FirstTotal}, free : {FirstTotal - 4}, next : FirstNext]
  /\ used = {0, 1, 2, FirstTotal - 1}
  /\ ext = [f \in Files |-> CASE f = MapFile  -> <<1>>
                              [] f = TreeFile -> <<2>>
                              [] OTHER        -> <<>>]
  /\ fork = [f \in Files |->
               CASE f = MapFile  -> Fork((FirstTotal + MapBits - 1) \div MapBits, <<1>>)
                 [] f = TreeFile -> Fork(BlockUnits, <<2>>)
                 [] OTHER        -> NoFork]
  /\ catalog = [f \in DataFiles |-> NoFork]
  /\ overflow = <<>>
  /\ alternate = Header /\ primary = Header
  /\ image = [u \in 0 .. 2 * BlockUnits * MapBits * BlockUnits - 1 |-> Zero]
  /\ open = NoFile
  /\ at = "idle" /\ op = NoOp /\ wild = FALSE

(* openRawFile with the fork of a catalog record.                          *)
Open(f) ==
  LET found == Follow(f, catalog[f])
  IN  /\ at = "idle" /\ open = NoFile
      /\ IF found.ok
         THEN /\ open' = f
              /\ fork' = [fork EXCEPT ![f] = catalog[f]]
              /\ ext' = [ext EXCEPT ![f] = found.blocks]
              /\ UNCHANGED at
         ELSE at' = "panic" /\ UNCHANGED <<open, fork, ext>>
      /\ UNCHANGED <<hdr, disk, op, wild>>

(* closeRawFile frees the list; the model keeps it as the file's blocks.   *)
Close ==
  /\ at = "idle" /\ open # NoFile
  /\ open' = NoFile
  /\ UNCHANGED <<hdr, fork, ext, disk, at, op, wild>>

Start(o) == /\ op' = o /\ at' = "start"
            /\ UNCHANGED <<hdr, fork, ext, open, disk, wild>>

(* allocate called on an open file: by writeToHFSFile, by removeFile.      *)
SetSize(size) ==
  /\ at = "idle" /\ open # NoFile
  /\ Start(Call(open, size, "return"))

(* allocate called by growBTree.                                           *)
GrowTree ==
  /\ at = "idle"
  /\ Start(Call(TreeFile, fork[TreeFile].size + Clump, "return"))

(* rawFileWrite: beyond the end it allocates first.                        *)
WriteFile(loc, len) ==
  LET o == [Call(open, loc + len, "data") EXCEPT !.loc = loc, !.len = len]
  IN  /\ at = "idle" /\ open # NoFile
      /\ IF fork[open].size < loc + len
         THEN Start(o)
         ELSE /\ op' = o /\ at' = "data"
              /\ UNCHANGED <<hdr, fork, ext, open, disk, wild>>

(* grow_hfs: first the bitmap, for `total \div MapBits` bytes.             *)
GrowVolume(total) ==
  LET bytes == total \div MapBits
      o     == [Call(MapFile, bytes, "enlarge") EXCEPT !.total = total]
  IN  /\ at = "idle" /\ open = NoFile
      /\ total > hdr.total
      /\ IF fork[MapFile].size >= bytes
         THEN /\ op' = o /\ at' = "enlarge"
              /\ UNCHANGED <<hdr, fork, ext, open, disk, wild>>
         ELSE IF hdr.free < (bytes - fork[MapFile].size) \div BlockUnits
              THEN /\ at' = "exited"
                   /\ UNCHANGED <<hdr, fork, ext, open, disk, op, wild>>
              ELSE Start(o)

-----------------------------------------------------------------------------
(* allocate.                                                               *)

(* Variant: the free blocks are not consulted.                             *)
AlwaysRoom == TRUE

Room == Need - Have <= hdr.free

(* FALSE is ignored by writeToHFSFile, removeFile, growBTree and grow_hfs, *)
(* and an ASSERT in rawFileWrite.                                          *)
Refuse ==
  /\ at = "start" /\ Need > Have /\ ~Room
  /\ at' = CASE op.then = "return"  -> "idle"
             [] op.then = "enlarge" -> "enlarge"
             [] OTHER               -> "exited"
  /\ op' = IF op.then = "return" THEN NoOp ELSE op
  /\ UNCHANGED <<hdr, fork, ext, open, disk, wild>>

(* Begin after the last block of the file, or at nextAllocation.           *)
BeginGrow ==
  /\ at = "start" /\ Need > Have /\ Room
  /\ LET empty == ext[op.f] = <<>>
     IN  op' = [op EXCEPT !.left = Need - Have,
                          !.fresh = empty,
                          !.cur = IF empty THEN hdr.next
                                  ELSE Last(ext[op.f]) + 1]
  /\ at' = "loop"
  /\ UNCHANGED <<hdr, fork, ext, open, disk, wild>>

(* Variant: nextAllocation wraps one block late.                           *)
NextLate == IF hdr.next + 1 > hdr.total THEN 0 ELSE hdr.next + 1

NextAllocation == IF hdr.next + 1 >= hdr.total THEN 0 ELSE hdr.next + 1

(* Variant: the extent goes on after a block that is taken.                *)
SkipInExtent ==
  /\ at = "loop" /\ op.cur \in used
  /\ op' = [op EXCEPT !.cur = hdr.next]
  /\ hdr' = [hdr EXCEPT !.next = NextAllocation]
  /\ UNCHANGED <<fork, ext, open, disk, at, wild>>

(* The block is taken: a new extent, at nextAllocation.                    *)
Skip ==
  /\ at = "loop" /\ op.cur \in used
  /\ op' = [op EXCEPT !.fresh = TRUE, !.cur = hdr.next]
  /\ hdr' = [hdr EXCEPT !.next = NextAllocation]
  /\ UNCHANGED <<fork, ext, open, disk, at, wild>>

(* Variant: the block keeps what was in it.                                *)
Unzeroed(b) == image

Zeroed(b) == [u \in DOMAIN image |-> IF u \div BlockUnits = b THEN Zero
                                     ELSE image[u]]

(* curBlock times blockSize is a product of 32 bits, and a block size is a *)
(* power of two: from 2^32 bytes on, it is another block that is zeroed.   *)
Sought(b) == b % Reach

(* The bits the bitmap has in block z.                                     *)
BitsIn(z) ==
  UNION {InByte(n) : n \in {i \in 0 .. Len(ext[MapFile]) * BlockUnits - 1 :
                              ext[MapFile][i \div BlockUnits + 1] = z}}

(* The block is free: a block is zeroed, with whatever it held - bits of   *)
(* the bitmap, a volume header, data - and the block taken is marked,      *)
(* counted, and the last extent grows by one block, whichever block that   *)
(* is.  A B-tree that lost a node is not followed further.                 *)
Take ==
  /\ at = "loop" /\ op.cur \notin used
  /\ LET z == Sought(op.cur)
     IN  /\ image' = Zeroed(z)
         /\ used' = (used \ BitsIn(z)) \cup {op.cur}
         /\ primary' = IF z = 0 THEN NoHeader ELSE primary
         /\ alternate' = IF z = alternate.hdr.total - 1 THEN NoHeader
                         ELSE alternate
         /\ at' = IF z \in BlocksOf(ext[TreeFile]) THEN "adrift"
                  ELSE IF op.left = 1 THEN "extents" ELSE "loop"
  /\ ext' = [ext EXCEPT ![op.f] =
               Append(@, IF op.fresh THEN op.cur ELSE Last(@) + 1)]
  /\ hdr' = [hdr EXCEPT !.free = @ - 1]
  /\ op' = [op EXCEPT !.left = @ - 1,
                      !.fresh = FALSE,
                      !.cur = IF @ + 1 >= hdr.total THEN hdr.next ELSE @ + 1]
  /\ UNCHANGED <<fork, open, catalog, overflow, wild>>

TailAfter(bs, n) == {bs[i] : i \in {j \in DOMAIN bs : j > n}}

Shrink ==
  /\ at = "start" /\ Need < Have
  /\ LET tail == TailAfter(ext[op.f], Need)
     IN  /\ used' = used \ tail
         /\ hdr' = [hdr EXCEPT !.free = @ + Len(ext[op.f]) - Need]
  /\ ext' = [ext EXCEPT ![op.f] = SubSeq(@, 1, Need)]
  /\ at' = "extents"
  /\ UNCHANGED <<fork, open, catalog, overflow, alternate, primary, image, op,
                 wild>>

Keep ==
  /\ at = "start" /\ Need = Have
  /\ at' = "extents"
  /\ UNCHANGED <<hdr, fork, ext, open, disk, op, wild>>

(* writeExtents: the old overflow records go, the new ones come; a record  *)
(* that is already there stays (addToBTree).  Then the fork's size.        *)
SaveExtents ==
  LET old  == Follow(op.f, fork[op.f])
      kept == [k \in DOMAIN overflow \ old.keys |-> overflow[k]]
      new  == RecordsOf(op.f, ext[op.f])
  IN  /\ at = "extents"
      /\ overflow' = [k \in DOMAIN kept \cup
                              (IF old.ok THEN DOMAIN new ELSE {}) |->
                        IF k \in DOMAIN kept THEN kept[k] ELSE new[k]]
      /\ IF old.ok
         THEN /\ fork' = [fork EXCEPT ![op.f] =
                            [size |-> op.size, total |-> Need,
                             ext |-> Record(ext[op.f], 0)]]
              /\ at' = "alternate"
         ELSE at' = "panic" /\ UNCHANGED fork
      /\ UNCHANGED <<hdr, ext, open, used, catalog, alternate, primary, image,
                     op, wild>>

(* Where the program goes when allocate returns TRUE.                      *)
Return == /\ at' = IF op.then = "return" THEN "idle" ELSE op.then
          /\ op' = IF op.then = "return" THEN NoOp ELSE op

(* updateVolume: the alternate header, then the primary one.               *)
SaveAlternate ==
  /\ at = "alternate"
  /\ alternate' = Header
  /\ at' = "primary"
  /\ UNCHANGED <<hdr, fork, ext, open, used, catalog, overflow, primary, image,
                 op, wild>>

SavePrimary ==
  /\ at = "primary"
  /\ primary' = Header
  /\ IF op.f \in DataFiles THEN at' = "catalog" /\ UNCHANGED op ELSE Return
  /\ UNCHANGED <<hdr, fork, ext, open, used, catalog, overflow, alternate,
                 image, wild>>

(* Variant: only a file that has grown is saved.                           *)
SaveGrownCatalog ==
  /\ at = "catalog"
  /\ catalog' = IF fork[op.f].size > catalog[op.f].size
                THEN [catalog EXCEPT ![op.f] = fork[op.f]] ELSE catalog
  /\ Return
  /\ UNCHANGED <<hdr, fork, ext, open, used, overflow, alternate, primary,
                 image, wild>>

(* updateCatalog.                                                          *)
SaveCatalog ==
  /\ at = "catalog"
  /\ catalog' = [catalog EXCEPT ![op.f] = fork[op.f]]
  /\ Return
  /\ UNCHANGED <<hdr, fork, ext, open, used, overflow, alternate, primary,
                 image, wild>>

-----------------------------------------------------------------------------
(* The rest of rawFileWrite and grow_hfs.                                  *)

WriteData ==
  LET units == op.loc .. op.loc + op.len - 1
      goal(u) == Place(ext[op.f], u)
  IN  /\ at = "data"
      /\ image' = [p \in DOMAIN image |->
                     IF \E u \in units : goal(u) = p
                     THEN <<op.f, CHOOSE u \in units : goal(u) = p>>
                     ELSE image[p]]
      /\ at' = "idle" /\ op' = NoOp
      /\ UNCHANGED <<hdr, fork, ext, open, used, catalog, overflow, alternate,
                     primary, wild>>

(* The old last block is unreserved, the bytes of the new ones are cleared *)
(* except for the first, and the header counts the new blocks as free.  A  *)
(* byte beyond the bitmap is written only if growing the bitmap has been   *)
(* refused; then it is refused again, and that is an ASSERT.               *)
Enlarge ==
  LET cleared == hdr.total \div MapBits + 1 .. op.total \div MapBits - 1
      beyond  == \E n \in cleared : n >= fork[MapFile].size
  IN  /\ at = "enlarge"
      /\ used' = (used \ {hdr.total - 1}) \ UNION {InByte(n) : n \in cleared}
      /\ hdr' = IF beyond THEN hdr
                ELSE [hdr EXCEPT !.total = op.total,
                                 !.free = @ + op.total - hdr.total]
      /\ at' = IF beyond THEN "exited" ELSE "reserve"
      /\ UNCHANGED <<fork, ext, open, catalog, overflow, alternate, primary,
                     image, op, wild>>

(* setBlockUsed of the new last block reads its byte; the write of the     *)
(* byte allocates when it lies beyond the end of the bitmap.               *)
Reserve ==
  LET last == hdr.total - 1
      size == ByteOf(last) + 1
  IN  /\ at = "reserve"
      /\ op' = [Call(MapFile, size, "mark") EXCEPT !.blind = ~Mapped(last)]
      /\ at' = IF size > fork[MapFile].size THEN "start" ELSE "mark"
      /\ UNCHANGED <<hdr, fork, ext, open, disk, wild>>

(* The byte is written: what was read, or if nothing was, anything, with   *)
(* the bit of the last block set.                                          *)
Mark ==
  LET last   == hdr.total - 1
      beside == InByte(ByteOf(last)) \ {last}
  IN  /\ at = "mark"
      /\ \E junk \in IF op.blind THEN SUBSET beside ELSE {used \cap beside} :
           /\ used' = (used \ beside) \cup junk \cup {last}
           /\ wild' = (wild \/ (op.blind /\ junk # {}))
      /\ op' = [op EXCEPT !.then = "return"]
      /\ at' = "alternate"
      /\ UNCHANGED <<hdr, fork, ext, open, catalog, overflow, alternate,
                     primary, image>>

Stopped == at \in {"panic", "exited", "adrift"}

(* The process is gone, or reads what is no B-tree any more.               *)
Over == Stopped /\ UNCHANGED vars

Caller == \/ \E f \in DataFiles : Open(f)
          \/ Close
          \/ \E size \in Sizes : SetSize(size)
          \/ GrowTree
          \/ \E w \in Writes : WriteFile(w[1], w[2])
          \/ \E total \in GrowTotals : GrowVolume(total)

Step == \/ Refuse \/ BeginGrow \/ Skip \/ Take \/ Shrink \/ Keep
        \/ SaveExtents \/ SaveAlternate \/ SavePrimary \/ SaveCatalog
        \/ WriteData \/ Enlarge \/ Reserve \/ Mark

Next == Caller \/ Step \/ Over

Spec == Init /\ [][Next]_vars

(* The program does not stop between two steps of an operation.            *)
FairSpec == Spec /\ WF_vars(Step)

-----------------------------------------------------------------------------
(* Properties.                                                             *)

ForkType == [size : Nat, total : Nat, ext : Seq(Nat)]

(* Every variable has its type; nextAllocation names a block, and the      *)
(* allocation loop reads only bits the bitmap has.                         *)
TypeOK ==
  /\ used \subseteq Nat
  /\ hdr \in [total : Nat, free : Nat, next : 0 .. hdr.total - 1]
  /\ fork \in [Files -> ForkType]
  /\ ext \in [Files -> Seq(Nat)]
  /\ open \in DataFiles \cup {NoFile}
  /\ catalog \in [DataFiles -> ForkType]
  /\ DOMAIN overflow \subseteq Files \X Nat
  /\ wild \in BOOLEAN
  /\ at \in {"idle", "start", "loop", "extents", "alternate", "primary",
             "catalog", "data", "enlarge", "reserve", "mark"} \/ Stopped
  /\ at = "loop" => Mapped(op.cur)

Owned == UNION {BlocksOf(ext[f]) : f \in Files}
Reserved == {0, hdr.total - 1}

(* No block belongs to two files or twice to one, and none is the volume   *)
(* header's or the alternate header's.  A run of blocks that continues an  *)
(* extent is only as contiguous as the allocation loop makes it.           *)
NoSharing ==
  /\ \A f, g \in Files : \A i \in DOMAIN ext[f], j \in DOMAIN ext[g] :
       ext[f][i] = ext[g][j] => f = g /\ i = j
  /\ Owned \cap (Reserved \cup {b \in Owned : b >= hdr.total}) = {}

(* Between operations the bitmap marks exactly the blocks of the files and *)
(* of the two headers.                                                     *)
BitmapExact == at = "idle" /\ ~wild => used = Owned \cup Reserved

(* freeBlocks is the number of clear bits, at every step of the program;   *)
(* while the volume grows, the last block is counted as if it were already *)
(* reserved.                                                               *)
FreeCount ==
  ~wild /\ ~Stopped => Cardinality({b \in 0 .. hdr.total - 1 : b \notin used}) =
             hdr.free + (IF Grown THEN 1 ELSE 0)

(* Every block can be sought.  A volume only grows: one that is narrow has *)
(* always been.                                                            *)
Narrow == hdr.total <= Reach

(* What the bitmap, the count of the header and the extents of the files   *)
(* say of the blocks agrees, as long as every block can be sought.         *)
SpaceAccounting == Narrow => NoSharing /\ BitmapExact /\ FreeCount

(* Between operations everything in memory is on the disk, twice for the   *)
(* volume header.                                                          *)
Durable ==
  at = "idle" => /\ primary = Header /\ alternate = Header
                 /\ \A f \in DataFiles : catalog[f] = fork[f]

OnDisk(f) == IF f \in DataFiles THEN catalog[f] ELSE primary.forks[f]

Found(f) == Follow(f, OnDisk(f))

(* Wherever the process stops, the blocks that the records on the disk     *)
(* give to a file are given to no other file, and those that a call has    *)
(* not just cut off are marked in the bitmap, so that the next session     *)
(* will not hand them out; a call that returned has its effect on the      *)
(* disk.  Left out are a file whose records cannot be followed             *)
(* (ExtentsConsistent) and a volume some block of which cannot be sought.  *)
CrashKeepsFiles ==
  Narrow =>
    /\ Durable
    /\ \A f \in Files : Found(f).ok =>
         /\ \A i \in DOMAIN Found(f).blocks :
              i <= Len(ext[f]) => Found(f).blocks[i] \in used
         /\ \A g \in Files \ {f} : Found(g).ok =>
              BlocksOf(Found(f).blocks) \cap BlocksOf(Found(g).blocks) = {}

(* The loop of allocate ends: there are at least as many clear bits as     *)
(* freeBlocks promises, and nextAllocation visits every block.             *)
AllocateReturns == (at = "loop" /\ ~wild) ~> at # "loop"

(* Each file reads back as its own sequence of units.                      *)
SizeOf(f) == IF at \in {"extents", "panic"} /\ op # NoOp /\ op.f = f
             THEN op.size ELSE fork[f].size

Store == INSTANCE FileStore WITH
  Files   <- DataFiles,
  data    <- [f \in DataFiles |->
                [i \in 1 .. SizeOf(f) |-> image[Place(ext[f], i - 1)]]],
  stopped <- Stopped

(* Not of a volume some block of which cannot be sought: taking that block *)
(* zeroes another, and the one taken keeps what it held.                   *)
ImplementsFileStore ==
  Store!StoreInit /\ [][Narrow => Store!StoreNext]_(Store!storeVars)

(* rawfile.c:447: hfs_panic("inconsistent extents information!") is for a  *)
(* volume that is damaged; one this program wrote never leads there.       *)
ExtentsConsistent == at # "panic"

-----------------------------------------------------------------------------
(* The inductive invariant behind SpaceAccounting and CrashKeepsFiles, for *)
(* volumes none of whose files ever needs an overflow record: what one     *)
(* says is read back under the wrong key (ExtentsConsistent).  It holds    *)
(* while the volume is narrow.                                             *)

FewExtents == DOMAIN overflow = {}

OpType == [f : Files, size : Nat, then : {"return", "data", "enlarge", "mark"},
           left : Nat, cur : Nat, fresh : BOOLEAN, loc : Nat, len : Nat,
           total : Nat, blind : BOOLEAN]

Working == at \in {"start", "loop", "extents", "alternate", "primary",
                   "catalog", "data", "enlarge", "mark"}

(* The bytes a bitmap of hdr.total blocks has.                             *)
MapBytes == ByteOf(hdr.total - 1) + 1

(* What the operation under way is for.                                    *)
ControlInv ==
  /\ at \notin {"panic", "adrift"}
  /\ at = "idle" => op = NoOp
  /\ op = NoOp \/ op \in OpType
  /\ Working => op # NoOp
  /\ at \in {"data", "catalog"} => op.f \in DataFiles
  /\ op # NoOp =>
       /\ op.then = "data" => op.f \in DataFiles
       /\ op.then = "enlarge" =>
            /\ op.f = MapFile
            /\ op.total \in GrowTotals
            /\ op.size = op.total \div MapBits
            /\ at \notin {"exited", "reserve"} => op.total > hdr.total
       /\ op.then = "mark" => op.f = MapFile /\ op.size = MapBytes
       /\ at = "enlarge" => op.then = "enlarge"
       /\ at = "mark" => op.then = "mark"
       /\ op.f = MapFile => op.size <= 2 * BlockUnits
       /\ op.f = MapFile /\ at \in {"start", "loop", "extents"} =>
            op.size > fork[MapFile].size
  /\ at = "mark" => MapBytes <= fork[MapFile].size
  /\ at \in {"alternate", "primary"} /\ op.then = "mark" =>
       MapBytes <= fork[MapFile].size
  /\ at = "loop" => /\ op.left >= 1 /\ op.left <= hdr.free
                    /\ op.cur < hdr.total
                    /\ ~op.fresh => /\ ext[op.f] # <<>>
                                    /\ op.cur = Last(ext[op.f]) + 1

InWork(f) == op # NoOp /\ op.f = f

(* The fork of a file and its extent list say the same, except that while  *)
(* allocate is at it the list is ahead, or behind.                         *)
ShapeInv ==
  /\ \A f \in Files :
       /\ fork[f].total = Blocks(fork[f].size)
       /\ Len(fork[f].ext) = fork[f].total
       /\ ~(InWork(f) /\ at \in {"loop", "extents"}) => ext[f] = fork[f].ext
  /\ at = "loop" => /\ Len(ext[op.f]) + op.left = Need
                    /\ Len(ext[op.f]) >= Have
  /\ at = "extents" => Len(ext[op.f]) = Need
  /\ at \in {"loop", "extents"} =>
       \A i \in DOMAIN ext[op.f] : i <= Have => ext[op.f][i] = fork[op.f].ext[i]

(* The bitmap has a bit for every block that is marked.                    *)
MapInv ==
  /\ hdr.total >= 4 /\ hdr.total <= 2 * BlockUnits * MapBits
  /\ \A b \in used : Mapped(b)
  /\ fork[MapFile].size >= 1

(* The blocks that are marked: only junk is marked without cause.          *)
MarkInv ==
  /\ Owned \cup {0} \subseteq used
  /\ ~Grown /\ ~Stopped => hdr.total - 1 \in used
  /\ ~wild => used \subseteq Owned \cup {0} \cup
                               (IF Grown THEN {} ELSE {hdr.total - 1})

(* While the volume grows, its new last block is not yet marked, but the   *)
(* bitmap finds the block it may need before it comes there.               *)
GrowInv ==
  /\ Grown /\ at \in {"reserve", "start", "loop"} =>
       \E b \in 1 .. hdr.total - 2 :
         /\ b \notin used /\ Mapped(b)
         /\ at # "loop" => hdr.next <= b /\ \A i \in DOMAIN ext[MapFile] : ext[MapFile][i] < b
         /\ at = "loop" => op.cur = b \/ (op.cur < b /\ hdr.next <= b)
         /\ at # "reserve" /\ op.blind => ByteOf(b) < ByteOf(hdr.total - 1)
  /\ op # NoOp /\ op.then = "mark" /\ op.blind =>
       \A b \in used : ByteOf(b) < ByteOf(hdr.total - 1)

(* What is on the disk: the fork as it is or, until it is saved, as it was *)
(* before.                                                                 *)
DiskInv ==
  /\ \A f \in DataFiles :
       ~(InWork(f) /\ at \in {"alternate", "primary", "catalog"}) => catalog[f] = fork[f]
  /\ \A f \in Specials :
       ~(InWork(f) /\ at \in {"alternate", "primary"}) => primary.forks[f] = fork[f]
  /\ at \in {"idle", "catalog", "data"} \/ (at = "start" /\ op.then # "mark") =>
       primary = Header /\ alternate = Header
  /\ at = "primary" => alternate = Header
  /\ \A f \in Files :
       /\ Len(OnDisk(f).ext) = OnDisk(f).total
       /\ \A i \in DOMAIN ext[f] : i <= OnDisk(f).total => ext[f][i] = OnDisk(f).ext[i]
       /\ ~InWork(f) \/ OnDisk(f).total <= Need => OnDisk(f).total <= Len(ext[f])

(* No record on the disk gives a file a block of another file's list: the  *)
(* blocks a shrinking file is about to lose are not handed out before its  *)
(* record says so.                                                         *)
ApartInv ==
  \A f, g \in Files :
    f # g => BlocksOf(OnDisk(f).ext) \cap BlocksOf(ext[g]) = {}

AllocInv == /\ Narrow /\ TypeOK /\ ControlInv /\ ShapeInv /\ MapInv /\ NoSharing
            /\ MarkInv /\ FreeCount /\ GrowInv /\ DiskInv /\ ApartInv
            /\ primary \in [hdr : [total : Nat, free : Nat, next : Nat],
                            forks : [Specials -> ForkType]]
=============================================================================
