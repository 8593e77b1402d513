----------------------------- MODULE DiskImage -----------------------------
(***************************************************************************)
(* The commands of dmg that make and take apart UDIF images: buildDmg,     *)
(* convertToDMG, convertToISO and extractDmg of dmg/dmglib.c, the          *)
(* partition layout of dmg/partition.c, the resource lists of              *)
(* dmg/resources.c and updateAttribution of dmg/attribution.c.             *)
(*                                                                         *)
(* The unit is a 512-byte sector.  A cell of the data fork is a sector, or *)
(* a whole compressed run <<"z", sectors>>, whatever its size.  A checksum *)
(* is the sequence it was fed with, so that equal sums mean equal data.    *)
(* insertBLKX is taken at its word, SequentialImage, which RunPipeline     *)
(* implements; it also says which runs the attribution keeps raw.  A       *)
(* device is a sequence of sectors, and the descriptor map and the entries *)
(* of the partition map are sectors that say what they are.                *)
(***************************************************************************)
EXTENDS Integers, Sequences, FiniteSets, SequencesExt, FiniteSetsExt

CONSTANTS
  Volumes,      \* the HFS+ volumes considered, sequences of sectors
  Zero,         \* a sector of zeros
  Driver,       \* a sector of the ATAPI driver
  Noise,        \* sectors that no compressor shortens
  Garbage,      \* what a checksum of the wrong length amounts to
  Sentinel,     \* the sentinel of dmg build
  Patches,      \* [anchor, data] of dmg attribute
  RunSectors,   \* the runSectors argument
  RawSlack,     \* the 15 of blockCompress
  WordSectors,  \* the sectors in 2^32 bytes
  MaxCommands   \* bound: commands run

DDM_SIZE         == 1
PARTITION_OFFSET == DDM_SIZE
PARTITION_SIZE   == 63
ATAPI_OFFSET     == 64
ATAPI_SIZE       == 8
FREE_SIZE        == 10
USER_OFFSET      == ATAPI_OFFSET + ATAPI_SIZE
EXTRA_SIZE       == ATAPI_OFFSET + ATAPI_SIZE + FREE_SIZE

(* 512 bytes, and the 2048 of dmg build2048, in sectors.                   *)
BlockSizes == {1, 4}

ASSUME SizesAssumption == /\ RunSectors \in Nat \ {0}
                          /\ RawSlack \in Nat
                          /\ WordSectors \in Nat \ {0}
                          /\ MaxCommands \in Nat
ASSUME SentinelAssumption == Sentinel # <<>> /\ \A i \in DOMAIN Sentinel :
                                                  Sentinel[i] # Zero
ASSUME PatchesAssumption == \A p \in Patches : p.anchor # <<>>

(* What volumes hold, patches write and the driver is: none of the sectors *)
(* that say what they are.                                                 *)
Content == (UNION {Range(v) : v \in Volumes}) \cup
           (UNION {Range(p.data) : p \in Patches}) \cup {Zero, Driver}

IsSequence(s) == s \in Seq(Range(s))

ASSUME ContentAssumption ==
  /\ \A v \in Volumes : IsSequence(v)
  /\ \A p \in Patches : IsSequence(p.anchor) /\ IsSequence(p.data)
  /\ IsSequence(Sentinel)
  /\ \A s \in Content : s[1] \notin {"DDM", "entry"}

VARIABLES
  cmd,    \* the command that runs, or that ran last
  pc,     \* where it stands
  w,      \* the image it writes
  img,    \* the last image that was finished
  dev,    \* what the last iso or extract wrote
  count   \* commands run

vars == <<cmd, pc, w, img, dev, count>>

Zeros(n) == [i \in 1 .. n |-> Zero]

-----------------------------------------------------------------------------
(* insertBLKX and extractBLKX.                                             *)

Runs(data)     == (Len(data) + RunSectors - 1) \div RunSectors
RunOf(data, i) == SubSeq(data, i * RunSectors + 1,
                         Min({(i + 1) * RunSectors, Len(data)}))

(* `outsize / 512 >= sectorCount - 15`, unsigned: never for a short run.   *)
NoGain(run) == Len(run) >= RawSlack /\ \A i \in DOMAIN run : run[i] \in Noise

(* Where a string starts in a sequence of sectors.                         *)
Marks(string, data) ==
  {m \in 0 .. Len(data) - Len(string) :
     SubSeq(data, m + 1, m + Len(string)) = string}

Pipeline(data) ==
  INSTANCE SequentialImage WITH
    RunUnits <- RunSectors, SentinelLen <- Len(Sentinel),
    input  <- [total |-> Len(data), avail |-> Len(data),
               marks |-> Marks(Sentinel, data)],
    image  <- <<>>,
    status <- "open"

(* The runs that the sentinel attribution keeps raw.                       *)
Kept(data) == {i \in 0 .. Runs(data) - 1 : Pipeline(data)!Raw(i)}

Cells(data, i, kept) ==
  LET run == RunOf(data, i)
  IN  IF i \in kept \/ NoGain(run) THEN run ELSE <<<<"z", run>>>>

(* The table and the cells that insertBLKX makes of data, when the fork    *)
(* is off cells long.                                                      *)
Insert(data, first, off, kept) ==
  LET parts == [k \in 1 .. Runs(data) |-> Cells(data, k - 1, kept)]
      at(k) == off + Len(FlattenSeq(SubSeq(parts, 1, k - 1)))
      run(k) == [kind |-> IF parts[k] = RunOf(data, k - 1) THEN "raw" ELSE "z",
                 start |-> (k - 1) * RunSectors,
                 count |-> Len(RunOf(data, k - 1)),
                 off |-> at(k), len |-> Len(parts[k])]
      end == [kind |-> "term", start |-> Len(data), count |-> 0,
              off |-> at(Runs(data) + 1), len |-> 0]
  IN  [cells |-> FlattenSeq(parts),
       table |-> [first |-> first, count |-> Len(data), sum |-> data,
                  runs |-> Append([k \in 1 .. Runs(data) |-> run(k)], end)]]

(* The sectors of one run, and of a table: extractBLKX.                    *)
Expand(fork, r) ==
  CASE r.kind = "raw"    -> SubSeq(fork, r.off + 1, r.off + r.len)
    [] r.kind = "z"      -> fork[r.off + 1][2]
    [] r.kind = "ignore" -> Zeros(r.count)
    [] r.kind = "term"   -> <<>>

Extract(fork, t) ==
  FlattenSeq([k \in DOMAIN t.runs |-> Expand(fork, t.runs[k])])

(* convertToISO: every table at its own place, the last one prevails.      *)
Device(image) ==
  LET end == Max({0} \cup {image.blkx[k].first + image.blkx[k].count :
                           k \in DOMAIN image.blkx})
      holders(s) == {k \in DOMAIN image.blkx :
                       /\ image.blkx[k].first <= s
                       /\ s < image.blkx[k].first + image.blkx[k].count}
      data == [k \in DOMAIN image.blkx |-> Extract(image.fork, image.blkx[k])]
  IN  [s \in 1 .. end |->
         IF holders(s - 1) = {} THEN Zero
         ELSE LET k == Max(holders(s - 1))
              IN  data[k][s - image.blkx[k].first]]

-----------------------------------------------------------------------------
(* The resource lists: a new entry replaces the one with its ID.           *)

InsertData(list, e) ==
  LET same == {k \in DOMAIN list : list[k].id = e.id}
  IN  IF same = {} THEN Append(list, e)
      ELSE [list EXCEPT ![Min(same)] = e]

NamedTable(t, id, name) ==
  [id |-> id, name |-> name, first |-> t.first, count |-> t.count,
   sum |-> t.sum, runs |-> t.runs]

(* Extend an image with a partition whose data goes through insertBLKX.    *)
AddPartition(i, data, first, id, name, kept) ==
  LET ins == Insert(data, first, Len(i.fork), kept)
  IN  [i EXCEPT !.fork = @ \o ins.cells,
                !.sum  = @ \o ins.cells,
                !.blkx = InsertData(@, NamedTable(ins.table, id, name))]

(* writeFreePartition: no data, an empty checksum.                         *)
AddFree(i, first, n) ==
  [i EXCEPT !.blkx = InsertData(@,
     [id |-> i.pNum, name |-> "Apple_Free", first |-> first, count |-> n,
      sum |-> <<>>,
      runs |-> <<[kind |-> "ignore", start |-> 0, count |-> n,
                  off |-> Len(i.fork), len |-> 0],
                 [kind |-> "term", start |-> n, count |-> 0,
                  off |-> Len(i.fork), len |-> 0]>>]),
            !.pNum = @ + 1]

(* The cSum resource and the record of the nsiz list, which hold the       *)
(* MediaKit sum of a partition.                                            *)
AddSums(i, id, data, nsiz) ==
  [i EXCEPT !.cSum = InsertData(@, [id |-> id, sum |-> data]),
            !.nsiz = nsiz]

(* New records of the two partitions before the volume go second.          *)
SecondNSiz(list, e) ==
  IF list = <<>> THEN <<e>> ELSE <<Head(list), e>> \o Tail(list)

EmptyImage == [fork |-> <<>>, sum |-> <<>>, blkx |-> <<>>, cSum |-> <<>>,
               nsiz |-> <<>>, pNum |-> -1, plst |-> <<>>, koly |-> <<>>]

MasterSum(blkx) == [k \in DOMAIN blkx |-> blkx[k].sum]

Trailer(i, sectors) ==
  [i EXCEPT !.koly = <<[forkLength |-> Len(i.fork), forkSum |-> i.sum,
                        masterSum |-> MasterSum(i.blkx),
                        sectorCount |-> sectors]>>]
-----------------------------------------------------------------------------
(* The layout of a device: createDriverDescriptorMap and                   *)
(* createApplePartitionMap.  Starts and sizes are in blocks of the device. *)

(* Variant: down to a block.                                               *)
AlignDown(n, block) == (n \div block) * block

Align(n, block) == ((n + block \div 2) \div block) * block

DescriptorMap(sectors, block) ==
  <<"DDM", block, (sectors + EXTRA_SIZE + block \div 2) \div block>>

MapSectors(block) == (PARTITION_SIZE \div block) * block

Entries(sectors, block) ==
  << <<"entry", "Apple_partition_map", PARTITION_OFFSET,
       PARTITION_SIZE \div block>>,
     <<"entry", "Apple_Driver_ATAPI", ATAPI_OFFSET \div block,
       IF block = 1 THEN ATAPI_SIZE ELSE 1>>,
     <<"entry", "Apple_HFSX", USER_OFFSET \div block, sectors \div block>>,
     <<"entry", "Apple_Free", (USER_OFFSET + sectors) \div block,
       (FREE_SIZE + block \div 2) \div block>> >>

PartitionMap(sectors, block) ==
  LET entries == Entries(sectors, block)
  IN  [s \in 1 .. MapSectors(block) |->
         IF (s - 1) % block = 0 /\ (s - 1) \div block < Len(entries)
         THEN entries[(s - 1) \div block + 1] ELSE Zero]

(* totalBlocks * blockSize is a 32-bit product.                            *)
SectorsIn(volume) == Len(volume) % WordSectors

(* The stages of buildDmg, each a function of the image so far.            *)

WithDDM(i, ddm, block) ==
  LET table == [AddPartition(i, <<ddm>>, 0, i.pNum, "DDM", {})
                EXCEPT !.pNum = @ + 1]
  IN  IF block > DDM_SIZE THEN AddFree(table, DDM_SIZE, block - DDM_SIZE)
      ELSE table

(* Variant: the number of the next partition stays as it is.               *)
WithMapUncounted(i, sectors, block) ==
  LET data == PartitionMap(sectors, block)
      part == AddPartition(i, data, PARTITION_OFFSET * block, i.pNum,
                           "Apple_partition_map", {})
  IN  AddSums(part, 0, data, SecondNSiz(part.nsiz, [id |-> 0, sum |-> data]))

WithMap(i, sectors, block) ==
  LET data == PartitionMap(sectors, block)
      part == AddPartition(i, data, PARTITION_OFFSET * block, i.pNum,
                           "Apple_partition_map", {})
  IN  [AddSums(part, 0, data, SecondNSiz(part.nsiz, [id |-> 0, sum |-> data]))
       EXCEPT !.pNum = @ + 1]

WithATAPI(i, block) ==
  LET data == [s \in 1 .. IF block = 1 THEN ATAPI_SIZE ELSE block |-> Driver]
      part == AddPartition(i, data, ATAPI_OFFSET, i.pNum,
                           "Apple_Driver_ATAPI", {})
      done == [AddSums(part, 1, data,
                       SecondNSiz(part.nsiz, [id |-> 1, sum |-> data]))
               EXCEPT !.pNum = @ + 1]
  IN  IF block # 1 /\ USER_OFFSET > ATAPI_OFFSET + block
      THEN AddFree(done, ATAPI_OFFSET + block,
                   USER_OFFSET - (ATAPI_OFFSET + block))
      ELSE done

(* The main partition, and what the attribution hooks sum up on the way:   *)
(* the data before, in and after the raw runs.                             *)
FirstKept(kept) == Min(kept)
LastKept(kept)  == Max(kept)

AttributionOf(cells, data, kept, ins, off) ==
  IF kept = {}
  THEN [before |-> cells, beforeU |-> data, rawPos |-> Len(cells),
        raw |-> <<>>, rawLen |-> 0, after |-> <<>>, afterLen |-> 0,
        afterU |-> <<>>, afterULen |-> 0]
  ELSE LET from   == ins.table.runs[FirstKept(kept) + 1].off - off
           to     == ins.table.runs[LastKept(kept) + 2].off - off
           fromU  == ins.table.runs[FirstKept(kept) + 1].start
           toU    == ins.table.runs[LastKept(kept) + 2].start
           after  == SubSeq(ins.cells, to + 1, Len(ins.cells))
           afterU == SubSeq(data, toU + 1, Len(data))
       IN  [before |-> SubSeq(cells, 1, off + from),
            beforeU |-> SubSeq(data, 1, fromU),
            rawPos |-> off + from,
            raw |-> SubSeq(ins.cells, from + 1, to), rawLen |-> to - from,
            after |-> after, afterLen |-> Len(after),
            afterU |-> afterU, afterULen |-> Len(afterU)]

WithMain(i, volume, sentinel) ==
  LET data == SubSeq(volume, 1, SectorsIn(volume))
      kept == IF sentinel THEN Kept(data) ELSE {}
      off  == Len(i.fork)
      ins  == Insert(data, USER_OFFSET, off, kept)
      part == AddPartition(i, data, USER_OFFSET, i.pNum, "Apple_HFSX", kept)
  IN  [AddSums(part, 2, data, Append(part.nsiz, [id |-> 2, sum |-> data]))
       EXCEPT !.pNum = @ + 1,
              !.plst = IF sentinel
                       THEN <<AttributionOf(part.fork, data, kept, ins, off)>>
                       ELSE <<>>]

WithFree(i, sectors, block) ==
  AddFree(i, USER_OFFSET + sectors, Align(FREE_SIZE, block))

WithTrailer(i, sectors, block) == Trailer(i, sectors + Align(EXTRA_SIZE, block))

(* The whole of buildDmg.                                                  *)
Built(volume, block, sentinel) ==
  LET n == SectorsIn(volume)
  IN  CHOOSE image \in
        {WithTrailer(i5, n, block) :
           i5 \in {WithFree(i4, n, block) :
           i4 \in {WithMain(i3, volume, sentinel) :
           i3 \in {WithATAPI(i2, block) :
           i2 \in {WithMap(i1, n, block) :
           i1 \in {WithDDM(EmptyImage, DescriptorMap(n, block), block)}}}}}} : TRUE
-----------------------------------------------------------------------------
Idle    == pc = "idle"
NoPatch == [anchor |-> <<>>, data |-> <<>>]

Command(name, input) ==
  [name |-> name, input |-> input, block |-> 1, sentinel |-> FALSE,
   patch |-> NoPatch, result |-> "running"]

Init == /\ cmd = [Command("none", <<>>) EXCEPT !.result = "done"]
        /\ pc = "idle"
        /\ w = EmptyImage /\ img = EmptyImage
        /\ dev = <<>> /\ count = 0

Start(c, next, image) == /\ Idle /\ count < MaxCommands
                         /\ cmd' = c /\ pc' = next /\ w' = image
                         /\ count' = count + 1
                         /\ UNCHANGED <<img, dev>>

Step(from, to, image) == /\ pc = from /\ pc' = to
                         /\ w' = image
                         /\ UNCHANGED <<cmd, img, dev, count>>

(* An ASSERT fails: the output stays as it is.                             *)
Refuse == /\ pc' = "idle"
          /\ cmd' = [cmd EXCEPT !.result = "refused"]
          /\ UNCHANGED <<w, img, dev, count>>

Finish(image) == /\ pc' = "idle"
                 /\ w' = image /\ img' = image
                 /\ cmd' = [cmd EXCEPT !.result = "done"]
                 /\ UNCHANGED <<dev, count>>

(* dmg build takes a sentinel, dmg build2048 does not.                     *)
BuildDmg(volume, block, sentinel) ==
  /\ block # 1 => ~sentinel
  /\ Start([Command("build", volume) EXCEPT !.block = block,
                                            !.sentinel = sentinel],
           "ddm", EmptyImage)

VolumeSectors == SectorsIn(cmd.input)

WriteDriverDescriptorMap ==
  Step("ddm", "map",
       WithDDM(w, DescriptorMap(VolumeSectors, cmd.block), cmd.block))

WriteApplePartitionMap ==
  Step("map", "atapi", WithMap(w, VolumeSectors, cmd.block))

WriteATAPI == Step("atapi", "main", WithATAPI(w, cmd.block))

WriteMain == Step("main", "free", WithMain(w, cmd.input, cmd.sentinel))

WriteFreePartition ==
  Step("free", "trailer", WithFree(w, VolumeSectors, cmd.block))

(* The property list and the trailer.                                      *)
WriteTrailer == /\ pc = "trailer"
                /\ Finish(WithTrailer(w, VolumeSectors, cmd.block))

-----------------------------------------------------------------------------
(* convertToDMG of a device that an image was taken apart to, or of a      *)
(* plain volume.                                                           *)

HasDDM(input)   == input # <<>> /\ input[1][1] = "DDM"
BlockOf(input)  == input[1][2]
pmMapBlkCnt     == 4

(* Variant: the entry of the map itself is passed over.                    *)
NextEntry(input, i) == input[BlockOf(input) + i + 2]

(* The map is read as if its entries were 512 bytes apart.                 *)
EntryAt(input, i) == input[BlockOf(input) + i + 1]

ConvertToDMG(input) ==
  /\ input # <<>>
  /\ LET c == Command("convert", input)
     IN  IF HasDDM(input)
         THEN Start(c, "entries",
                    [WithDDM(EmptyImage, input[1], BlockOf(input))
                     EXCEPT !.pNum = 0])
         ELSE Start(c, "whole", EmptyImage)

(* The first block of the map goes to a buffer of 512 bytes.               *)
ReadEntries ==
  LET block == BlockOf(cmd.input)
  IN  /\ pc = "entries"
      /\ \/ block # 1 /\ Step("entries", "wild", w)
         \/ /\ block * (1 + pmMapBlkCnt) > Len(cmd.input)
            /\ Refuse                          \* "fread"
         \/ /\ block * (1 + pmMapBlkCnt) <= Len(cmd.input)
            /\ Step("entries", "partition", w)

AddConverted(data, first, i, name) ==
  LET part == AddPartition(w, data, first, i, name, {})
  IN  AddSums(part, i, data, Append(part.nsiz, [id |-> i, sum |-> data]))

IsEntry(i) == /\ i < pmMapBlkCnt
              /\ EntryAt(cmd.input, i)[1] = "entry"

(* Positions are scaled to the blocks of the device, sizes and the number  *)
(* of the first sector are not.                                            *)
ConvertPartition ==
  /\ pc = "partition"
  /\ IsEntry(w.pNum)
  /\ LET e    == EntryAt(cmd.input, w.pNum)
         from == e[3] * BlockOf(cmd.input)
     IN  IF from + e[4] > Len(cmd.input)
         THEN Refuse                           \* "couldn't read full block"
         ELSE Step("partition", "partition",
                [AddConverted(SubSeq(cmd.input, from + 1, from + e[4]),
                              e[3], w.pNum, e[2])
                 EXCEPT !.pNum = @ + 1])

LastSector(i) ==
  Max({0} \cup {EntryAt(cmd.input, k)[3] + EntryAt(cmd.input, k)[4] :
                k \in 0 .. i - 1})

FinishConversion ==
  /\ pc = "partition"
  /\ ~IsEntry(w.pNum)
  /\ Finish(Trailer(w, LastSector(w.pNum)))

ConvertWhole ==
  /\ pc = "whole"
  /\ Finish(Trailer(AddConverted(cmd.input, 0, 0, "whole"), 0))

(* convertToISO and extractDmg read the finished image.                    *)
HFSNames == {"Apple_HFS", "Apple_HFSX"}
HFSTable(image) ==
  Min({k \in DOMAIN image.blkx : image.blkx[k].name \in HFSNames})
HasHFS(image)  == \E k \in DOMAIN image.blkx : image.blkx[k].name \in HFSNames
VolumeOf(image) == Extract(image.fork, image.blkx[HFSTable(image)])

Read(name, data) ==
  /\ Idle /\ count < MaxCommands
  /\ img.koly # <<>>
  /\ cmd' = [Command(name, <<>>) EXCEPT !.result = "done"]
  /\ dev' = data
  /\ count' = count + 1
  /\ UNCHANGED <<pc, w, img>>

ConvertToISO == Read("iso", Device(img))
ExtractDmg   == HasHFS(img) /\ Read("extract", VolumeOf(img))

-----------------------------------------------------------------------------
(* updateAttribution.                                                      *)

(* crc32_combine needs the length of what the second sum is of.            *)
Combine(a, b, n) == IF Len(b) = n THEN a \o b ELSE <<Garbage>>

Joined(a) == Combine(Combine(a.before, a.raw, a.rawLen), a.after, a.afterLen)

(* Variant: what comes after the raw runs is left out.                     *)
JoinedPart(a) == Combine(a.beforeU, a.raw, a.rawLen)

JoinedVolume(a) ==
  Combine(Combine(a.beforeU, a.raw, a.rawLen), a.afterU, a.afterULen)

(* Without an attribution resource the signature is wrong and nothing is   *)
(* written; with it the input is copied first.                             *)
UpdateAttribution(p) ==
  /\ img.koly # <<>>
  /\ LET c == [Command("attribute",
                       IF HasHFS(img) THEN VolumeOf(img) ELSE <<>>)
               EXCEPT !.patch = p]
     IN  IF img.plst = <<>>
         THEN Start([c EXCEPT !.result = "refused"], "idle", EmptyImage)
         ELSE Start(c, "patch", img)

RawRegion(i) == SubSeq(i.fork, i.plst[1].rawPos + 1,
                       i.plst[1].rawPos + i.plst[1].rawLen)

(* The string at the anchor is zeroed to its end, then the data is put     *)
(* there.                                                                  *)
Overwritten(raw, at, data) ==
  LET nul == Min({s \in at + 1 .. Len(raw) : raw[s] = Zero})
  IN  [s \in DOMAIN raw |->
         IF s > at /\ s <= at + Len(data) THEN data[s - at]
         ELSE IF s > at /\ s < nul THEN Zero ELSE raw[s]]

WithRaw(i, raw) ==
  [i EXCEPT !.fork = SubSeq(@, 1, i.plst[1].rawPos) \o raw
                     \o SubSeq(@, i.plst[1].rawPos + Len(raw) + 1, Len(@)),
            !.plst = <<[@[1] EXCEPT !.raw = raw]>>]

PatchRaw ==
  LET raw  == RawRegion(img)
      hits == Marks(cmd.patch.anchor, raw)
      at   == Min(hits)
      ends == {s \in at + 1 .. Len(raw) : raw[s] = Zero}
  IN  /\ pc = "patch"
      /\ IF hits = {} \/ at + Len(cmd.patch.data) > Len(raw)
         THEN Refuse                          \* "anchor position", "too long"
         ELSE IF ends = {}
         THEN Step("patch", "wild", w)        \* strlen leaves the buffer
         ELSE Step("patch", "sums",
                   WithRaw(w, Overwritten(raw, at, cmd.patch.data)))

RewriteResources ==
  Step("sums", "koly",
       [w EXCEPT !.blkx[HFSTable(w)].sum = JoinedVolume(w.plst[1])])

(* Variant: the master checksum stays as it was.                           *)
RewriteForkSum ==
  /\ pc = "koly"
  /\ Finish([w EXCEPT !.koly = <<[@[1] EXCEPT !.forkSum = Joined(w.plst[1])]>>])

RewriteTrailer ==
  /\ pc = "koly"
  /\ Finish([w EXCEPT !.koly =
               <<[@[1] EXCEPT !.forkSum = Joined(w.plst[1]),
                              !.masterSum = MasterSum(w.blkx)]>>])

-----------------------------------------------------------------------------
Next ==
  \/ \E v \in Volumes : \E b \in BlockSizes : \E s \in BOOLEAN :
       BuildDmg(v, b, s)
  \/ WriteDriverDescriptorMap \/ WriteApplePartitionMap \/ WriteATAPI
  \/ WriteMain \/ WriteFreePartition \/ WriteTrailer
  \/ \E d \in {dev} \cup Volumes : ConvertToDMG(d)
  \/ ReadEntries \/ ConvertPartition \/ FinishConversion \/ ConvertWhole
  \/ ConvertToISO \/ ExtractDmg
  \/ \E p \in Patches : UpdateAttribution(p)
  \/ PatchRaw \/ RewriteResources \/ RewriteTrailer

Spec == Init /\ [][Next]_vars
-----------------------------------------------------------------------------
(* While dmg build works, the number of the next partition is above that of*)
(* every table in the list.  insertData (resources.c) takes an entry of the*)
(* same number for a new version and would put it in the other's place.    *)
TablesNumbered ==
  pc \in {"ddm", "map", "atapi", "main", "free", "trailer"} =>
    \A k \in DOMAIN w.blkx : w.blkx[k].id < w.pNum

(* The variables have their types, and a build gives every table a number  *)
(* of its own.                                                             *)
TypeOK ==
  /\ pc \in {"idle", "ddm", "map", "atapi", "main", "free", "trailer",
             "entries", "partition", "whole", "patch", "sums", "koly", "wild"}
  /\ cmd.result \in {"running", "refused", "done"}
  /\ count \in 0 .. MaxCommands
  /\ \A i \in {w, img} :
       /\ i.pNum \in Nat \cup {-1}
       /\ \A k \in DOMAIN i.blkx :
            /\ i.blkx[k].id \in Nat \cup {-1}
            /\ i.blkx[k].first \in Nat /\ i.blkx[k].count \in Nat
       /\ Len(i.plst) <= 1 /\ Len(i.koly) <= 1
  /\ TablesNumbered

(* Finished images: the last one, and what a refused attribution leaves.   *)
Finished == {i \in {img} \cup (IF Idle THEN {w} ELSE {}) : i.koly # <<>>}

Fed(i, t) ==
  FlattenSeq([k \in DOMAIN t.runs |->
    IF t.runs[k].kind = "ignore" THEN <<>> ELSE Expand(i.fork, t.runs[k])])

(* The trailer and every table of an image hold the checksum of what the   *)
(* image holds, and the attribution resource describes it: after a build,  *)
(* a conversion, an attribution, and one that was refused after its copy.  *)
SumsDescribeImage ==
  \A i \in Finished :
    /\ i.koly[1].forkLength = Len(i.fork)
    /\ i.koly[1].forkSum = i.fork
    /\ i.koly[1].masterSum = MasterSum(i.blkx)
    /\ \A k \in DOMAIN i.blkx : i.blkx[k].sum = Fed(i, i.blkx[k])
    /\ i.plst # <<>> => /\ i.plst[1].raw = RawRegion(i)
                        /\ Joined(i.plst[1]) = i.fork

(* Parts of the form <<start, size>> that lie side by side.                *)
Tiles(parts, from, to) ==
  LET ends == [k \in 0 .. Len(parts) |->
                 IF k = 0 THEN from ELSE parts[k][1] + parts[k][2]]
  IN  /\ \A k \in DOMAIN parts : parts[k][1] = ends[k - 1]
      /\ ends[Len(parts)] = to

Success(name) == Idle /\ cmd.name = name /\ cmd.result = "done"

(* The partition map of an image, in sectors, and its tables agree.        *)
MapAgrees(i) ==
  LET block == Extract(i.fork, i.blkx[1])[1][2]
      map   == Extract(i.fork, i.blkx[Min({k \in DOMAIN i.blkx :
                 i.blkx[k].name = "Apple_partition_map"})])
  IN  \A s \in DOMAIN map : map[s][1] = "entry" =>
        \E k \in DOMAIN i.blkx :
          /\ i.blkx[k].name = map[s][2]
          /\ i.blkx[k].first = map[s][3] * block
          /\ i.blkx[k].count = map[s][4] * block

TilesWell(i) ==
  LET tables == [k \in DOMAIN i.blkx |-> <<i.blkx[k].first, i.blkx[k].count>>]
      runs   == FlattenSeq([k \in DOMAIN i.blkx |-> i.blkx[k].runs])
      whole  == i.blkx[1].name = "whole"
  IN  /\ Tiles(tables, 0, IF whole THEN i.blkx[1].count
                          ELSE i.koly[1].sectorCount)
      /\ \A k \in DOMAIN i.blkx :
           Tiles([j \in DOMAIN i.blkx[k].runs |->
                    <<i.blkx[k].runs[j].start, i.blkx[k].runs[j].count>>],
                 0, i.blkx[k].count)
      /\ Tiles([j \in DOMAIN runs |-> <<runs[j].off, runs[j].len>>],
               0, Len(i.fork))

(* The tables lie side by side from sector 0 to the count in the trailer   *)
(* (which is 0 for a conversion without a driver descriptor map), and so   *)
(* do the runs within their table and within the data fork; what the       *)
(* partition map in the image says is what the tables say.                 *)
TablesTile ==
  /\ \A i \in Finished : TilesWell(i)
  /\ Success("build") \/ Success("attribute") => MapAgrees(img)

(* A built image holds the volume, or what a 32-bit size leaves of it      *)
(* (totalBlocks times blockSize).                                          *)
BuiltHolds ==
  Success("build") =>
    VolumeOf(img) = SubSeq(cmd.input, 1, SectorsIn(cmd.input))

(* An image holds what it was made of: a build its volume, as above; an    *)
(* attribution that ends replaces the first sentinel of the volume and     *)
(* what follows it up to a zero, and nothing else; a conversion holds the  *)
(* device it was made of, if its blocks are sectors.                       *)
HoldsInput ==
  /\ BuiltHolds
  /\ Success("attribute") /\ cmd.patch.anchor = Sentinel =>
       VolumeOf(img) = Overwritten(cmd.input, Min(Marks(Sentinel, cmd.input)),
                                   cmd.patch.data)
  /\ Success("convert") /\ (HasDDM(cmd.input) => BlockOf(cmd.input) = 1) =>
       Device(img) = cmd.input

(* The gold standard of docs/attribution.md: an attributed image is the    *)
(* image that dmg build makes of the attributed volume, except for the     *)
(* cSum and nsiz resources, which test/attribution.t:450 excepts.  This    *)
(* takes a sentinel that is still where it was.                            *)
AttributedIsRebuilt ==
  Success("attribute") =>
    LET again == Built(VolumeOf(img), 1, TRUE)
    IN  Kept(VolumeOf(img)) = Kept(cmd.input) =>
          /\ img.fork = again.fork
          /\ img.blkx = again.blkx
          /\ img.plst = again.plst
          /\ img.koly = again.koly
=============================================================================
