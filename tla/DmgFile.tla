------------------------------ MODULE DmgFile ------------------------------
(***************************************************************************)
(* An image as a device: the io_func of dmg/dmgfile.c, through which       *)
(* hdutil and dmg extract read a UDIF image.  One run of the image is kept *)
(* in memory.  A read copies what that run holds of it and calls itself    *)
(* for the rest, so that one call may load many runs.                      *)
(*                                                                         *)
(* Locations count bytes of the device; those of the image file are its    *)
(* own.  A compressed run is one byte of the file, a member of             *)
(* DOMAIN Unpacked.                                                        *)
(***************************************************************************)
EXTENDS Integers, Sequences

CONSTANTS
  SectorSize,  \* SECTOR_SIZE
  Images,      \* the images: [bytes: the file, tables: the blkx resources]
  Unpacked,    \* [what may be decompressed -> the bytes that come out]
  DDM,         \* [first byte of a descriptor map -> sbBlkSize]
  Entry,       \* [first byte of a map entry -> [hfs, start, entries]]
  Zero,        \* a byte of zero
  MaxRead      \* bound: bytes asked for at once, and locations

ASSUME SizeAssumption == /\ SectorSize \in Nat \ {0}
                         /\ MaxRead \in Nat
ASSUME DDMAssumption  == \A b \in DOMAIN DDM : DDM[b] \in Nat \ {0}
ASSUME EntryAssumption == \A b \in DOMAIN Entry : /\ Entry[b].start \in Nat
                                                 /\ Entry[b].entries \in Nat

VARIABLES
  dmg,     \* the image that is open
  cache,   \* runType, runStart, runEnd and runData
  offset,  \* where the partition starts
  call,    \* the read that is under way, or the last one
  status   \* "closed", "opening", "open", or how the program ended

readerVars == <<dmg, cache, offset, call, status>>

Lesser(a, b) == IF a <= b THEN a ELSE b

Tables  == dmg.tables
Run(h)  == Tables[h[1]].runs[h[2]]

(* Where a run of a table lies on the device.                              *)
RunStart(h) == (Run(h).start + Tables[h[1]].first) * SectorSize
RunEnd(h)   == RunStart(h) + Run(h).count * SectorSize

Handles == UNION {{i} \X DOMAIN Tables[i].runs : i \in DOMAIN Tables}

InTable(t, sector) == t.first <= sector /\ sector < t.first + t.sectors

Holds(h, b) ==
  LET sector == b \div SectorSize
      from   == Tables[h[1]].first + Run(h).start
  IN  /\ InTable(Tables[h[1]], sector)
      /\ from <= sector /\ sector < from + Run(h).count

(* cacheOffset goes on after it has found one: the last is what stays.     *)
After(g, h) == g[1] > h[1] \/ (g[1] = h[1] /\ g[2] > h[2])

IsLastHolder(h, b) ==
  Holds(h, b) /\ \A g \in Handles : Holds(g, b) => ~After(g, h)

Covered(b) == \E h \in Handles : Holds(h, b)

-----------------------------------------------------------------------------
(* cacheRun: what is read of the image, and what becomes of it.            *)

Empty      == {"zeroes", "ignore", "comment", "terminator"}
Compressed == "compressed"

FileBytes(off, len) ==
  SubSeq(dmg.bytes, off + 1, Lesser(off + len, Len(dmg.bytes)))

Filled(n, got) == [i \in 1 .. n |-> IF i <= Len(got) THEN got[i] ELSE Zero]

(* What `got`, which the file answered, makes of the run.                  *)
Loaded(r, got) ==
  CASE r.type = "raw"      -> Filled(r.count * SectorSize, got)
    [] r.type = Compressed -> Unpacked[got[1]]
    [] OTHER               -> Filled(r.count * SectorSize, <<>>)

(* A run that is read short, of an unknown type or of another size than    *)
(* the table says, ends the program.                                       *)
Loads(r, got) ==
  CASE r.type = "raw"      -> Len(got) = r.len
    [] r.type = Compressed -> /\ Len(got) = 1 /\ r.len = 1
                              /\ got[1] \in DOMAIN Unpacked
                              /\ Len(Unpacked[got[1]]) = r.count * SectorSize
    [] OTHER               -> r.type \in Empty

(* Variant: the start of the table is forgotten.                           *)
RunCachedInTable(h, got) ==
  [type |-> Run(h).type, start |-> Run(h).start * SectorSize,
   end |-> (Run(h).start + Run(h).count) * SectorSize,
   data |-> Loaded(Run(h), got)]

RunCached(h, got) ==
  [type |-> Run(h).type, start |-> RunStart(h), end |-> RunEnd(h),
   data |-> Loaded(Run(h), got)]

NothingCached == [type |-> "terminator", start |-> 0, end |-> 0, data |-> <<>>]

-----------------------------------------------------------------------------
(* One call of read.                                                       *)

Request(goal, l, n) ==
  [goal |-> goal, pc |-> IF n = 0 THEN "done" ELSE "look",
   from |-> l, size |-> n, have |-> 0, got |-> <<>>, run |-> <<0, 0>>]

NoCall == Request("user", 0, 0)

(* Where the call stands on the device, and what it has still to copy.     *)
Location == call.from + call.have + offset
Left     == call.size - call.have

(* Variant: the end of the run counts as inside.                           *)
HitLate == /\ cache.type # "terminator"
           /\ cache.start <= Location /\ Location <= cache.end

(* Variant: what lies before the run counts as inside.                     *)
HitBefore == cache.type # "terminator" /\ Location < cache.end

Hit == /\ cache.type # "terminator"
       /\ cache.start <= Location /\ Location < cache.end

(* With no run for the location the one that is cached stays.              *)
Look ==
  /\ call.pc = "look"
  /\ IF Hit \/ ~Covered(Location) THEN call' = [call EXCEPT !.pc = "copy"]
     ELSE \E h \in Handles :
            /\ IsLastHolder(h, Location)
            /\ call' = [call EXCEPT !.pc = "fetch", !.run = h]
  /\ UNCHANGED <<dmg, cache, offset, status>>

(* The run arrives, when the file has answered with got.                   *)
Arrive(got) ==
  /\ call.pc = "fetch"
  /\ IF Loads(Run(call.run), got)
     THEN /\ cache' = RunCached(call.run, got)
          /\ call' = [call EXCEPT !.pc = "copy"]
          /\ UNCHANGED status
     ELSE /\ status' = "exited"
          /\ call' = [call EXCEPT !.pc = "done"]
          /\ UNCHANGED cache
  /\ UNCHANGED <<dmg, offset>>

Fetch == Arrive(FileBytes(Run(call.run).off, Run(call.run).len))

(* Behind or before the run that is cached, the difference wraps.          *)
InRun == cache.start <= Location /\ Location <= cache.end

Portion == Lesser(Left, cache.end - Location)

Copied ==
  [i \in 1 .. call.have + Portion |->
     IF i <= call.have THEN call.got[i]
     ELSE cache.data[call.from + offset + i - cache.start]]

Copy ==
  /\ call.pc = "copy"
  /\ IF cache # NothingCached /\ InRun
     THEN /\ call' = [call EXCEPT
                         !.got = Copied, !.have = call.have + Portion,
                         !.pc = IF Portion = Left THEN "done" ELSE "look"]
          /\ UNCHANGED status
     ELSE status' = "wild" /\ call' = [call EXCEPT !.pc = "done"]
  /\ UNCHANGED <<dmg, cache, offset>>

Turn == status \in {"opening", "open"} /\ (Look \/ Copy)

-----------------------------------------------------------------------------
(* openDmgFile and seekDmgPartition(-1), which reads the descriptor map    *)
(* and the partition map by the same calls.                                *)

Open ==
  /\ status = "closed"
  /\ status' = "opening"
  /\ cache' = NothingCached
  /\ offset' = 0
  /\ call' = Request("ddm", 0, SectorSize)
  /\ UNCHANGED dmg

(* The map is read again once it is known how many entries there are.      *)
Answered(goal) ==
  status = "opening" /\ call.pc = "done" /\ call.goal = goal

Continue(request) ==
  /\ call' = request
  /\ UNCHANGED <<dmg, cache, offset, status>>

Undefined == /\ status' = "wild"
             /\ UNCHANGED <<dmg, cache, offset, call>>

ReadFirstEntry ==
  /\ Answered("ddm")
  /\ IF call.got[1] \in DOMAIN DDM
     THEN Continue(Request("first", DDM[call.got[1]], DDM[call.got[1]]))
     ELSE Undefined

ReadMap ==
  /\ Answered("first")
  /\ IF call.got[1] \in DOMAIN Entry
     THEN Continue(Request("map", call.size, Entry[call.got[1]].entries * call.size))
     ELSE Undefined

(* The blocks of the map that are of type Apple_HFS or Apple_HFSX.         *)
HFSEntries(map, block) ==
  {i \in 0 .. (Len(map) \div block) - 1 :
     /\ map[i * block + 1] \in DOMAIN Entry
     /\ Entry[map[i * block + 1]].hfs}

(* The start of the first of them, or the start of the device.             *)
Starts(map, block) ==
  LET found == HFSEntries(map, block)
  IN  IF found = {} THEN {0}
      ELSE {Entry[map[i * block + 1]].start * block :
              i \in {i \in found : \A j \in found : i <= j}}

Choose(o) == /\ offset' = o
             /\ status' = "open"
             /\ call' = NoCall
             /\ UNCHANGED <<dmg, cache>>

(* Variant: the starts are told in sectors, whatever the blocks.           *)
SelectSector ==
  /\ Answered("map")
  /\ \E o \in Starts(call.got, call.from) :
       Choose((o \div call.from) * SectorSize)

Select == /\ Answered("map")
          /\ \E o \in Starts(call.got, call.from) : Choose(o)

Read(l, n) ==
  /\ status = "open"
  /\ call.pc = "done"
  /\ call' = Request("user", l, n)
  /\ UNCHANGED <<dmg, cache, offset, status>>

Close ==
  /\ status = "open"
  /\ call.pc = "done"
  /\ status' = "closed"
  /\ cache' = NothingCached
  /\ UNCHANGED <<dmg, offset, call>>

Reads == \E l \in 0 .. MaxRead : \E n \in 1 .. MaxRead : Read(l, n)

Init ==
  /\ dmg \in Images
  /\ cache = NothingCached
  /\ offset = 0
  /\ call = NoCall
  /\ status = "closed"

Opening == Open \/ ReadFirstEntry \/ ReadMap \/ Select

Next == Opening \/ Turn \/ Fetch \/ Reads \/ Close

Spec == Init /\ [][Next]_readerVars /\ WF_readerVars(Turn \/ Fetch \/ Opening)

-----------------------------------------------------------------------------
(* The images that are considered: a table is a sequence of runs, raw runs *)
(* have no more bytes than sectors, no run goes on past the end of its     *)
(* table, and no two runs share a sector, which is what the writers of     *)
(* this repository promise (DiskImage, TablesTile).                        *)
Sound(r) == /\ {r.start, r.count, r.off, r.len} \subseteq Nat
            /\ r.type \in Empty \cup {"raw", Compressed, "unknown"}
            /\ r.type = "raw" => r.len <= r.count * SectorSize

Inside(t, r) == r.start < t.sectors => r.start + r.count <= t.sectors

Overlap(t, r, u, q) == /\ t.first + r.start < u.first + q.start + q.count
                       /\ u.first + q.start < t.first + r.start + r.count

ASSUME ImagesAssumption ==
  \A d \in Images :
    /\ \A i \in DOMAIN d.tables :
         /\ d.tables[i].first \in Nat /\ d.tables[i].sectors \in Nat
         /\ \A j \in DOMAIN d.tables[i].runs :
              /\ Sound(d.tables[i].runs[j])
              /\ Inside(d.tables[i], d.tables[i].runs[j])
    /\ \A i, k \in DOMAIN d.tables :
         \A j \in DOMAIN d.tables[i].runs, l \in DOMAIN d.tables[k].runs :
           Overlap(d.tables[i], d.tables[i].runs[j],
                   d.tables[k], d.tables[k].runs[l]) => i = k /\ j = l

(* The bytes of the device, as the tables have them.                       *)
RunData(h) == Loaded(Run(h), FileBytes(Run(h).off, Run(h).len))

Holder(b)     == CHOOSE h \in Handles : Holds(h, b)
DeviceByte(b) == RunData(Holder(b))[b - RunStart(Holder(b)) + 1]

(* What the partition map on the device says of the volume.                *)
VolumeFound ==
  LET block   == DDM[DeviceByte(0)]
      entries == Entry[DeviceByte(block)].entries
  IN  offset \in Starts([i \in 1 .. entries * block |-> DeviceByte(block + i - 1)],
                        block)

CallCovered == \A b \in call.from .. call.from + call.size - 1 :
                 Covered(b + offset)

-----------------------------------------------------------------------------
(* A call is never ahead of what it was asked for, goes on only as long as *)
(* the program does, and waits for a run that the image has.               *)
TypeOK ==
  /\ dmg \in Images
  /\ status \in {"closed", "opening", "open", "exited", "wild"}
  /\ offset \in Nat
  /\ call.pc \in {"look", "fetch", "copy", "done"}
  /\ call.goal \in {"ddm", "first", "map", "user"}
  /\ call.from \in Nat /\ call.size \in Nat /\ call.have \in 0 .. call.size
  /\ DOMAIN call.got = 1 .. call.have
  /\ call.pc # "done" => /\ call.have < call.size
                         /\ status \in {"opening", "open"}
  /\ call.pc = "fetch" => call.run \in Handles
  /\ cache.start \in Nat /\ cache.end \in Nat

(* Whatever was read before, what is in memory is one run of the image,    *)
(* all of it, with the place it has on the device.                         *)
CacheCoherent ==
  \/ cache = NothingCached
  \/ \E h \in Handles : /\ cache.start = RunStart(h) /\ cache.end = RunEnd(h)
                         /\ cache.data = RunData(h)

(* What a read answered with is what the tables have for the place.        *)
ReadsDevice ==
  \A i \in DOMAIN call.got :
    Covered(call.from + offset + i - 1) =>
      call.got[i] = DeviceByte(call.from + offset + i - 1)

(* hdutil.c:274: a program that opens an image reads the bytes of its      *)
(* first HFS+ volume, whatever runs they are in and whatever was read      *)
(* before.                                                                 *)
ReadsVolume == (status = "open" => VolumeFound) /\ ReadsDevice

(* Memory that holds no part of the image is copied only if a read is for  *)
(* a place that no table has.                                              *)
WildOnlyUncovered == status = "wild" /\ call.goal = "user" => ~CallCovered

(* A read for what the tables have comes back, although it calls itself    *)
(* and may load a run each time.                                           *)
CoveredReadReturns == (call.pc = "look" /\ CallCovered) ~> (call.pc = "done")
=============================================================================
