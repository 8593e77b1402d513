------------------------ MODULE EncryptedImageProofs ------------------------
(***************************************************************************)
(* Theorems about the DMG reader on a plain file, for every image, sector  *)
(* size and read: its type invariant, what its cache holds, what a read    *)
(* answers with, when it leaves the data it has, and which volume is read. *)
(* Then about an image with and without a key, for every image, chunk size *)
(* and use: what the vault keeps in memory, what the reader makes of it,   *)
(* and that the vault is a file like any other.  The lemmas about the      *)
(* reader's steps ask nothing of the file but that a run is answered with  *)
(* its bytes, so that they hold on a FileVault too.                        *)
(***************************************************************************)
EXTENDS EncryptedImage, SequenceTheorems, FiniteSetTheorems, TLAPS

-----------------------------------------------------------------------------
(* Numbers.                                                                *)

(* A number is its quotient times the divisor, plus a smaller remainder.   *)
LEMMA Quotient ==
  ASSUME NEW s \in Nat \ {0}, NEW u \in Nat
  PROVE  /\ u \div s \in Nat
         /\ u % s \in Nat /\ u % s < s
         /\ u = (u \div s) * s + (u % s)
<1>1. u \div s \in Nat /\ u % s \in Nat /\ u % s < s
  OBVIOUS
<1>2. \A q, r \in Nat : q = u \div s /\ r = u % s => u = q * s + r
  OBVIOUS
<1>3. QED
  BY <1>1, <1>2

(* And there is only one such pair.                                        *)
LEMMA QuotientUnique ==
  ASSUME NEW s \in Nat \ {0}, NEW q \in Nat, NEW r \in Nat, r < s
  PROVE  (q * s + r) \div s = q /\ (q * s + r) % s = r
  OBVIOUS

-----------------------------------------------------------------------------
(* The reader.                                                             *)

(* A call has these fields and no others.                                  *)
Fields == call = [goal |-> call.goal, pc |-> call.pc, from |-> call.from,
                  size |-> call.size, have |-> call.have, got |-> call.got,
                  run |-> call.run]

(* A run that is waited for is one that has the place the call is at, and  *)
(* a call that is about to copy finds that place in memory, unless no      *)
(* table has it.                                                           *)
Aimed ==
  /\ call.pc = "fetch" => Holds(call.run, Location)
  /\ call.pc = "copy" => \/ ~Covered(Location)
                         \/ /\ cache # NothingCached
                            /\ cache.start <= Location /\ Location < cache.end

IInv == TypeOK /\ Fields /\ CacheCoherent /\ Aimed /\ ReadsDevice
        /\ WildOnlyUncovered

-----------------------------------------------------------------------------
(* The elements of Handles are pairs of indices of runs.                   *)
LEMMA HandleIndices ==
  ASSUME NEW h \in Handles
  PROVE  /\ h = <<h[1], h[2]>>
         /\ h[1] \in DOMAIN Tables
         /\ h[2] \in DOMAIN Tables[h[1]].runs
BY DEF Handles

(* The numbers of a run of an image are naturals.                          *)
LEMMA RunTypes ==
  ASSUME dmg \in Images, NEW h \in Handles
  PROVE  /\ Tables[h[1]].first \in Nat /\ Tables[h[1]].sectors \in Nat
         /\ Run(h).start \in Nat /\ Run(h).count \in Nat
         /\ RunStart(h) \in Nat /\ RunEnd(h) \in Nat
<1>1. /\ h[1] \in DOMAIN Tables
      /\ h[2] \in DOMAIN Tables[h[1]].runs
  BY HandleIndices
<1>2. /\ Tables[h[1]].first \in Nat /\ Tables[h[1]].sectors \in Nat
      /\ Sound(Tables[h[1]].runs[h[2]])
  BY <1>1, ImagesAssumption DEF Tables
<1>3. Run(h).start \in Nat /\ Run(h).count \in Nat
  BY <1>2 DEF Sound, Run
<1>4. /\ SectorSize \in Nat
      /\ \A x, y \in Nat : x * y \in Nat /\ x + y \in Nat
  BY SizeAssumption
<1>5. RunStart(h) \in Nat
  BY <1>2, <1>3, <1>4 DEF RunStart
<1>6. RunEnd(h) \in Nat
  BY <1>3, <1>4, <1>5 DEF RunEnd
<1> QED BY <1>2, <1>3, <1>5, <1>6

(* The sector of a byte is at least n exactly if the byte is behind the    *)
(* first n sectors.                                                        *)
LEMMA SectorOf ==
  ASSUME NEW b \in Nat, NEW n \in Nat
  PROVE  /\ b \div SectorSize \in Nat
         /\ n <= b \div SectorSize <=> n * SectorSize <= b
<1> DEFINE s == SectorSize
           q == b \div s
<1>1. s \in Nat \ {0}
  BY SizeAssumption
<1>2. q \in Nat /\ q * s <= b /\ b < (q + 1) * s
  BY <1>1
<1> HIDE DEF q, s
<1>3. ASSUME n <= q PROVE n * s <= b
  <2>1. n * s <= q * s
    BY <1>1, <1>2, <1>3
  <2> QED BY <2>1, <1>1, <1>2
<1>4. ASSUME n * s <= b PROVE n <= q
  <2>1. SUFFICES ASSUME n > q PROVE FALSE
    BY <1>2
  <2>2. (q + 1) * s <= n * s
    BY <2>1, <1>1, <1>2
  <2> QED BY <2>2, <1>1, <1>2, <1>4
<1> QED BY <1>2, <1>3, <1>4 DEF q, s

(* A run has a byte only if the byte lies between its ends.                *)
LEMMA HeldInBounds ==
  ASSUME dmg \in Images, NEW h \in Handles, NEW b \in Nat, Holds(h, b)
  PROVE  RunStart(h) <= b /\ b < RunEnd(h)
<1> DEFINE from == Tables[h[1]].first + Run(h).start
<1>1. from \in Nat /\ Run(h).count \in Nat /\ SectorSize \in Nat \ {0}
  BY RunTypes, SizeAssumption
<1>2. RunStart(h) = from * SectorSize
  BY RunTypes, SizeAssumption DEF RunStart
<1>3. RunEnd(h) = (from + Run(h).count) * SectorSize
  BY <1>1, <1>2 DEF RunEnd
<1>4. from <= b \div SectorSize /\ b \div SectorSize < from + Run(h).count
  BY DEF Holds
<1> HIDE DEF from
<1>5. from * SectorSize <= b
  BY <1>1, <1>4, SectorOf
<1>6. ~((from + Run(h).count) * SectorSize <= b)
  <2>1. from + Run(h).count \in Nat
    BY <1>1
  <2>2. b \div SectorSize \in Nat
    BY <1>1, SectorOf
  <2> QED BY <1>4, <2>1, <2>2, SectorOf
<1>7. RunStart(h) \in Nat /\ RunEnd(h) \in Nat
  BY RunTypes
<1> QED BY <1>2, <1>3, <1>5, <1>6, <1>7

(* Two runs that both lie over a byte are the same.                        *)
LEMMA OneRun ==
  ASSUME dmg \in Images, NEW g \in Handles, NEW h \in Handles, NEW b \in Nat,
         RunStart(g) <= b, b < RunEnd(g), Holds(h, b)
  PROVE  g = h
<1> DEFINE n == b \div SectorSize
           i == Tables[g[1]].first + Run(g).start
           j == Tables[h[1]].first + Run(h).start
<1>1. /\ i \in Nat /\ j \in Nat /\ n \in Nat
      /\ Run(g).count \in Nat /\ Run(h).count \in Nat
      /\ SectorSize \in Nat \ {0}
  BY RunTypes, SizeAssumption, SectorOf
<1>2. RunStart(g) = i * SectorSize
  BY RunTypes, SizeAssumption DEF RunStart
<1>3. RunEnd(g) = (i + Run(g).count) * SectorSize
  BY <1>1, <1>2 DEF RunEnd
<1>4. j <= n /\ n < j + Run(h).count
  BY DEF Holds
<1>5. i <= n /\ n < i + Run(g).count
  <2> HIDE DEF i
  <2>1. i <= b \div SectorSize
    BY <1>1, <1>2, SectorOf
  <2>2. i + Run(g).count \in Nat
    BY <1>1
  <2>3. ~(i + Run(g).count <= b \div SectorSize)
    <3>1. (i + Run(g).count) * SectorSize \in Nat
      BY <2>2, <1>1
    <3> QED BY <1>3, <2>2, <3>1, SectorOf
  <2> QED BY <2>1, <2>2, <2>3, <1>1
<1>6. /\ g = <<g[1], g[2]>> /\ h = <<h[1], h[2]>>
      /\ g[1] \in DOMAIN Tables /\ h[1] \in DOMAIN Tables
      /\ g[2] \in DOMAIN Tables[g[1]].runs
      /\ h[2] \in DOMAIN Tables[h[1]].runs
  BY HandleIndices
<1>7. Overlap(Tables[g[1]], Tables[g[1]].runs[g[2]],
              Tables[h[1]], Tables[h[1]].runs[h[2]])
  <2>1. i < j + Run(h).count /\ j < i + Run(g).count
    <3> HIDE DEF i, j, n
    <3> QED BY <1>1, <1>4, <1>5
  <2>2. /\ Run(h) = Tables[h[1]].runs[h[2]]
        /\ Run(g) = Tables[g[1]].runs[g[2]]
    BY DEF Run
  <2> QED BY <2>1, <2>2 DEF Overlap
<1>8. g[1] = h[1] /\ g[2] = h[2]
  BY <1>6, <1>7, ImagesAssumption DEF Tables
<1> QED BY <1>6, <1>8

(* What is in memory for a place that a table has is what the table has.   *)
LEMMA CachedByte ==
  ASSUME dmg \in Images, NEW h \in Handles, NEW b \in Nat,
         RunStart(h) <= b, b < RunEnd(h), Covered(b)
  PROVE  RunData(h)[b - RunStart(h) + 1] = DeviceByte(b)
<1>1. Holder(b) \in Handles /\ Holds(Holder(b), b)
  BY DEF Covered, Holder
<1>2. Holder(b) = h
  BY <1>1, OneRun
<1> QED BY <1>2 DEF DeviceByte

-----------------------------------------------------------------------------
LEMMA InitInv == ASSUME Init PROVE IInv
<1>1. call = [goal |-> "user", pc |-> "done", from |-> 0, size |-> 0,
              have |-> 0, got |-> <<>>, run |-> <<0, 0>>]
  BY DEF Init, NoCall, Request
<1>2. TypeOK
  <2>1. DOMAIN call.got = 1 .. call.have
    BY <1>1
  <2> QED BY <1>1, <2>1 DEF Init, TypeOK, NothingCached
<1>3. Fields /\ Aimed /\ WildOnlyUncovered
  BY <1>1 DEF Init, Fields, Aimed, WildOnlyUncovered
<1>4. CacheCoherent /\ ReadsDevice
  <2>1. DOMAIN call.got = {}
    BY <1>1
  <2> QED BY <2>1 DEF Init, CacheCoherent, ReadsDevice
<1> QED BY <1>2, <1>3, <1>4 DEF IInv

(* The tables of the image that is open stay as they are.                  *)
LEMMA SameImage ==
  ASSUME dmg' = dmg
  PROVE  /\ Handles' = Handles
         /\ \A h \in Handles : /\ RunStart(h)' = RunStart(h)
                               /\ RunEnd(h)' = RunEnd(h)
                               /\ RunData(h)' = RunData(h)
         /\ \A b : /\ Covered(b)' = Covered(b)
                   /\ DeviceByte(b)' = DeviceByte(b)
         /\ \A h, b : Holds(h, b)' = Holds(h, b)
<1>1. /\ Handles' = Handles
      /\ \A h, b : Holds(h, b)' = Holds(h, b)
  BY DEF Handles, Holds, InTable, Run, Tables
<1>2. \A h : RunStart(h)' = RunStart(h) /\ RunEnd(h)' = RunEnd(h)
  BY DEF RunStart, RunEnd, Run, Tables
<1>3. \A h : RunData(h)' = RunData(h)
  BY DEF RunData, FileBytes, Loaded, Filled, Run, Tables
<1>4. \A b : Covered(b)' = Covered(b)
  BY DEF Covered, Handles, Holds, InTable, Run, Tables
<1>5. \A b : DeviceByte(b)' = DeviceByte(b)
  <2>1. \A b : Holder(b)' = Holder(b)
    BY DEF Holder, Handles, Holds, InTable, Run, Tables
  <2> QED BY <1>2, <1>3, <2>1 DEF DeviceByte
<1> QED BY <1>1, <1>2, <1>3, <1>4, <1>5

(* A new call has nothing to answer with yet.                              *)
LEMMA NewCall ==
  ASSUME NEW goal \in {"ddm", "first", "map", "user"},
         NEW l \in Nat, NEW n \in Nat,
         call' = Request(goal, l, n),
         IInv, dmg' = dmg, offset' \in Nat,
         status' \in {"closed", "opening", "open"},
         n # 0 => status' \in {"opening", "open"},
         cache' \in {cache, NothingCached}
  PROVE  IInv'
<1>1. /\ call'.goal = goal /\ call'.from = l /\ call'.size = n
      /\ call'.have = 0 /\ call'.got = <<>>
      /\ call'.pc = IF n = 0 THEN "done" ELSE "look"
  BY DEF Request
<1>2. DOMAIN call'.got = {}
  BY <1>1
<1>3. Fields'
  BY DEF Fields, Request
<1>4. TypeOK'
  <2>1. DOMAIN call'.got = 1 .. 0
    BY <1>2
  <2>2. cache'.start \in Nat /\ cache'.end \in Nat
    BY DEF IInv, TypeOK, NothingCached
  <2> QED BY <1>1, <2>1, <2>2 DEF IInv, TypeOK
<1>5. Aimed' /\ WildOnlyUncovered'
  BY <1>1 DEF Aimed, WildOnlyUncovered
<1>6. ReadsDevice'
  BY <1>2 DEF ReadsDevice
<1>7. CacheCoherent'
  <2>1. CASE cache' = NothingCached
    BY <2>1 DEF CacheCoherent, NothingCached
  <2>2. CASE cache' = cache
    BY <2>2, SameImage DEF IInv, CacheCoherent, NothingCached
  <2> QED BY <2>1, <2>2
<1> QED BY <1>3, <1>4, <1>5, <1>6, <1>7 DEF IInv

LEMMA OpeningInv == ASSUME IInv, Opening PROVE IInv'
<1>1. CASE Open
  BY <1>1, NewCall, SizeAssumption DEF Open
<1>2. ASSUME Answered("ddm") \/ Answered("first"), Undefined PROVE IInv'
  <2>1. TypeOK' /\ Fields'
    BY <1>2 DEF IInv, TypeOK, Fields, Undefined, Answered, Handles, Tables
  <2>2. CacheCoherent' /\ ReadsDevice'
    BY <1>2, SameImage DEF IInv, CacheCoherent, ReadsDevice, Undefined,
                           NothingCached
  <2>3. Aimed' /\ WildOnlyUncovered'
    BY <1>2 DEF Aimed, WildOnlyUncovered, Undefined, Answered
  <2> QED BY <2>1, <2>2, <2>3 DEF IInv
<1>3. CASE ReadFirstEntry
  <2>1. CASE call.got[1] \in DOMAIN DDM
    <3>1. DDM[call.got[1]] \in Nat
      BY <2>1, DDMAssumption
    <3>2. Answered("ddm")
          /\ Continue(Request("first", DDM[call.got[1]], DDM[call.got[1]]))
      BY <1>3, <2>1 DEF ReadFirstEntry
    <3> QED BY <3>1, <3>2, NewCall DEF Answered, Continue, IInv, TypeOK
  <2>2. CASE call.got[1] \notin DOMAIN DDM
    BY <1>2, <1>3, <2>2 DEF ReadFirstEntry
  <2> QED BY <2>1, <2>2
<1>4. CASE ReadMap
  <2>1. CASE call.got[1] \in DOMAIN Entry
    <3> DEFINE n == Entry[call.got[1]].entries * call.size
    <3>1. n \in Nat /\ call.size \in Nat
      BY <2>1, EntryAssumption DEF IInv, TypeOK
    <3>2. Answered("first") /\ Continue(Request("map", call.size, n))
      BY <1>4, <2>1 DEF ReadMap
    <3> HIDE DEF n
    <3> QED BY <3>1, <3>2, NewCall DEF Answered, Continue, IInv, TypeOK
  <2>2. CASE call.got[1] \notin DOMAIN Entry
    BY <1>2, <1>4, <2>2 DEF ReadMap
  <2> QED BY <2>1, <2>2
<1>5. CASE Select
  <2>1. PICK o \in Starts(call.got, call.from) : Choose(o)
    BY <1>5 DEF Select
  <2>2. o \in Nat
    <3>1. call.from \in Nat
      BY DEF IInv, TypeOK
    <3>2. CASE o = 0
      BY <3>2
    <3>3. ASSUME NEW i \in HFSEntries(call.got, call.from),
                 o = Entry[call.got[i * call.from + 1]].start * call.from
          PROVE  o \in Nat
      <4>1. call.got[i * call.from + 1] \in DOMAIN Entry
        BY <3>3 DEF HFSEntries
      <4> QED BY <3>1, <3>3, <4>1, EntryAssumption
    <3> QED BY <2>1, <3>2, <3>3 DEF Starts
  <2> QED BY <2>1, <2>2, NewCall DEF Choose, NoCall
<1> QED BY <1>1, <1>3, <1>4, <1>5 DEF Opening

LEMMA LookInv ==
  ASSUME IInv, status \in {"opening", "open"}, Look
  PROVE  IInv'
<1>1. /\ dmg' = dmg /\ cache' = cache /\ offset' = offset /\ status' = status
      /\ call.pc = "look"
  BY DEF Look
<1>2. \/ /\ Hit \/ ~Covered(Location)
         /\ call' = [call EXCEPT !.pc = "copy"]
      \/ \E h \in Handles : /\ IsLastHolder(h, Location)
                            /\ call' = [call EXCEPT !.pc = "fetch", !.run = h]
  BY DEF Look
<1>3. /\ Fields'
      /\ call'.goal = call.goal /\ call'.from = call.from
      /\ call'.size = call.size /\ call'.have = call.have
      /\ call'.got = call.got
      /\ call'.pc \in {"copy", "fetch"}
  BY <1>2 DEF IInv, Fields
<1>4. Location' = Location
  BY <1>1, <1>3 DEF Location
<1>5. /\ call'.pc = "fetch" => /\ call'.run \in Handles
                               /\ Holds(call'.run, Location)
      /\ call'.pc = "copy" => Hit \/ ~Covered(Location)
  BY <1>2 DEF IInv, Fields, IsLastHolder
<1>6. TypeOK'
  BY <1>1, <1>3, <1>5, SameImage DEF IInv, TypeOK
<1>7. CacheCoherent' /\ ReadsDevice'
  BY <1>1, <1>3, SameImage DEF IInv, CacheCoherent, ReadsDevice, NothingCached
<1>8. Aimed'
  <2>1. Hit => /\ cache # NothingCached
               /\ cache.start <= Location /\ Location < cache.end
    BY DEF Hit, NothingCached
  <2> QED BY <1>1, <1>4, <1>5, <2>1, SameImage DEF Aimed, NothingCached
<1>9. WildOnlyUncovered'
  BY <1>1 DEF WildOnlyUncovered
<1> QED BY <1>3, <1>6, <1>7, <1>8, <1>9 DEF IInv

(* The run that arrives is the one that was asked for.                     *)
LEMMA ArriveInv ==
  ASSUME IInv, NEW got, Arrive(got),
         Loads(Run(call.run), got) => Loaded(Run(call.run), got) = RunData(call.run)
  PROVE  IInv'
<1> DEFINE h == call.run
<1>1. /\ dmg' = dmg /\ offset' = offset /\ call.pc = "fetch"
      /\ h \in Handles /\ Holds(h, Location)
      /\ status \in {"opening", "open"}
      /\ Location \in Nat
      /\ dmg \in Images
  BY DEF Arrive, IInv, TypeOK, Aimed, Location
<1>2. \/ /\ Loads(Run(h), got) /\ cache' = RunCached(h, got)
         /\ call' = [call EXCEPT !.pc = "copy"] /\ status' = status
      \/ /\ status' = "exited" /\ cache' = cache
         /\ call' = [call EXCEPT !.pc = "done"]
  BY DEF Arrive
<1>3. /\ Fields'
      /\ call'.goal = call.goal /\ call'.from = call.from
      /\ call'.size = call.size /\ call'.have = call.have
      /\ call'.got = call.got /\ call'.run = call.run
      /\ \/ /\ call'.pc = "copy" /\ status' = status
            /\ Loads(Run(h), got) /\ cache' = RunCached(h, got)
         \/ call'.pc = "done" /\ status' = "exited" /\ cache' = cache
  BY <1>2 DEF IInv, Fields
<1>4. Location' = Location
  BY <1>1, <1>3 DEF Location
<1>5. Loads(Run(h), got) =>
        RunCached(h, got) = [type |-> Run(h).type, start |-> RunStart(h),
                             end |-> RunEnd(h), data |-> RunData(h)]
  BY DEF RunCached
<1>6. /\ RunStart(h) \in Nat /\ RunEnd(h) \in Nat
      /\ RunStart(h) <= Location /\ Location < RunEnd(h)
  BY <1>1, RunTypes, HeldInBounds
<1>7. TypeOK'
  <2>1. cache'.start \in Nat /\ cache'.end \in Nat
    BY <1>3, <1>5, <1>6 DEF IInv, TypeOK
  <2> QED BY <1>1, <1>3, <2>1 DEF IInv, TypeOK
<1>8. CacheCoherent'
  <2>1. CASE cache' = cache
    BY <1>1, <2>1, SameImage DEF IInv, CacheCoherent, NothingCached
  <2>2. CASE Loads(Run(h), got) /\ cache' = RunCached(h, got)
    BY <1>1, <1>5, <2>2, SameImage DEF CacheCoherent
  <2> QED BY <1>3, <2>1, <2>2
<1>9. Aimed'
  <2>1. CASE call'.pc = "done"
    BY <2>1 DEF Aimed
  <2>2. CASE call'.pc = "copy" /\ Loads(Run(h), got) /\ cache' = RunCached(h, got)
    <3>1. /\ cache'.start <= Location' /\ Location' < cache'.end
          /\ cache' # NothingCached
      BY <1>1, <1>4, <1>5, <1>6, <2>2 DEF NothingCached
    <3> QED BY <2>2, <3>1 DEF Aimed, NothingCached
  <2> QED BY <1>3, <2>1, <2>2
<1>10. ReadsDevice'
  BY <1>1, <1>3, SameImage DEF IInv, ReadsDevice
<1>11. WildOnlyUncovered'
  BY <1>1, <1>3 DEF WildOnlyUncovered
<1> QED BY <1>3, <1>7, <1>8, <1>9, <1>10, <1>11 DEF IInv

(* A plain file answers with what the table says.                          *)
LEMMA FetchInv == ASSUME IInv, Fetch PROVE IInv'
<1>1. Arrive(FileBytes(Run(call.run).off, Run(call.run).len))
  BY DEF Fetch
<1> QED BY <1>1, ArriveInv DEF RunData

(* What is copied is what the device has there.                            *)
LEMMA CopyInv ==
  ASSUME IInv, status \in {"opening", "open"}, Copy
  PROVE  IInv'
<1>1. /\ dmg' = dmg /\ cache' = cache /\ offset' = offset
      /\ call.pc = "copy" /\ dmg \in Images
      /\ call.have \in Nat /\ call.size \in Nat /\ call.have < call.size
      /\ offset \in Nat /\ call.from \in Nat
      /\ cache.start \in Nat /\ cache.end \in Nat
  BY DEF Copy, IInv, TypeOK
<1>2. Location \in Nat /\ Left \in Nat \ {0}
  BY <1>1 DEF Location, Left
<1>3. CASE cache # NothingCached /\ InRun
  <2>1. call' = [call EXCEPT
                   !.got = Copied, !.have = call.have + Portion,
                   !.pc = IF Portion = Left THEN "done" ELSE "look"]
        /\ status' = status
    BY <1>3 DEF Copy
  <2>2. /\ Fields'
        /\ call'.goal = call.goal /\ call'.from = call.from
        /\ call'.size = call.size /\ call'.run = call.run
        /\ call'.have = call.have + Portion /\ call'.got = Copied
        /\ call'.pc = IF Portion = Left THEN "done" ELSE "look"
    BY <2>1 DEF IInv, Fields
  <2>3. Portion \in Nat /\ Portion <= Left /\ Portion <= cache.end - Location
    BY <1>1, <1>2, <1>3 DEF Portion, Lesser, InRun
  <2>4. call.have + Portion <= call.size
        /\ (Portion # Left => call.have + Portion < call.size)
    BY <1>1, <2>3 DEF Left
  <2>5. DOMAIN Copied = 1 .. call.have + Portion
    BY DEF Copied
  <2>6. TypeOK'
    BY <1>1, <2>1, <2>2, <2>3, <2>4, <2>5 DEF IInv, TypeOK
  <2>7. CacheCoherent'
    BY <1>1, SameImage DEF IInv, CacheCoherent, NothingCached
  <2>8. Aimed' /\ WildOnlyUncovered'
    BY <2>1, <2>2 DEF Aimed, WildOnlyUncovered
  <2>9. ReadsDevice'
    <3>1. PICK h \in Handles : /\ cache.start = RunStart(h)
                               /\ cache.end = RunEnd(h)
                               /\ cache.data = RunData(h)
      BY <1>3 DEF IInv, CacheCoherent
    <3>2. SUFFICES ASSUME NEW i \in 1 .. call.have + Portion,
                          Covered(call.from + offset + i - 1)
                   PROVE  Copied[i] = DeviceByte(call.from + offset + i - 1)
      BY <1>1, <2>2, <2>5, SameImage DEF ReadsDevice
    <3>3. CASE i <= call.have
      <4>1. i \in DOMAIN call.got
        BY <1>1, <3>3 DEF IInv, TypeOK
      <4>2. Copied[i] = call.got[i]
        BY <3>3 DEF Copied
      <4> QED BY <3>2, <4>1, <4>2 DEF IInv, ReadsDevice
    <3>4. CASE i > call.have
      <4> DEFINE b == call.from + offset + i - 1
      <4>1. b \in Nat /\ Location <= b /\ b < Location + Portion
        BY <1>1, <2>3, <3>4 DEF Location
      <4>2. cache.start <= b /\ b < cache.end
        BY <1>1, <1>2, <1>3, <2>3, <4>1 DEF InRun
      <4>3. Copied[i] = cache.data[b - cache.start + 1]
        <5>1. call.from + offset + i - cache.start = b - cache.start + 1
          BY <1>1
        <5>2. ~(i <= call.have)
          BY <1>1, <3>4
        <5> QED BY <5>1, <5>2 DEF Copied
      <4>4. RunData(h)[b - RunStart(h) + 1] = DeviceByte(b)
        BY <1>1, <3>1, <3>2, <4>1, <4>2, CachedByte
      <4> QED BY <3>1, <4>3, <4>4
    <3> QED BY <1>1, <3>3, <3>4
  <2> QED BY <2>2, <2>6, <2>7, <2>8, <2>9 DEF IInv
<1>4. CASE ~(cache # NothingCached /\ InRun)
  <2>1. status' = "wild" /\ call' = [call EXCEPT !.pc = "done"]
    BY <1>4 DEF Copy
  <2>2. /\ Fields'
        /\ call'.goal = call.goal /\ call'.from = call.from
        /\ call'.size = call.size /\ call'.have = call.have
        /\ call'.got = call.got /\ call'.pc = "done"
    BY <2>1 DEF IInv, Fields
  <2>3. TypeOK'
    BY <1>1, <2>1, <2>2 DEF IInv, TypeOK
  <2>4. CacheCoherent' /\ ReadsDevice'
    BY <1>1, <2>2, SameImage DEF IInv, CacheCoherent, ReadsDevice, NothingCached
  <2>5. ~Covered(Location)
    BY <1>1, <1>2, <1>4 DEF IInv, Aimed, InRun
  <2>6. Aimed' /\ WildOnlyUncovered'
    <3>1. call.from + call.have \in call.from .. call.from + call.size - 1
      BY <1>1
    <3>2. ~CallCovered
      <4>1. Location = (call.from + call.have) + offset
        BY DEF Location
      <4> QED BY <2>5, <3>1, <4>1 DEF CallCovered
    <3>3. CallCovered' = CallCovered
      BY <1>1, <2>2, SameImage DEF CallCovered
    <3> QED BY <2>2, <3>2, <3>3 DEF Aimed, WildOnlyUncovered
  <2> QED BY <2>2, <2>3, <2>4, <2>6 DEF IInv
<1> QED BY <1>3, <1>4

LEMMA ReadsInv == ASSUME IInv, Reads PROVE IInv'
<1>1. PICK l \in 0 .. MaxRead, n \in 1 .. MaxRead : Read(l, n)
  BY DEF Reads
<1>2. l \in Nat /\ n \in Nat
  BY SizeAssumption
<1> QED BY <1>1, <1>2, NewCall DEF Read, IInv, TypeOK

LEMMA CloseInv == ASSUME IInv, Close PROVE IInv'
<1>1. call' = call /\ dmg' = dmg /\ offset' = offset
      /\ cache' = NothingCached /\ status' = "closed" /\ call.pc = "done"
  BY DEF Close
<1>2. TypeOK' /\ Fields'
  BY <1>1 DEF IInv, TypeOK, Fields, NothingCached
<1>3. CacheCoherent' /\ ReadsDevice'
  BY <1>1, SameImage DEF IInv, CacheCoherent, ReadsDevice, NothingCached
<1>4. Aimed' /\ WildOnlyUncovered'
  BY <1>1 DEF Aimed, WildOnlyUncovered
<1> QED BY <1>2, <1>3, <1>4 DEF IInv

LEMMA StutterInv == ASSUME IInv, UNCHANGED readerVars PROVE IInv'
<1>1. /\ dmg' = dmg /\ cache' = cache /\ offset' = offset
      /\ call' = call /\ status' = status
  BY DEF readerVars
<1>2. TypeOK' /\ Fields' /\ CacheCoherent' /\ ReadsDevice'
  BY <1>1, SameImage DEF IInv, TypeOK, Fields, CacheCoherent, ReadsDevice,
                         NothingCached
<1>3. Aimed'
  BY <1>1, SameImage DEF IInv, Aimed, Location, NothingCached
<1>4. WildOnlyUncovered'
  BY <1>1, SameImage DEF IInv, WildOnlyUncovered, CallCovered
<1> QED BY <1>2, <1>3, <1>4 DEF IInv

LEMMA NextInv == ASSUME IInv, [Next]_readerVars PROVE IInv'
BY OpeningInv, LookInv, CopyInv, FetchInv, ReadsInv, CloseInv, StutterInv
   DEF Next, Turn

LEMMA Invariance == Spec => []IInv
BY InitInv, NextInv, PTL DEF Spec

-----------------------------------------------------------------------------
(* dmgfile.c:83-115, 145-200: the fields of the reader have their types in *)
(* every state, and a call never has more than it was asked for.           *)
THEOREM TypeCorrect == Spec => []TypeOK
BY Invariance, PTL DEF IInv

(* dmgfile.c:13-60: the run in memory is one whole run of the tables, at   *)
(* the place the tables give it, whatever was read before.                 *)
THEOREM CacheIsCoherent == Spec => []CacheCoherent
BY Invariance, PTL DEF IInv

(* dmgfile.c:83-115: every byte a read has answered with, of however many  *)
(* runs it is made, is the byte that the tables have for its place.        *)
THEOREM ReadsAreOfDevice == Spec => []ReadsDevice
BY Invariance, PTL DEF IInv

(* dmgfile.c:96-104: a read leaves the run in memory only if it was for a  *)
(* place that no table has.                                                *)
THEOREM InBoundsIfCovered == Spec => []WildOnlyUncovered
BY Invariance, PTL DEF IInv
-----------------------------------------------------------------------------
(* What a read answers with, and what is made of the maps that are read    *)
(* while the image is opened.                                              *)

(* The run in memory is one that has all the bytes between its ends.       *)
Lies(h) == /\ Run(h).start < Tables[h[1]].sectors
           /\ cache.start = RunStart(h) /\ cache.end = RunEnd(h)
           /\ cache.data = RunData(h)

Lying == cache = NothingCached \/ \E h \in Handles : Lies(h)

(* Nothing is answered that no table has, and a call that ends without     *)
(* ending the program has all it was asked for.                            *)
Exact ==
  /\ call.got = [i \in 1 .. call.have |-> call.got[i]]
  /\ \A i \in 1 .. call.have :
       /\ Covered(call.from + offset + i - 1)
       /\ call.got[i] = DeviceByte(call.from + offset + i - 1)
  /\ call.pc = "done" /\ status \in {"opening", "open"} => call.have = call.size

(* The places that are read are the ones the maps name.                    *)
Searching ==
  /\ offset = 0
  /\ call.goal = "ddm" => call.from = 0 /\ call.size = SectorSize
  /\ call.goal = "first" => /\ DeviceByte(0) \in DOMAIN DDM
                            /\ call.from = DDM[DeviceByte(0)]
                            /\ call.size = call.from
  /\ call.goal = "map" =>
       /\ DeviceByte(0) \in DOMAIN DDM
       /\ call.from = DDM[DeviceByte(0)]
       /\ call.size = Entry[DeviceByte(call.from)].entries * call.from

Finding == /\ status = "opening" => Searching
           /\ status = "open" => VolumeFound

FInv == IInv /\ Lying /\ Exact /\ Finding

(* A run that begins within its table has every byte between its ends.     *)
LEMMA InsideCovered ==
  ASSUME dmg \in Images, NEW h \in Handles, NEW b \in Nat,
         Run(h).start < Tables[h[1]].sectors,
         RunStart(h) <= b, b < RunEnd(h)
  PROVE  Covered(b)
<1> DEFINE t == Tables[h[1]]
           n == b \div SectorSize
           from == t.first + Run(h).start
<1>1. /\ h[1] \in DOMAIN Tables
      /\ h[2] \in DOMAIN Tables[h[1]].runs
      /\ Run(h) = Tables[h[1]].runs[h[2]]
  BY HandleIndices DEF Run
<1>2. Inside(t, Run(h))
  BY <1>1, ImagesAssumption DEF Tables
<1>3. /\ t.first \in Nat /\ t.sectors \in Nat /\ n \in Nat /\ from \in Nat
      /\ Run(h).start \in Nat /\ Run(h).count \in Nat
      /\ SectorSize \in Nat \ {0}
  BY RunTypes, SizeAssumption, SectorOf
<1>4. Run(h).start + Run(h).count <= t.sectors
  BY <1>2 DEF Inside
<1>5. RunStart(h) = from * SectorSize
  BY RunTypes, SizeAssumption DEF RunStart
<1>6. RunEnd(h) = (from + Run(h).count) * SectorSize
  <2> HIDE DEF from
  <2> QED BY <1>3, <1>5 DEF RunEnd
<1>7. from <= n
  <2> HIDE DEF from
  <2> QED BY <1>3, <1>5, SectorOf
<1>8. n < from + Run(h).count
  <2> HIDE DEF from
  <2>1. from + Run(h).count \in Nat
    BY <1>3
  <2>2. ~(from + Run(h).count <= b \div SectorSize)
    <3>1. (from + Run(h).count) * SectorSize \in Nat
      BY <2>1, <1>3
    <3> QED BY <1>6, <2>1, <3>1, SectorOf
  <2> QED BY <1>3, <2>1, <2>2
<1>9. t.first <= n /\ n < t.first + t.sectors
  <2> HIDE DEF t, n
  <2> QED BY <1>3, <1>4, <1>7, <1>8
<1>10. Holds(h, b)
  BY <1>7, <1>8, <1>9 DEF Holds, InTable
<1> QED BY <1>10 DEF Covered

LEMMA InitFInv == ASSUME Init PROVE FInv
<1>1. call = [goal |-> "user", pc |-> "done", from |-> 0, size |-> 0,
              have |-> 0, got |-> <<>>, run |-> <<0, 0>>]
  BY DEF Init, NoCall, Request
<1>2. call.got = [i \in 1 .. call.have |-> call.got[i]]
  BY <1>1
<1>3. Lying /\ Exact /\ Finding
  BY <1>1, <1>2 DEF Init, Lying, Exact, Finding
<1> QED BY <1>3, InitInv DEF FInv

(* What is about the image and the cache alone stays with them.            *)
LEMMA SameCache ==
  ASSUME Lying, dmg' = dmg, cache' = cache
  PROVE  Lying'
<1>1. CASE cache = NothingCached
  BY <1>1 DEF Lying, NothingCached
<1>2. ASSUME NEW h \in Handles, Lies(h) PROVE Lying'
  <2>1. Lies(h)'
    <3>1. Run(h)' = Run(h) /\ Tables' = Tables
      BY DEF Run, Tables
    <3> QED BY <1>2, <3>1, SameImage DEF Lies
  <2>2. h \in Handles'
    BY <1>2, SameImage
  <2> QED BY <2>1, <2>2 DEF Lying
<1> QED BY <1>1, <1>2 DEF Lying

LEMMA SameVolume ==
  ASSUME VolumeFound, dmg' = dmg, offset' = offset
  PROVE  VolumeFound'
<1>1. \A b : DeviceByte(b)' = DeviceByte(b)
  BY SameImage
<1> QED BY <1>1 DEF VolumeFound

(* The places named by the maps depend on the image and on the call.       *)
LEMMA SameSearch ==
  ASSUME Searching, dmg' = dmg, offset' = offset,
         call'.goal = call.goal, call'.from = call.from, call'.size = call.size
  PROVE  Searching'
BY SameImage DEF Searching

(* What a new call finds out is what the last one left.                    *)
LEMMA NewSearch ==
  ASSUME NEW goal, NEW l \in Nat, NEW n \in Nat,
         call' = Request(goal, l, n), n = 0 => status' # "opening",
         dmg' = dmg, cache' \in {cache, NothingCached}, Lying
  PROVE  /\ Lying' /\ Exact'
         /\ call'.goal = goal /\ call'.from = l /\ call'.size = n
<1>1. /\ call'.goal = goal /\ call'.from = l /\ call'.size = n
      /\ call'.have = 0 /\ call'.got = <<>>
      /\ call'.pc = IF n = 0 THEN "done" ELSE "look"
  BY DEF Request
<1>2. Exact'
  <2>1. call'.got = [i \in 1 .. call'.have |-> call'.got[i]]
    BY <1>1
  <2>2. call'.pc = "done" => call'.have = call'.size
    BY <1>1
  <2>3. \A i \in 1 .. call'.have : FALSE
    BY <1>1
  <2> QED BY <2>1, <2>2, <2>3 DEF Exact
<1>3. Lying'
  <2>1. CASE cache' = NothingCached
    BY <2>1 DEF Lying, NothingCached
  <2>2. CASE cache' = cache
    BY <2>2, SameCache
  <2> QED BY <2>1, <2>2
<1> QED BY <1>1, <1>2, <1>3

LEMMA OpeningFinds == ASSUME FInv, Opening PROVE FInv'
<1>1. IInv'
  BY OpeningInv DEF FInv
<1>2. CASE Open
  <2>1. /\ call' = Request("ddm", 0, SectorSize) /\ dmg' = dmg /\ offset' = 0
        /\ cache' = NothingCached /\ status' = "opening"
        /\ SectorSize \in Nat \ {0}
    BY <1>2, SizeAssumption DEF Open
  <2>2. /\ Lying' /\ Exact' /\ call'.goal = "ddm" /\ call'.from = 0
        /\ call'.size = SectorSize
    BY <2>1, NewSearch DEF FInv
  <2>3. Finding'
    BY <2>1, <2>2 DEF Finding, Searching
  <2> QED BY <1>1, <2>2, <2>3 DEF FInv
<1>3. ASSUME Answered("ddm") \/ Answered("first"), Undefined PROVE FInv'
  <2>1. /\ dmg' = dmg /\ cache' = cache /\ call' = call /\ offset' = offset
        /\ status' = "wild"
    BY <1>3 DEF Undefined
  <2>2. Lying'
    BY <2>1, SameCache DEF FInv
  <2>3. Exact' /\ Finding'
    BY <2>1, SameImage DEF FInv, Exact, Finding
  <2> QED BY <1>1, <2>2, <2>3 DEF FInv
<1>4. ASSUME status = "opening", call.pc = "done", call.size > 0
      PROVE  /\ Searching /\ call.have = call.size
             /\ call.got[1] = DeviceByte(call.from)
  <2>1. Searching /\ call.have = call.size
    BY <1>4 DEF FInv, Finding, Exact
  <2>2. 1 \in 1 .. call.have /\ call.from \in Nat
    BY <1>4, <2>1 DEF FInv, IInv, TypeOK
  <2>3. call.got[1] = DeviceByte(call.from + offset + 1 - 1)
    BY <2>2 DEF FInv, Exact
  <2>4. call.from + offset + 1 - 1 = call.from
    BY <2>1, <2>2 DEF Searching
  <2> QED BY <2>1, <2>3, <2>4
<1>5. CASE ReadFirstEntry
  <2>1. CASE call.got[1] \in DOMAIN DDM
    <3> DEFINE n == DDM[call.got[1]]
    <3>1. n \in Nat \ {0}
      BY <2>1, DDMAssumption
    <3>2. /\ status = "opening" /\ call.pc = "done" /\ call.goal = "ddm"
          /\ call' = Request("first", n, n) /\ dmg' = dmg /\ cache' = cache
          /\ offset' = offset /\ status' = status
      BY <1>5, <2>1 DEF ReadFirstEntry, Answered, Continue
    <3>3. call.from = 0 /\ call.size > 0
      BY <3>2, SizeAssumption DEF FInv, Finding, Searching
    <3>4. Searching /\ call.got[1] = DeviceByte(0)
      BY <1>4, <3>2, <3>3
    <3>5. DeviceByte(0) \in DOMAIN DDM /\ n = DDM[DeviceByte(0)]
      BY <2>1, <3>4
    <3> HIDE DEF n
    <3>6. /\ Lying' /\ Exact'
          /\ call'.goal = "first" /\ call'.from = n /\ call'.size = n
      BY <3>1, <3>2, NewSearch DEF FInv
    <3>7. DeviceByte(0)' = DeviceByte(0)
      BY <3>2, SameImage
    <3>8. Searching'
      BY <3>2, <3>4, <3>5, <3>6, <3>7 DEF Searching
    <3>9. Finding'
      BY <3>2, <3>8 DEF Finding
    <3> QED BY <1>1, <3>6, <3>9 DEF FInv
  <2>2. CASE call.got[1] \notin DOMAIN DDM
    BY <1>3, <1>5, <2>2 DEF ReadFirstEntry
  <2> QED BY <2>1, <2>2
<1>6. CASE ReadMap
  <2>1. CASE call.got[1] \in DOMAIN Entry
    <3> DEFINE m == call.size
               n == Entry[call.got[1]].entries * m
    <3>1. n \in Nat /\ m \in Nat
      BY <2>1, EntryAssumption DEF FInv, IInv, TypeOK
    <3>2. /\ status = "opening" /\ call.pc = "done" /\ call.goal = "first"
          /\ call' = Request("map", m, n) /\ dmg' = dmg /\ cache' = cache
          /\ offset' = offset /\ status' = status
      BY <1>6, <2>1 DEF ReadMap, Answered, Continue
    <3>3. /\ Searching /\ DeviceByte(0) \in DOMAIN DDM
          /\ call.from = DDM[DeviceByte(0)] /\ m = call.from /\ m > 0
      BY <3>2, DDMAssumption DEF FInv, Finding, Searching
    <3>4. call.got[1] = DeviceByte(m)
      BY <1>4, <3>2, <3>3
    <3>5. n = Entry[DeviceByte(m)].entries * m
      BY <3>4
    <3> HIDE DEF m, n
    <3>6. IInv' /\ status' = "opening"
      BY <1>1, <3>2
    <3>7. CASE n # 0
      <4>1. /\ Lying' /\ Exact'
            /\ call'.goal = "map" /\ call'.from = m /\ call'.size = n
        BY <3>1, <3>2, <3>7, NewSearch DEF FInv
      <4>2. \A b : DeviceByte(b)' = DeviceByte(b)
        BY <3>2, SameImage
      <4>3. Searching'
        BY <3>2, <3>3, <3>5, <4>1, <4>2 DEF Searching
      <4>4. Finding'
        BY <3>2, <4>3 DEF Finding
      <4> QED BY <1>1, <4>1, <4>4 DEF FInv
    <3>8. CASE n = 0
      <4>1. /\ call'.goal = "map" /\ call'.from = m /\ call'.size = 0
            /\ call'.have = 0 /\ call'.got = <<>>
        BY <3>2, <3>8 DEF Request
      <4>2. Exact'
        <5>1. call'.got = [i \in 1 .. call'.have |-> call'.got[i]]
          BY <4>1
        <5>2. \A i \in 1 .. call'.have : FALSE
          BY <4>1
        <5> QED BY <4>1, <5>1, <5>2 DEF Exact
      <4>3. Lying'
        BY <3>2, SameCache DEF FInv
      <4>4. \A b : DeviceByte(b)' = DeviceByte(b)
        BY <3>2, SameImage
      <4>5. Searching'
        BY <3>2, <3>3, <3>5, <3>8, <4>1, <4>4 DEF Searching
      <4>6. Finding'
        BY <3>2, <4>5 DEF Finding
      <4> QED BY <1>1, <4>2, <4>3, <4>6 DEF FInv
    <3> QED BY <3>7, <3>8
  <2>2. CASE call.got[1] \notin DOMAIN Entry
    BY <1>3, <1>6, <2>2 DEF ReadMap
  <2> QED BY <2>1, <2>2
<1>7. CASE Select
  <2>1. PICK o \in Starts(call.got, call.from) : Choose(o)
    BY <1>7 DEF Select
  <2>2. /\ offset' = o /\ status' = "open" /\ call' = Request("user", 0, 0)
        /\ dmg' = dmg /\ cache' = cache
    BY <2>1 DEF Choose, NoCall
  <2>3. /\ Lying' /\ Exact'
    BY <2>2, NewSearch DEF FInv
  <2>4. status = "opening" /\ call.pc = "done" /\ call.goal = "map"
    BY <1>7 DEF Select, Answered
  <2>5. /\ Searching /\ call.have = call.size /\ offset = 0
        /\ call.from = DDM[DeviceByte(0)]
        /\ call.size = Entry[DeviceByte(call.from)].entries * call.from
    BY <2>4 DEF FInv, Finding, Searching, Exact
  <2>6. call.from \in Nat /\ call.size \in Nat
    BY DEF FInv, IInv, TypeOK
  <2>7. ASSUME NEW i \in 1 .. call.size
        PROVE  call.got[i] = DeviceByte(call.from + i - 1)
    <3>1. call.got[i] = DeviceByte(call.from + offset + i - 1)
      BY <2>5, <2>7 DEF FInv, Exact
    <3>2. call.from + offset + i - 1 = call.from + i - 1
      BY <2>5, <2>6
    <3> QED BY <3>1, <3>2
  <2>8. call.got = [i \in 1 .. call.size |-> DeviceByte(call.from + i - 1)]
    <3>1. call.got = [i \in 1 .. call.size |-> call.got[i]]
      BY <2>5 DEF FInv, Exact
    <3> QED BY <2>7, <3>1
  <2>9. o \in Starts([i \in 1 .. Entry[DeviceByte(DDM[DeviceByte(0)])].entries
                                   * DDM[DeviceByte(0)] |->
                        DeviceByte(DDM[DeviceByte(0)] + i - 1)],
                     DDM[DeviceByte(0)])
    BY <2>1, <2>5, <2>8
  <2>10. VolumeFound'
    <3>1. \A b : DeviceByte(b)' = DeviceByte(b)
      BY <2>2, SameImage
    <3> QED BY <2>2, <2>9, <3>1 DEF VolumeFound
  <2>11. Finding'
    BY <2>2, <2>10 DEF Finding
  <2> QED BY <1>1, <2>3, <2>11 DEF FInv
<1> QED BY <1>2, <1>5, <1>6, <1>7 DEF Opening

(* A step of the same call that answers nothing more.                      *)
LEMMA SameAnswer ==
  ASSUME FInv, dmg' = dmg, offset' = offset,
         call'.goal = call.goal, call'.from = call.from,
         call'.size = call.size, call'.have = call.have, call'.got = call.got,
         \/ status' = status /\ call'.pc # "done"
         \/ status' \notin {"opening", "open"}
  PROVE  Exact' /\ Finding'
<1>1. Exact'
  BY SameImage DEF FInv, Exact
<1>2. Finding'
  BY SameSearch, SameVolume DEF FInv, Finding
<1> QED BY <1>1, <1>2

LEMMA LookFinds ==
  ASSUME FInv, status \in {"opening", "open"}, Look
  PROVE  FInv'
<1>1. IInv' /\ Lying'
  BY LookInv, SameCache DEF FInv, Look
<1>2. /\ call'.goal = call.goal /\ call'.from = call.from
      /\ call'.size = call.size /\ call'.have = call.have
      /\ call'.got = call.got /\ call'.pc \in {"copy", "fetch"}
  BY DEF FInv, IInv, Fields, Look
<1>3. Exact' /\ Finding'
  BY <1>2, SameAnswer DEF Look
<1> QED BY <1>1, <1>3 DEF FInv

LEMMA ArriveFinds ==
  ASSUME FInv, NEW got, Arrive(got),
         Loads(Run(call.run), got) => Loaded(Run(call.run), got) = RunData(call.run)
  PROVE  FInv'
<1> DEFINE h == call.run
<1>1. IInv'
  BY ArriveInv DEF FInv
<1>2. /\ dmg' = dmg /\ offset' = offset /\ call.pc = "fetch"
      /\ h \in Handles /\ Holds(h, Location) /\ dmg \in Images
      /\ Location \in Nat
  BY DEF Arrive, FInv, IInv, TypeOK, Aimed, Location
<1>3. /\ call'.goal = call.goal /\ call'.from = call.from
      /\ call'.size = call.size /\ call'.have = call.have
      /\ call'.got = call.got
      /\ \/ status' = status /\ call'.pc = "copy"
         \/ status' = "exited"
  BY DEF FInv, IInv, Fields, Arrive
<1>4. \/ cache' = cache
      \/ cache' = [type |-> Run(h).type, start |-> RunStart(h),
                   end |-> RunEnd(h), data |-> RunData(h)]
  BY DEF Arrive, RunCached
<1>5. Run(h).start < Tables[h[1]].sectors
  <2>1. /\ Tables[h[1]].first \in Nat /\ Tables[h[1]].sectors \in Nat
        /\ Run(h).start \in Nat
    BY <1>2, RunTypes
  <2>2. Location \div SectorSize \in Nat
    BY <1>2, SectorOf
  <2>3. /\ Tables[h[1]].first + Run(h).start <= Location \div SectorSize
        /\ Location \div SectorSize < Tables[h[1]].first + Tables[h[1]].sectors
    BY <1>2 DEF Holds, InTable
  <2> HIDE DEF h
  <2> QED BY <2>1, <2>2, <2>3
<1>6. Lying'
  <2>1. CASE cache' = cache
    BY <1>2, <2>1, SameCache DEF FInv
  <2>2. CASE cache' = [type |-> Run(h).type, start |-> RunStart(h),
                       end |-> RunEnd(h), data |-> RunData(h)]
    <3>1. Run(h)' = Run(h') /\ h' = h /\ Tables' = Tables /\ Handles' = Handles
      BY <1>2, SameImage DEF Run, Tables, FInv, IInv, Fields, Arrive
    <3>2. /\ RunStart(h)' = RunStart(h) /\ RunEnd(h)' = RunEnd(h)
          /\ RunData(h)' = RunData(h)
      BY <1>2, <3>1, SameImage
    <3> QED BY <1>2, <1>5, <2>2, <3>1, <3>2 DEF Lying, Lies
  <2> QED BY <1>4, <2>1, <2>2
<1>7. Exact' /\ Finding'
  BY <1>2, <1>3, SameAnswer
<1> QED BY <1>1, <1>6, <1>7 DEF FInv

LEMMA CopyFinds ==
  ASSUME FInv, status \in {"opening", "open"}, Copy
  PROVE  FInv'
<1>1. IInv' /\ Lying'
  BY CopyInv, SameCache DEF FInv, Copy
<1>2. /\ dmg' = dmg /\ cache' = cache /\ offset' = offset
      /\ call.pc = "copy" /\ dmg \in Images
      /\ call.have \in Nat /\ call.size \in Nat /\ call.have < call.size
      /\ offset \in Nat /\ call.from \in Nat
      /\ cache.start \in Nat /\ cache.end \in Nat
  BY DEF Copy, FInv, IInv, TypeOK
<1>3. Location \in Nat /\ Left \in Nat \ {0}
  BY <1>2 DEF Location, Left
<1>4. CASE cache # NothingCached /\ InRun
  <2>1. /\ call'.goal = call.goal /\ call'.from = call.from
        /\ call'.size = call.size
        /\ call'.have = call.have + Portion /\ call'.got = Copied
        /\ call'.pc = IF Portion = Left THEN "done" ELSE "look"
        /\ status' = status
    BY <1>4 DEF Copy, FInv, IInv, Fields
  <2>2. Portion \in Nat /\ Portion <= Left /\ Portion <= cache.end - Location
    BY <1>2, <1>3, <1>4 DEF Portion, Lesser, InRun
  <2>3. PICK h \in Handles : Lies(h)
    BY <1>4 DEF FInv, Lying
  <2>4. ASSUME NEW i \in 1 .. call.have + Portion
        PROVE  LET b == call.from + offset + i - 1
               IN  Covered(b) /\ Copied[i] = DeviceByte(b)
    <3> DEFINE b == call.from + offset + i - 1
    <3>1. CASE i <= call.have
      <4>1. i \in 1 .. call.have /\ Copied[i] = call.got[i]
        BY <1>2, <2>2, <3>1 DEF Copied
      <4> QED BY <4>1 DEF FInv, Exact
    <3>2. CASE i > call.have
      <4>1. b \in Nat /\ Location <= b /\ b < Location + Portion
        BY <1>2, <2>2, <3>2 DEF Location
      <4>2. cache.start <= b /\ b < cache.end
        BY <1>2, <1>3, <1>4, <2>2, <4>1 DEF InRun
      <4>3. Copied[i] = cache.data[b - cache.start + 1]
        <5>1. call.from + offset + i - cache.start = b - cache.start + 1
          BY <1>2
        <5>2. ~(i <= call.have)
          BY <1>2, <3>2
        <5> QED BY <5>1, <5>2 DEF Copied
      <4>4. Covered(b)
        BY <1>2, <2>3, <4>1, <4>2, InsideCovered DEF Lies
      <4>5. RunData(h)[b - RunStart(h) + 1] = DeviceByte(b)
        BY <1>2, <2>3, <4>1, <4>2, <4>4, CachedByte DEF Lies
      <4> QED BY <2>3, <4>3, <4>4, <4>5 DEF Lies
    <3> QED BY <1>2, <3>1, <3>2
  <2>5. Exact'
    <3>1. Copied = [i \in 1 .. call.have + Portion |-> Copied[i]]
      BY DEF Copied
    <3>2. call'.got = [i \in 1 .. call'.have |-> call'.got[i]]
      BY <2>1, <3>1
    <3>3. call'.pc = "done" => call'.have = call'.size
      BY <1>2, <2>1 DEF Left
    <3>4. ASSUME NEW i \in 1 .. call'.have
          PROVE  /\ Covered(call.from + offset + i - 1)'
                 /\ call'.got[i] = DeviceByte(call.from + offset + i - 1)'
      BY <1>2, <2>1, <2>4, SameImage
    <3> QED BY <3>2, <3>3, <3>4 DEF Exact
  <2>6. Finding'
    BY <1>2, <2>1, SameSearch, SameVolume DEF FInv, Finding
  <2> QED BY <1>1, <2>5, <2>6 DEF FInv
<1>5. CASE ~(cache # NothingCached /\ InRun)
  <2>1. /\ call'.goal = call.goal /\ call'.from = call.from
        /\ call'.size = call.size /\ call'.have = call.have
        /\ call'.got = call.got /\ status' = "wild"
    BY <1>5 DEF Copy, FInv, IInv, Fields
  <2>2. Exact' /\ Finding'
    BY <1>2, <2>1, SameAnswer
  <2> QED BY <1>1, <2>2 DEF FInv
<1> QED BY <1>4, <1>5

LEMMA ReadsFinds == ASSUME FInv, Reads PROVE FInv'
<1>1. IInv'
  BY ReadsInv DEF FInv
<1>2. PICK l \in 0 .. MaxRead, n \in 1 .. MaxRead : Read(l, n)
  BY DEF Reads
<1>3. l \in Nat /\ n \in Nat /\ n # 0
  BY SizeAssumption
<1>4. /\ call' = Request("user", l, n) /\ dmg' = dmg /\ cache' = cache
      /\ offset' = offset /\ status' = status /\ status = "open"
  BY <1>2 DEF Read
<1>5. Lying' /\ Exact'
  BY <1>3, <1>4, NewSearch DEF FInv
<1>6. Finding'
  BY <1>4, SameVolume DEF FInv, Finding
<1> QED BY <1>1, <1>5, <1>6 DEF FInv

LEMMA CloseFinds == ASSUME FInv, Close PROVE FInv'
<1>1. /\ call' = call /\ dmg' = dmg /\ offset' = offset
      /\ cache' = NothingCached /\ status' = "closed"
  BY DEF Close
<1>2. IInv'
  BY CloseInv DEF FInv
<1>3. Exact' /\ Finding'
  BY <1>1, SameAnswer
<1>4. Lying'
  BY <1>1 DEF Lying, NothingCached
<1> QED BY <1>2, <1>3, <1>4 DEF FInv

LEMMA StutterFinds == ASSUME FInv, UNCHANGED readerVars PROVE FInv'
<1>1. /\ dmg' = dmg /\ cache' = cache /\ offset' = offset
      /\ call' = call /\ status' = status
  BY DEF readerVars
<1>2. IInv'
  BY StutterInv DEF FInv
<1>3. Lying' /\ Exact'
  BY <1>1, SameCache, SameImage DEF FInv, Exact
<1>4. Finding'
  BY <1>1, SameSearch, SameVolume DEF FInv, Finding
<1> QED BY <1>2, <1>3, <1>4 DEF FInv

(* A plain file answers a fetch with the bytes themselves.                 *)
LEMMA NextFinds == ASSUME FInv, [Next]_readerVars PROVE FInv'
<1>1. ASSUME Fetch PROVE FInv'
  BY <1>1, ArriveFinds DEF Fetch, RunData
<1> QED BY <1>1, OpeningFinds, LookFinds, CopyFinds, ReadsFinds, CloseFinds,
           StutterFinds DEF Next, Turn

LEMMA FindingInvariance == Spec => []FInv
BY InitFInv, NextFinds, PTL DEF Spec

(* hdutil.c:274, dmgfile.c:145-200: the offset that is chosen when an      *)
(* image is opened is the start of the first HFS+ volume that the          *)
(* partition map on the device names, and what is read is the bytes there. *)
THEOREM ReadsAreOfVolume == Spec => []ReadsVolume
<1>1. FInv => ReadsVolume
  BY DEF FInv, IInv, Finding, ReadsVolume
<1> QED BY <1>1, FindingInvariance, PTL

-----------------------------------------------------------------------------
(***************************************************************************)
(* The composition: an image with and without a key.                       *)
(***************************************************************************)

(* How many chunks there are, and the bytes of those and of all others.    *)
Size  == Len(dmg.bytes)
Count == (Size + ChunkSize - 1) \div ChunkSize

Byte(p) == Text(p \div ChunkSize)[(p % ChunkSize) + 1]

Anything == Bytes \cup {Garbage}

(* The records have their fields, of their types.                          *)
Shaped(v) == v = [offset |-> v.offset, curChunk |-> v.curChunk,
                  chunk |-> v.chunk, dirty |-> v.dirty,
                  headerDirty |-> v.headerDirty]

VaultRecord(v) == /\ Shaped(v)
                  /\ v.offset \in Nat /\ v.curChunk \in Nat
                  /\ v.dirty \in BOOLEAN /\ v.headerDirty \in BOOLEAN

CallRecord(c) ==
  /\ c = [op |-> c.op, from |-> c.from, size |-> c.size, want |-> c.want,
          left |-> c.left, got |-> c.got]
  /\ c.op \in {"none", "read", "write", "done"}
  /\ c.from \in Nat /\ c.size \in Nat /\ c.want \in Nat
  /\ c.left \in Seq(Bytes) /\ c.got \in Seq(Anything)

(* What the file holds never changes.                                      *)
VaultShape ==
  /\ store = Encrypted(dmg.bytes) /\ dataSize = Size
  /\ vstatus \in {"closed", "open", "exited", "undefined"}
  /\ VaultRecord(vault) /\ CallRecord(vcall)

(* The chunk in memory is the one that the position is in, and what is to  *)
(* be written back is what the file holds in that place.                   *)
ChunkInMemory ==
  vstatus = "open" =>
    /\ vault.curChunk = vault.offset \div ChunkSize
    /\ vault.chunk = Text(vault.curChunk)
    /\ vault.dirty => /\ vault.curChunk \in Chunks
                      /\ Place(vault.curChunk) = vault.curChunk

(* How far the operation has come, and what it has read or written.        *)
Progress ==
  /\ vcall.op \in {"read", "write"} =>
       /\ vstatus \in {"open", "exited"}
       /\ vcall.from + Len(vcall.got) = vault.offset
  /\ vcall.op = "read" => /\ vcall.want + Len(vcall.got) = vcall.size
                          /\ vcall.from + vcall.size <= Count * ChunkSize
  /\ vcall.op = "write" => vcall.left # <<>> /\ vcall.size = 0
  /\ vcall.op # "none" =>
       /\ vcall.from + Len(vcall.got) <= Count * ChunkSize
       /\ \A i \in 1 .. Len(vcall.got) : vcall.got[i] = Byte(vcall.from + i - 1)

(* What the reader waits for is what it has asked the vault for.           *)
Errand ==
  /\ client \in {"plain", "keyed", "direct"}
  /\ Size > WordBytes => client = "direct"
  /\ asked \in {"nothing", "place", "bytes"}
  /\ vault.headerDirty => client = "direct"
  /\ vcall.op = "write" => client = "direct"
  /\ asked # "nothing" => /\ client = "keyed" /\ call.pc = "fetch"
                          /\ vstatus = "open"
  /\ asked = "place" => /\ vault.offset = Run(call.run).off
                        /\ vcall.op = "none"
  /\ asked = "bytes" =>
       /\ Run(call.run).type \in {"raw", Compressed}
       /\ vcall.op \in {"read", "done"}
       /\ vcall.from = Run(call.run).off /\ vcall.size = Run(call.run).len
       /\ vcall.op = "done" => Len(vcall.got) = vcall.size

VaultCore == VaultShape /\ ChunkInMemory /\ Progress

EInv == FInv /\ VaultCore /\ Errand

-----------------------------------------------------------------------------
(* The file.                                                               *)

LEMMA ImageFile ==
  ASSUME dmg \in Images
  PROVE  /\ dmg.bytes \in Seq(Bytes) /\ Size \in Nat
         /\ \A i \in 1 .. Size : dmg.bytes[i] \in Bytes
         /\ Zero \in Bytes /\ Garbage \notin Bytes
<1>1. dmg.bytes \in Seq(Bytes) /\ Garbage \notin Bytes
  BY FileAssumption
<1>2. Size \in Nat /\ \A i \in 1 .. Size : dmg.bytes[i] \in Bytes
  BY <1>1, LenProperties, ElementOfSeq DEF Size
<1>3. Zero \in Bytes
  BY DEF Bytes
<1> QED BY <1>1, <1>2, <1>3

(* What a run that is read has of the file.                                *)
LEMMA RunInFile ==
  ASSUME dmg \in Images, NEW h \in Handles, Run(h).type \in {"raw", Compressed}
  PROVE  /\ Run(h).off \in Nat /\ Run(h).len \in Nat
         /\ Run(h).off + Run(h).len <= Size
<1>1. /\ h[1] \in DOMAIN Tables
      /\ h[2] \in DOMAIN Tables[h[1]].runs
      /\ Run(h) = dmg.tables[h[1]].runs[h[2]]
  BY HandleIndices DEF Run, Tables
<1>2. Sound(Run(h))
  BY <1>1, ImagesAssumption DEF Tables
<1>3. Run(h).off + Run(h).len <= Size
  BY <1>1, FileAssumption DEF Tables, Size
<1> QED BY <1>2, <1>3 DEF Sound

(* The chunks are as many as the bytes need.                               *)
LEMMA ChunkCount ==
  ASSUME dmg \in Images
  PROVE  /\ Count \in Nat /\ Count * ChunkSize \in Nat
         /\ Size <= Count * ChunkSize
<1> DEFINE u == Size + ChunkSize - 1
           r == u % ChunkSize
<1>1. ChunkSize \in Nat \ {0} /\ Size \in Nat
  BY ChunkAssumption, ImageFile
<1>2. u \in Nat
  BY <1>1
<1>3. /\ Count \in Nat /\ r \in Nat /\ r < ChunkSize
      /\ u = Count * ChunkSize + r
  <2> HIDE DEF u
  <2>1. Count = u \div ChunkSize
    BY DEF Count, u
  <2> QED BY <1>1, <1>2, <2>1, Quotient
<1>4. PICK c \in Nat : c = Count * ChunkSize
  BY <1>1, <1>3
<1>5. Size + ChunkSize - 1 = c + r
  BY <1>3, <1>4
<1>6. Size <= c
  <2> HIDE DEF r
  <2> QED BY <1>1, <1>3, <1>4, <1>5
<1> QED BY <1>3, <1>4, <1>6

LEMMA ChunksOfFile ==
  ASSUME dmg \in Images, store = Encrypted(dmg.bytes)
  PROVE  Chunks = 0 .. Count - 1 /\ Cardinality(Chunks) = Count
<1>1. Chunks = 0 .. Count - 1
  BY DEF Chunks, Encrypted, Count, Size
<1>2. Count \in Nat
  BY ChunkCount
<1>3. Cardinality(0 .. Count - 1) = Count
  BY <1>2, FS_Interval
<1> QED BY <1>1, <1>3

(* A byte of the file is in the chunk that its quotient names.             *)
LEMMA ByteInChunk ==
  ASSUME NEW p \in Nat
  PROVE  /\ p \div ChunkSize \in Nat
         /\ p % ChunkSize \in Nat /\ p % ChunkSize < ChunkSize
         /\ p = (p \div ChunkSize) * ChunkSize + (p % ChunkSize)
BY ChunkAssumption, Quotient

LEMMA ChunkBelow ==
  ASSUME NEW p \in Nat, NEW n \in Nat
  PROVE  p < n * ChunkSize <=> p \div ChunkSize < n
<1> DEFINE q == p \div ChunkSize
           r == p % ChunkSize
<1>1. q \in Nat /\ r \in Nat /\ r < ChunkSize /\ ChunkSize \in Nat \ {0}
  BY ByteInChunk, ChunkAssumption
<1>2. p = q * ChunkSize + r
  BY ByteInChunk
<1> HIDE DEF q, r
<1>3. ASSUME q < n PROVE p < n * ChunkSize
  <2>1. (q + 1) * ChunkSize <= n * ChunkSize
    BY <1>1, <1>3
  <2>2. (q + 1) * ChunkSize = q * ChunkSize + ChunkSize
    BY <1>1
  <2>3. q * ChunkSize \in Nat /\ n * ChunkSize \in Nat
    BY <1>1
  <2> QED BY <1>1, <1>2, <2>1, <2>2, <2>3
<1>4. ASSUME ~(q < n) PROVE ~(p < n * ChunkSize)
  <2>1. n * ChunkSize <= q * ChunkSize
    BY <1>1, <1>4
  <2>2. q * ChunkSize \in Nat /\ n * ChunkSize \in Nat
    BY <1>1
  <2> QED BY <1>1, <1>2, <2>1, <2>2
<1> QED BY <1>3, <1>4 DEF q

(* A chunk that can be found in the file, and what is in it.               *)
Found(n) == n \in Chunks /\ Place(n) = n

Clear(n) == [i \in 1 .. ChunkSize |->
               IF n * ChunkSize + i <= Size
               THEN dmg.bytes[n * ChunkSize + i] ELSE Zero]

LEMMA TextOf ==
  ASSUME dmg \in Images, store = Encrypted(dmg.bytes), NEW n \in Nat
  PROVE  /\ Found(n) => Text(n) = Clear(n) /\ store[n] = [iv |-> n, text |-> Text(n)]
         /\ ~Found(n) => Text(n) = Junk
<1>1. ChunkSize \in Nat \ {0} /\ WordBytes \in Nat \ {0}
  BY ChunkAssumption
<1>2. ASSUME NEW m \in Chunks PROVE store[m] = [iv |-> m, text |-> Clear(m)]
  BY <1>2 DEF Encrypted, Chunks, Clear, Size
<1>3. CASE Found(n)
  <2>1. store[Place(n)] = [iv |-> n, text |-> Clear(n)]
    BY <1>2, <1>3 DEF Found
  <2>2. Text(n) = Clear(n)
    BY <1>3, <2>1 DEF Found, Text, Decrypt
  <2> QED BY <1>3, <2>1, <2>2 DEF Found
<1>4. CASE ~Found(n)
  <2>1. CASE Place(n) \in Chunks
    <3>1. store[Place(n)].iv = Place(n)
      <4>1. PICK m \in Chunks : m = Place(n)
        BY <2>1
      <4>2. store[m] = [iv |-> m, text |-> Clear(m)]
        BY <1>2
      <4>3. store[m].iv = m
        BY <4>2
      <4> QED BY <4>1, <4>3
    <3>2. Place(n) # n
      BY <1>4, <2>1 DEF Found
    <3> QED BY <1>4, <2>1, <3>1, <3>2 DEF Text, Decrypt
  <2>2. CASE Place(n) \notin Chunks
    BY <1>4, <2>2 DEF Text
  <2> QED BY <2>1, <2>2
<1> QED BY <1>3, <1>4

(* The bytes of a chunk, as the caller gets them.                          *)
LEMMA TextType ==
  ASSUME dmg \in Images, store = Encrypted(dmg.bytes), NEW n \in Nat,
         NEW i \in 1 .. ChunkSize
  PROVE  /\ Text(n)[i] \in Anything
         /\ Text(n)[i] \in Bytes => Found(n)
<1>1. CASE Found(n)
  <2>1. Text(n)[i] = Clear(n)[i]
    BY <1>1, TextOf
  <2>2. Clear(n)[i] \in Bytes
    <3>1. n * ChunkSize \in Nat
      BY ChunkAssumption
    <3>2. CASE n * ChunkSize + i <= Size
      <4>1. n * ChunkSize + i \in 1 .. Size
        <5>1. PICK k \in Nat : k = n * ChunkSize
          BY <3>1
        <5> QED BY <3>2, <5>1, ImageFile
      <4> QED BY <3>2, <4>1, ImageFile DEF Clear
    <3>3. CASE ~(n * ChunkSize + i <= Size)
      BY <3>3, ImageFile DEF Clear
    <3> QED BY <3>2, <3>3
  <2> QED BY <1>1, <2>1, <2>2 DEF Anything
<1>2. CASE ~Found(n)
  <2>1. Text(n)[i] = Garbage
    BY <1>2, TextOf DEF Junk
  <2> QED BY <2>1, ImageFile DEF Anything
<1> QED BY <1>1, <1>2

(* As far as a word reaches, the bytes of the image are in their places.   *)
LEMMA ByteOf ==
  ASSUME dmg \in Images, store = Encrypted(dmg.bytes), Size <= WordBytes,
         NEW p \in Nat, p < Size
  PROVE  Byte(p) = dmg.bytes[p + 1]
<1> DEFINE n == p \div ChunkSize
           r == p % ChunkSize
<1>1. /\ n \in Nat /\ r \in Nat /\ r < ChunkSize
      /\ p = n * ChunkSize + r
      /\ ChunkSize \in Nat \ {0} /\ WordBytes \in Nat \ {0} /\ Size \in Nat
      /\ Count \in Nat
  BY ByteInChunk, ChunkAssumption, ImageFile, ChunkCount
<1>2. n < Count
  <2>1. p < Count * ChunkSize
    BY <1>1, ChunkCount
  <2> QED BY <1>1, <2>1, ChunkBelow
<1>3. Place(n) = n
  <2> HIDE DEF n, r
  <2>1. PICK k \in Nat : k = n * ChunkSize
    BY <1>1
  <2>2. k < WordBytes
    BY <1>1, <2>1
  <2>3. k % WordBytes = k
    BY <1>1, <2>2
  <2>4. (n * ChunkSize + 0) \div ChunkSize = n
    BY <1>1, QuotientUnique
  <2> QED BY <2>1, <2>3, <2>4 DEF Place
<1>4. Found(n)
  <2> HIDE DEF n
  <2> QED BY <1>1, <1>2, <1>3, ChunksOfFile DEF Found
<1>5. Text(n) = Clear(n)
  BY <1>1, <1>4, TextOf
<1>6. Clear(n)[r + 1] = dmg.bytes[p + 1]
  <2> HIDE DEF n, r
  <2>1. r + 1 \in 1 .. ChunkSize
    BY <1>1
  <2>2. n * ChunkSize + (r + 1) = p + 1 /\ p + 1 <= Size
    <3>1. PICK k \in Nat : k = n * ChunkSize
      BY <1>1
    <3> QED BY <1>1, <3>1
  <2> QED BY <2>1, <2>2 DEF Clear
<1> QED BY <1>5, <1>6 DEF Byte

-----------------------------------------------------------------------------
(* The chunk in memory and the position.                                   *)

LEMMA SameStore ==
  ASSUME dmg' = dmg, store' = store
  PROVE  /\ \A n : Text(n)' = Text(n) /\ Byte(n)' = Byte(n)
         /\ Chunks' = Chunks /\ Size' = Size /\ Count' = Count
BY DEF Text, Byte, Chunks, Decrypt, Size, Count

LEMMA OtherCached ==
  ASSUME NEW v, Shaped(v), NEW n, n # v.curChunk
  PROVE  Cached(v, n) = [offset |-> v.offset, curChunk |-> n, chunk |-> Text(n),
                         dirty |-> FALSE, headerDirty |-> v.headerDirty]
<1>1. Cached(v, n) = [v EXCEPT !.curChunk = n, !.chunk = Text(n), !.dirty = FALSE]
  BY DEF Cached
<1> QED BY <1>1 DEF Shaped

(* A chunk that is written back is what the file has already.              *)
LEMMA StoredSame ==
  ASSUME dmg \in Images, store = Encrypted(dmg.bytes),
         NEW v, NEW n, v.curChunk \in Nat, v.chunk = Text(v.curChunk),
         v.dirty => Found(v.curChunk)
  PROVE  Stored(v, n) = store
<1> DEFINE m == v.curChunk
<1>1. CASE n # m /\ v.dirty
  <2>1. m \in Chunks /\ Place(m) = m
    BY <1>1 DEF Found
  <2>2. store[m] = [iv |-> m, text |-> Text(m)]
    BY <1>1, TextOf
  <2>3. Stored(v, n) = [store EXCEPT ![m] = [iv |-> m, text |-> Text(m)]]
    BY <1>1, <2>1 DEF Stored, Number
  <2>4. store = [k \in Chunks |-> store[k]]
    BY DEF Encrypted, Chunks
  <2> HIDE DEF m
  <2> QED BY <2>1, <2>2, <2>3, <2>4
<1>2. CASE ~(n # m /\ v.dirty)
  BY <1>2 DEF Stored
<1> QED BY <1>1, <1>2

(* After a move the chunk of the position is in memory, and the file is    *)
(* what it was.                                                            *)
LEMMA Moves ==
  ASSUME dmg \in Images, dmg' = dmg, store = Encrypted(dmg.bytes),
         NEW v, Shaped(v), v.offset \in Nat, v.curChunk \in Nat,
         v.dirty \in BOOLEAN, v.headerDirty \in BOOLEAN,
         v.chunk = Text(v.curChunk), v.dirty => Found(v.curChunk), Move(v)
  PROVE  /\ store' = store /\ Shaped(vault')
         /\ vault'.offset = v.offset /\ vault'.headerDirty = v.headerDirty
         /\ vault'.curChunk = v.offset \div ChunkSize /\ vault'.curChunk \in Nat
         /\ vault'.chunk = Text(vault'.curChunk)
         /\ vault'.dirty \in BOOLEAN
         /\ vault'.dirty => Found(vault'.curChunk)
<1> DEFINE n == v.offset \div ChunkSize
<1>1. n \in Nat
  BY ByteInChunk
<1>2. vault' = Cached(v, n) /\ store' = Stored(v, n)
  BY DEF Move
<1> HIDE DEF n
<1>3. store' = store
  BY <1>2, StoredSame
<1>4. CASE n = v.curChunk
  <2>1. vault' = v
    BY <1>2, <1>4 DEF Cached
  <2> QED BY <1>1, <1>3, <1>4, <2>1 DEF n
<1>5. CASE n # v.curChunk
  <2>1. /\ Shaped(vault') /\ vault'.offset = v.offset
        /\ vault'.headerDirty = v.headerDirty /\ vault'.curChunk = n
        /\ vault'.chunk = Text(n) /\ vault'.dirty = FALSE
    <3>1. vault' = [offset |-> v.offset, curChunk |-> n, chunk |-> Text(n),
                    dirty |-> FALSE, headerDirty |-> v.headerDirty]
      BY <1>2, <1>5, OtherCached, Zenon
    <3> QED BY <3>1 DEF Shaped
  <2>2. vault'.dirty \in BOOLEAN /\ (vault'.dirty => Found(vault'.curChunk))
    BY <2>1
  <2>3. vault'.chunk = Text(vault'.curChunk)
    BY <2>1
  <2> QED BY <1>1, <1>3, <2>1, <2>2, <2>3 DEF n
<1> QED BY <1>4, <1>5

(* What of the next bytes is in this chunk.                                *)
LEMMA HereFacts ==
  ASSUME vault.offset \in Nat, NEW w \in Nat
  PROVE  /\ Here(w) \in Nat /\ Here(w) <= w /\ (w > 0 => Here(w) > 0)
         /\ ChunkOffset \in Nat /\ ChunkOffset < ChunkSize
         /\ ChunkOffset + Here(w) <= ChunkSize
<1>1. /\ ChunkOffset \in Nat /\ ChunkOffset < ChunkSize
      /\ ChunkSize \in Nat \ {0}
  BY ByteInChunk, ChunkAssumption DEF ChunkOffset
<1> QED BY <1>1 DEF Here

(* The bytes that are copied from the chunk are those of the position.     *)
LEMMA Piece ==
  ASSUME dmg \in Images, store = Encrypted(dmg.bytes), vault.offset \in Nat,
         vault.curChunk = vault.offset \div ChunkSize,
         vault.chunk = Text(vault.curChunk),
         NEW n \in Nat, ChunkOffset + n <= ChunkSize,
         NEW piece,
         piece = SubSeq(vault.chunk, ChunkOffset + 1, ChunkOffset + n)
  PROVE  /\ piece \in Seq(Anything) /\ Len(piece) = n
         /\ \A i \in 1 .. n : piece[i] = Byte(vault.offset + i - 1)
         /\ n > 0 /\ piece[1] \in Bytes => Found(vault.curChunk)
<1> DEFINE cur == vault.curChunk
           o == ChunkOffset
<1>1. /\ cur \in Nat /\ o \in Nat /\ o < ChunkSize
      /\ vault.offset = cur * ChunkSize + o /\ ChunkSize \in Nat \ {0}
  BY ByteInChunk, ChunkAssumption DEF ChunkOffset
<1> HIDE DEF cur, o
<1>2. \A i \in o + 1 .. o + n : Text(cur)[i] \in Anything
  <2>1. ASSUME NEW i \in o + 1 .. o + n PROVE i \in 1 .. ChunkSize
    BY <1>1, <2>1 DEF o
  <2> QED BY <1>1, <2>1, TextType
<1>3. /\ piece \in Seq(Anything)
      /\ Len(piece) = n /\ \A i \in 1 .. n : piece[i] = Text(cur)[o + i]
  <2>1. piece = SubSeq(Text(cur), o + 1, o + n)
    BY DEF cur, o
  <2>2. PICK l \in Int, m \in Int : l = o + 1 /\ m = o + n
    BY <1>1
  <2>3. \A i \in l .. m : Text(cur)[i] \in Anything
    BY <1>2, <2>2
  <2>4. piece = SubSeq(Text(cur), l, m)
    BY <2>1, <2>2
  <2>5. /\ piece \in Seq(Anything)
        /\ Len(piece) = IF l <= m THEN m - l + 1 ELSE 0
        /\ \A i \in 1 .. m - l + 1 : piece[i] = Text(cur)[l + i - 1]
    <3>1. \A s : (\A i \in l .. m : s[i] \in Anything) =>
             /\ SubSeq(s, l, m) \in Seq(Anything)
             /\ Len(SubSeq(s, l, m)) = IF l <= m THEN m - l + 1 ELSE 0
             /\ \A i \in 1 .. m - l + 1 : SubSeq(s, l, m)[i] = s[l + i - 1]
      BY SubSeqProperties
    <3> QED BY <2>3, <2>4, <3>1
  <2>6. m - l + 1 = n /\ (l <= m <=> n > 0)
    BY <1>1, <2>2
  <2>7. Len(piece) = n
    <3>1. CASE l <= m
      BY <2>5, <2>6, <3>1
    <3>2. CASE ~(l <= m)
      BY <1>1, <2>5, <2>6, <3>2
    <3> QED BY <3>1, <3>2
  <2>8. \A i \in 1 .. n : piece[i] = Text(cur)[o + i]
    <3>1. \A i \in 1 .. n : l + i - 1 = o + i
      BY <1>1, <2>2
    <3> QED BY <2>5, <2>6, <3>1
  <2> QED BY <2>5, <2>7, <2>8
<1>4. ASSUME NEW i \in 1 .. n
      PROVE  piece[i] = Byte(vault.offset + i - 1)
  <2>1. o + i - 1 \in Nat /\ o + i - 1 < ChunkSize
    BY <1>1 DEF o
  <2>2. vault.offset + i - 1 = cur * ChunkSize + (o + i - 1)
    <3>1. PICK k \in Nat : k = cur * ChunkSize
      BY <1>1
    <3> QED BY <1>1, <3>1
  <2>3. /\ (vault.offset + i - 1) \div ChunkSize = cur
        /\ (vault.offset + i - 1) % ChunkSize = o + i - 1
    <3>1. PICK k \in Nat : k = o + i - 1
      BY <2>1
    <3>2. k < ChunkSize
      BY <2>1, <3>1
    <3>3. /\ (cur * ChunkSize + k) \div ChunkSize = cur
          /\ (cur * ChunkSize + k) % ChunkSize = k
      BY <1>1, <3>2, QuotientUnique
    <3> QED BY <2>2, <3>1, <3>3
  <2>4. o + i - 1 + 1 = o + i
    BY <1>1
  <2> QED BY <1>3, <2>3, <2>4 DEF Byte
<1>5. ASSUME n > 0, piece[1] \in Bytes PROVE Found(cur)
  <2>1. o + 1 \in 1 .. ChunkSize
    BY <1>1 DEF o
  <2>2. 1 \in 1 .. n
    BY <1>5
  <2>3. piece[1] = Text(cur)[o + 1]
    BY <1>3, <2>2
  <2> QED BY <1>1, <1>5, <2>1, <2>3, TextType
<1> QED BY <1>3, <1>4, <1>5 DEF cur

-----------------------------------------------------------------------------
(* The operations of the vault.                                            *)

(* While the vault is open a move from where it is meets what it needs.    *)
LEMMA MovesFrom ==
  ASSUME dmg \in Images, dmg' = dmg, VaultCore, vstatus = "open",
         NEW v, Shaped(v), v.offset \in Nat, v.curChunk = vault.curChunk,
         v.chunk = vault.chunk, v.dirty \in BOOLEAN, v.headerDirty \in BOOLEAN,
         v.dirty => Found(vault.curChunk), Move(v)
  PROVE  /\ store' = store /\ VaultRecord(vault')
         /\ vault'.offset = v.offset /\ vault'.headerDirty = v.headerDirty
         /\ vault'.curChunk = vault'.offset \div ChunkSize
         /\ vault'.chunk = Text(vault'.curChunk)
         /\ vault'.dirty => Found(vault'.curChunk)
<1>1. /\ store = Encrypted(dmg.bytes) /\ vault.curChunk \in Nat
      /\ vault.chunk = Text(vault.curChunk)
  BY DEF VaultCore, VaultShape, VaultRecord, ChunkInMemory
<1> QED BY <1>1, Moves DEF VaultRecord

(* What has to be shown of a step.                                         *)
LEMMA CoreAfter ==
  ASSUME dmg' = dmg, store' = store, dataSize' = dataSize, VaultCore,
         vstatus' \in {"closed", "open", "exited", "undefined"},
         VaultRecord(vault'), CallRecord(vcall'), Progress',
         vstatus' = "open" =>
           /\ vault'.curChunk = vault'.offset \div ChunkSize
           /\ vault'.chunk = Text(vault'.curChunk)
           /\ vault'.dirty => Found(vault'.curChunk)
  PROVE  VaultCore'
<1>1. VaultShape'
  <2>1. Encrypted(dmg.bytes)' = Encrypted(dmg.bytes) /\ Size' = Size
    BY DEF Size
  <2> QED BY <2>1 DEF VaultCore, VaultShape, VaultRecord, CallRecord, Shaped
<1>2. ChunkInMemory'
  BY SameStore DEF ChunkInMemory, Found
<1> QED BY <1>1, <1>2 DEF VaultCore

LEMMA IdleProgress ==
  ASSUME vcall' = Idle
  PROVE  Progress' /\ CallRecord(vcall')
<1>1. CallRecord(Idle)
  <2>1. <<>> \in Seq(Bytes) /\ <<>> \in Seq(Anything)
    BY EmptySeq
  <2> QED BY <2>1 DEF Idle, CallRecord
<1> QED BY <1>1 DEF Progress, Idle

LEMMA OpenVaultCore ==
  ASSUME dmg \in Images, dmg' = dmg, VaultCore, OpenVault
  PROVE  VaultCore' /\ store' = store /\ vault'.headerDirty = FALSE
<1>1. /\ store' = store /\ dataSize' = dataSize /\ vstatus' = "open"
      /\ vcall' = Idle
      /\ vault' = [offset |-> 0, curChunk |-> 0, chunk |-> Text(0),
                   dirty |-> FALSE, headerDirty |-> FALSE]
  BY DEF OpenVault
<1>2. VaultRecord(vault')
  BY <1>1 DEF VaultRecord, Shaped
<1>3. 0 \div ChunkSize = 0
  BY ChunkAssumption
<1> QED BY <1>1, <1>2, <1>3, IdleProgress, CoreAfter

LEMMA SeekCore ==
  ASSUME dmg \in Images, dmg' = dmg, VaultCore, NEW o \in Nat, VaultSeek(o)
  PROVE  /\ VaultCore' /\ store' = store /\ vault'.offset = o
         /\ vault'.headerDirty = vault.headerDirty
<1> DEFINE v == [vault EXCEPT !.offset = o]
<1>1. /\ vstatus = "open" /\ Move(v) /\ vcall' = Idle
      /\ dataSize' = dataSize /\ vstatus' = vstatus
  BY DEF VaultSeek, Ready
<1>2. VaultRecord(vault) /\ (vault.dirty => Found(vault.curChunk))
  BY <1>1 DEF VaultCore, VaultShape, ChunkInMemory, Found
<1>3. /\ Shaped(v) /\ v.offset = o /\ v.curChunk = vault.curChunk
      /\ v.chunk = vault.chunk /\ v.dirty = vault.dirty
      /\ v.headerDirty = vault.headerDirty
  BY <1>2 DEF VaultRecord, Shaped
<1> HIDE DEF v
<1>4. /\ store' = store /\ VaultRecord(vault')
      /\ vault'.offset = o /\ vault'.headerDirty = vault.headerDirty
      /\ vault'.curChunk = vault'.offset \div ChunkSize
      /\ vault'.chunk = Text(vault'.curChunk)
      /\ vault'.dirty => Found(vault'.curChunk)
  BY <1>1, <1>2, <1>3, MovesFrom DEF VaultRecord
<1> QED BY <1>1, <1>4, IdleProgress, CoreAfter

(* An operation begins where the position is, with nothing read.           *)
LEMMA BeginCore ==
  ASSUME dmg \in Images, VaultCore, vstatus = "open",
         dmg' = dmg, store' = store, dataSize' = dataSize, vault' = vault,
         vstatus' = vstatus, CallRecord(vcall'), vcall'.op \in {"read", "write"},
         vcall'.from = vault.offset, vcall'.got = <<>>,
         vcall'.op = "read" => /\ vcall'.want = vcall'.size
                               /\ vault.offset + vcall'.size <= Count * ChunkSize,
         vcall'.op = "write" => /\ vcall'.left # <<>> /\ vcall'.size = 0
                                /\ vault.offset <= Count * ChunkSize
  PROVE  VaultCore'
<1>1. /\ VaultRecord(vault) /\ vault.offset \in Nat
      /\ vault.curChunk = vault.offset \div ChunkSize
      /\ vault.chunk = Text(vault.curChunk)
      /\ vault.dirty => Found(vault.curChunk)
  BY DEF VaultCore, VaultShape, VaultRecord, ChunkInMemory, Found
<1>2. Count' = Count /\ Count * ChunkSize \in Nat
  BY SameStore, ChunkCount
<1>3. /\ vcall'.from \in Nat /\ vcall'.size \in Nat /\ vcall'.want \in Nat
      /\ Len(vcall'.got) = 0 /\ 1 .. Len(vcall'.got) = {}
  BY DEF CallRecord
<1>4. vcall'.from <= Count * ChunkSize
  BY <1>1, <1>2, <1>3
<1>5. Progress'
  <2>1. vcall'.from + Len(vcall'.got) = vault'.offset /\ vstatus' \in {"open", "exited"}
    BY <1>1, <1>3
  <2>2. vcall'.op = "read" => /\ vcall'.want + Len(vcall'.got) = vcall'.size
                              /\ vcall'.from + vcall'.size <= (Count * ChunkSize)'
    BY <1>2, <1>3
  <2>3. vcall'.from + Len(vcall'.got) <= (Count * ChunkSize)'
    BY <1>1, <1>2, <1>3, <1>4
  <2> QED BY <1>3, <2>1, <2>2, <2>3 DEF Progress
<1> QED BY <1>1, <1>5, CoreAfter

LEMMA ReadCore ==
  ASSUME dmg \in Images, dmg' = dmg, VaultCore, NEW n \in Nat, VaultRead(n),
         vault.offset + n <= Count * ChunkSize
  PROVE  VaultCore' /\ store' = store
<1>1. /\ vstatus = "open" /\ store' = store /\ dataSize' = dataSize
      /\ vault' = vault /\ vstatus' = vstatus
      /\ vcall' = [op |-> "read", from |-> vault.offset, size |-> n,
                   want |-> n, left |-> <<>>, got |-> <<>>]
  BY DEF VaultRead, Ready, Idle
<1>2. CallRecord(vcall')
  <2>1. <<>> \in Seq(Bytes) /\ <<>> \in Seq(Anything)
    BY EmptySeq
  <2>2. vault.offset \in Nat
    BY DEF VaultCore, VaultShape, VaultRecord
  <2> QED BY <1>1, <2>1, <2>2 DEF CallRecord
<1> QED BY <1>1, <1>2, BeginCore

LEMMA WriteCore ==
  ASSUME dmg \in Images, dmg' = dmg, VaultCore, NEW s \in Seq(Bytes), s # <<>>,
         VaultWrite(s), vault.offset <= Count * ChunkSize
  PROVE  VaultCore' /\ store' = store
<1>1. /\ vstatus = "open" /\ store' = store /\ dataSize' = dataSize
      /\ vault' = vault /\ vstatus' = vstatus
      /\ vcall' = [op |-> "write", from |-> vault.offset, size |-> 0,
                   want |-> 0, left |-> s, got |-> <<>>]
  BY DEF VaultWrite, Ready, Idle
<1>2. CallRecord(vcall')
  <2>1. <<>> \in Seq(Anything)
    BY EmptySeq
  <2>2. vault.offset \in Nat
    BY DEF VaultCore, VaultShape, VaultRecord
  <2> QED BY <1>1, <2>1, <2>2 DEF CallRecord
<1> QED BY <1>1, <1>2, BeginCore

(* The bytes of a turn follow those of the turns before it.                *)
LEMMA Appended ==
  ASSUME VaultCore, vcall.op \in {"read", "write"},
         NEW piece \in Seq(Anything),
         \A i \in 1 .. Len(piece) : piece[i] = Byte(vault.offset + i - 1)
  PROVE  /\ vcall.got \o piece \in Seq(Anything)
         /\ Len(piece) \in Nat /\ Len(vcall.got) \in Nat
         /\ Len(vcall.got \o piece) = Len(vcall.got) + Len(piece)
         /\ vcall.from + Len(vcall.got \o piece) = vault.offset + Len(piece)
         /\ \A i \in 1 .. Len(vcall.got \o piece) :
              (vcall.got \o piece)[i] = Byte(vcall.from + i - 1)
<1>1. /\ vcall.got \in Seq(Anything) /\ vcall.from \in Nat /\ vault.offset \in Nat
      /\ vcall.from + Len(vcall.got) = vault.offset
      /\ \A i \in 1 .. Len(vcall.got) : vcall.got[i] = Byte(vcall.from + i - 1)
  BY DEF VaultCore, VaultShape, VaultRecord, CallRecord, Progress
<1>2. PICK g \in Seq(Anything) : g = vcall.got
  BY <1>1
<1>3. Len(g) \in Nat /\ Len(piece) \in Nat
  BY LenProperties
<1>4. /\ g \o piece \in Seq(Anything)
      /\ Len(g \o piece) = Len(g) + Len(piece)
      /\ \A i \in 1 .. Len(g) + Len(piece) :
           (g \o piece)[i] = IF i <= Len(g) THEN g[i] ELSE piece[i - Len(g)]
  BY ConcatProperties
<1>5. ASSUME NEW i \in 1 .. Len(g) + Len(piece)
      PROVE  (g \o piece)[i] = Byte(vcall.from + i - 1)
  <2>1. CASE i <= Len(g)
    <3>1. (g \o piece)[i] = g[i]
      BY <1>4, <2>1
    <3>2. i \in 1 .. Len(g)
      BY <1>3, <2>1
    <3> QED BY <1>1, <1>2, <3>1, <3>2
  <2>2. CASE ~(i <= Len(g))
    <3>1. (g \o piece)[i] = piece[i - Len(g)]
      BY <1>4, <2>2
    <3>2. i - Len(g) \in 1 .. Len(piece)
      BY <1>3, <2>2
    <3>3. piece[i - Len(g)] = Byte(vault.offset + (i - Len(g)) - 1)
      BY <3>2
    <3>4. vault.offset + (i - Len(g)) - 1 = vcall.from + i - 1
      BY <1>1, <1>2, <1>3
    <3> QED BY <3>1, <3>3, <3>4
  <2> QED BY <2>1, <2>2
<1>6. vcall.from + Len(g \o piece) = vault.offset + Len(piece)
  BY <1>1, <1>2, <1>3, <1>4
<1> QED BY <1>2, <1>3, <1>4, <1>5, <1>6

LEMMA ReadTurnCore ==
  ASSUME dmg \in Images, dmg' = dmg, VaultCore, ReadTurn
  PROVE  /\ VaultCore' /\ store' = store
         /\ vault'.headerDirty = vault.headerDirty /\ vstatus' = vstatus
         /\ vcall'.from = vcall.from /\ vcall'.size = vcall.size
         /\ vcall'.op \in {"read", "done"}
         /\ vcall'.op = "done" =>
              /\ Len(vcall'.got) = vcall'.size
              /\ vault'.offset = vcall'.from + Len(vcall'.got)
<1> DEFINE n == Here(vcall.want)
           piece == SubSeq(vault.chunk, ChunkOffset + 1, ChunkOffset + n)
           v == [vault EXCEPT !.offset = @ + n]
<1>1. /\ vstatus = "open" /\ vcall.op = "read"
      /\ vcall' = [vcall EXCEPT !.got = @ \o piece, !.want = @ - n,
                                !.op = IF n = vcall.want THEN "done" ELSE "read"]
      /\ Move(v) /\ dataSize' = dataSize /\ vstatus' = vstatus
  BY DEF ReadTurn
<1>2. /\ store = Encrypted(dmg.bytes)
      /\ VaultRecord(vault) /\ CallRecord(vcall)
      /\ vault.offset \in Nat
      /\ vault.curChunk = vault.offset \div ChunkSize
      /\ vault.chunk = Text(vault.curChunk)
      /\ vault.dirty => Found(vault.curChunk)
  BY <1>1 DEF VaultCore, VaultShape, VaultRecord, ChunkInMemory, Found
<1>3. /\ vcall.want \in Nat /\ vcall.from \in Nat /\ vcall.size \in Nat
      /\ vcall.got \in Seq(Anything) /\ vcall.left \in Seq(Bytes)
      /\ vcall.want + Len(vcall.got) = vcall.size
      /\ vcall.from + vcall.size <= Count * ChunkSize
      /\ vcall.from + Len(vcall.got) = vault.offset
  BY <1>1, <1>2 DEF CallRecord, VaultCore, Progress
<1>4. n \in Nat /\ n <= vcall.want /\ ChunkOffset + n <= ChunkSize
  BY <1>2, <1>3, HereFacts
<1>5. /\ Shaped(v) /\ v.offset = vault.offset + n /\ v.curChunk = vault.curChunk
      /\ v.chunk = vault.chunk /\ v.dirty = vault.dirty
      /\ v.headerDirty = vault.headerDirty
  <2> HIDE DEF n
  <2> QED BY <1>2 DEF VaultRecord, Shaped
<1>6. /\ vcall'.op = IF n = vcall.want THEN "done" ELSE "read"
      /\ vcall'.from = vcall.from /\ vcall'.size = vcall.size
      /\ vcall'.want = vcall.want - n /\ vcall'.left = vcall.left
      /\ vcall'.got = vcall.got \o piece
      /\ vcall' = [op |-> vcall'.op, from |-> vcall'.from, size |-> vcall'.size,
                   want |-> vcall'.want, left |-> vcall'.left, got |-> vcall'.got]
  <2> HIDE DEF n, piece
  <2> QED BY <1>1, <1>2 DEF CallRecord
<1>7. /\ piece \in Seq(Anything) /\ Len(piece) = n
      /\ \A i \in 1 .. n : piece[i] = Byte(vault.offset + i - 1)
  BY <1>2, <1>4, Piece
<1> HIDE DEF n, piece, v
<1>8. /\ vcall'.got \in Seq(Anything) /\ Len(vcall.got) \in Nat
      /\ Len(vcall'.got) = Len(vcall.got) + n
      /\ vcall'.from + Len(vcall'.got) = vault.offset + n
      /\ \A i \in 1 .. Len(vcall'.got) : vcall'.got[i] = Byte(vcall'.from + i - 1)
  <2>1. \A i \in 1 .. Len(piece) : piece[i] = Byte(vault.offset + i - 1)
    BY <1>7
  <2>2. /\ vcall.got \o piece \in Seq(Anything) /\ Len(vcall.got) \in Nat
        /\ Len(vcall.got \o piece) = Len(vcall.got) + Len(piece)
        /\ vcall.from + Len(vcall.got \o piece) = vault.offset + Len(piece)
        /\ \A i \in 1 .. Len(vcall.got \o piece) :
             (vcall.got \o piece)[i] = Byte(vcall.from + i - 1)
    BY <1>1, <1>7, <2>1, Appended
  <2> QED BY <1>6, <1>7, <2>2
<1>9. /\ store' = store /\ VaultRecord(vault')
      /\ vault'.offset = vault.offset + n
      /\ vault'.headerDirty = vault.headerDirty
      /\ vault'.curChunk = vault'.offset \div ChunkSize
      /\ vault'.chunk = Text(vault'.curChunk)
      /\ vault'.dirty => Found(vault'.curChunk)
  <2>1. v.offset \in Nat /\ v.dirty \in BOOLEAN /\ v.headerDirty \in BOOLEAN
    BY <1>2, <1>4, <1>5 DEF VaultRecord
  <2> QED BY <1>1, <1>2, <1>5, <2>1, MovesFrom
<1>10. CallRecord(vcall')
  <2>1. vcall'.want \in Nat
    BY <1>3, <1>4, <1>6
  <2> QED BY <1>3, <1>6, <1>8, <2>1 DEF CallRecord
<1>11. PICK c \in Nat : c = Count * ChunkSize /\ c = (Count * ChunkSize)'
  BY <1>9, SameStore, ChunkCount
<1>12. \A i : Byte(i)' = Byte(i)
  BY <1>9, SameStore
<1>13. /\ vcall'.want + Len(vcall'.got) = vcall'.size
       /\ vcall'.from + vcall'.size <= c
       /\ vcall'.from + Len(vcall'.got) = vault'.offset
       /\ vcall'.from + Len(vcall'.got) <= c
  <2>1. vcall'.want + Len(vcall'.got) = vcall'.size
    BY <1>3, <1>4, <1>6, <1>8
  <2>2. vcall'.from + vcall'.size <= c
    BY <1>3, <1>6, <1>11
  <2>3. vcall'.from + Len(vcall'.got) = vault'.offset
    BY <1>8, <1>9
  <2>4. Len(vcall'.got) <= vcall'.size /\ Len(vcall'.got) \in Nat
    <3>1. PICK k \in Nat, w \in Nat : k = Len(vcall.got) /\ w = vcall.want
      BY <1>3, <1>8
    <3>2. Len(vcall'.got) = k + n /\ vcall'.size = w + k
      BY <1>3, <1>6, <1>8, <3>1
    <3> QED BY <1>4, <3>1, <3>2
  <2>5. vcall'.from + Len(vcall'.got) <= c
    BY <1>3, <1>6, <1>11, <2>2, <2>4
  <2> QED BY <2>1, <2>2, <2>3, <2>5
<1>14. Progress'
  <2>1. \A i \in 1 .. Len(vcall'.got) : vcall'.got[i] = Byte(vcall'.from + i - 1)
    BY <1>8
  <2>2. vcall'.op \in {"read", "done"} /\ vstatus' = "open"
    BY <1>1, <1>6
  <2> QED BY <1>6, <1>11, <1>12, <1>13, <2>1, <2>2 DEF Progress
<1>15. VaultCore'
  BY <1>1, <1>9, <1>10, <1>14, CoreAfter
<1>16. vcall'.op = "done" => Len(vcall'.got) = vcall'.size
  BY <1>3, <1>4, <1>6, <1>8
<1> QED BY <1>1, <1>6, <1>9, <1>13, <1>15, <1>16

(* What is written is what the file has in that place, or the program ends.*)
LEMMA WriteTurnCore ==
  ASSUME dmg \in Images, dmg' = dmg, VaultCore, WriteTurn
  PROVE  /\ VaultCore' /\ store' = store
         /\ \/ vstatus' = "exited"
            \/ /\ vstatus' = vstatus
               /\ vcall'.from = vcall.from
               /\ vcall'.op \in {"write", "done"}
               /\ vault'.offset = vcall'.from + Len(vcall'.got)
<1> DEFINE n == Here(Len(vcall.left))
           part == SubSeq(vcall.left, 1, n)
           rest == SubSeq(vcall.left, n + 1, Len(vcall.left))
           head == vault.headerDirty \/ dataSize < vault.offset + Len(vcall.left)
           v == [vault EXCEPT !.offset = @ + n, !.dirty = TRUE,
                    !.headerDirty = @ \/ dataSize < vault.offset + Len(vcall.left)]
<1>1. vstatus = "open" /\ vcall.op = "write" /\ dataSize' = dataSize
  BY DEF WriteTurn
<1>2. /\ store = Encrypted(dmg.bytes)
      /\ VaultRecord(vault) /\ CallRecord(vcall)
      /\ vault.offset \in Nat /\ vault.curChunk \in Nat
      /\ vault.curChunk = vault.offset \div ChunkSize
      /\ vault.chunk = Text(vault.curChunk)
  BY <1>1 DEF VaultCore, VaultShape, VaultRecord, ChunkInMemory
<1>3. /\ vcall.from \in Nat /\ vcall.size = 0 /\ vcall.want \in Nat
      /\ vcall.got \in Seq(Anything) /\ vcall.left \in Seq(Bytes)
      /\ vcall.left # <<>>
      /\ vcall.from + Len(vcall.got) = vault.offset
  BY <1>1, <1>2 DEF CallRecord, VaultCore, Progress
<1>4. PICK m \in Nat : m = Len(vcall.left) /\ m > 0
  BY <1>3, EmptySeq, LenProperties
<1>5. n \in Nat /\ n > 0 /\ n <= m /\ ChunkOffset + n <= ChunkSize
      /\ ChunkOffset \in Nat /\ ChunkOffset < ChunkSize
  BY <1>2, <1>4, HereFacts
<1>6. CASE part # SubSeq(vault.chunk, ChunkOffset + 1, ChunkOffset + n)
  <2>1. /\ vstatus' = "exited" /\ store' = store /\ vault' = vault
        /\ vcall' = vcall
    BY <1>6 DEF WriteTurn
  <2>2. Count' = Count /\ \A i : Byte(i)' = Byte(i)
    BY <2>1, SameStore
  <2>3. Progress'
    BY <1>1, <2>1, <2>2 DEF VaultCore, Progress
  <2>4. VaultCore'
    BY <1>1, <1>2, <2>1, <2>3, CoreAfter
  <2> QED BY <2>1, <2>4
<1>7. CASE part = SubSeq(vault.chunk, ChunkOffset + 1, ChunkOffset + n)
  <2>1. /\ Move(v) /\ vstatus' = vstatus
        /\ vcall' = [vcall EXCEPT !.got = @ \o part, !.left = rest,
                                  !.op = IF n = Len(vcall.left) THEN "done" ELSE "write"]
    BY <1>7 DEF WriteTurn
  <2>2. /\ part \in Seq(Anything) /\ Len(part) = n
        /\ \A i \in 1 .. n : part[i] = Byte(vault.offset + i - 1)
        /\ part[1] \in Bytes => Found(vault.curChunk)
    BY <1>2, <1>5, <1>7, Piece
  <2> HIDE DEF n, part, rest, v, head
  <2>3. PICK s \in Seq(Bytes) : s = vcall.left /\ Len(s) = m
    BY <1>3, <1>4
  <2>4. \A i \in 1 .. m : s[i] \in Bytes
    BY <2>3, ElementOfSeq
  <2>5. part[1] \in Bytes
    <3>1. \A i \in 1 .. n : s[i] \in Bytes
      BY <1>5, <2>4
    <3>2. \A i \in 1 .. n - 1 + 1 : SubSeq(s, 1, n)[i] = s[1 + i - 1]
      BY <1>5, <3>1, SubSeqProperties
    <3>3. SubSeq(s, 1, n)[1] = s[1]
      BY <1>5, <3>2
    <3>4. part = SubSeq(s, 1, n)
      BY <2>3 DEF part
    <3> QED BY <1>5, <3>1, <3>3, <3>4
  <2>6. Found(vault.curChunk)
    BY <2>2, <2>5
  <2>7. rest \in Seq(Bytes) /\ (n # m => rest # <<>>)
    <3>1. rest = SubSeq(s, n + 1, m)
      BY <1>4, <2>3 DEF rest
    <3>2. PICK l \in Int : l = n + 1
      BY <1>5
    <3>3. \A i \in l .. m : s[i] \in Bytes
      BY <1>5, <2>4, <3>2
    <3>4. /\ SubSeq(s, l, m) \in Seq(Bytes)
          /\ Len(SubSeq(s, l, m)) = IF l <= m THEN m - l + 1 ELSE 0
      BY <3>3, SubSeqProperties
    <3>5. n # m => Len(rest) > 0
      BY <1>5, <3>1, <3>2, <3>4
    <3>6. Len(<<>>) = 0
      OBVIOUS
    <3>7. n # m => rest # <<>>
      BY <3>5, <3>6
    <3> QED BY <3>1, <3>2, <3>4, <3>7
  <2>8. /\ vcall'.op = IF n = m THEN "done" ELSE "write"
        /\ vcall'.from = vcall.from /\ vcall'.size = 0
        /\ vcall'.want = vcall.want /\ vcall'.left = rest
        /\ vcall'.got = vcall.got \o part
        /\ vcall' = [op |-> vcall'.op, from |-> vcall'.from, size |-> vcall'.size,
                     want |-> vcall'.want, left |-> vcall'.left, got |-> vcall'.got]
    BY <1>2, <1>3, <1>4, <2>1 DEF CallRecord
  <2>9. /\ vcall'.got \in Seq(Anything) /\ Len(vcall.got) \in Nat
        /\ Len(vcall'.got) = Len(vcall.got) + n
        /\ vcall'.from + Len(vcall'.got) = vault.offset + n
        /\ \A i \in 1 .. Len(vcall'.got) : vcall'.got[i] = Byte(vcall'.from + i - 1)
    <3>1. \A i \in 1 .. Len(part) : part[i] = Byte(vault.offset + i - 1)
      BY <2>2
    <3>2. /\ vcall.got \o part \in Seq(Anything) /\ Len(vcall.got) \in Nat
          /\ Len(vcall.got \o part) = Len(vcall.got) + Len(part)
          /\ vcall.from + Len(vcall.got \o part) = vault.offset + Len(part)
          /\ \A i \in 1 .. Len(vcall.got \o part) :
               (vcall.got \o part)[i] = Byte(vcall.from + i - 1)
      BY <1>1, <2>2, <3>1, Appended
    <3> QED BY <2>2, <2>8, <3>2
  <2>10. /\ Shaped(v) /\ v.offset = vault.offset + n
         /\ v.curChunk = vault.curChunk /\ v.chunk = vault.chunk
         /\ v.dirty = TRUE /\ v.headerDirty = head
    <3>1. v = [vault EXCEPT !.offset = @ + n, !.dirty = TRUE, !.headerDirty = head]
      BY DEF v, head
    <3> QED BY <1>2, <3>1 DEF VaultRecord, Shaped
  <2>11. v.offset \in Nat /\ v.dirty \in BOOLEAN /\ v.headerDirty \in BOOLEAN
    <3>1. v.offset \in Nat
      BY <1>2, <1>5, <2>10
    <3>2. v.dirty \in BOOLEAN
      BY <2>10
    <3>3. head \in BOOLEAN
      BY Zenon DEF head
    <3> QED BY <2>10, <3>1, <3>2, <3>3
  <2>12. /\ store' = store /\ VaultRecord(vault')
         /\ vault'.offset = vault.offset + n
         /\ vault'.curChunk = vault'.offset \div ChunkSize
         /\ vault'.chunk = Text(vault'.curChunk)
         /\ vault'.dirty => Found(vault'.curChunk)
    BY <1>1, <2>1, <2>6, <2>10, <2>11, MovesFrom
  <2>13. CallRecord(vcall')
    BY <1>3, <2>7, <2>8, <2>9 DEF CallRecord
  <2>14. PICK c \in Nat : c = Count * ChunkSize /\ c = (Count * ChunkSize)'
    BY <2>12, SameStore, ChunkCount
  <2>15. \A i : Byte(i)' = Byte(i)
    BY <2>12, SameStore
  <2>16. vault.offset + n <= c
    <3> DEFINE q == vault.curChunk
               o == ChunkOffset
    <3>1. vault.offset = q * ChunkSize + o
      BY <1>2, ByteInChunk DEF ChunkOffset
    <3>2. q \in 0 .. Count - 1 /\ Count \in Nat /\ ChunkSize \in Nat \ {0}
      BY <1>2, <2>6, ChunksOfFile, ChunkCount, ChunkAssumption DEF Found
    <3> HIDE DEF q, o
    <3>3. (q + 1) * ChunkSize <= Count * ChunkSize
      BY <3>2
    <3>4. (q + 1) * ChunkSize = q * ChunkSize + ChunkSize
      BY <3>2
    <3>5. PICK k \in Nat : k = q * ChunkSize
      BY <3>2
    <3>6. o \in Nat /\ o + n <= ChunkSize
      BY <1>5 DEF o
    <3> QED BY <1>5, <2>14, <3>1, <3>2, <3>3, <3>4, <3>5, <3>6
  <2>17. /\ vcall'.from + Len(vcall'.got) = vault'.offset
         /\ vcall'.from + Len(vcall'.got) <= c
    BY <2>9, <2>12, <2>16
  <2>18. Progress'
    <3>1. \A i \in 1 .. Len(vcall'.got) : vcall'.got[i] = Byte(vcall'.from + i - 1)
      BY <2>9
    <3>2. vcall'.op \in {"write", "done"} /\ vstatus' = "open"
      BY <1>1, <2>1, <2>8
    <3>3. vcall'.op = "write" => vcall'.left # <<>>
      BY <2>7, <2>8
    <3> QED BY <2>8, <2>14, <2>15, <2>17, <3>1, <3>2, <3>3 DEF Progress
  <2>19. VaultCore'
    BY <1>1, <2>1, <2>12, <2>13, <2>18, CoreAfter
  <2> QED BY <2>1, <2>8, <2>12, <2>17, <2>19
<1> QED BY <1>6, <1>7

LEMMA CloseCore ==
  ASSUME dmg \in Images, dmg' = dmg, VaultCore, VaultClose
  PROVE  /\ VaultCore' /\ store' = store /\ vault'.offset = vault.offset
         /\ vault'.headerDirty = vault.headerDirty
<1> DEFINE other == IF vault.curChunk = 0 THEN 1 ELSE 0
<1>1. /\ vstatus = "open" /\ store' = Stored(vault, other)
      /\ vault' = Cached(vault, other) /\ vcall' = Idle
      /\ vstatus' \in {"undefined", "closed"} /\ dataSize' = dataSize
  BY DEF VaultClose, Ready
<1>2. /\ store = Encrypted(dmg.bytes) /\ VaultRecord(vault)
      /\ vault.chunk = Text(vault.curChunk)
      /\ vault.dirty => Found(vault.curChunk)
  BY <1>1 DEF VaultCore, VaultShape, ChunkInMemory, Found
<1>3. store' = store
  BY <1>1, <1>2, StoredSame DEF VaultRecord
<1>4. other \in Nat /\ other # vault.curChunk
  OBVIOUS
<1> HIDE DEF other
<1>5. VaultRecord(vault') /\ vault'.offset = vault.offset
      /\ vault'.headerDirty = vault.headerDirty
  <2>1. /\ Shaped(vault') /\ vault'.offset = vault.offset
        /\ vault'.headerDirty = vault.headerDirty
        /\ vault'.curChunk = other /\ vault'.dirty = FALSE
    <3>1. Shaped(vault)
      BY <1>2 DEF VaultRecord
    <3>2. vault' = [offset |-> vault.offset, curChunk |-> other,
                    chunk |-> Text(other), dirty |-> FALSE,
                    headerDirty |-> vault.headerDirty]
      BY <1>1, <1>4, <3>1, OtherCached, Zenon
    <3> QED BY <3>2 DEF Shaped
  <2> QED BY <1>2, <1>4, <2>1 DEF VaultRecord
<1> QED BY <1>1, <1>3, <1>5, IdleProgress, CoreAfter

-----------------------------------------------------------------------------
(* The reader on the vault.                                                *)

LEMMA InitE == ASSUME ImageInit PROVE EInv
<1>1. FInv /\ dmg \in Images
  BY InitFInv DEF ImageInit, Init
<1>2. /\ vcall = Idle /\ vstatus = "closed" /\ asked = "nothing"
      /\ store = Encrypted(dmg.bytes) /\ dataSize = Size
      /\ client \in {"plain", "keyed", "direct"}
      /\ Size > WordBytes => client = "direct"
      /\ vault = [offset |-> 0, curChunk |-> 0, chunk |-> <<>>,
                  dirty |-> FALSE, headerDirty |-> FALSE]
  BY DEF ImageInit, Size
<1>3. CallRecord(vcall) /\ Progress
  <2>1. <<>> \in Seq(Bytes) /\ <<>> \in Seq(Anything)
    BY EmptySeq
  <2> QED BY <1>2, <2>1 DEF Idle, CallRecord, Progress
<1>4. VaultRecord(vault)
  BY <1>2 DEF VaultRecord, Shaped
<1>5. VaultCore
  BY <1>2, <1>3, <1>4 DEF VaultCore, VaultShape, ChunkInMemory
<1>6. Errand
  BY <1>2 DEF Errand, Idle
<1> QED BY <1>1, <1>5, <1>6 DEF EInv

LEMMA EFacts ==
  ASSUME EInv
  PROVE  /\ dmg \in Images /\ VaultCore /\ Errand /\ FInv /\ Size \in Nat
         /\ vault.offset \in Nat /\ dataSize = Size
         /\ Count * ChunkSize \in Nat /\ Size <= Count * ChunkSize
         /\ asked # "nothing" => client = "keyed" /\ call.pc = "fetch"
<1>1. dmg \in Images /\ VaultCore /\ Errand /\ FInv
  BY DEF EInv, FInv, IInv, TypeOK
<1>2. vault.offset \in Nat /\ dataSize = Size
  BY <1>1 DEF VaultCore, VaultShape, VaultRecord
<1>3. asked # "nothing" => client = "keyed" /\ call.pc = "fetch"
  BY <1>1 DEF Errand
<1> QED BY <1>1, <1>2, <1>3, ImageFile, ChunkCount

LEMMA CoreSame ==
  ASSUME VaultCore, dmg' = dmg, UNCHANGED vaultVars
  PROVE  VaultCore' /\ Size' = Size
<1>1. /\ store' = store /\ dataSize' = dataSize /\ vault' = vault
      /\ vcall' = vcall /\ vstatus' = vstatus
  BY DEF vaultVars
<1>2. /\ Size' = Size /\ Count' = Count /\ Chunks' = Chunks
      /\ \A n : Byte(n)' = Byte(n) /\ Text(n)' = Text(n)
  BY <1>1, SameStore
<1>3. VaultShape'
  BY <1>1, <1>2 DEF VaultCore, VaultShape, VaultRecord, Shaped, CallRecord
<1>4. ChunkInMemory'
  BY <1>1, <1>2 DEF VaultCore, ChunkInMemory
<1>5. Progress'
  BY <1>1, <1>2 DEF VaultCore, Progress
<1> QED BY <1>2, <1>3, <1>4, <1>5 DEF VaultCore

(* A step of the reader alone, while it waits for nothing.                 *)
LEMMA ReaderStep ==
  ASSUME EInv, asked = "nothing", dmg' = dmg, FInv',
         UNCHANGED <<vaultVars, client, asked>>
  PROVE  EInv'
<1>1. /\ vault' = vault /\ vcall' = vcall /\ vstatus' = vstatus
      /\ client' = client /\ asked' = asked
  BY DEF vaultVars
<1>2. VaultCore' /\ Size' = Size
  BY CoreSame DEF EInv
<1>3. Errand'
  BY <1>1, <1>2 DEF EInv, Errand
<1> QED BY <1>2, <1>3 DEF EInv

(* A step of the vault alone, that nobody waits for.                       *)
LEMMA VaultAlone ==
  ASSUME EInv, UNCHANGED <<readerVars, client, asked>>, asked = "nothing",
         VaultCore', client = "direct" \/ ~vault'.headerDirty,
         client = "direct" \/ vcall'.op # "write"
  PROVE  EInv'
<1>1. /\ dmg' = dmg /\ client' = client /\ asked' = asked
  BY DEF readerVars
<1>2. FInv'
  BY StutterFinds DEF EInv
<1>3. Size' = Size
  BY <1>1 DEF Size
<1>4. Errand'
  BY <1>1, <1>3 DEF EInv, Errand
<1> QED BY <1>2, <1>4 DEF EInv

(* What a caller that writes what it has read, or zeros, passes on.        *)
LEMMA PresentBytes ==
  ASSUME EInv, NEW n \in Nat \ {0},
         NEW s \in {Present(n), [Present(n) EXCEPT ![n] = Zero]}
  PROVE  s \in Seq(Bytes) /\ s # <<>>
<1>1. ASSUME NEW i \in 1 .. n PROVE s[i] \in Bytes
  <2>1. dmg.bytes[vault.offset + i] \in Bytes \/ vault.offset + i > Len(dmg.bytes)
    BY EFacts, ImageFile DEF Size
  <2>2. Present(n)[i] \in Bytes
    BY EFacts, ImageFile, <2>1 DEF Present, Size
  <2>3. [Present(n) EXCEPT ![n] = Zero][i] \in Bytes
    BY <2>2, EFacts, ImageFile DEF Present
  <2> QED BY <2>2, <2>3
<1>2. s = [i \in 1 .. n |-> s[i]]
  BY DEF Present
<1>3. s \in [1 .. n -> Bytes]
  BY <1>1, <1>2
<1>4. s \in Seq(Bytes) /\ Len(s) = n
  BY <1>3
<1>5. Len(<<>>) = 0
  OBVIOUS
<1> QED BY <1>4, <1>5

LEMMA DirectE == ASSUME EInv, DirectUse PROVE EInv'
<1>2. dmg \in Images /\ VaultCore
  BY EFacts
<1>3. CASE \E o \in 0 .. dataSize : Direct(VaultSeek(o))
  <2>1. PICK o \in 0 .. dataSize : Direct(VaultSeek(o))
    BY <1>3
  <2>2. VaultSeek(o) /\ o \in Nat /\ client = "direct" /\ asked = "nothing"
        /\ dmg' = dmg /\ UNCHANGED <<readerVars, client, asked>>
    BY <2>1, EFacts DEF Direct, readerVars
  <2> QED BY <1>2, <2>2, SeekCore, VaultAlone
<1>4. CASE \E n \in 0 .. dataSize - vault.offset : Direct(VaultRead(n))
  <2>1. PICK n \in 0 .. dataSize - vault.offset : Direct(VaultRead(n))
    BY <1>4
  <2>2. VaultRead(n) /\ client = "direct" /\ asked = "nothing"
        /\ dmg' = dmg /\ UNCHANGED <<readerVars, client, asked>>
    BY <2>1, EFacts DEF Direct, readerVars
  <2>3. n \in Nat /\ vault.offset + n <= Count * ChunkSize
    BY <2>1, EFacts
  <2> QED BY <1>2, <2>2, <2>3, ReadCore, VaultAlone
<1>5. CASE \E n \in 1 .. (dataSize + 1) - vault.offset :
             \E s \in {Present(n), [Present(n) EXCEPT ![n] = Zero]} :
               Direct(VaultWrite(s))
  <2>1. PICK n \in 1 .. (dataSize + 1) - vault.offset :
          \E s \in {Present(n), [Present(n) EXCEPT ![n] = Zero]} :
            Direct(VaultWrite(s))
    BY <1>5
  <2>2. PICK s \in {Present(n), [Present(n) EXCEPT ![n] = Zero]} :
          Direct(VaultWrite(s))
    BY <2>1
  <2>3. VaultWrite(s) /\ client = "direct" /\ asked = "nothing"
        /\ dmg' = dmg /\ UNCHANGED <<readerVars, client, asked>>
    BY <2>2, EFacts DEF Direct, readerVars
  <2>4. n \in Nat \ {0} /\ vault.offset <= Count * ChunkSize
    BY <2>1, EFacts
  <2>5. s \in Seq(Bytes) /\ s # <<>>
    BY <2>2, <2>4, PresentBytes
  <2> QED BY <1>2, <2>3, <2>4, <2>5, WriteCore, VaultAlone
<1>6. CASE Direct(VaultClose)
  <2>1. VaultClose /\ client = "direct" /\ asked = "nothing"
        /\ dmg' = dmg /\ UNCHANGED <<readerVars, client, asked>>
    BY <1>6, EFacts DEF Direct, readerVars
  <2> QED BY <1>2, <2>1, CloseCore, VaultAlone
<1> QED BY <1>3, <1>4, <1>5, <1>6 DEF DirectUse

LEMMA UnlockE == ASSUME EInv, Unlock PROVE EInv'
<1>1. /\ OpenVault /\ vstatus = "closed" /\ dmg' = dmg /\ vcall' = Idle
      /\ UNCHANGED <<readerVars, client, asked>>
  BY DEF Unlock, readerVars, OpenVault
<1>2. asked = "nothing" /\ dmg \in Images /\ VaultCore
  BY <1>1, EFacts DEF Errand
<1>3. VaultCore' /\ ~vault'.headerDirty /\ vcall'.op # "write"
  BY <1>1, <1>2, OpenVaultCore DEF Idle
<1> QED BY <1>1, <1>2, <1>3, VaultAlone

LEMMA VaultStepE == ASSUME EInv, VaultStep PROVE EInv'
<1>1. /\ dmg' = dmg /\ call' = call /\ client' = client /\ asked' = asked
      /\ UNCHANGED readerVars
  BY DEF VaultStep, readerVars
<1>2. dmg \in Images /\ VaultCore /\ Errand
  BY EFacts
<1>3. CASE ReadTurn
  <2>1. /\ VaultCore' /\ vault'.headerDirty = vault.headerDirty
        /\ vstatus' = vstatus
        /\ vcall'.from = vcall.from /\ vcall'.size = vcall.size
        /\ vcall'.op \in {"read", "done"}
        /\ vcall'.op = "done" => Len(vcall'.got) = vcall'.size
    BY <1>1, <1>2, <1>3, ReadTurnCore
  <2>2. FInv'
    BY <1>1, StutterFinds DEF EInv
  <2>3. Size' = Size /\ Run(call.run)' = Run(call.run)
    BY <1>1 DEF Size, Run, Tables
  <2>4. asked # "place"
    BY <1>2, <1>3 DEF Errand, ReadTurn
  <2>5. Errand'
    BY <1>1, <1>2, <2>1, <2>3, <2>4 DEF Errand
  <2> QED BY <2>1, <2>2, <2>5 DEF EInv
<1>4. CASE WriteTurn
  <2>1. client = "direct" /\ asked = "nothing"
    BY <1>2, <1>4 DEF Errand, WriteTurn
  <2>2. VaultCore'
    BY <1>1, <1>2, <1>4, WriteTurnCore
  <2> QED BY <1>1, <2>1, <2>2, VaultAlone
<1> QED BY <1>3, <1>4 DEF VaultStep, VaultTurn

(* The vault is moved to the place of the run, and read.                   *)
LEMMA AskPlaceE == ASSUME EInv, AskPlace PROVE EInv'
<1>1. /\ dmg' = dmg /\ call' = call /\ client' = client
      /\ asked' = "place" /\ UNCHANGED readerVars
      /\ client = "keyed" /\ call.pc = "fetch"
      /\ VaultSeek(Run(call.run).off)
  BY DEF AskPlace, Waiting, readerVars
<1>2. dmg \in Images /\ VaultCore /\ Errand
  BY EFacts
<1>3. Run(call.run).off \in Nat
  <2>1. call.run \in Handles
    BY <1>1 DEF EInv, FInv, IInv, TypeOK
  <2>2. Sound(Run(call.run))
    BY <1>2, <2>1, HandleIndices, ImagesAssumption DEF Run, Tables
  <2> QED BY <2>2 DEF Sound
<1>4. /\ VaultCore' /\ vault'.offset = Run(call.run).off
      /\ vault'.headerDirty = vault.headerDirty
  BY <1>1, <1>2, <1>3, SeekCore
<1>5. vcall' = Idle /\ vstatus' = "open"
  BY <1>1 DEF VaultSeek, Ready
<1>6. FInv'
  BY <1>1, StutterFinds DEF EInv
<1>7. Size' = Size /\ Run(call.run)' = Run(call.run)
  BY <1>1 DEF Size, Run, Tables
<1>8. Errand'
  BY <1>1, <1>2, <1>4, <1>5, <1>7 DEF Errand, Idle
<1> QED BY <1>4, <1>6, <1>8 DEF EInv

LEMMA AskBytesE == ASSUME EInv, AskBytes PROVE EInv'
<1> DEFINE r == Run(call.run)
<1>1. /\ dmg' = dmg /\ call' = call /\ client' = client
      /\ asked' = "bytes" /\ UNCHANGED readerVars
      /\ client = "keyed" /\ call.pc = "fetch" /\ asked = "place"
      /\ r.type \in {"raw", Compressed} /\ VaultRead(r.len)
  BY DEF AskBytes, Waiting, readerVars
<1>2. dmg \in Images /\ VaultCore /\ Errand /\ vault.offset = r.off
  BY <1>1, EFacts DEF Errand
<1>3. r.off \in Nat /\ r.len \in Nat /\ r.off + r.len <= Size
  <2>1. call.run \in Handles
    BY <1>1 DEF EInv, FInv, IInv, TypeOK
  <2> QED BY <1>1, <1>2, <2>1, RunInFile
<1>4. vault.offset + r.len <= Count * ChunkSize
  BY <1>2, <1>3, EFacts
<1>5. VaultCore'
  BY <1>1, <1>2, <1>3, <1>4, ReadCore
<1>6. /\ vcall'.op = "read" /\ vcall'.from = r.off /\ vcall'.size = r.len
      /\ vault' = vault /\ vstatus' = "open"
  BY <1>1, <1>2 DEF VaultRead, Ready, Idle
<1>7. FInv'
  BY <1>1, StutterFinds DEF EInv
<1>8. Size' = Size /\ r' = r
  BY <1>1 DEF Size, Run, Tables
<1>9. Errand'
  <2> HIDE DEF r
  <2>1. Run(call.run)' = r
    BY <1>8 DEF r
  <2> QED BY <1>1, <1>2, <1>6, <1>8, <2>1 DEF Errand
<1> QED BY <1>5, <1>7, <1>9 DEF EInv

(* What the vault has read of a run is what the image has.                 *)
LEMMA Delivered ==
  ASSUME EInv, asked = "bytes", vcall.op = "done"
  PROVE  vcall.got = FileBytes(Run(call.run).off, Run(call.run).len)
<1> DEFINE r == Run(call.run)
<1>1. /\ dmg \in Images /\ VaultCore /\ Errand /\ store = Encrypted(dmg.bytes)
      /\ client = "keyed" /\ call.pc = "fetch"
  BY EFacts DEF VaultCore, VaultShape
<1>2. /\ r.type \in {"raw", Compressed} /\ vcall.from = r.off
      /\ Len(vcall.got) = r.len /\ Size <= WordBytes
  BY <1>1, EFacts, ChunkAssumption DEF Errand
<1>3. r.off \in Nat /\ r.len \in Nat /\ r.off + r.len <= Size
  <2>1. call.run \in Handles
    BY <1>1 DEF EInv, FInv, IInv, TypeOK
  <2> QED BY <1>1, <1>2, <2>1, RunInFile
<1>4. /\ vcall.got \in Seq(Anything)
      /\ \A i \in 1 .. Len(vcall.got) : vcall.got[i] = Byte(vcall.from + i - 1)
  BY <1>1 DEF VaultCore, VaultShape, CallRecord, Progress
<1> HIDE DEF r
<1>5. PICK b \in Seq(Bytes) : b = dmg.bytes /\ Len(b) = Size
  BY <1>1, ImageFile DEF Size
<1>6. FileBytes(r.off, r.len) = SubSeq(b, r.off + 1, r.off + r.len)
  BY <1>3, <1>5 DEF FileBytes, Lesser, Size
<1>7. PICK l \in Int, m \in Int : l = r.off + 1 /\ m = r.off + r.len
  BY <1>3
<1>8. m - l + 1 = r.len
  <2>1. PICK x \in Nat, y \in Nat : x = r.off /\ y = r.len
    BY <1>3
  <2>2. l = x + 1 /\ m = x + y
    BY <1>7, <2>1
  <2>3. m - l + 1 = y
    BY <2>2
  <2> QED BY <2>1, <2>3
<1>9. \A i \in l .. m : b[i] \in Bytes
  <2>1. \A i \in l .. m : i \in 1 .. Len(b)
    BY <1>3, <1>5, <1>7, EFacts
  <2> QED BY <2>1, ElementOfSeq
<1>10. /\ SubSeq(b, l, m) \in Seq(Bytes)
       /\ Len(SubSeq(b, l, m)) = IF l <= m THEN m - l + 1 ELSE 0
       /\ \A i \in 1 .. m - l + 1 : SubSeq(b, l, m)[i] = b[l + i - 1]
  BY <1>9, SubSeqProperties
<1>11. Len(SubSeq(b, l, m)) = r.len
  <2>1. CASE l <= m
    BY <1>8, <1>10, <2>1
  <2>2. CASE ~(l <= m)
    BY <1>3, <1>8, <1>10, <2>2
  <2> QED BY <2>1, <2>2
<1>12. ASSUME NEW i \in 1 .. r.len
       PROVE  vcall.got[i] = SubSeq(b, l, m)[i]
  <2>1. vcall.got[i] = Byte(r.off + i - 1)
    BY <1>2, <1>4
  <2>2. r.off + i - 1 \in Nat /\ r.off + i - 1 < Size
    BY <1>3, EFacts
  <2>3. PICK p \in Nat : p = r.off + i - 1
    BY <2>2
  <2>4. Byte(p) = b[p + 1]
    BY <1>1, <1>2, <1>5, <2>2, <2>3, ByteOf
  <2>5. p + 1 = l + i - 1
    BY <1>3, <1>7, <2>3
  <2>6. SubSeq(b, l, m)[i] = b[l + i - 1]
    BY <1>8, <1>10
  <2> QED BY <2>1, <2>3, <2>4, <2>5, <2>6
<1>13. SubSeq(b, l, m) \in Seq(Anything)
  BY <1>10 DEF Anything
<1>14. vcall.got = SubSeq(b, l, m)
  BY <1>2, <1>4, <1>11, <1>12, <1>13, SeqEqual
<1> QED BY <1>6, <1>7, <1>14 DEF r

LEMMA DeliverE == ASSUME EInv, Deliver \/ NeedNot PROVE EInv'
<1>1. PICK got : /\ Arrive(got)
                 /\ \/ got = vcall.got /\ asked = "bytes" /\ vcall.op = "done"
                    \/ Run(call.run).type \notin {"raw", Compressed}
  BY DEF Deliver, NeedNot, Waiting
<1>2. /\ asked' = "nothing" /\ client' = client /\ UNCHANGED vaultVars
      /\ dmg' = dmg
  BY DEF Deliver, NeedNot, Arrive
<1>3. Loaded(Run(call.run), got) = RunData(call.run)
  <2>1. CASE got = vcall.got /\ asked = "bytes" /\ vcall.op = "done"
    BY <2>1, Delivered DEF RunData
  <2>2. CASE Run(call.run).type \notin {"raw", Compressed}
    BY <2>2 DEF RunData, Loaded
  <2> QED BY <1>1, <2>1, <2>2
<1>4. FInv'
  BY <1>1, <1>3, ArriveFinds DEF EInv
<1>5. /\ store' = store /\ dataSize' = dataSize /\ vault' = vault
      /\ vcall' = vcall /\ vstatus' = vstatus
  BY <1>2 DEF vaultVars
<1>6. VaultCore' /\ Size' = Size
  BY <1>2, CoreSame DEF EInv
<1>7. Errand'
  BY <1>2, <1>5, <1>6 DEF EInv, Errand
<1> QED BY <1>4, <1>6, <1>7 DEF EInv

LEMMA CloseE == ASSUME EInv, CloseImage PROVE EInv'
<1>1. CASE Reader(client = "plain") /\ Close
  <2>1. /\ UNCHANGED <<vaultVars, client, asked>> /\ dmg' = dmg
        /\ call.pc = "done"
    BY <1>1 DEF Reader, Close
  <2>2. asked = "nothing" /\ FInv'
    BY <1>1, <2>1, EFacts, CloseFinds DEF Errand
  <2> QED BY <2>1, <2>2, ReaderStep
<1>2. CASE client = "keyed" /\ Close /\ VaultClose /\ UNCHANGED <<client, asked>>
  <2>1. /\ dmg' = dmg /\ call.pc = "done" /\ client' = client /\ asked' = asked
        /\ vcall' = Idle
    BY <1>2 DEF Close, VaultClose
  <2>2. asked = "nothing" /\ FInv' /\ dmg \in Images /\ VaultCore
    BY <1>2, <2>1, EFacts, CloseFinds DEF Errand
  <2>3. VaultCore' /\ vault'.headerDirty = vault.headerDirty
    BY <1>2, <2>1, <2>2, CloseCore
  <2>4. Size' = Size
    BY <2>1 DEF Size
  <2>5. Errand'
    BY <2>1, <2>2, <2>3, <2>4 DEF EInv, Errand, Idle
  <2> QED BY <2>2, <2>3, <2>5 DEF EInv
<1> QED BY <1>1, <1>2 DEF CloseImage

(* The reader asks the vault only when its cache lacks a run.              *)
LEMMA ReaderE ==
  ASSUME EInv,
         \/ OpenImage \/ PlainFetch
         \/ Reader(TRUE) /\ (Turn \/ ReadFirstEntry \/ ReadMap \/ Select \/ Reads)
  PROVE  EInv'
<1>1. UNCHANGED <<vaultVars, client, asked>>
  BY DEF OpenImage, PlainFetch, Reader
<1>2. FInv
  BY DEF EInv
<1>3. CASE OpenImage
  <2>1. Open /\ status = "closed" /\ dmg' = dmg
    BY <1>3 DEF OpenImage, Open
  <2>2. call.pc # "fetch"
    BY <1>2, <2>1 DEF FInv, IInv, TypeOK
  <2>3. FInv'
    BY <1>2, <2>1, OpeningFinds DEF Opening
  <2> QED BY <1>1, <2>1, <2>2, <2>3, EFacts, ReaderStep
<1>4. CASE PlainFetch
  <2>1. Fetch /\ client = "plain" /\ dmg' = dmg
    BY <1>4 DEF PlainFetch, Reader, Fetch, Arrive
  <2>2. FInv'
    BY <1>2, <2>1, ArriveFinds DEF Fetch, RunData
  <2> QED BY <1>1, <2>1, <2>2, EFacts, ReaderStep
<1>5. CASE Turn
  <2>1. call.pc # "fetch" /\ dmg' = dmg
    BY <1>5 DEF Turn, Look, Copy
  <2>2. FInv'
    BY <1>2, <1>5, LookFinds, CopyFinds DEF Turn
  <2> QED BY <1>1, <2>1, <2>2, EFacts, ReaderStep
<1>6. CASE ReadFirstEntry \/ ReadMap \/ Select
  <2>1. call.pc # "fetch" /\ dmg' = dmg
    BY <1>6 DEF ReadFirstEntry, ReadMap, Select, Answered, Continue, Undefined,
                Choose
  <2>2. FInv'
    BY <1>2, <1>6, OpeningFinds DEF Opening
  <2> QED BY <1>1, <2>1, <2>2, EFacts, ReaderStep
<1>7. CASE Reads
  <2>1. call.pc # "fetch" /\ dmg' = dmg
    BY <1>7 DEF Reads, Read
  <2>2. FInv'
    BY <1>2, <1>7, ReadsFinds
  <2> QED BY <1>1, <2>1, <2>2, EFacts, ReaderStep
<1> QED BY <1>3, <1>4, <1>5, <1>6, <1>7

LEMMA NextE == ASSUME EInv, [ImageNext]_vars PROVE EInv'
<1>1. CASE UNCHANGED vars
  <2>1. /\ UNCHANGED readerVars /\ UNCHANGED <<vaultVars, client, asked>>
        /\ dmg' = dmg /\ call' = call
    BY <1>1 DEF vars, readerVars, vaultVars
  <2>2. FInv'
    BY <2>1, StutterFinds DEF EInv
  <2>3. VaultCore'
    BY <2>1, CoreSame DEF EInv
  <2>4. Errand'
    <3>1. Size' = Size /\ Run(call.run)' = Run(call.run)
      BY <2>1 DEF Size, Run, Tables
    <3> QED BY <2>1, <3>1 DEF EInv, Errand, vaultVars
  <2> QED BY <2>2, <2>3, <2>4 DEF EInv
<1>2. CASE Work
  BY <1>2, ReaderE, AskPlaceE, AskBytesE, DeliverE, VaultStepE
     DEF Work, FetchKeyed
<1>3. CASE OpenImage \/ (Reader(TRUE) /\ Reads)
  BY <1>3, ReaderE
<1> QED BY <1>1, <1>2, <1>3, CloseE, UnlockE, DirectE DEF ImageNext

LEMMA InvarianceE == ImageSpec => []EInv
BY InitE, NextE, PTL DEF ImageSpec

-----------------------------------------------------------------------------
(* filevault.c:24-60, 94-158: while the vault is open the chunk in memory  *)
(* is the one the position is in, with the bytes the file has for it, and  *)
(* nothing that the file does not have waits to be written back.           *)
THEOREM VaultTypes == ImageSpec => []VaultTypeOK
<1>1. EInv => VaultTypeOK
  BY DEF EInv, FInv, IInv, VaultCore, VaultShape, ChunkInMemory, Errand,
         VaultTypeOK
<1> QED BY <1>1, InvarianceE, PTL

(* dmgfile.c:13-60, on a plain file and on an encrypted one, with a        *)
(* program that uses the vault itself or without: the run in memory is one *)
(* whole run of the image, in its place.                                   *)
THEOREM KeyedCacheIsCoherent == ImageSpec => []CacheCoherent
<1>1. EInv => CacheCoherent
  BY DEF EInv, FInv, IInv
<1> QED BY <1>1, InvarianceE, PTL

(* hdutil.c:274: whether or not there is a key, the volume that is found   *)
(* is the one the maps name, and its bytes are read.                       *)
THEOREM KeyedReadsAreOfVolume == ImageSpec => []ReadsVolume
<1>1. EInv => ReadsVolume
  BY DEF EInv, FInv, IInv, Finding, ReadsVolume
<1> QED BY <1>1, InvarianceE, PTL

(* dmgfile.c:96-104: whatever is behind the reader, it leaves the run in   *)
(* memory only for a place that no table has.                              *)
THEOREM KeyedInBoundsIfCovered == ImageSpec => []WildOnlyUncovered
<1>1. EInv => WildOnlyUncovered
  BY DEF EInv, FInv, IInv
<1> QED BY <1>1, InvarianceE, PTL

-----------------------------------------------------------------------------
(* The vault is a file of bytes.                                           *)

Contents == [i \in 1 .. Count * ChunkSize |-> Byte(i - 1)]

LEMMA PlainTextIs == EInv => PlainText = Contents
<1> SUFFICES ASSUME EInv PROVE PlainText = Contents
  OBVIOUS
<1>1. /\ dmg \in Images /\ store = Encrypted(dmg.bytes)
      /\ vstatus = "open" => vault.chunk = Text(vault.curChunk)
  BY EFacts DEF VaultCore, VaultShape, ChunkInMemory
<1>2. Cardinality(Chunks) = Count
  BY <1>1, ChunksOfFile
<1>3. ASSUME NEW i \in 1 .. Count * ChunkSize
      PROVE  (IF vstatus = "open" /\ (i - 1) \div ChunkSize = vault.curChunk
              THEN vault.chunk
              ELSE Text((i - 1) \div ChunkSize))[((i - 1) % ChunkSize) + 1]
             = Byte(i - 1)
  BY <1>1 DEF Byte
<1> QED BY <1>2, <1>3 DEF PlainText, Contents

LEMMA ContentsFacts ==
  ASSUME EInv
  PROVE  /\ Contents \in Seq(Anything)
         /\ Len(Contents) = Count * ChunkSize
         /\ DOMAIN Contents = 1 .. Count * ChunkSize
<1>1. PICK c \in Nat : c = Count * ChunkSize
  BY EFacts
<1>2. ASSUME NEW i \in 1 .. c PROVE Byte(i - 1) \in Anything
  <2>1. PICK p \in Nat : p = i - 1
    OBVIOUS
  <2>2. /\ p \div ChunkSize \in Nat
        /\ (p % ChunkSize) + 1 \in 1 .. ChunkSize
    BY ByteInChunk, ChunkAssumption
  <2>3. dmg \in Images /\ store = Encrypted(dmg.bytes)
    BY EFacts DEF VaultCore, VaultShape
  <2> QED BY <2>1, <2>2, <2>3, TextType DEF Byte
<1>3. Contents = [i \in 1 .. c |-> Byte(i - 1)]
  BY <1>1 DEF Contents
<1>4. Contents \in [1 .. c -> Anything]
  BY <1>2, <1>3
<1>5. PICK s \in [1 .. c -> Anything] : s = Contents
  BY <1>4
<1>6. s \in Seq(Anything) /\ Len(s) = c /\ DOMAIN s = 1 .. c
  OBVIOUS
<1> QED BY <1>1, <1>5, <1>6

LEMMA ContentKept ==
  ASSUME EInv, EInv', dmg' = dmg
  PROVE  PlainText = Contents /\ PlainText' = Contents
<1>1. PlainText = Contents
  BY PlainTextIs
<1>2. PlainText' = Contents'
  <2>1. (EInv => PlainText = Contents)'
    BY PlainTextIs, PTL
  <2> QED BY <2>1
<1>3. store' = store
  <2>1. store = Encrypted(dmg.bytes)
    BY DEF EInv, VaultCore, VaultShape
  <2>2. store' = Encrypted(dmg'.bytes)
    BY DEF EInv, VaultCore, VaultShape
  <2> QED BY <2>1, <2>2
<1>4. Contents' = Contents
  BY <1>3, SameStore DEF Contents
<1> QED BY <1>1, <1>2, <1>4

(* Where the file is, what it answered with, and whether it goes on.       *)
FilePos    == IF Underway THEN vcall.from ELSE vault.offset
FileAnswer == IF vcall.op = "done"
              THEN [at |-> vcall.from, want |-> vcall.size, bytes |-> vcall.got]
              ELSE [at |-> 0, want |-> 0, bytes |-> <<>>]
FileStatus == IF vstatus \in {"open", "closed"} THEN "open" ELSE "failed"

FileSame == /\ PlainText' = PlainText /\ FilePos' = FilePos
            /\ FileAnswer' = FileAnswer /\ FileStatus' = FileStatus

LEMMA SameIsStutter ==
  ASSUME FileSame
  PROVE  [Vault!FileNext]_(Vault!byteVars)
<1>1. UNCHANGED Vault!byteVars
  BY DEF FileSame, Vault!byteVars, FilePos, FileAnswer, FileStatus
<1> QED BY <1>1

LEMMA SeekIsSeek ==
  ASSUME PlainText' = PlainText, vstatus \in {"open", "closed"},
         vstatus' \in {"open", "closed"}, vcall'.op # "done", FilePos' \in Nat
  PROVE  Vault!Seek
<1>1. FileStatus = "open" /\ FileStatus' = "open"
  BY DEF FileStatus
<1>2. Vault!Stays
  BY <1>1 DEF Vault!Stays, FileStatus
<1>3. FileAnswer' = [at |-> 0, want |-> 0, bytes |-> <<>>]
  BY DEF FileAnswer
<1> QED BY <1>2, <1>3 DEF Vault!Seek, Vault!None, FilePos, FileAnswer

LEMMA EndIsFail ==
  ASSUME vstatus \in {"open", "closed"}, vstatus' \notin {"open", "closed"}
  PROVE  Vault!Fail
BY DEF Vault!Fail

(* What an operation that is finished has answered with.                   *)
LEMMA AnswerRead ==
  ASSUME EInv, EInv', dmg' = dmg, vcall'.op = "done",
         vstatus = "open", vstatus' = "open"
  PROVE  LET at == vcall'.from
             got == vcall'.got
         IN  /\ at \in Nat /\ Len(got) \in Nat /\ DOMAIN got = 1 .. Len(got)
             /\ at + Len(got) <= Count * ChunkSize
             /\ \A i \in 1 .. Len(got) : got[i] = Contents[at + i]
             /\ got = SubSeq(Contents, at + 1, at + Len(got))
<1> DEFINE at == vcall'.from
           got == vcall'.got
<1>1. VaultCore' /\ dmg' \in Images
  BY EFacts DEF EInv
<1>2. store' = store
  <2>1. store = Encrypted(dmg.bytes)
    BY DEF EInv, VaultCore, VaultShape
  <2>2. store' = Encrypted(dmg'.bytes)
    BY DEF EInv, VaultCore, VaultShape
  <2> QED BY <2>1, <2>2
<1>3. Count' = Count /\ \A p : Byte(p)' = Byte(p)
  BY <1>2, SameStore
<1>4. at \in Nat /\ got \in Seq(Anything)
  BY <1>1 DEF VaultCore, VaultShape, CallRecord
<1>5. /\ at + Len(got) <= Count * ChunkSize
      /\ \A i \in 1 .. Len(got) : got[i] = Byte(at + i - 1)
  BY <1>1, <1>3 DEF VaultCore, Progress
<1> HIDE DEF at, got
<1>6. PICK k \in Nat : k = Len(got) /\ DOMAIN got = 1 .. k
  BY <1>4, LenProperties
<1>7. PICK c \in Nat : c = Count * ChunkSize
  BY EFacts
<1>8. ASSUME NEW i \in 1 .. k PROVE got[i] = Contents[at + i]
  <2>1. at + i \in 1 .. c /\ at + i - 1 = (at + i) - 1
    BY <1>4, <1>5, <1>6, <1>7
  <2>2. Contents[at + i] = Byte((at + i) - 1)
    BY <1>7, <2>1 DEF Contents
  <2> QED BY <1>5, <1>6, <2>1, <2>2
<1>9. got = SubSeq(Contents, at + 1, at + k)
  <2>1. PICK l \in Int, m \in Int : l = at + 1 /\ m = at + k
    BY <1>4
  <2>2. PICK s \in Seq(Anything) : s = Contents /\ Len(s) = c
    BY <1>7, ContentsFacts
  <2>3. \A i \in l .. m : s[i] \in Anything
    <3>1. \A i \in l .. m : i \in 1 .. Len(s)
      BY <1>4, <1>5, <1>6, <1>7, <2>1, <2>2
    <3> QED BY <3>1, ElementOfSeq
  <2>4. /\ SubSeq(s, l, m) \in Seq(Anything)
        /\ Len(SubSeq(s, l, m)) = IF l <= m THEN m - l + 1 ELSE 0
        /\ \A i \in 1 .. m - l + 1 : SubSeq(s, l, m)[i] = s[l + i - 1]
    BY <2>3, SubSeqProperties
  <2>5. m - l + 1 = k
    BY <1>4, <2>1
  <2>6. Len(SubSeq(s, l, m)) = k
    <3>1. CASE l <= m
      BY <2>4, <2>5, <3>1
    <3>2. CASE ~(l <= m)
      BY <2>4, <2>5, <3>2
    <3> QED BY <3>1, <3>2
  <2>7. ASSUME NEW i \in 1 .. k PROVE got[i] = SubSeq(s, l, m)[i]
    <3>1. l + i - 1 = at + i
      BY <1>4, <2>1
    <3> QED BY <1>8, <2>2, <2>4, <2>5, <3>1
  <2>8. got = SubSeq(s, l, m)
    BY <1>4, <1>6, <2>4, <2>6, <2>7, SeqEqual
  <2> QED BY <2>1, <2>2, <2>8
<1> QED BY <1>4, <1>5, <1>6, <1>8, <1>9 DEF at, got

LEMMA ReadTurnIsRead ==
  ASSUME EInv, EInv', dmg' = dmg, ReadTurn
  PROVE  [Vault!FileNext]_(Vault!byteVars)
<1>1. /\ vstatus = "open" /\ vcall.op = "read" /\ vstatus' = "open"
      /\ vcall'.from = vcall.from /\ vcall'.size = vcall.size
      /\ vcall'.op \in {"read", "done"}
      /\ vcall'.op = "done" => /\ Len(vcall'.got) = vcall'.size
                               /\ vault'.offset = vcall'.from + Len(vcall'.got)
  BY EFacts, ReadTurnCore DEF ReadTurn
<1>2. PlainText = Contents /\ PlainText' = Contents
  BY ContentKept
<1>3. CASE vcall'.op = "read"
  <2>1. FileSame
    BY <1>1, <1>2, <1>3 DEF FileSame, FilePos, FileAnswer, FileStatus, Underway
  <2> QED BY <2>1, SameIsStutter
<1>4. CASE vcall'.op = "done"
  <2> DEFINE at == vcall'.from
             got == vcall'.got
             answer == [at |-> at, want |-> vcall'.size, bytes |-> got]
  <2>1. /\ at \in Nat /\ Len(got) \in Nat
        /\ at + Len(got) <= Count * ChunkSize
        /\ got = SubSeq(Contents, at + 1, at + Len(got))
    BY <1>1, <1>4, AnswerRead
  <2>2. Len(Contents) = Count * ChunkSize /\ Count * ChunkSize \in Nat
    BY ContentsFacts, EFacts
  <2>3. FileAnswer' = answer /\ FilePos' = at + Len(got) /\ FilePos = at
        /\ FileStatus = "open" /\ FileStatus' = "open"
    BY <1>1, <1>4 DEF FileAnswer, FilePos, FileStatus, Underway
  <2>4. got = Vault!Due(Contents, at, vcall'.size)
    <3>1. at + vcall'.size <= Len(Contents)
      BY <1>1, <1>4, <2>1, <2>2
    <3>2. Vault!Nearer(at + vcall'.size, Len(Contents)) = at + Len(got)
      BY <1>1, <1>4, <3>1 DEF Vault!Nearer
    <3> QED BY <2>1, <3>2 DEF Vault!Due
  <2> HIDE DEF at, got
  <2>5. Vault!Read
    <3>1. Vault!Stays
      BY <2>3 DEF Vault!Stays, FileStatus
    <3>2. Vault!Answers
      BY <1>2, <2>3, <2>4, <3>1 DEF Vault!Answers, FileAnswer
    <3> QED BY <2>3, <3>2 DEF Vault!Read, Vault!End, FileAnswer, FilePos
  <2> QED BY <2>5 DEF Vault!FileNext
<1> QED BY <1>1, <1>3, <1>4

LEMMA WriteTurnIsWrite ==
  ASSUME EInv, EInv', dmg' = dmg, WriteTurn
  PROVE  [Vault!FileNext]_(Vault!byteVars)
<1>1. /\ vstatus = "open" /\ vcall.op = "write"
      /\ \/ vstatus' = "exited"
         \/ /\ vstatus' = "open" /\ vcall'.from = vcall.from
            /\ vcall'.op \in {"write", "done"}
            /\ vault'.offset = vcall'.from + Len(vcall'.got)
  BY EFacts, WriteTurnCore DEF WriteTurn
<1>2. PlainText = Contents /\ PlainText' = Contents
  BY ContentKept
<1>3. CASE vstatus' = "exited"
  BY <1>1, <1>3, EndIsFail DEF Vault!FileNext
<1>4. CASE vstatus' # "exited" /\ vcall'.op = "write"
  <2>1. FileSame
    BY <1>1, <1>2, <1>4 DEF FileSame, FilePos, FileAnswer, FileStatus, Underway
  <2> QED BY <2>1, SameIsStutter
<1>5. CASE vstatus' # "exited" /\ vcall'.op = "done"
  <2> DEFINE at == vcall'.from
             got == vcall'.got
             answer == [at |-> at, want |-> vcall'.size, bytes |-> got]
  <2>1. /\ at \in Nat /\ Len(got) \in Nat /\ DOMAIN got = 1 .. Len(got)
        /\ at + Len(got) <= Count * ChunkSize
        /\ \A i \in 1 .. Len(got) : got[i] = Contents[at + i]
    BY <1>1, <1>5, AnswerRead
  <2>2. Len(Contents) = Count * ChunkSize /\ Count * ChunkSize \in Nat
    BY ContentsFacts, EFacts
  <2>3. FileAnswer' = answer /\ FilePos' = at + Len(got) /\ FilePos = at
        /\ FileStatus = "open" /\ FileStatus' = "open"
    BY <1>1, <1>5 DEF FileAnswer, FilePos, FileStatus, Underway
  <2> HIDE DEF at, got
  <2>4. Vault!Write
    <3>1. Vault!Stays
      BY <2>3 DEF Vault!Stays, FileStatus
    <3>2. Vault!End(FileAnswer)' = at + Len(got)
      BY <2>3 DEF Vault!End
    <3>3. Len(PlainText') >= Len(PlainText) /\ Vault!End(FileAnswer)' <= Len(PlainText')
      BY <1>2, <2>1, <2>2, <3>2
    <3>4. \A i \in DOMAIN FileAnswer'.bytes :
            PlainText'[FileAnswer'.at + i] = FileAnswer'.bytes[i]
      BY <1>2, <2>1, <2>3
    <3>5. \A i \in DOMAIN PlainText : PlainText'[i] = PlainText[i]
      BY <1>2
    <3> QED BY <2>3, <3>1, <3>2, <3>3, <3>4, <3>5
            DEF Vault!Write, Vault!End, FileAnswer, FilePos
  <2> QED BY <2>4 DEF Vault!FileNext
<1> QED BY <1>1, <1>3, <1>4, <1>5

LEMMA VaultUseIsSeek ==
  ASSUME EInv, EInv', dmg' = dmg,
         \/ OpenVault \/ VaultClose
         \/ \E o : VaultSeek(o)
         \/ \E n : VaultRead(n)
         \/ \E s : VaultWrite(s)
  PROVE  [Vault!FileNext]_(Vault!byteVars)
<1>1. PlainText' = PlainText
  BY ContentKept
<1>2. vault.offset \in Nat /\ vault'.offset \in Nat /\ vcall'.from \in Nat
  BY DEF EInv, VaultCore, VaultShape, VaultRecord, CallRecord
<1>3. FilePos' \in Nat
  BY <1>2 DEF FilePos
<1>4. vstatus \in {"open", "closed"} /\ vcall'.op # "done"
  <2>1. CASE OpenVault
    BY <2>1 DEF OpenVault, Idle
  <2>2. CASE VaultClose
    BY <2>2 DEF VaultClose, Ready, Idle
  <2>3. ASSUME NEW o, VaultSeek(o) \/ VaultRead(o) \/ VaultWrite(o)
        PROVE  vstatus \in {"open", "closed"} /\ vcall'.op # "done"
    <3>1. vstatus = "open"
      BY <2>3 DEF VaultSeek, VaultRead, VaultWrite, Ready
    <3>2. CASE VaultSeek(o)
      BY <3>1, <3>2 DEF VaultSeek, Idle
    <3>3. CASE VaultRead(o)
      BY <3>1, <3>3 DEF VaultRead, Idle
    <3>4. CASE VaultWrite(o)
      BY <3>1, <3>4 DEF VaultWrite, Idle
    <3> QED BY <2>3, <3>2, <3>3, <3>4
  <2> QED BY <2>1, <2>2, <2>3
<1>5. CASE vstatus' \in {"open", "closed"}
  BY <1>1, <1>3, <1>4, <1>5, SeekIsSeek DEF Vault!FileNext
<1>6. CASE vstatus' \notin {"open", "closed"}
  BY <1>4, <1>6, EndIsFail DEF Vault!FileNext
<1> QED BY <1>5, <1>6

LEMMA NoVaultIsStutter ==
  ASSUME EInv, EInv', dmg' = dmg, UNCHANGED vaultVars
  PROVE  [Vault!FileNext]_(Vault!byteVars)
<1>1. FileSame
  BY ContentKept DEF FileSame, FilePos, FileAnswer, FileStatus, Underway, vaultVars
<1> QED BY <1>1, SameIsStutter

LEMMA ImageKept ==
  ASSUME [ImageNext]_vars
  PROVE  dmg' = dmg
<1>1. CASE UNCHANGED vars
  BY <1>1 DEF vars
<1>2. CASE OpenImage \/ CloseImage
  BY <1>2 DEF OpenImage, CloseImage, Reader, Open, Close
<1>3. CASE Work
  BY <1>3 DEF Work, PlainFetch, FetchKeyed, VaultStep, Reader, Turn, Look, Copy,
              ReadFirstEntry, ReadMap, Select, Continue, Undefined, Choose, Fetch,
              Arrive, AskPlace, AskBytes, NeedNot, Deliver, readerVars
<1>4. CASE Reader(TRUE) /\ Reads
  BY <1>4 DEF Reads, Read
<1>5. CASE Unlock \/ DirectUse
  BY <1>5 DEF Unlock, DirectUse, Direct, readerVars
<1> QED BY <1>1, <1>2, <1>3, <1>4, <1>5 DEF ImageNext

LEMMA NextIsFileNext ==
  ASSUME EInv, EInv', [ImageNext]_vars
  PROVE  [Vault!FileNext]_(Vault!byteVars)
<1>1. dmg' = dmg
  BY ImageKept
<1>2. CASE UNCHANGED vaultVars
  BY <1>1, <1>2, NoVaultIsStutter
<1>3. CASE VaultStep
  BY <1>1, <1>3, ReadTurnIsRead, WriteTurnIsWrite DEF VaultStep, VaultTurn
<1>4. CASE AskPlace \/ AskBytes \/ CloseImage \/ Unlock \/ DirectUse
  <2>1. \/ UNCHANGED vaultVars
        \/ OpenVault \/ VaultClose
        \/ \E o : VaultSeek(o)
        \/ \E n : VaultRead(n)
        \/ \E s : VaultWrite(s)
    BY <1>4 DEF AskPlace, AskBytes, CloseImage, Unlock, DirectUse, Direct, Reader
  <2> QED BY <1>1, <1>2, <2>1, VaultUseIsSeek
<1>5. CASE UNCHANGED vars
  <2>1. UNCHANGED vaultVars
    BY <1>5 DEF vars, vaultVars
  <2> QED BY <1>2, <2>1
<1>6. CASE OpenImage \/ PlainFetch \/ NeedNot \/ Deliver
  <2>1. UNCHANGED vaultVars
    BY <1>6 DEF OpenImage, PlainFetch, NeedNot, Deliver, Reader
  <2> QED BY <1>2, <2>1
<1>7. CASE \/ Reader(TRUE) /\ (Turn \/ ReadFirstEntry \/ ReadMap \/ Select)
           \/ Reader(TRUE) /\ Reads
  <2>1. UNCHANGED vaultVars
    BY <1>7 DEF Reader
  <2> QED BY <1>2, <2>1
<1> QED BY <1>3, <1>4, <1>5, <1>6, <1>7 DEF ImageNext, Work, FetchKeyed

LEMMA InitIsFileInit == ASSUME ImageInit PROVE Vault!FileInit
BY DEF ImageInit, Vault!FileInit, Vault!None, Underway, Idle

(* filevault.c:94-158: whatever its chunks are and whoever uses it, an     *)
(* encrypted file reads, writes and seeks as a file of bytes does, with a  *)
(* read of many chunks as one step, and what it holds is never changed.    *)
THEOREM VaultImplementsByteFile == ImageSpec => VaultIsByteFile
<1>1. ImageInit => Vault!FileInit
  BY InitIsFileInit
<1>2. EInv /\ EInv' /\ [ImageNext]_vars => [Vault!FileNext]_(Vault!byteVars)
  BY NextIsFileNext
<1> QED BY <1>1, <1>2, InvarianceE, PTL
        DEF ImageSpec, VaultIsByteFile, Vault!FileSpec
=============================================================================
