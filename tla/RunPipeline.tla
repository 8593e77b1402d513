---------------------------- MODULE RunPipeline ----------------------------
(***************************************************************************)
(* insertBLKX of dmg/io.c: ncpu + 2 worker threads turn an input file into *)
(* the runs of one BLKX table.  Each thread loops blockRead (under inMut), *)
(* blockCompress (no lock), blockQueueAndWrite (under outMut).  A run may  *)
(* be finished before its predecessor, so it waits in the ordered list     *)
(* `pending` until nextPending reaches its index.  The module also holds   *)
(* what the sentinel attribution hooks of dmg/attribution.c do with every  *)
(* run, since they run inside the two critical sections.                   *)
(*                                                                         *)
(* Bytes are abstracted to units, SectorUnits of them in a 512-byte        *)
(* sector.  The contents of a buffer are the interval <<lo, have>> of the  *)
(* input it was read from; a critical section is split wherever the code   *)
(* inside it reads, then writes, shared state, so that the two mutexes are *)
(* what makes it atomic.                                                   *)
(***************************************************************************)
EXTENDS Integers, Sequences

CONSTANTS
  Threads,         \* the worker threads
  NoThread,        \* an unlocked mutex
  SectorUnits,     \* units in a sector
  RunSectors,      \* the runSectors argument
  RawSlack,        \* the 15 of blockCompress
  CompressedSizes, \* what comp->compress may return as the size of a run
  OutStart,        \* out->tell when insertBLKX is called
  SentinelLen,     \* length of the attribution sentinel
  Jobs,            \* the calls considered, see JobType
  MayFail          \* may an external call (malloc, compress, write) fail?

READ_UNTIL_EOF == -1

(* len: units readable from `in`; eof: in->eof holds there (else the read  *)
(* failed); bytes: the bytes argument; marks: where the sentinel starts.   *)
JobType == [len : Nat, eof : BOOLEAN, bytes : Nat \cup {READ_UNTIL_EOF},
            attribution : BOOLEAN, marks : SUBSET Nat]

ASSUME ThreadsAssumption == Threads # {} /\ NoThread \notin Threads
ASSUME UnitsAssumption == /\ SectorUnits \in Nat \ {0}
                          /\ RunSectors \in Nat \ {0}
                          /\ RawSlack \in Nat
                          /\ OutStart \in Nat
                          /\ SentinelLen \in Nat \ {0}
                          /\ MayFail \in BOOLEAN
(* dmg.c refuses runs of less than 512 sectors; the sentinel is one word   *)
(* of the command line.                                                    *)
ASSUME SentinelAssumption == SentinelLen <= RunSectors * SectorUnits
ASSUME SizesAssumption == CompressedSizes \subseteq Nat \ {0}
ASSUME JobsAssumption == Jobs \subseteq JobType

RunUnits == RunSectors * SectorUnits

VARIABLES
  job,         \* the arguments of this call; never changes
  pc,          \* where each worker stands
  blk,         \* the block each worker holds
  inMut,       \* owner of inMut
  inPos,       \* how far `in` has been read
  nextIn,      \* nextInBuffer and nextInSize, the read-ahead
  bytesRemain,
  curRun,
  curSector,
  keepRaw,     \* the ShouldKeepRaw automaton
  outMut,      \* owner of outMut
  pending,     \* finished blocks, waiting in index order
  nextPending, \* index of the next run to be written
  roomForRuns, \* runs the table has memory for
  runs,        \* blkx->runs
  out,         \* what has been written to `out`, in order
  att,         \* lengths kept by the attribution hooks, -1: not yet seen
  phase        \* of the calling thread: joining, finished; or exit(1)

inVars  == <<inMut, inPos, nextIn, bytesRemain, curRun, curSector, keepRaw>>
outVars == <<outMut, pending, nextPending, roomForRuns, runs, out, att>>
vars    == <<job, pc, blk, inVars, outVars, phase>>

Running == phase = "joining"

At(t, label)     == Running /\ pc[t] = label
Goto(t, label)   == pc' = [pc EXCEPT ![t] = label]

NoBlock == [idx |-> -1]

-----------------------------------------------------------------------------
(* The reader's side.                                                      *)

untilEOF == bytesRemain = READ_UNTIL_EOF

NextReadSize(remain) ==
  IF remain = READ_UNTIL_EOF \/ remain >= RunUnits THEN RunUnits ELSE remain

MinOf(a, b) == IF a <= b THEN a ELSE b

(* readNext: a file returns what it has, so a short read means its end.    *)
ReadNext(remain, pos) ==
  [lo |-> pos, size |-> MinOf(NextReadSize(remain), job.len - pos)]

(* Variant: a partial sector is dropped.                                   *)
WholeSectorsOf(units) == units \div SectorUnits

(* divceil by the sector size.                                             *)
SectorsOf(units) ==
  (units \div SectorUnits) + (IF units % SectorUnits # 0 THEN 1 ELSE 0)

Remaining(have) == IF untilEOF THEN bytesRemain ELSE bytesRemain - have

(* FindStrInBuf over units lo .. hi-1.                                     *)
FindSentinel(lo, hi) == \E m \in job.marks : lo <= m /\ m + SentinelLen <= hi

(* Variant: only the current buffer is searched.                           *)
ShouldKeepRawNoSpan(b, next) ==
  IF FindSentinel(b.lo, b.lo + b.have) THEN "KeepCurrentRaw" ELSE "KeepNoneRaw"

(* sentinelShouldKeepRaw.  The second search covers both buffers, so it    *)
(* also answers KeepCurrentAndNextRaw for a sentinel that lies entirely in *)
(* the next one.                                                           *)
ShouldKeepRaw(b, next) ==
  IF FindSentinel(b.lo, b.lo + b.have) THEN "KeepCurrentRaw"
  ELSE IF next.size > 0 /\ FindSentinel(b.lo, next.lo + next.size)
       THEN "KeepCurrentAndNextRaw"
       ELSE "KeepNoneRaw"

(* Variant: the search resumes after the raw run, as io.c:160 announces.   *)
KeepRawResuming(b, next) ==
  CASE keepRaw = "KeepNoneRaw"           -> ShouldKeepRaw(b, next)
    [] keepRaw = "KeepCurrentAndNextRaw" -> "KeepCurrentRaw"
    [] keepRaw = "KeepCurrentRaw"        -> ShouldKeepRaw(b, next)
    [] keepRaw = "KeepRemainingRaw"      -> "KeepRemainingRaw"

(* The transition blockRead makes for every block it hands out.            *)
KeepRawAfter(b, next) ==
  CASE keepRaw = "KeepNoneRaw"           -> ShouldKeepRaw(b, next)
    [] keepRaw = "KeepCurrentAndNextRaw" -> "KeepCurrentRaw"
    [] keepRaw = "KeepCurrentRaw"        -> "KeepRemainingRaw"
    [] keepRaw = "KeepRemainingRaw"      -> "KeepRemainingRaw"

-----------------------------------------------------------------------------
(* The writer's side.                                                      *)

InSize(b) == b.count * SectorUnits

(* `outsize / 512 >= sectorCount - 15` in unsigned arithmetic: for a run   *)
(* shorter than the slack the right side wraps and no size reaches it.     *)
NoGain(size, count) == /\ count >= RawSlack
                       /\ size \div SectorUnits >= count - RawSlack

(* blockQueue: walk while the list holds smaller indices, link in there.   *)
InsertionPoint(idx) ==
  CHOOSE k \in 0 .. Len(pending) :
    /\ \A i \in 1 .. k : pending[i].idx < idx
    /\ k < Len(pending) => pending[k + 1].idx >= idx

Queued(b) ==
  LET k == InsertionPoint(b.idx)
  IN  [i \in 1 .. Len(pending) + 1 |->
         IF i <= k THEN pending[i] ELSE IF i = k + 1 THEN b ELSE pending[i - 1]]

OutPos == IF out = <<>> THEN OutStart
          ELSE LET last == out[Len(out)] IN last.off + last.size

(* Variant: the boundary run finds no room.                                *)
RoomTooLate(idx) == IF idx > roomForRuns THEN 2 * roomForRuns ELSE roomForRuns

RoomFor(idx) == IF idx >= roomForRuns THEN 2 * roomForRuns ELSE roomForRuns

RunOf(b) == [start |-> b.start, count |-> b.count, raw |-> b.raw,
             off |-> OutPos, size |-> b.size]

(* Variant: a second raw run replaces the first.                           *)
ObservedLast(b) ==
  CASE b.keep -> [att EXCEPT !.rawU = InSize(b), !.rawC = b.size,
                             !.afterU = 0, !.afterC = 0]
    [] ~b.keep /\ att.afterU < 0 ->
         [att EXCEPT !.beforeU = @ + InSize(b), !.beforeC = @ + b.size]
    [] ~b.keep /\ att.afterU >= 0 ->
         [att EXCEPT !.afterU = @ + InSize(b), !.afterC = @ + b.size]

(* sentinelObserveBuffers, lengths only: the checksums it extends cover    *)
(* exactly the bytes it counts.                                            *)
Observed(b) ==
  CASE b.keep /\ att.afterU < 0 ->
         [att EXCEPT !.rawU = InSize(b), !.rawC = b.size,
                     !.afterU = 0, !.afterC = 0]
    [] b.keep /\ att.afterU >= 0 ->
         [att EXCEPT !.rawU = @ + InSize(b), !.rawC = @ + b.size]
    [] ~b.keep /\ att.afterU < 0 ->
         [att EXCEPT !.beforeU = @ + InSize(b), !.beforeC = @ + b.size]
    [] ~b.keep /\ att.afterU >= 0 ->
         [att EXCEPT !.afterU = @ + InSize(b), !.afterC = @ + b.size]

(* sentinelAfterMainBlkx: what was never seen has length 0.                *)
Settled(a) ==
  LET seen(n) == IF n < 0 THEN 0 ELSE n
  IN  [a EXCEPT !.rawU = seen(@), !.rawC = seen(@),
                !.afterU = seen(@), !.afterC = seen(@)]

-----------------------------------------------------------------------------
Init ==
  /\ job \in Jobs
  /\ pc = [t \in Threads |-> "loop"]
  /\ blk = [t \in Threads |-> NoBlock]
  /\ inMut = NoThread /\ outMut = NoThread
  /\ bytesRemain = job.bytes
  /\ nextIn = ReadNext(job.bytes, 0)       \* "Pre-read the first block"
  /\ inPos = nextIn.size
  /\ curRun = 0 /\ curSector = 0 /\ keepRaw = "KeepNoneRaw"
  /\ pending = <<>> /\ nextPending = 0
  /\ roomForRuns = 2 /\ runs = <<>> /\ out = <<>>
  /\ att = [beforeU |-> 0, beforeC |-> OutStart,
            rawU |-> -1, rawC |-> -1, afterU |-> -1, afterC |-> -1]
  /\ phase = "joining"

(* blockRead locks inMut.                                                  *)
LockIn(t) ==
  /\ At(t, "loop")
  /\ inMut = NoThread
  /\ inMut' = t
  /\ Goto(t, "take")
  /\ UNCHANGED <<job, blk, inPos, nextIn, bytesRemain, curRun, curSector,
                 keepRaw, outVars, phase>>

(* Variant: the early return forgets to unlock.                            *)
LeaveLocked(t) ==
  /\ At(t, "take")
  /\ NextReadSize(bytesRemain) = 0 \/ (nextIn.size = 0 /\ untilEOF /\ job.eof)
  /\ Goto(t, "done")
  /\ UNCHANGED <<job, blk, inVars, outVars, phase>>

(* blockRead has nothing left to hand out: the thread leaves its loop.     *)
Leave(t) ==
  LET want == NextReadSize(bytesRemain)
  IN  /\ At(t, "take")
      /\ \/ want = 0
         \/ nextIn.size = 0 /\ untilEOF /\ job.eof
      /\ inMut' = NoThread
      /\ Goto(t, "done")
      /\ UNCHANGED <<job, blk, inPos, nextIn, bytesRemain, curRun, curSector,
                     keepRaw, outVars, phase>>

(* "couldn't read full block": the process exits with the lock held.       *)
ShortRead(t) ==
  /\ At(t, "take")
  /\ nextIn.size # NextReadSize(bytesRemain)
  /\ ~(untilEOF /\ job.eof)
  /\ phase' = "exited"
  /\ UNCHANGED <<job, pc, blk, inVars, outVars>>

(* blockRead hands out the read-ahead and counts it.                       *)
TakeBlock(t) ==
  LET have  == nextIn.size
      want  == NextReadSize(bytesRemain)
      count == SectorsOf(have)
  IN  /\ At(t, "take")
      /\ want # 0
      /\ have = want \/ (untilEOF /\ job.eof /\ have # 0)
      /\ blk' = [blk EXCEPT ![t] =
                   [idx |-> curRun, start |-> curSector, count |-> count,
                    lo |-> nextIn.lo, have |-> have, keep |-> FALSE,
                    raw |-> FALSE, size |-> 0]]
      /\ curSector' = curSector + count
      /\ bytesRemain' = Remaining(have)
      /\ curRun' = curRun + 1
      /\ Goto(t, "ahead")
      /\ UNCHANGED <<job, inMut, inPos, nextIn, keepRaw, outVars, phase>>

(* blockRead refills the read-ahead, lets the attribution look at both     *)
(* buffers, and unlocks.                                                   *)
ReadAhead(t) ==
  LET next == ReadNext(bytesRemain, inPos)
      k    == IF job.attribution THEN KeepRawAfter(blk[t], next) ELSE keepRaw
  IN  /\ At(t, "ahead")
      /\ nextIn' = next
      /\ inPos' = inPos + next.size
      /\ keepRaw' = k
      /\ blk' = [blk EXCEPT ![t] =
                   [@ EXCEPT !.keep =
                      k \in {"KeepCurrentRaw", "KeepCurrentAndNextRaw"}]]
      /\ inMut' = NoThread
      /\ Goto(t, "compress")
      /\ UNCHANGED <<job, bytesRemain, curRun, curSector, outVars, phase>>

(* blockCompress: a block the attribution wants raw, or that compression   *)
(* does not shorten enough, is stored as it is.                            *)
Compress(t) ==
  LET b == blk[t]
  IN  /\ At(t, "compress")
      /\ \E size \in CompressedSizes :
           LET raw == b.keep \/ NoGain(size, b.count)
           IN  blk' = [blk EXCEPT ![t] =
                         [b EXCEPT !.raw = raw,
                                   !.size = IF raw THEN InSize(b) ELSE size]]
      /\ Goto(t, "queue")
      /\ UNCHANGED <<job, inVars, outVars, phase>>

(* blockQueueAndWrite locks outMut and links its block into the list.      *)
LockOutAndQueue(t) ==
  /\ At(t, "queue")
  /\ outMut = NoThread
  /\ outMut' = t
  /\ pending' = Queued(blk[t])
  /\ blk' = [blk EXCEPT ![t] = NoBlock]
  /\ Goto(t, "write")
  /\ UNCHANGED <<job, inVars, nextPending, roomForRuns, runs, out, att, phase>>

HeadIsNext == pending # <<>> /\ pending[1].idx = nextPending

(* blockWrite of the list's head: attribution, output, run table.          *)
WriteBlock(t) ==
  LET b == pending[1]
  IN  /\ At(t, "write")
      /\ HeadIsNext
      /\ att' = IF job.attribution THEN Observed(b) ELSE att
      /\ out' = Append(out, [idx |-> b.idx, lo |-> b.lo, have |-> b.have,
                             keep |-> b.keep, off |-> OutPos, size |-> b.size])
      /\ roomForRuns' = RoomFor(b.idx)
      /\ runs' = [i \in (DOMAIN runs) \cup {b.idx} |->
                    IF i = b.idx THEN RunOf(b) ELSE runs[i]]
      /\ Goto(t, "advance")
      /\ UNCHANGED <<job, blk, inVars, outMut, pending, nextPending, phase>>

(* Variant: blockWriteAll writes one block per call.                       *)
AdvanceOnce(t) ==
  /\ At(t, "advance")
  /\ nextPending' = nextPending + 1
  /\ pending' = Tail(pending)
  /\ outMut' = NoThread
  /\ Goto(t, "loop")
  /\ UNCHANGED <<job, blk, inVars, roomForRuns, runs, out, att, phase>>

(* The rest of the iteration of blockWriteAll.                             *)
Advance(t) ==
  /\ At(t, "advance")
  /\ nextPending' = nextPending + 1
  /\ pending' = Tail(pending)
  /\ Goto(t, "write")
  /\ UNCHANGED <<job, blk, inVars, outMut, roomForRuns, runs, out, att, phase>>

(* blockWriteAll has nothing more to write.                                *)
UnlockOut(t) ==
  /\ At(t, "write")
  /\ ~HeadIsNext
  /\ outMut' = NoThread
  /\ Goto(t, "loop")
  /\ UNCHANGED <<job, blk, inVars, pending, nextPending, roomForRuns, runs,
                 out, att, phase>>

(* An ASSERT around malloc, pthread_*, compress or out->write fails.       *)
ExternalFailure(t) ==
  /\ MayFail
  /\ Running /\ pc[t] \in {"take", "compress", "write"}
  /\ phase' = "exited"
  /\ UNCHANGED <<job, pc, blk, inVars, outVars>>

Worker(t) == \/ LockIn(t) \/ Leave(t) \/ ShortRead(t) \/ TakeBlock(t)
             \/ ReadAhead(t) \/ Compress(t) \/ LockOutAndQueue(t)
             \/ WriteBlock(t) \/ Advance(t) \/ UnlockOut(t)

(* The caller has joined every thread: the terminator, then afterMainBlkx. *)
Finish ==
  /\ Running
  /\ \A t \in Threads : pc[t] = "done"
  /\ roomForRuns' = RoomFor(curRun)
  /\ runs' = [i \in (DOMAIN runs) \cup {curRun} |->
                IF i = curRun
                THEN [start |-> curSector, count |-> 0, raw |-> FALSE,
                      off |-> OutPos, size |-> 0]
                ELSE runs[i]]
  /\ att' = IF job.attribution THEN Settled(att) ELSE att
  /\ phase' = "finished"
  /\ UNCHANGED <<job, pc, blk, inVars, outMut, pending, nextPending, out>>

(* The call has returned or the process is gone.                           *)
Over == ~Running /\ UNCHANGED vars

Next == \/ \E t \in Threads : Worker(t) \/ ExternalFailure(t)
        \/ Finish
        \/ Over

Spec == Init /\ [][Next]_vars

(* The kernel keeps scheduling runnable threads.  Nothing is assumed of    *)
(* who gets a contended mutex.                                             *)
FairSpec == Spec /\ WF_vars(Finish) /\ \A t \in Threads : WF_vars(Worker(t))

-----------------------------------------------------------------------------
(* Properties.                                                             *)

BlockType == [idx : Nat, start : Nat, count : Nat, lo : Nat, have : Nat,
              keep : BOOLEAN, raw : BOOLEAN, size : Nat]

Labels == {"loop", "take", "ahead", "compress", "queue", "write", "advance",
           "done"}

KeepModes == {"KeepNoneRaw", "KeepCurrentRaw", "KeepCurrentAndNextRaw",
              "KeepRemainingRaw"}

(* Every variable has its type, and bytesRemain never runs below zero      *)
(* unless it is the READ_UNTIL_EOF mark.                                   *)
TypeOK ==
  /\ job \in Jobs
  /\ pc \in [Threads -> Labels]
  /\ blk \in [Threads -> BlockType \cup {NoBlock}]
  /\ inMut \in Threads \cup {NoThread}
  /\ outMut \in Threads \cup {NoThread}
  /\ inPos \in Nat
  /\ nextIn \in [lo : Nat, size : Nat]
  /\ bytesRemain \in Nat \cup {READ_UNTIL_EOF}
  /\ curRun \in Nat
  /\ curSector \in Nat
  /\ keepRaw \in KeepModes
  /\ pending \in Seq(BlockType)
  /\ nextPending \in Nat
  /\ roomForRuns \in Nat
  /\ DOMAIN runs \subseteq Nat
  /\ out \in Seq([idx : Nat, lo : Nat, have : Nat, keep : BOOLEAN,
                  off : Nat, size : Nat])
  /\ att \in [beforeU : Nat, beforeC : Nat, rawU : Int, rawC : Int,
              afterU : Int, afterC : Int]
  /\ phase \in {"joining", "finished", "exited"}

Holds(t) == pc[t] \in {"ahead", "compress", "queue"}

(* Run i is with thread t; run i waits in the list at position k.          *)
HeldBy(i, t)    == Holds(t) /\ blk[t].idx = i
QueuedAt(i, k)  == pending[k].idx = i

(* Between blockRead and blockWrite every run has exactly one owner, a     *)
(* thread or the pending list, and no other run has one: whatever the      *)
(* threads' order, no run is dropped and none is written twice.            *)
OneOwner ==
  /\ \A t \in Threads : Holds(t) => blk[t].idx \in nextPending .. curRun - 1
  /\ \A k \in DOMAIN pending : pending[k].idx \in nextPending .. curRun - 1
  /\ \A i \in nextPending .. curRun - 1 :
       \/ /\ \E t \in Threads : HeldBy(i, t)
          /\ \A k \in DOMAIN pending : ~QueuedAt(i, k)
       \/ \E k \in DOMAIN pending : QueuedAt(i, k)
  /\ \A t, u \in Threads :
       Holds(t) /\ Holds(u) /\ blk[t].idx = blk[u].idx => t = u
  /\ \A k, l \in DOMAIN pending : pending[k].idx = pending[l].idx => k = l
  /\ \A t \in Threads, k \in DOMAIN pending :
       Holds(t) => blk[t].idx # pending[k].idx

(* What reaches the file is a gap-free prefix of the runs in index order,  *)
(* and each starts where its predecessor ended, in the input and in the    *)
(* file.  The checksums are extended in the same order.                    *)
OutputInOrder ==
  \A i \in DOMAIN out :
    /\ out[i].idx = i - 1
    /\ IF i = 1 THEN out[i].lo = 0 /\ out[i].off = OutStart
       ELSE /\ out[i].lo = out[i - 1].lo + out[i - 1].have
            /\ out[i].off = out[i - 1].off + out[i - 1].size

(* The run table is never written beyond the memory it has: doubling once  *)
(* per run is enough only because runs arrive without gaps.                *)
RunTableFits == \A i \in DOMAIN runs : i < roomForRuns

(* What the caller asked for; a read that fails leaves part of it unread.  *)
Total == IF job.bytes # READ_UNTIL_EOF THEN job.bytes
         ELSE IF job.eof THEN job.len ELSE job.len + RunUnits

(* extractBLKX reads `size` units at `off` and stores them from `start`    *)
(* on: the units of the input that unit u of the extracted file gets, -1   *)
(* for the zeros that pad the last sector.                                 *)
ExtractedAt(u) ==
  {LET r == runs[i]
       c == CHOOSE c \in {out[k] : k \in DOMAIN out} :
                     c.off = r.off /\ c.size = r.size
       d == u - r.start * SectorUnits
   IN  IF d < c.have THEN c.lo + d ELSE -1 :
     i \in {j \in DOMAIN runs :
              /\ runs[j].start * SectorUnits <= u
              /\ u < (runs[j].start + runs[j].count) * SectorUnits}}

(* extractBLKX undoes insertBLKX: in a finished table every unit asked for *)
(* is covered by exactly one run, and extracting that run restores it.     *)
RoundTrip ==
  phase = "finished" =>
    /\ Total \in (curSector - 1) * SectorUnits + 1 .. curSector * SectorUnits
    /\ runs[curRun].start = curSector
    /\ DOMAIN runs = 0 .. curRun
    /\ \A u \in 0 .. curSector * SectorUnits - 1 :
         ExtractedAt(u) = {IF u < Total THEN u ELSE -1}

(* The three lengths of the attribution record split the file at the raw   *)
(* runs: before + raw + after is all that was written, the raw part starts *)
(* at the first raw run and is exactly the raw runs, adjacent.             *)
AttributionSplit ==
  job.attribution =>
    LET kept  == {i \in DOMAIN out : out[i].keep}
        first == CHOOSE i \in kept : \A j \in kept : i <= j
        last  == CHOOSE i \in kept : \A j \in kept : j <= i
    IN  /\ \A i, j \in kept : i - j <= 1
        /\ kept = {} =>
             /\ att.beforeC = OutPos
             /\ att.rawC = (IF phase = "finished" THEN 0 ELSE -1)
        /\ kept # {} =>
             /\ att.beforeC = out[first].off
             /\ att.rawC = out[last].off + out[last].size - out[first].off
             /\ att.beforeC + att.rawC + att.afterC = OutPos

(* The sentinel survives uncompressed: if the converted input holds it,    *)
(* the raw part of the finished file contains one whole copy.              *)
SentinelStaysRaw ==
  phase = "finished" /\ job.attribution =>
    LET raw == UNION {out[i].lo .. out[i].lo + out[i].have - 1 :
                        i \in {j \in DOMAIN out : out[j].keep}}
        whole == {m \in job.marks : m + SentinelLen <= Total}
    IN  whole # {} => \E m \in whole : m .. m + SentinelLen - 1 \subseteq raw

(* A run table entry, once written, is final.                              *)
RunsAreFinal ==
  [][\A i \in DOMAIN runs : i \in DOMAIN runs' /\ runs'[i] = runs[i]]_vars

(* pthread_join returns for every thread, unless the process exits.        *)
Terminates == <>(phase \in {"finished", "exited"})

(* The threads implement the sequential writer.                            *)
Image == INSTANCE SequentialImage WITH
  input  <- [total |-> Total, avail |-> MinOf(job.len, Total),
             marks |-> IF job.attribution THEN job.marks ELSE {}],
  image  <- [i \in DOMAIN out |-> [lo |-> out[i].lo, have |-> out[i].have,
                                   keep |-> out[i].keep]],
  status <- CASE phase = "joining"  -> "open"
              [] phase = "finished" -> "closed"
              [] phase = "exited"   -> "failed"

ImplementsSequentialImage == Image!ImageSpec

-----------------------------------------------------------------------------
(* The inductive invariant behind OneOwner, OutputInOrder and              *)
(* RunTableFits.                                                           *)

InLabels  == {"take", "ahead"}
OutLabels == {"write", "advance"}

(* A mutex is owned by the thread inside its critical section.             *)
LockInv == /\ \A t \in Threads : pc[t] \in InLabels <=> inMut = t
           /\ \A t \in Threads : pc[t] \in OutLabels <=> outMut = t

(* A thread refills the read-ahead; a thread has written the head of the   *)
(* list and has yet to unlink it.                                          *)
Refilling == \E t \in Threads : pc[t] = "ahead"
Unlinking == \E t \in Threads : pc[t] = "advance"

HolderInv ==
  \A t \in Threads :
    /\ Holds(t) => blk[t] \in BlockType
    /\ pc[t] = "ahead" => blk[t].idx = curRun - 1

(* Nothing more can be read: every block to come is empty.                 *)
Dry == IF Refilling THEN ReadNext(bytesRemain, inPos).size = 0
                    ELSE nextIn.size = 0

ReadInv ==
  /\ inPos = nextIn.lo + nextIn.size /\ inPos <= job.len
  /\ nextIn.size <= RunUnits
  /\ Refilling => /\ curRun >= 1
                  /\ nextIn.lo = (curRun - 1) * RunUnits
                  /\ nextIn.size = RunUnits \/ Dry
  /\ ~Refilling => /\ nextIn.size = ReadNext(bytesRemain, nextIn.lo).size
                   /\ nextIn.size = 0 \/ nextIn.lo = curRun * RunUnits

(* A block is the slice of the input its index names, and only the last    *)
(* one is shorter than a run.                                              *)
Slice(b) == /\ b.lo = b.idx * RunUnits
            /\ b.have = RunUnits \/ (b.idx = curRun - 1 /\ Dry)

SliceInv == /\ \A t \in Threads : Holds(t) => Slice(blk[t])
            /\ \A k \in DOMAIN pending : Slice(pending[k])
            /\ \A i \in DOMAIN out : Slice(out[i])

WriteInv ==
  /\ Unlinking => /\ Len(out) = nextPending + 1
                  /\ HeadIsNext
  /\ ~Unlinking => Len(out) = nextPending
  /\ nextPending <= curRun
  /\ outMut = NoThread => ~HeadIsNext
  /\ \A k, l \in DOMAIN pending : k < l => pending[k].idx < pending[l].idx

TableInv ==
  /\ roomForRuns >= 2
  /\ Len(out) <= roomForRuns
  /\ phase # "finished" => DOMAIN runs = 0 .. Len(out) - 1
  /\ phase = "finished" => /\ DOMAIN runs = 0 .. curRun
                           /\ curRun < roomForRuns
                           /\ \A t \in Threads : pc[t] = "done"

IndInv == /\ TypeOK /\ LockInv /\ HolderInv /\ ReadInv /\ WriteInv /\ TableInv
          /\ OneOwner /\ SliceInv /\ OutputInOrder

(* The inductive invariant behind the refinement, RoundTrip,               *)
(* SentinelStaysRaw and AttributionSplit.                                  *)

(* How much of the input the blocks handed out so far cover.               *)
Handed == MinOf(curRun * RunUnits, Total)

(* What is left to read is what was asked for less what was handed out,    *)
(* and a thread leaves its loop only when nothing is.                      *)
InputInv ==
  /\ untilEOF <=> job.bytes = READ_UNTIL_EOF
  /\ ~untilEOF => bytesRemain = Total - Handed
  /\ IF Refilling THEN inPos = Handed ELSE nextIn.lo = Handed
  /\ (\E t \in Threads : pc[t] = "done") =>
       /\ ~Refilling
       /\ bytesRemain = 0 \/ (untilEOF /\ job.eof /\ nextIn.size = 0)

(* keepRaw tells where the first sight of the sentinel lies, relative to   *)
(* the runs the attribution has looked at.                                 *)
VerdictInv ==
  LET seen == IF Refilling THEN curRun - 1 ELSE curRun
  IN  /\ keepRaw = "KeepNoneRaw" =>
           \A i \in 0 .. seen - 1 : ~Image!Within(i, 2)
      /\ keepRaw = "KeepCurrentAndNextRaw" =>
           seen >= 1 /\ Image!FirstSight(seen - 1) /\ ~Image!Within(seen - 1, 1)
      /\ keepRaw = "KeepCurrentRaw" =>
           \/ seen >= 1 /\ Image!FirstSight(seen - 1) /\ Image!Within(seen - 1, 1)
           \/ seen >= 2 /\ Image!FirstSight(seen - 2) /\ ~Image!Within(seen - 2, 1)
      /\ keepRaw = "KeepRemainingRaw" =>
           \E i \in 0 .. seen - 2 : /\ Image!FirstSight(i)
                                    /\ Image!Within(i, 1) \/ i <= seen - 3

(* A block holds what its place in the input determines; the attribution's *)
(* verdict and the size follow at ReadAhead and Compress.                  *)
Portion(b) == b.have = MinOf(RunUnits, Total - b.lo) /\ b.have >= 1
Placed(b)  == b.start = b.idx * RunSectors /\ b.count = SectorsOf(b.have)
Judged(b)  == b.keep <=> Image!Raw(b.idx)

ContentInv ==
  /\ \A t \in Threads :
       /\ Holds(t) => Portion(blk[t]) /\ Placed(blk[t])
       /\ pc[t] \in {"compress", "queue"} => Judged(blk[t])
       /\ pc[t] = "queue" => blk[t].size >= 1
  /\ \A k \in DOMAIN pending :
       /\ Portion(pending[k]) /\ Placed(pending[k])
       /\ Judged(pending[k]) /\ pending[k].size >= 1
  /\ \A i \in DOMAIN out : /\ Portion(out[i]) /\ Judged(out[i])
                            /\ out[i].size >= 1

(* The entry of a run names the place of its bytes in the input and in the *)
(* file; no two runs share a byte of the file.                             *)
EntryInv ==
  /\ curSector = SectorsOf(Handed)
  /\ phase = "finished" => runs[curRun].start = curSector
                           /\ runs[curRun].count = 0
  /\ \A i \in DOMAIN out :
       /\ runs[i - 1].start = (i - 1) * RunSectors
       /\ runs[i - 1].count = SectorsOf(out[i].have)
       /\ runs[i - 1].off = out[i].off
       /\ runs[i - 1].size = out[i].size
  /\ \A i, j \in DOMAIN out : i < j => out[i].off + out[i].size <= out[j].off

(* The hooks have seen a raw run exactly if there is one in the file.      *)
SeenInv ==
  job.attribution =>
    (phase # "finished" =>
       (att.afterU >= 0 <=> \E i \in DOMAIN out : out[i].keep))

FullInv == /\ IndInv /\ InputInv /\ VerdictInv /\ ContentInv /\ EntryInv
           /\ SeenInv /\ AttributionSplit

(* When the caller returns, every run that was read has been written.      *)
NothingLeftBehind ==
  phase = "finished" => /\ Len(out) = curRun
                        /\ pending = <<>>
=============================================================================
